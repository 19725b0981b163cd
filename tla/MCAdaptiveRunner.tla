-------------------------- MODULE MCAdaptiveRunner --------------------------
(* The sites of the runs: a links to b and c, or to b alone.                *)
EXTENDS AdaptiveRunner, TLC

CONSTANTS a, b, c

MCUrls == {a, b, c}
MCnormalizeURL == [u \in MCUrls |-> u]
MCLinks == (a :> {b, c}) @@ [u \in MCUrls |-> {}]
MCPermitted == MCUrls \X MCUrls
MCSymmetry == Permutations(Workers)

SmallUrls == {a, b}
SmallnormalizeURL == [u \in SmallUrls |-> u]
SmallLinks == (a :> {b}) @@ (b :> {})
SmallPermitted == SmallUrls \X SmallUrls
=============================================================================
