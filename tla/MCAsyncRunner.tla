--------------------------- MODULE MCAsyncRunner ---------------------------
(* The site of each run: its pages, their links and what the policy says.   *)
EXTENDS AsyncRunner, TLC

CONSTANTS a, b, c, d, A

Pages == {a, b, c, d, A}
MCUrls == Pages
MCKeys == {a, b, c, d}
MCnormalizeURL == (A :> a) @@ [u \in Pages \ {A} |-> u]
MCSymmetry == Permutations(Workers)

\* A site in which every page is linked once, from a page that does not fail;
\* d is off limits.
TreeLinks == (a :> {c, d}) @@ [u \in Pages |-> {}]
TreePermitted == (Pages \X Pages) \ {<<a, d>>}

\* A site with a cycle and a page that links to itself; a has two spellings,
\* and only the one the site itself uses leads to c.
CyclicPages == {a, b, c, A}
CyclicKeys == {a, b, c}
CyclicnormalizeURL == (A :> a) @@ [u \in CyclicKeys |-> u]
CyclicLinks == (a :> {b}) @@ (b :> {A, b}) @@ (A :> {b, c}) @@ (c :> {})
CyclicPermitted == CyclicPages \X CyclicPages
=============================================================================
