--------------------------- MODULE MCPolicyCrawl ---------------------------
(* Pages a, b and c on host h; page o on another host, which the link in o   *)
(* to itself spells in upper case, as O; a and b link to each other.        *)
EXTENDS PolicyCrawl, TLC

CONSTANTS a, b, c, o, O, bad, h, lower, Upper

MCUrls == {a, b, c, o, O, bad}
MCKeys == {a, b, c, o}
MCnormalizeURL == (O :> o) @@ (bad :> Invalid) @@ [u \in MCKeys |-> u]
MChostOf == (O :> Upper) @@ (o :> lower) @@ [u \in {a, b, c} |-> h]
MClowerHost == (Upper :> lower) @@ [x \in {h, lower, NoHost} |-> x]
MCLinks == (a :> {b, bad}) @@ (b :> {a, o}) @@ (o :> {c, O}) @@ [u \in {c, O, bad} |-> {}]
MCPermitted == MCUrls \X MCUrls

MCSetups ==
  {[policy |-> [depth |-> TRUE, inner |-> "allowAll"], limiter |-> "global"],
   [policy |-> [depth |-> TRUE, inner |-> "sameDomain"], limiter |-> "none"],
   [policy |-> [depth |-> TRUE, inner |-> "glob"], limiter |-> "none"],
   [policy |-> [depth |-> FALSE, inner |-> "maxPerDomain"], limiter |-> "none"]}

\* The other host is matched both before and after it is excluded: a loop that
\* let its first match decide, or its last, would let page o in.
MCGlobPatterns ==
  <<[neg |-> FALSE, hosts |-> {h, lower}], [neg |-> TRUE, hosts |-> {lower, Upper}],
    [neg |-> FALSE, hosts |-> {h, lower}]>>

\* The counterexample's site: a links to b and c, b back to a.
BackUrls == {a, b, c}
BacknormalizeURL == [u \in BackUrls |-> u]
BackPermitted == BackUrls \X BackUrls
BackhostOf == [u \in BackUrls |-> h]
BackLinks == (a :> {b, c}) @@ (b :> {a}) @@ (c :> {})
BackSetups == {[policy |-> [depth |-> TRUE, inner |-> "allowAll"], limiter |-> "none"]}
=============================================================================
