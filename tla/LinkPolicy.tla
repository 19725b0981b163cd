----------------------------- MODULE LinkPolicy -----------------------------
(***************************************************************************)
(* The link policies of runner/link_policy.go: what ShouldEnqueue answers  *)
(* for a link and what it remembers.  A runner has one policy: allowAll,   *)
(* allowNone, sameDomain, maxPerDomain, a list of glob patterns, or        *)
(* maxDepth around one of them (around allowAll stands also for no inner   *)
(* policy).  The stateful policies hold their mutex during the whole call, *)
(* so a call is one step.                                                  *)
(***************************************************************************)
EXTENDS Integers, Sequences

CONSTANTS Hosts,         \* the hosts of URLs, as they are spelled
          NoHost,        \* the host "" of a relative URL
          hostOf,        \* the host of each URL that parses
          lowerHost,     \* its spelling in lower case
          globPatterns,  \* the patterns of globPolicy
          maxDepth,      \* the limit of maxDepthPolicy
          maxPerDomain   \* the limit of maxPerDomainPolicy

ASSUME MaxDepthAssumption == maxDepth \in Nat
ASSUME MaxPerDomainAssumption == maxPerDomain \in Nat
\* A pattern, with or without a leading "!", and the hosts filepath.Match finds
\* it to match: none if it is malformed.
Pattern == [neg : BOOLEAN, hosts : SUBSET (Hosts \cup {NoHost})]

ASSUME GlobAssumption == globPatterns \in Seq(Pattern)
ASSUME HostAssumption ==
  /\ NoHost \notin Hosts
  /\ hostOf \in [DOMAIN hostOf -> Hosts \cup {NoHost}]
  /\ lowerHost \in [Hosts \cup {NoHost} -> Hosts \cup {NoHost}]
  /\ \A h \in Hosts : lowerHost[h] \in Hosts /\ lowerHost[lowerHost[h]] = lowerHost[h]
  /\ lowerHost[NoHost] = NoHost

VARIABLES policy,        \* the runner's policy: [depth, inner]
          allowedHosts,  \* sameDomainPolicy.allowedHosts
          domainCounts,  \* maxPerDomainPolicy.domainCounts, 0 where absent
          urlDepths      \* maxDepthPolicy.urlDepths, 0 where absent

policyVars == <<policy, allowedHosts, domainCounts, urlDepths>>

Policies ==
  [depth : BOOLEAN, inner : {"allowAll", "allowNone", "sameDomain", "maxPerDomain", "glob"}]

PolicyTypeOK ==
  /\ policy \in Policies
  /\ allowedHosts \in SUBSET Hosts
  /\ domainCounts \in [Hosts -> 0 .. maxPerDomain]
  /\ urlDepths \in [DOMAIN hostOf -> 0 .. maxDepth]

\* sameDomainPolicy.Initialize, given what queue.GetAllHosts returned.
HostsToAllow(hosts) == IF policy.inner = "sameDomain" THEN hosts ELSE allowedHosts

PolicyInit(given, hosts) ==
  /\ policy = given
  /\ allowedHosts = IF given.inner = "sameDomain" THEN hosts ELSE {}
  /\ domainCounts = [h \in Hosts |-> 0]
  /\ urlDepths = [u \in DOMAIN hostOf |-> 0]
-----------------------------------------------------------------------------
\* A mutant of Glob: the loop goes on after a negative pattern that matches.
Glob_LastWins(patterns, h) ==
  LET allowed[i \in 0 .. Len(patterns)] ==
        i > 0 /\ (IF h \in patterns[i].hosts THEN ~patterns[i].neg ELSE allowed[i - 1])
  IN allowed[Len(patterns)]

\* globPolicy.ShouldEnqueue: the loop over the patterns, which returns false at
\* the first negative one that matches.
Glob(patterns, h) ==
  LET scan[i \in 0 .. Len(patterns)] ==
        IF i = 0 THEN [stop |-> FALSE, allowed |-> FALSE]
        ELSE LET prev == scan[i - 1] IN
             IF prev.stop \/ h \notin patterns[i].hosts THEN prev
             ELSE [stop |-> patterns[i].neg, allowed |-> ~patterns[i].neg]
  IN scan[Len(patterns)].allowed

\* A mutant of BelowLimit: off by one at the limit of a host.
BelowLimit_OneMore(h) == h # NoHost /\ domainCounts[h] <= maxPerDomain

\* maxPerDomainPolicy.ShouldEnqueue.
BelowLimit(h) == h # NoHost /\ domainCounts[h] < maxPerDomain

InnerAccepts(u) ==
  \/ policy.inner = "allowAll"
  \/ policy.inner = "sameDomain" /\ hostOf[u] \in allowedHosts
  \/ policy.inner = "maxPerDomain" /\ BelowLimit(hostOf[u])
  \/ policy.inner = "glob" /\ Glob(globPatterns, hostOf[u])

\* A mutant of TargetDepth: a link is as deep as its page.
TargetDepth_Same(current) == urlDepths[current]

\* A page that was never accepted as a link counts as a seed, of depth 0.
TargetDepth(current) == urlDepths[current] + 1

\* What ShouldEnqueue(current, u) answers.
Accepts(current, u) ==
  /\ policy.depth => hostOf[u] # NoHost /\ TargetDepth(current) <= maxDepth
  /\ InnerAccepts(u)

\* A mutant of CountLink: accepted links are not counted.
CountLink_Uncounted(h) == UNCHANGED domainCounts

CountLink(h) ==
  domainCounts' = IF policy.inner = "maxPerDomain"
                  THEN [domainCounts EXCEPT ![h] = @ + 1] ELSE domainCounts

\* It overwrites the depth the URL had.
SetDepth(current, u) ==
  urlDepths' = IF policy.depth THEN [urlDepths EXCEPT ![u] = TargetDepth(current)] ELSE urlDepths

\* What an accepting call records: the inner policy first, then maxDepth.
Remember(current, u) ==
  /\ CountLink(hostOf[u])
  /\ SetDepth(current, u)
  /\ UNCHANGED <<policy, allowedHosts>>
=============================================================================
