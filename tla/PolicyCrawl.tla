---------------------------- MODULE PolicyCrawl ----------------------------
(***************************************************************************)
(* An AsyncRunner with a link policy and a global rate limiter, and what   *)
(* becomes of both when the caller, after Run returned, adds more seeds    *)
(* and calls Run again with the same runner, queue and crawler: the policy *)
(* keeps what it recorded, the limiter's ticker has been stopped.          *)
(*                                                                         *)
(* The goroutines are AsyncRunner's; only the step that enqueues a link is *)
(* split, as in the code: the policy is asked, and then the link is added. *)
(* The monitor of the first Run reads the queue and nobody reads it, so it *)
(* is dropped when the second Run begins.                                  *)
(***************************************************************************)
EXTENDS AsyncRunner, LinkPolicy, GlobalRateLimiter

CONSTANTS Setups,      \* the options the runner may be created with
          LaterSeeds,  \* the URLs the caller may add before the second Run
          NoLink       \* no link has been accepted and not yet added

ASSUME HostOfAssumption == DOMAIN hostOf = ValidUrls
ASSUME SameKeySameHost ==
  \A u, v \in ValidUrls :
     normalizeURL[u] = normalizeURL[v] => lowerHost[hostOf[u]] = lowerHost[hostOf[v]]
ASSUME SetupsAssumption == Setups \subseteq [policy : Policies, limiter : {"none", "global"}]
ASSUME LaterSeedsAssumption == LaterSeeds \subseteq ValidUrls
ASSUME NoLinkAssumption == NoLink \notin Urls

VARIABLES asked,  \* the link each worker's policy call accepted, until it is added
          second  \* Run has been called again: the URLs added before, if so

crawlVars == <<vars, policyVars, limiterVars, asked, second>>

\* MemoryQueue.GetAllHosts: the hosts of the pending requests.
HostsOf(requests) ==
  {lowerHost[hostOf[requests[k].url]] : k \in {x \in Keys : requests[x] # NoRequest}}
    \ {NoHost}

CrawlTypeOK ==
  /\ PolicyTypeOK
  /\ LimiterTypeOK
  /\ asked \in [Workers -> ValidUrls \cup {NoLink}]
  /\ second \in SUBSET LaterSeeds

CrawlInit ==
  /\ Init
  /\ \E s \in Setups : PolicyInit(s.policy, HostsOf(pending)) /\ LimiterInit(s.limiter)
  /\ asked = [w \in Workers |-> NoLink]
  /\ second = {}
-----------------------------------------------------------------------------
\* The limiter decides when a worker may go on.
Wait(w) ==
  /\ \/ WaitGranted(w) /\ Granted
     \/ MayBeCancelled /\ WaitCancelled(w) /\ UNCHANGED limiterVars
  /\ UNCHANGED <<policyVars, asked>>

\* A mutant of AskPolicy: the policy is not asked.
AskPolicy_Unasked(w, l) ==
  /\ pc[w] = "crawl" /\ asked[w] = NoLink
  /\ l \in todo[w]
  /\ todo' = [todo EXCEPT ![w] = @ \ {l}]
  /\ asked' = IF l \in ValidUrls THEN [asked EXCEPT ![w] = l] ELSE asked
  /\ UNCHANGED <<queueVars, pc, activeWorkers, ctxDone, attempts, succeeded,
                 policyVars, limiterVars>>

\* The handler enqueues a link: EnqueueLinks passes over one that does not
\* parse, and ShouldEnqueue is asked about the others.
AskPolicy(w, l) ==
  LET accepted == l \in ValidUrls /\ Accepts(held[w].url, l) IN
  /\ pc[w] = "crawl" /\ asked[w] = NoLink
  /\ l \in todo[w]
  /\ todo' = [todo EXCEPT ![w] = @ \ {l}]
  /\ IF accepted THEN Remember(held[w].url, l) ELSE UNCHANGED policyVars
  /\ asked' = IF accepted THEN [asked EXCEPT ![w] = l] ELSE asked
  /\ UNCHANGED <<queueVars, pc, activeWorkers, ctxDone, attempts, succeeded, limiterVars>>

\* It was accepted: policyFilteredEnqueue adds it.
AddLink(w) ==
  /\ asked[w] # NoLink
  /\ Add(asked[w])
  /\ asked' = [asked EXCEPT ![w] = NoLink]
  /\ UNCHANGED <<loopVars, policyVars, limiterVars>>

CrawlReturns(w) ==
  /\ asked[w] = NoLink
  /\ CrawlSucceeds(w) \/ CrawlFails(w)
  /\ UNCHANGED <<policyVars, limiterVars, asked>>

FetchOrLeave(w) ==
  /\ \/ \E k \in Keys : FetchRequest(w, k, "head")
     \/ QueueEmpty(w, "head")
     \/ Deactivate(w)
  /\ UNCHANGED <<policyVars, limiterVars, asked>>

CrawlStep(w) ==
  /\ \/ FetchOrLeave(w)
     \/ Wait(w)
     \/ \E l \in todo[w] : AskPolicy(w, l)
     \/ AddLink(w)
     \/ CrawlReturns(w)
  /\ UNCHANGED <<runVars, second>>

\* Run returns, and its deferred call closes the limiter.
Returning(step) ==
  /\ step
  /\ IF main' = "returned" THEN CloseLimiter ELSE UNCHANGED limiterVars
  /\ UNCHANGED <<policyVars, asked, second>>

RunSteps ==
  \/ Returning(CloseWorkersDone)
  \/ Returning(ReachSelect)
  \/ Returning(Drained)

Monitoring ==
  /\ MonitorTick \/ MonitorLoad
  /\ UNCHANGED <<policyVars, limiterVars, asked, second>>

MonitorLeaves ==
  /\ MonitorCancelled
  /\ UNCHANGED <<policyVars, limiterVars, asked, second>>

CallerCancels ==
  /\ Cancel
  /\ UNCHANGED <<policyVars, limiterVars, asked, second>>

TickComes ==
  /\ TickerFires
  /\ UNCHANGED <<vars, policyVars, asked, second>>

\* The caller adds a URL and calls Run again, with a context of its own.
RunAgain ==
  /\ main = "returned" /\ second = {}
  /\ \E u \in LaterSeeds : Add(u) /\ second' = {u}
  /\ allowedHosts' = HostsToAllow(HostsOf(pending'))
  /\ pc' = [w \in Workers |-> "head"]
  /\ main' = "spawn"
  /\ result' = "none"
  /\ workersDone' = FALSE
  /\ monitor' = "ticker"
  /\ seenEmpty' = FALSE
  /\ ctxDone' = FALSE
  /\ UNCHANGED <<todo, activeWorkers, attempts, succeeded, policy, domainCounts, urlDepths,
                 limiterVars, asked>>

CrawlEnded ==
  /\ main = "returned" /\ monitor = "exited"
  /\ UNCHANGED crawlVars

CrawlNext ==
  \/ \E w \in Workers : CrawlStep(w)
  \/ RunSteps
  \/ Monitoring \/ MonitorLeaves
  \/ CallerCancels
  \/ TickComes
  \/ RunAgain
  \/ CrawlEnded

CrawlSpec == CrawlInit /\ [][CrawlNext]_crawlVars

\* As in AsyncRunner; and a ticker that is not stopped goes on ticking.
CrawlFairness ==
  /\ \A w \in Workers : WF_crawlVars(CrawlStep(w))
  /\ WF_crawlVars(RunSteps)
  /\ WF_crawlVars(Monitoring)
  /\ SF_crawlVars(MonitorLeaves)
  /\ WF_crawlVars(TickComes)

FairCrawlSpec == CrawlSpec /\ CrawlFairness
-----------------------------------------------------------------------------
SeedUrls == Seeds \cup second

\* Every page the queue ever accepted has a URL of which P holds.
KnownPagesHave(P(_)) == \A k \in KnownKeys : \E u \in ValidUrls : normalizeURL[u] = k /\ P(u)

\* u is n links away from a seed, along some path of links.
ReachedIn(n, u) ==
  \E path \in [0 .. n -> ValidUrls] :
     /\ path[0] \in SeedUrls
     /\ path[n] = u
     /\ \A i \in 0 .. n - 1 : path[i + 1] \in Links[path[i]]

\* With maxDepth no page enters the queue that is more than maxDepth links away
\* from every seed, however often pages are crawled again, in whatever order
\* their depths are overwritten, and in the second Run too.
WithinDepth ==
  policy.depth => KnownPagesHave(LAMBDA u : \E n \in 0 .. maxDepth : ReachedIn(n, u))

\* With sameDomain, alone or inside maxDepth, the crawl never leaves the hosts
\* of the seeds, those of the seeds of an earlier Run included.
SameDomainStays ==
  policy.inner = "sameDomain" =>
     KnownPagesHave(LAMBDA u : \E s \in SeedUrls : lowerHost[hostOf[s]] = lowerHost[hostOf[u]])

\* The hosts a list of patterns stands for, the list read as two sets: matched by
\* a positive pattern and by no negative one.  The order in which they come does
\* not matter, and a path is never looked at.
Matches(patterns, h) ==
  /\ \E i \in DOMAIN patterns : ~patterns[i].neg /\ h \in patterns[i].hosts
  /\ \A i \in DOMAIN patterns : patterns[i].neg => h \notin patterns[i].hosts

\* With glob, alone or inside maxDepth, the crawl stays on the seeds and the
\* hosts its list stands for, a host that a positive pattern matches before or
\* after the negative one that excludes it being left out in both cases.
GlobMatches ==
  policy.inner = "glob" =>
     KnownPagesHave(LAMBDA u : u \in SeedUrls \/ Matches(globPatterns, hostOf[u]))

PagesOf(h) ==
  {k \in KnownKeys : \E u \in ValidUrls : normalizeURL[u] = k /\ lowerHost[hostOf[u]] = h}

SeedKeys == {normalizeURL[s] : s \in SeedUrls}

\* With maxPerDomain the pages of a host other than seeds are at most
\* maxPerDomain for each of its spellings, over both Runs and however many
\* workers accept links at once.
PagesPerDomain ==
  policy.inner = "maxPerDomain" =>
     \A h \in Hosts :
        Cardinality(PagesOf(h) \ SeedKeys)
          <= maxPerDomain * Cardinality({s \in Hosts : lowerHost[s] = h})

\* A Run that starts with a running ticker, or with no limiter, ends, on a site
\* whose pages link to each other and are added again while they are crawled;
\* and a cancelled Run ends in any case.  The second Run with a global limiter,
\* whose ticker the first one stopped, crawls nothing and ends only that way.
RunEnds == (main = "spawn" /\ ~stopped) \/ ctxDone ~> main = "returned"

\* What maxDepthPolicy is named for: a Run that returns nil, with no other
\* policy, no failure and no cancellation, has visited every page that is at
\* most maxDepth links away from a seed.
DepthIsComplete ==
  result = "nil" /\ policy = [depth |-> TRUE, inner |-> "allowAll"] =>
     \A u \in ValidUrls : (\E n \in 0 .. maxDepth : ReachedIn(n, u)) => normalizeURL[u] \in visited
=============================================================================
