------------------------- MODULE PolicyCrawlProofs -------------------------
(* What the link policies promise of a crawl, over both Runs, for every     *)
(* site, every number of workers, every limit and every list of hosts.      *)
EXTENDS PolicyCrawl, WorkerLoopProofs, IterationLemmas, FunctionTheorems

\* A worker that waits or crawls has a request, and the links it has still to
\* enqueue are links of that page.
WorkersHold ==
  \A w \in Workers :
     /\ pc[w] \in {"wait", "crawl"} => held[w] # NoRequest
     /\ pc[w] = "crawl" => todo[w] \subseteq Links[held[w].url]

Labels == {"idle", "head", "fetch", "wait", "crawl", "deactivate", "done"}

CrawlInv ==
  /\ QueueTypeOK
  /\ pc \in [Workers -> Labels]
  /\ todo \in [Workers -> SUBSET Urls]
  /\ CrawlTypeOK
  /\ WorkersHold

\* The URLs that are pending, in a worker's hands or about to be added.
Circulating ==
  {pending[k].url : k \in PendingKeys}
    \cup {held[w].url : w \in {x \in Workers : held[x] # NoRequest}}
    \cup {asked[w] : w \in {x \in Workers : asked[x] # NoLink}}

\* The URLs in circulation are in G, and every visited key has a URL in H.
FoundIn(G, H) ==
  /\ Circulating \subseteq G
  /\ \A k \in visited : \E u \in H : normalizeURL[u] = k

\* The steps of the queue under the workers, but for Add.
QueueStep ==
  \/ \E w \in Workers, k \in Keys : FetchNext(w, k)
  \/ \E w \in Workers : MarkHandled(w) \/ MarkHandledWithError(w)
  \/ UNCHANGED queueVars

\* The steps that leave alone what the policy and the caller know.
PolicyQuiet == QueueStep /\ UNCHANGED <<policyVars, asked, second>>

-----------------------------------------------------------------------------
(* The requests on their way between the queue and the workers.             *)

LEMMA FetchFound ==
  ASSUME NEW G, NEW H, FoundIn(G, H), QueueTypeOK, UNCHANGED asked,
         NEW w \in Workers, NEW k \in Keys, FetchNext(w, k)
  PROVE  FoundIn(G, H)'
<1>1. held' = [held EXCEPT ![w] = pending[k]] /\ pending[k] # NoRequest
  BY DEF FetchNext
<1>2. pending' = [pending EXCEPT ![k] = NoRequest] /\ visited' = visited
  BY DEF FetchNext
<1>3. \A x \in PendingKeys' : x \in PendingKeys /\ pending'[x] = pending[x]
  BY <1>2 DEF PendingKeys, QueueTypeOK
<1>4. \A v \in Workers : held'[v] = held[v] \/ held'[v] = pending[k]
  BY <1>1 DEF QueueTypeOK
<1>5. k \in PendingKeys
  BY <1>1 DEF PendingKeys
<1>6. Circulating' \subseteq Circulating
  BY <1>3, <1>4, <1>5 DEF Circulating
<1> QED
  BY <1>2, <1>6 DEF FoundIn

\* A marked request is gone or pending again, under the same URL.
LEMMA MarkFound ==
  ASSUME NEW G, NEW H, G \subseteq H, FoundIn(G, H), QueueTypeOK, UNCHANGED asked,
         NEW w \in Workers, MarkHandled(w) \/ MarkHandledWithError(w)
  PROVE  FoundIn(G, H)'
<1>1. held[w] # NoRequest /\ held' = [held EXCEPT ![w] = NoRequest]
  BY DEF MarkHandled, MarkHandledWithError
<1>2. held[w] \in Request /\ UniqueKey(held[w]) \in Keys
  BY <1>1, HeldIsRequest
<1>3. /\ UniqueKey(Retried(held[w])) = UniqueKey(held[w])
      /\ Retried(held[w]).url = held[w].url
  BY <1>2, RetriedType
<1>4. held[w].url \in Circulating
  BY <1>1 DEF Circulating
<1>5. \A x \in visited' : x \in visited \/ x = normalizeURL[held[w].url]
  BY <1>3 DEF MarkHandled, MarkHandledWithError, UniqueKey
<1>6. \A x \in PendingKeys' :
        (x \in PendingKeys /\ pending'[x] = pending[x]) \/ pending'[x].url = held[w].url
  <2>1. pending' = pending \/ pending' = [pending EXCEPT ![UniqueKey(held[w])] = Retried(held[w])]
    BY <1>3 DEF MarkHandled, MarkHandledWithError
  <2> QED
    BY <2>1, <1>2, <1>3 DEF PendingKeys, QueueTypeOK
<1>7. \A v \in Workers : held'[v] # NoRequest => held[v] # NoRequest /\ held'[v] = held[v]
  BY <1>1 DEF QueueTypeOK
<1>8. Circulating' \subseteq Circulating
  BY <1>4, <1>6, <1>7 DEF Circulating
<1> QED
  BY <1>4, <1>5, <1>8 DEF FoundIn

LEMMA QueueStepFound ==
  ASSUME NEW G, NEW H, G \subseteq H, FoundIn(G, H), QueueTypeOK, UNCHANGED asked, QueueStep
  PROVE  FoundIn(G, H)'
<1>1. CASE UNCHANGED queueVars
  BY <1>1 DEF queueVars, FoundIn, Circulating, PendingKeys
<1> QED
  BY <1>1, FetchFound, MarkFound DEF QueueStep

\* A URL of G is added; the workers' accepted links are what they were, or less.
LEMMA AddFound ==
  ASSUME NEW G, NEW H, FoundIn(G, H), QueueTypeOK,
         NEW u \in G, u \in Urls, Add(u),
         \A w \in Workers : asked'[w] # NoLink => asked[w] # NoLink /\ asked'[w] = asked[w]
  PROVE  FoundIn(G, H)'
<1>1. held' = held /\ visited' = visited
  BY DEF Add
<1>2. \A x \in PendingKeys' :
        (x \in PendingKeys /\ pending'[x] = pending[x]) \/ pending'[x].url = u
  BY DEF Add, PendingKeys, QueueTypeOK
<1>3. Circulating' \subseteq Circulating \cup {u}
  BY <1>1, <1>2 DEF Circulating
<1> QED
  BY <1>1, <1>3 DEF FoundIn

-----------------------------------------------------------------------------
(* The invariant of the workers and of what the policy remembers.           *)

LEMMA HostOfValid ==
  ASSUME NEW u \in ValidUrls
  PROVE  /\ u \in Urls
         /\ hostOf[u] \in Hosts \cup {NoHost}
         /\ lowerHost[hostOf[u]] \in Hosts \cup {NoHost}
BY HostOfAssumption, HostAssumption DEF ValidUrls

LEMMA HostsOfType ==
  ASSUME NEW requests \in [Keys -> Request \cup {NoRequest}]
  PROVE  HostsOf(requests) \subseteq Hosts
<1> SUFFICES ASSUME NEW k \in Keys, requests[k] # NoRequest
             PROVE  lowerHost[hostOf[requests[k].url]] \in Hosts \cup {NoHost}
  BY DEF HostsOf
<1>1. requests[k].url \in ValidUrls
  BY DEF Request
<1> QED
  BY <1>1, HostOfValid

LEMMA InitCrawlInv == CrawlInit => CrawlInv
<1> SUFFICES ASSUME CrawlInit
             PROVE  CrawlInv
  OBVIOUS
<1>1. QueueTypeOK
  <2>1. \A k \in Keys : \A u \in Seeds : normalizeURL[u] = k =>
          (CHOOSE v \in Seeds : normalizeURL[v] = k) = u
    BY SeedsAssumption
  <2>2. \A u \in Seeds : [url |-> u, retry |-> 0] \in Request
    BY SeedsAssumption, MaxRetriesPositive DEF Request
  <2> QED
    BY <2>1, <2>2, SeedsAssumption
       DEF CrawlInit, Init, LoopInit, Seeded, QueueTypeOK, UniqueKey
<1>2. PICK s \in Setups : PolicyInit(s.policy, HostsOf(pending)) /\ LimiterInit(s.limiter)
  BY DEF CrawlInit
<1>3. s.policy \in Policies /\ s.limiter \in {"none", "global"}
  BY SetupsAssumption
<1>4. PolicyTypeOK
  <2>1. HostsOf(pending) \subseteq Hosts
    BY <1>1, HostsOfType DEF QueueTypeOK
  <2>2. 0 \in 0 .. maxPerDomain /\ 0 \in 0 .. maxDepth
    BY MaxPerDomainAssumption, MaxDepthAssumption
  <2> QED
    BY <1>2, <1>3, <2>1, <2>2 DEF PolicyInit, PolicyTypeOK
<1>5. LimiterTypeOK
  BY <1>2, <1>3 DEF LimiterInit, LimiterTypeOK
<1>6. CrawlTypeOK
  BY <1>4, <1>5 DEF CrawlInit, CrawlTypeOK
<1> QED
  BY <1>1, <1>6 DEF CrawlInit, Init, LoopInit, CrawlInv, WorkersHold, Labels

\* An accepting call keeps the counts and depths within their limits.
LEMMA RememberType ==
  ASSUME PolicyTypeOK, NEW current \in ValidUrls, NEW u \in ValidUrls,
         Accepts(current, u), Remember(current, u)
  PROVE  PolicyTypeOK'
<1>1. current \in DOMAIN hostOf /\ u \in DOMAIN hostOf
  BY HostOfAssumption
<1>2. domainCounts' \in [Hosts -> 0 .. maxPerDomain]
  <2>1. CASE policy.inner = "maxPerDomain"
    <3>1. hostOf[u] \in Hosts /\ domainCounts[hostOf[u]] < maxPerDomain
      BY <2>1, HostOfValid DEF Accepts, InnerAccepts, BelowLimit
    <3>2. domainCounts[hostOf[u]] \in 0 .. maxPerDomain
      BY <3>1 DEF PolicyTypeOK
    <3>3. domainCounts[hostOf[u]] + 1 \in 0 .. maxPerDomain
      BY <3>1, <3>2, MaxPerDomainAssumption
    <3> QED
      BY <2>1, <3>3 DEF PolicyTypeOK, Remember, CountLink, SetDepth
  <2> QED
    BY <2>1 DEF PolicyTypeOK, Remember, CountLink, SetDepth
<1>3. urlDepths' \in [DOMAIN hostOf -> 0 .. maxDepth]
  <2>1. CASE policy.depth
    <3>1. urlDepths[current] \in 0 .. maxDepth /\ urlDepths[current] + 1 <= maxDepth
      BY <1>1, <2>1 DEF PolicyTypeOK, Accepts, TargetDepth
    <3>2. TargetDepth(current) \in 0 .. maxDepth
      BY <3>1, MaxDepthAssumption DEF TargetDepth
    <3> QED
      BY <2>1, <3>2 DEF PolicyTypeOK, Remember, CountLink, SetDepth
  <2> QED
    BY <2>1 DEF PolicyTypeOK, Remember, CountLink, SetDepth
<1> QED
  BY <1>2, <1>3 DEF PolicyTypeOK, Remember, CountLink, SetDepth

\* A worker's steps other than asking the policy and adding a link.
LEMMA QuietWorker ==
  ASSUME NEW w \in Workers, CrawlStep(w),
         ~(\E l \in todo[w] : AskPolicy(w, l)), ~AddLink(w)
  PROVE  PolicyQuiet
<1>1. FetchOrLeave(w) \/ Wait(w) \/ CrawlReturns(w)
  BY DEF CrawlStep
<1> QED
  BY <1>1 DEF CrawlStep, FetchOrLeave, Wait, CrawlReturns, PolicyQuiet, QueueStep, FetchRequest,
              QueueEmpty, Deactivate, WaitGranted, WaitCancelled, CrawlSucceeds, CrawlFails

\* One worker moves to a label; what it has there is what the label asks for.
LEMMA OneWorkerMoves ==
  ASSUME CrawlInv, NEW w \in Workers, NEW label \in Labels, Goto(w, label),
         \A v \in Workers \ {w} : held'[v] = held[v] /\ todo'[v] = todo[v],
         label \in {"wait", "crawl"} => held'[w] # NoRequest,
         label = "crawl" => todo'[w] \subseteq Links[held'[w].url]
  PROVE  pc' \in [Workers -> Labels] /\ WorkersHold'
<1>1. pc' \in [Workers -> Labels]
  BY DEF CrawlInv, Goto
<1>2. ASSUME NEW v \in Workers
      PROVE  /\ pc'[v] \in {"wait", "crawl"} => held'[v] # NoRequest
             /\ pc'[v] = "crawl" => todo'[v] \subseteq Links[held'[v].url]
  <2>1. CASE v = w
    BY <2>1 DEF CrawlInv, Goto
  <2>2. CASE v # w
    BY <2>2 DEF CrawlInv, Goto, WorkersHold
  <2> QED
    BY <2>1, <2>2
<1> QED
  BY <1>1, <1>2 DEF WorkersHold

LEMMA OneWorkerRests ==
  ASSUME CrawlInv, NEW w \in Workers,
         Goto(w, "head") \/ Goto(w, "deactivate") \/ Goto(w, "done"),
         \A v \in Workers \ {w} : held'[v] = held[v] /\ todo'[v] = todo[v]
  PROVE  pc' \in [Workers -> Labels] /\ WorkersHold'
<1>1. PICK label \in {"head", "deactivate", "done"} : Goto(w, label)
  OBVIOUS
<1>2. label \in Labels /\ label \notin {"wait", "crawl"}
  BY DEF Labels
<1> QED
  BY <1>1, <1>2, OneWorkerMoves

LEMMA WorkerStepInv ==
  ASSUME CrawlInv, NEW w \in Workers, CrawlStep(w),
         ~(\E l \in todo[w] : AskPolicy(w, l)), ~AddLink(w)
  PROVE  CrawlInv'
<1>1. QueueTypeOK' /\ CrawlTypeOK'
  <2>1. PolicyQuiet
    BY QuietWorker
  <2>2. QueueTypeOK'
    <3>1. CASE UNCHANGED queueVars
      BY <3>1 DEF CrawlInv, QueueTypeOK, queueVars, UniqueKey
    <3> QED
      BY <2>1, <3>1, FetchNextType, MarkHandledType, MarkHandledWithErrorType
         DEF CrawlInv, PolicyQuiet, QueueStep
  <2>3. LimiterTypeOK'
    BY DEF CrawlStep, FetchOrLeave, Wait, CrawlReturns, Granted, limiterVars, CrawlInv,
           CrawlTypeOK, LimiterTypeOK
  <2> QED
    BY <2>1, <2>2, <2>3 DEF PolicyQuiet, policyVars, CrawlInv, CrawlTypeOK, PolicyTypeOK
<1>2. ASSUME NEW k \in Keys, FetchRequest(w, k, "head")
      PROVE  pc' \in [Workers -> Labels] /\ todo' \in [Workers -> SUBSET Urls] /\ WorkersHold'
  <2>1. "wait" \in Labels /\ Goto(w, "wait") /\ todo' = todo
    BY <1>2 DEF FetchRequest, Labels
  <2>2. held' = [held EXCEPT ![w] = pending[k]] /\ pending[k] # NoRequest
    BY <1>2 DEF FetchRequest, FetchNext
  <2> QED
    BY <2>1, <2>2, OneWorkerMoves DEF CrawlInv, QueueTypeOK
<1>3. ASSUME QueueEmpty(w, "head") \/ Deactivate(w)
      PROVE  pc' \in [Workers -> Labels] /\ todo' \in [Workers -> SUBSET Urls] /\ WorkersHold'
  <2>1. (Goto(w, "done") \/ Goto(w, "head")) /\ todo' = todo /\ held' = held
    BY <1>3 DEF QueueEmpty, Deactivate, queueVars
  <2> QED
    BY <2>1, OneWorkerRests DEF CrawlInv
<1>4. ASSUME WaitGranted(w)
      PROVE  pc' \in [Workers -> Labels] /\ todo' \in [Workers -> SUBSET Urls] /\ WorkersHold'
  <2>1. held[w] # NoRequest
    BY <1>4 DEF WaitGranted, CrawlInv, WorkersHold
  <2>2. Links[held[w].url] \in SUBSET Urls
    BY <2>1, HeldIsRequest, LinksAssumption DEF CrawlInv, Request, ValidUrls
  <2>3. /\ Goto(w, "crawl") /\ held' = held
        /\ todo' = [todo EXCEPT ![w] = Links[held[w].url]]
    BY <1>4 DEF WaitGranted, queueVars
  <2>4. /\ todo' \in [Workers -> SUBSET Urls]
        /\ todo'[w] = Links[held'[w].url]
        /\ \A v \in Workers \ {w} : held'[v] = held[v] /\ todo'[v] = todo[v]
    BY <2>2, <2>3 DEF CrawlInv
  <2>5. "crawl" \in Labels
    BY DEF Labels
  <2> QED
    BY <2>1, <2>3, <2>4, <2>5, OneWorkerMoves
<1>5. ASSUME WaitCancelled(w) \/ CrawlSucceeds(w) \/ CrawlFails(w)
      PROVE  pc' \in [Workers -> Labels] /\ todo' \in [Workers -> SUBSET Urls] /\ WorkersHold'
  <2>2. Goto(w, "done") \/ Goto(w, "deactivate")
    BY <1>5 DEF WaitCancelled, CrawlSucceeds, CrawlFails
  <2>3. held' = [held EXCEPT ![w] = NoRequest]
    BY <1>5 DEF WaitCancelled, CrawlSucceeds, CrawlFails, MarkHandled, MarkHandledWithError
  <2>4. todo' = todo \/ todo' = [todo EXCEPT ![w] = {}]
    BY <1>5 DEF WaitCancelled, CrawlSucceeds, CrawlFails
  <2>5. /\ todo' \in [Workers -> SUBSET Urls]
        /\ \A v \in Workers \ {w} : held'[v] = held[v] /\ todo'[v] = todo[v]
    BY <2>3, <2>4 DEF CrawlInv, QueueTypeOK
  <2> QED
    BY <2>2, <2>5, OneWorkerRests
<1>6. pc' \in [Workers -> Labels] /\ todo' \in [Workers -> SUBSET Urls] /\ WorkersHold'
  BY <1>2, <1>3, <1>4, <1>5 DEF CrawlStep, FetchOrLeave, Wait, CrawlReturns
<1> QED
  BY <1>1, <1>6 DEF CrawlInv

LEMMA AskPolicyInv ==
  ASSUME CrawlInv, NEW w \in Workers, NEW l \in todo[w], AskPolicy(w, l),
         UNCHANGED <<runVars, second>>
  PROVE  CrawlInv'
<1>1. held[w] # NoRequest /\ held[w].url \in ValidUrls
  BY HeldIsRequest DEF AskPolicy, CrawlInv, WorkersHold, Request
<1>2. PolicyTypeOK'
  BY <1>1, RememberType DEF AskPolicy, CrawlInv, CrawlTypeOK, policyVars, PolicyTypeOK
<1>3. QueueTypeOK'
  BY DEF AskPolicy, CrawlInv, QueueTypeOK, queueVars, UniqueKey
<1>4. CrawlTypeOK'
  BY <1>2 DEF AskPolicy, CrawlInv, CrawlTypeOK, LimiterTypeOK, limiterVars
<1>5. pc' = pc /\ held' = held /\ todo' = [todo EXCEPT ![w] = todo[w] \ {l}]
  BY DEF AskPolicy, queueVars
<1> QED
  BY <1>3, <1>4, <1>5 DEF CrawlInv, WorkersHold

LEMMA AddLinkInv ==
  ASSUME CrawlInv, NEW w \in Workers, AddLink(w), UNCHANGED <<runVars, second>>
  PROVE  CrawlInv'
<1>1. asked[w] \in Urls
  BY HostOfValid DEF AddLink, CrawlInv, CrawlTypeOK
<1>2. QueueTypeOK'
  BY <1>1, AddType DEF AddLink, CrawlInv
<1>3. CrawlTypeOK'
  BY DEF AddLink, CrawlInv, CrawlTypeOK, PolicyTypeOK, policyVars, LimiterTypeOK, limiterVars
<1>4. pc' = pc /\ held' = held /\ todo' = todo
  BY DEF AddLink, Add, loopVars
<1> QED
  BY <1>2, <1>3, <1>4 DEF CrawlInv, WorkersHold

LEMMA RunAgainInv ==
  ASSUME CrawlInv, RunAgain
  PROVE  CrawlInv'
<1>1. PICK u \in LaterSeeds : Add(u) /\ second' = {u}
  BY DEF RunAgain
<1>2. u \in Urls
  BY LaterSeedsAssumption, HostOfValid
<1>3. QueueTypeOK'
  BY <1>1, <1>2, AddType DEF CrawlInv
<1>4. HostsOf(pending') \subseteq Hosts
  BY <1>3, HostsOfType DEF QueueTypeOK
<1>5. PolicyTypeOK'
  BY <1>4 DEF RunAgain, HostsToAllow, CrawlInv, CrawlTypeOK, PolicyTypeOK
<1>6. CrawlTypeOK'
  BY <1>1, <1>5 DEF RunAgain, CrawlInv, CrawlTypeOK, LimiterTypeOK, limiterVars
<1> QED
  BY <1>3, <1>6 DEF RunAgain, CrawlInv, WorkersHold, Labels

\* The steps that change nothing the invariant speaks of.
LEMMA OtherStepInv ==
  ASSUME CrawlInv,
         \/ RunSteps \/ Monitoring \/ MonitorLeaves \/ CallerCancels \/ TickComes
         \/ CrawlEnded \/ UNCHANGED crawlVars
  PROVE  CrawlInv' /\ PolicyQuiet
<1>1. UNCHANGED <<queueVars, pc, todo, policyVars, asked, second>>
  BY DEF RunSteps, Returning, CloseWorkersDone, ReachSelect, Drained, Monitoring, MonitorTick,
         MonitorLoad, MonitorLeaves, MonitorCancelled, CallerCancels, Cancel, TickComes,
         CrawlEnded, crawlVars, vars, loopVars
<1>2. LimiterTypeOK'
  <2>1. UNCHANGED limiterVars \/ CloseLimiter \/ TickerFires
    BY DEF RunSteps, Returning, Monitoring, MonitorLeaves, CallerCancels, TickComes,
           CrawlEnded, crawlVars
  <2> QED
    BY <2>1 DEF CloseLimiter, TickerFires, limiterVars, CrawlInv, CrawlTypeOK, LimiterTypeOK
<1>3. CrawlTypeOK'
  BY <1>1, <1>2 DEF policyVars, CrawlInv, CrawlTypeOK, PolicyTypeOK
<1>4. QueueTypeOK' /\ WorkersHold'
  BY <1>1 DEF queueVars, CrawlInv, QueueTypeOK, UniqueKey, WorkersHold
<1> QED
  BY <1>1, <1>3, <1>4 DEF CrawlInv, PolicyQuiet, QueueStep

LEMMA NextCrawlInv == CrawlInv /\ [CrawlNext]_crawlVars => CrawlInv'
<1> SUFFICES ASSUME CrawlInv, [CrawlNext]_crawlVars
             PROVE  CrawlInv'
  OBVIOUS
<1>1. ASSUME NEW w \in Workers, CrawlStep(w)
      PROVE  CrawlInv'
  <2>1. ASSUME NEW l \in todo[w], AskPolicy(w, l)
        PROVE  CrawlInv'
    BY <1>1, <2>1, AskPolicyInv DEF CrawlStep
  <2>2. CASE AddLink(w)
    BY <1>1, <2>2, AddLinkInv DEF CrawlStep
  <2> QED
    BY <1>1, <2>1, <2>2, WorkerStepInv
<1> QED
  BY <1>1, OtherStepInv, RunAgainInv DEF CrawlNext

\* Types, and with them the limits: no host's count and no page's depth ever
\* exceeds its limit, whichever workers ask at once.
THEOREM CrawlTypeCorrect == CrawlSpec => []CrawlTypeOK
<1>1. CrawlInv => CrawlTypeOK
  BY DEF CrawlInv
<1> QED
  BY <1>1, InitCrawlInv, NextCrawlInv, PTL DEF CrawlSpec

-----------------------------------------------------------------------------
(* What one step adds to the pages found so far.                            *)

\* A quiet step finds nothing new.
LEMMA QuietFound ==
  ASSUME NEW G, NEW H, G \subseteq H, FoundIn(G, H), CrawlInv, PolicyQuiet
  PROVE  FoundIn(G, H)'
BY QueueStepFound DEF PolicyQuiet, CrawlInv

\* Asking the policy puts the link into circulation, if it was accepted.
LEMMA AskFound ==
  ASSUME NEW G, NEW H, G \subseteq H, FoundIn(G, H), CrawlInv,
         NEW w \in Workers, NEW l, AskPolicy(w, l), asked' # asked => l \in G
  PROVE  FoundIn(G, H)'
<1>1. UNCHANGED queueVars
  BY DEF AskPolicy
<1>2. asked' = asked \/ asked' = [asked EXCEPT ![w] = l]
  <2> DEFINE accepted == l \in ValidUrls /\ Accepts(held[w].url, l)
  <2>1. asked' = IF accepted THEN [asked EXCEPT ![w] = l] ELSE asked
    BY DEF AskPolicy
  <2> QED
    BY <2>1
<1>3. Circulating' \subseteq Circulating \cup G
  BY <1>1, <1>2 DEF Circulating, queueVars, PendingKeys, CrawlInv, CrawlTypeOK
<1> QED
  BY <1>1, <1>3 DEF FoundIn, queueVars

LEMMA AddLinkFound ==
  ASSUME NEW G, NEW H, FoundIn(G, H), CrawlInv, NEW w \in Workers, AddLink(w)
  PROVE  FoundIn(G, H)'
<1>1. asked[w] \in G
  BY DEF AddLink, FoundIn, Circulating
<1>2. asked[w] \in Urls
  BY HostOfValid DEF AddLink, CrawlInv, CrawlTypeOK
<1>3. \A v \in Workers : asked'[v] # NoLink => asked[v] # NoLink /\ asked'[v] = asked[v]
  BY DEF AddLink, CrawlInv, CrawlTypeOK
<1> QED
  BY <1>1, <1>2, <1>3, AddFound DEF AddLink, CrawlInv

LEMMA RunAgainFound ==
  ASSUME NEW G, NEW H, FoundIn(G, H), CrawlInv, RunAgain, second' \subseteq G
  PROVE  FoundIn(G, H)'
<1>1. PICK u \in LaterSeeds : Add(u) /\ second' = {u}
  BY DEF RunAgain
<1>2. u \in G /\ u \in Urls
  BY <1>1, LaterSeedsAssumption, HostOfValid
<1> QED
  BY <1>1, <1>2, AddFound DEF RunAgain, CrawlInv

-----------------------------------------------------------------------------
(* maxDepth: a page in circulation is reached from a seed by a path no      *)
(* longer than the depth recorded for it, whatever has been overwritten.    *)

NearUrls == {u \in ValidUrls : \E n \in 0 .. urlDepths[u] : ReachedIn(n, u)}
WithinUrls == {u \in ValidUrls : \E n \in 0 .. maxDepth : ReachedIn(n, u)}

DepthInv == policy.depth => FoundIn(NearUrls, WithinUrls)

LEMMA DepthType ==
  ASSUME CrawlInv, NEW u \in ValidUrls
  PROVE  urlDepths[u] \in 0 .. maxDepth
BY HostOfAssumption DEF CrawlInv, CrawlTypeOK, PolicyTypeOK

LEMMA NearIsWithin == CrawlInv => NearUrls \subseteq WithinUrls
<1> SUFFICES ASSUME CrawlInv, NEW u \in ValidUrls, NEW n \in 0 .. urlDepths[u], ReachedIn(n, u)
             PROVE  n \in 0 .. maxDepth
  BY DEF NearUrls, WithinUrls
<1>1. PICK d \in 0 .. maxDepth : d = urlDepths[u]
  BY DepthType
<1> QED
  BY <1>1, MaxDepthAssumption

LEMMA NearIsWithinNext == CrawlInv' => (NearUrls \subseteq WithinUrls)'
BY NearIsWithin, PTL

LEMMA SeedReached ==
  ASSUME NEW u \in ValidUrls, u \in SeedUrls
  PROVE  ReachedIn(0, u)
<1> DEFINE path == [i \in 0 .. 0 |-> u]
<1>1. path \in [0 .. 0 -> ValidUrls] /\ path[0] = u
  OBVIOUS
<1>2. \A i \in 0 .. 0 - 1 : path[i + 1] \in Links[path[i]]
  OBVIOUS
<1> QED
  BY <1>1, <1>2 DEF ReachedIn

\* A link of a page is one step further.
LEMMA LinkReached ==
  ASSUME NEW n \in Nat, NEW u \in ValidUrls, ReachedIn(n, u),
         NEW l \in ValidUrls, l \in Links[u]
  PROVE  ReachedIn(n + 1, l)
<1>1. PICK path \in [0 .. n -> ValidUrls] :
         /\ path[0] \in SeedUrls
         /\ path[n] = u
         /\ \A i \in 0 .. n - 1 : path[i + 1] \in Links[path[i]]
  BY DEF ReachedIn
<1> DEFINE longer == [i \in 0 .. n + 1 |-> IF i = n + 1 THEN l ELSE path[i]]
<1>2. longer \in [0 .. n + 1 -> ValidUrls]
  OBVIOUS
<1>3. \A i \in 0 .. n : longer[i] = path[i]
  OBVIOUS
<1>4. longer[n + 1] = l
  OBVIOUS
<1>5. ASSUME NEW i \in 0 .. (n + 1) - 1
      PROVE  longer[i + 1] \in Links[longer[i]]
  <2>1. CASE i = n
    BY <1>1, <1>3, <1>4, <2>1
  <2>2. CASE i # n
    <3>1. i \in 0 .. n - 1 /\ i \in 0 .. n /\ i + 1 \in 0 .. n
      BY <1>5, <2>2
    <3> QED
      BY <1>1, <1>3, <3>1
  <2> QED
    BY <2>1, <2>2
<1>6. longer[0] \in SeedUrls
  BY <1>1, <1>3
<1> HIDE DEF longer
<1> QED
  BY <1>2, <1>4, <1>5, <1>6 DEF ReachedIn

LEMMA InitFound == CrawlInit => Circulating \subseteq Seeds /\ visited = {}
<1> SUFFICES ASSUME CrawlInit
             PROVE  Circulating \subseteq Seeds
  BY DEF CrawlInit, Init, LoopInit
<1>1. \A k \in PendingKeys : pending[k].url \in Seeds
  <2>1. pending = Seeded(Seeds)
    BY DEF CrawlInit, Init, LoopInit
  <2>2. SUFFICES ASSUME NEW k \in Keys, pending[k] # NoRequest
                 PROVE  pending[k].url \in Seeds
    BY DEF PendingKeys
  <2>3. \E u \in Seeds : normalizeURL[u] = k
    BY <2>1, <2>2 DEF Seeded
  <2> QED
    BY <2>1, <2>3 DEF Seeded
<1> QED
  BY <1>1 DEF Circulating, CrawlInit, Init, LoopInit

LEMMA InitDepthInv == CrawlInit => DepthInv
<1> SUFFICES ASSUME CrawlInit
             PROVE  Seeds \subseteq NearUrls
  BY InitFound DEF DepthInv, FoundIn
<1>1. SUFFICES ASSUME NEW u \in Seeds
               PROVE  u \in NearUrls
  OBVIOUS
<1>2. u \in ValidUrls /\ u \in SeedUrls
  BY SeedsAssumption DEF SeedUrls
<1>3. urlDepths[u] \in Nat
  BY <1>2, InitCrawlInv, DepthType, MaxDepthAssumption
<1>4. 0 \in 0 .. urlDepths[u]
  BY <1>3
<1> QED
  BY <1>2, <1>4, SeedReached DEF NearUrls

\* Accepting a link records a depth some path to it has; all others keep theirs.
LEMMA AskNear ==
  ASSUME CrawlInv, DepthInv, policy.depth, NEW w \in Workers, NEW l, AskPolicy(w, l), UNCHANGED second
  PROVE  /\ NearUrls \subseteq NearUrls'
         /\ WithinUrls' = WithinUrls
         /\ asked' # asked => l \in NearUrls'
<1> DEFINE u == held[w].url
           accepted == l \in ValidUrls /\ Accepts(u, l)
<1>2. CASE ~accepted
  <2>1. UNCHANGED <<asked, urlDepths>>
    BY <1>2 DEF AskPolicy, policyVars
  <2> QED
    BY <2>1 DEF NearUrls, WithinUrls, ReachedIn, SeedUrls
<1>3. CASE accepted
  <2>1. held[w] # NoRequest /\ l \in Links[u] /\ u \in ValidUrls
    BY HeldIsRequest DEF AskPolicy, CrawlInv, WorkersHold, Request
  <2>2. u \in NearUrls
    BY <2>1 DEF DepthInv, FoundIn, Circulating
  <2>3. PICK d \in Nat : d = urlDepths[u]
    BY <2>1, DepthType, MaxDepthAssumption
  <2>4. PICK n \in 0 .. d : ReachedIn(n, u)
    BY <2>2, <2>3 DEF NearUrls
  <2>5. n \in Nat /\ n + 1 \in 0 .. d + 1
    BY <2>4
  <2>6. ReachedIn(n + 1, l)
    BY <1>3, <2>1, <2>4, <2>5, LinkReached
  <2>7. urlDepths' = [urlDepths EXCEPT ![l] = d + 1]
    BY <1>3, <2>3 DEF AskPolicy, Remember, CountLink, SetDepth, TargetDepth
  <2>8. l \in DOMAIN hostOf /\ urlDepths \in [DOMAIN hostOf -> 0 .. maxDepth]
    BY <1>3, HostOfAssumption DEF CrawlInv, CrawlTypeOK, PolicyTypeOK
  <2>9. urlDepths'[l] = d + 1
    BY <2>7, <2>8
  <2>10. l \in NearUrls'
    <3>1. ReachedIn(n + 1, l)'
      BY <2>6 DEF ReachedIn, SeedUrls
    <3> QED
      BY <1>3, <2>5, <2>9, <3>1 DEF NearUrls
  <2>11. ASSUME NEW x \in NearUrls
         PROVE  x \in NearUrls'
    <3>1. CASE x = l
      BY <3>1, <2>10
    <3>2. CASE x # l
      <4>1. urlDepths'[x] = urlDepths[x]
        BY <3>2, <2>7, <2>8, <2>11, HostOfAssumption DEF NearUrls
      <4> QED
        BY <4>1, <2>11 DEF NearUrls, ReachedIn, SeedUrls
    <3> QED
      BY <3>1, <3>2
  <2> QED
    BY <2>10, <2>11 DEF WithinUrls, ReachedIn, SeedUrls
<1> QED
  BY <1>2, <1>3

\* The second Run adds a seed and takes none away.
LEMMA RunAgainNear ==
  ASSUME CrawlInv, RunAgain
  PROVE  /\ NearUrls \subseteq NearUrls'
         /\ WithinUrls \subseteq WithinUrls'
         /\ second' \subseteq NearUrls'
<1>1. SeedUrls \subseteq SeedUrls'
  BY DEF RunAgain, SeedUrls
<1>2. urlDepths' = urlDepths
  BY DEF RunAgain
<1>3. NearUrls \subseteq NearUrls' /\ WithinUrls \subseteq WithinUrls'
  BY <1>1, <1>2 DEF NearUrls, WithinUrls, ReachedIn
<1>4. ASSUME NEW u \in second'
      PROVE  u \in NearUrls'
  <2>1. u \in ValidUrls /\ u \in SeedUrls'
    BY <1>4, LaterSeedsAssumption DEF RunAgain, SeedUrls
  <2>2. ReachedIn(0, u)'
    <3> DEFINE path == [i \in 0 .. 0 |-> u]
    <3>1. path \in [0 .. 0 -> ValidUrls] /\ path[0] = u
      BY <2>1
    <3>2. \A i \in 0 .. 0 - 1 : path[i + 1] \in Links[path[i]]
      OBVIOUS
    <3> QED
      BY <2>1, <3>1, <3>2 DEF ReachedIn
  <2>3. 0 \in 0 .. urlDepths'[u]
    BY <1>2, <2>1, DepthType, MaxDepthAssumption
  <2> QED
    BY <2>1, <2>2, <2>3 DEF NearUrls
<1> QED
  BY <1>3, <1>4

LEMMA NextDepthInv == CrawlInv /\ DepthInv /\ [CrawlNext]_crawlVars => DepthInv'
<1> SUFFICES ASSUME CrawlInv, DepthInv, [CrawlNext]_crawlVars, policy'.depth
             PROVE  FoundIn(NearUrls, WithinUrls)'
  BY DEF DepthInv
<1>1. CrawlInv'
  BY NextCrawlInv
<1>2. NearUrls' \subseteq WithinUrls'
  BY <1>1, NearIsWithinNext
<1>3. PICK G, H : G = NearUrls' /\ H = WithinUrls'
  OBVIOUS
<1>4. FoundIn(G, H)' => FoundIn(NearUrls, WithinUrls)'
  BY <1>3 DEF FoundIn
<1>5. ASSUME policy.depth, NearUrls \subseteq G, WithinUrls \subseteq H
      PROVE  FoundIn(G, H)
  BY <1>5 DEF DepthInv, FoundIn
<1>6. ASSUME PolicyQuiet
      PROVE  FoundIn(G, H)'
  <2>1. UNCHANGED <<policy, urlDepths, second>>
    BY <1>6 DEF PolicyQuiet, policyVars
  <2>2. NearUrls' = NearUrls /\ WithinUrls' = WithinUrls
    BY <2>1 DEF NearUrls, WithinUrls, ReachedIn, SeedUrls
  <2> QED
    BY <1>2, <1>3, <1>5, <1>6, <2>1, <2>2, QuietFound
<1>7. ASSUME NEW w \in Workers, CrawlStep(w)
      PROVE  FoundIn(G, H)'
  <2>1. UNCHANGED second
    BY <1>7 DEF CrawlStep
  <2>2. ASSUME NEW l \in todo[w], AskPolicy(w, l)
        PROVE  FoundIn(G, H)'
    <3>1. policy.depth
      BY <2>2 DEF AskPolicy, Remember, CountLink, SetDepth, policyVars
    <3>2. /\ NearUrls \subseteq NearUrls'
          /\ WithinUrls' = WithinUrls
          /\ asked' # asked => l \in NearUrls'
      BY <2>1, <2>2, <3>1, AskNear
    <3> QED
      BY <1>2, <1>3, <1>5, <2>2, <3>1, <3>2, AskFound
  <2>3. CASE AddLink(w)
    <3>1. UNCHANGED <<policy, urlDepths, second>>
      BY <2>1, <2>3 DEF AddLink, policyVars
    <3>2. NearUrls' = NearUrls /\ WithinUrls' = WithinUrls
      BY <3>1 DEF NearUrls, WithinUrls, ReachedIn, SeedUrls
    <3> QED
      BY <1>3, <1>5, <2>3, <3>1, <3>2, AddLinkFound
  <2> QED
    BY <1>6, <1>7, <2>2, <2>3, QuietWorker
<1>8. CASE RunAgain
  <2>1. policy' = policy
    BY <1>8 DEF RunAgain
  <2> QED
    BY <1>3, <1>4, <1>5, <1>8, <2>1, RunAgainNear, RunAgainFound
<1> QED
  BY <1>4, <1>6, <1>7, <1>8, OtherStepInv DEF CrawlNext

\* A page in the queue, in a worker's hands or visited has a URL in circulation
\* or one that a visited key is known by.
LEMMA KnownIsFound ==
  ASSUME NEW G, NEW H, G \subseteq H, FoundIn(G, H), QueueTypeOK, NEW k \in KnownKeys
  PROVE  \E u \in H : normalizeURL[u] = k
<1>1. CASE k \in PendingKeys
  <2>1. pending[k].url \in Circulating /\ normalizeURL[pending[k].url] = k
    BY <1>1 DEF Circulating, PendingKeys, QueueTypeOK, UniqueKey
  <2> QED
    BY <2>1 DEF FoundIn
<1>2. CASE k \in HeldKeys
  BY <1>2 DEF HeldKeys, Circulating, FoundIn, UniqueKey
<1>3. CASE k \in visited
  BY <1>3 DEF FoundIn
<1> QED
  BY <1>1, <1>2, <1>3 DEF KnownKeys

\* With maxDepth, no page enters the queue that is more than maxDepth links from
\* every seed: on any site, with any number of workers, over both Runs.
THEOREM KeepsWithinDepth == CrawlSpec => []WithinDepth
<1>1. ASSUME CrawlInv, DepthInv
      PROVE  WithinDepth
  <2>1. SUFFICES ASSUME policy.depth, NEW k \in KnownKeys
                 PROVE  \E u \in ValidUrls : /\ normalizeURL[u] = k
                                             /\ \E n \in 0 .. maxDepth : ReachedIn(n, u)
    BY DEF WithinDepth, KnownPagesHave
  <2>2. PICK G, H : G = NearUrls /\ H = WithinUrls
    OBVIOUS
  <2>3. G \subseteq H /\ FoundIn(G, H) /\ QueueTypeOK
    BY <1>1, <2>1, <2>2, NearIsWithin DEF DepthInv, CrawlInv
  <2>4. PICK u \in H : normalizeURL[u] = k
    BY <2>1, <2>3, KnownIsFound
  <2> QED
    BY <2>2, <2>4 DEF WithinUrls
<1> QED
  BY <1>1, InitCrawlInv, NextCrawlInv, InitDepthInv, NextDepthInv, PTL DEF CrawlSpec

-----------------------------------------------------------------------------
(* sameDomain: what is pending when a Run begins is on the seeds' hosts, so *)
(* that the hosts it allows are theirs.                                     *)

SeedHosts == {lowerHost[hostOf[s]] : s \in SeedUrls}
HomeUrls == {u \in ValidUrls : lowerHost[hostOf[u]] \in SeedHosts}

HostInv ==
  policy.inner = "sameDomain" => allowedHosts \subseteq SeedHosts /\ FoundIn(HomeUrls, HomeUrls)

LEMMA PendingHosts ==
  ASSUME QueueTypeOK, FoundIn(HomeUrls, HomeUrls)
  PROVE  HostsOf(pending) \subseteq SeedHosts
<1> SUFFICES ASSUME NEW k \in Keys, pending[k] # NoRequest
             PROVE  lowerHost[hostOf[pending[k].url]] \in SeedHosts
  BY DEF HostsOf
<1>1. pending[k].url \in Circulating
  BY DEF Circulating, PendingKeys
<1> QED
  BY <1>1 DEF FoundIn, HomeUrls

LEMMA PendingHostsNext ==
  (QueueTypeOK /\ FoundIn(HomeUrls, HomeUrls))' => (HostsOf(pending) \subseteq SeedHosts)'
<1>1. QueueTypeOK /\ FoundIn(HomeUrls, HomeUrls) => HostsOf(pending) \subseteq SeedHosts
  BY PendingHosts
<1> QED
  BY <1>1, PTL

LEMMA InitHostInv == CrawlInit => HostInv
<1> SUFFICES ASSUME CrawlInit, policy.inner = "sameDomain"
             PROVE  allowedHosts \subseteq SeedHosts /\ FoundIn(HomeUrls, HomeUrls)
  BY DEF HostInv
<1>1. Seeds \subseteq HomeUrls
  BY SeedsAssumption DEF HomeUrls, SeedHosts, SeedUrls
<1>2. FoundIn(HomeUrls, HomeUrls)
  BY <1>1, InitFound DEF FoundIn
<1>3. QueueTypeOK
  BY InitCrawlInv DEF CrawlInv
<1>4. PICK s \in Setups : PolicyInit(s.policy, HostsOf(pending))
  BY DEF CrawlInit
<1>5. allowedHosts = HostsOf(pending)
  BY <1>4 DEF PolicyInit
<1> QED
  BY <1>2, <1>3, <1>5, PendingHosts

\* An accepted link has a host the seeds have.
LEMMA AskHome ==
  ASSUME CrawlInv, HostInv, policy.inner = "sameDomain",
         NEW w \in Workers, NEW l, AskPolicy(w, l), asked' # asked
  PROVE  l \in HomeUrls
<1>1. l \in ValidUrls /\ Accepts(held[w].url, l)
  BY DEF AskPolicy
<1>2. hostOf[l] \in allowedHosts
  BY <1>1 DEF Accepts, InnerAccepts, BelowLimit
<1>3. PICK s \in SeedUrls : hostOf[l] = lowerHost[hostOf[s]]
  BY <1>2 DEF HostInv, SeedHosts
<1>4. s \in ValidUrls
  BY SeedsAssumption, LaterSeedsAssumption DEF SeedUrls, CrawlInv, CrawlTypeOK
<1>5. lowerHost[lowerHost[hostOf[s]]] = lowerHost[hostOf[s]]
  BY <1>4, HostOfValid, HostAssumption
<1> QED
  BY <1>1, <1>3, <1>5 DEF HomeUrls, SeedHosts

LEMMA NextHostInv == CrawlInv /\ HostInv /\ [CrawlNext]_crawlVars => HostInv'
<1> SUFFICES ASSUME CrawlInv, HostInv, [CrawlNext]_crawlVars, policy'.inner = "sameDomain"
             PROVE  allowedHosts' \subseteq SeedHosts' /\ FoundIn(HomeUrls, HomeUrls)'
  BY DEF HostInv
<1>1. CrawlInv'
  BY NextCrawlInv
<1>2. PICK G : G = HomeUrls'
  OBVIOUS
<1>3. FoundIn(G, G)' => FoundIn(HomeUrls, HomeUrls)'
  BY <1>2 DEF FoundIn
<1>4. ASSUME policy.inner = "sameDomain", HomeUrls \subseteq G
      PROVE  FoundIn(G, G)
  BY <1>4 DEF HostInv, FoundIn
<1>5. ASSUME UNCHANGED <<policy, allowedHosts, second>>
      PROVE  /\ policy.inner = "sameDomain"
             /\ allowedHosts' \subseteq SeedHosts'
             /\ HomeUrls = G
  BY <1>2, <1>5 DEF HostInv, HomeUrls, SeedHosts, SeedUrls
<1>6. ASSUME PolicyQuiet
      PROVE  allowedHosts' \subseteq SeedHosts' /\ FoundIn(G, G)'
  <2>1. UNCHANGED <<policy, allowedHosts, second>>
    BY <1>6 DEF PolicyQuiet, policyVars
  <2> QED
    BY <1>4, <1>5, <1>6, <2>1, QuietFound
<1>7. ASSUME NEW w \in Workers, CrawlStep(w)
      PROVE  allowedHosts' \subseteq SeedHosts' /\ FoundIn(G, G)'
  <2>1. UNCHANGED second
    BY <1>7 DEF CrawlStep
  <2>2. ASSUME NEW l \in todo[w], AskPolicy(w, l)
        PROVE  allowedHosts' \subseteq SeedHosts' /\ FoundIn(G, G)'
    <3>1. UNCHANGED <<policy, allowedHosts, second>>
      BY <2>1, <2>2 DEF AskPolicy, Remember, CountLink, SetDepth, policyVars
    <3>2. asked' # asked => l \in G
      BY <1>5, <2>2, <3>1, AskHome
    <3> QED
      BY <1>4, <1>5, <2>2, <3>1, <3>2, AskFound
  <2>3. CASE AddLink(w)
    <3>1. UNCHANGED <<policy, allowedHosts, second>>
      BY <2>1, <2>3 DEF AddLink, policyVars
    <3> QED
      BY <1>4, <1>5, <2>3, <3>1, AddLinkFound
  <2> QED
    BY <1>6, <1>7, <2>2, <2>3, QuietWorker
<1>8. CASE RunAgain
  <2>1. policy' = policy
    BY <1>8 DEF RunAgain
  <2>2. SeedUrls \subseteq SeedUrls' /\ second' \subseteq SeedUrls'
    BY <1>8 DEF RunAgain, SeedUrls
  <2>3. HomeUrls \subseteq HomeUrls'
    BY <2>2 DEF HomeUrls, SeedHosts
  <2>4. second' \subseteq HomeUrls'
    BY <1>8, <2>2, LaterSeedsAssumption DEF RunAgain, HomeUrls, SeedHosts
  <2>5. FoundIn(G, G)'
    BY <1>2, <1>4, <1>8, <2>1, <2>3, <2>4, RunAgainFound
  <2>6. HostsOf(pending') \subseteq SeedHosts'
    BY <1>1, <1>3, <2>5, PendingHostsNext DEF CrawlInv
  <2> QED
    BY <1>3, <1>8, <2>1, <2>5, <2>6 DEF RunAgain, HostsToAllow
<1> QED
  BY <1>3, <1>6, <1>7, <1>8, OtherStepInv DEF CrawlNext

\* With sameDomain no page enters the queue off the hosts of the seeds, however
\* its hosts are spelled, over both Runs.
THEOREM StaysOnSeedHosts == CrawlSpec => []SameDomainStays
<1>1. ASSUME CrawlInv, HostInv
      PROVE  SameDomainStays
  <2>1. SUFFICES ASSUME policy.inner = "sameDomain", NEW k \in KnownKeys
                 PROVE  \E u \in ValidUrls :
                          /\ normalizeURL[u] = k
                          /\ \E s \in SeedUrls : lowerHost[hostOf[s]] = lowerHost[hostOf[u]]
    BY DEF SameDomainStays, KnownPagesHave
  <2>2. PICK G : G = HomeUrls
    OBVIOUS
  <2>3. FoundIn(G, G) /\ QueueTypeOK
    BY <1>1, <2>1, <2>2 DEF HostInv, CrawlInv
  <2>4. PICK u \in G : normalizeURL[u] = k
    BY <2>1, <2>3, KnownIsFound
  <2> QED
    BY <2>2, <2>4 DEF HomeUrls, SeedHosts
<1> QED
  BY <1>1, InitCrawlInv, NextCrawlInv, InitHostInv, NextHostInv, PTL DEF CrawlSpec

-----------------------------------------------------------------------------
(* glob: the loop over the patterns, which leaves at the first negative one *)
(* that matches, decides what the list as a whole stands for.               *)

Scans == [stop : BOOLEAN, allowed : BOOLEAN]

\* The loop has a run, and Glob returns what it ends with.
LEMMA GlobScan ==
  ASSUME NEW patterns \in Seq(Pattern), NEW h \in Hosts \cup {NoHost}
  PROVE  \E scan \in [0 .. Len(patterns) -> Scans] :
           /\ scan[0] = [stop |-> FALSE, allowed |-> FALSE]
           /\ \A i \in 1 .. Len(patterns) :
                scan[i] = IF scan[i - 1].stop \/ h \notin patterns[i].hosts THEN scan[i - 1]
                          ELSE [stop |-> patterns[i].neg, allowed |-> ~patterns[i].neg]
           /\ Glob(patterns, h) = scan[Len(patterns)].allowed
<1> DEFINE first == [stop |-> FALSE, allowed |-> FALSE]
           Scan(i, prev) == IF prev.stop \/ h \notin patterns[i].hosts THEN prev
                            ELSE [stop |-> patterns[i].neg, allowed |-> ~patterns[i].neg]
           IsScan(f) ==
             f = [i \in 0 .. Len(patterns) |-> IF i = 0 THEN first ELSE Scan(i, f[i - 1])]
<1>0. PICK n \in Nat : n = Len(patterns)
  OBVIOUS
<1>1. \E f \in [0 .. n -> Scans] : IsScan(f)
  <2>1. ASSUME NEW i \in 1 .. n, NEW s \in Scans
        PROVE  Scan(i, s) \in Scans
    <3>1. patterns[i] \in Pattern
      BY <1>0
    <3> QED
      BY <3>1 DEF Scans, Pattern
  <2>2. first \in Scans
    BY DEF Scans
  <2>3. PICK step : step = [i \in 1 .. n |-> [s \in Scans |-> Scan(i, s)]]
    OBVIOUS
  <2> HIDE DEF first, Scan
  <2>4. step \in [1 .. n -> [Scans -> Scans]]
    BY <2>1, <2>3
  <2>5. PICK f \in [0 .. n -> Scans] : IsRun(f, n, first, step)
    BY <2>2, <2>4, IterationExists
  <2>6. ASSUME NEW i \in 1 .. n
        PROVE  f[i] = Scan(i, f[i - 1])
    <3>1. f[i - 1] \in Scans /\ f[i] = step[i][f[i - 1]]
      BY <2>5 DEF IsRun
    <3> QED
      BY <3>1, <2>3
  <2>7. IsScan(f)
    BY <1>0, <2>5, <2>6 DEF IsRun
  <2> QED
    BY <2>7
<1>2. ASSUME NEW f, NEW g, IsScan(f), IsScan(g), f \in [0 .. n -> Scans]
      PROVE  g \in [0 .. n -> Scans]
  <2> DEFINE T == {i \in 0 .. n : g[i] = f[i]}
  <2>1. 0 \in T
    <3> HIDE DEF first, Scan
    <3> QED
      BY <1>0, <1>2
  <2>2. \A i \in 1 .. n : i - 1 \in T => i \in T
    <3>1. \A i \in 1 .. n : f[i] = Scan(i, f[i - 1])
      <4> HIDE DEF first, Scan
      <4> QED
        BY <1>0, <1>2
    <3>2. \A i \in 1 .. n : g[i] = Scan(i, g[i - 1])
      <4> HIDE DEF first, Scan
      <4> QED
        BY <1>0, <1>2
    <3> HIDE DEF IsScan, Scan
    <3> QED
      BY <3>1, <3>2
  <2>3. \A i \in 0 .. n : i \in T
    <3> HIDE DEF T
    <3> QED
      BY <2>1, <2>2, Induction
  <2>4. g = [i \in 0 .. n |-> IF i = 0 THEN first ELSE Scan(i, g[i - 1])]
    BY <1>0, <1>2
  <2> HIDE DEF IsScan, first, Scan
  <2> QED
    BY <1>2, <2>3, <2>4
<1>3. PICK scan : scan = CHOOSE f : IsScan(f)
  OBVIOUS
<1>4. IsScan(scan)
  <2> HIDE DEF IsScan
  <2> QED
    BY <1>1, <1>3
<1>5. scan \in [0 .. n -> Scans]
  <2> HIDE DEF IsScan
  <2> QED
    BY <1>1, <1>2, <1>4
<1>6. scan[0] = first /\ \A i \in 1 .. n : scan[i] = Scan(i, scan[i - 1])
  <2> HIDE DEF first, Scan
  <2> QED
    BY <1>0, <1>4
<1>7. Glob(patterns, h) = scan[n].allowed
  BY <1>0, <1>3 DEF Glob
<1> QED
  BY <1>0, <1>5, <1>6, <1>7

\* The loop of globPolicy finds, for every list of patterns and every host, what
\* the list stands for, wherever its negative patterns are.
THEOREM GlobFindsMatches ==
  ASSUME NEW patterns \in Seq(Pattern), NEW h \in Hosts \cup {NoHost}
  PROVE  Glob(patterns, h) <=> Matches(patterns, h)
<1>0. PICK n \in Nat : n = Len(patterns)
  OBVIOUS
<1>1. PICK scan \in [0 .. n -> Scans] :
        /\ scan[0] = [stop |-> FALSE, allowed |-> FALSE]
        /\ \A i \in 1 .. n :
             scan[i] = IF scan[i - 1].stop \/ h \notin patterns[i].hosts THEN scan[i - 1]
                       ELSE [stop |-> patterns[i].neg, allowed |-> ~patterns[i].neg]
        /\ Glob(patterns, h) = scan[n].allowed
  BY <1>0, GlobScan
<1> DEFINE Denied(i) == \E j \in 1 .. i : patterns[j].neg /\ h \in patterns[j].hosts
           Named(i) == \E j \in 1 .. i : ~patterns[j].neg /\ h \in patterns[j].hosts
           Told(i) == /\ scan[i].stop <=> Denied(i)
                      /\ scan[i].allowed <=> Named(i) /\ ~Denied(i)
           T == {i \in 0 .. n : Told(i)}
<1>2. 0 \in T
  BY <1>1
<1>3. ASSUME NEW i \in 1 .. n, i - 1 \in T
      PROVE  i \in T
  <2>1. Told(i - 1)
    BY <1>3
  <2>2. scan[i] = IF scan[i - 1].stop \/ h \notin patterns[i].hosts THEN scan[i - 1]
                  ELSE [stop |-> patterns[i].neg, allowed |-> ~patterns[i].neg]
    BY <1>1
  <2>3. /\ Denied(i) <=> Denied(i - 1) \/ (patterns[i].neg /\ h \in patterns[i].hosts)
        /\ Named(i) <=> Named(i - 1) \/ (~patterns[i].neg /\ h \in patterns[i].hosts)
    <3>1. \A j \in Int : j \in 1 .. i <=> j \in 1 .. i - 1 \/ j = i
      OBVIOUS
    <3> QED
      BY <3>1
  <2>4. patterns[i].neg \in BOOLEAN
    <3>1. patterns[i] \in Pattern
      BY <1>0
    <3> QED
      BY <3>1 DEF Pattern
  <2>5. scan[i - 1] \in Scans
    BY <1>1
  <2>6. Told(i)
    <3> HIDE DEF Denied, Named
    <3> QED
      BY <2>1, <2>2, <2>3, <2>4, <2>5 DEF Scans
  <2> QED
    BY <2>6
<1>4. n \in T
  <2>1. \A i \in 0 .. n : i \in T
    <3> HIDE DEF T
    <3> QED
      BY <1>2, <1>3, Induction
  <2> QED
    BY <2>1
<1>5. Glob(patterns, h) <=> Named(n) /\ ~Denied(n)
  BY <1>1, <1>4
<1>6. DOMAIN patterns = 1 .. n
  BY <1>0
<1> QED
  BY <1>5, <1>6 DEF Matches

GlobUrls == {u \in ValidUrls : u \in SeedUrls \/ Matches(globPatterns, hostOf[u])}

GlobInv == policy.inner = "glob" => FoundIn(GlobUrls, GlobUrls)

LEMMA InitGlobInv == CrawlInit => GlobInv
<1>1. Seeds \subseteq GlobUrls
  BY SeedsAssumption DEF GlobUrls, SeedUrls
<1> QED
  BY <1>1, InitFound DEF GlobInv, FoundIn

LEMMA AskGlob ==
  ASSUME policy.inner = "glob", NEW w \in Workers, NEW l, AskPolicy(w, l), asked' # asked
  PROVE  l \in GlobUrls
<1>1. l \in ValidUrls /\ Accepts(held[w].url, l)
  BY DEF AskPolicy
<1>2. Glob(globPatterns, hostOf[l])
  BY <1>1 DEF Accepts, InnerAccepts, BelowLimit
<1>3. hostOf[l] \in Hosts \cup {NoHost}
  BY <1>1, HostOfValid
<1>4. Matches(globPatterns, hostOf[l])
  BY <1>2, <1>3, GlobFindsMatches, GlobAssumption
<1> QED
  BY <1>1, <1>4 DEF GlobUrls

LEMMA NextGlobInv == CrawlInv /\ GlobInv /\ [CrawlNext]_crawlVars => GlobInv'
<1> SUFFICES ASSUME CrawlInv, GlobInv, [CrawlNext]_crawlVars, policy'.inner = "glob"
             PROVE  FoundIn(GlobUrls, GlobUrls)'
  BY DEF GlobInv
<1>1. PICK G : G = GlobUrls'
  OBVIOUS
<1>2. FoundIn(G, G)' => FoundIn(GlobUrls, GlobUrls)'
  BY <1>1 DEF FoundIn
<1>3. ASSUME policy' = policy, GlobUrls \subseteq G
      PROVE  FoundIn(G, G)
  BY <1>3 DEF GlobInv, FoundIn
<1>4. UNCHANGED second => GlobUrls = G
  BY <1>1 DEF GlobUrls, SeedUrls
<1>5. ASSUME PolicyQuiet
      PROVE  FoundIn(G, G)'
  <2>1. UNCHANGED <<policy, second>>
    BY <1>5 DEF PolicyQuiet, policyVars
  <2> QED
    BY <1>3, <1>4, <1>5, <2>1, QuietFound
<1>6. ASSUME NEW w \in Workers, CrawlStep(w)
      PROVE  FoundIn(G, G)'
  <2>1. UNCHANGED second
    BY <1>6 DEF CrawlStep
  <2>2. ASSUME NEW l \in todo[w], AskPolicy(w, l)
        PROVE  FoundIn(G, G)'
    <3>1. policy' = policy
      BY <2>2 DEF AskPolicy, Remember, CountLink, SetDepth, policyVars
    <3>2. asked' # asked => l \in G
      BY <1>4, <2>1, <2>2, <3>1, AskGlob
    <3> QED
      BY <1>3, <1>4, <2>1, <2>2, <3>1, <3>2, AskFound
  <2>3. CASE AddLink(w)
    <3>1. policy' = policy
      BY <2>3 DEF AddLink, policyVars
    <3> QED
      BY <1>3, <1>4, <2>1, <2>3, <3>1, AddLinkFound
  <2> QED
    BY <1>5, <1>6, <2>2, <2>3, QuietWorker
<1>7. CASE RunAgain
  <2>1. policy' = policy
    BY <1>7 DEF RunAgain
  <2>2. SeedUrls \subseteq SeedUrls' /\ second' \subseteq SeedUrls' /\ second' \subseteq ValidUrls
    BY <1>7, LaterSeedsAssumption DEF RunAgain, SeedUrls
  <2>3. GlobUrls \subseteq G /\ second' \subseteq G
    BY <1>1, <2>2 DEF GlobUrls
  <2> QED
    BY <1>2, <1>3, <1>7, <2>1, <2>3, RunAgainFound
<1> QED
  BY <1>2, <1>5, <1>6, <1>7, OtherStepInv DEF CrawlNext

\* With glob every page that enters the queue is a seed or on a host its list of
\* patterns stands for, over both Runs.
THEOREM StaysOnMatchingHosts == CrawlSpec => []GlobMatches
<1>1. ASSUME CrawlInv, GlobInv
      PROVE  GlobMatches
  <2>1. SUFFICES ASSUME policy.inner = "glob", NEW k \in KnownKeys
                 PROVE  \E u \in ValidUrls :
                          /\ normalizeURL[u] = k
                          /\ u \in SeedUrls \/ Matches(globPatterns, hostOf[u])
    BY DEF GlobMatches, KnownPagesHave
  <2>2. PICK G : G = GlobUrls
    OBVIOUS
  <2>3. FoundIn(G, G) /\ QueueTypeOK
    BY <1>1, <2>1, <2>2 DEF GlobInv, CrawlInv
  <2>4. PICK u \in G : normalizeURL[u] = k
    BY <2>1, <2>3, KnownIsFound
  <2> QED
    BY <2>2, <2>4 DEF GlobUrls
<1> QED
  BY <1>1, InitCrawlInv, NextCrawlInv, InitGlobInv, NextGlobInv, PTL DEF CrawlSpec

-----------------------------------------------------------------------------
(* maxPerDomain: every page that was found by a link has a place of its own *)
(* among those the policy counted, in the spelling its host had then.       *)

UrlsOf(K) == {u \in ValidUrls : normalizeURL[u] \in K}

Counted(A, counts) ==
  \E place \in [A -> Nat \X Hosts] :
     /\ \A x, y \in A : place[x] = place[y] => x = y
     /\ \A k \in A : /\ \E u \in ValidUrls : normalizeURL[u] = k /\ hostOf[u] = place[k][2]
                     /\ place[k][1] \in 1 .. counts[place[k][2]]

FoundByLinks(A) == FoundIn(UrlsOf(A \cup SeedKeys), UrlsOf(A \cup SeedKeys))

CountInv ==
  policy.inner = "maxPerDomain" =>
    \E A \in SUBSET Keys : FoundByLinks(A) /\ Counted(A, domainCounts)

\* The call that accepts a link counts one more: that is the place of its page,
\* if it has none yet.
LEMMA OneMoreCounted ==
  ASSUME NEW counts \in [Hosts -> Nat], NEW A, Counted(A, counts),
         NEW u \in ValidUrls, hostOf[u] \in Hosts
  PROVE  Counted(A \cup {normalizeURL[u]}, [counts EXCEPT ![hostOf[u]] = @ + 1])
<1> DEFINE k == normalizeURL[u]
           h == hostOf[u]
           more == [counts EXCEPT ![h] = @ + 1]
<1>1. PICK place \in [A -> Nat \X Hosts] :
        /\ \A x, y \in A : place[x] = place[y] => x = y
        /\ \A x \in A : /\ \E v \in ValidUrls : normalizeURL[v] = x /\ hostOf[v] = place[x][2]
                        /\ place[x][1] \in 1 .. counts[place[x][2]]
  BY DEF Counted
<1> DEFINE longer == [x \in A \cup {k} |-> IF x \in A THEN place[x] ELSE <<counts[h] + 1, h>>]
<1>2. counts[h] \in Nat /\ counts[h] + 1 \in Nat /\ h \in Hosts
  OBVIOUS
<1>3. longer \in [A \cup {k} -> Nat \X Hosts]
  BY <1>2
<1>4. \A g \in Hosts : more[g] \in Nat /\ counts[g] \in Nat /\ counts[g] <= more[g]
  OBVIOUS
<1>5. more[h] = counts[h] + 1
  OBVIOUS
<1>6. ASSUME NEW x \in A \cup {k}
      PROVE  /\ \E v \in ValidUrls : normalizeURL[v] = x /\ hostOf[v] = longer[x][2]
             /\ longer[x][1] \in 1 .. more[longer[x][2]]
  <2>1. CASE x \in A
    <3>1. longer[x] = place[x] /\ place[x][2] \in Hosts /\ place[x][1] \in Nat
      BY <2>1
    <3>2. counts[place[x][2]] \in Nat /\ more[place[x][2]] \in Nat
          /\ counts[place[x][2]] <= more[place[x][2]]
      BY <1>4, <3>1
    <3>3. place[x][1] \in 1 .. counts[place[x][2]]
      BY <1>1, <2>1
    <3>4. place[x][1] \in 1 .. more[place[x][2]]
      BY <3>1, <3>2, <3>3
    <3> HIDE DEF longer, more
    <3> QED
      BY <1>1, <2>1, <3>1, <3>4
  <2>2. CASE x \notin A
    <3>1. x = k /\ longer[x] = <<counts[h] + 1, h>>
      BY <2>2
    <3>2. longer[x][1] = counts[h] + 1 /\ longer[x][2] = h
      BY <3>1
    <3> HIDE DEF longer, more
    <3> QED
      BY <1>2, <1>5, <3>1, <3>2
  <2> QED
    BY <2>1, <2>2
<1>7. ASSUME NEW x \in A
      PROVE  place[x] # <<counts[h] + 1, h>>
  <2>1. SUFFICES ASSUME place[x] = <<counts[h] + 1, h>>
                 PROVE  FALSE
    OBVIOUS
  <2>2. place[x][1] = counts[h] + 1 /\ place[x][2] = h
    BY <2>1
  <2>3. place[x][1] \in 1 .. counts[place[x][2]]
    BY <1>1
  <2> QED
    BY <1>2, <2>2, <2>3
<1>8. ASSUME NEW x \in A \cup {k}, NEW y \in A \cup {k}, longer[x] = longer[y]
      PROVE  x = y
  <2>1. CASE x \in A /\ y \in A
    BY <1>1, <1>8, <2>1
  <2>2. CASE x \in A /\ y \notin A
    BY <1>7, <1>8, <2>2
  <2>3. CASE x \notin A /\ y \in A
    BY <1>7, <1>8, <2>3
  <2> QED
    BY <2>1, <2>2, <2>3
<1> HIDE DEF longer, more, k
<1> QED
  BY <1>3, <1>6, <1>8 DEF Counted, k, more

\* The places of the pages of a host are limited.
LEMMA CountedAreFew ==
  ASSUME IsFiniteSet(Hosts), NEW counts \in [Hosts -> 0 .. maxPerDomain],
         NEW A, Counted(A, counts), NEW h \in Hosts, NEW S \in SUBSET A,
         \A k \in S : \E u \in ValidUrls : normalizeURL[u] = k /\ lowerHost[hostOf[u]] = h
  PROVE  Cardinality(S) <= maxPerDomain * Cardinality({s \in Hosts : lowerHost[s] = h})
<1>1. PICK place \in [A -> Nat \X Hosts] :
        /\ \A x, y \in A : place[x] = place[y] => x = y
        /\ \A x \in A : /\ \E v \in ValidUrls : normalizeURL[v] = x /\ hostOf[v] = place[x][2]
                        /\ place[x][1] \in 1 .. counts[place[x][2]]
  BY DEF Counted
<1> DEFINE spellings == {s \in Hosts : lowerHost[s] = h}
           numbers == 1 .. maxPerDomain
           f == [k \in S |-> place[k]]
<1>2. ASSUME NEW k \in S
      PROVE  f[k] \in numbers \X spellings
  <2>1. PICK v \in ValidUrls : normalizeURL[v] = k /\ hostOf[v] = place[k][2]
    BY <1>1
  <2>2. PICK u \in ValidUrls : normalizeURL[u] = k /\ lowerHost[hostOf[u]] = h
    OBVIOUS
  <2>3. lowerHost[place[k][2]] = h
    BY <2>1, <2>2, SameKeySameHost
  <2>4. place[k] \in Nat \X Hosts /\ place[k][1] \in 1 .. counts[place[k][2]]
    BY <1>1
  <2>5. counts[place[k][2]] \in 0 .. maxPerDomain
    BY <2>4
  <2>6. place[k][1] \in numbers
    BY <2>4, <2>5, MaxPerDomainAssumption
  <2> QED
    BY <2>3, <2>4, <2>6
<1>3. \A x, y \in S : f[x] = f[y] => x = y
  BY <1>1
<1>4. f \in Injection(S, numbers \X spellings)
  <2>1. f \in [S -> numbers \X spellings]
    BY <1>2
  <2> HIDE DEF f, numbers, spellings
  <2> QED
    BY <1>3, <2>1 DEF Injection, IsInjective
<1>5. IsFiniteSet(spellings)
  BY FS_Subset
<1>6. IsFiniteSet(numbers) /\ Cardinality(numbers) = maxPerDomain
  <2>1. 1 \in Int /\ maxPerDomain \in Int
    BY MaxPerDomainAssumption
  <2>2. IsFiniteSet(numbers) /\ Cardinality(numbers) = IF 1 > maxPerDomain THEN 0 ELSE maxPerDomain - 1 + 1
    BY <2>1, FS_Interval
  <2> QED
    BY <2>2, MaxPerDomainAssumption
<1>7. /\ IsFiniteSet(numbers \X spellings)
      /\ Cardinality(numbers \X spellings) = maxPerDomain * Cardinality(spellings)
  <2> HIDE DEF numbers, spellings
  <2> QED
    BY <1>5, <1>6, FS_Product
<1> HIDE DEF f, numbers
<1> QED
  BY <1>4, <1>7, FS_Injection

LEMMA InitCountInv == CrawlInit => CountInv
<1> SUFFICES ASSUME CrawlInit
             PROVE  \E A \in SUBSET Keys : FoundByLinks(A) /\ Counted(A, domainCounts)
  BY DEF CountInv
<1>1. Seeds \subseteq UrlsOf({} \cup SeedKeys)
  BY SeedsAssumption DEF UrlsOf, SeedKeys, SeedUrls
<1>2. FoundByLinks({})
  BY <1>1, InitFound DEF FoundByLinks, FoundIn
<1>3. Counted({}, domainCounts)
  <2>1. [x \in {} |-> x] \in [{} -> Nat \X Hosts]
    OBVIOUS
  <2> QED
    BY <2>1 DEF Counted
<1> QED
  BY <1>2, <1>3

\* What the queue and the workers have after a step, given what they had.
LEMMA LinksFound ==
  ASSUME CrawlInv, NEW A, NEW B, FoundByLinks(A), NEW G,
         G = UrlsOf(B \cup SeedKeys'), A \subseteq B, SeedKeys \subseteq SeedKeys'
  PROVE  /\ FoundIn(G, G)
         /\ FoundIn(G, G)' => FoundByLinks(B)'
<1>1. UrlsOf(A \cup SeedKeys) \subseteq G
  BY DEF UrlsOf
<1>2. FoundIn(G, G)
  BY <1>1 DEF FoundByLinks, FoundIn
<1>3. G = UrlsOf(B \cup SeedKeys)'
  BY DEF UrlsOf
<1>4. FoundIn(G, G)' => FoundByLinks(B)'
  BY <1>3 DEF FoundByLinks, FoundIn
<1> QED
  BY <1>2, <1>4

LEMMA SameSeeds == UNCHANGED second => SeedKeys' = SeedKeys
BY DEF SeedKeys, SeedUrls

LEMMA AskCountInv ==
  ASSUME CrawlInv, CountInv, policy.inner = "maxPerDomain", UNCHANGED second,
         NEW w \in Workers, NEW l, AskPolicy(w, l)
  PROVE  CountInv'
<1> DEFINE accepted == l \in ValidUrls /\ Accepts(held[w].url, l)
<1>1. PICK A \in SUBSET Keys : FoundByLinks(A) /\ Counted(A, domainCounts)
  BY DEF CountInv
<1>2. CASE ~accepted
  <2>1. UNCHANGED <<asked, domainCounts>>
    BY <1>2 DEF AskPolicy, policyVars
  <2>2. PICK G : G = UrlsOf(A \cup SeedKeys')
    OBVIOUS
  <2>3. FoundIn(G, G)'
    BY <1>1, <2>1, <2>2, LinksFound, SameSeeds, AskFound
  <2>4. FoundByLinks(A)'
    BY <1>1, <2>2, <2>3, LinksFound, SameSeeds
  <2> QED
    BY <1>1, <2>1, <2>4 DEF CountInv
<1>3. CASE accepted
  <2>1. hostOf[l] \in Hosts
    BY <1>3, HostOfValid DEF Accepts, InnerAccepts, BelowLimit
  <2>2. domainCounts' = [domainCounts EXCEPT ![hostOf[l]] = @ + 1]
    BY <1>3 DEF AskPolicy, Remember, CountLink, SetDepth
  <2>3. domainCounts \in [Hosts -> Nat]
    BY MaxPerDomainAssumption DEF CrawlInv, CrawlTypeOK, PolicyTypeOK
  <2>4. PICK B \in SUBSET Keys : B = A \cup {normalizeURL[l]}
    BY <1>3 DEF ValidUrls
  <2>5. Counted(B, domainCounts')
    BY <1>1, <1>3, <2>1, <2>2, <2>3, <2>4, OneMoreCounted
  <2>6. PICK G : G = UrlsOf(B \cup SeedKeys')
    OBVIOUS
  <2>7. l \in G
    BY <1>3, <2>4, <2>6 DEF UrlsOf
  <2>8. FoundIn(G, G)'
    BY <1>1, <2>4, <2>6, <2>7, LinksFound, SameSeeds, AskFound
  <2>9. FoundByLinks(B)'
    BY <1>1, <2>4, <2>6, <2>8, LinksFound, SameSeeds
  <2> QED
    BY <2>5, <2>9 DEF CountInv
<1> QED
  BY <1>2, <1>3

LEMMA NextCountInv == CrawlInv /\ CountInv /\ [CrawlNext]_crawlVars => CountInv'
<1> SUFFICES ASSUME CrawlInv, CountInv, [CrawlNext]_crawlVars, policy'.inner = "maxPerDomain"
             PROVE  CountInv'
  BY DEF CountInv
<1>1. ASSUME UNCHANGED <<policy, domainCounts>>, SeedKeys \subseteq SeedKeys',
             \A G : FoundIn(G, G) /\ UrlsOf(SeedKeys') \subseteq G => FoundIn(G, G)'
      PROVE  CountInv'
  <2>1. PICK A \in SUBSET Keys : FoundByLinks(A) /\ Counted(A, domainCounts)
    BY <1>1 DEF CountInv
  <2>2. PICK G : G = UrlsOf(A \cup SeedKeys')
    OBVIOUS
  <2>3. UrlsOf(SeedKeys') \subseteq G
    BY <2>2 DEF UrlsOf
  <2>4. FoundIn(G, G)'
    BY <1>1, <2>1, <2>2, <2>3, LinksFound
  <2>5. FoundByLinks(A)'
    BY <1>1, <2>1, <2>2, <2>4, LinksFound
  <2> QED
    BY <1>1, <2>1, <2>5 DEF CountInv
<1>2. ASSUME PolicyQuiet
      PROVE  CountInv'
  <2>1. UNCHANGED <<policy, domainCounts, second>>
    BY <1>2 DEF PolicyQuiet, policyVars
  <2> QED
    BY <1>1, <1>2, <2>1, SameSeeds, QuietFound
<1>3. ASSUME NEW w \in Workers, CrawlStep(w)
      PROVE  CountInv'
  <2>1. UNCHANGED second
    BY <1>3 DEF CrawlStep
  <2>2. ASSUME NEW l \in todo[w], AskPolicy(w, l)
        PROVE  CountInv'
    <3>1. policy' = policy
      BY <2>2 DEF AskPolicy, Remember, CountLink, SetDepth, policyVars
    <3> QED
      BY <2>1, <2>2, <3>1, AskCountInv
  <2>3. CASE AddLink(w)
    <3>1. UNCHANGED <<policy, domainCounts>>
      BY <2>3 DEF AddLink, policyVars
    <3> QED
      BY <1>1, <2>1, <2>3, <3>1, SameSeeds, AddLinkFound
  <2> QED
    BY <1>2, <1>3, <2>2, <2>3, QuietWorker
<1>4. CASE RunAgain
  <2>1. UNCHANGED <<policy, domainCounts>>
    BY <1>4 DEF RunAgain
  <2>2. SeedKeys \subseteq SeedKeys'
    BY <1>4 DEF RunAgain, SeedKeys, SeedUrls
  <2>3. second' \subseteq UrlsOf(SeedKeys')
    BY <1>4, LaterSeedsAssumption DEF RunAgain, UrlsOf, SeedKeys, SeedUrls
  <2> QED
    BY <1>1, <1>4, <2>1, <2>2, <2>3, RunAgainFound
<1> QED
  BY <1>2, <1>3, <1>4, OtherStepInv DEF CrawlNext

\* With maxPerDomain the pages of a host other than seeds are at most the limit
\* for each of its spellings, whichever workers ask at once and however often a
\* page is retried or linked, over both Runs.
THEOREM LimitsPagesPerDomain ==
  ASSUME IsFiniteSet(Hosts)
  PROVE  CrawlSpec => []PagesPerDomain
<1>1. ASSUME CrawlInv, CountInv
      PROVE  PagesPerDomain
  <2> SUFFICES ASSUME policy.inner = "maxPerDomain", NEW h \in Hosts
               PROVE  Cardinality(PagesOf(h) \ SeedKeys)
                        <= maxPerDomain * Cardinality({s \in Hosts : lowerHost[s] = h})
    BY DEF PagesPerDomain
  <2>1. PICK A \in SUBSET Keys : FoundByLinks(A) /\ Counted(A, domainCounts)
    BY <1>1 DEF CountInv
  <2>2. PICK G : G = UrlsOf(A \cup SeedKeys)
    OBVIOUS
  <2>3. FoundIn(G, G) /\ QueueTypeOK /\ domainCounts \in [Hosts -> 0 .. maxPerDomain]
    BY <1>1, <2>1, <2>2 DEF FoundByLinks, CrawlInv, CrawlTypeOK, PolicyTypeOK
  <2>4. ASSUME NEW k \in PagesOf(h) \ SeedKeys
        PROVE  k \in A
    <3>1. PICK u \in G : normalizeURL[u] = k
      BY <2>3, KnownIsFound DEF PagesOf
    <3> QED
      BY <2>2, <3>1 DEF UrlsOf
  <2>5. \A k \in PagesOf(h) \ SeedKeys :
          \E u \in ValidUrls : normalizeURL[u] = k /\ lowerHost[hostOf[u]] = h
    BY DEF PagesOf
  <2>6. PagesOf(h) \ SeedKeys \in SUBSET A
    BY <2>4
  <2> QED
    BY <2>1, <2>3, <2>5, <2>6, CountedAreFew
<1> QED
  BY <1>1, InitCrawlInv, NextCrawlInv, InitCountInv, NextCountInv, PTL DEF CrawlSpec
=============================================================================
