------------------------- MODULE ClientSubmitProofs -------------------------
(***************************************************************************)
(* For any nodes, number of retries and configuration: the prompt goes     *)
(* only where policy, encryption and tickets allow, no verdict is passed   *)
(* over, and a guarded node executes the task at most once.                *)
(***************************************************************************)
EXTENDS ClientSubmit, SequenceTheorems, TLAPS

Discovering == {"ticket", "legacy", "order"}
Trying == {"token", "post", "wait", "backoff"}

(* Before the candidates are chosen nothing has been tried or sent.        *)
NothingYet ==
  stage \in Discovering =>
    /\ candidates = <<>>
    /\ i = 1
    /\ prompted = {}

(* The submit is at one of its candidates, and only they were posted to.   *)
AtCandidate ==
  /\ stage \in Trying => i \in DOMAIN candidates
  /\ \A p \in Places : posts[p] # "unsent" => p[1] \in DOMAIN candidates

(* Candidates, and whoever was prompted, are eligible nodes of the route.  *)
Chosen ==
  /\ \A x \in DOMAIN candidates : candidates[x] \in Eligible
  /\ \A x \in prompted : x[1] \in Eligible /\ x[2] = (x[1] \in Keyed)

RouteAllowed ==
  /\ route \subseteq Routable
  /\ cfg.browserOnly /\ tickets = {} => route \subseteq Browser

(* Where tickets are needed, the whole route is ticketed.                  *)
RouteTicketed ==
  (cfg.mode = "ticketed" \/ cfg.restricted) /\ ~cfg.profiled
    => stage # "legacy" /\ tickets = route

(* A verdict is heard only of the last candidate tried, and ends it all.   *)
VerdictEnds ==
  \A j \in 1 .. MaxRetries : told[j] \cap Verdicts # {} => j = i /\ stage \in Ended

(* The first execution is recorded before it starts, and forbids another.  *)
GuardKnows ==
  \A n \in Guarded \cap Nodes :
    executions[n] = 0 \/ (executions[n] = 1 /\ <<n, TaskId(<<1, 1>>)>> \in recorded)

ClientInv ==
  /\ NothingYet
  /\ AtCandidate
  /\ Chosen
  /\ RouteAllowed
  /\ RouteTicketed
  /\ VerdictEnds

-----------------------------------------------------------------------------
(* A listing is a sequence over its set, of length 1 to MaxRetries.        *)
LEMMA Listing ==
  ASSUME NEW S, NEW s \in Listings(S)
  PROVE  /\ s \in Seq(S)
         /\ Len(s) \in 1 .. MaxRetries
         /\ DOMAIN s = 1 .. Len(s)
         /\ \A x \in DOMAIN s : s[x] \in S
<1>1. PICK k \in 1 .. MaxRetries : s \in [1 .. k -> S]
  BY DEF Listings
<1>2. s \in Seq(S)
  BY <1>1, SubmitAssumption, SeqDef
<1>3. Len(s) = k
  BY <1>1, <1>2, LenProperties, SubmitAssumption
<1>4. QED
  BY <1>1, <1>2, <1>3

(* A listing of a subset is a listing.                                     *)
LEMMA ListingWider ==
  ASSUME NEW S, NEW T, S \subseteq T, NEW s \in Listings(S)
  PROVE  s \in Listings(T)
<1>1. PICK k \in 1 .. MaxRetries : s \in [1 .. k -> S]
  BY DEF Listings
<1>2. s \in [1 .. k -> T]
  BY <1>1
<1>3. QED
  BY <1>2 DEF Listings

LEMMA CandidateDomain ==
  ASSUME TypeOK
  PROVE  /\ DOMAIN candidates = 1 .. Len(candidates)
         /\ Len(candidates) \in 0 .. MaxRetries
         /\ \A x \in DOMAIN candidates : candidates[x] \in Nodes
<1>1. CASE candidates = <<>>
  BY <1>1, SubmitAssumption
<1>2. CASE candidates \in Listings(Nodes)
  BY <1>2, Listing, SubmitAssumption
<1>3. QED
  BY <1>1, <1>2 DEF TypeOK

-----------------------------------------------------------------------------
(* Types.                                                                  *)
LEMMA TypeInit == Init => TypeOK
<1> SUFFICES ASSUME Init PROVE TypeOK
  OBVIOUS
<1>1. 1 \in 1 .. MaxRetries
  BY SubmitAssumption
<1>2. QED
  BY <1>1 DEF Init, TypeOK, Ended, Answers, Verdicts

(* Another candidate is one of the places for candidates.                  *)
LEMMA TypeNextCandidate ==
  ASSUME TypeOK, NextCandidate
  PROVE  /\ i' \in 1 .. MaxRetries
         /\ attempt' \in 1 .. MaxRetries
         /\ stage' \in {"token", "threw"}
<1>1. Len(candidates) \in 0 .. MaxRetries
  BY CandidateDomain
<1>2. i \in 1 .. MaxRetries /\ attempt \in 1 .. MaxRetries
  BY DEF TypeOK
<1>3. QED
  BY <1>1, <1>2, SubmitAssumption DEF NextCandidate, Goto, Throw

LEMMA TypeHeed ==
  ASSUME TypeOK, NEW answer \in Answers \cup {"gateway"}, Heed(answer)
  PROVE  TypeOK'
<1>1. told' \in [1 .. MaxRetries -> SUBSET (Answers \cup {"gateway"})]
  BY DEF TypeOK, Heed
<1>2. /\ i' \in 1 .. MaxRetries
      /\ attempt' \in 1 .. MaxRetries
      /\ stage' \in {"returned", "threw", "token", "backoff"}
  <2>1. CASE answer = "broken" /\ NextCandidate
    BY <2>1, TypeNextCandidate
  <2>2. CASE UNCHANGED <<i, attempt>> /\ stage' \in {"returned", "threw", "backoff"}
    BY <2>2 DEF TypeOK
  <2>3. QED
    BY <2>1, <2>2 DEF Heed, Goto, Throw
<1>3. UNCHANGED <<cfg, discovery, candidates, prompted, posts, nodes>>
  BY DEF Heed
<1>4. QED
  BY <1>1, <1>2, <1>3 DEF TypeOK, Ended, discovery, nodes

LEMMA TypeNext ==
  ASSUME TypeOK, AtCandidate, [Next]_vars
  PROVE  TypeOK'
<1> USE DEF Goto, Throw, Ended
<1>1. ASSUME NEW n \in Nodes, TicketIssued(n) PROVE TypeOK'
  BY <1>1 DEF TypeOK, TicketIssued, discovery, nodes
<1>2. CASE NoFurtherRoute
  BY <1>2 DEF TypeOK, NoFurtherRoute, discovery, nodes
<1>3. CASE TicketFails
  BY <1>3 DEF TypeOK, TicketFails, discovery, nodes
<1>4. CASE TicketsUnsupported
  BY <1>4 DEF TypeOK, TicketsUnsupported, nodes
<1>5. CASE Discover
  BY <1>5 DEF TypeOK, Discover, nodes
<1>6. CASE Order
  <2>1. candidates' \in Listings(Nodes) \cup {<<>>}
    <3>1. Eligible \subseteq Nodes
      BY DEF TypeOK, Eligible
    <3>2. QED
      BY <1>6, <3>1, ListingWider DEF Order, TypeOK
  <2>2. QED
    BY <1>6, <2>1 DEF TypeOK, Order, discovery, nodes
<1>7. CASE AcquireToken
  BY <1>7 DEF TypeOK, AcquireToken, discovery, nodes
<1>8. CASE Post
  <2>1. candidates[i] \in Nodes
    BY <1>8, CandidateDomain DEF AtCandidate, Trying, Post
  <2>2. prompted' \subseteq Nodes \X BOOLEAN
    <3>1. (candidates[i] \in Keyed) \in BOOLEAN
      OBVIOUS
    <3>2. <<candidates[i], candidates[i] \in Keyed>> \in Nodes \X BOOLEAN
      BY <2>1, <3>1, Zenon
    <3>3. QED
      BY <1>8, <3>2, Zenon DEF TypeOK, Post
  <2>3. posts' \in [Places -> Answers \cup {"unsent", "travelling", "executing", "lost"}]
    BY <1>8 DEF TypeOK, Post
  <2>4. QED
    BY <1>8, <2>2, <2>3 DEF TypeOK, Post, discovery, nodes
<1>9. CASE Hear
  BY <1>9, TypeHeed DEF Hear
<1>10. CASE GatewayFails
  BY <1>10, TypeHeed DEF GatewayFails
<1>11. CASE GivesUp
  BY <1>11, TypeNextCandidate DEF TypeOK, GivesUp, discovery, nodes
<1>12. CASE Backoff
  BY <1>12, TypeNextCandidate, SubmitAssumption DEF TypeOK, Backoff, discovery, nodes
<1>13. ASSUME NEW p \in Places, Lose(p) \/ Arrive(p) \/ Finish(p) PROVE TypeOK'
  <2> USE DEF Become
  <2>1. posts' \in [Places -> Answers \cup {"unsent", "travelling", "executing", "lost"}]
    BY <1>13 DEF TypeOK, Lose, Arrive, Finish, Answers, Verdicts
  <2>2. UNCHANGED <<cfg, discovery, candidates, client>>
    BY <1>13 DEF Lose, Arrive, Finish
  <2>3. recorded' \subseteq Nodes \X (Nat \X Nat) /\ executions' \in [Nodes -> Nat]
    <3>1. CASE UNCHANGED nodes
      BY <3>1 DEF TypeOK, nodes
    <3>2. CASE /\ posts[p] = "travelling"
               /\ recorded' = recorded \cup {<<candidates[p[1]], TaskId(p)>>}
               /\ executions' = [executions EXCEPT ![candidates[p[1]]] = @ + 1]
      <4>1. candidates[p[1]] \in Nodes
        BY <3>2, CandidateDomain DEF AtCandidate
      <4>2. TaskId(p) \in Nat \X Nat
        BY DEF TaskId
      <4>3. recorded' \subseteq Nodes \X (Nat \X Nat)
        BY <3>2, <4>1, <4>2 DEF TypeOK
      <4>4. executions' \in [Nodes -> Nat]
        BY <3>2, <4>1 DEF TypeOK
      <4>5. QED
        BY <4>3, <4>4
    <3>3. QED
      BY <1>13, <3>1, <3>2 DEF Lose, Arrive, Finish
  <2>4. QED
    BY <2>1, <2>2, <2>3 DEF TypeOK, discovery, client
<1>14. CASE UNCHANGED vars
  BY <1>14 DEF TypeOK, vars, discovery, client, nodes
<1>15. QED
  BY <1>1, <1>2, <1>3, <1>4, <1>5, <1>6, <1>7, <1>8, <1>9, <1>10, <1>11,
     <1>12, <1>13, <1>14 DEF Next, ClientStep, NodeStep

-----------------------------------------------------------------------------
(* The client's side.                                                      *)
LEMMA ClientInit == Init => ClientInv
<1> SUFFICES ASSUME Init PROVE ClientInv
  OBVIOUS
<1>1. NothingYet /\ AtCandidate /\ Chosen
  BY DEF Init, NothingYet, AtCandidate, Chosen, Discovering, Trying
<1>2. RouteAllowed
  BY DEF Init, RouteAllowed
<1>3. RouteTicketed
  BY SubmitAssumption DEF Init, RouteTicketed, Setting
<1>4. VerdictEnds
  BY DEF Init, VerdictEnds
<1>5. QED
  BY <1>1, <1>2, <1>3, <1>4 DEF ClientInv

(* Discovery touches only the route and the stage.                         *)
LEMMA DiscoveryKeeps ==
  ASSUME TypeOK, ClientInv, stage \in {"ticket", "legacy"},
         UNCHANGED <<cfg, candidates, i, attempt, told, prompted, posts>>,
         stage' \in Discovering \cup {"threw"},
         RouteAllowed', RouteTicketed'
  PROVE  ClientInv'
<1>1. candidates = <<>> /\ i = 1 /\ prompted = {}
  BY DEF ClientInv, NothingYet, Discovering
<1>2. NothingYet'
  BY <1>1 DEF NothingYet
<1>3. AtCandidate'
  BY DEF ClientInv, AtCandidate, Discovering, Trying
<1>4. Chosen'
  BY <1>1 DEF Chosen
<1>5. VerdictEnds'
  BY DEF ClientInv, VerdictEnds, Ended
<1>6. QED
  BY <1>2, <1>3, <1>4, <1>5 DEF ClientInv

(* A step that keeps cfg, the route and the candidates keeps what was      *)
(* established about them, once it does not go back to discovery.          *)
LEMMA TryingKeeps ==
  ASSUME TypeOK, ClientInv, stage \in Trying \cup Ended, stage' \in Trying \cup Ended,
         UNCHANGED <<cfg, discovery, candidates>>
  PROVE  /\ NothingYet'
         /\ RouteAllowed'
         /\ RouteTicketed'
         /\ Eligible' = Eligible
         /\ \A x \in DOMAIN candidates' : candidates'[x] \in Eligible'
<1> USE DEF Trying, Ended
<1>1. NothingYet'
  BY DEF NothingYet, Discovering
<1>2. RouteAllowed'
  BY DEF ClientInv, RouteAllowed, discovery
<1>3. RouteTicketed'
  BY DEF ClientInv, RouteTicketed, discovery
<1>4. Eligible' = Eligible
  BY DEF Eligible, discovery
<1>5. QED
  BY <1>1, <1>2, <1>3, <1>4 DEF ClientInv, Chosen

LEMMA NextCandidateStays ==
  ASSUME TypeOK, ClientInv, stage \in Trying, NextCandidate, UNCHANGED candidates
  PROVE  /\ stage' \in Trying \cup Ended
         /\ stage' \in Trying => i' \in DOMAIN candidates'
         /\ stage \notin Ended
<1>1. i \in DOMAIN candidates
  BY DEF ClientInv, AtCandidate
<1>2. DOMAIN candidates = 1 .. Len(candidates) /\ Len(candidates) \in Nat
  BY CandidateDomain, SubmitAssumption
<1>3. QED
  BY <1>1, <1>2 DEF NextCandidate, Goto, Throw, Trying, Ended

(* An answer is heeded.                                                    *)
LEMMA HeedKeeps ==
  ASSUME TypeOK, ClientInv, stage = "wait",
         NEW answer \in Answers \cup {"gateway"}, Heed(answer)
  PROVE  ClientInv'
<1> USE DEF Trying, Ended
<1>1. UNCHANGED <<cfg, discovery, candidates, prompted, posts>>
  BY DEF Heed
<1>2. \/ answer = "broken" /\ NextCandidate
      \/ answer \in Transient /\ stage' = "backoff" /\ UNCHANGED i
      \/ stage' \in Ended /\ UNCHANGED i
  BY DEF Heed, Goto, Throw
<1>3. /\ stage' \in Trying \cup Ended
      /\ stage' \in Trying => i' \in DOMAIN candidates'
  BY <1>1, <1>2, NextCandidateStays DEF ClientInv, AtCandidate
<1>4. /\ NothingYet' /\ RouteAllowed' /\ RouteTicketed' /\ Eligible' = Eligible
      /\ \A x \in DOMAIN candidates' : candidates'[x] \in Eligible'
  BY <1>1, <1>3, TryingKeeps
<1>5. AtCandidate'
  BY <1>1, <1>3 DEF ClientInv, AtCandidate
<1>6. Chosen'
  BY <1>1, <1>4 DEF ClientInv, Chosen
<1>7. VerdictEnds'
  <2>1. told' = [told EXCEPT ![i] = @ \cup {answer}] /\ i \in 1 .. MaxRetries
    BY DEF Heed, TypeOK
  <2>2. \A j \in 1 .. MaxRetries : told[j] \cap Verdicts = {}
    BY DEF ClientInv, VerdictEnds
  <2>3. answer \in Verdicts => stage' \in Ended /\ i' = i
    BY DEF Heed, Goto, Throw, Verdicts, Transient
  <2>4. ASSUME NEW j \in 1 .. MaxRetries, told'[j] \cap Verdicts # {}
        PROVE  j = i' /\ stage' \in Ended
    <3>1. j = i /\ answer \in Verdicts
      BY <2>1, <2>2, <2>4 DEF TypeOK
    <3>2. QED
      BY <2>3, <3>1
  <2>5. QED
    BY <2>4 DEF VerdictEnds
<1>8. QED
  BY <1>4, <1>5, <1>6, <1>7 DEF ClientInv

(* The other steps of the attempts hear nothing.                           *)
LEMMA SilentKeeps ==
  ASSUME TypeOK, ClientInv, stage \in Trying, stage' \in Trying \cup Ended,
         UNCHANGED <<cfg, discovery, candidates, told, prompted, posts>>,
         stage' \in Trying => i' \in DOMAIN candidates'
  PROVE  ClientInv'
<1>1. /\ NothingYet' /\ RouteAllowed' /\ RouteTicketed' /\ Eligible' = Eligible
      /\ \A x \in DOMAIN candidates' : candidates'[x] \in Eligible'
  BY TryingKeeps
<1>2. AtCandidate'
  BY DEF ClientInv, AtCandidate
<1>3. Chosen'
  BY <1>1 DEF ClientInv, Chosen
<1>4. VerdictEnds'
  BY DEF ClientInv, VerdictEnds, Trying, Ended
<1>5. QED
  BY <1>1, <1>2, <1>3, <1>4 DEF ClientInv

LEMMA OrderKeeps ==
  ASSUME TypeOK, ClientInv, Order
  PROVE  ClientInv'
<1> USE DEF Trying, Ended, Discovering, Goto, Throw
<1>1. stage = "order" /\ candidates = <<>> /\ i = 1 /\ prompted = {}
  BY DEF ClientInv, NothingYet, Order
<1>2. /\ UNCHANGED <<cfg, discovery, i, told, prompted, posts>>
      /\ stage' \in {"token", "threw"}
  BY DEF Order
<1>3. NothingYet'
  BY <1>2 DEF NothingYet
<1>4. \A p \in Places : posts[p] = "unsent"
  BY <1>1 DEF ClientInv, AtCandidate
<1>5. /\ stage' = "token" => i' \in DOMAIN candidates'
      /\ \A x \in DOMAIN candidates' : candidates'[x] \in Eligible
  <2>1. CASE UNCHANGED candidates /\ stage' = "threw"
    BY <1>1, <2>1
  <2>2. CASE candidates' \in Listings(Eligible)
    BY <1>1, <1>2, <2>2, Listing
  <2>3. QED
    BY <2>1, <2>2 DEF Order
<1>6. AtCandidate'
  BY <1>2, <1>4, <1>5 DEF AtCandidate
<1>7. Chosen'
  BY <1>1, <1>2, <1>5 DEF Chosen, Eligible, discovery
<1>8. RouteAllowed' /\ RouteTicketed'
  BY <1>2 DEF ClientInv, RouteAllowed, RouteTicketed, discovery
<1>9. VerdictEnds'
  BY <1>1, <1>2 DEF ClientInv, VerdictEnds
<1>10. QED
  BY <1>3, <1>6, <1>7, <1>8, <1>9 DEF ClientInv

LEMMA PostKeeps ==
  ASSUME TypeOK, ClientInv, Post
  PROVE  ClientInv'
<1> USE DEF Trying, Ended, Goto
<1>1. /\ stage = "post" /\ stage' = "wait"
      /\ UNCHANGED <<cfg, discovery, candidates, i, told>>
  BY DEF Post
<1>2. i \in DOMAIN candidates
  BY <1>1 DEF ClientInv, AtCandidate
<1>3. /\ NothingYet' /\ RouteAllowed' /\ RouteTicketed' /\ Eligible' = Eligible
      /\ \A x \in DOMAIN candidates' : candidates'[x] \in Eligible'
  BY <1>1, TryingKeeps
<1>4. AtCandidate'
  <2>1. Current \in Places /\ Current[1] = i
    BY DEF Current, Places, TypeOK
  <2>2. posts' = [posts EXCEPT ![Current] = "travelling"]
    BY DEF Post
  <2>3. QED
    BY <1>1, <1>2, <2>1, <2>2 DEF ClientInv, AtCandidate, TypeOK
<1>5. Chosen'
  <2>1. candidates[i] \in Eligible
    BY <1>2 DEF ClientInv, Chosen
  <2>2. ASSUME NEW x \in prompted'
        PROVE  x[1] \in Eligible /\ x[2] = (x[1] \in Keyed)
    <3>1. CASE x \in prompted
      BY <3>1, Zenon DEF ClientInv, Chosen
    <3>2. CASE x = <<candidates[i], candidates[i] \in Keyed>>
      <4>1. x[1] = candidates[i]
        BY <3>2
      <4>2. x[2] = (candidates[i] \in Keyed)
        BY <3>2
      <4>3. QED
        BY <2>1, <4>1, <4>2, Zenon
    <3>3. QED
      BY <2>2, <3>1, <3>2, Zenon DEF Post
  <2>3. QED
    BY <1>3, <2>2, Zenon DEF Chosen
<1>6. VerdictEnds'
  BY <1>1 DEF ClientInv, VerdictEnds
<1>7. QED
  BY <1>3, <1>4, <1>5, <1>6 DEF ClientInv

(* The network and the nodes do not touch the client.                      *)
LEMMA NodeKeeps ==
  ASSUME TypeOK, ClientInv, NEW p \in Places, Lose(p) \/ Arrive(p) \/ Finish(p)
  PROVE  ClientInv'
<1>1. UNCHANGED <<cfg, discovery, candidates, client>>
  BY DEF Lose, Arrive, Finish
<1>2. posts[p] # "unsent" /\ \A q \in Places : q # p => posts'[q] = posts[q]
  BY DEF Lose, Arrive, Finish, Become, TypeOK
<1>3. AtCandidate'
  BY <1>1, <1>2 DEF ClientInv, AtCandidate, client
<1>4. NothingYet' /\ RouteAllowed' /\ RouteTicketed' /\ VerdictEnds'
  BY <1>1 DEF ClientInv, NothingYet, RouteAllowed, RouteTicketed, VerdictEnds, client, discovery
<1>5. Chosen'
  BY <1>1 DEF ClientInv, Chosen, Eligible, client, discovery
<1>6. QED
  BY <1>3, <1>4, <1>5 DEF ClientInv

LEMMA ClientNext ==
  ASSUME TypeOK, ClientInv, [Next]_vars
  PROVE  ClientInv'
<1> USE DEF Goto, Throw
<1>1. ASSUME NEW n \in Nodes, TicketIssued(n) PROVE ClientInv'
  <2>1. /\ stage \in {"ticket", "legacy"}
        /\ UNCHANGED <<cfg, candidates, i, attempt, told, prompted, posts>>
        /\ stage' \in Discovering \cup {"threw"}
        /\ stage' # "legacy"
    BY <1>1 DEF TicketIssued, Discovering
  <2>2. RouteAllowed'
    BY <1>1, <2>1 DEF TicketIssued, ClientInv, RouteAllowed, discovery
  <2>3. RouteTicketed'
    BY <1>1, <2>1 DEF TicketIssued, ClientInv, RouteTicketed, discovery
  <2>4. QED
    BY <2>1, <2>2, <2>3, DiscoveryKeeps
<1>2. CASE NoFurtherRoute \/ TicketFails
  BY <1>2, DiscoveryKeeps
     DEF NoFurtherRoute, TicketFails, ClientInv, RouteAllowed, RouteTicketed, discovery, Discovering
<1>3. CASE TicketsUnsupported
  BY <1>3, DiscoveryKeeps, SubmitAssumption
     DEF TicketsUnsupported, MayFallBack, TypeOK, Setting, ClientInv, RouteAllowed, RouteTicketed,
         Discovering
<1>4. CASE Discover
  <2>1. /\ stage = "legacy"
        /\ UNCHANGED <<cfg, tickets, candidates, i, attempt, told, prompted, posts>>
        /\ stage' \in {"order", "threw"}
    BY <1>4 DEF Discover
  <2>2. RouteAllowed'
    BY <1>4, <2>1 DEF Discover, ClientInv, RouteAllowed
  <2>3. RouteTicketed'
    BY <2>1 DEF ClientInv, RouteTicketed
  <2>4. QED
    BY <2>1, <2>2, <2>3, DiscoveryKeeps DEF Discovering
<1>5. CASE Order
  BY <1>5, OrderKeeps
<1>6. CASE AcquireToken
  BY <1>6, SilentKeeps DEF AcquireToken, Trying, Ended, ClientInv, AtCandidate
<1>7. CASE Post
  BY <1>7, PostKeeps
<1>8. CASE Hear
  BY <1>8, HeedKeeps DEF Hear
<1>9. CASE GatewayFails
  BY <1>9, HeedKeeps DEF GatewayFails
<1>10. CASE GivesUp
  <2>1. /\ stage \in Trying
        /\ NextCandidate
        /\ UNCHANGED <<cfg, discovery, candidates, told, prompted, posts>>
    BY <1>10 DEF GivesUp, Trying
  <2>2. QED
    BY <2>1, NextCandidateStays, SilentKeeps
<1>11. CASE Backoff
  <2>1. /\ stage \in Trying
        /\ UNCHANGED <<cfg, discovery, candidates, told, prompted, posts>>
    BY <1>11 DEF Backoff, Trying
  <2>2. CASE NextCandidate
    BY <2>1, <2>2, NextCandidateStays, SilentKeeps
  <2>3. CASE stage' = "post" /\ UNCHANGED i
    BY <2>1, <2>3, SilentKeeps DEF ClientInv, AtCandidate, Trying, Ended
  <2>4. QED
    BY <1>11, <2>2, <2>3 DEF Backoff
<1>12. ASSUME NEW p \in Places, Lose(p) \/ Arrive(p) \/ Finish(p) PROVE ClientInv'
  BY <1>12, NodeKeeps
<1>13. CASE UNCHANGED vars
  BY <1>13 DEF vars, client, discovery, ClientInv, NothingYet, AtCandidate, Chosen,
               RouteAllowed, RouteTicketed, VerdictEnds, Eligible
<1>14. QED
  BY <1>1, <1>2, <1>3, <1>4, <1>5, <1>6, <1>7, <1>8, <1>9, <1>10, <1>11,
     <1>12, <1>13 DEF Next, ClientStep, NodeStep

-----------------------------------------------------------------------------
(* The nodes' side.                                                        *)
LEMMA GuardInit == Init => GuardKnows
BY DEF Init, GuardKnows

LEMMA GuardNext ==
  ASSUME TypeOK, GuardKnows, [Next]_vars
  PROVE  GuardKnows'
<1>1. CASE UNCHANGED nodes
  BY <1>1 DEF GuardKnows, nodes, TaskId
<1>2. ASSUME NEW p \in Places,
             LET n == candidates[p[1]] IN
             /\ ~(n \in Guarded /\ <<n, TaskId(p)>> \in recorded)
             /\ recorded' = recorded \cup {<<n, TaskId(p)>>}
             /\ executions' = [executions EXCEPT ![n] = @ + 1]
      PROVE  GuardKnows'
  <2> DEFINE m == candidates[p[1]]
  <2>1. ASSUME NEW n \in Guarded \cap Nodes
        PROVE  \/ executions'[n] = 0
               \/ executions'[n] = 1 /\ <<n, <<0, 0>>>> \in recorded'
    <3>1. CASE n = m
      <4>1. executions[n] = 0
        BY <1>2, <2>1, <3>1 DEF GuardKnows, TaskId
      <4>2. executions'[n] = 1
        BY <1>2, <3>1, <4>1 DEF TypeOK
      <4>3. QED
        BY <1>2, <3>1, <4>2 DEF TaskId
    <3>2. CASE n # m
      BY <1>2, <2>1, <3>2 DEF GuardKnows, TypeOK, TaskId
    <3>3. QED
      BY <3>1, <3>2
  <2>2. QED
    BY <2>1 DEF GuardKnows, TaskId
<1>3. ASSUME ClientStep PROVE UNCHANGED nodes
  BY <1>3 DEF ClientStep, TicketIssued, NoFurtherRoute, TicketFails, TicketsUnsupported, Discover,
              Order, AcquireToken, Post, Hear, Heed, GatewayFails, GivesUp, Backoff
<1>4. ASSUME NEW p \in Places, Lose(p) \/ Arrive(p) \/ Finish(p) PROVE GuardKnows'
  BY <1>1, <1>2, <1>4 DEF Lose, Arrive, Finish
<1>5. QED
  BY <1>1, <1>3, <1>4 DEF Next, NodeStep, vars

-----------------------------------------------------------------------------
(* Every reachable state is well typed and satisfies the client's          *)
(* invariant (src/src/client.ts submitInternal).                           *)
THEOREM Invariance == Spec => [](TypeOK /\ ClientInv)
<1>1. Init => TypeOK /\ ClientInv
  BY TypeInit, ClientInit
<1>2. TypeOK /\ ClientInv /\ [Next]_vars => (TypeOK /\ ClientInv)'
  BY TypeNext, ClientNext DEF ClientInv
<1>3. QED
  BY <1>1, <1>2, PTL DEF Spec

(* The state of a submit stays within its types: the candidate and the     *)
(* attempt it is at never pass MAX_RETRIES.                                *)
THEOREM TypeCorrect == Spec => []TypeOK
BY Invariance, PTL

(* The prompt is posted to no node that the SSRF guard, the routing policy *)
(* or the encryption rule keeps out.                                       *)
THEOREM PromptStaysAllowed == Spec => []PromptWhereAllowed
<1>1. ClientInv => PromptWhereAllowed
  <2> SUFFICES ASSUME ClientInv, NEW x \in prompted
               PROVE  /\ x[1] \in Routable \cap Acceptable
                      /\ x[2] \/ cfg.plaintext
                      /\ cfg.browserOnly /\ tickets = {} => x[1] \in Browser
    BY DEF PromptWhereAllowed
  <2>1. x[1] \in Eligible /\ x[2] = (x[1] \in Keyed)
    BY Zenon DEF ClientInv, Chosen
  <2>2. x[1] \in route \cap Acceptable /\ (x[1] \in Keyed \/ cfg.plaintext)
    BY <2>1 DEF Eligible
  <2>3. x[2] \/ cfg.plaintext
    BY <2>1, <2>2, Zenon
  <2>4. QED
    BY <2>2, <2>3 DEF ClientInv, RouteAllowed
<1>2. QED
  BY <1>1, Invariance, PTL

(* In ticketed and restricted mode the prompt goes to ticketed nodes only. *)
THEOREM TicketsAreNeeded == Spec => []PromptNeedsTicket
<1>1. ClientInv => PromptNeedsTicket
  <2> SUFFICES ASSUME ClientInv, NEW x \in prompted,
                      cfg.mode = "ticketed" \/ cfg.restricted, ~cfg.profiled
               PROVE  x[1] \in tickets
    BY DEF PromptNeedsTicket
  <2>1. x[1] \in Eligible
    BY Zenon DEF ClientInv, Chosen
  <2>2. QED
    BY <2>1 DEF Eligible, ClientInv, RouteTicketed
<1>2. QED
  BY <1>1, Invariance, PTL

(* Taken together: every prompt that leaves the client may leave it.       *)
THEOREM PromptIsGuarded == Spec => []PromptGuarded
BY PromptStaysAllowed, TicketsAreNeeded, PTL DEF PromptGuarded

(* No candidate follows one that gave a verdict.                           *)
THEOREM VerdictsEndTheSubmit == Spec => []NoVerdictPassedOver
<1>1. TypeOK /\ ClientInv => NoVerdictPassedOver
  <2> SUFFICES ASSUME TypeOK, ClientInv, NEW j \in 1 .. i - 1
               PROVE  told[j] \cap Verdicts = {}
    BY DEF NoVerdictPassedOver
  <2>1. j \in 1 .. MaxRetries /\ j # i
    BY SubmitAssumption DEF TypeOK
  <2>2. QED
    BY <2>1 DEF ClientInv, VerdictEnds
<1>2. QED
  BY <1>1, Invariance, PTL

(* A node with the idempotency guard executes the task at most once,       *)
(* whatever is retried and however late it arrives.                        *)
THEOREM GuardedOnce == Spec => []ExecutedOncePerGuard
<1>1. Init => GuardKnows
  BY GuardInit
<1>2. TypeOK /\ GuardKnows /\ [Next]_vars => GuardKnows'
  BY GuardNext
<1>3. GuardKnows => ExecutedOncePerGuard
  <2> SUFFICES ASSUME GuardKnows, NEW n \in Guarded PROVE executions[n] <= 1
    BY DEF ExecutedOncePerGuard
  <2>1. n \in Nodes
    BY SubmitAssumption
  <2>2. executions[n] = 0 \/ executions[n] = 1
    BY <2>1 DEF GuardKnows
  <2>3. QED
    BY <2>2
<1>4. QED
  BY <1>1, <1>2, <1>3, TypeCorrect, PTL DEF Spec
=============================================================================
