---------------------------- MODULE ClientSubmit ----------------------------
(***************************************************************************)
(* One IicpClient.submit (src/src/client.ts): tickets or legacy discovery, *)
(* the routing policy, and the attempts at the candidates, against nodes   *)
(* that refuse, execute, fail, answer late or not at all, and proxies that *)
(* fail between.  A request the client gave up on stays in the network and *)
(* may still be executed.                                                  *)
(*                                                                         *)
(* The directory's order and the selection strategies only decide which    *)
(* eligible node is tried when: the route is a set and the candidates are  *)
(* any list of it.  Cryptography is what it decides: a ticket verifies or  *)
(* it does not, a prompt is sealed or it is not.                           *)
(***************************************************************************)
EXTENDS Naturals, Sequences, FiniteSets

CONSTANTS
  Nodes,
  Routable,    \* nodes whose endpoint passes _isSsrfSafe
  Acceptable,  \* nodes that pass the routing policy, its encryption rule aside
  Keyed,       \* nodes that advertise a cx_public_key
  Browser,     \* nodes a browser can use
  Guarded,     \* nodes tried directly that run with enableIdempotency
  Sloppy,      \* nodes that may answer 200 with what the client cannot accept
  MaxRetries,  \* MAX_RETRIES: candidates, and attempts at each
  Settings     \* the configurations of the client that are explored

Setting ==
  [ mode : {"auto", "ticketed", "legacy"},  \* route_discovery_mode
    restricted : BOOLEAN,                   \* restricted_directory
    profiled : BOOLEAN,                     \* cfg.profile_request
    browserOnly : BOOLEAN,                  \* browser_usable_only
    plaintext : BOOLEAN,                    \* IICP_CX_ALLOW_PLAINTEXT
    tokenRequired : BOOLEAN ]               \* consumer_auth_mode

(* The constructor refuses a restricted client in legacy mode.             *)
ASSUME SubmitAssumption ==
  /\ IsFiniteSet(Nodes)
  /\ Guarded \subseteq Nodes
  /\ MaxRetries \in Nat \ {0}
  /\ Settings \subseteq {s \in Setting : s.restricted => s.mode # "legacy"}

Places == (1 .. MaxRetries) \X (1 .. MaxRetries)

VARIABLES
  cfg,         \* the client's configuration
  stage,       \* where the submit is
  route,       \* the nodes discovered so far
  tickets,     \* the nodes of the route that came with a verified ticket
  candidates,  \* the nodes to try, in order
  i, attempt,  \* candidateIndex and attempt, from 1
  told,        \* what each candidate answered (history)
  posts,       \* every POST /v1/task of this submit
  prompted,    \* the nodes the prompt was sent to, and whether sealed (history)
  recorded,    \* task ids in the idempotency guards of the nodes
  executions   \* how often each node executed the task (history)

discovery == <<route, tickets>>
client == <<stage, i, attempt, told, prompted>>
nodes == <<recorded, executions>>
vars == <<cfg, discovery, candidates, client, posts, nodes>>

Ended == {"returned", "threw"}
Verdicts == {"ok", "duplicate", "failed", "rejected"}
Answers == Verdicts \cup {"busy", "broken"}

Listings(S) ==
  { s \in UNION {[1 .. k -> S] : k \in 1 .. MaxRetries} :
      \A x, y \in DOMAIN s : s[x] = s[y] => x = y }

TypeOK ==
  /\ cfg \in Settings
  /\ stage \in Ended \cup {"ticket", "legacy", "order", "token", "post", "wait", "backoff"}
  /\ route \subseteq Nodes
  /\ tickets \subseteq Nodes
  /\ candidates \in Listings(Nodes) \cup {<<>>}
  /\ i \in 1 .. MaxRetries
  /\ attempt \in 1 .. MaxRetries
  /\ told \in [1 .. MaxRetries -> SUBSET (Answers \cup {"gateway"})]
  /\ posts \in [Places -> Answers \cup {"unsent", "travelling", "executing", "lost"}]
  /\ prompted \subseteq Nodes \X BOOLEAN
  /\ recorded \subseteq Nodes \X (Nat \X Nat)
  /\ executions \in [Nodes -> Nat]

Init ==
  /\ cfg \in Settings
  /\ stage = IF cfg.mode = "legacy" \/ cfg.profiled THEN "legacy" ELSE "ticket"
  /\ route = {}
  /\ tickets = {}
  /\ candidates = <<>>
  /\ i = 1
  /\ attempt = 1
  /\ told = [c \in 1 .. MaxRetries |-> {}]
  /\ posts = [p \in Places |-> "unsent"]
  /\ prompted = {}
  /\ recorded = {}
  /\ executions = [n \in Nodes |-> 0]

Current == <<i, attempt>>

Goto(s) == stage' = s
Throw == Goto("threw")

-----------------------------------------------------------------------------
(* Discovery.                                                              *)

(* A 201 whose ticket verifies; the directory leaves out the nodes it is   *)
(* told to exclude.  Unusable route material ends the submit.              *)
TicketIssued(n) ==
  /\ stage = "ticket"
  /\ n \notin route
  /\ IF n \in Routable
       THEN /\ route' = route \cup {n}
            /\ tickets' = tickets \cup {n}
            /\ IF Cardinality(route') = MaxRetries THEN Goto("order") ELSE UNCHANGED stage
       ELSE Throw /\ UNCHANGED discovery
  /\ UNCHANGED <<cfg, candidates, i, attempt, told, prompted, posts, nodes>>

(* 404 no_route_available.                                                 *)
NoFurtherRoute ==
  /\ stage = "ticket"
  /\ Goto("order")
  /\ UNCHANGED <<cfg, discovery, candidates, i, attempt, told, prompted, posts, nodes>>

(* The directory cannot be reached, refuses, or issues a ticket that does  *)
(* not verify or does not match the route's policy manifest.               *)
TicketFails ==
  /\ stage = "ticket"
  /\ Throw
  /\ UNCHANGED <<cfg, discovery, candidates, i, attempt, told, prompted, posts, nodes>>

\* Slip: every mode falls back.
MayFallBackAlways == TRUE

MayFallBack == ~cfg.restricted /\ cfg.mode # "ticketed"

(* 404, 405, 501 or 503 not_configured, at any of the ticket requests: the *)
(* nodes already ticketed are dropped.                                     *)
TicketsUnsupported ==
  /\ stage = "ticket"
  /\ IF MayFallBack THEN Goto("legacy") ELSE Throw
  /\ route' = {}
  /\ tickets' = {}
  /\ UNCHANGED <<cfg, candidates, i, attempt, told, prompted, posts, nodes>>

(* discoverWithNegotiation: unusable endpoints are skipped.                *)
Discover ==
  /\ stage = "legacy"
  /\ \/ /\ \E S \in SUBSET Nodes :
             route' = {n \in S \cap Routable : cfg.browserOnly => n \in Browser}
        /\ Goto("order")
     \/ Throw /\ UNCHANGED route
  /\ UNCHANGED <<cfg, tickets, candidates, i, attempt, told, prompted, posts, nodes>>

Eligible == {n \in route \cap Acceptable : n \in Keyed \/ cfg.plaintext}

(* No node, none eligible, or a ranker that fails: nothing is sent.        *)
Order ==
  /\ stage = "order"
  /\ \/ /\ Eligible # {}
        /\ \E s \in Listings(Eligible) :
             /\ Len(s) = MaxRetries \/ Len(s) = Cardinality(Eligible)
             /\ candidates' = s
        /\ Goto("token")
     \/ Throw /\ UNCHANGED candidates
  /\ UNCHANGED <<cfg, discovery, i, attempt, told, prompted, posts, nodes>>

-----------------------------------------------------------------------------
(* The attempts.                                                           *)

(* _acquireConsumerToken, from the cache or the directory, once for each    *)
(* candidate; a restricted client does not go on without it after an error. *)
AcquireToken ==
  /\ stage = "token"
  /\ \/ Goto("post")
     \/ (cfg.tokenRequired \/ cfg.restricted) /\ Throw
  /\ UNCHANGED <<cfg, discovery, candidates, i, attempt, told, prompted, posts, nodes>>

Post ==
  /\ stage = "post"
  /\ posts' = [posts EXCEPT ![Current] = "travelling"]
  /\ prompted' = prompted \cup {<<candidates[i], candidates[i] \in Keyed>>}
  /\ Goto("wait")
  /\ UNCHANGED <<cfg, discovery, candidates, i, attempt, told, nodes>>

NextCandidate ==
  /\ IF i < Len(candidates)
       THEN Goto("token") /\ i' = i + 1 /\ attempt' = 1
       ELSE Throw /\ UNCHANGED <<i, attempt>>

\* Slip: a failed execution counts as transient.
TransientAndFailed == {"busy", "gateway", "failed"}

(* 429, 502, 503 and 504.                                                  *)
Transient == {"busy", "gateway"}

(* What the client does with an answer.  One it cannot accept is taken for *)
(* an unreachable node, since its error has no status; an error that is no *)
(* IicpError, of decryptResponse for one, ends the submit.                 *)
Heed(answer) ==
  /\ told' = [told EXCEPT ![i] = @ \cup {answer}]
  /\ \/ answer = "ok" /\ Goto("returned") /\ UNCHANGED <<i, attempt>>
     \/ answer = "broken" /\ NextCandidate
     \/ answer = "broken" /\ Throw /\ UNCHANGED <<i, attempt>>
     \/ answer \in Transient /\ Goto("backoff") /\ UNCHANGED <<i, attempt>>
     \/ answer \in Verdicts \ ({"ok"} \cup Transient) /\ Throw /\ UNCHANGED <<i, attempt>>
  /\ UNCHANGED <<cfg, discovery, candidates, prompted, posts, nodes>>

Hear ==
  /\ stage = "wait"
  /\ posts[Current] \in Answers
  /\ Heed(posts[Current])

(* A tunnel, a proxy or a relay between answers 502 or 504 for the node.   *)
GatewayFails ==
  /\ stage = "wait"
  /\ Heed("gateway")

(* The connection fails, or the timeout fires.                             *)
GivesUp ==
  /\ stage = "wait"
  /\ NextCandidate
  /\ UNCHANGED <<cfg, discovery, candidates, told, prompted, posts, nodes>>

\* Slip: the attempts are not counted.
BackoffUncounted ==
  /\ stage = "backoff"
  /\ Goto("post")
  /\ UNCHANGED <<cfg, discovery, candidates, i, attempt, told, prompted, posts, nodes>>

(* The same node again, with the same token and body; then the next one.   *)
Backoff ==
  /\ stage = "backoff"
  /\ IF attempt < MaxRetries
       THEN Goto("post") /\ attempt' = attempt + 1 /\ UNCHANGED i
       ELSE NextCandidate
  /\ UNCHANGED <<cfg, discovery, candidates, told, prompted, posts, nodes>>

-----------------------------------------------------------------------------
(* The network and the nodes, whether or not the client still listens.     *)

Become(p, s) == posts' = [posts EXCEPT ![p] = s]

\* Slip: every attempt draws an identifier of its own.
TaskIdPerAttempt(p) == p

(* One taskId for all attempts of a submit.                                *)
TaskId(p) == <<0, 0>>

Lose(p) ==
  /\ posts[p] = "travelling"
  /\ Become(p, "lost")
  /\ UNCHANGED <<cfg, discovery, candidates, client, nodes>>

(* Refused for capacity, drain or load; refused for good; a duplicate the  *)
(* guard knows; or executed.  A relay's worker calls its handler directly, *)
(* past every guard of the node.                                           *)
Arrive(p) ==
  LET n == candidates[p[1]]
      key == <<n, TaskId(p)>>
  IN
  /\ posts[p] = "travelling"
  /\ \/ Become(p, "busy") /\ UNCHANGED nodes
     \/ Become(p, "rejected") /\ UNCHANGED nodes
     \/ n \in Guarded /\ key \in recorded /\ Become(p, "duplicate") /\ UNCHANGED nodes
     \/ /\ ~(n \in Guarded /\ key \in recorded)
        /\ Become(p, "executing")
        /\ recorded' = recorded \cup {key}
        /\ executions' = [executions EXCEPT ![n] = @ + 1]
  /\ UNCHANGED <<cfg, discovery, candidates, client>>

Finish(p) ==
  /\ posts[p] = "executing"
  /\ \/ Become(p, "ok")
     \/ Become(p, "failed")
     \/ candidates[p[1]] \in Sloppy /\ Become(p, "broken")
  /\ UNCHANGED <<cfg, discovery, candidates, client, nodes>>

ClientStep ==
  \/ \E n \in Nodes : TicketIssued(n)
  \/ NoFurtherRoute \/ TicketFails \/ TicketsUnsupported \/ Discover \/ Order
  \/ AcquireToken \/ Post \/ Hear \/ GatewayFails \/ GivesUp \/ Backoff

NodeStep == \E p \in Places : Lose(p) \/ Arrive(p) \/ Finish(p)

Next == ClientStep \/ NodeStep

(* Every request of the client ends in an answer or at its timeout, and    *)
(* the backoff is a timer; nothing is asked of the nodes.                  *)
Spec == Init /\ [][Next]_vars /\ WF_vars(ClientStep)

-----------------------------------------------------------------------------
(* A node with the guard executes the task once, however often a gateway   *)
(* failure makes the client post it again, and however late a post arrives. *)
ExecutedOncePerGuard == \A n \in Guarded : executions[n] <= 1

(* The prompt goes only to nodes the policy admits at endpoints the SSRF   *)
(* guard admits, sealed unless plaintext was asked for, and to browser     *)
(* nodes when only those were asked for.  The last part holds of legacy    *)
(* discovery only: ticketed discovery ignores browser_usable_only.         *)
PromptWhereAllowed ==
  \A x \in prompted :
    /\ x[1] \in Routable \cap Acceptable
    /\ x[2] \/ cfg.plaintext
    /\ cfg.browserOnly /\ tickets = {} => x[1] \in Browser

(* In ticketed or restricted mode no node gets the prompt without a ticket *)
(* that verified: an unsupported directory is no way around.  A configured *)
(* profile request takes the legacy path in every mode.                    *)
PromptNeedsTicket ==
  (cfg.mode = "ticketed" \/ cfg.restricted) /\ ~cfg.profiled
    => \A x \in prompted : x[1] \in tickets

(* No prompt leaves the client for a node that the policy, the SSRF guard, *)
(* the encryption rule or the ticket mode of this submit keeps out.        *)
PromptGuarded == PromptWhereAllowed /\ PromptNeedsTicket

(* The client turns to another node only if the earlier ones gave no       *)
(* verdict: a task that one node has answered, refused for good or failed  *)
(* is not offered to the next.                                             *)
NoVerdictPassedOver == \A j \in 1 .. i - 1 : told[j] \cap Verdicts = {}

(* A submit ends, whatever the directory, the network and the nodes do.    *)
SubmitEnds == <>(stage \in Ended)
=============================================================================
