--------------------------- MODULE NativeSession ---------------------------
(***************************************************************************)
(* The experimental native transport (src/src/iicp_tcp.ts): the sessions   *)
(* IicpTcpClients hold with one IicpTcpServer, whose connections share a   *)
(* ConcurrencyGate (src/src/concurrency.ts).                               *)
(*                                                                         *)
(* A client sends one frame per operation and takes the next frame of the  *)
(* connection as its answer; only streamCall compares call ids.  The       *)
(* server reads a connection's frames one after the other and runs the     *)
(* handler in between, so what decides whether an answer reaches the call  *)
(* it belongs to is the number of frames the server writes for each.       *)
(*                                                                         *)
(* An operation is named by its number on the connection, which stands for *)
(* its session, call and task id.  Operations of one client follow each    *)
(* other, as the class documents its use.                                  *)
(***************************************************************************)
EXTENDS Integers, Sequences, FiniteSets

CONSTANTS
  Conns,          \* connections, each with its client
  Offered,        \* the operations the program above each client issues
  Budget,         \* bound on their number
  MaxConcurrent,  \* ConcurrencyGate.maxConcurrent
  MaxPartials     \* bound on the partial events of a stream

Requests == {"INIT", "PING", "DISCOVER", "CALL", "STREAM"}
Kinds == Requests \cup {"CLOSE"}   \* STREAM is a CALL with a task id

ASSUME SessionAssumption ==
  /\ IsFiniteSet(Conns)
  /\ Offered \in [Conns -> SUBSET Requests]
  /\ Budget \in [Conns -> Nat]
  /\ MaxConcurrent \in Nat \ {0}
  /\ MaxPartials \in Nat

Frame == [ type  : {"ACK", "PONG", "RESPONSE"},
           n     : Nat,       \* the operation it answers
           life  : BOOLEAN,   \* carries a lifecycle envelope
           seq   : Nat,       \* lifecycle.sequence
           final : BOOLEAN ]

VARIABLES
  ops,      \* per connection, the operations issued on it
  client,   \* its IicpTcpClient
  server,   \* its _handleConnection
  up,       \* frames on their way to the server, or read and queued there
  down,     \* frames on their way to the client, or in _buf
  taken,    \* per operation, the frames it took (history)
  answers,  \* per operation, the final frames written for it (history)
  gate,     \* ConcurrencyGate._active
  streaming \* the server has a streamingHandler

wires == <<up, down>>
histories == <<taken, answers>>
vars == <<ops, client, server, wires, histories, gate, streaming>>

Client == [ open       : BOOLEAN,    \* the socket is not destroyed
            framed     : BOOLEAN,    \* framingVersion is set
            pending    : BOOLEAN,    \* the last operation awaits a frame
            unanswered : BOOLEAN ]   \* an operation ended without its answer

Server == [ phase       : {"reading", "lookup", "plain", "stream", "ended"},
            initialized : BOOLEAN,
            n           : Nat,       \* the operation read last
            sent        : Nat,       \* sequence of _onStreamCall
            terminal    : BOOLEAN ]  \* terminalSent

Executing == {c \in Conns : server[c].phase \in {"plain", "stream"}}

TypeOK ==
  /\ ops \in [Conns -> Seq(Kinds)]
  /\ client \in [Conns -> Client]
  /\ server \in [Conns -> Server]
  /\ up \in [Conns -> Seq([kind : Kinds, n : Nat])]
  /\ down \in [Conns -> Seq(Frame)]
  /\ taken \in [Conns -> Seq(Seq(Frame))]
  /\ answers \in [Conns -> Seq(Nat)]
  /\ gate \in 0 .. MaxConcurrent
  /\ streaming \in BOOLEAN

Init ==
  /\ ops = [c \in Conns |-> <<>>]
  /\ client = [c \in Conns |-> [open |-> TRUE, framed |-> FALSE,
                                pending |-> FALSE, unanswered |-> FALSE]]
  /\ server = [c \in Conns |-> [phase |-> "reading", initialized |-> FALSE,
                                n |-> 0, sent |-> 0, terminal |-> FALSE]]
  /\ up = [c \in Conns |-> <<>>]
  /\ down = [c \in Conns |-> <<>>]
  /\ taken = [c \in Conns |-> <<>>]
  /\ answers = [c \in Conns |-> <<>>]
  /\ gate = 0
  /\ streaming \in BOOLEAN

-----------------------------------------------------------------------------
(* The client sends.  A write to a destroyed socket is lost, silently.     *)

Send(c, kind) ==
  /\ Len(ops[c]) < Budget[c]
  /\ ~ client[c].pending
  /\ ops' = [ops EXCEPT ![c] = Append(@, kind)]
  /\ up' = [up EXCEPT ![c] =
              IF client[c].open
              THEN Append(@, [kind |-> kind, n |-> Len(ops[c]) + 1])
              ELSE @]
  /\ taken' = [taken EXCEPT ![c] = Append(@, <<>>)]
  /\ answers' = [answers EXCEPT ![c] = Append(@, 0)]
  /\ UNCHANGED <<server, down, gate, streaming>>

(* Every operation but the handshake requires the handshake.               *)
Request(c) ==
  \E kind \in Offered[c] :
    /\ kind = "INIT" \/ client[c].framed
    /\ Send(c, kind)
    /\ client' = [client EXCEPT ![c].pending = TRUE]

Close(c) ==
  /\ client[c].open /\ client[c].framed
  /\ Send(c, "CLOSE")
  /\ UNCHANGED client

(* What is left of a queue of c when the socket is destroyed: what had     *)
(* arrived stays readable, what was on the wire is lost.                   *)
Remains(c, queue) ==
  IF client[c].open THEN {SubSeq(queue, 1, k) : k \in 0 .. Len(queue)}
                    ELSE {queue}

Destroy(c, unread) ==
  /\ \E rest \in Remains(c, unread) : down' = [down EXCEPT ![c] = rest]
  /\ \E rest \in Remains(c, up[c]) : up' = [up EXCEPT ![c] = rest]

(* disconnect(), and close() before the handshake.                         *)
Disconnect(c) ==
  /\ client[c].open
  /\ client' = [client EXCEPT ![c].open = FALSE]
  /\ Destroy(c, down[c])
  /\ UNCHANGED <<ops, server, histories, gate, streaming>>

(* The server has ended or destroyed its side.                             *)
SeeClose(c) ==
  /\ client[c].open /\ server[c].phase = "ended"
  /\ client' = [client EXCEPT ![c].open = FALSE]
  /\ Destroy(c, down[c])
  /\ UNCHANGED <<ops, server, histories, gate, streaming>>

-----------------------------------------------------------------------------
(* The client reads.                                                       *)

Current(c) == Len(ops[c])
Kind(c) == ops[c][Current(c)]

AnswerType(kind) ==
  CASE kind = "INIT" -> "ACK"
    [] kind = "PING" -> "PONG"
    [] OTHER -> "RESPONSE"

Take(c, f) ==
  taken' = [taken EXCEPT ![c][Current(c)] = Append(@, f)]

(* handshake, ping, discover and call take the next frame if its type      *)
(* fits, and throw if it does not.                                         *)
TakeReply(c) ==
  /\ client[c].pending /\ Kind(c) # "STREAM" /\ down[c] # <<>>
  /\ down' = [down EXCEPT ![c] = Tail(@)]
  /\ \/ /\ Head(down[c]).type = AnswerType(Kind(c))
        /\ Take(c, Head(down[c]))
        /\ client' = [client EXCEPT ![c].pending = FALSE,
                                    ![c].framed = @ \/ Kind(c) = "INIT"]
     \/ /\ Head(down[c]).type # AnswerType(Kind(c))
        /\ client' = [client EXCEPT ![c].pending = FALSE,
                                    ![c].unanswered = TRUE]
        /\ UNCHANGED taken
  /\ UNCHANGED <<ops, server, up, answers, gate, streaming>>

(* NativeResponseSequence.accept; nextSequence is the number of frames the *)
(* stream has taken.                                                       *)
Accepts(c, f) ==
  /\ f.type = "RESPONSE" /\ f.life
  /\ f.n = Current(c)
  /\ f.seq = Len(taken[c][Current(c)])

\* Slip: a stream that failed leaves the connection open.
AbandonOpen(c, unread) ==
  /\ client' = [client EXCEPT ![c].pending = FALSE, ![c].unanswered = TRUE]
  /\ down' = [down EXCEPT ![c] = unread]
  /\ UNCHANGED up

(* streamCall ends before its terminal frame: it destroys the socket.      *)
AbandonStream(c, unread) ==
  /\ client' = [client EXCEPT ![c].open = FALSE, ![c].pending = FALSE,
                              ![c].unanswered = TRUE]
  /\ Destroy(c, unread)

TakeEvent(c) ==
  /\ client[c].pending /\ Kind(c) = "STREAM" /\ down[c] # <<>>
  /\ \/ /\ Accepts(c, Head(down[c]))
        /\ Take(c, Head(down[c]))
        /\ client' = [client EXCEPT ![c].pending = ~ Head(down[c]).final]
        /\ down' = [down EXCEPT ![c] = Tail(@)]
        /\ UNCHANGED up
     \/ /\ ~ Accepts(c, Head(down[c]))
        /\ AbandonStream(c, Tail(down[c]))
        /\ UNCHANGED taken
  /\ UNCHANGED <<ops, server, answers, gate, streaming>>

(* A read fails at its deadline, or when the connection is closed; or the  *)
(* consumer of a stream stops iterating.                                   *)
ReadFails(c) ==
  /\ client[c].pending
  /\ \/ /\ Kind(c) = "STREAM"
        /\ AbandonStream(c, down[c])
     \/ /\ Kind(c) # "STREAM"
        /\ client' = [client EXCEPT ![c].pending = FALSE,
                                    ![c].unanswered = TRUE]
        /\ UNCHANGED wires
  /\ UNCHANGED <<ops, server, histories, gate, streaming>>

-----------------------------------------------------------------------------
(* The server.                                                             *)

Reply(type, n) ==
  [type |-> type, n |-> n, life |-> FALSE, seq |-> 0, final |-> TRUE]

Event(n, seq, final) ==
  [type |-> "RESPONSE", n |-> n, life |-> TRUE, seq |-> seq, final |-> final]

Write(c, f) ==
  /\ down' = [down EXCEPT ![c] = IF client[c].open THEN Append(@, f) ELSE @]
  /\ answers' = [answers EXCEPT ![c][f.n] = IF f.final THEN @ + 1 ELSE @]

Silent == UNCHANGED <<down, answers>>

Become(c, phase) == server' = [server EXCEPT ![c].phase = phase]

GateFull == gate >= MaxConcurrent

Acquire == ~ GateFull /\ gate' = gate + 1
Release == gate' = IF gate > 0 THEN gate - 1 ELSE gate

(* One frame off the queue of a connection.  A full gate is answered 429;  *)
(* in _onStreamCall it counts as an error of the stream.                   *)
Read(c) ==
  /\ server[c].phase = "reading" /\ up[c] # <<>>
  /\ up' = [up EXCEPT ![c] = Tail(@)]
  /\ LET kind == Head(up[c]).kind
         n == Head(up[c]).n
         Enter(phase) ==
           server' = [server EXCEPT ![c] =
             [phase |-> phase, initialized |-> TRUE, n |-> n,
              sent |-> 0, terminal |-> FALSE]]
         streamed == kind = "STREAM" /\ streaming
     IN \/ /\ kind = "CLOSE" \/ ((kind = "INIT") = server[c].initialized)
           /\ Enter("ended")
           /\ Silent
           /\ UNCHANGED gate
        \/ /\ kind = "INIT" /\ ~ server[c].initialized
           /\ Enter("reading")
           /\ Write(c, Reply("ACK", n))
           /\ UNCHANGED gate
        \/ /\ kind = "PING" /\ server[c].initialized
           /\ Enter("reading")
           /\ Write(c, Reply("PONG", n))
           /\ UNCHANGED gate
        \/ /\ kind = "DISCOVER" /\ server[c].initialized
           /\ Enter("lookup")
           /\ Silent
           /\ UNCHANGED gate
        \/ /\ kind \in {"CALL", "STREAM"} /\ server[c].initialized
           /\ \/ /\ Acquire
                 /\ Enter(IF streamed THEN "stream" ELSE "plain")
                 /\ Silent
              \/ /\ GateFull
                 /\ Enter("reading")
                 /\ Write(c, IF streamed THEN Event(n, 0, TRUE)
                                         ELSE Reply("RESPONSE", n))
                 /\ UNCHANGED gate
  /\ UNCHANGED <<ops, client, taken, streaming>>

LookupEnds(c) ==
  /\ server[c].phase = "lookup"
  /\ Become(c, "reading")
  /\ Write(c, Reply("RESPONSE", server[c].n))
  /\ UNCHANGED <<ops, client, up, taken, gate, streaming>>

(* The handler returns or throws.                                          *)
HandlerEnds(c) ==
  /\ server[c].phase = "plain"
  /\ Become(c, "reading")
  /\ Release
  /\ Write(c, Reply("RESPONSE", server[c].n))
  /\ UNCHANGED <<ops, client, up, taken, streaming>>

\* Slip: an item after the terminal one is emitted too.
StreamYieldsOn(c) ==
  /\ server[c].phase = "stream"
  /\ server[c].sent <= MaxPartials
  /\ \E final \in BOOLEAN :
       /\ Write(c, Event(server[c].n, server[c].sent, final))
       /\ server' = [server EXCEPT ![c].sent = @ + 1, ![c].terminal = final]
  /\ UNCHANGED <<ops, client, up, taken, gate, streaming>>

(* The streaming handler yields an item before a terminal one.             *)
StreamYields(c) ==
  /\ server[c].phase = "stream" /\ ~ server[c].terminal
  /\ \E final \in BOOLEAN :
       /\ final \/ server[c].sent < MaxPartials
       /\ Write(c, Event(server[c].n, server[c].sent, final))
       /\ server' = [server EXCEPT ![c].sent = @ + 1, ![c].terminal = final]
  /\ UNCHANGED <<ops, client, up, taken, gate, streaming>>

\* Slip: a handler that throws keeps the slot.
StreamEndsKeepingSlot(c) ==
  /\ server[c].phase = "stream"
  /\ Become(c, "reading")
  /\ \/ /\ server[c].terminal
        /\ Silent
        /\ Release
     \/ /\ ~ server[c].terminal
        /\ Write(c, Event(server[c].n, server[c].sent, TRUE))
        /\ UNCHANGED gate
  /\ UNCHANGED <<ops, client, up, taken, streaming>>

(* The streaming handler returns, throws, or yields an item after the      *)
(* terminal one, on which emit throws.  A missing terminal frame is added. *)
StreamEnds(c) ==
  /\ server[c].phase = "stream"
  /\ Become(c, "reading")
  /\ Release
  /\ \/ /\ server[c].terminal
        /\ Silent
     \/ /\ ~ server[c].terminal
        /\ Write(c, Event(server[c].n, server[c].sent, TRUE))
  /\ UNCHANGED <<ops, client, up, taken, streaming>>

(* readChunk returns null, after everything that had arrived was read.     *)
ReadEnd(c) ==
  /\ server[c].phase = "reading" /\ up[c] = <<>> /\ ~ client[c].open
  /\ Become(c, "ended")
  /\ UNCHANGED <<ops, client, wires, histories, gate, streaming>>

-----------------------------------------------------------------------------

Next ==
  \E c \in Conns :
    \/ Request(c)
    \/ Close(c)
    \/ Disconnect(c)
    \/ SeeClose(c)
    \/ TakeReply(c)
    \/ TakeEvent(c)
    \/ ReadFails(c)
    \/ Read(c)
    \/ LookupEnds(c)
    \/ HandlerEnds(c)
    \/ StreamYields(c)
    \/ StreamEnds(c)
    \/ ReadEnd(c)

Spec == Init /\ [][Next]_vars

-----------------------------------------------------------------------------
(* Properties.                                                             *)

(* The gate counts exactly the calls that execute on all connections:      *)
(* every way a handler or a stream ends gives back one slot, and a refused *)
(* call, which enters the same catch as a failed stream, none.             *)
GateBalanced == gate = Cardinality(Executing)

(* Every operation the server has read past got exactly one final frame,   *)
(* whether its handler returned, threw, was refused by the gate, stopped   *)
(* short of a terminal item or went on after it.                           *)
AnsweredOnce ==
  \A c \in Conns : \A n \in 1 .. Len(ops[c]) :
    /\ answers[c][n] <= 1
    /\ n < server[c].n \/ (n = server[c].n /\ server[c].phase = "reading")
       => answers[c][n] = 1

(* Until an operation of the session has failed, every operation takes     *)
(* frames of its own, although ping, discover and call compare no id.      *)
AnswersOwn ==
  \A c \in Conns : \A n \in 1 .. Len(ops[c]) : \A i \in 1 .. Len(taken[c][n]) :
    taken[c][n][i].n # n => client[c].unanswered

(* Request and answer correspond, one to one, on every connection.         *)
AnswersMatched == AnsweredOnce /\ AnswersOwn

(* streamCall passes on frames of its own call only, without a gap and     *)
(* with nothing behind the terminal one, whatever an earlier operation     *)
(* left on the connection; and while no operation failed it does not end   *)
(* before the terminal frame.                                              *)
StreamInOrder ==
  \A c \in Conns : \A n \in 1 .. Len(ops[c]) :
    ops[c][n] = "STREAM" =>
      LET events == taken[c][n]
      IN /\ \A i \in 1 .. Len(events) :
              /\ events[i].n = n
              /\ events[i].seq = i - 1
              /\ events[i].final => i = Len(events)
         /\ ~ client[c].unanswered /\ (n < Current(c) \/ ~ client[c].pending)
            => events # <<>> /\ events[Len(events)].final

(* A failed streamCall destroys the socket, so that no later operation of  *)
(* a connection that is still up takes an event of its stream.             *)
NoStreamLeftBehind ==
  \A c \in Conns : \A n \in 1 .. Len(ops[c]) : \A i \in 1 .. Len(taken[c][n]) :
    taken[c][n][i].life /\ taken[c][n][i].n # n => ~ client[c].open

(* Streams and the operations before and after them do not mix.            *)
StreamsApart == StreamInOrder /\ NoStreamLeftBehind

=============================================================================
