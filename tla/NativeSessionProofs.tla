------------------------ MODULE NativeSessionProofs ------------------------
(***************************************************************************)
(* For any number of connections, operations and events, and any gate.     *)
(***************************************************************************)
EXTENDS NativeSession, SequenceTheorems, FiniteSetTheorems, TLAPS

(* The histories have an entry per operation.                              *)
Shape ==
  \A c \in Conns :
    /\ Len(taken[c]) = Len(ops[c])
    /\ Len(answers[c]) = Len(ops[c])
    /\ client[c].pending => Len(ops[c]) # 0

(* The server reads the operations in the order of their issue.            *)
InTurn ==
  \A c \in Conns :
    /\ server[c].n + Len(up[c]) <= Len(ops[c])
    /\ client[c].open => server[c].n + Len(up[c]) = Len(ops[c])
    /\ \A k \in 1 .. Len(up[c]) :
         /\ up[c][k].n = server[c].n + k
         /\ up[c][k].kind = ops[c][server[c].n + k]
    /\ server[c].phase \in {"lookup", "plain", "stream"} => server[c].n # 0

Sound == TypeOK /\ Shape /\ InTurn

(* The server has yet to write the final frame of the operation it read.   *)
Busy(c) ==
  \/ server[c].phase \in {"lookup", "plain"}
  \/ server[c].phase = "stream" /\ ~ server[c].terminal

(* One final frame for every operation read, once the server is done.      *)
LedgerAt(c) ==
  \A n \in 1 .. Len(ops[c]) :
    /\ n < server[c].n => answers[c][n] = 1
    /\ n > server[c].n => answers[c][n] = 0
    /\ n = server[c].n =>
         /\ Busy(c) => answers[c][n] = 0
         /\ ~ Busy(c) /\ server[c].phase # "ended" => answers[c][n] = 1
         /\ answers[c][n] <= 1

Ledger == \A c \in Conns : LedgerAt(c)

(* Only a CALL with a task id makes the server stream.                     *)
StreamsAsked ==
  \A c \in Conns : server[c].phase = "stream" => ops[c][server[c].n] = "STREAM"

(* Until an operation fails, nothing on the connection is about any        *)
(* operation but the last: no frame of an older one is on its way, none    *)
(* will be written, and behind a final frame nothing follows.              *)
QuietAt(c) ==
  /\ \A k \in 1 .. Len(down[c]) :
       /\ down[c][k].n = Current(c)
       /\ down[c][k].final => k = Len(down[c]) /\ ~ Busy(c)
       /\ ~ down[c][k].final => Kind(c) = "STREAM"
  /\ down[c] # <<>> => client[c].pending /\ server[c].n = Current(c)
  /\ Busy(c) => client[c].pending /\ server[c].n = Current(c)
  /\ \A k \in 1 .. Len(up[c]) :
       up[c][k].kind # "CLOSE" => client[c].pending /\ up[c][k].n = Current(c)
  /\ \A n \in 1 .. Len(ops[c]) : \A i \in 1 .. Len(taken[c][n]) : taken[c][n][i].n = n

Quiet == \A c \in Conns : ~ client[c].unanswered => QuietAt(c)

-----------------------------------------------------------------------------
(* What the queue operators keep.                                          *)

LEMMA AppendKeeps ==
  ASSUME NEW S, NEW s \in Seq(S), NEW x \in S
  PROVE  /\ Append(s, x) \in Seq(S)
         /\ Len(Append(s, x)) = Len(s) + 1
         /\ \A k \in 1 .. Len(s) : Append(s, x)[k] = s[k]
         /\ Append(s, x)[Len(s) + 1] = x
  OBVIOUS

(* Positions of a queue that follows the first a entries of another.       *)
LEMMA InRange ==
  ASSUME NEW a \in Nat, NEW b \in Nat, NEW l \in Nat
  PROVE  /\ a + b <= l => \A k \in 1 .. b : a + k \in 1 .. l
         /\ \A k \in Int : k = b + 1 => a + k = a + b + 1
         /\ a + b = l => a + (b + 1) = l + 1
         /\ a + b <= l => a + b <= l + 1
  OBVIOUS

LEMMA NoRoom == ASSUME NEW a \in Nat, NEW b \in Nat, a + b <= a PROVE b = 0
  OBVIOUS

(* What remains of a queue is a sequence over the same set.                *)
LEMMA RemainsKeeps ==
  ASSUME NEW c \in Conns, NEW S, NEW s \in Seq(S), NEW rest \in Remains(c, s)
  PROVE  /\ rest \in Seq(S)
         /\ Len(rest) <= Len(s)
         /\ \A k \in 1 .. Len(rest) : rest[k] = s[k]
<1>1. CASE client[c].open
  <2>1. PICK k \in 0 .. Len(s) : rest = SubSeq(s, 1, k)
    BY <1>1 DEF Remains
  <2>2. /\ k \in Int /\ \A i \in 1 .. k : s[i] \in S
    BY LenProperties, ElementOfSeq
  <2>3. /\ SubSeq(s, 1, k) \in Seq(S)
        /\ Len(SubSeq(s, 1, k)) = IF 1 <= k THEN k - 1 + 1 ELSE 0
        /\ \A i \in 1 .. k - 1 + 1 : SubSeq(s, 1, k)[i] = s[1 + i - 1]
    BY <2>2, SubSeqProperties
  <2>4. QED
    BY <2>1, <2>3
<1>2. CASE ~ client[c].open
  BY <1>2 DEF Remains
<1>3. QED
  BY <1>1, <1>2

(* An entry of a sequence that is replaced leaves its length alone.        *)
LEMMA ExceptKeeps ==
  ASSUME NEW S, NEW s \in Seq(S), NEW k \in 1 .. Len(s), NEW x \in S
  PROVE  /\ [s EXCEPT ![k] = x] \in Seq(S)
         /\ Len([s EXCEPT ![k] = x]) = Len(s)
         /\ [s EXCEPT ![k] = x][k] = x
         /\ \A j \in 1 .. Len(s) : j # k => [s EXCEPT ![k] = x][j] = s[j]
  BY ExceptSeq

-----------------------------------------------------------------------------
(* Types.                                                                  *)

LEMMA InitSound == Init => Sound
<1> SUFFICES ASSUME Init PROVE Sound
  OBVIOUS
<1>1. TypeOK
  <2>1. /\ <<>> \in Seq(Kinds) /\ <<>> \in Seq(Frame) /\ <<>> \in Seq(Nat)
        /\ <<>> \in Seq(Seq(Frame)) /\ <<>> \in Seq([kind : Kinds, n : Nat])
    OBVIOUS
  <2>2. /\ [open |-> TRUE, framed |-> FALSE,
            pending |-> FALSE, unanswered |-> FALSE] \in Client
        /\ [phase |-> "reading", initialized |-> FALSE,
            n |-> 0, sent |-> 0, terminal |-> FALSE] \in Server
    BY DEF Client, Server
  <2>3. 0 \in 0 .. MaxConcurrent
    BY SessionAssumption
  <2>4. QED
    BY <2>1, <2>2, <2>3 DEF Init, TypeOK
<1>2. Shape
  BY DEF Init, Shape
<1>3. InTurn
  BY DEF Init, InTurn
<1>4. QED
  BY <1>1, <1>2, <1>3 DEF Sound

(* A frame written keeps the queue and the counts well formed.             *)
LEMMA WriteKeeps ==
  ASSUME TypeOK, NEW c \in Conns, NEW f \in Frame,
         f.n \in 1 .. Len(answers[c]), Write(c, f)
  PROVE  /\ down' \in [Conns -> Seq(Frame)]
         /\ answers' \in [Conns -> Seq(Nat)]
         /\ \A d \in Conns : Len(answers'[d]) = Len(answers[d])
         /\ \A d \in Conns : d # c => down'[d] = down[d] /\ answers'[d] = answers[d]
         /\ ~ client[c].open => down'[c] = down[c]
         /\ client[c].open =>
              /\ Len(down'[c]) = Len(down[c]) + 1
              /\ \A k \in 1 .. Len(down[c]) : down'[c][k] = down[c][k]
              /\ down'[c][Len(down[c]) + 1] = f
         /\ answers'[c][f.n] = IF f.final THEN answers[c][f.n] + 1 ELSE answers[c][f.n]
         /\ \A n \in 1 .. Len(answers[c]) : n # f.n => answers'[c][n] = answers[c][n]
<1> DEFINE Count == IF f.final THEN answers[c][f.n] + 1 ELSE answers[c][f.n]
<1>1. /\ answers[c] \in Seq(Nat)
      /\ down[c] \in Seq(Frame)
      /\ f.final \in BOOLEAN
  BY DEF TypeOK, Frame
<1>2. Count \in Nat
  BY <1>1, ElementOfSeq
<1>3. answers' = [answers EXCEPT ![c] = [answers[c] EXCEPT ![f.n] = Count]]
  BY DEF Write
<1>4. down' = [down EXCEPT ![c] = IF client[c].open THEN Append(down[c], f) ELSE down[c]]
  BY DEF Write
<1> HIDE DEF Count
<1>5. /\ [answers[c] EXCEPT ![f.n] = Count] \in Seq(Nat)
      /\ Len([answers[c] EXCEPT ![f.n] = Count]) = Len(answers[c])
      /\ [answers[c] EXCEPT ![f.n] = Count][f.n] = Count
      /\ \A j \in 1 .. Len(answers[c]) : j # f.n =>
           [answers[c] EXCEPT ![f.n] = Count][j] = answers[c][j]
  BY <1>1, <1>2, ExceptKeeps
<1>6. /\ Append(down[c], f) \in Seq(Frame)
      /\ Len(Append(down[c], f)) = Len(down[c]) + 1
      /\ \A k \in 1 .. Len(down[c]) : Append(down[c], f)[k] = down[c][k]
      /\ Append(down[c], f)[Len(down[c]) + 1] = f
  BY <1>1, AppendKeeps
<1>7. /\ answers'[c] = [answers[c] EXCEPT ![f.n] = Count]
      /\ \A d \in Conns : d # c => answers'[d] = answers[d]
      /\ answers' \in [Conns -> Seq(Nat)]
  BY <1>3, <1>5 DEF TypeOK
<1>8. /\ down'[c] = IF client[c].open THEN Append(down[c], f) ELSE down[c]
      /\ \A d \in Conns : d # c => down'[d] = down[d]
      /\ down' \in [Conns -> Seq(Frame)]
  BY <1>4, <1>6 DEF TypeOK
<1>9. QED
  BY <1>5, <1>6, <1>7, <1>8 DEF Count

(* A frame taken goes to the current operation.                            *)
LEMMA TakeKeeps ==
  ASSUME TypeOK, Shape, NEW c \in Conns, client[c].pending, NEW f \in Frame, Take(c, f)
  PROVE  /\ taken' \in [Conns -> Seq(Seq(Frame))]
         /\ \A d \in Conns : Len(taken'[d]) = Len(taken[d])
         /\ \A d \in Conns : d # c => taken'[d] = taken[d]
         /\ taken'[c][Current(c)] = Append(taken[c][Current(c)], f)
         /\ \A n \in 1 .. Len(ops[c]) : n # Current(c) => taken'[c][n] = taken[c][n]
         /\ Current(c) \in 1 .. Len(ops[c])
<1> DEFINE More == Append(taken[c][Current(c)], f)
<1>1. Current(c) \in 1 .. Len(taken[c]) /\ Len(taken[c]) = Len(ops[c])
  BY DEF TypeOK, Shape, Current
<1>2. taken[c] \in Seq(Seq(Frame))
  BY DEF TypeOK
<1>3. taken[c][Current(c)] \in Seq(Frame)
  BY <1>1, <1>2, ElementOfSeq
<1>4. More \in Seq(Frame)
  BY <1>3, AppendKeeps
<1>5. taken' = [taken EXCEPT ![c] = [taken[c] EXCEPT ![Current(c)] = More]]
  BY DEF Take
<1> HIDE DEF More
<1>6. /\ [taken[c] EXCEPT ![Current(c)] = More] \in Seq(Seq(Frame))
      /\ Len([taken[c] EXCEPT ![Current(c)] = More]) = Len(taken[c])
      /\ [taken[c] EXCEPT ![Current(c)] = More][Current(c)] = More
      /\ \A j \in 1 .. Len(taken[c]) : j # Current(c) =>
           [taken[c] EXCEPT ![Current(c)] = More][j] = taken[c][j]
  BY <1>1, <1>2, <1>4, ExceptKeeps
<1>7. /\ taken'[c] = [taken[c] EXCEPT ![Current(c)] = More]
      /\ \A d \in Conns : d # c => taken'[d] = taken[d]
      /\ taken' \in [Conns -> Seq(Seq(Frame))]
  BY <1>5, <1>6 DEF TypeOK
<1>8. QED
  BY <1>1, <1>6, <1>7 DEF More

(* Destroying the socket shortens the queues of its connection.            *)
LEMMA DestroyKeeps ==
  ASSUME TypeOK, NEW c \in Conns, NEW unread \in Seq(Frame), Destroy(c, unread)
  PROVE  /\ up' \in [Conns -> Seq([kind : Kinds, n : Nat])]
         /\ down' \in [Conns -> Seq(Frame)]
         /\ \A d \in Conns : d # c => up'[d] = up[d] /\ down'[d] = down[d]
         /\ Len(up'[c]) <= Len(up[c]) /\ Len(down'[c]) <= Len(unread)
         /\ \A k \in 1 .. Len(up'[c]) : up'[c][k] = up[c][k]
         /\ \A k \in 1 .. Len(down'[c]) : down'[c][k] = unread[k]
<1>1. PICK r \in Remains(c, unread) : down' = [down EXCEPT ![c] = r]
  BY DEF Destroy
<1>2. PICK q \in Remains(c, up[c]) : up' = [up EXCEPT ![c] = q]
  BY DEF Destroy
<1>3. /\ r \in Seq(Frame) /\ Len(r) <= Len(unread)
      /\ \A k \in 1 .. Len(r) : r[k] = unread[k]
  BY RemainsKeeps
<1>4. up[c] \in Seq([kind : Kinds, n : Nat])
  BY DEF TypeOK
<1>5. /\ q \in Seq([kind : Kinds, n : Nat]) /\ Len(q) <= Len(up[c])
      /\ \A k \in 1 .. Len(q) : q[k] = up[c][k]
  BY <1>4, RemainsKeeps
<1>6. QED
  BY <1>1, <1>2, <1>3, <1>5 DEF TypeOK

(* Issuing an operation.                                                   *)
LEMMA SendKeeps ==
  ASSUME Sound, NEW c \in Conns, NEW kind \in Kinds, Send(c, kind)
  PROVE  /\ ops' \in [Conns -> Seq(Kinds)]
         /\ up' \in [Conns -> Seq([kind : Kinds, n : Nat])]
         /\ taken' \in [Conns -> Seq(Seq(Frame))]
         /\ answers' \in [Conns -> Seq(Nat)]
         /\ server[c].n + Len(up'[c]) <= Len(ops'[c])
         /\ client[c].open => server[c].n + Len(up'[c]) = Len(ops'[c])
         /\ \A k \in 1 .. Len(up'[c]) :
              /\ up'[c][k].n = server[c].n + k
              /\ up'[c][k].kind = ops'[c][server[c].n + k]
         /\ \A d \in Conns : d # c => /\ ops'[d] = ops[d]
                                      /\ up'[d] = up[d]
                                      /\ taken'[d] = taken[d]
                                      /\ answers'[d] = answers[d]
         /\ Len(ops'[c]) = Len(ops[c]) + 1
         /\ \A k \in 1 .. Len(ops[c]) : ops'[c][k] = ops[c][k]
         /\ ops'[c][Len(ops[c]) + 1] = kind
         /\ taken'[c] = Append(taken[c], <<>>)
         /\ answers'[c] = Append(answers[c], 0)
<1> DEFINE frame == [kind |-> kind, n |-> Len(ops[c]) + 1]
           sent == IF client[c].open THEN Append(up[c], frame) ELSE up[c]
<1>1. /\ ops[c] \in Seq(Kinds) /\ taken[c] \in Seq(Seq(Frame)) /\ answers[c] \in Seq(Nat)
      /\ up[c] \in Seq([kind : Kinds, n : Nat]) /\ Len(up[c]) \in Nat
      /\ <<>> \in Seq(Frame) /\ Len(ops[c]) \in Nat /\ server[c] \in Server
  <2>1. /\ ops[c] \in Seq(Kinds) /\ taken[c] \in Seq(Seq(Frame)) /\ answers[c] \in Seq(Nat)
        /\ up[c] \in Seq([kind : Kinds, n : Nat]) /\ server[c] \in Server
    BY DEF Sound, TypeOK
  <2>2. Len(up[c]) \in Nat /\ Len(ops[c]) \in Nat /\ <<>> \in Seq(Frame)
    BY <2>1, LenProperties, EmptySeq
  <2>3. QED
    BY <2>1, <2>2
<1>2. frame \in [kind : Kinds, n : Nat]
  BY <1>1
<1>3. /\ ops' = [ops EXCEPT ![c] = Append(ops[c], kind)]
      /\ up' = [up EXCEPT ![c] = sent]
      /\ taken' = [taken EXCEPT ![c] = Append(taken[c], <<>>)]
      /\ answers' = [answers EXCEPT ![c] = Append(answers[c], 0)]
      /\ server' = server
  BY DEF Send
<1>4. /\ Append(ops[c], kind) \in Seq(Kinds)
      /\ Len(Append(ops[c], kind)) = Len(ops[c]) + 1
      /\ \A k \in 1 .. Len(ops[c]) : Append(ops[c], kind)[k] = ops[c][k]
      /\ Append(ops[c], kind)[Len(ops[c]) + 1] = kind
  BY <1>1, AppendKeeps
<1>5. /\ Append(up[c], frame) \in Seq([kind : Kinds, n : Nat])
      /\ Len(Append(up[c], frame)) = Len(up[c]) + 1
      /\ \A k \in 1 .. Len(up[c]) : Append(up[c], frame)[k] = up[c][k]
      /\ Append(up[c], frame)[Len(up[c]) + 1] = frame
  BY <1>1, <1>2, AppendKeeps
<1>6. Append(taken[c], <<>>) \in Seq(Seq(Frame)) /\ Append(answers[c], 0) \in Seq(Nat)
  BY <1>1, AppendKeeps
<1> HIDE DEF frame
<1>7. /\ ops' \in [Conns -> Seq(Kinds)]
      /\ up' \in [Conns -> Seq([kind : Kinds, n : Nat])]
      /\ ops'[c] = Append(ops[c], kind)
      /\ up'[c] = sent
      /\ \A d \in Conns : d # c => ops'[d] = ops[d] /\ up'[d] = up[d]
  BY <1>1, <1>3, <1>4, <1>5 DEF Sound, TypeOK
<1>8. /\ taken' \in [Conns -> Seq(Seq(Frame))]
      /\ answers' \in [Conns -> Seq(Nat)]
      /\ \A d \in Conns : d # c => taken'[d] = taken[d] /\ answers'[d] = answers[d]
      /\ taken'[c] = Append(taken[c], <<>>)
      /\ answers'[c] = Append(answers[c], 0)
  BY <1>3, <1>6 DEF Sound, TypeOK
<1>9. /\ server[c].n + Len(up'[c]) <= Len(ops'[c])
      /\ client[c].open => server[c].n + Len(up'[c]) = Len(ops'[c])
      /\ \A k \in 1 .. Len(up'[c]) :
           /\ up'[c][k].n = server[c].n + k
           /\ up'[c][k].kind = ops'[c][server[c].n + k]
  <2>1. /\ server[c].n + Len(up[c]) <= Len(ops[c])
        /\ client[c].open => server[c].n + Len(up[c]) = Len(ops[c])
        /\ \A k \in 1 .. Len(up[c]) :
             /\ up[c][k].n = server[c].n + k
             /\ up[c][k].kind = ops[c][server[c].n + k]
    BY DEF Sound, InTurn
  <2>2. server[c].n \in Nat
    BY <1>1 DEF Server
  <2>5. ASSUME NEW k \in 1 .. Len(up[c])
        PROVE  /\ server[c].n + k \in 1 .. Len(ops[c])
               /\ ops'[c][server[c].n + k] = ops[c][server[c].n + k]
    <3>1. server[c].n + k \in 1 .. Len(ops[c])
      <4>1. Len(up[c]) \in Nat /\ Len(ops[c]) \in Nat
        BY <1>1
      <4>2. QED
        BY <2>1, <2>2, <4>1, InRange
    <3>2. QED
      BY <1>4, <1>7, <3>1
  <2>3. CASE ~ client[c].open
    <3>1. up'[c] = up[c] /\ Len(ops'[c]) = Len(ops[c]) + 1
      BY <1>4, <1>7, <2>3
    <3>2. QED
      BY <1>1, <2>1, <2>2, <2>3, <2>5, <3>1
  <2>4. CASE client[c].open
    <3> USE <1>1, <2>1, <2>2, <2>4
    <3>1. up'[c] = Append(up[c], frame) /\ Len(up'[c]) = Len(up[c]) + 1
      BY <1>5, <1>7
    <3>2. Len(ops'[c]) = Len(ops[c]) + 1
      BY <1>4, <1>7
    <3>3. ASSUME NEW k \in 1 .. Len(up[c])
          PROVE  /\ up'[c][k].n = server[c].n + k
                 /\ up'[c][k].kind = ops'[c][server[c].n + k]
      BY <1>5, <2>5, <3>1
    <3>4. /\ up'[c][Len(up[c]) + 1].n = server[c].n + Len(up[c]) + 1
          /\ up'[c][Len(up[c]) + 1].kind = ops'[c][server[c].n + Len(up[c]) + 1]
      BY SMTT(30), <1>4, <1>5, <1>7, <3>1 DEF frame
    <3>5. ASSUME NEW k \in 1 .. Len(up'[c])
          PROVE  /\ up'[c][k].n = server[c].n + k
                 /\ up'[c][k].kind = ops'[c][server[c].n + k]
      <4>1. k \in 1 .. Len(up[c]) \/ k = Len(up[c]) + 1
        BY <3>1
      <4>2. CASE k = Len(up[c]) + 1
        <5>1. Len(up[c]) \in Nat
          BY ONLY <1>1, LenProperties
        <5>2. server[c].n + k = server[c].n + Len(up[c]) + 1
          BY ONLY <2>2, <4>2, <5>1
        <5>3. QED
          BY <3>4, <4>2, <5>2
      <4>3. QED
        BY <3>3, <4>1, <4>2
    <3>6. server[c].n + Len(up'[c]) = Len(ops'[c])
      <4>1. server[c].n + Len(up[c]) = Len(ops[c])
        BY <2>1, <2>4
      <4>2. server[c].n + (Len(up[c]) + 1) = Len(ops[c]) + 1
        <5>1. /\ server[c].n \in Nat /\ Len(up[c]) \in Nat /\ Len(ops[c]) \in Nat
          OBVIOUS
        <5>2. QED
          BY ONLY <4>1, <5>1
      <4>3. QED
        BY <3>1, <3>2, <4>2
    <3>7. server[c].n + Len(up'[c]) <= Len(ops'[c])
      BY <3>2, <3>6
    <3>8. QED
      BY <3>5, <3>6, <3>7
  <2>6. QED
    BY <2>3, <2>4
<1>10. QED
  BY <1>4, <1>7, <1>8, <1>9

(* A step of a client that issues nothing.                                 *)
LEMMA ClientStep ==
  ASSUME Sound, NEW c \in Conns,
         UNCHANGED <<ops, server, answers, gate, streaming>>,
         client' \in [Conns -> Client],
         \A d \in Conns : client'[d].pending => client[d].pending,
         \A d \in Conns : client'[d].open => client[d].open /\ up'[d] = up[d],
         up' \in [Conns -> Seq([kind : Kinds, n : Nat])],
         down' \in [Conns -> Seq(Frame)],
         \A d \in Conns : /\ Len(up'[d]) <= Len(up[d])
                          /\ \A k \in 1 .. Len(up'[d]) : up'[d][k] = up[d][k],
         taken' \in [Conns -> Seq(Seq(Frame))],
         \A d \in Conns : Len(taken'[d]) = Len(taken[d])
  PROVE  Sound'
<1>1. TypeOK'
  BY DEF Sound, TypeOK
<1>2. Shape'
  BY DEF Sound, Shape
<1>3. InTurn'
  <2> SUFFICES ASSUME NEW d \in Conns
               PROVE  /\ server[d].n + Len(up'[d]) <= Len(ops[d])
                      /\ client'[d].open => server[d].n + Len(up'[d]) = Len(ops[d])
                      /\ \A k \in 1 .. Len(up'[d]) :
                           /\ up'[d][k].n = server[d].n + k
                           /\ up'[d][k].kind = ops[d][server[d].n + k]
                      /\ server[d].phase \in {"lookup", "plain", "stream"}
                           => server[d].n # 0
    BY DEF InTurn
  <2>1. /\ server[d].n + Len(up[d]) <= Len(ops[d])
        /\ client[d].open => server[d].n + Len(up[d]) = Len(ops[d])
        /\ \A k \in 1 .. Len(up[d]) :
             /\ up[d][k].n = server[d].n + k
             /\ up[d][k].kind = ops[d][server[d].n + k]
        /\ server[d].phase \in {"lookup", "plain", "stream"} => server[d].n # 0
    BY DEF Sound, InTurn
  <2>2. /\ server[d].n \in Nat /\ Len(up[d]) \in Nat /\ Len(up'[d]) \in Nat
        /\ Len(ops[d]) \in Nat
    <3>1. /\ server[d] \in Server /\ up[d] \in Seq([kind : Kinds, n : Nat])
          /\ up'[d] \in Seq([kind : Kinds, n : Nat]) /\ ops[d] \in Seq(Kinds)
      BY DEF Sound, TypeOK
    <3>2. QED
      BY <3>1, LenProperties DEF Server
  <2>3. Len(up'[d]) <= Len(up[d])
    OBVIOUS
  <2>4. server[d].n + Len(up'[d]) <= Len(ops[d])
    BY ONLY <2>1, <2>2, <2>3
  <2>5. ASSUME NEW k \in 1 .. Len(up'[d])
        PROVE  /\ up'[d][k].n = server[d].n + k
               /\ up'[d][k].kind = ops[d][server[d].n + k]
    <3>1. k \in 1 .. Len(up[d])
      BY <2>2, <2>3
    <3>2. QED
      BY <2>1, <3>1
  <2>6. QED
    BY <2>1, <2>4, <2>5
<1>4. QED
  BY <1>1, <1>2, <1>3 DEF Sound

(* A step of the server within the operation it has read.                  *)
LEMMA ServerStep ==
  ASSUME Sound, NEW c \in Conns,
         UNCHANGED <<ops, client, up, taken, streaming>>,
         server' \in [Conns -> Server],
         \A d \in Conns : server'[d].n = server[d].n,
         \A d \in Conns : server'[d].phase \in {"lookup", "plain", "stream"}
                            => server'[d].phase = server[d].phase,
         down' \in [Conns -> Seq(Frame)],
         answers' \in [Conns -> Seq(Nat)],
         \A d \in Conns : Len(answers'[d]) = Len(answers[d]),
         gate' \in 0 .. MaxConcurrent
  PROVE  Sound'
<1>1. TypeOK'
  BY DEF Sound, TypeOK
<1>2. Shape'
  BY DEF Sound, Shape
<1>3. InTurn'
  <2>1. ASSUME NEW d \in Conns
        PROVE  /\ server'[d].n + Len(up[d]) <= Len(ops[d])
               /\ client[d].open => server'[d].n + Len(up[d]) = Len(ops[d])
               /\ \A k \in 1 .. Len(up[d]) :
                    /\ up[d][k].n = server'[d].n + k
                    /\ up[d][k].kind = ops[d][server'[d].n + k]
    <3>1. server'[d].n = server[d].n
      OBVIOUS
    <3>2. QED
      BY <3>1 DEF Sound, InTurn
  <2>2. ASSUME NEW d \in Conns, server'[d].phase \in {"lookup", "plain", "stream"}
        PROVE  server'[d].n # 0
    <3>1. server'[d].n = server[d].n /\ server[d].phase \in {"lookup", "plain", "stream"}
      BY <2>2
    <3>2. QED
      BY <3>1 DEF Sound, InTurn
  <2>3. QED
    BY <2>1, <2>2 DEF InTurn
<1>4. QED
  BY <1>1, <1>2, <1>3 DEF Sound

(* The frames of the server belong to the operation it has read.           *)
LEMMA FramesTyped ==
  /\ \A n \in Nat : \A type \in {"ACK", "PONG", "RESPONSE"} :
       Reply(type, n) \in Frame /\ Reply(type, n).n = n
  /\ \A n, k \in Nat : \A final \in BOOLEAN :
       Event(n, k, final) \in Frame /\ Event(n, k, final).n = n
  BY DEF Reply, Event, Frame

LEMMA ServesCurrent ==
  ASSUME Sound, NEW c \in Conns, server[c].phase \in {"lookup", "plain", "stream"}
  PROVE  /\ server[c].n \in Nat /\ server[c].n \in 1 .. Len(answers[c])
         /\ server[c].sent \in Nat
<1>1. /\ server[c] \in Server /\ up[c] \in Seq([kind : Kinds, n : Nat])
      /\ ops[c] \in Seq(Kinds)
  BY DEF Sound, TypeOK
<1>2. server[c].n \in Nat /\ server[c].sent \in Nat /\ Len(up[c]) \in Nat /\ Len(ops[c]) \in Nat
  BY <1>1, LenProperties DEF Server
<1>3. /\ server[c].n + Len(up[c]) <= Len(ops[c]) /\ server[c].n # 0
      /\ Len(answers[c]) = Len(ops[c])
  BY DEF Sound, InTurn, Shape
<1>4. QED
  BY ONLY <1>2, <1>3

LEMMA HeadOfDown ==
  ASSUME Sound, NEW c \in Conns, down[c] # <<>>
  PROVE  /\ Head(down[c]) \in Frame
         /\ Tail(down[c]) \in Seq(Frame)
         /\ Head(down[c]).final \in BOOLEAN
<1>1. down[c] \in Seq(Frame)
  BY DEF Sound, TypeOK
<1>2. Head(down[c]) \in Frame /\ Tail(down[c]) \in Seq(Frame)
  BY <1>1, HeadTailProperties
<1>3. QED
  BY <1>2 DEF Frame

LEMMA ReleaseBounded == ASSUME Sound, Release PROVE gate' \in 0 .. MaxConcurrent
  BY SessionAssumption DEF Sound, TypeOK, Release

LEMMA IssueSound ==
  ASSUME Sound, NEW c \in Conns, NEW kind \in Kinds, Send(c, kind),
         client' \in [Conns -> Client],
         client'[c].open = client[c].open,
         \A d \in Conns : d # c => client'[d] = client[d]
  PROVE  Sound'
<1>1. UNCHANGED <<server, down, gate, streaming>>
  BY DEF Send
<1>2. /\ ops' \in [Conns -> Seq(Kinds)]
      /\ up' \in [Conns -> Seq([kind : Kinds, n : Nat])]
      /\ taken' \in [Conns -> Seq(Seq(Frame))]
      /\ answers' \in [Conns -> Seq(Nat)]
      /\ \A d \in Conns : d # c => /\ ops'[d] = ops[d]
                                   /\ up'[d] = up[d]
                                   /\ taken'[d] = taken[d]
                                   /\ answers'[d] = answers[d]
  BY SendKeeps
<1>3. /\ server[c].n + Len(up'[c]) <= Len(ops'[c])
      /\ client[c].open => server[c].n + Len(up'[c]) = Len(ops'[c])
      /\ \A k \in 1 .. Len(up'[c]) :
           /\ up'[c][k].n = server[c].n + k
           /\ up'[c][k].kind = ops'[c][server[c].n + k]
  BY SendKeeps
<1>4. /\ Len(ops'[c]) = Len(ops[c]) + 1
      /\ taken'[c] = Append(taken[c], <<>>)
      /\ answers'[c] = Append(answers[c], 0)
  BY SendKeeps
<1>5. TypeOK'
  BY <1>1, <1>2 DEF Sound, TypeOK
<1>6. Shape'
  <2>1. /\ taken[c] \in Seq(Seq(Frame)) /\ answers[c] \in Seq(Nat) /\ ops[c] \in Seq(Kinds)
        /\ <<>> \in Seq(Frame)
    BY EmptySeq DEF Sound, TypeOK
  <2>2. Len(taken'[c]) = Len(taken[c]) + 1 /\ Len(answers'[c]) = Len(answers[c]) + 1
    BY <1>4, <2>1, AppendKeeps
  <2>3. /\ Len(taken'[c]) = Len(ops'[c]) /\ Len(answers'[c]) = Len(ops'[c])
        /\ Len(ops'[c]) # 0
    <3>1. Len(taken[c]) = Len(ops[c]) /\ Len(answers[c]) = Len(ops[c])
      BY DEF Sound, Shape
    <3>2. Len(ops'[c]) = Len(ops[c]) + 1 /\ Len(ops[c]) \in Nat
      BY <1>4, <2>1, LenProperties
    <3>3. QED
      BY ONLY <2>2, <3>1, <3>2
  <2>4. QED
    BY <1>2, <2>3 DEF Sound, Shape
<1>7. ASSUME NEW d \in Conns
      PROVE  /\ server'[d].n + Len(up'[d]) <= Len(ops'[d])
             /\ client'[d].open => server'[d].n + Len(up'[d]) = Len(ops'[d])
             /\ \A k \in 1 .. Len(up'[d]) :
                  /\ up'[d][k].n = server'[d].n + k
                  /\ up'[d][k].kind = ops'[d][server'[d].n + k]
             /\ server'[d].phase \in {"lookup", "plain", "stream"} => server'[d].n # 0
  <2>1. CASE d = c
    BY <1>1, <1>3, <2>1 DEF Sound, InTurn
  <2>2. CASE d # c
    <3>1. /\ server'[d] = server[d] /\ up'[d] = up[d] /\ ops'[d] = ops[d]
          /\ client'[d] = client[d]
      BY <1>1, <1>2, <2>2
    <3>2. QED
      BY <3>1 DEF Sound, InTurn
  <2>3. QED
    BY <2>1, <2>2
<1>8. InTurn'
  BY <1>7 DEF InTurn
<1>9. QED
  BY <1>5, <1>6, <1>8 DEF Sound

LEMMA RequestSound == ASSUME Sound, NEW c \in Conns, Request(c) PROVE Sound'
<1>1. PICK kind \in Offered[c] :
        Send(c, kind) /\ client' = [client EXCEPT ![c].pending = TRUE]
  BY DEF Request
<1>2. kind \in Kinds
  BY SessionAssumption DEF Kinds
<1>3. /\ client' \in [Conns -> Client] /\ client'[c].open = client[c].open
      /\ \A d \in Conns : d # c => client'[d] = client[d]
  BY <1>1 DEF Sound, TypeOK, Client
<1>4. QED
  BY <1>1, <1>2, <1>3, IssueSound

LEMMA CloseSound == ASSUME Sound, NEW c \in Conns, Close(c) PROVE Sound'
<1>1. Send(c, "CLOSE") /\ client' = client /\ "CLOSE" \in Kinds
  BY DEF Close, Kinds
<1>2. client' \in [Conns -> Client]
  BY <1>1 DEF Sound, TypeOK
<1>3. QED
  BY <1>1, <1>2, IssueSound

(* A client that destroys its socket.                                      *)
LEMMA DestroySound ==
  ASSUME Sound, NEW c \in Conns, NEW unread \in Seq(Frame), Destroy(c, unread),
         client' \in [Conns -> Client], ~ client'[c].open,
         client'[c].pending => client[c].pending,
         \A d \in Conns : d # c => client'[d] = client[d],
         UNCHANGED <<ops, server, histories, gate, streaming>>
  PROVE  Sound'
<1>1. TypeOK
  BY DEF Sound
<1>2. /\ up' \in [Conns -> Seq([kind : Kinds, n : Nat])]
      /\ down' \in [Conns -> Seq(Frame)]
      /\ \A d \in Conns : d # c => up'[d] = up[d]
      /\ Len(up'[c]) <= Len(up[c])
      /\ \A k \in 1 .. Len(up'[c]) : up'[c][k] = up[c][k]
  BY <1>1, DestroyKeeps
<1>3. \A d \in Conns : Len(up[d]) \in Nat
  BY <1>1, LenProperties DEF TypeOK
<1>4. ASSUME NEW d \in Conns
      PROVE  /\ Len(up'[d]) <= Len(up[d])
             /\ \A k \in 1 .. Len(up'[d]) : up'[d][k] = up[d][k]
  <2>1. CASE d = c
    BY <1>2, <2>1
  <2>2. CASE d # c
    <3>1. up'[d] = up[d]
      BY <1>2, <2>2
    <3>2. QED
      BY <1>3, <3>1
  <2>3. QED
    BY <2>1, <2>2
<1>5. /\ \A d \in Conns : client'[d].pending => client[d].pending
      /\ \A d \in Conns : client'[d].open => client[d].open /\ up'[d] = up[d]
  BY <1>2
<1>6. /\ UNCHANGED <<ops, server, answers, gate, streaming>>
      /\ taken' \in [Conns -> Seq(Seq(Frame))]
      /\ \A d \in Conns : Len(taken'[d]) = Len(taken[d])
  BY <1>1 DEF histories, TypeOK
<1>7. QED
  BY <1>2, <1>4, <1>5, <1>6, ClientStep

LEMMA DisconnectSound ==
  ASSUME Sound, NEW c \in Conns, Disconnect(c) \/ SeeClose(c)
  PROVE  Sound'
<1>1. /\ client' = [client EXCEPT ![c].open = FALSE]
      /\ Destroy(c, down[c])
      /\ UNCHANGED <<ops, server, histories, gate, streaming>>
  BY DEF Disconnect, SeeClose
<1>2. /\ client' \in [Conns -> Client] /\ ~ client'[c].open
      /\ client'[c].pending = client[c].pending
      /\ \A d \in Conns : d # c => client'[d] = client[d]
      /\ down[c] \in Seq(Frame)
  BY <1>1 DEF Sound, TypeOK, Client
<1>3. QED
  BY <1>1, <1>2, DestroySound

LEMMA AbandonSound ==
  ASSUME Sound, NEW c \in Conns, NEW unread \in Seq(Frame), AbandonStream(c, unread),
         UNCHANGED <<ops, server, histories, gate, streaming>>
  PROVE  Sound'
<1>1. /\ client' = [client EXCEPT ![c].open = FALSE, ![c].pending = FALSE,
                                  ![c].unanswered = TRUE]
      /\ Destroy(c, unread)
  BY DEF AbandonStream
<1>2. /\ client' \in [Conns -> Client] /\ ~ client'[c].open /\ ~ client'[c].pending
      /\ \A d \in Conns : d # c => client'[d] = client[d]
  BY <1>1 DEF Sound, TypeOK, Client
<1>3. QED
  BY <1>1, <1>2, DestroySound

(* A client that leaves the frames it sent alone.                          *)
LEMMA ReadingSound ==
  ASSUME Sound, NEW c \in Conns,
         UNCHANGED <<ops, server, up, answers, gate, streaming>>,
         client' \in [Conns -> Client],
         client'[c].open = client[c].open,
         client'[c].pending => client[c].pending,
         \A d \in Conns : d # c => client'[d] = client[d],
         down' \in [Conns -> Seq(Frame)],
         taken' \in [Conns -> Seq(Seq(Frame))],
         \A d \in Conns : Len(taken'[d]) = Len(taken[d])
  PROVE  Sound'
<1>1. /\ up' \in [Conns -> Seq([kind : Kinds, n : Nat])]
      /\ \A d \in Conns : Len(up[d]) \in Nat
  BY LenProperties DEF Sound, TypeOK
<1>2. \A d \in Conns : /\ Len(up'[d]) <= Len(up[d])
                       /\ \A k \in 1 .. Len(up'[d]) : up'[d][k] = up[d][k]
  BY <1>1
<1>3. /\ \A d \in Conns : client'[d].pending => client[d].pending
      /\ \A d \in Conns : client'[d].open => client[d].open /\ up'[d] = up[d]
  OBVIOUS
<1>4. QED
  BY <1>1, <1>2, <1>3, ClientStep

LEMMA TakeReplySound == ASSUME Sound, NEW c \in Conns, TakeReply(c) PROVE Sound'
<1> DEFINE f == Head(down[c])
<1>1. /\ TypeOK /\ Shape
  BY DEF Sound
<1>2. /\ client[c].pending /\ down[c] # <<>>
      /\ down' = [down EXCEPT ![c] = Tail(down[c])]
      /\ UNCHANGED <<ops, server, up, answers, gate, streaming>>
  BY DEF TakeReply
<1>3. f \in Frame /\ Tail(down[c]) \in Seq(Frame)
  BY <1>2, HeadOfDown
<1>4. down' \in [Conns -> Seq(Frame)]
  BY <1>1, <1>2, <1>3 DEF TypeOK
<1> HIDE DEF f
<1>5. CASE /\ Take(c, f)
           /\ client' = [client EXCEPT ![c].pending = FALSE,
                                       ![c].framed = @ \/ Kind(c) = "INIT"]
  <2>1. /\ taken' \in [Conns -> Seq(Seq(Frame))]
        /\ \A d \in Conns : Len(taken'[d]) = Len(taken[d])
    BY <1>1, <1>2, <1>3, <1>5, TakeKeeps
  <2>2. /\ client' \in [Conns -> Client] /\ client'[c].open = client[c].open
        /\ ~ client'[c].pending
        /\ \A d \in Conns : d # c => client'[d] = client[d]
    BY <1>1, <1>5 DEF TypeOK, Client
  <2>3. QED
    BY <1>2, <1>4, <2>1, <2>2, ReadingSound
<1>6. CASE /\ client' = [client EXCEPT ![c].pending = FALSE, ![c].unanswered = TRUE]
           /\ UNCHANGED taken
  <2>1. /\ taken' \in [Conns -> Seq(Seq(Frame))]
        /\ \A d \in Conns : Len(taken'[d]) = Len(taken[d])
    BY <1>1, <1>6 DEF TypeOK
  <2>2. /\ client' \in [Conns -> Client] /\ client'[c].open = client[c].open
        /\ ~ client'[c].pending
        /\ \A d \in Conns : d # c => client'[d] = client[d]
    BY <1>1, <1>6 DEF TypeOK, Client
  <2>3. QED
    BY <1>2, <1>4, <2>1, <2>2, ReadingSound
<1>7. QED
  BY <1>5, <1>6 DEF TakeReply, f

LEMMA TakeEventSound == ASSUME Sound, NEW c \in Conns, TakeEvent(c) PROVE Sound'
<1> DEFINE f == Head(down[c])
<1>1. /\ TypeOK /\ Shape
  BY DEF Sound
<1>2. /\ client[c].pending /\ down[c] # <<>>
      /\ UNCHANGED <<ops, server, answers, gate, streaming>>
  BY DEF TakeEvent
<1>3. f \in Frame /\ Tail(down[c]) \in Seq(Frame) /\ f.final \in BOOLEAN
  BY <1>2, HeadOfDown
<1> HIDE DEF f
<1>4. CASE /\ Take(c, f)
           /\ client' = [client EXCEPT ![c].pending = ~ f.final]
           /\ down' = [down EXCEPT ![c] = Tail(down[c])]
           /\ UNCHANGED up
  <2>1. /\ taken' \in [Conns -> Seq(Seq(Frame))]
        /\ \A d \in Conns : Len(taken'[d]) = Len(taken[d])
    BY <1>1, <1>2, <1>3, <1>4, TakeKeeps
  <2>2. /\ client' \in [Conns -> Client] /\ client'[c].open = client[c].open
        /\ \A d \in Conns : d # c => client'[d] = client[d]
    BY <1>1, <1>3, <1>4 DEF TypeOK, Client
  <2>3. down' \in [Conns -> Seq(Frame)]
    BY <1>1, <1>3, <1>4 DEF TypeOK
  <2>4. QED
    BY <1>2, <1>4, <2>1, <2>2, <2>3, ReadingSound
<1>5. CASE AbandonStream(c, Tail(down[c])) /\ UNCHANGED taken
  BY <1>2, <1>3, <1>5, AbandonSound DEF histories
<1>6. QED
  BY <1>4, <1>5 DEF TakeEvent, f

LEMMA ReadFailsSound == ASSUME Sound, NEW c \in Conns, ReadFails(c) PROVE Sound'
<1>1. /\ TypeOK /\ client[c].pending
      /\ UNCHANGED <<ops, server, histories, gate, streaming>>
  BY DEF Sound, ReadFails
<1>2. CASE AbandonStream(c, down[c])
  <2>1. down[c] \in Seq(Frame)
    BY <1>1 DEF TypeOK
  <2>2. QED
    BY <1>1, <1>2, <2>1, AbandonSound
<1>3. CASE /\ client' = [client EXCEPT ![c].pending = FALSE, ![c].unanswered = TRUE]
           /\ UNCHANGED wires
  <2>1. /\ client' \in [Conns -> Client] /\ client'[c].open = client[c].open
        /\ ~ client'[c].pending
        /\ \A d \in Conns : d # c => client'[d] = client[d]
    BY <1>1, <1>3 DEF TypeOK, Client
  <2>2. /\ taken' \in [Conns -> Seq(Seq(Frame))] /\ down' \in [Conns -> Seq(Frame)]
        /\ \A d \in Conns : Len(taken'[d]) = Len(taken[d])
        /\ UNCHANGED <<ops, server, up, answers, gate, streaming>>
    BY <1>1, <1>3 DEF TypeOK, wires, histories
  <2>3. QED
    BY <2>1, <2>2, ReadingSound
<1>4. QED
  BY <1>2, <1>3 DEF ReadFails

LEMMA LookupEndsSound ==
  ASSUME Sound, NEW c \in Conns, LookupEnds(c) PROVE Sound'
<1>1. TypeOK /\ server[c].n \in Nat /\ server[c].n \in 1 .. Len(answers[c])
  BY ServesCurrent DEF Sound, LookupEnds
<1>2. /\ Write(c, Reply("RESPONSE", server[c].n))
      /\ server' = [server EXCEPT ![c].phase = "reading"]
      /\ UNCHANGED <<ops, client, up, taken, gate, streaming>>
  BY DEF LookupEnds, Become
<1>3. /\ Reply("RESPONSE", server[c].n) \in Frame
      /\ Reply("RESPONSE", server[c].n).n = server[c].n
  BY <1>1, FramesTyped
<1>4. /\ down' \in [Conns -> Seq(Frame)] /\ answers' \in [Conns -> Seq(Nat)]
      /\ \A d \in Conns : Len(answers'[d]) = Len(answers[d])
  BY <1>1, <1>2, <1>3, WriteKeeps
<1>5. /\ server' \in [Conns -> Server] /\ \A d \in Conns : server'[d].n = server[d].n
      /\ server'[c].phase = "reading" /\ \A d \in Conns : d # c => server'[d] = server[d]
  BY <1>1, <1>2 DEF TypeOK, Server
<1>6. gate' \in 0 .. MaxConcurrent
  BY <1>1, <1>2 DEF TypeOK
<1>7. QED
  BY <1>2, <1>4, <1>5, <1>6, ServerStep

LEMMA HandlerEndsSound ==
  ASSUME Sound, NEW c \in Conns, HandlerEnds(c) PROVE Sound'
<1>1. TypeOK /\ server[c].n \in Nat /\ server[c].n \in 1 .. Len(answers[c])
  BY ServesCurrent DEF Sound, HandlerEnds
<1>2. /\ Write(c, Reply("RESPONSE", server[c].n))
      /\ server' = [server EXCEPT ![c].phase = "reading"]
      /\ UNCHANGED <<ops, client, up, taken, streaming>>
      /\ Release
  BY DEF HandlerEnds, Become
<1>3. /\ Reply("RESPONSE", server[c].n) \in Frame
      /\ Reply("RESPONSE", server[c].n).n = server[c].n
  BY <1>1, FramesTyped
<1>4. /\ down' \in [Conns -> Seq(Frame)] /\ answers' \in [Conns -> Seq(Nat)]
      /\ \A d \in Conns : Len(answers'[d]) = Len(answers[d])
  BY <1>1, <1>2, <1>3, WriteKeeps
<1>5. /\ server' \in [Conns -> Server] /\ \A d \in Conns : server'[d].n = server[d].n
      /\ server'[c].phase = "reading" /\ \A d \in Conns : d # c => server'[d] = server[d]
  BY <1>1, <1>2 DEF TypeOK, Server
<1>6. gate' \in 0 .. MaxConcurrent
  BY <1>2, ReleaseBounded
<1>7. QED
  BY <1>2, <1>4, <1>5, <1>6, ServerStep

LEMMA StreamYieldsSound ==
  ASSUME Sound, NEW c \in Conns, StreamYields(c) PROVE Sound'
<1>1. /\ TypeOK /\ server[c].n \in Nat /\ server[c].n \in 1 .. Len(answers[c])
      /\ server[c].sent \in Nat
  BY ServesCurrent DEF Sound, StreamYields
<1>2. PICK final \in BOOLEAN :
        /\ Write(c, Event(server[c].n, server[c].sent, final))
        /\ server' = [server EXCEPT ![c].sent = @ + 1, ![c].terminal = final]
  BY DEF StreamYields
<1>3. UNCHANGED <<ops, client, up, taken, gate, streaming>>
  BY DEF StreamYields
<1>4. /\ Event(server[c].n, server[c].sent, final) \in Frame
      /\ Event(server[c].n, server[c].sent, final).n = server[c].n
  BY <1>1, FramesTyped
<1>5. /\ down' \in [Conns -> Seq(Frame)] /\ answers' \in [Conns -> Seq(Nat)]
      /\ \A d \in Conns : Len(answers'[d]) = Len(answers[d])
  BY <1>1, <1>2, <1>4, WriteKeeps
<1>6. /\ server' \in [Conns -> Server] /\ \A d \in Conns : server'[d].n = server[d].n
      /\ \A d \in Conns : server'[d].phase = server[d].phase
  <2> DEFINE next == [server[c] EXCEPT !.sent = server[c].sent + 1, !.terminal = final]
  <2>1. server \in [Conns -> Server] /\ server[c].sent + 1 \in Nat
    BY <1>1 DEF TypeOK
  <2>2. next \in Server /\ next.n = server[c].n /\ next.phase = server[c].phase
    BY <2>1 DEF Server
  <2>3. server' = [server EXCEPT ![c] = next]
    BY <1>2
  <2> HIDE DEF next
  <2>4. QED
    BY <2>1, <2>2, <2>3
<1>7. gate' \in 0 .. MaxConcurrent
  BY <1>1, <1>3 DEF TypeOK
<1>8. QED
  BY <1>3, <1>5, <1>6, <1>7, ServerStep

LEMMA StreamEndsSound ==
  ASSUME Sound, NEW c \in Conns, StreamEnds(c) PROVE Sound'
<1>1. /\ TypeOK /\ server[c].n \in Nat /\ server[c].n \in 1 .. Len(answers[c])
      /\ server[c].sent \in Nat
  BY ServesCurrent DEF Sound, StreamEnds
<1>2. /\ server' = [server EXCEPT ![c].phase = "reading"]
      /\ UNCHANGED <<ops, client, up, taken, streaming>>
      /\ Release
  BY DEF StreamEnds, Become
<1>3. /\ Event(server[c].n, server[c].sent, TRUE) \in Frame
      /\ Event(server[c].n, server[c].sent, TRUE).n = server[c].n
  BY <1>1, FramesTyped
<1>4. /\ down' \in [Conns -> Seq(Frame)] /\ answers' \in [Conns -> Seq(Nat)]
      /\ \A d \in Conns : Len(answers'[d]) = Len(answers[d])
  <2>1. CASE Silent
    BY <1>1, <2>1 DEF Silent, TypeOK
  <2>2. CASE Write(c, Event(server[c].n, server[c].sent, TRUE))
    BY <1>1, <1>3, <2>2, WriteKeeps
  <2>3. QED
    BY <2>1, <2>2 DEF StreamEnds
<1>5. /\ server' \in [Conns -> Server] /\ \A d \in Conns : server'[d].n = server[d].n
      /\ server'[c].phase = "reading" /\ \A d \in Conns : d # c => server'[d] = server[d]
  BY <1>1, <1>2 DEF TypeOK, Server
<1>6. gate' \in 0 .. MaxConcurrent
  BY <1>2, ReleaseBounded
<1>7. QED
  BY <1>2, <1>4, <1>5, <1>6, ServerStep

LEMMA ReadEndSound == ASSUME Sound, NEW c \in Conns, ReadEnd(c) PROVE Sound'
<1>1. /\ TypeOK
      /\ server' = [server EXCEPT ![c].phase = "ended"]
      /\ UNCHANGED <<ops, client, up, down, taken, answers, gate, streaming>>
  BY DEF Sound, ReadEnd, Become, wires, histories
<1>2. /\ server' \in [Conns -> Server] /\ \A d \in Conns : server'[d].n = server[d].n
      /\ server'[c].phase = "ended" /\ \A d \in Conns : d # c => server'[d] = server[d]
  BY <1>1 DEF TypeOK, Server
<1>3. /\ down' \in [Conns -> Seq(Frame)] /\ answers' \in [Conns -> Seq(Nat)]
      /\ \A d \in Conns : Len(answers'[d]) = Len(answers[d])
      /\ gate' \in 0 .. MaxConcurrent
  BY <1>1 DEF TypeOK
<1>4. QED
  BY <1>1, <1>2, <1>3, ServerStep

(* The frame at the head of a queue is the next operation.                 *)
LEMMA HeadOfUp ==
  ASSUME Sound, NEW c \in Conns, up[c] # <<>>
  PROVE  /\ Head(up[c]).n = server[c].n + 1
         /\ Head(up[c]).kind = ops[c][server[c].n + 1]
         /\ server[c].n + 1 \in 1 .. Len(ops[c])
         /\ server[c].n \in Nat
         /\ Tail(up[c]) \in Seq([kind : Kinds, n : Nat])
         /\ Len(Tail(up[c])) = Len(up[c]) - 1
         /\ Len(up[c]) \in Nat \ {0}
         /\ \A k \in 1 .. Len(Tail(up[c])) : Tail(up[c])[k] = up[c][k + 1]
<1>1. /\ up[c] \in Seq([kind : Kinds, n : Nat]) /\ server[c] \in Server
      /\ ops[c] \in Seq(Kinds)
  BY DEF Sound, TypeOK
<1>2. /\ Len(up[c]) \in Nat \ {0} /\ Len(ops[c]) \in Nat /\ server[c].n \in Nat
  BY <1>1, EmptySeq, LenProperties DEF Server
<1>3. /\ server[c].n + Len(up[c]) <= Len(ops[c])
      /\ \A k \in 1 .. Len(up[c]) :
           /\ up[c][k].n = server[c].n + k
           /\ up[c][k].kind = ops[c][server[c].n + k]
  BY DEF Sound, InTurn
<1>4. Head(up[c]) = up[c][1]
  BY <1>1, <1>2
<1>5. up[c][1].n = server[c].n + 1 /\ up[c][1].kind = ops[c][server[c].n + 1]
  BY <1>2, <1>3
<1>6. server[c].n + 1 \in 1 .. Len(ops[c])
  BY ONLY <1>2, <1>3
<1>7. /\ Tail(up[c]) \in Seq([kind : Kinds, n : Nat])
      /\ Len(Tail(up[c])) = Len(up[c]) - 1
      /\ \A k \in 1 .. Len(Tail(up[c])) : Tail(up[c])[k] = up[c][k + 1]
  BY <1>1, HeadTailProperties
<1>8. QED
  BY <1>2, <1>4, <1>5, <1>6, <1>7

(* What reading a frame does, whichever frame it is.                       *)
Entered(c, phase) ==
  [phase |-> phase, initialized |-> TRUE, n |-> Head(up[c]).n,
   sent |-> 0, terminal |-> FALSE]

LEMMA ReadDoes ==
  ASSUME Sound, NEW c \in Conns, Read(c)
  PROVE  /\ server[c].phase = "reading"
         /\ up' = [up EXCEPT ![c] = Tail(up[c])]
         /\ UNCHANGED <<ops, client, taken, streaming>>
         /\ \E phase \in {"reading", "lookup", "plain", "stream", "ended"} :
              /\ server' = [server EXCEPT ![c] = Entered(c, phase)]
              /\ phase # "ended" => Head(up[c]).kind # "CLOSE"
              /\ phase = "stream" => Head(up[c]).kind = "STREAM"
              /\ phase = "reading" =>
                   \E f \in Frame : /\ f.n = Head(up[c]).n /\ f.final
                                    /\ f.life => Head(up[c]).kind = "STREAM"
                                    /\ Write(c, f)
              /\ phase # "reading" => Silent
              /\ phase \in {"plain", "stream"} => Acquire
              /\ phase \notin {"plain", "stream"} => gate' = gate
<1>1. up[c] # <<>>
  BY DEF Read
<1>2. Head(up[c]).n \in Nat
  BY <1>1, HeadOfUp
<1> DEFINE n == Head(up[c]).n
           kind == Head(up[c]).kind
           streamed == kind = "STREAM" /\ streaming
           Does(phase) ==
             /\ server' = [server EXCEPT ![c] = Entered(c, phase)]
             /\ phase # "ended" => kind # "CLOSE"
             /\ phase = "stream" => kind = "STREAM"
             /\ phase = "reading" =>
                  \E f \in Frame : /\ f.n = n /\ f.final
                                   /\ f.life => kind = "STREAM"
                                   /\ Write(c, f)
             /\ phase # "reading" => Silent
             /\ phase \in {"plain", "stream"} => Acquire
             /\ phase \notin {"plain", "stream"} => gate' = gate
           Enters(phase) == server' = [server EXCEPT ![c] = Entered(c, phase)]
<1>3. /\ Reply("ACK", n) \in Frame /\ Reply("ACK", n).n = n
      /\ Reply("PONG", n) \in Frame /\ Reply("PONG", n).n = n
      /\ Reply("RESPONSE", n) \in Frame /\ Reply("RESPONSE", n).n = n
      /\ Event(n, 0, TRUE) \in Frame /\ Event(n, 0, TRUE).n = n
  BY <1>2, FramesTyped
<1>4. /\ Reply("ACK", n).final /\ Reply("PONG", n).final /\ Reply("RESPONSE", n).final
      /\ Event(n, 0, TRUE).final
      /\ ~ Reply("ACK", n).life /\ ~ Reply("PONG", n).life /\ ~ Reply("RESPONSE", n).life
  BY DEF Reply, Event
<1>5. \/ /\ Enters("ended") /\ Silent /\ gate' = gate
      \/ /\ kind = "INIT" /\ Enters("reading") /\ Write(c, Reply("ACK", n)) /\ gate' = gate
      \/ /\ kind = "PING" /\ Enters("reading") /\ Write(c, Reply("PONG", n)) /\ gate' = gate
      \/ /\ kind = "DISCOVER" /\ Enters("lookup") /\ Silent /\ gate' = gate
      \/ /\ kind \in {"CALL", "STREAM"} /\ Acquire /\ Silent
         /\ Enters(IF streamed THEN "stream" ELSE "plain")
      \/ /\ kind \in {"CALL", "STREAM"} /\ Enters("reading") /\ gate' = gate
         /\ Write(c, IF streamed THEN Event(n, 0, TRUE) ELSE Reply("RESPONSE", n))
  BY DEF Read, Entered
<1> HIDE DEF n, kind
<1>6. \E phase \in {"reading", "lookup", "plain", "stream", "ended"} : Does(phase)
  <2>1. CASE Enters("ended") /\ Silent /\ gate' = gate
    <3>1. Does("ended")
      BY <2>1
    <3>2. QED
      BY <3>1
  <2>2. CASE /\ kind = "INIT" /\ Enters("reading") /\ Write(c, Reply("ACK", n))
             /\ gate' = gate
    <3>1. Does("reading")
      BY <1>3, <1>4, <2>2
    <3>2. QED
      BY <3>1
  <2>3. CASE /\ kind = "PING" /\ Enters("reading") /\ Write(c, Reply("PONG", n))
             /\ gate' = gate
    <3>1. Does("reading")
      BY <1>3, <1>4, <2>3
    <3>2. QED
      BY <3>1
  <2>4. CASE kind = "DISCOVER" /\ Enters("lookup") /\ Silent /\ gate' = gate
    <3>1. Does("lookup")
      BY <2>4
    <3>2. QED
      BY <3>1
  <2>5. CASE /\ kind \in {"CALL", "STREAM"} /\ Acquire /\ Silent
             /\ Enters(IF streamed THEN "stream" ELSE "plain")
    <3>1. CASE streamed
      <4>1. Does("stream")
        BY <2>5, <3>1
      <4>2. QED
        BY <4>1
    <3>2. CASE ~ streamed
      <4>1. Does("plain")
        BY <2>5, <3>2
      <4>2. QED
        BY <4>1
    <3>3. QED
      BY <3>1, <3>2
  <2>6. CASE /\ kind \in {"CALL", "STREAM"} /\ Enters("reading") /\ gate' = gate
             /\ Write(c, IF streamed THEN Event(n, 0, TRUE) ELSE Reply("RESPONSE", n))
    <3>1. \E f \in Frame : /\ f.n = n /\ f.final
                           /\ f.life => kind = "STREAM"
                           /\ Write(c, f)
      <4>1. CASE streamed
        BY <1>3, <1>4, <2>6, <4>1
      <4>2. CASE ~ streamed
        BY <1>3, <1>4, <2>6, <4>2
      <4>3. QED
        BY <4>1, <4>2
    <3>2. Does("reading")
      BY <2>6, <3>1
    <3>3. QED
      BY <3>2
  <2>7. QED
    BY <1>5, <2>1, <2>2, <2>3, <2>4, <2>5, <2>6
<1>7. /\ server[c].phase = "reading"
      /\ up' = [up EXCEPT ![c] = Tail(up[c])]
      /\ UNCHANGED <<ops, client, taken, streaming>>
  BY DEF Read
<1>8. QED
  BY <1>6, <1>7 DEF n, kind

LEMMA ReadSound == ASSUME Sound, NEW c \in Conns, Read(c) PROVE Sound'
<1>1. TypeOK /\ Shape /\ up[c] # <<>>
  BY DEF Sound, Read
<1> DEFINE n == Head(up[c]).n
<1>2. /\ n = server[c].n + 1 /\ server[c].n \in Nat /\ n \in 1 .. Len(ops[c]) /\ n \in Nat
  BY <1>1, HeadOfUp
<1>3. n \in 1 .. Len(answers[c])
  BY <1>1, <1>2 DEF Shape
<1>4. /\ up' = [up EXCEPT ![c] = Tail(up[c])]
      /\ UNCHANGED <<ops, client, taken, streaming>>
  BY ReadDoes
<1>5. PICK phase \in {"reading", "lookup", "plain", "stream", "ended"} :
        /\ server' = [server EXCEPT ![c] = Entered(c, phase)]
        /\ Silent \/ \E f \in Frame : f.n = n /\ Write(c, f)
        /\ gate' = gate \/ Acquire
  BY ReadDoes
<1>5a. gate' \in 0 .. MaxConcurrent
  BY <1>1, <1>5, SessionAssumption DEF TypeOK, Acquire, GateFull
<1>5b. Entered(c, phase) \in Server /\ Entered(c, phase).n = n
  BY <1>2 DEF Entered, Server
<1> HIDE DEF n
<1>6. /\ server' \in [Conns -> Server] /\ server'[c].n = n /\ n # 0
      /\ \A d \in Conns : d # c => server'[d] = server[d]
  BY <1>1, <1>2, <1>5, <1>5b DEF TypeOK
<1>7. /\ down' \in [Conns -> Seq(Frame)] /\ answers' \in [Conns -> Seq(Nat)]
      /\ \A d \in Conns : Len(answers'[d]) = Len(answers[d])
  <2>1. CASE Silent
    BY <1>1, <2>1 DEF Silent, TypeOK
  <2>2. CASE \E f \in Frame : f.n = n /\ Write(c, f)
    BY <1>1, <1>3, <2>2, WriteKeeps
  <2>3. QED
    BY <1>5, <2>1, <2>2
<1>8. /\ up' \in [Conns -> Seq([kind : Kinds, n : Nat])] /\ up'[c] = Tail(up[c])
      /\ \A d \in Conns : d # c => up'[d] = up[d]
  BY <1>1, <1>4, HeadOfUp DEF TypeOK
<1>9. TypeOK'
  BY <1>1, <1>4, <1>6, <1>7, <1>8, <1>5a DEF TypeOK
<1>10. Shape'
  BY <1>1, <1>4, <1>7 DEF Shape
<1>11. /\ n + Len(up'[c]) <= Len(ops[c])
       /\ client[c].open => n + Len(up'[c]) = Len(ops[c])
       /\ \A k \in 1 .. Len(up'[c]) :
            /\ up'[c][k].n = n + k
            /\ up'[c][k].kind = ops[c][n + k]
  <2>1. /\ Len(up'[c]) = Len(up[c]) - 1 /\ Len(up[c]) \in Nat \ {0}
        /\ \A k \in 1 .. Len(up'[c]) : up'[c][k] = up[c][k + 1]
    BY <1>1, <1>8, HeadOfUp
  <2>2. /\ server[c].n + Len(up[c]) <= Len(ops[c])
        /\ client[c].open => server[c].n + Len(up[c]) = Len(ops[c])
        /\ \A k \in 1 .. Len(up[c]) :
             /\ up[c][k].n = server[c].n + k
             /\ up[c][k].kind = ops[c][server[c].n + k]
    BY DEF Sound, InTurn
  <2>3. n + Len(up'[c]) = server[c].n + Len(up[c])
    <3>1. n = server[c].n + 1 /\ Len(up'[c]) = Len(up[c]) - 1
      BY <1>2, <2>1
    <3>2. server[c].n \in Nat /\ Len(up[c]) \in Nat
      BY <1>2, <2>1
    <3>3. (server[c].n + 1) + (Len(up[c]) - 1) = server[c].n + Len(up[c])
      BY ONLY <3>2
    <3>4. QED
      BY <3>1, <3>3
  <2>4. ASSUME NEW k \in 1 .. Len(up'[c])
        PROVE  up'[c][k].n = n + k /\ up'[c][k].kind = ops[c][n + k]
    <3>1. k + 1 \in 1 .. Len(up[c]) /\ n + k = server[c].n + (k + 1)
      BY ONLY SMTT(30), <1>2, <2>1, <2>4
    <3>2. QED
      BY <2>1, <2>2, <3>1
  <2>5. QED
    BY <2>2, <2>3, <2>4
<1>12. ASSUME NEW d \in Conns
       PROVE  /\ server'[d].n + Len(up'[d]) <= Len(ops'[d])
              /\ client'[d].open => server'[d].n + Len(up'[d]) = Len(ops'[d])
              /\ \A k \in 1 .. Len(up'[d]) :
                   /\ up'[d][k].n = server'[d].n + k
                   /\ up'[d][k].kind = ops'[d][server'[d].n + k]
              /\ server'[d].phase \in {"lookup", "plain", "stream"} => server'[d].n # 0
  <2>1. CASE d = c
    BY <1>4, <1>6, <1>11, <2>1
  <2>2. CASE d # c
    <3>1. /\ server'[d] = server[d] /\ up'[d] = up[d] /\ ops'[d] = ops[d]
          /\ client'[d] = client[d]
      BY <1>4, <1>6, <1>8, <2>2
    <3>2. QED
      BY <3>1 DEF Sound, InTurn
  <2>3. QED
    BY <2>1, <2>2
<1>13. InTurn'
  BY <1>12 DEF InTurn
<1>14. QED
  BY <1>9, <1>10, <1>13 DEF Sound

LEMMA StepSound == Sound /\ [Next]_vars => Sound'
<1> SUFFICES ASSUME Sound, [Next]_vars PROVE Sound'
  OBVIOUS
<1>1. CASE UNCHANGED vars
  <2>1. UNCHANGED <<ops, client, server, up, down, taken, answers, gate, streaming>>
    BY <1>1 DEF vars, wires, histories
  <2>2. TypeOK'
    BY <2>1 DEF Sound, TypeOK
  <2>3. Shape'
    BY <2>1 DEF Sound, Shape
  <2>4. InTurn'
    BY <2>1 DEF Sound, InTurn
  <2>5. QED
    BY <2>2, <2>3, <2>4 DEF Sound
<1>2. ASSUME NEW c \in Conns, Request(c) PROVE Sound'
  BY <1>2, RequestSound
<1>3. ASSUME NEW c \in Conns, Close(c) PROVE Sound'
  BY <1>3, CloseSound
<1>4. ASSUME NEW c \in Conns, Disconnect(c) \/ SeeClose(c) PROVE Sound'
  BY <1>4, DisconnectSound
<1>5. ASSUME NEW c \in Conns, TakeReply(c) PROVE Sound'
  BY <1>5, TakeReplySound
<1>6. ASSUME NEW c \in Conns, TakeEvent(c) PROVE Sound'
  BY <1>6, TakeEventSound
<1>7. ASSUME NEW c \in Conns, ReadFails(c) PROVE Sound'
  BY <1>7, ReadFailsSound
<1>8. ASSUME NEW c \in Conns, Read(c) PROVE Sound'
  BY <1>8, ReadSound
<1>9. ASSUME NEW c \in Conns, LookupEnds(c) PROVE Sound'
  BY <1>9, LookupEndsSound
<1>10. ASSUME NEW c \in Conns, HandlerEnds(c) PROVE Sound'
  BY <1>10, HandlerEndsSound
<1>11. ASSUME NEW c \in Conns, StreamYields(c) PROVE Sound'
  BY <1>11, StreamYieldsSound
<1>12. ASSUME NEW c \in Conns, StreamEnds(c) PROVE Sound'
  BY <1>12, StreamEndsSound
<1>13. ASSUME NEW c \in Conns, ReadEnd(c) PROVE Sound'
  BY <1>13, ReadEndSound
<1>14. QED
  BY <1>1, <1>2, <1>3, <1>4, <1>5, <1>6, <1>7, <1>8, <1>9, <1>10, <1>11, <1>12,
     <1>13 DEF Next

(* The variables keep their types; in particular the gate never runs over  *)
(* max_concurrent (ConcurrencyGate.acquire).                               *)
THEOREM TypeCorrect == Spec => []TypeOK
<1>1. Spec => []Sound
  BY InitSound, StepSound, PTL DEF Spec
<1>2. Sound => TypeOK
  BY DEF Sound
<1>3. QED
  BY <1>1, <1>2, PTL

-----------------------------------------------------------------------------
(* The gate.                                                               *)

LEMMA ExecutingCounts ==
  ASSUME NEW S \in SUBSET Conns, NEW c \in Conns
  PROVE  /\ Cardinality(S) \in Nat
         /\ c \notin S => Cardinality(S \cup {c}) = Cardinality(S) + 1
         /\ c \in S => /\ Cardinality(S \ {c}) = Cardinality(S) - 1
                      /\ Cardinality(S) > 0
<1>1. IsFiniteSet(S)
  BY FS_Subset, SessionAssumption
<1>2. Cardinality(S) \in Nat
  BY <1>1, FS_CardinalityType
<1>3. c \notin S => Cardinality(S \cup {c}) = Cardinality(S) + 1
  BY <1>1, FS_AddElement
<1>4. c \in S => Cardinality(S \ {c}) = Cardinality(S) - 1
  BY <1>1, FS_RemoveElement
<1>5. c \in S => Cardinality(S) # 0
  BY <1>1, FS_EmptySet
<1>6. QED
  BY <1>2, <1>3, <1>4, <1>5

(* A call that ends gives back the slot it holds.                          *)
LEMMA SlotFreed ==
  ASSUME Sound, GateBalanced, NEW c \in Conns, c \in Executing, Release,
         server' = [server EXCEPT ![c].phase = "reading"]
  PROVE  GateBalanced'
<1>1. server \in [Conns -> Server]
  BY DEF Sound, TypeOK
<1>2. Executing' = Executing \ {c}
  BY <1>1 DEF Executing
<1>3. Executing \in SUBSET Conns
  BY DEF Executing
<1>4. /\ Cardinality(Executing \ {c}) = Cardinality(Executing) - 1
      /\ Cardinality(Executing) > 0 /\ Cardinality(Executing) \in Nat
  BY <1>3, ExecutingCounts
<1>5. gate' = Cardinality(Executing) - 1
  BY <1>4 DEF GateBalanced, Release
<1>6. QED
  BY <1>2, <1>4, <1>5 DEF GateBalanced

(* A step that neither starts nor ends a call.                             *)
LEMMA SlotsKept ==
  ASSUME GateBalanced, gate' = gate,
         \A c \in Conns : server'[c].phase \in {"plain", "stream"}
                           <=> server[c].phase \in {"plain", "stream"}
  PROVE  GateBalanced'
<1>1. Executing' = Executing
  BY DEF Executing
<1>2. QED
  BY <1>1 DEF GateBalanced

LEMMA ReadBalanced ==
  ASSUME Sound, GateBalanced, NEW c \in Conns, Read(c) PROVE GateBalanced'
<1>1. PICK phase \in {"reading", "lookup", "plain", "stream", "ended"} :
        /\ server' = [server EXCEPT ![c] = Entered(c, phase)]
        /\ phase \in {"plain", "stream"} => Acquire
        /\ phase \notin {"plain", "stream"} => gate' = gate
  BY ReadDoes
<1>2. server[c].phase = "reading" /\ server \in [Conns -> Server]
  BY ReadDoes DEF Sound, TypeOK
<1>3. /\ server'[c].phase = phase
      /\ \A d \in Conns : d # c => server'[d] = server[d]
  BY <1>1, <1>2 DEF Entered
<1>4. CASE phase \in {"plain", "stream"}
  <2>1. Executing' = Executing \cup {c} /\ c \notin Executing
    BY <1>2, <1>3, <1>4 DEF Executing
  <2>2. Executing \in SUBSET Conns
    BY DEF Executing
  <2>3. Cardinality(Executing \cup {c}) = Cardinality(Executing) + 1
    BY <2>1, <2>2, ExecutingCounts
  <2>4. gate' = gate + 1
    BY <1>1, <1>4 DEF Acquire
  <2>5. QED
    BY <2>1, <2>3, <2>4 DEF GateBalanced
<1>5. CASE phase \notin {"plain", "stream"}
  <2>1. gate' = gate
    BY <1>1, <1>5
  <2>2. ASSUME NEW d \in Conns
        PROVE  server'[d].phase \in {"plain", "stream"}
               <=> server[d].phase \in {"plain", "stream"}
    BY <1>2, <1>3, <1>5
  <2>3. QED
    BY <2>1, <2>2, SlotsKept
<1>6. QED
  BY <1>4, <1>5

LEMMA StepBalanced ==
  Sound /\ GateBalanced /\ [Next]_vars => GateBalanced'
<1> SUFFICES ASSUME Sound, GateBalanced, [Next]_vars PROVE GateBalanced'
  OBVIOUS
<1>1. server \in [Conns -> Server]
  BY DEF Sound, TypeOK
<1>2. CASE UNCHANGED <<server, gate>>
  BY <1>2, SlotsKept
<1>3. CASE UNCHANGED vars
  BY <1>2, <1>3 DEF vars
<1>4. ASSUME NEW c \in Conns,
             \/ Request(c) \/ Close(c) \/ Disconnect(c) \/ SeeClose(c)
             \/ TakeReply(c) \/ TakeEvent(c) \/ ReadFails(c)
      PROVE  GateBalanced'
  <2>1. UNCHANGED <<server, gate>>
    BY <1>4 DEF Request, Close, Send, Disconnect, SeeClose, TakeReply, TakeEvent,
                ReadFails
  <2>2. QED
    BY <1>2, <2>1
<1>5. ASSUME NEW c \in Conns, Read(c) PROVE GateBalanced'
  BY <1>5, ReadBalanced
<1>6. ASSUME NEW c \in Conns, LookupEnds(c) \/ ReadEnd(c) PROVE GateBalanced'
  <2>1. /\ gate' = gate
        /\ \/ server' = [server EXCEPT ![c].phase = "reading"]
           \/ server' = [server EXCEPT ![c].phase = "ended"]
        /\ server[c].phase \in {"lookup", "reading"}
    BY <1>6 DEF LookupEnds, ReadEnd, Become
  <2>2. /\ server'[c].phase \in {"reading", "ended"}
        /\ \A d \in Conns : d # c => server'[d] = server[d]
    BY <1>1, <2>1 DEF Server
  <2>3. ASSUME NEW d \in Conns
        PROVE  server'[d].phase \in {"plain", "stream"}
               <=> server[d].phase \in {"plain", "stream"}
    <3>1. CASE d = c
      BY <2>1, <2>2, <3>1
    <3>2. CASE d # c
      BY <2>2, <3>2
    <3>3. QED
      BY <3>1, <3>2
  <2>4. QED
    BY <2>1, <2>3, SlotsKept
<1>7. ASSUME NEW c \in Conns, StreamYields(c) PROVE GateBalanced'
  <2>1. PICK final \in BOOLEAN :
          server' = [server EXCEPT ![c].sent = @ + 1, ![c].terminal = final]
    BY <1>7 DEF StreamYields
  <2>2. \A d \in Conns : server'[d].phase = server[d].phase
    BY <1>1, <2>1 DEF Server
  <2>3. gate' = gate
    BY <1>7 DEF StreamYields
  <2>4. QED
    BY <2>2, <2>3, SlotsKept
<1>8. ASSUME NEW c \in Conns, HandlerEnds(c) \/ StreamEnds(c) PROVE GateBalanced'
  <2>1. /\ c \in Executing
        /\ Release
        /\ server' = [server EXCEPT ![c].phase = "reading"]
    BY <1>8 DEF HandlerEnds, StreamEnds, Become, Executing
  <2>2. QED
    BY <2>1, SlotFreed
<1>9. QED
  BY <1>3, <1>4, <1>5, <1>6, <1>7, <1>8 DEF Next

(* The gate's count is the number of calls that execute, over every        *)
(* connection: no way to end a call leaks its slot or frees another's.     *)
THEOREM GateIsBalanced == Spec => []GateBalanced
<1>1. Init => GateBalanced
  <2> SUFFICES ASSUME Init PROVE GateBalanced
    OBVIOUS
  <2>1. Executing = {} /\ gate = 0
    BY DEF Init, Executing
  <2>2. QED
    BY <2>1, FS_EmptySet DEF GateBalanced
<1>2. QED
  BY <1>1, InitSound, StepSound, StepBalanced, PTL DEF Spec

-----------------------------------------------------------------------------
(* One final frame per operation.                                          *)

LEMMA LedgerKept ==
  ASSUME NEW c \in Conns, LedgerAt(c),
         ops'[c] = ops[c], server'[c] = server[c], answers'[c] = answers[c]
  PROVE  LedgerAt(c)'
  BY DEF LedgerAt, Busy

LEMMA FinalWritten ==
  ASSUME Sound, NEW c \in Conns, LedgerAt(c), Busy(c),
         NEW f \in Frame, f.n = server[c].n, f.final, Write(c, f),
         ops' = ops, server'[c].n = server[c].n, ~ Busy(c)'
  PROVE  LedgerAt(c)'
<1>1. server[c].n \in 1 .. Len(answers[c]) /\ server[c].n \in Nat
  BY ServesCurrent DEF Busy
<1>2. TypeOK /\ Len(answers[c]) = Len(ops[c])
  BY DEF Sound, Shape
<1>3. /\ answers'[c][server[c].n] = answers[c][server[c].n] + 1
      /\ \A n \in 1 .. Len(answers[c]) : n # server[c].n => answers'[c][n] = answers[c][n]
  BY <1>1, <1>2, WriteKeeps
<1>4. answers[c][server[c].n] = 0
  BY <1>1, <1>2 DEF LedgerAt
<1>5. QED
  BY <1>1, <1>2, <1>3, <1>4 DEF LedgerAt

LEMMA SendLedger ==
  ASSUME Sound, NEW c \in Conns, LedgerAt(c), NEW kind \in Kinds, Send(c, kind)
  PROVE  LedgerAt(c)'
<1>1. /\ Len(ops'[c]) = Len(ops[c]) + 1
      /\ answers'[c] = Append(answers[c], 0)
  BY SendKeeps
<1>2. server' = server
  BY DEF Send
<1>3. /\ answers[c] \in Seq(Nat) /\ Len(answers[c]) = Len(ops[c]) /\ Len(ops[c]) \in Nat
      /\ server[c].n \in Nat /\ Len(up[c]) \in Nat
  BY LenProperties DEF Sound, TypeOK, Shape, Server
<1>4. server[c].n + Len(up[c]) <= Len(ops[c])
  BY DEF Sound, InTurn
<1>5. server[c].n <= Len(ops[c])
  BY ONLY <1>3, <1>4
<1>6. /\ \A n \in 1 .. Len(ops[c]) : answers'[c][n] = answers[c][n]
      /\ answers'[c][Len(ops[c]) + 1] = 0
  BY <1>1, <1>3
<1>7. ASSUME NEW n \in 1 .. Len(ops'[c])
      PROVE  /\ n < server[c].n => answers'[c][n] = 1
             /\ n > server[c].n => answers'[c][n] = 0
             /\ n = server[c].n =>
                  /\ Busy(c) => answers'[c][n] = 0
                  /\ ~ Busy(c) /\ server[c].phase # "ended" => answers'[c][n] = 1
                  /\ answers'[c][n] <= 1
  <2>1. n \in 1 .. Len(ops[c]) \/ n = Len(ops[c]) + 1
    BY <1>1, <1>3
  <2>2. CASE n \in 1 .. Len(ops[c])
    BY <1>6, <2>2 DEF LedgerAt
  <2>3. CASE n = Len(ops[c]) + 1
    BY <1>3, <1>5, <1>6, <2>3
  <2>4. QED
    BY <2>1, <2>2, <2>3
<1>8. Busy(c)' <=> Busy(c)
  BY <1>2 DEF Busy
<1>9. QED
  BY <1>2, <1>7, <1>8 DEF LedgerAt

LEMMA ReadLedger ==
  ASSUME Sound, NEW c \in Conns, LedgerAt(c), Read(c)
  PROVE  LedgerAt(c)'
<1> DEFINE n0 == Head(up[c]).n
<1>1. up[c] # <<>> /\ TypeOK
  BY DEF Read, Sound
<1>2. /\ n0 = server[c].n + 1 /\ server[c].n \in Nat /\ n0 \in 1 .. Len(ops[c])
      /\ server[c].phase = "reading" /\ ops' = ops
  BY <1>1, HeadOfUp, ReadDoes
<1>3. PICK phase \in {"reading", "lookup", "plain", "stream", "ended"} :
        /\ server' = [server EXCEPT ![c] = Entered(c, phase)]
        /\ phase = "reading" =>
             \E f \in Frame : f.n = n0 /\ f.final /\ Write(c, f)
        /\ phase # "reading" => Silent
  BY ReadDoes
<1>4. /\ server'[c].n = n0 /\ server'[c].phase = phase /\ ~ server'[c].terminal
  BY <1>1, <1>3 DEF Entered, TypeOK
<1>5. Len(answers[c]) = Len(ops[c])
  BY DEF Sound, Shape
<1> HIDE DEF n0
<1>6. /\ answers[c][n0] = 0
      /\ \A n \in 1 .. Len(ops[c]) : (n < n0 => answers[c][n] = 1) /\ (n > n0 => answers[c][n] = 0)
  <2>1. ~ Busy(c)
    BY <1>2 DEF Busy
  <2>2. QED
    BY <1>2, <2>1 DEF LedgerAt
<1>7. CASE phase = "reading"
  <2>1. PICK f \in Frame : f.n = n0 /\ f.final /\ Write(c, f)
    BY <1>3, <1>7
  <2>2. /\ answers'[c][n0] = 1
        /\ \A n \in 1 .. Len(answers[c]) : n # n0 => answers'[c][n] = answers[c][n]
    <3>1. f.n \in 1 .. Len(answers[c])
      BY <1>2, <1>5, <2>1
    <3>2. /\ answers'[c][f.n] = IF f.final THEN answers[c][f.n] + 1 ELSE answers[c][f.n]
          /\ \A n \in 1 .. Len(answers[c]) : n # f.n => answers'[c][n] = answers[c][n]
      BY <1>1, <2>1, <3>1, WriteKeeps
    <3>3. QED
      BY <1>6, <2>1, <3>2
  <2>3. ~ Busy(c)'
    BY <1>4, <1>7 DEF Busy
  <2>4. ASSUME NEW n \in 1 .. Len(ops[c])
        PROVE  /\ n < n0 => answers'[c][n] = 1
               /\ n > n0 => answers'[c][n] = 0
               /\ n = n0 => answers'[c][n] = 1
    <3>1. CASE n = n0
      <4>1. ~ n < n0 /\ ~ n > n0
        BY <3>1
      <4>2. answers'[c][n] = 1
        BY <2>2, <3>1
      <4>3. QED
        BY <4>1, <4>2
    <3>2. CASE n # n0
      <4>1. answers'[c][n] = answers[c][n]
        BY <1>5, <2>2, <3>2
      <4>2. QED
        BY <1>6, <3>2, <4>1
    <3>3. QED
      BY <3>1, <3>2
  <2>5. ASSUME NEW n \in 1 .. Len(ops[c])
        PROVE  /\ n < server'[c].n => answers'[c][n] = 1
               /\ n > server'[c].n => answers'[c][n] = 0
               /\ n = server'[c].n =>
                    /\ Busy(c)' => answers'[c][n] = 0
                    /\ ~ Busy(c)' /\ server'[c].phase # "ended" => answers'[c][n] = 1
                    /\ answers'[c][n] <= 1
    BY <1>4, <2>3, <2>4
  <2>6. QED
    BY <1>2, <2>5 DEF LedgerAt
<1>8. CASE phase # "reading"
  <2>1. answers' = answers
    BY <1>3, <1>8 DEF Silent
  <2>2. Busy(c)' \/ server'[c].phase = "ended"
    BY <1>4, <1>8 DEF Busy
  <2>3. ASSUME Busy(c)' PROVE server'[c].phase # "ended"
    BY <2>3 DEF Busy
  <2>4. ASSUME NEW n \in 1 .. Len(ops[c])
        PROVE  /\ n < server'[c].n => answers'[c][n] = 1
               /\ n > server'[c].n => answers'[c][n] = 0
               /\ n = server'[c].n =>
                    /\ Busy(c)' => answers'[c][n] = 0
                    /\ ~ Busy(c)' /\ server'[c].phase # "ended" => answers'[c][n] = 1
                    /\ answers'[c][n] <= 1
    <3>1. answers'[c][n] = answers[c][n]
      BY <2>1
    <3>2. /\ n < n0 => answers[c][n] = 1
          /\ n > n0 => answers[c][n] = 0
          /\ n = n0 => answers[c][n] = 0
      <4>1. n = n0 => answers[c][n] = 0
        BY <1>6
      <4>2. (n < n0 => answers[c][n] = 1) /\ (n > n0 => answers[c][n] = 0)
        BY <1>6
      <4>3. QED
        BY <4>1, <4>2
    <3>3. QED
      BY <1>4, <2>2, <3>1, <3>2
  <2>5. QED
    BY <1>2, <2>4 DEF LedgerAt
<1>9. QED
  BY <1>7, <1>8

LEMMA StepLedger == Sound /\ Ledger /\ [Next]_vars => Ledger'
<1> SUFFICES ASSUME Sound, Ledger, [Next]_vars, NEW d \in Conns
             PROVE  LedgerAt(d)'
  BY DEF Ledger
<1>1. LedgerAt(d) /\ TypeOK
  BY DEF Ledger, Sound
<1>2. CASE UNCHANGED <<ops, server, answers>>
  BY <1>1, <1>2, LedgerKept
<1>3. CASE UNCHANGED vars
  BY <1>2, <1>3 DEF vars, histories
<1>4. ASSUME NEW c \in Conns, Disconnect(c) \/ SeeClose(c) \/ TakeReply(c)
                               \/ TakeEvent(c) \/ ReadFails(c)
      PROVE  LedgerAt(d)'
  <2>1. UNCHANGED <<ops, server, answers>>
    BY <1>4 DEF Disconnect, SeeClose, TakeReply, TakeEvent, ReadFails, histories
  <2>2. QED
    BY <1>2, <2>1
<1>5. ASSUME NEW c \in Conns, NEW kind \in Kinds, Send(c, kind) PROVE LedgerAt(d)'
  <2>1. CASE d = c
    BY <1>1, <1>5, <2>1, SendLedger
  <2>2. CASE d # c
    <3>1. ops'[d] = ops[d] /\ answers'[d] = answers[d] /\ server'[d] = server[d]
      BY <1>5, <2>2, SendKeeps DEF Send
    <3>2. QED
      BY <1>1, <3>1, LedgerKept
  <2>3. QED
    BY <2>1, <2>2
<1>6. ASSUME NEW c \in Conns, Request(c) \/ Close(c) PROVE LedgerAt(d)'
  <2>1. \E kind \in Kinds : Send(c, kind)
    BY <1>6, SessionAssumption DEF Request, Close, Kinds
  <2>2. QED
    BY <1>5, <2>1
<1>7. ASSUME NEW c \in Conns, Read(c) PROVE LedgerAt(d)'
  <2>1. CASE d = c
    BY <1>1, <1>7, <2>1, ReadLedger
  <2>2. CASE d # c
    <3>1. up[c] # <<>>
      BY <1>7 DEF Read
    <3>2. Head(up[c]).n \in 1 .. Len(answers[c])
      BY <3>1, HeadOfUp DEF Sound, Shape
    <3>3. PICK phase \in {"reading", "lookup", "plain", "stream", "ended"} :
            /\ server' = [server EXCEPT ![c] = Entered(c, phase)]
            /\ Silent \/ \E f \in Frame : f.n = Head(up[c]).n /\ Write(c, f)
      BY <1>7, ReadDoes
    <3>4. answers'[d] = answers[d]
      BY <1>1, <2>2, <3>2, <3>3, WriteKeeps DEF Silent
    <3>5. server'[d] = server[d] /\ ops'[d] = ops[d]
      BY <1>1, <1>7, <2>2, <3>3, ReadDoes DEF TypeOK
    <3>6. QED
      BY <1>1, <3>4, <3>5, LedgerKept
  <2>3. QED
    BY <2>1, <2>2
<1>8. ASSUME NEW c \in Conns, NEW f \in Frame, Busy(c), f.n = server[c].n, Write(c, f),
             NEW s, server' = [server EXCEPT ![c] = s], s.n = server[c].n, ops' = ops,
             f.final => s.phase = "reading" \/ (s.phase = "stream" /\ s.terminal),
             ~ f.final => s.phase = "stream" /\ ~ s.terminal
      PROVE  LedgerAt(d)'
  <2>1. server[c].n \in 1 .. Len(answers[c])
    BY <1>8, ServesCurrent DEF Busy
  <2>2. server'[c] = s /\ \A e \in Conns : e # c => server'[e] = server[e]
    BY <1>1, <1>8 DEF TypeOK
  <2>3. CASE d # c
    <3>1. answers'[d] = answers[d] /\ server'[d] = server[d] /\ ops'[d] = ops[d]
      BY <1>1, <1>8, <2>1, <2>2, <2>3, WriteKeeps
    <3>2. QED
      BY <1>1, <3>1, LedgerKept
  <2>4. CASE d = c /\ f.final
    <3>1. ~ Busy(c)'
      BY <1>8, <2>2, <2>4 DEF Busy
    <3>2. QED
      BY <1>1, <1>8, <2>2, <2>4, <3>1, FinalWritten
  <2>5. CASE d = c /\ ~ f.final
    <3>1. answers' = answers
      <4>1. answers' = [answers EXCEPT ![c][f.n] = answers[c][f.n]]
        BY <1>8, <2>5 DEF Write
      <4>2. answers \in [Conns -> Seq(Nat)] /\ answers[c] \in Seq(Nat)
        BY <1>1 DEF TypeOK
      <4>3. [answers[c] EXCEPT ![f.n] = answers[c][f.n]] = answers[c]
        BY <1>8, <2>1, <4>2
      <4>4. QED
        BY <4>1, <4>2, <4>3
    <3>2. Busy(c)' /\ server'[c].phase # "ended" /\ server'[c].n = server[c].n
      BY <1>8, <2>2, <2>5 DEF Busy
    <3>3. QED
      BY <1>1, <1>8, <2>5, <3>1, <3>2 DEF LedgerAt
  <2>6. QED
    BY <2>3, <2>4, <2>5
<1>9. ASSUME NEW c \in Conns, LookupEnds(c) \/ HandlerEnds(c) PROVE LedgerAt(d)'
  <2> DEFINE s == [server[c] EXCEPT !.phase = "reading"]
  <2>1. /\ Busy(c) /\ server' = [server EXCEPT ![c] = s] /\ ops' = ops
        /\ Write(c, Reply("RESPONSE", server[c].n))
    BY <1>9 DEF LookupEnds, HandlerEnds, Become, Busy
  <2>2. server[c].n \in Nat /\ server[c] \in Server
    BY <1>1 DEF TypeOK, Server
  <2>3. s.n = server[c].n /\ s.phase = "reading"
    BY <2>2 DEF Server
  <2>4. /\ Reply("RESPONSE", server[c].n) \in Frame
        /\ Reply("RESPONSE", server[c].n).n = server[c].n
        /\ Reply("RESPONSE", server[c].n).final
    BY <2>2 DEF Reply, Frame
  <2> HIDE DEF s
  <2>5. QED
    BY <1>8, <2>1, <2>3, <2>4
<1>10. ASSUME NEW c \in Conns, StreamYields(c) PROVE LedgerAt(d)'
  <2>1. PICK final \in BOOLEAN :
          /\ Write(c, Event(server[c].n, server[c].sent, final))
          /\ server' = [server EXCEPT ![c].sent = @ + 1, ![c].terminal = final]
    BY <1>10 DEF StreamYields
  <2> DEFINE s == [server[c] EXCEPT !.sent = server[c].sent + 1, !.terminal = final]
  <2>2. /\ Busy(c) /\ server' = [server EXCEPT ![c] = s] /\ ops' = ops
        /\ server[c].phase = "stream"
    BY <1>10, <2>1 DEF StreamYields, Busy
  <2>3. server[c].n \in Nat /\ server[c].sent \in Nat /\ server[c] \in Server
    BY <1>1 DEF TypeOK, Server
  <2>4. s.n = server[c].n /\ s.phase = "stream" /\ s.terminal = final
    BY <2>2, <2>3 DEF Server
  <2>5. /\ Event(server[c].n, server[c].sent, final) \in Frame
        /\ Event(server[c].n, server[c].sent, final).n = server[c].n
        /\ Event(server[c].n, server[c].sent, final).final = final
    BY <2>3 DEF Event, Frame
  <2> HIDE DEF s
  <2>6. QED
    BY <1>8, <2>1, <2>2, <2>4, <2>5
<1>11. ASSUME NEW c \in Conns, StreamEnds(c) PROVE LedgerAt(d)'
  <2> DEFINE s == [server[c] EXCEPT !.phase = "reading"]
  <2>1. /\ server' = [server EXCEPT ![c] = s] /\ ops' = ops
        /\ server[c].phase = "stream"
    BY <1>11 DEF StreamEnds, Become
  <2>2. server[c].n \in Nat /\ server[c].sent \in Nat /\ server[c] \in Server
    BY <1>1 DEF TypeOK, Server
  <2>3. s.n = server[c].n /\ s.phase = "reading"
    BY <2>2 DEF Server
  <2>4. /\ Event(server[c].n, server[c].sent, TRUE) \in Frame
        /\ Event(server[c].n, server[c].sent, TRUE).n = server[c].n
        /\ Event(server[c].n, server[c].sent, TRUE).final
    BY <2>2 DEF Event, Frame
  <2> HIDE DEF s
  <2>5. CASE ~ server[c].terminal
    <3>1. Busy(c) /\ Write(c, Event(server[c].n, server[c].sent, TRUE))
      BY <1>11, <2>5 DEF StreamEnds, Busy
    <3>2. QED
      BY <1>8, <2>1, <2>3, <2>4, <3>1
  <2>6. CASE server[c].terminal
    <3>1. answers' = answers
      BY <1>11, <2>6 DEF StreamEnds, Silent
    <3>2. server'[c] = s /\ \A e \in Conns : e # c => server'[e] = server[e]
      BY <1>1, <2>1 DEF TypeOK
    <3>3. CASE d = c
      <4>1. ~ Busy(c) /\ ~ Busy(c)' /\ server[c].phase # "ended"
        BY <2>1, <2>3, <2>6, <3>2 DEF Busy
      <4>2. QED
        BY <1>1, <2>1, <2>3, <3>1, <3>2, <3>3, <4>1 DEF LedgerAt
    <3>4. CASE d # c
      BY <1>1, <2>1, <3>1, <3>2, <3>4, LedgerKept
    <3>5. QED
      BY <3>3, <3>4
  <2>7. QED
    BY <2>5, <2>6
<1>12. ASSUME NEW c \in Conns, ReadEnd(c) PROVE LedgerAt(d)'
  <2>1. /\ server' = [server EXCEPT ![c].phase = "ended"]
        /\ ops' = ops /\ answers' = answers
    BY <1>12 DEF ReadEnd, Become, histories
  <2>2. /\ server'[c].n = server[c].n /\ server'[c].phase = "ended"
        /\ \A e \in Conns : e # c => server'[e] = server[e]
    BY <1>1, <2>1 DEF TypeOK, Server
  <2>3. CASE d = c
    <3>1. ~ Busy(c)'
      BY <2>2 DEF Busy
    <3>2. QED
      BY <1>1, <2>1, <2>2, <2>3, <3>1 DEF LedgerAt
  <2>4. CASE d # c
    BY <1>1, <2>1, <2>2, <2>4, LedgerKept
  <2>5. QED
    BY <2>3, <2>4
<1>13. QED
  BY <1>3, <1>4, <1>6, <1>7, <1>9, <1>10, <1>11, <1>12 DEF Next

(* Every operation the server has read past was answered by exactly one    *)
(* final frame, however its handler ended.                                 *)
THEOREM AnsweredExactlyOnce == Spec => []AnsweredOnce
<1>1. Init => Ledger
  BY DEF Init, Ledger, LedgerAt
<1>2. Sound /\ Ledger => AnsweredOnce
  <2> SUFFICES ASSUME Sound, Ledger, NEW c \in Conns, NEW n \in 1 .. Len(ops[c])
               PROVE  /\ answers[c][n] <= 1
                      /\ n < server[c].n \/ (n = server[c].n /\ server[c].phase = "reading")
                         => answers[c][n] = 1
    BY DEF AnsweredOnce
  <2>1. LedgerAt(c) /\ server[c].n \in Nat
    BY DEF Ledger, Sound, TypeOK, Server
  <2>2. server[c].phase = "reading" => ~ Busy(c)
    BY DEF Busy
  <2>3. n < server[c].n \/ n > server[c].n \/ n = server[c].n
    BY <2>1
  <2>4. QED
    BY <2>1, <2>2, <2>3 DEF LedgerAt
<1>3. QED
  BY <1>1, <1>2, InitSound, StepSound, StepLedger, PTL DEF Spec

-----------------------------------------------------------------------------
(* Answers reach their operation.                                          *)

LEMMA StepStreamsAsked ==
  Sound /\ StreamsAsked /\ [Next]_vars => StreamsAsked'
<1> SUFFICES ASSUME Sound, StreamsAsked, [Next]_vars, NEW d \in Conns,
                    server'[d].phase = "stream"
             PROVE  ops'[d][server'[d].n] = "STREAM"
  BY DEF StreamsAsked
<1>1. TypeOK
  BY DEF Sound
<1>2. CASE /\ server'[d].n = server[d].n /\ server[d].phase = "stream"
           /\ \A k \in 1 .. Len(ops[d]) : ops'[d][k] = ops[d][k]
  <2>1. ops[d][server[d].n] = "STREAM" /\ server[d].n \in 1 .. Len(answers[d])
    BY <1>2, ServesCurrent DEF StreamsAsked
  <2>2. Len(answers[d]) = Len(ops[d])
    BY DEF Sound, Shape
  <2>3. QED
    BY <1>2, <2>1, <2>2
<1>3. CASE UNCHANGED <<ops, server>>
  BY <1>2, <1>3
<1>4. CASE UNCHANGED vars
  BY <1>3, <1>4 DEF vars
<1>5. ASSUME NEW c \in Conns, Disconnect(c) \/ SeeClose(c) \/ TakeReply(c)
                               \/ TakeEvent(c) \/ ReadFails(c)
      PROVE  ops'[d][server'[d].n] = "STREAM"
  BY <1>3, <1>5 DEF Disconnect, SeeClose, TakeReply, TakeEvent, ReadFails
<1>6. ASSUME NEW c \in Conns, Request(c) \/ Close(c)
      PROVE  ops'[d][server'[d].n] = "STREAM"
  <2>1. PICK kind \in Kinds : Send(c, kind)
    BY <1>6, SessionAssumption DEF Request, Close, Kinds
  <2>2. server' = server
    BY <2>1 DEF Send
  <2>3. \A k \in 1 .. Len(ops[d]) : ops'[d][k] = ops[d][k]
    BY <2>1, SendKeeps
  <2>4. QED
    BY <1>2, <2>2, <2>3
<1>7. ASSUME NEW c \in Conns, Read(c) PROVE ops'[d][server'[d].n] = "STREAM"
  <2>1. PICK phase \in {"reading", "lookup", "plain", "stream", "ended"} :
          /\ server' = [server EXCEPT ![c] = Entered(c, phase)]
          /\ phase = "stream" => Head(up[c]).kind = "STREAM"
    BY <1>7, ReadDoes
  <2>2. ops' = ops /\ up[c] # <<>>
    BY <1>7, ReadDoes DEF Read
  <2>3. CASE d = c
    <3>1. phase = "stream" /\ server'[c].n = Head(up[c]).n
      BY <1>1, <2>1, <2>3 DEF Entered, TypeOK
    <3>2. Head(up[c]).kind = ops[c][Head(up[c]).n]
      BY <2>2, HeadOfUp
    <3>3. QED
      BY <2>1, <2>2, <2>3, <3>1, <3>2
  <2>4. CASE d # c
    BY <1>1, <1>2, <2>1, <2>2, <2>4 DEF TypeOK
  <2>5. QED
    BY <2>3, <2>4
<1>8. ASSUME NEW c \in Conns, LookupEnds(c) \/ HandlerEnds(c) \/ StreamEnds(c) \/ ReadEnd(c)
      PROVE  ops'[d][server'[d].n] = "STREAM"
  <2>1. PICK phase \in {"reading", "ended"} : server' = [server EXCEPT ![c].phase = phase]
    BY <1>8 DEF LookupEnds, HandlerEnds, StreamEnds, ReadEnd, Become
  <2>2. ops' = ops
    BY <1>8 DEF LookupEnds, HandlerEnds, StreamEnds, ReadEnd
  <2>3. d # c /\ server'[d] = server[d]
    BY <1>1, <2>1 DEF TypeOK, Server
  <2>4. QED
    BY <1>2, <2>2, <2>3
<1>9. ASSUME NEW c \in Conns, StreamYields(c) PROVE ops'[d][server'[d].n] = "STREAM"
  <2>1. PICK final \in BOOLEAN :
          server' = [server EXCEPT ![c].sent = @ + 1, ![c].terminal = final]
    BY <1>9 DEF StreamYields
  <2>2. server'[d].phase = server[d].phase /\ server'[d].n = server[d].n
    BY <1>1, <2>1 DEF TypeOK, Server
  <2>3. ops' = ops
    BY <1>9 DEF StreamYields
  <2>4. QED
    BY <1>2, <2>2, <2>3
<1>10. QED
  BY <1>4, <1>5, <1>6, <1>7, <1>8, <1>9 DEF Next

(* What has gone quiet.  Frames on their way down mean that the server has *)
(* read every operation issued.                                            *)
LEMMA QuietTypes ==
  ASSUME Sound, NEW c \in Conns
  PROVE  /\ Current(c) \in Nat /\ Current(c) = Len(ops[c])
         /\ server[c].n \in Nat /\ Len(up[c]) \in Nat
         /\ server[c].n + Len(up[c]) <= Current(c)
         /\ down[c] \in Seq(Frame) /\ Len(down[c]) \in Nat
         /\ taken[c] \in Seq(Seq(Frame)) /\ Len(taken[c]) = Len(ops[c])
         /\ client[c] \in Client
         /\ server[c].n = Current(c) => Len(up[c]) = 0
<1>1. /\ ops[c] \in Seq(Kinds) /\ server[c] \in Server
      /\ up[c] \in Seq([kind : Kinds, n : Nat])
      /\ down[c] \in Seq(Frame)
      /\ taken[c] \in Seq(Seq(Frame)) /\ Len(taken[c]) = Len(ops[c])
      /\ client[c] \in Client
  BY DEF Sound, TypeOK, Shape
<1>2. /\ Current(c) \in Nat /\ server[c].n \in Nat /\ Len(up[c]) \in Nat
      /\ Current(c) = Len(ops[c]) /\ Len(down[c]) \in Nat
  BY <1>1, LenProperties DEF Current, Server
<1>3. server[c].n + Len(up[c]) <= Current(c)
  BY DEF Sound, InTurn, Current
<1>4. ASSUME server[c].n = Current(c) PROVE Len(up[c]) = 0
  <2>1. server[c].n + Len(up[c]) <= server[c].n
    BY <1>3, <1>4
  <2>2. QED
    BY <1>2, <2>1, NoRoom
<1>5. QED
  BY <1>1, <1>2, <1>3, <1>4

LEMMA QuietKept ==
  ASSUME NEW c \in Conns, QuietAt(c), ops'[c] = ops[c], client'[c] = client[c],
         server'[c] = server[c], up'[c] = up[c], down'[c] = down[c], taken'[c] = taken[c]
  PROVE  QuietAt(c)'
  BY DEF QuietAt, Busy, Current, Kind

LEMMA SendQuiet ==
  ASSUME Sound, NEW c \in Conns, QuietAt(c), NEW kind \in Kinds, Send(c, kind),
         client'[c].pending \/ (kind = "CLOSE" /\ client'[c].pending = client[c].pending)
  PROVE  QuietAt(c)'
<1>1. /\ ~ client[c].pending /\ server' = server /\ down' = down
      /\ up' = [up EXCEPT ![c] =
                  IF client[c].open
                  THEN Append(@, [kind |-> kind, n |-> Len(ops[c]) + 1])
                  ELSE @]
  BY DEF Send
<1>2. down[c] = <<>> /\ ~ Busy(c) /\ ~ Busy(c)'
  BY <1>1 DEF QuietAt, Busy
<1>3. /\ Len(ops'[c]) = Len(ops[c]) + 1 /\ taken'[c] = Append(taken[c], <<>>)
  BY SendKeeps
<1>4. /\ taken[c] \in Seq(Seq(Frame)) /\ Len(taken[c]) = Len(ops[c]) /\ Len(ops[c]) \in Nat
      /\ up[c] \in Seq([kind : Kinds, n : Nat]) /\ Len(up[c]) \in Nat
  BY LenProperties DEF Sound, TypeOK, Shape
<1>5. \A k \in 1 .. Len(up[c]) : up[c][k].kind = "CLOSE"
  BY <1>1 DEF QuietAt
<1>6. Len(down'[c]) = 0 /\ down'[c] = <<>>
  BY <1>1, <1>2
<1>7. ASSUME NEW k \in 1 .. Len(up'[c]), up'[c][k].kind # "CLOSE"
      PROVE  client'[c].pending /\ up'[c][k].n = Len(ops[c]) + 1
  <2> DEFINE frame == [kind |-> kind, n |-> Len(ops[c]) + 1]
  <2>1. up'[c] = IF client[c].open THEN Append(up[c], frame) ELSE up[c]
    BY <1>1 DEF Sound, TypeOK
  <2>2. k \in 1 .. Len(up[c]) => up'[c][k] = up[c][k]
    BY <1>4, <2>1
  <2>3. k \notin 1 .. Len(up[c])
    BY <1>5, <1>7, <2>2
  <2>4. client[c].open /\ k = Len(up[c]) + 1
    BY <1>4, <2>1, <2>3
  <2>5. up'[c][k] = frame
    BY <1>4, <2>1, <2>4
  <2>6. QED
    BY <1>7, <2>5
<1>8. ASSUME NEW n \in 1 .. Len(ops'[c]), NEW i \in 1 .. Len(taken'[c][n])
      PROVE  taken'[c][n][i].n = n
  <2>1. CASE n \in 1 .. Len(ops[c])
    <3>1. taken'[c][n] = taken[c][n]
      BY <1>3, <1>4, <2>1
    <3>2. QED
      BY <2>1, <3>1 DEF QuietAt
  <2>2. CASE n \notin 1 .. Len(ops[c])
    <3>1. n = Len(ops[c]) + 1
      BY <1>3, <1>4, <2>2
    <3>2. taken'[c][n] = <<>>
      BY <1>3, <1>4, <3>1
    <3>3. QED
      BY <3>2
  <2>3. QED
    BY <2>1, <2>2
<1>9. Current(c)' = Len(ops[c]) + 1
  BY <1>3 DEF Current
<1>10. QED
  BY <1>2, <1>6, <1>7, <1>8, <1>9 DEF QuietAt

(* The queues of a destroyed socket are shorter, and still quiet.          *)
LEMMA DestroyQuiet ==
  ASSUME Sound, NEW c \in Conns, QuietAt(c), Destroy(c, down[c]),
         UNCHANGED <<ops, server, taken>>, client'[c].pending = client[c].pending
  PROVE  QuietAt(c)'
<1>1. /\ down[c] \in Seq(Frame) /\ Len(down[c]) \in Nat /\ TypeOK
      /\ Len(up[c]) \in Nat
  BY QuietTypes DEF Sound
<1>2. /\ down' \in [Conns -> Seq(Frame)]
      /\ up' \in [Conns -> Seq([kind : Kinds, n : Nat])]
      /\ Len(up'[c]) <= Len(up[c]) /\ Len(down'[c]) <= Len(down[c])
      /\ \A k \in 1 .. Len(up'[c]) : up'[c][k] = up[c][k]
      /\ \A k \in 1 .. Len(down'[c]) : down'[c][k] = down[c][k]
  BY <1>1, DestroyKeeps
<1>3. Len(up'[c]) \in Nat /\ Len(down'[c]) \in Nat
  BY <1>2, LenProperties
<1>4. /\ Busy(c)' <=> Busy(c)
      /\ Current(c)' = Current(c) /\ Kind(c)' = Kind(c)
  BY DEF Busy, Current, Kind
<1>5. ASSUME NEW k \in 1 .. Len(down'[c])
      PROVE  /\ down'[c][k].n = Current(c)
             /\ down'[c][k].final => k = Len(down'[c]) /\ ~ Busy(c)
             /\ ~ down'[c][k].final => Kind(c) = "STREAM"
  <2>1. k \in 1 .. Len(down[c]) /\ down'[c][k] = down[c][k]
    BY <1>1, <1>2, <1>3
  <2>2. k = Len(down[c]) => k = Len(down'[c])
    BY <1>1, <1>2, <1>3
  <2>3. QED
    BY <2>1, <2>2 DEF QuietAt
<1>6. down'[c] # <<>> => down[c] # <<>>
  <2>1. ASSUME down[c] = <<>> PROVE down'[c] = <<>>
    <3>1. Len(down'[c]) = 0
      BY <1>2, <1>3, <2>1
    <3>2. QED
      BY <1>2, <3>1, EmptySeq
  <2>2. QED
    BY <2>1
<1>7. ASSUME NEW k \in 1 .. Len(up'[c]), up'[c][k].kind # "CLOSE"
      PROVE  client[c].pending /\ up'[c][k].n = Current(c)
  <2>1. k \in 1 .. Len(up[c]) /\ up'[c][k] = up[c][k]
    BY <1>1, <1>2, <1>3
  <2>2. QED
    BY <1>7, <2>1 DEF QuietAt
<1>8. QED
  BY <1>4, <1>5, <1>6, <1>7 DEF QuietAt

(* A frame taken is the operation's own; the final one is the last.        *)
LEMMA TakeQuiet ==
  ASSUME Sound, NEW c \in Conns, QuietAt(c), client[c].pending, down[c] # <<>>,
         Take(c, Head(down[c])), down' = [down EXCEPT ![c] = Tail(down[c])],
         UNCHANGED <<ops, server, up>>,
         client'[c].pending = ~ Head(down[c]).final
  PROVE  QuietAt(c)'
<1> DEFINE f == Head(down[c])
<1>1. /\ Current(c) \in Nat /\ Current(c) = Len(ops[c]) /\ down[c] \in Seq(Frame)
      /\ taken[c] \in Seq(Seq(Frame)) /\ Len(taken[c]) = Len(ops[c])
      /\ server[c].n = Current(c) /\ Len(up[c]) = 0
  BY QuietTypes DEF QuietAt
<1>2. Len(down[c]) \in Nat \ {0}
  BY <1>1, EmptySeq
<1>3. f = down[c][1] /\ f \in Frame /\ f.final \in BOOLEAN
  BY <1>1, <1>2, HeadOfDown
<1>4. /\ f.n = Current(c)
      /\ f.final => Len(down[c]) = 1 /\ ~ Busy(c)
      /\ ~ f.final => Kind(c) = "STREAM"
  <2>1. 1 \in 1 .. Len(down[c])
    BY <1>2
  <2>2. QED
    BY <1>3, <2>1 DEF QuietAt
<1>5. /\ Tail(down[c]) \in Seq(Frame)
      /\ Len(Tail(down[c])) = Len(down[c]) - 1
      /\ \A k \in 1 .. Len(Tail(down[c])) : Tail(down[c])[k] = down[c][k + 1]
  BY <1>1, HeadTailProperties
<1>6. down'[c] = Tail(down[c])
  BY DEF Sound, TypeOK
<1>7. /\ Busy(c)' <=> Busy(c)
      /\ Current(c)' = Current(c) /\ Kind(c)' = Kind(c)
  BY DEF Busy, Current, Kind
<1>8. ASSUME NEW k \in 1 .. Len(down'[c])
      PROVE  /\ down'[c][k].n = Current(c)
             /\ down'[c][k].final => k = Len(down'[c]) /\ ~ Busy(c)
             /\ ~ down'[c][k].final => Kind(c) = "STREAM"
  <2> DEFINE l == Len(down[c])
             m == Len(down'[c])
  <2>0. /\ l \in Nat \ {0} /\ m = l - 1 /\ k \in 1 .. m
        /\ down'[c][k] = down[c][k + 1]
    BY <1>2, <1>5, <1>6
  <2> HIDE DEF l, m
  <2>1. k + 1 \in 1 .. l /\ (k + 1 = l => k = m)
    BY <2>0
  <2>2. QED
    BY <2>0, <2>1 DEF QuietAt, l, m
<1>9. down'[c] # <<>> => ~ f.final
  <2>1. ASSUME f.final PROVE down'[c] = <<>>
    <3>1. Len(Tail(down[c])) = 0
      BY <1>4, <1>5, <2>1
    <3>2. QED
      BY <1>5, <1>6, <3>1, EmptySeq
  <2>2. QED
    BY <2>1
<1>10. ASSUME NEW n \in 1 .. Len(ops[c]), NEW i \in 1 .. Len(taken'[c][n])
       PROVE  taken'[c][n][i].n = n
  <2>1. /\ taken'[c][Current(c)] = Append(taken[c][Current(c)], f)
        /\ \A m \in 1 .. Len(ops[c]) : m # Current(c) => taken'[c][m] = taken[c][m]
        /\ Current(c) \in 1 .. Len(ops[c])
    BY <1>3, TakeKeeps DEF Sound
  <2>2. CASE n # Current(c)
    BY <2>1, <2>2 DEF QuietAt
  <2>3. CASE n = Current(c)
    <3>1. taken[c][n] \in Seq(Frame) /\ Len(taken[c][n]) \in Nat
      BY <1>1, ElementOfSeq, LenProperties
    <3>2. CASE i \in 1 .. Len(taken[c][n])
      <4>1. Append(taken[c][n], f)[i] = taken[c][n][i]
        BY <1>3, <3>1, <3>2, AppendKeeps
      <4>2. taken'[c][n][i] = taken[c][n][i]
        BY <2>1, <2>3, <4>1
      <4>3. QED
        BY <3>2, <4>2 DEF QuietAt
    <3>3. CASE i \notin 1 .. Len(taken[c][n])
      <4>1. i = Len(taken[c][n]) + 1
        BY <2>1, <2>3, <3>1, <3>3
      <4>2. taken'[c][n][i] = f
        BY <2>1, <2>3, <3>1, <4>1
      <4>3. QED
        BY <1>4, <2>3, <4>2
    <3>4. QED
      BY <3>2, <3>3
  <2>4. QED
    BY <2>2, <2>3
<1>11. client'[c].pending = ~ f.final
  OBVIOUS
<1> HIDE DEF f
<1>12. /\ up'[c] = up[c] /\ Len(up'[c]) = 0 /\ server'[c].n = Current(c) /\ ops' = ops
  BY <1>1
<1>13. Busy(c) => ~ f.final
  BY <1>4
<1>14. \A k \in 1 .. Len(up'[c]) :
         up'[c][k].kind # "CLOSE" => client'[c].pending /\ up'[c][k].n = Current(c)
  BY <1>12
<1>15. /\ down'[c] # <<>> => client'[c].pending
       /\ Busy(c) => client'[c].pending
  BY <1>9, <1>11, <1>13
<1>16. \A n \in 1 .. Len(ops'[c]) : \A i \in 1 .. Len(taken'[c][n]) :
         taken'[c][n][i].n = n
  BY <1>10, <1>12
<1>17. \A k \in 1 .. Len(down'[c]) :
         /\ down'[c][k].n = Current(c)
         /\ down'[c][k].final => k = Len(down'[c]) /\ ~ Busy(c)
         /\ ~ down'[c][k].final => Kind(c) = "STREAM"
  BY <1>8
<1>18. QED
  BY <1>7, <1>12, <1>14, <1>15, <1>16, <1>17 DEF QuietAt

(* The server writes for the operation the client waits on.                *)
LEMMA WriteQuiet ==
  ASSUME Sound, NEW c \in Conns, QuietAt(c), NEW f \in Frame, Write(c, f),
         f.n = Current(c), client[c].pending, UNCHANGED <<ops, client, taken>>,
         server'[c].n = Current(c), Len(up'[c]) = 0,
         \A k \in 1 .. Len(down[c]) : ~ down[c][k].final,
         f.final => ~ Busy(c)', ~ f.final => Kind(c) = "STREAM"
  PROVE  QuietAt(c)'
<1>1. /\ Current(c) \in Nat /\ Current(c) = Len(ops[c])
      /\ down[c] \in Seq(Frame) /\ Len(down[c]) \in Nat
  BY QuietTypes
<1>2. TypeOK /\ Len(answers[c]) = Len(ops[c]) /\ Len(ops[c]) # 0
  BY DEF Sound, Shape
<1>3. f.n \in 1 .. Len(answers[c])
  BY <1>1, <1>2
<1>4. \/ down'[c] = down[c]
      \/ /\ Len(down'[c]) = Len(down[c]) + 1
         /\ \A k \in 1 .. Len(down[c]) : down'[c][k] = down[c][k]
         /\ down'[c][Len(down[c]) + 1] = f
  BY <1>2, <1>3, WriteKeeps
<1>5. Current(c)' = Current(c) /\ Kind(c)' = Kind(c) /\ client' = client
  BY DEF Current, Kind
<1>6. ASSUME NEW k \in 1 .. Len(down'[c])
      PROVE  /\ down'[c][k].n = Current(c)
             /\ down'[c][k].final => k = Len(down'[c]) /\ ~ Busy(c)'
             /\ ~ down'[c][k].final => Kind(c) = "STREAM"
  <2>1. CASE k \in 1 .. Len(down[c]) /\ down'[c][k] = down[c][k]
    BY <2>1 DEF QuietAt
  <2>2. CASE k = Len(down'[c]) /\ down'[c][k] = f
    BY <2>2
  <2>3. QED
    BY <1>1, <1>4, <2>1, <2>2
<1>7. \A k \in 1 .. Len(up'[c]) :
        up'[c][k].kind # "CLOSE" => client'[c].pending /\ up'[c][k].n = Current(c)
  OBVIOUS
<1>8. \A n \in 1 .. Len(ops'[c]) : \A i \in 1 .. Len(taken'[c][n]) :
        taken'[c][n][i].n = n
  BY DEF QuietAt
<1>9. QED
  BY <1>5, <1>6, <1>7, <1>8 DEF QuietAt

(* The server writes nothing.                                              *)
LEMMA SilentQuiet ==
  ASSUME Sound, NEW c \in Conns, QuietAt(c), down'[c] = down[c],
         UNCHANGED <<ops, client, taken>>,
         down[c] # <<>> => server'[c].n = Current(c),
         Busy(c)' => client[c].pending /\ server'[c].n = Current(c) /\ down[c] = <<>>,
         \A k \in 1 .. Len(up'[c]) :
           up'[c][k].kind # "CLOSE" => client[c].pending /\ up'[c][k].n = Current(c)
  PROVE  QuietAt(c)'
<1>1. Current(c)' = Current(c) /\ Kind(c)' = Kind(c) /\ client' = client
  BY DEF Current, Kind
<1>2. ASSUME NEW k \in 1 .. Len(down'[c])
      PROVE  /\ down'[c][k].n = Current(c)
             /\ down'[c][k].final => k = Len(down'[c]) /\ ~ Busy(c)'
             /\ ~ down'[c][k].final => Kind(c) = "STREAM"
  <2>1. k \in 1 .. Len(down[c]) /\ down'[c][k] = down[c][k]
    OBVIOUS
  <2>2. down[c] # <<>>
    BY <2>1
  <2>3. QED
    BY <2>1, <2>2 DEF QuietAt
<1>3. down'[c] # <<>> => client'[c].pending /\ server'[c].n = Current(c)
  BY <1>1 DEF QuietAt
<1>4. Busy(c)' => client'[c].pending /\ server'[c].n = Current(c)
  BY <1>1
<1>5. \A n \in 1 .. Len(ops'[c]) : \A i \in 1 .. Len(taken'[c][n]) :
        taken'[c][n][i].n = n
  BY DEF QuietAt
<1>6. QED
  BY <1>1, <1>2, <1>3, <1>4, <1>5 DEF QuietAt

LEMMA ReadQuiet ==
  ASSUME Sound, NEW c \in Conns, QuietAt(c), Read(c)
  PROVE  QuietAt(c)'
<1> DEFINE n0 == Head(up[c]).n
           kind == Head(up[c]).kind
<1>1. /\ up[c] # <<>> /\ TypeOK /\ server[c].phase = "reading"
      /\ UNCHANGED <<ops, client, taken>>
  BY ReadDoes DEF Read, Sound
<1>2. PICK phase \in {"reading", "lookup", "plain", "stream", "ended"} :
        /\ server' = [server EXCEPT ![c] = Entered(c, phase)]
        /\ phase # "ended" => kind # "CLOSE"
        /\ phase = "reading" =>
             \E f \in Frame : f.n = n0 /\ f.final /\ Write(c, f)
        /\ phase # "reading" => Silent
  BY ReadDoes
<1>3. server'[c].n = n0 /\ server'[c].phase = phase
  BY <1>1, <1>2 DEF Entered, TypeOK
<1>4. /\ Tail(up[c]) \in Seq([kind : Kinds, n : Nat])
      /\ Len(Tail(up[c])) = Len(up[c]) - 1
      /\ Len(up[c]) \in Nat \ {0}
      /\ \A k \in 1 .. Len(Tail(up[c])) : Tail(up[c])[k] = up[c][k + 1]
      /\ n0 = server[c].n + 1 /\ server[c].n \in Nat
      /\ up'[c] = Tail(up[c]) /\ Head(up[c]) = up[c][1]
  <2>1. up' = [up EXCEPT ![c] = Tail(up[c])] /\ up[c] \in Seq([kind : Kinds, n : Nat])
    BY <1>1, ReadDoes DEF TypeOK
  <2>2. QED
    BY <1>1, <2>1, HeadOfUp DEF TypeOK
<1>5. /\ Current(c) \in Nat /\ server[c].n + Len(up[c]) <= Current(c)
      /\ server[c].n = Current(c) => Len(up[c]) = 0
  BY QuietTypes
<1>6. down[c] = <<>>
  BY <1>4, <1>5 DEF QuietAt
<1>7. kind # "CLOSE" => client[c].pending /\ n0 = Current(c)
  <2>1. 1 \in 1 .. Len(up[c])
    BY <1>4
  <2>2. QED
    BY <1>4, <2>1 DEF QuietAt
<1>8. ASSUME NEW k \in 1 .. Len(up'[c]), up'[c][k].kind # "CLOSE"
      PROVE  client[c].pending /\ up'[c][k].n = Current(c)
  <2>1. k + 1 \in 1 .. Len(up[c]) /\ up'[c][k] = up[c][k + 1]
    BY <1>4
  <2>2. QED
    BY <1>8, <2>1 DEF QuietAt
<1>9. CASE phase = "reading"
  <2>1. PICK f \in Frame : f.n = n0 /\ f.final /\ Write(c, f)
    BY <1>2, <1>9
  <2>2. client[c].pending /\ n0 = Current(c)
    BY <1>2, <1>7, <1>9
  <2>3. Len(up'[c]) = 0
    <3> DEFINE a == server[c].n
               b == Len(up[c])
    <3>1. a \in Nat /\ b \in Nat \ {0} /\ a + b <= a + 1
      BY <1>4, <1>5, <2>2
    <3>2. Len(up'[c]) = b - 1
      BY <1>4
    <3> HIDE DEF a, b
    <3>3. b - 1 = 0
      BY <3>1
    <3>4. QED
      BY <3>2, <3>3
  <2>4. ~ Busy(c)'
    BY <1>3, <1>9 DEF Busy
  <2>5. \A k \in 1 .. Len(down[c]) : ~ down[c][k].final
    BY <1>6
  <2>6. QED
    BY <1>1, <1>3, <2>1, <2>2, <2>3, <2>4, <2>5, WriteQuiet
<1>10. CASE phase # "reading"
  <2>1. down' = down
    BY <1>2, <1>10 DEF Silent
  <2>2. Busy(c)' => client[c].pending /\ server'[c].n = Current(c)
    BY <1>2, <1>3, <1>7 DEF Busy
  <2>3. QED
    BY <1>1, <1>6, <1>8, <2>1, <2>2, SilentQuiet
<1>11. QED
  BY <1>9, <1>10

(* A server that is executing serves the operation the client waits on.    *)
LEMMA ServesPending ==
  ASSUME Sound, NEW c \in Conns, QuietAt(c), Busy(c)
  PROVE  /\ client[c].pending /\ server[c].n = Current(c) /\ Len(up[c]) = 0
         /\ server[c].n \in Nat /\ server[c].sent \in Nat
         /\ \A k \in 1 .. Len(down[c]) : ~ down[c][k].final
<1>1. client[c].pending /\ server[c].n = Current(c)
  BY DEF QuietAt
<1>2. server[c].n \in Nat /\ server[c].sent \in Nat
  BY ServesCurrent DEF Busy
<1>3. \A k \in 1 .. Len(down[c]) : ~ down[c][k].final
  BY DEF QuietAt
<1>4. QED
  BY <1>1, <1>2, <1>3, QuietTypes

LEMMA ServingQuiet ==
  ASSUME Sound, StreamsAsked, NEW c \in Conns, QuietAt(c),
         LookupEnds(c) \/ HandlerEnds(c) \/ StreamYields(c) \/ StreamEnds(c) \/ ReadEnd(c)
  PROVE  QuietAt(c)'
<1>1. /\ UNCHANGED <<ops, client, up, taken>> /\ TypeOK
  BY DEF LookupEnds, HandlerEnds, StreamYields, StreamEnds, ReadEnd, Sound, wires, histories
<1>2. ASSUME NEW phase \in {"reading", "ended"}, Become(c, phase)
      PROVE  server'[c].n = server[c].n /\ ~ Busy(c)'
  <2>1. server'[c].n = server[c].n /\ server'[c].phase = phase
    BY <1>1, <1>2 DEF Become, TypeOK, Server
  <2>2. QED
    BY <2>1 DEF Busy
<1>3. CASE LookupEnds(c) \/ HandlerEnds(c)
  <2>1. Busy(c) /\ Become(c, "reading") /\ Write(c, Reply("RESPONSE", server[c].n))
    BY <1>3 DEF LookupEnds, HandlerEnds, Busy
  <2>2. /\ Reply("RESPONSE", server[c].n) \in Frame
        /\ Reply("RESPONSE", server[c].n).n = server[c].n
        /\ Reply("RESPONSE", server[c].n).final
    BY <2>1, ServesPending, FramesTyped DEF Reply
  <2>3. QED
    BY <1>1, <1>2, <2>1, <2>2, ServesPending, WriteQuiet
<1>4. CASE StreamYields(c)
  <2>1. PICK final \in BOOLEAN :
          /\ Write(c, Event(server[c].n, server[c].sent, final))
          /\ server' = [server EXCEPT ![c].sent = @ + 1, ![c].terminal = final]
    BY <1>4 DEF StreamYields
  <2>2. Busy(c) /\ server[c].phase = "stream"
    BY <1>4 DEF StreamYields, Busy
  <2>3. /\ Event(server[c].n, server[c].sent, final) \in Frame
        /\ Event(server[c].n, server[c].sent, final).n = server[c].n
        /\ Event(server[c].n, server[c].sent, final).final = final
    BY <2>2, ServesPending, FramesTyped DEF Event
  <2>4. /\ server'[c].n = server[c].n /\ server'[c].phase = "stream"
        /\ server'[c].terminal = final
    BY <1>1, <2>1, <2>2 DEF TypeOK, Server
  <2>5. final => ~ Busy(c)'
    BY <2>4 DEF Busy
  <2>6. Kind(c) = "STREAM"
    BY <2>2, ServesPending DEF StreamsAsked, Kind
  <2>7. QED
    BY <1>1, <2>1, <2>2, <2>3, <2>4, <2>5, <2>6, ServesPending, WriteQuiet
<1>5. CASE StreamEnds(c) /\ ~ server[c].terminal
  <2>1. /\ Busy(c) /\ Become(c, "reading")
        /\ Write(c, Event(server[c].n, server[c].sent, TRUE))
    BY <1>5 DEF StreamEnds, Busy
  <2>2. /\ Event(server[c].n, server[c].sent, TRUE) \in Frame
        /\ Event(server[c].n, server[c].sent, TRUE).n = server[c].n
        /\ Event(server[c].n, server[c].sent, TRUE).final
    BY <2>1, ServesPending, FramesTyped DEF Event
  <2>3. QED
    BY <1>1, <1>2, <2>1, <2>2, ServesPending, WriteQuiet
<1>6. CASE ReadEnd(c) \/ (StreamEnds(c) /\ server[c].terminal)
  <2>1. PICK phase \in {"reading", "ended"} : Become(c, phase)
    BY <1>6 DEF ReadEnd, StreamEnds
  <2>2. down' = down
    BY <1>6 DEF ReadEnd, StreamEnds, Silent, wires
  <2>3. \A k \in 1 .. Len(up'[c]) :
          up'[c][k].kind # "CLOSE" => client[c].pending /\ up'[c][k].n = Current(c)
    BY <1>1 DEF QuietAt
  <2>4. down[c] # <<>> => server'[c].n = Current(c)
    BY <1>2, <2>1 DEF QuietAt
  <2>5. QED
    BY <1>1, <1>2, <2>1, <2>2, <2>3, <2>4, SilentQuiet
<1>7. QED
  BY <1>3, <1>4, <1>5, <1>6

(* What a step of one connection leaves of another.                        *)
LEMMA OthersStill ==
  ASSUME Sound, NEW c \in Conns, NEW d \in Conns, d # c,
         \/ Request(c) \/ Close(c) \/ Disconnect(c) \/ SeeClose(c)
         \/ TakeReply(c) \/ TakeEvent(c) \/ ReadFails(c)
         \/ Read(c) \/ LookupEnds(c) \/ HandlerEnds(c)
         \/ StreamYields(c) \/ StreamEnds(c) \/ ReadEnd(c)
  PROVE  /\ ops'[d] = ops[d] /\ client'[d] = client[d]
         /\ server'[d] = server[d] /\ up'[d] = up[d]
         /\ down'[d] = down[d] /\ taken'[d] = taken[d]
<1> DEFINE Still == /\ ops'[d] = ops[d] /\ client'[d] = client[d]
                    /\ server'[d] = server[d] /\ up'[d] = up[d]
                    /\ down'[d] = down[d] /\ taken'[d] = taken[d]
<1>1. TypeOK
  BY DEF Sound
<1>2. CASE Request(c) \/ Close(c)
  <2>1. PICK kind \in Kinds : Send(c, kind)
    BY <1>2, SessionAssumption DEF Request, Close, Kinds
  <2>2. client'[d] = client[d]
    BY <1>1, <1>2 DEF Request, Close, TypeOK
  <2>3. Still
    BY <1>1, <2>1, <2>2 DEF Send, TypeOK
  <2>4. QED
    BY <2>3
<1>3. ASSUME NEW unread, Destroy(c, unread) PROVE up'[d] = up[d] /\ down'[d] = down[d]
  BY <1>1, <1>3 DEF Destroy, TypeOK
<1>4. CASE Disconnect(c) \/ SeeClose(c)
  <2>1. up'[d] = up[d] /\ down'[d] = down[d]
    BY <1>3, <1>4 DEF Disconnect, SeeClose
  <2>2. Still
    BY <1>1, <1>4, <2>1 DEF Disconnect, SeeClose, TypeOK, histories
  <2>3. QED
    BY <2>2
<1>5. CASE TakeReply(c)
  BY <1>1, <1>5 DEF TakeReply, Take, TypeOK
<1>6. CASE TakeEvent(c)
  <2>1. up'[d] = up[d] /\ down'[d] = down[d] /\ client'[d] = client[d]
    BY <1>1, <1>3, <1>6 DEF TakeEvent, AbandonStream, TypeOK
  <2>2. Still
    BY <1>1, <1>6, <2>1 DEF TakeEvent, Take, TypeOK
  <2>3. QED
    BY <2>2
<1>7. CASE ReadFails(c)
  <2>1. up'[d] = up[d] /\ down'[d] = down[d] /\ client'[d] = client[d]
    BY <1>1, <1>3, <1>7 DEF ReadFails, AbandonStream, TypeOK, wires
  <2>2. Still
    BY <1>7, <2>1 DEF ReadFails, histories
  <2>3. QED
    BY <2>2
<1>8. ASSUME NEW f, Write(c, f) PROVE down'[d] = down[d]
  BY <1>1, <1>8 DEF Write, TypeOK
<1>9. CASE Read(c)
  <2>1. PICK phase \in {"reading", "lookup", "plain", "stream", "ended"} :
          /\ server' = [server EXCEPT ![c] = Entered(c, phase)]
          /\ Silent \/ \E f \in Frame : Write(c, f)
    BY <1>9, ReadDoes
  <2>2. /\ up' = [up EXCEPT ![c] = Tail(up[c])]
        /\ UNCHANGED <<ops, client, taken, streaming>>
    BY <1>9, ReadDoes
  <2>3. down'[d] = down[d]
    BY <1>8, <2>1 DEF Silent
  <2>4. server'[d] = server[d] /\ up'[d] = up[d]
    BY <1>1, <2>1, <2>2 DEF TypeOK
  <2>5. QED
    BY <2>2, <2>3, <2>4
<1>10. CASE \/ LookupEnds(c) \/ HandlerEnds(c) \/ StreamYields(c)
            \/ StreamEnds(c) \/ ReadEnd(c)
  <2>1. down'[d] = down[d]
    BY <1>8, <1>10
    DEF LookupEnds, HandlerEnds, StreamYields, StreamEnds, ReadEnd, Silent, wires
  <2>2. server'[d] = server[d]
    BY <1>1, <1>10
    DEF LookupEnds, HandlerEnds, StreamYields, StreamEnds, ReadEnd, Become, TypeOK
  <2>3. UNCHANGED <<ops, client, up, taken>>
    BY <1>10
    DEF LookupEnds, HandlerEnds, StreamYields, StreamEnds, ReadEnd, wires, histories
  <2>4. QED
    BY <2>1, <2>2, <2>3
<1>11. QED
  BY <1>2, <1>4, <1>5, <1>6, <1>7, <1>9, <1>10

(* A step of one connection leaves the others alone.                       *)
LEMMA OthersQuiet ==
  ASSUME Sound, NEW c \in Conns, NEW d \in Conns, d # c, QuietAt(d),
         \/ Request(c) \/ Close(c) \/ Disconnect(c) \/ SeeClose(c)
         \/ TakeReply(c) \/ TakeEvent(c) \/ ReadFails(c)
         \/ Read(c) \/ LookupEnds(c) \/ HandlerEnds(c)
         \/ StreamYields(c) \/ StreamEnds(c) \/ ReadEnd(c)
  PROVE  QuietAt(d)'
BY OthersStill, QuietKept

(* A step that ends an operation without its answer says so.               *)
LEMMA FailureShows ==
  ASSUME Sound, NEW c \in Conns, client'[c].unanswered = FALSE,
         TakeReply(c) \/ TakeEvent(c) \/ ReadFails(c)
  PROVE  /\ client[c].unanswered = FALSE /\ client[c].pending /\ down[c] # <<>>
         /\ Take(c, Head(down[c])) /\ down' = [down EXCEPT ![c] = Tail(down[c])]
         /\ UNCHANGED <<ops, server, up>>
         /\ \/ TakeReply(c) /\ Kind(c) # "STREAM" /\ ~ client'[c].pending
            \/ TakeEvent(c) /\ client'[c].pending = ~ Head(down[c]).final
<1>1. client \in [Conns -> Client]
  BY DEF Sound, TypeOK
<1>2. ~ ReadFails(c)
  BY <1>1 DEF ReadFails, AbandonStream, Client
<1>3. CASE TakeReply(c)
  <2>1. CASE Head(down[c]).type # AnswerType(Kind(c))
    BY <1>1, <1>3, <2>1 DEF TakeReply, Client
  <2>2. CASE Head(down[c]).type = AnswerType(Kind(c))
    <3>1. client' = [client EXCEPT ![c].pending = FALSE,
                                   ![c].framed = @ \/ Kind(c) = "INIT"]
      BY <1>3, <2>2 DEF TakeReply
    <3>2. ~ client'[c].pending /\ client'[c].unanswered = client[c].unanswered
      BY <1>1, <3>1 DEF Client
    <3>3. QED
      BY <1>3, <2>2, <3>2 DEF TakeReply
  <2>3. QED
    BY <2>1, <2>2
<1>4. CASE TakeEvent(c)
  <2>1. CASE ~ Accepts(c, Head(down[c]))
    BY <1>1, <1>4, <2>1 DEF TakeEvent, AbandonStream, Client
  <2>2. CASE Accepts(c, Head(down[c]))
    <3>1. client' = [client EXCEPT ![c].pending = ~ Head(down[c]).final]
      BY <1>4, <2>2 DEF TakeEvent
    <3>2. /\ client'[c].pending = ~ Head(down[c]).final
          /\ client'[c].unanswered = client[c].unanswered
      BY <1>1, <3>1 DEF Client
    <3>3. QED
      BY <1>4, <2>2, <3>2 DEF TakeEvent
  <2>3. QED
    BY <2>1, <2>2
<1>5. QED
  BY <1>2, <1>3, <1>4

(* An operation takes its answer: whatever it is, it is quiet behind it.   *)
LEMMA AnswerQuiet ==
  ASSUME Sound, NEW c \in Conns, QuietAt(c), client'[c].unanswered = FALSE,
         TakeReply(c) \/ TakeEvent(c) \/ ReadFails(c)
  PROVE  QuietAt(c)'
<1>1. /\ client[c].pending /\ down[c] # <<>>
      /\ Take(c, Head(down[c])) /\ down' = [down EXCEPT ![c] = Tail(down[c])]
      /\ UNCHANGED <<ops, server, up>>
      /\ \/ Kind(c) # "STREAM" /\ ~ client'[c].pending
         \/ client'[c].pending = ~ Head(down[c]).final
  BY FailureShows
<1>2. Head(down[c]).final \in BOOLEAN /\ client'[c].pending \in BOOLEAN
  <2>1. Sound'
    BY TakeReplySound, TakeEventSound, ReadFailsSound
  <2>2. QED
    BY <2>1, HeadOfDown, <1>1 DEF Sound, TypeOK, Client
<1>3. Kind(c) # "STREAM" => Head(down[c]).final
  <2>1. Len(down[c]) \in Nat \ {0} /\ Head(down[c]) = down[c][1]
    BY <1>1, QuietTypes, EmptySeq
  <2>2. 1 \in 1 .. Len(down[c])
    BY <2>1
  <2>3. QED
    BY <2>1, <2>2 DEF QuietAt
<1>4. client'[c].pending = ~ Head(down[c]).final
  BY <1>1, <1>2, <1>3
<1>5. QED
  BY <1>1, <1>4, TakeQuiet

LEMMA StepQuiet ==
  Sound /\ StreamsAsked /\ Quiet /\ [Next]_vars => Quiet'
<1> SUFFICES ASSUME Sound, StreamsAsked, Quiet, [Next]_vars, NEW d \in Conns,
                    ~ client'[d].unanswered
             PROVE  QuietAt(d)'
  BY DEF Quiet
<1>1. TypeOK /\ (~ client[d].unanswered => QuietAt(d)) /\ Sound'
  BY StepSound DEF Sound, Quiet
<1>2. client[d] \in Client /\ client'[d] \in Client
  BY <1>1 DEF Sound, TypeOK
<1>3. client'[d].unanswered = FALSE
  BY <1>2 DEF Client
<1>4. CASE UNCHANGED vars
  <2>1. UNCHANGED <<ops, client, server, up, down, taken>>
    BY <1>4 DEF vars, wires, histories
  <2>2. QuietAt(d)
    BY <1>1, <2>1
  <2>3. QED
    BY <2>1, <2>2, QuietKept
<1>5. ASSUME NEW c \in Conns,
             \/ Request(c) \/ Close(c) \/ Disconnect(c) \/ SeeClose(c)
             \/ TakeReply(c) \/ TakeEvent(c) \/ ReadFails(c)
             \/ Read(c) \/ LookupEnds(c) \/ HandlerEnds(c)
             \/ StreamYields(c) \/ StreamEnds(c) \/ ReadEnd(c),
             d # c
      PROVE  QuietAt(d)'
  <2>1. client'[d] = client[d]
    BY <1>1, <1>5 DEF Request, Close, Disconnect, SeeClose, TakeReply, TakeEvent,
       AbandonStream, ReadFails, Read, LookupEnds, HandlerEnds, StreamYields,
       StreamEnds, ReadEnd, TypeOK
  <2>2. QuietAt(d)
    BY <1>1, <2>1
  <2>3. QED
    BY <1>5, <2>2, OthersQuiet
<1>6. CASE Request(d) \/ Close(d)
  <2>1. PICK kind \in Kinds :
          /\ Send(d, kind)
          /\ \/ client' = [client EXCEPT ![d].pending = TRUE]
             \/ kind = "CLOSE" /\ client' = client
    BY <1>6, SessionAssumption DEF Request, Close, Kinds
  <2>2. /\ client'[d].pending \/ (kind = "CLOSE" /\ client'[d].pending = client[d].pending)
        /\ client'[d].unanswered = client[d].unanswered
    BY <1>1, <2>1 DEF TypeOK, Client
  <2>3. QuietAt(d)
    BY <1>1, <2>2
  <2>4. QED
    BY <2>1, <2>2, <2>3, SendQuiet
<1>7. CASE Disconnect(d) \/ SeeClose(d)
  <2>1. /\ client' = [client EXCEPT ![d].open = FALSE] /\ Destroy(d, down[d])
        /\ UNCHANGED <<ops, server, taken>>
    BY <1>7 DEF Disconnect, SeeClose, histories
  <2>2. /\ client'[d].unanswered = client[d].unanswered
        /\ client'[d].pending = client[d].pending
    BY <1>1, <2>1 DEF TypeOK, Client
  <2>3. QuietAt(d)
    BY <1>1, <2>2
  <2>4. QED
    BY <2>1, <2>2, <2>3, DestroyQuiet
<1>8. CASE TakeReply(d) \/ TakeEvent(d) \/ ReadFails(d)
  <2>1. client[d].unanswered = FALSE
    BY <1>3, <1>8, FailureShows
  <2>2. QED
    BY <1>1, <1>3, <1>8, <2>1, AnswerQuiet
<1>9. CASE Read(d)
  <2>1. client' = client
    BY <1>9, ReadDoes
  <2>2. QED
    BY <1>1, <1>9, <2>1, ReadQuiet
<1>10. CASE \/ LookupEnds(d) \/ HandlerEnds(d) \/ StreamYields(d)
            \/ StreamEnds(d) \/ ReadEnd(d)
  <2>1. client' = client
    BY <1>10 DEF LookupEnds, HandlerEnds, StreamYields, StreamEnds, ReadEnd
  <2>2. QED
    BY <1>1, <1>10, <2>1, ServingQuiet
<1>11. QED
  BY <1>4, <1>5, <1>6, <1>7, <1>8, <1>9, <1>10 DEF Next

(* Until an operation of a connection fails, each takes frames of its own, *)
(* although call, ping and discover compare no id.                         *)
THEOREM AnswersReachTheirCall == Spec => []AnswersOwn
<1>1. Init => StreamsAsked /\ Quiet
  <2>1. Init => StreamsAsked
    BY DEF Init, StreamsAsked
  <2>2. Init => Quiet
    BY DEF Init, Quiet, QuietAt, Busy
  <2>3. QED
    BY <2>1, <2>2
<1>2. Quiet => AnswersOwn
  BY DEF Quiet, QuietAt, AnswersOwn
<1>3. QED
  BY <1>1, <1>2, InitSound, StepSound, StepStreamsAsked, StepQuiet, PTL DEF Spec

(* Taken together: requests and answers correspond one to one.             *)
THEOREM AnswersCorrespond == Spec => []AnswersMatched
BY AnsweredExactlyOnce, AnswersReachTheirCall, PTL DEF AnswersMatched

-----------------------------------------------------------------------------
(* Streams.                                                                *)

(* The events a stream took are its own and numbered; a final one is the   *)
(* last, and a stream that still waits has taken none.                     *)
EventsAt(c, n) ==
  LET events == taken[c][n]
  IN /\ \A i \in 1 .. Len(events) :
          /\ events[i].n = n
          /\ events[i].seq = i - 1
          /\ events[i].final => i = Len(events)
     /\ client[c].pending /\ n = Current(c) =>
          \A i \in 1 .. Len(events) : ~ events[i].final
     /\ ~ client[c].unanswered /\ (n < Current(c) \/ ~ client[c].pending) =>
          events # <<>> /\ events[Len(events)].final

EventsInOrder ==
  \A c \in Conns : \A n \in 1 .. Len(ops[c]) : ops[c][n] = "STREAM" => EventsAt(c, n)

(* The last operation is a stream that waits; the server may still write   *)
(* events of the one it has read.                                          *)
Streams(c) == client[c].pending /\ Kind(c) = "STREAM"
Emits(c) == server[c].phase = "stream" /\ ~ server[c].terminal

(* Events on an open connection, those to come and the call that asks for  *)
(* them belong to the stream that waits, and a final event is the last one *)
(* ever, though frames without a lifecycle may lie around it.              *)
StreamAloneAt(c) ==
  /\ \A k \in 1 .. Len(down[c]) : down[c][k].life =>
       /\ Streams(c) /\ server[c].n = Current(c)
       /\ down[c][k].final =>
            ~ Emits(c) /\ \A j \in 1 .. Len(down[c]) : j > k => ~ down[c][j].life
  /\ Emits(c) => Streams(c) /\ server[c].n = Current(c)
  /\ \A k \in 1 .. Len(up[c]) :
       up[c][k].kind = "STREAM" => Streams(c) /\ up[c][k].n = Current(c)

StreamAlone == \A c \in Conns : client[c].open => StreamAloneAt(c)

(* What the server does leaves the client's end alone.                     *)
LEMMA ServerLeavesClient ==
  ASSUME Sound, NEW c \in Conns,
         \/ Read(c) \/ LookupEnds(c) \/ HandlerEnds(c)
         \/ StreamYields(c) \/ StreamEnds(c) \/ ReadEnd(c)
  PROVE  UNCHANGED <<ops, client, taken>>
<1>1. CASE Read(c)
  BY <1>1, ReadDoes
<1>2. CASE \/ LookupEnds(c) \/ HandlerEnds(c) \/ StreamYields(c)
           \/ StreamEnds(c) \/ ReadEnd(c)
  BY <1>2 DEF LookupEnds, HandlerEnds, StreamYields, StreamEnds, ReadEnd, histories
<1>3. QED
  BY <1>1, <1>2

(* What a client takes is behind what it had taken.                        *)
LEMMA TakenFrames ==
  ASSUME Sound, NEW c \in Conns, client[c].pending, NEW f \in Frame, Take(c, f),
         NEW n \in 1 .. Len(ops[c])
  PROVE  /\ n # Current(c) => taken'[c][n] = taken[c][n]
         /\ Len(taken[c][n]) \in Nat
         /\ n = Current(c) =>
              /\ Len(taken'[c][n]) = Len(taken[c][n]) + 1
              /\ \A i \in 1 .. Len(taken[c][n]) : taken'[c][n][i] = taken[c][n][i]
              /\ taken'[c][n][Len(taken[c][n]) + 1] = f
<1>1. /\ taken'[c][Current(c)] = Append(taken[c][Current(c)], f)
      /\ \A m \in 1 .. Len(ops[c]) : m # Current(c) => taken'[c][m] = taken[c][m]
  BY TakeKeeps DEF Sound
<1>2. taken[c] \in Seq(Seq(Frame)) /\ Len(taken[c]) = Len(ops[c])
  BY QuietTypes
<1>3. taken[c][n] \in Seq(Frame)
  BY <1>2, ElementOfSeq
<1>4. /\ Len(Append(taken[c][n], f)) = Len(taken[c][n]) + 1
      /\ \A i \in 1 .. Len(taken[c][n]) : Append(taken[c][n], f)[i] = taken[c][n][i]
      /\ Append(taken[c][n], f)[Len(taken[c][n]) + 1] = f
      /\ Len(taken[c][n]) \in Nat
  BY <1>3, AppendKeeps, LenProperties
<1>5. CASE n # Current(c)
  BY <1>1, <1>4, <1>5
<1>6. CASE n = Current(c)
  <2>1. taken'[c][n] = Append(taken[c][n], f)
    BY <1>1, <1>6
  <2>2. QED
    BY <1>4, <1>6, <2>1
<1>7. QED
  BY <1>5, <1>6

LEMMA TakenBefore ==
  ASSUME Sound, NEW c \in Conns, client[c].pending, NEW f \in Frame, Take(c, f),
         NEW n \in 1 .. Len(ops[c]), NEW i \in 1 .. Len(taken'[c][n])
  PROVE  \/ i \in 1 .. Len(taken[c][n]) /\ taken'[c][n][i] = taken[c][n][i]
         \/ n = Current(c) /\ taken'[c][n][i] = f
<1>1. CASE n # Current(c)
  <2>1. taken'[c][n] = taken[c][n]
    BY <1>1, TakenFrames
  <2>2. QED
    BY <2>1
<1>2. CASE n = Current(c)
  <2>1. /\ Len(taken[c][n]) \in Nat
        /\ Len(taken'[c][n]) = Len(taken[c][n]) + 1
        /\ \A j \in 1 .. Len(taken[c][n]) : taken'[c][n][j] = taken[c][n][j]
        /\ taken'[c][n][Len(taken[c][n]) + 1] = f
    BY <1>2, TakenFrames
  <2>2. i \in 1 .. Len(taken[c][n]) \/ i = Len(taken[c][n]) + 1
    BY <2>1
  <2>3. QED
    BY <1>2, <2>1, <2>2
<1>3. QED
  BY <1>1, <1>2

-----------------------------------------------------------------------------
(* The events of a stream that is left alone, or merely given up.          *)
LEMMA EventsKept ==
  ASSUME NEW c \in Conns, NEW n \in Nat, EventsAt(c, n), taken'[c][n] = taken[c][n],
         client'[c].pending /\ n = Current(c)' => client[c].pending /\ n = Current(c),
         ~ client'[c].unanswered /\ (n < Current(c)' \/ ~ client'[c].pending)
           => ~ client[c].unanswered /\ (n < Current(c) \/ ~ client[c].pending)
  PROVE  EventsAt(c, n)'
  BY DEF EventsAt

LEMMA StepEvents == Sound /\ EventsInOrder /\ [Next]_vars => EventsInOrder'
<1> SUFFICES ASSUME Sound, EventsInOrder, [Next]_vars, NEW d \in Conns,
                    NEW n \in 1 .. Len(ops'[d]), ops'[d][n] = "STREAM"
             PROVE  EventsAt(d, n)'
  BY DEF EventsInOrder
<1>1. TypeOK /\ n \in Nat /\ Sound'
  BY StepSound DEF Sound
<1>2. /\ client[d] \in Client /\ client'[d] \in Client /\ Current(d) \in Nat
      /\ Current(d) = Len(ops[d])
  BY <1>1, QuietTypes DEF Sound, TypeOK
<1>3. CASE /\ ops'[d] = ops[d] /\ taken'[d] = taken[d]
           /\ client'[d].pending = client[d].pending
           /\ client'[d].unanswered = client[d].unanswered
  <2>1. EventsAt(d, n) /\ Current(d)' = Current(d)
    BY <1>3 DEF EventsInOrder, Current
  <2>2. QED
    BY <1>1, <1>3, <2>1, EventsKept
<1>4. CASE UNCHANGED vars
  BY <1>3, <1>4 DEF vars, histories
<1>5. ASSUME NEW c \in Conns,
             \/ Request(c) \/ Close(c) \/ Disconnect(c) \/ SeeClose(c)
             \/ TakeReply(c) \/ TakeEvent(c) \/ ReadFails(c)
             \/ Read(c) \/ LookupEnds(c) \/ HandlerEnds(c)
             \/ StreamYields(c) \/ StreamEnds(c) \/ ReadEnd(c),
             d # c
      PROVE  EventsAt(d, n)'
  <2>1. ops'[d] = ops[d] /\ taken'[d] = taken[d] /\ client'[d] = client[d]
    BY <1>5, OthersStill
  <2>2. QED
    BY <1>3, <2>1
<1>6. CASE \/ Read(d) \/ LookupEnds(d) \/ HandlerEnds(d)
           \/ StreamYields(d) \/ StreamEnds(d) \/ ReadEnd(d)
  BY <1>3, <1>6, ServerLeavesClient
<1>7. CASE Disconnect(d) \/ SeeClose(d)
  <2>1. /\ client' = [client EXCEPT ![d].open = FALSE]
        /\ UNCHANGED <<ops, taken>>
    BY <1>7 DEF Disconnect, SeeClose, histories
  <2>2. /\ client'[d].unanswered = client[d].unanswered
        /\ client'[d].pending = client[d].pending
    BY <1>1, <2>1 DEF TypeOK, Client
  <2>3. QED
    BY <1>3, <2>1, <2>2
<1>8. CASE Request(d) \/ Close(d)
  <2>1. PICK kind \in Kinds :
          /\ Send(d, kind)
          /\ \/ client' = [client EXCEPT ![d].pending = TRUE]
             \/ kind = "CLOSE" /\ client' = client
    BY <1>8, SessionAssumption DEF Request, Close, Kinds
  <2>2. /\ client'[d].pending \/ kind = "CLOSE"
        /\ client'[d].unanswered = client[d].unanswered
    BY <1>1, <2>1 DEF TypeOK, Client
  <2>3. ~ client[d].pending
    BY <2>1 DEF Send
  <2>4. /\ Len(ops'[d]) = Len(ops[d]) + 1
        /\ \A k \in 1 .. Len(ops[d]) : ops'[d][k] = ops[d][k]
        /\ ops'[d][Len(ops[d]) + 1] = kind
        /\ taken'[d] = Append(taken[d], <<>>)
    BY <2>1, SendKeeps
  <2>5. /\ taken[d] \in Seq(Seq(Frame)) /\ Len(taken[d]) = Len(ops[d])
        /\ <<>> \in Seq(Frame)
    BY QuietTypes, EmptySeq
  <2>6. /\ \A k \in 1 .. Len(ops[d]) : taken'[d][k] = taken[d][k]
        /\ taken'[d][Len(ops[d]) + 1] = <<>>
    BY <2>4, <2>5, AppendKeeps
  <2>7. Current(d)' = Current(d) + 1
    BY <1>2, <2>4 DEF Current
  <2>8. CASE n \in 1 .. Len(ops[d])
    <3>1. EventsAt(d, n) /\ taken'[d][n] = taken[d][n]
      BY <2>4, <2>6, <2>8 DEF EventsInOrder
    <3>2. n < Current(d) \/ n = Current(d)
      BY <1>2, <2>8
    <3>3. n # Current(d)'
      BY <1>2, <2>7, <3>2
    <3>4. QED
      BY <1>1, <2>2, <2>3, <3>1, <3>2, <3>3, EventsKept
  <2>9. CASE n \notin 1 .. Len(ops[d])
    <3>1. n = Len(ops[d]) + 1 /\ n = Current(d)'
      BY <1>2, <2>4, <2>7, <2>9
    <3>2. taken'[d][n] = <<>> /\ client'[d].pending
      BY <2>2, <2>4, <2>6, <3>1
    <3>3. ~ (n < Current(d)')
      BY <1>2, <3>1
    <3>4. QED
      BY <3>2, <3>3 DEF EventsAt
  <2>10. QED
    BY <2>8, <2>9
<1>9. CASE TakeReply(d) \/ TakeEvent(d) \/ ReadFails(d)
  <2>1. ops'[d] = ops[d] /\ Current(d)' = Current(d) /\ EventsAt(d, n)
    BY <1>9 DEF TakeReply, TakeEvent, ReadFails, EventsInOrder, Current
  <2>2. n \in 1 .. Len(ops[d]) /\ n <= Current(d) /\ (n = Current(d) => Kind(d) = "STREAM")
    BY <1>2, <2>1 DEF Kind
  <2>3. CASE /\ client'[d].unanswered /\ ~ client'[d].pending
             /\ taken'[d] = taken[d]
    BY <1>1, <2>1, <2>3, EventsKept
  <2>4. CASE /\ Kind(d) # "STREAM" /\ ~ client'[d].pending
             /\ taken'[d][n] = taken[d][n]
             /\ client'[d].unanswered = client[d].unanswered
    <3>1. n < Current(d)
      BY <1>1, <1>2, <2>2, <2>4
    <3>2. QED
      BY <1>1, <2>1, <2>4, <3>1, EventsKept
  <2>5. CASE ReadFails(d)
    <3>1. client'[d].unanswered /\ ~ client'[d].pending /\ taken' = taken
      BY <1>1, <2>5 DEF ReadFails, AbandonStream, TypeOK, Client, histories
    <3>2. QED
      BY <2>3, <3>1
  <2>6. CASE TakeReply(d)
    <3>1. client[d].pending /\ Kind(d) # "STREAM" /\ Head(down[d]) \in Frame
      BY <2>6, HeadOfDown DEF TakeReply
    <3>2. CASE /\ client' = [client EXCEPT ![d].pending = FALSE,
                                           ![d].unanswered = TRUE]
               /\ UNCHANGED taken
      BY <1>1, <2>3, <3>2 DEF TypeOK, Client
    <3>3. CASE /\ Take(d, Head(down[d]))
               /\ client' = [client EXCEPT ![d].pending = FALSE,
                                           ![d].framed = @ \/ Kind(d) = "INIT"]
      <4>1. ~ client'[d].pending /\ client'[d].unanswered = client[d].unanswered
        BY <1>1, <3>3 DEF TypeOK, Client
      <4>2. n # Current(d)
        BY <2>2, <3>1
      <4>3. taken'[d][n] = taken[d][n]
        BY <2>2, <3>1, <3>3, <4>2, TakenFrames
      <4>4. QED
        BY <2>4, <3>1, <4>1, <4>3
    <3>4. QED
      BY <2>6, <3>2, <3>3 DEF TakeReply
  <2>7. CASE TakeEvent(d)
    <3>1. client[d].pending /\ Kind(d) = "STREAM" /\ Head(down[d]) \in Frame
      BY <2>7, HeadOfDown DEF TakeEvent
    <3>2. CASE AbandonStream(d, Tail(down[d])) /\ UNCHANGED taken
      BY <1>1, <2>3, <3>2 DEF AbandonStream, TypeOK, Client
    <3>3. CASE /\ Accepts(d, Head(down[d]))
               /\ Take(d, Head(down[d]))
               /\ client' = [client EXCEPT ![d].pending = ~ Head(down[d]).final]
      <4> DEFINE f == Head(down[d])
                 l == Len(taken[d][n])
      <4>1. /\ client'[d].pending = ~ f.final
            /\ client'[d].unanswered = client[d].unanswered
        BY <1>1, <3>3 DEF TypeOK, Client
      <4>2. /\ n # Current(d) => taken'[d][n] = taken[d][n]
            /\ l \in Nat
            /\ n = Current(d) =>
                 /\ Len(taken'[d][n]) = l + 1
                 /\ \A i \in 1 .. l : taken'[d][n][i] = taken[d][n][i]
                 /\ taken'[d][n][l + 1] = f
        BY <2>2, <3>1, <3>3, TakenFrames
      <4>3. f.final \in BOOLEAN /\ f.n = Current(d) /\ f.seq = Len(taken[d][Current(d)])
        BY <3>1, <3>3 DEF Frame, Accepts
      <4> HIDE DEF f
      <4>4. CASE n # Current(d)
        <5>1. n < Current(d)
          BY <1>1, <1>2, <2>2, <4>4
        <5>2. QED
          BY <1>1, <2>1, <4>1, <4>2, <4>4, <5>1, EventsKept
      <4>5. CASE n = Current(d)
        <5>1. \A i \in 1 .. l : /\ taken[d][n][i].n = n
                                /\ taken[d][n][i].seq = i - 1
                                /\ ~ taken[d][n][i].final
          BY <2>1, <3>1, <4>5 DEF EventsAt
        <5>2. f.n = n /\ f.seq = l
          BY <4>3, <4>5
        <5> HIDE DEF l
        <5>3. ASSUME NEW i \in 1 .. Len(taken'[d][n])
              PROVE  /\ taken'[d][n][i].n = n
                     /\ taken'[d][n][i].seq = i - 1
                     /\ taken'[d][n][i].final => i = l + 1 /\ f.final
          <6>1. i \in 1 .. l \/ i = l + 1
            BY <4>2, <4>5
          <6>2. CASE i \in 1 .. l
            BY <4>2, <4>5, <5>1, <6>2
          <6>3. CASE i = l + 1
            <7>1. taken'[d][n][i] = f /\ l = i - 1
              BY <4>2, <4>5, <6>3
            <7>2. QED
              BY <5>2, <6>3, <7>1
          <6>4. QED
            BY <6>1, <6>2, <6>3
        <5>4. Len(taken'[d][n]) = l + 1 /\ taken'[d][n] # <<>>
          BY <4>2, <4>5
        <5>5. taken'[d][n][Len(taken'[d][n])] = f
          BY <4>2, <4>5
        <5>6. ~ (n < Current(d)')
          BY <1>1, <1>2, <2>1, <4>5
        <5>7. f.final <=> ~ client'[d].pending
          BY <4>1, <4>3
        <5>8. QED
          BY <5>3, <5>4, <5>5, <5>6, <5>7 DEF EventsAt
      <4>6. QED
        BY <4>4, <4>5
    <3>4. QED
      BY <2>7, <3>2, <3>3 DEF TakeEvent
  <2>8. QED
    BY <1>9, <2>5, <2>6, <2>7
<1>10. QED
  BY <1>4, <1>5, <1>6, <1>7, <1>8, <1>9 DEF Next

-----------------------------------------------------------------------------
(* While no stream waits, nothing of a stream is on the connection.        *)
Streamless(c) ==
  /\ \A k \in 1 .. Len(down[c]) : ~ down[c][k].life
  /\ ~ Emits(c)
  /\ \A k \in 1 .. Len(up[c]) : up[c][k].kind # "STREAM"

LEMMA StreamlessAlone ==
  /\ \A c \in Conns : Streamless(c) => StreamAloneAt(c)
  /\ \A c \in Conns : StreamAloneAt(c) /\ ~ Streams(c) => Streamless(c)
  BY DEF Streamless, StreamAloneAt

LEMMA AloneKept ==
  ASSUME NEW c \in Conns, StreamAloneAt(c), ops'[c] = ops[c],
         client'[c].pending = client[c].pending, server'[c] = server[c],
         up'[c] = up[c], down'[c] = down[c]
  PROVE  StreamAloneAt(c)'
  BY DEF StreamAloneAt, Streams, Emits, Current, Kind

(* The queue of a connection without its first frame.                      *)
LEMMA TailOfDown ==
  ASSUME Sound, NEW c \in Conns, down[c] # <<>>, down' = [down EXCEPT ![c] = Tail(down[c])]
  PROVE  /\ Len(down[c]) \in Nat \ {0} /\ Len(down'[c]) = Len(down[c]) - 1
         /\ Head(down[c]) = down[c][1]
         /\ \A k \in 1 .. Len(down'[c]) : /\ k + 1 \in 1 .. Len(down[c])
                                          /\ down'[c][k] = down[c][k + 1]
<1>1. down[c] \in Seq(Frame) /\ Len(down[c]) \in Nat
  BY QuietTypes
<1>2. Len(down[c]) \in Nat \ {0} /\ Head(down[c]) = down[c][1]
  BY <1>1, EmptySeq
<1>3. /\ Len(Tail(down[c])) = Len(down[c]) - 1
      /\ \A k \in 1 .. Len(Tail(down[c])) : Tail(down[c])[k] = down[c][k + 1]
  BY <1>1, HeadTailProperties
<1>4. down'[c] = Tail(down[c])
  BY DEF Sound, TypeOK
<1>5. Len(down'[c]) = Len(down[c]) - 1
  BY <1>3, <1>4
<1>6. ASSUME NEW k \in 1 .. Len(down'[c])
      PROVE  k + 1 \in 1 .. Len(down[c]) /\ down'[c][k] = down[c][k + 1]
  <2>1. k \in 1 .. Len(down[c]) - 1
    BY <1>5
  <2>2. k + 1 \in 1 .. Len(down[c])
    BY ONLY <1>2, <2>1
  <2>3. QED
    BY <1>3, <1>4, <2>2
<1>7. QED
  BY <1>2, <1>5, <1>6

(* Issuing an operation: nothing of a stream is there, and a call that     *)
(* asks for one is the last operation.                                     *)
LEMMA IssueAlone ==
  ASSUME Sound, NEW c \in Conns, StreamAloneAt(c), NEW kind \in Kinds, Send(c, kind),
         client'[c].pending \/ kind = "CLOSE"
  PROVE  StreamAloneAt(c)'
<1>1. /\ ~ client[c].pending /\ server' = server /\ down' = down
      /\ up' = [up EXCEPT ![c] =
                  IF client[c].open
                  THEN Append(@, [kind |-> kind, n |-> Len(ops[c]) + 1])
                  ELSE @]
  BY DEF Send
<1>2. Streamless(c)
  BY <1>1, StreamlessAlone DEF Streams
<1>3. /\ Len(ops'[c]) = Len(ops[c]) + 1 /\ ops'[c][Len(ops[c]) + 1] = kind
  BY SendKeeps
<1>4. /\ \A k \in 1 .. Len(down'[c]) : ~ down'[c][k].life
      /\ ~ Emits(c)'
  BY <1>1, <1>2 DEF Streamless, Emits
<1>5. Current(c)' = Len(ops[c]) + 1 /\ Kind(c)' = kind
  BY <1>3 DEF Current, Kind
<1>6. ASSUME NEW k \in 1 .. Len(up'[c]), up'[c][k].kind = "STREAM"
      PROVE  Streams(c)' /\ up'[c][k].n = Current(c)'
  <2> DEFINE frame == [kind |-> kind, n |-> Len(ops[c]) + 1]
  <2>1. up'[c] = IF client[c].open THEN Append(up[c], frame) ELSE up[c]
    BY <1>1 DEF Sound, TypeOK
  <2>2. up[c] \in Seq([kind : Kinds, n : Nat]) /\ Len(up[c]) \in Nat
    BY LenProperties DEF Sound, TypeOK
  <2>3. k \in 1 .. Len(up[c]) => up'[c][k] = up[c][k]
    BY <2>1, <2>2
  <2>4. k \notin 1 .. Len(up[c])
    BY <1>2, <1>6, <2>3 DEF Streamless
  <2>5. client[c].open /\ k = Len(up[c]) + 1
    BY <2>1, <2>2, <2>4
  <2>6. up'[c][k] = frame
    BY <2>1, <2>2, <2>5
  <2>7. kind = "STREAM" /\ up'[c][k].n = Current(c)'
    BY <1>5, <1>6, <2>6
  <2>8. QED
    BY <1>5, <2>7 DEF Streams
<1>7. QED
  BY <1>4, <1>6 DEF StreamAloneAt

(* An operation that is no stream takes a frame, or gives up.              *)
LEMMA PlainAlone ==
  ASSUME Sound, NEW c \in Conns, StreamAloneAt(c), Kind(c) # "STREAM",
         UNCHANGED <<server, up>>,
         \/ down' = down
         \/ down[c] # <<>> /\ down' = [down EXCEPT ![c] = Tail(down[c])]
  PROVE  StreamAloneAt(c)'
<1>1. Streamless(c)
  BY StreamlessAlone DEF Streams
<1>2. ASSUME NEW k \in 1 .. Len(down'[c]) PROVE ~ down'[c][k].life
  <2>1. CASE down' = down
    BY <1>1, <1>2, <2>1 DEF Streamless
  <2>2. CASE down[c] # <<>> /\ down' = [down EXCEPT ![c] = Tail(down[c])]
    BY <1>1, <1>2, <2>2, TailOfDown DEF Streamless
  <2>3. QED
    BY <2>1, <2>2
<1>3. ~ Emits(c)' /\ \A k \in 1 .. Len(up'[c]) : up'[c][k].kind # "STREAM"
  BY <1>1 DEF Streamless, Emits
<1>4. QED
  BY <1>2, <1>3 DEF StreamAloneAt

(* A stream takes an event: behind the final one nothing of it is left.    *)
LEMMA EventAlone ==
  ASSUME Sound, NEW c \in Conns, StreamAloneAt(c), down[c] # <<>>,
         Head(down[c]).life,
         down' = [down EXCEPT ![c] = Tail(down[c])],
         UNCHANGED <<ops, server, up>>,
         client'[c].pending = ~ Head(down[c]).final
  PROVE  StreamAloneAt(c)'
<1> DEFINE f == Head(down[c])
<1>1. /\ Len(down[c]) \in Nat \ {0} /\ Len(down'[c]) = Len(down[c]) - 1
      /\ f = down[c][1]
      /\ \A k \in 1 .. Len(down'[c]) : /\ k + 1 \in 1 .. Len(down[c])
                                       /\ down'[c][k] = down[c][k + 1]
  BY TailOfDown
<1>2. 1 \in 1 .. Len(down[c])
  BY <1>1
<1>3. /\ Streams(c) /\ server[c].n = Current(c)
      /\ f.final => ~ Emits(c) /\ \A j \in 1 .. Len(down[c]) : j > 1 => ~ down[c][j].life
  BY <1>1, <1>2 DEF StreamAloneAt
<1>4. Len(up[c]) = 0 /\ f.final \in BOOLEAN
  BY <1>3, QuietTypes, HeadOfDown
<1>5. (Emits(c)' <=> Emits(c)) /\ Current(c)' = Current(c) /\ Kind(c)' = Kind(c)
  BY DEF Emits, Current, Kind
<1> HIDE DEF f
<1>6. CASE f.final
  <2>1. ASSUME NEW k \in 1 .. Len(down'[c]) PROVE ~ down'[c][k].life
    <3>1. k + 1 > 1
      OBVIOUS
    <3>2. QED
      BY <1>1, <1>3, <1>6, <3>1
  <2>2. \A k \in 1 .. Len(up'[c]) : up'[c][k].kind # "STREAM"
    BY <1>4
  <2>3. QED
    BY <1>3, <1>5, <1>6, <2>1, <2>2 DEF StreamAloneAt
<1>7. CASE ~ f.final
  <2>1. Streams(c)'
    BY <1>3, <1>5, <1>7 DEF Streams, f
  <2>2. ASSUME NEW k \in 1 .. Len(down'[c]), down'[c][k].life
        PROVE  down'[c][k].final =>
                 ~ Emits(c) /\ \A j \in 1 .. Len(down'[c]) : j > k => ~ down'[c][j].life
    <3>1. /\ k + 1 \in 1 .. Len(down[c]) /\ down'[c][k] = down[c][k + 1]
      BY <1>1
    <3>2. ASSUME down'[c][k].final
          PROVE  ~ Emits(c) /\ \A j \in 1 .. Len(down[c]) : j > k + 1 => ~ down[c][j].life
      BY <2>2, <3>1, <3>2 DEF StreamAloneAt
    <3>3. ASSUME down'[c][k].final, NEW j \in 1 .. Len(down'[c]), j > k
          PROVE  ~ down'[c][j].life
      <4>1. j + 1 > k + 1
        BY <3>3
      <4>2. QED
        BY <1>1, <3>2, <3>3, <4>1
    <3>4. QED
      BY <3>2, <3>3
  <2>3. \A k \in 1 .. Len(up'[c]) : up'[c][k].kind # "STREAM"
    BY <1>4
  <2>4. server'[c].n = Current(c)'
    BY <1>3, <1>5
  <2>5. QED
    BY <1>5, <2>1, <2>2, <2>3, <2>4 DEF StreamAloneAt
<1>8. QED
  BY <1>4, <1>6, <1>7

(* A server within an operation writes an event only while it emits.       *)
LEMMA WriteAlone ==
  ASSUME Sound, NEW c \in Conns, StreamAloneAt(c), NEW f \in Frame,
         f.n \in 1 .. Len(answers[c]), Write(c, f),
         UNCHANGED <<ops, client, up>>, server'[c].n = server[c].n,
         f.life => Emits(c),
         Emits(c)' => Emits(c) /\ ~ (f.life /\ f.final)
  PROVE  StreamAloneAt(c)'
<1>1. /\ ~ client[c].open => down'[c] = down[c]
      /\ client[c].open =>
           /\ Len(down'[c]) = Len(down[c]) + 1
           /\ \A k \in 1 .. Len(down[c]) : down'[c][k] = down[c][k]
           /\ down'[c][Len(down[c]) + 1] = f
  BY WriteKeeps DEF Sound
<1>2. Len(down[c]) \in Nat
  BY QuietTypes
<1>3. Current(c)' = Current(c) /\ (Streams(c)' <=> Streams(c))
  BY DEF Current, Kind, Streams
<1> DEFINE l == Len(down[c])
           New(k) == client[c].open /\ k = l + 1 /\ down'[c][k] = f
<1>4. \A k \in 1 .. Len(down'[c]) :
        (k \in 1 .. l /\ down'[c][k] = down[c][k]) \/ New(k)
  BY <1>1, <1>2
<1>5. ASSUME NEW k \in 1 .. Len(down'[c]), down'[c][k].life
      PROVE  /\ Streams(c) /\ server[c].n = Current(c)
             /\ down'[c][k].final =>
                  ~ Emits(c)' /\ \A j \in 1 .. Len(down'[c]) : j > k => ~ down'[c][j].life
  <2>1. CASE New(k)
    <3>1. f.life /\ Emits(c)
      BY <1>5, <2>1
    <3>2. Streams(c) /\ server[c].n = Current(c)
      BY <3>1 DEF StreamAloneAt
    <3>3. Len(down'[c]) = k
      BY <1>1, <1>2, <2>1
    <3>4. \A j \in 1 .. Len(down'[c]) : ~ (j > k)
      BY <3>3
    <3>5. down'[c][k].final => ~ Emits(c)'
      BY <2>1, <3>1
    <3>6. QED
      BY <3>2, <3>4, <3>5
  <2>2. CASE k \in 1 .. l /\ down'[c][k] = down[c][k]
    <3>1. /\ Streams(c) /\ server[c].n = Current(c)
          /\ down[c][k].final =>
               ~ Emits(c) /\ \A j \in 1 .. l : j > k => ~ down[c][j].life
      BY <1>5, <2>2 DEF StreamAloneAt
    <3>2. ASSUME down[c][k].final, NEW j \in 1 .. Len(down'[c]), j > k
          PROVE  ~ down'[c][j].life
      BY <1>4, <3>1, <3>2
    <3>3. QED
      BY <2>2, <3>1, <3>2
  <2>3. QED
    BY <1>4, <2>1, <2>2
<1>6. Emits(c)' => Streams(c) /\ server[c].n = Current(c)
  BY DEF StreamAloneAt
<1>7. \A k \in 1 .. Len(up'[c]) :
        up'[c][k].kind = "STREAM" => Streams(c) /\ up'[c][k].n = Current(c)
  BY DEF StreamAloneAt
<1> HIDE DEF l, New
<1>8. QED
  BY <1>3, <1>5, <1>6, <1>7 DEF StreamAloneAt

(* Reading a call: only one that asks for a stream starts one.             *)
LEMMA ReadAlone ==
  ASSUME Sound, NEW c \in Conns, client[c].open, StreamAloneAt(c), Read(c)
  PROVE  StreamAloneAt(c)'
<1>1. PICK phase \in {"reading", "lookup", "plain", "stream", "ended"} :
        /\ server' = [server EXCEPT ![c] = Entered(c, phase)]
        /\ phase = "stream" => Head(up[c]).kind = "STREAM"
        /\ phase = "reading" =>
             \E f \in Frame : /\ f.n = Head(up[c]).n /\ f.final
                              /\ f.life => Head(up[c]).kind = "STREAM"
                              /\ Write(c, f)
        /\ phase # "reading" => Silent
  BY ReadDoes
<1>2. /\ server[c].phase = "reading" /\ up[c] # <<>>
      /\ up' = [up EXCEPT ![c] = Tail(up[c])]
      /\ UNCHANGED <<ops, client>>
  BY ReadDoes DEF Read
<1>3. /\ Head(up[c]).n = server[c].n + 1
      /\ Head(up[c]).n \in 1 .. Len(ops[c])
      /\ server[c].n \in Nat
      /\ Len(Tail(up[c])) = Len(up[c]) - 1
      /\ Len(up[c]) \in Nat \ {0}
      /\ \A k \in 1 .. Len(Tail(up[c])) : Tail(up[c])[k] = up[c][k + 1]
  BY <1>2, HeadOfUp
<1>4. up'[c] = Tail(up[c])
  BY <1>2 DEF Sound, TypeOK
<1>5. server[c].n # Current(c)
  BY <1>3, QuietTypes
<1>6. \A k \in 1 .. Len(down[c]) : ~ down[c][k].life
  BY <1>5 DEF StreamAloneAt
<1>7. ASSUME Head(up[c]).kind = "STREAM" PROVE Streams(c) /\ Head(up[c]).n = Current(c)
  <2>1. 1 \in 1 .. Len(up[c])
    BY <1>3
  <2>2. Head(up[c]) = up[c][1]
    BY <1>2, <1>3 DEF Sound, TypeOK
  <2>3. QED
    BY <1>7, <2>1, <2>2 DEF StreamAloneAt
<1>8. Current(c)' = Current(c) /\ (Streams(c)' <=> Streams(c))
  BY <1>2 DEF Current, Kind, Streams
<1>9. server'[c].n = Head(up[c]).n /\ server'[c].phase = phase
  BY <1>1 DEF Entered, Sound, TypeOK
<1>10. Emits(c)' => Head(up[c]).kind = "STREAM" /\ phase = "stream"
  BY <1>1, <1>9 DEF Emits
<1>11. ASSUME NEW k \in 1 .. Len(down'[c]), down'[c][k].life
       PROVE  /\ Head(up[c]).kind = "STREAM" /\ ~ Emits(c)'
              /\ \A j \in 1 .. Len(down'[c]) : ~ (j > k)
  <2>1. phase = "reading"
    BY <1>1, <1>6, <1>11 DEF Silent
  <2>2. PICK f \in Frame : /\ f.n = Head(up[c]).n
                           /\ f.life => Head(up[c]).kind = "STREAM"
                           /\ Write(c, f)
    BY <1>1, <2>1
  <2>3. f.n \in 1 .. Len(answers[c])
    BY <1>3, <2>2 DEF Sound, Shape
  <2>4. /\ Len(down'[c]) = Len(down[c]) + 1
        /\ \A i \in 1 .. Len(down[c]) : down'[c][i] = down[c][i]
        /\ down'[c][Len(down[c]) + 1] = f
    BY <2>2, <2>3, WriteKeeps DEF Sound
  <2>5. Len(down[c]) \in Nat
    BY QuietTypes
  <2>6. k = Len(down[c]) + 1
    BY <1>6, <1>11, <2>4, <2>5
  <2>7. \A j \in 1 .. Len(down'[c]) : ~ (j > k)
    BY <2>4, <2>5, <2>6
  <2>8. QED
    BY <1>10, <1>11, <2>1, <2>2, <2>4, <2>6, <2>7
<1>12. ASSUME NEW k \in 1 .. Len(up'[c]), up'[c][k].kind = "STREAM"
       PROVE  Streams(c) /\ up'[c][k].n = Current(c)
  <2>1. k + 1 \in 1 .. Len(up[c])
    BY <1>3, <1>4
  <2>2. up'[c][k] = up[c][k + 1]
    BY <1>3, <1>4
  <2>3. QED
    BY <1>12, <2>1, <2>2 DEF StreamAloneAt
<1>13. /\ \A k \in 1 .. Len(down'[c]) : down'[c][k].life =>
            /\ Streams(c)' /\ server'[c].n = Current(c)'
            /\ ~ Emits(c)' /\ \A j \in 1 .. Len(down'[c]) : ~ (j > k)
       /\ Emits(c)' => Streams(c)' /\ server'[c].n = Current(c)'
       /\ \A k \in 1 .. Len(up'[c]) :
            up'[c][k].kind = "STREAM" => Streams(c)' /\ up'[c][k].n = Current(c)'
  BY <1>7, <1>8, <1>9, <1>10, <1>11, <1>12
<1>14. QED
  BY <1>13 DEF StreamAloneAt

LEMMA ServingAlone ==
  ASSUME Sound, NEW c \in Conns, StreamAloneAt(c),
         LookupEnds(c) \/ HandlerEnds(c) \/ StreamYields(c) \/ StreamEnds(c) \/ ReadEnd(c)
  PROVE  StreamAloneAt(c)'
<1>1. /\ UNCHANGED <<ops, client, up, taken>> /\ TypeOK
  BY DEF LookupEnds, HandlerEnds, StreamYields, StreamEnds, ReadEnd, Sound, wires, histories
<1>2. ASSUME NEW phase \in {"reading", "ended"}, Become(c, phase)
      PROVE  server'[c].n = server[c].n /\ ~ Emits(c)'
  <2>1. server'[c].n = server[c].n /\ server'[c].phase = phase
    BY <1>1, <1>2 DEF Become, TypeOK, Server
  <2>2. QED
    BY <2>1 DEF Emits
<1>3. CASE LookupEnds(c) \/ HandlerEnds(c)
  <2>1. /\ Become(c, "reading") /\ Write(c, Reply("RESPONSE", server[c].n))
        /\ server[c].phase \in {"lookup", "plain", "stream"}
    BY <1>3 DEF LookupEnds, HandlerEnds
  <2>2. server[c].n \in Nat /\ server[c].n \in 1 .. Len(answers[c])
    BY <2>1, ServesCurrent
  <2>3. /\ Reply("RESPONSE", server[c].n) \in Frame
        /\ Reply("RESPONSE", server[c].n).n = server[c].n
        /\ ~ Reply("RESPONSE", server[c].n).life
    BY <2>2, FramesTyped DEF Reply
  <2>4. QED
    BY <1>1, <1>2, <2>1, <2>2, <2>3, WriteAlone
<1>4. CASE StreamYields(c)
  <2>1. PICK final \in BOOLEAN :
          /\ Write(c, Event(server[c].n, server[c].sent, final))
          /\ server' = [server EXCEPT ![c].sent = @ + 1, ![c].terminal = final]
    BY <1>4 DEF StreamYields
  <2>2. Emits(c) /\ server[c].phase \in {"lookup", "plain", "stream"}
    BY <1>4 DEF StreamYields, Emits
  <2>3. server[c].n \in Nat /\ server[c].n \in 1 .. Len(answers[c]) /\ server[c].sent \in Nat
    BY <2>2, ServesCurrent
  <2>4. /\ Event(server[c].n, server[c].sent, final) \in Frame
        /\ Event(server[c].n, server[c].sent, final).n = server[c].n
        /\ Event(server[c].n, server[c].sent, final).final = final
    BY <2>3, FramesTyped DEF Event
  <2>5. server'[c].n = server[c].n /\ server'[c].terminal = final
    BY <1>1, <2>1 DEF TypeOK, Server
  <2>6. final => ~ Emits(c)'
    BY <2>5 DEF Emits
  <2>7. QED
    BY <1>1, <2>1, <2>2, <2>3, <2>4, <2>5, <2>6, WriteAlone
<1>5. CASE StreamEnds(c) /\ ~ server[c].terminal
  <2>1. /\ Emits(c) /\ Become(c, "reading")
        /\ Write(c, Event(server[c].n, server[c].sent, TRUE))
        /\ server[c].phase \in {"lookup", "plain", "stream"}
    BY <1>5 DEF StreamEnds, Emits
  <2>2. server[c].n \in Nat /\ server[c].n \in 1 .. Len(answers[c]) /\ server[c].sent \in Nat
    BY <2>1, ServesCurrent
  <2>3. /\ Event(server[c].n, server[c].sent, TRUE) \in Frame
        /\ Event(server[c].n, server[c].sent, TRUE).n = server[c].n
    BY <2>2, FramesTyped
  <2>4. QED
    BY <1>1, <1>2, <2>1, <2>2, <2>3, WriteAlone
<1>6. CASE ReadEnd(c) \/ (StreamEnds(c) /\ server[c].terminal)
  <2>1. PICK phase \in {"reading", "ended"} : Become(c, phase)
    BY <1>6 DEF ReadEnd, StreamEnds
  <2>2. down' = down
    BY <1>6 DEF ReadEnd, StreamEnds, Silent, wires
  <2>3. server'[c].n = server[c].n /\ ~ Emits(c)'
    BY <1>2, <2>1
  <2>4. Current(c)' = Current(c) /\ (Streams(c)' <=> Streams(c))
    BY <1>1 DEF Current, Kind, Streams
  <2>5. QED
    BY <1>1, <2>2, <2>3, <2>4 DEF StreamAloneAt
<1>7. QED
  BY <1>3, <1>4, <1>5, <1>6

LEMMA StepAlone == Sound /\ StreamAlone /\ [Next]_vars => StreamAlone'
<1> SUFFICES ASSUME Sound, StreamAlone, [Next]_vars, NEW d \in Conns, client'[d].open
             PROVE  StreamAloneAt(d)'
  BY DEF StreamAlone
<1>1. TypeOK /\ client[d] \in Client
  BY DEF Sound, TypeOK
<1>2. CASE UNCHANGED vars
  <2>1. UNCHANGED <<ops, client, server, up, down, taken>>
    BY <1>2 DEF vars, wires, histories
  <2>2. StreamAloneAt(d)
    BY <2>1 DEF StreamAlone
  <2>3. QED
    BY <2>1, <2>2, AloneKept
<1>3. ASSUME NEW c \in Conns,
             \/ Request(c) \/ Close(c) \/ Disconnect(c) \/ SeeClose(c)
             \/ TakeReply(c) \/ TakeEvent(c) \/ ReadFails(c)
             \/ Read(c) \/ LookupEnds(c) \/ HandlerEnds(c)
             \/ StreamYields(c) \/ StreamEnds(c) \/ ReadEnd(c),
             d # c
      PROVE  StreamAloneAt(d)'
  <2>1. /\ ops'[d] = ops[d] /\ client'[d] = client[d]
        /\ server'[d] = server[d] /\ up'[d] = up[d] /\ down'[d] = down[d]
    BY <1>3, OthersStill
  <2>2. StreamAloneAt(d)
    BY <2>1 DEF StreamAlone
  <2>3. QED
    BY <2>1, <2>2, AloneKept
<1>4. CASE Disconnect(d) \/ SeeClose(d)
  <2>1. ~ client'[d].open
    BY <1>1, <1>4 DEF Disconnect, SeeClose, TypeOK, Client
  <2>2. QED
    BY <2>1
<1>5. CASE Request(d) \/ Close(d)
  <2>1. PICK kind \in Kinds :
          /\ Send(d, kind)
          /\ \/ client' = [client EXCEPT ![d].pending = TRUE]
             \/ kind = "CLOSE" /\ client' = client
    BY <1>5, SessionAssumption DEF Request, Close, Kinds
  <2>2. /\ client'[d].pending \/ kind = "CLOSE"
        /\ client'[d].open = client[d].open
    BY <1>1, <2>1 DEF TypeOK, Client
  <2>3. StreamAloneAt(d)
    BY <2>2 DEF StreamAlone
  <2>4. QED
    BY <2>1, <2>2, <2>3, IssueAlone
<1>6. CASE TakeReply(d)
  <2>1. /\ Kind(d) # "STREAM" /\ UNCHANGED <<server, up>>
        /\ down[d] # <<>> /\ down' = [down EXCEPT ![d] = Tail(down[d])]
    BY <1>6 DEF TakeReply
  <2>2. client'[d].open = client[d].open
    BY ZenonT(30), <1>1, <1>6 DEF TakeReply, TypeOK, Client
  <2>3. StreamAloneAt(d)
    BY <2>2 DEF StreamAlone
  <2>4. QED
    BY <2>1, <2>3, PlainAlone
<1>7. CASE TakeEvent(d)
  <2>1. CASE AbandonStream(d, Tail(down[d]))
    BY <1>1, <2>1 DEF AbandonStream, TypeOK, Client
  <2>2. CASE /\ Accepts(d, Head(down[d]))
             /\ client' = [client EXCEPT ![d].pending = ~ Head(down[d]).final]
             /\ down' = [down EXCEPT ![d] = Tail(down[d])]
             /\ UNCHANGED up
    <3>1. /\ client'[d].pending = ~ Head(down[d]).final
          /\ client'[d].open = client[d].open
      BY <1>1, <2>2 DEF TypeOK, Client
    <3>2. StreamAloneAt(d) /\ Head(down[d]).life
      BY <2>2, <3>1 DEF StreamAlone, Accepts
    <3>3. down[d] # <<>> /\ UNCHANGED <<ops, server>>
      BY <1>7 DEF TakeEvent
    <3>4. QED
      BY <2>2, <3>1, <3>2, <3>3, EventAlone
  <2>3. QED
    BY <1>7, <2>1, <2>2 DEF TakeEvent
<1>8. CASE ReadFails(d)
  <2>1. CASE AbandonStream(d, down[d])
    BY <1>1, <2>1 DEF AbandonStream, TypeOK, Client
  <2>2. CASE /\ Kind(d) # "STREAM"
             /\ client' = [client EXCEPT ![d].pending = FALSE, ![d].unanswered = TRUE]
             /\ UNCHANGED wires
    <3>1. client'[d].open = client[d].open
      BY <1>1, <2>2 DEF TypeOK, Client
    <3>2. StreamAloneAt(d)
      BY <3>1 DEF StreamAlone
    <3>3. UNCHANGED <<server, up, down>>
      BY <1>8, <2>2 DEF ReadFails, wires
    <3>4. QED
      BY <2>2, <3>2, <3>3, PlainAlone
  <2>3. QED
    BY <1>8, <2>1, <2>2 DEF ReadFails
<1>9. CASE \/ Read(d) \/ LookupEnds(d) \/ HandlerEnds(d)
           \/ StreamYields(d) \/ StreamEnds(d) \/ ReadEnd(d)
  <2>1. client' = client
    BY <1>9, ServerLeavesClient
  <2>2. StreamAloneAt(d) /\ client[d].open
    BY <2>1 DEF StreamAlone
  <2>3. QED
    BY <1>9, <2>2, ReadAlone, ServingAlone
<1>10. QED
  BY <1>2, <1>3, <1>4, <1>5, <1>6, <1>7, <1>8, <1>9 DEF Next

LEMMA StepNoneLeft ==
  Sound /\ StreamAlone /\ NoStreamLeftBehind /\ [Next]_vars => NoStreamLeftBehind'
<1> SUFFICES ASSUME Sound, StreamAlone, NoStreamLeftBehind, [Next]_vars, NEW d \in Conns,
                    client'[d].open, NEW n \in 1 .. Len(ops'[d]),
                    NEW i \in 1 .. Len(taken'[d][n]), taken'[d][n][i].life
             PROVE  taken'[d][n][i].n = n
  BY DEF NoStreamLeftBehind
<1>1. TypeOK /\ client[d] \in Client
  BY DEF Sound, TypeOK
<1>2. ASSUME client[d].open, n \in 1 .. Len(ops[d]), i \in 1 .. Len(taken[d][n]),
             taken'[d][n][i] = taken[d][n][i]
      PROVE  taken'[d][n][i].n = n
  BY <1>2 DEF NoStreamLeftBehind
<1>3. CASE UNCHANGED vars
  BY <1>2, <1>3 DEF vars, histories
<1>4. ASSUME NEW c \in Conns,
             \/ Request(c) \/ Close(c) \/ Disconnect(c) \/ SeeClose(c)
             \/ TakeReply(c) \/ TakeEvent(c) \/ ReadFails(c)
             \/ Read(c) \/ LookupEnds(c) \/ HandlerEnds(c)
             \/ StreamYields(c) \/ StreamEnds(c) \/ ReadEnd(c),
             d # c
      PROVE  taken'[d][n][i].n = n
  <2>1. ops'[d] = ops[d] /\ client'[d] = client[d] /\ taken'[d] = taken[d]
    BY <1>4, OthersStill
  <2>2. QED
    BY <1>2, <2>1
<1>5. CASE Disconnect(d) \/ SeeClose(d)
  <2>1. ~ client'[d].open
    BY <1>1, <1>5 DEF Disconnect, SeeClose, TypeOK, Client
  <2>2. QED
    BY <2>1
<1>6. CASE \/ Read(d) \/ LookupEnds(d) \/ HandlerEnds(d)
           \/ StreamYields(d) \/ StreamEnds(d) \/ ReadEnd(d)
  BY <1>2, <1>6, ServerLeavesClient
<1>7. CASE Request(d) \/ Close(d)
  <2>1. PICK kind \in Kinds :
          /\ Send(d, kind)
          /\ \/ client' = [client EXCEPT ![d].pending = TRUE]
             \/ kind = "CLOSE" /\ client' = client
    BY <1>7, SessionAssumption DEF Request, Close, Kinds
  <2>2. client'[d].open = client[d].open
    BY <1>1, <2>1 DEF TypeOK, Client
  <2>3. Len(ops'[d]) = Len(ops[d]) + 1 /\ taken'[d] = Append(taken[d], <<>>)
    BY <2>1, SendKeeps
  <2>4. /\ taken[d] \in Seq(Seq(Frame)) /\ Len(taken[d]) = Len(ops[d])
        /\ <<>> \in Seq(Frame) /\ Len(ops[d]) \in Nat
    BY QuietTypes, EmptySeq
  <2>5. /\ \A k \in 1 .. Len(ops[d]) : taken'[d][k] = taken[d][k]
        /\ taken'[d][Len(ops[d]) + 1] = <<>>
    BY <2>3, <2>4, AppendKeeps
  <2>6. CASE n \in 1 .. Len(ops[d])
    <3>1. taken'[d][n] = taken[d][n]
      BY <2>5, <2>6
    <3>2. QED
      BY <1>2, <2>2, <2>6, <3>1
  <2>7. CASE n \notin 1 .. Len(ops[d])
    <3>1. n = Len(ops[d]) + 1
      BY <2>3, <2>4, <2>7
    <3>2. taken'[d][n] = <<>>
      BY <2>5, <3>1
    <3>3. QED
      BY <3>2
  <2>8. QED
    BY <2>6, <2>7
<1>8. CASE TakeReply(d) \/ TakeEvent(d) \/ ReadFails(d)
  <2>1. client[d].open /\ n \in 1 .. Len(ops[d]) /\ client[d].pending
    <3>1. ops' = ops /\ client[d].pending
      BY <1>8 DEF TakeReply, TakeEvent, ReadFails
    <3>2. \/ ~ client'[d].open
          \/ client'[d].open = client[d].open
      <4>1. CASE TakeReply(d)
        <5>1. client'[d].open = client[d].open
          BY ZenonT(30), <1>1, <4>1 DEF TakeReply, TypeOK, Client
        <5>2. QED
          BY <5>1
      <4>2. CASE TakeEvent(d)
        <5>1. CASE AbandonStream(d, Tail(down[d]))
          BY <1>1, <5>1 DEF AbandonStream, TypeOK, Client
        <5>2. CASE client' = [client EXCEPT ![d].pending = ~ Head(down[d]).final]
          BY <1>1, <5>2 DEF TypeOK, Client
        <5>3. QED
          BY <4>2, <5>1, <5>2 DEF TakeEvent
      <4>3. CASE ReadFails(d)
        <5>1. CASE AbandonStream(d, down[d])
          BY <1>1, <5>1 DEF AbandonStream, TypeOK, Client
        <5>2. CASE client' = [client EXCEPT ![d].pending = FALSE, ![d].unanswered = TRUE]
          BY <1>1, <5>2 DEF TypeOK, Client
        <5>3. QED
          BY <4>3, <5>1, <5>2 DEF ReadFails
      <4>4. QED
        BY <1>8, <4>1, <4>2, <4>3
    <3>3. QED
      BY <3>1, <3>2
  <2>2. StreamAloneAt(d)
    BY <2>1 DEF StreamAlone
  <2>3. CASE taken' = taken
    BY <1>2, <2>1, <2>3
  <2>4. CASE Take(d, Head(down[d])) /\ down[d] # <<>>
             /\ (Head(down[d]).life => Head(down[d]).n = Current(d))
    <3>1. PICK f \in Frame : f = Head(down[d])
      BY <2>4, HeadOfDown
    <3>2. Take(d, f)
      BY <2>4, <3>1 DEF Take
    <3>3. \/ i \in 1 .. Len(taken[d][n]) /\ taken'[d][n][i] = taken[d][n][i]
          \/ n = Current(d) /\ taken'[d][n][i] = f
      BY <2>1, <3>2, TakenBefore
    <3>4. QED
      BY <1>2, <2>1, <2>4, <3>1, <3>3
  <2>5. CASE TakeReply(d) /\ Take(d, Head(down[d]))
    <3>1. Kind(d) # "STREAM" /\ down[d] # <<>>
      BY <2>5 DEF TakeReply
    <3>2. Streamless(d)
      BY <2>2, <3>1, StreamlessAlone DEF Streams
    <3>3. Len(down[d]) \in Nat \ {0} /\ Head(down[d]) = down[d][1]
      BY <3>1, QuietTypes, EmptySeq
    <3>4. ~ Head(down[d]).life
      BY <3>2, <3>3 DEF Streamless
    <3>5. QED
      BY <2>4, <2>5, <3>1, <3>4
  <2>6. CASE TakeEvent(d) /\ Accepts(d, Head(down[d])) /\ Take(d, Head(down[d]))
    BY <2>4, <2>6 DEF TakeEvent, Accepts
  <2>7. QED
    BY <1>8, <2>3, <2>5, <2>6 DEF TakeReply, TakeEvent, ReadFails, histories
<1>9. QED
  BY <1>3, <1>4, <1>5, <1>6, <1>7, <1>8 DEF Next

(* Streams and the operations before and after them do not mix, whatever   *)
(* times out, is refused, ends early or goes on too long: a stream passes  *)
(* on its own events without a gap and ends with the final one, or fails   *)
(* and takes its connection with it.                                       *)
THEOREM StreamsStayApart == Spec => []StreamsApart
<1>1. Init => EventsInOrder /\ StreamAlone /\ NoStreamLeftBehind
  <2> SUFFICES ASSUME Init PROVE EventsInOrder /\ StreamAlone /\ NoStreamLeftBehind
    OBVIOUS
  <2>1. EventsInOrder /\ NoStreamLeftBehind
    BY DEF Init, EventsInOrder, NoStreamLeftBehind
  <2>2. StreamAlone
    BY DEF Init, StreamAlone, StreamAloneAt, Emits
  <2>3. QED
    BY <2>1, <2>2
<1>2. EventsInOrder => StreamInOrder
  BY DEF EventsInOrder, EventsAt, StreamInOrder
<1>3. EventsInOrder /\ NoStreamLeftBehind => StreamsApart
  BY <1>2 DEF StreamsApart
<1>4. QED
  BY <1>1, <1>3, InitSound, StepSound, StepEvents, StepAlone, StepNoneLeft, PTL DEF Spec
=============================================================================
