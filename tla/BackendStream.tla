--------------------------- MODULE BackendStream ---------------------------
(***************************************************************************)
(* openaiCompatStreamingHandler (src/src/backends/openai_compat.ts): an    *)
(* upstream event stream is turned into partial events and one final event.*)
(* Text is gathered and passed on when there is enough of it, when a short *)
(* timer fires, or when the stream ends; one read is always outstanding,   *)
(* also while gathered text is flushed.                                    *)
(*                                                                         *)
(* Text is counted in units; the upstream is external and sends batches of *)
(* lines.                                                                  *)
(***************************************************************************)
EXTENDS Naturals, Sequences, FiniteSets

CONSTANTS
  BsBatches,  \* sequences of lines a read may return
  BsFull,     \* units that are passed on at once (256 bytes)
  BsReads     \* bound on the reads

ASSUME BsAssumption ==
  /\ BsBatches \subseteq Seq({"text", "done", "other", "bad"})
  /\ BsFull \in Nat \ {0} /\ BsReads \in Nat \ {0}

VARIABLES
  bsAt,      \* headers, reading, ended
  bsRead,    \* pendingRead: open, or what it resolved to
  bsCount,   \* reads issued
  bsOut,     \* units gathered in output
  bsSent,    \* units passed on in partial events
  bsGot,     \* units parsed (history)
  bsCame,    \* units in the batches read, up to [DONE] or a bad line (history)
  bsFinal    \* the final events, in order

BsVars == <<bsAt, bsRead, bsCount, bsOut, bsSent, bsGot, bsCame, bsFinal>>

BsOpen == [state |-> "open"]
BsClosed == [state |-> "end"]

BsTypeOK ==
  /\ bsAt \in {"headers", "reading", "ended"}
  /\ bsRead \in {BsOpen, BsClosed} \cup [state : {"lines"}, lines : BsBatches]
  /\ bsCount \in 0 .. BsReads
  /\ bsOut \in 0 .. BsFull - 1
  /\ bsSent \in Nat /\ bsGot \in Nat /\ bsCame \in Nat
  /\ bsFinal \in Seq({"success", "error", "incomplete", "timeout"})

BsInit ==
  /\ bsAt = "headers"
  /\ bsRead = BsOpen
  /\ bsCount = 0
  /\ bsOut = 0 /\ bsSent = 0 /\ bsGot = 0 /\ bsCame = 0
  /\ bsFinal = <<>>

BsFinish(kind) ==
  /\ bsAt' = "ended"
  /\ bsFinal' = Append(bsFinal, kind)

(* Headers: an error status or a missing body is final.                    *)
BsHeaders ==
  /\ bsAt = "headers"
  /\ \/ /\ bsAt' = "reading"
        /\ bsCount' = 1
        /\ UNCHANGED bsFinal
     \/ /\ BsFinish("error")
        /\ UNCHANGED bsCount
  /\ UNCHANGED <<bsRead, bsOut, bsSent, bsGot, bsCame>>

(* The lines with text in a batch, up to the one that ends the stream.     *)
BsTexts(lines) ==
  {i \in DOMAIN lines : /\ lines[i] = "text"
                        /\ \A j \in 1 .. i : lines[j] \notin {"done", "bad"}}

(* The upstream answers the outstanding read.                              *)
BsArrives ==
  /\ bsAt = "reading" /\ bsRead = BsOpen
  /\ \/ \E lines \in BsBatches :
          /\ bsRead' = [state |-> "lines", lines |-> lines]
          /\ bsCame' = bsCame + Cardinality(BsTexts(lines))
     \/ /\ bsRead' = BsClosed
        /\ UNCHANGED bsCame
  /\ UNCHANGED <<bsAt, bsCount, bsOut, bsSent, bsGot, bsFinal>>

\* Slip: a flush issues a read of its own.
BsFlushRead ==
  /\ bsAt = "reading" /\ bsOut > 0 /\ bsCount < BsReads
  /\ bsSent' = bsSent + bsOut
  /\ bsOut' = 0
  /\ bsRead' = BsOpen
  /\ bsCount' = bsCount + 1
  /\ UNCHANGED <<bsAt, bsGot, bsCame, bsFinal>>

(* 25 ms after the first gathered unit; the outstanding read stays.        *)
BsFlush ==
  /\ bsAt = "reading" /\ bsOut > 0
  /\ bsSent' = bsSent + bsOut
  /\ bsOut' = 0
  /\ UNCHANGED <<bsAt, bsRead, bsCount, bsGot, bsCame, bsFinal>>

\* Slip: the text that fills what is gathered is gathered too.
BsLineLate(s, line) ==
  IF s.final # "none" THEN s
  ELSE CASE line = "other" -> s
         [] line = "bad"  -> [s EXCEPT !.final = "error"]
         [] line = "done" -> [s EXCEPT !.final = "success", !.sent = s.sent + s.out, !.out = 0]
         [] line = "text" ->
              IF s.out >= BsFull
              THEN [s EXCEPT !.got = s.got + 1, !.sent = s.sent + s.out + 1, !.out = 0]
              ELSE [s EXCEPT !.got = s.got + 1, !.out = s.out + 1]

(* One line, given what the lines before it have done.                     *)
BsLine(s, line) ==
  IF s.final # "none" THEN s
  ELSE CASE line = "other" -> s
         [] line = "bad"  -> [s EXCEPT !.final = "error"]
         [] line = "done" -> [s EXCEPT !.final = "success", !.sent = s.sent + s.out, !.out = 0]
         [] line = "text" ->
              IF s.out + 1 >= BsFull
              THEN [s EXCEPT !.got = s.got + 1, !.sent = s.sent + s.out + 1, !.out = 0]
              ELSE [s EXCEPT !.got = s.got + 1, !.out = s.out + 1]

BsGathered == [out |-> bsOut, sent |-> bsSent, got |-> bsGot, final |-> "none"]

BsScan(s, lines) ==
  LET after[i \in 0 .. Len(lines)] ==
        IF i = 0 THEN s ELSE BsLine(after[i - 1], lines[i])
  IN after[Len(lines)]

(* A batch: the next read is issued first, then the lines are scanned.     *)
BsLines ==
  LET s == BsScan(BsGathered, bsRead.lines) IN
  /\ bsAt = "reading" /\ bsRead.state = "lines"
  /\ s.final # "none" \/ bsCount < BsReads
  /\ bsRead' = BsOpen
  /\ bsCount' = IF bsCount < BsReads THEN bsCount + 1 ELSE bsCount
  /\ bsOut' = s.out /\ bsSent' = s.sent /\ bsGot' = s.got
  /\ \/ s.final = "none" /\ UNCHANGED <<bsAt, bsFinal>>
     \/ s.final # "none" /\ BsFinish(s.final)
  /\ UNCHANGED bsCame

(* The stream ends before [DONE].                                          *)
BsEnds ==
  /\ bsAt = "reading" /\ bsRead.state = "end"
  /\ bsSent' = bsSent + bsOut
  /\ bsOut' = 0
  /\ BsFinish("incomplete")
  /\ UNCHANGED <<bsRead, bsCount, bsGot, bsCame>>

(* The timer runs from the request to the last event; a read or a request  *)
(* may fail as well.                                                       *)
BsAborts ==
  /\ bsAt \in {"headers", "reading"}
  /\ BsFinish("timeout")
  /\ UNCHANGED <<bsRead, bsCount, bsOut, bsSent, bsGot, bsCame>>

BsFails ==
  /\ bsAt \in {"headers", "reading"} /\ bsRead = BsOpen
  /\ BsFinish("error")
  /\ UNCHANGED <<bsRead, bsCount, bsOut, bsSent, bsGot, bsCame>>

BsNext == BsHeaders \/ BsArrives \/ BsFlush \/ BsLines \/ BsEnds \/ BsAborts \/ BsFails

BsSpec == BsInit /\ [][BsNext]_BsVars

-----------------------------------------------------------------------------
(* The stream has one final event; when it says the stream succeeded or    *)
(* stopped early, all the text that came before has been passed on, and at *)
(* any time no text is lost between a read and a flush.                    *)
BsNothingLost ==
  /\ Len(bsFinal) <= 1
  /\ bsGot = bsSent + bsOut
  /\ bsFinal \in {<<"success">>, <<"incomplete">>} => bsSent = bsCame
=============================================================================
