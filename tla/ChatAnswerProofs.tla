-------------------------- MODULE ChatAnswerProofs --------------------------
(***************************************************************************)
(* A cancelled turn stays silent, and the preview of a turn is a prefix of *)
(* its answer; for any answer, any number of faults and calls under way.   *)
(***************************************************************************)
EXTENDS ChatAnswer, SequenceTheorems, TLAPS

\* CancelledIsSilent is not inductive: a turn is put up where the stream has a
\* place for it (streamTurnId), so what matters is that a cancelled turn has
\* none, and that nothing is shown without one.
Silent(c) ==
  /\ {"cancelled", "slot", "shown"} \subseteq DOMAIN c
  /\ {c.cancelled, c.slot, c.shown} \subseteq BOOLEAN
  /\ c.cancelled => ~c.slot
  /\ c.shown => c.slot

-----------------------------------------------------------------------------
(* What the handlers are made of keeps it *)

\* Silent tells chats apart by three fields.
LEMMA SameTurn ==
  ASSUME NEW c, NEW d, Silent(c), DOMAIN d = DOMAIN c,
         d.cancelled = c.cancelled, d.slot = c.slot, d.shown = c.shown
  PROVE  Silent(d)
  BY DEF Silent

LEMMA HideSilent == ASSUME NEW c, Silent(c) PROVE Silent(Hide(c))
  BY DEF Silent, Hide

\* Nothing is put up where the stream has no place.
LEMMA EnsureSilent == ASSUME NEW c, Silent(c) PROVE Silent(Ensure(c))
  BY DEF Silent, Ensure

LEMMA IdleSilent == ASSUME NEW c, Silent(c) PROVE Silent(Idle(c))
  BY DEF Silent, Idle

LEMMA AskedSilent == ASSUME NEW c, Silent(c), NEW by, NEW at PROVE Silent(Asked(c, by, at))
  BY DEF Silent, Asked

LEMMA RefreshSilent ==
  ASSUME NEW c, Silent(c) PROVE Silent(Refresh(c)) /\ Silent(RefreshBoth(c))
  BY AskedSilent DEF Refresh, RefreshBoth

LEMMA LoadingSilent == ASSUME NEW c, Silent(c) PROVE Silent(Loading(c))
  BY DEF Silent, Loading

LEMMA TailSyncSilent == ASSUME NEW c, Silent(c) PROVE Silent(TailSync(c))
  BY DEF Silent, TailSync

LEMMA ResyncSilent == ASSUME NEW c, Silent(c) PROVE Silent(Resync(c))
<1> DEFINE d == [c EXCEPT !.buffer = <<>>, !.degraded = TRUE, !.spoiled = @ \/ c.buffer # <<>>]
           e == [d EXCEPT !.calls = @ \cup {Call("resync", "load")}]
<1>1. Silent(d)
  BY DEF Silent
<1>2. Silent(e)
  <2> HIDE DEF d
  <2> QED BY <1>1 DEF Silent
<1>3. Silent(Asked(d, "resync", "live")) /\ Silent(Loading(e))
  <2> HIDE DEF d, e
  <2> QED BY <1>1, <1>2, AskedSilent, LoadingSilent
<1>4. Resync(c) \in {d, Asked(d, "resync", "live"), Loading(e)}
  <2> HIDE DEF d, e
  <2>1. Resync(c) = IF Under(c, "resync") THEN d
                    ELSE IF c.exec THEN Asked(d, "resync", "live") ELSE Loading(e)
    BY DEF Resync, d, e
  <2> QED BY <2>1
<1> HIDE DEF d, e
<1> QED BY <1>1, <1>3, <1>4

LEMMA AdoptSilent == ASSUME NEW c, Silent(c) PROVE Silent(Adopt(c))
  BY EnsureSilent DEF Silent, Adopt, Ensure, Hide

LEMMA AdoptCompleteSilent == ASSUME NEW c, Silent(c) PROVE Silent(AdoptComplete(c))
  BY DEF Silent, AdoptComplete, Idle, Hide

LEMMA CancelledSilent == ASSUME NEW c, Silent(c) PROVE Silent(Cancelled(c))
  BY DEF Silent, Cancelled, Hide, Idle

-----------------------------------------------------------------------------
(* Events *)

LEMMA QueueSilent == ASSUME NEW c, Silent(c), NEW piece PROVE Silent(Queue(c, piece))
  BY DEF Silent, Queue

LEMMA DeltaSilent == ASSUME NEW c, Silent(c), NEW e PROVE Silent(Delta(c, e))
<1> DEFINE d == [Ensure(c) EXCEPT !.consumed = e.to]
<1>1. Silent(d)
  BY EnsureSilent DEF Silent
<1>2. Silent(Queue(d, Overlap(c, e.from, e.to)))
  <2> HIDE DEF d
  <2> QED BY <1>1, QueueSilent
<1>3. Delta(c, e) = IF e.from > c.consumed THEN Resync(c)
                    ELSE IF e.to <= c.consumed THEN c
                    ELSE Queue(d, Overlap(c, e.from, e.to))
  BY DEF Delta
<1> HIDE DEF d
<1> QED BY <1>2, <1>3, ResyncSilent

LEMMA HandleSilent == ASSUME NEW c, Silent(c), NEW e PROVE Silent(Handle(c, e))
<1> DEFINE adopted == [Adopt(c) EXCEPT !.ended = FALSE]
           settled == [Idle(c) EXCEPT !.settled = c.shown]
           failed == [Idle(c) EXCEPT !.ended = TRUE]
           b == Ensure(c)
           ended == [b EXCEPT !.ended = @ \/ c.exec]
<1>1. Silent(adopted)
  BY AdoptSilent DEF Silent
<1>2. Silent(settled) /\ Silent(failed) /\ Silent(ended)
  BY IdleSilent, EnsureSilent DEF Silent
<1>3. Handle(c, e) \in {Resync(c), Cancelled(c), c, adopted, RefreshBoth(TailSync(settled)),
                        TailSync(c), Delta(c, e), ended, RefreshBoth(failed)}
  BY Zenon DEF Handle
<1> HIDE DEF adopted, settled, failed, ended
<1> QED BY <1>1, <1>2, <1>3, ResyncSilent, CancelledSilent, RefreshSilent, TailSyncSilent, DeltaSilent

-----------------------------------------------------------------------------
(* Snapshots and the transcript *)

LEMMA RewrittenSilent == ASSUME NEW c, Silent(c), NEW s PROVE Silent(Rewritten(c, s))
<1> DEFINE b == [c EXCEPT !.consumed = s.bytes]
           d == Ensure(b)
           e == [d EXCEPT !.text = IF d.shown THEN Bytes(0, s.bytes) ELSE @,
                          !.spoiled = d.buffer # <<>>]
<1>1. Silent(b)
  BY DEF Silent
<1>2. Silent(d) /\ Silent(Hide(b))
  <2> HIDE DEF b
  <2> QED BY <1>1, EnsureSilent, HideSilent
<1>3. Silent(e)
  <2> HIDE DEF d
  <2> QED BY <1>2 DEF Silent
<1>4. Rewritten(c, s) \in {Hide(b), e}
  BY DEF Rewritten
<1> HIDE DEF b, d, e
<1> QED BY <1>2, <1>3, <1>4

LEMMA ApplySilent == ASSUME NEW c, Silent(c), NEW s PROVE Silent(Apply(c, s))
<1> DEFINE d == [c EXCEPT !.ended = s.status \in Terminal, !.degraded = @ /\ ~Recovers(c, s)]
           over == [Hide(d) EXCEPT !.buffer = <<>>, !.consumed = 0, !.slot = FALSE,
                                   !.cancelled = TRUE]
           e == CASE s.status = "cancelled" -> over
                  [] s.status # "cancelled" /\ s.bytes > 0 -> Rewritten(d, s)
                  [] OTHER -> d
<1>1. Silent(d)
  BY DEF Silent
<1>2. Silent(over)
  <2> HIDE DEF d
  <2> QED BY <1>1 DEF Silent, Hide
<1>3. Silent(e)
  <2> HIDE DEF d, over
  <2> QED BY <1>1, <1>2, RewrittenSilent
<1>4. Apply(c, s) = IF Superseded(c, s) THEN c
                    ELSE IF s.status \notin Terminal THEN e
                    ELSE IF c.pending THEN TailSync(Idle(e)) ELSE Idle(e)
  BY DEF Apply
<1> HIDE DEF e
<1> QED BY <1>3, <1>4, IdleSilent, TailSyncSilent

LEMMA GotoSilent == ASSUME NEW c, Silent(c), NEW x, NEW then PROVE Silent(Goto(c, x, then))
<1> DEFINE d == IF then = "load" THEN Loading(c) ELSE c
           e == [d EXCEPT !.calls = (@ \ {x}) \cup (IF then = "done" THEN {} ELSE {Call(x.by, then)})]
<1>1. Silent(d)
  BY LoadingSilent
<1>2. Silent(e)
  <2> HIDE DEF d
  <2> QED BY <1>1 DEF Silent
<1> QED BY <1>2 DEF Goto

LEMMA LoadedSilent ==
  ASSUME NEW c, Silent(c), NEW durable PROVE Silent(Loaded(c, durable))
<1> DEFINE text == IF c.shown THEN c.text \o c.buffer ELSE <<>>
           keep == text # <<>> /\ ~durable
           b == IF keep THEN [c EXCEPT !.text = text] ELSE Hide(c)
           d == [b EXCEPT !.buffer = <<>>, !.answer = durable]
           e == IF durable \/ d.settled THEN AdoptComplete(d) ELSE d
<1>1. Silent(b)
  <2> HIDE DEF text, keep
  <2>1. Silent([c EXCEPT !.text = text])
    BY DEF Silent
  <2> QED BY <2>1, HideSilent DEF b
<1>2. Silent(d)
  <2> HIDE DEF b
  <2> QED BY <1>1 DEF Silent
<1>3. Silent(e)
  <2> HIDE DEF d
  <2> QED BY <1>2, AdoptCompleteSilent
<1>4. Loaded(c, durable) = IF e.exec /\ e.pending THEN Refresh(Ensure(e)) ELSE e
  BY DEF Loaded
<1> HIDE DEF e
<1> QED BY <1>3, <1>4, EnsureSilent, RefreshSilent

LEMMA LoadOverSilent == ASSUME NEW c, Silent(c), NEW x PROVE Silent(LoadOver(c, x))
<1> DEFINE d == [c EXCEPT !.degraded = @ /\ ~c.answer]
<1>1. Silent(d)
  BY DEF Silent
<1> HIDE DEF d
<1> QED BY <1>1, GotoSilent DEF LoadOver, d

-----------------------------------------------------------------------------
(* Steps *)

SilentInv == Silent(chat)

LEMMA SilentInit == Init => SilentInv
  BY DEF Init, NewChat, SilentInv, Silent

LEMMA ReceiveSilent == ASSUME SilentInv, Receive PROVE SilentInv'
  BY HandleSilent DEF SilentInv, Receive

LEMMA FlushSilent == ASSUME SilentInv, Flush PROVE SilentInv'
  BY DEF SilentInv, Silent, Flush

LEMMA SnapshotSilent ==
  ASSUME SilentInv, NEW x \in chat.calls, NEW s, SnapshotAnswered(x, s) PROVE SilentInv'
<1> DEFINE b == [chat EXCEPT !.calls = @ \ {x}]
           c == IF x.at = "projection" /\ s.status = "cancelled" THEN Cancelled(b) ELSE b
<1>1. Silent(b)
  BY DEF SilentInv, Silent
<1>2. Silent(c)
  <2> HIDE DEF b
  <2> QED BY <1>1, CancelledSilent
<1>3. PICK then : chat' = Goto(Apply(c, s), x, then)
  BY DEF SnapshotAnswered
<1> HIDE DEF c
<1> QED BY <1>2, <1>3, ApplySilent, GotoSilent DEF SilentInv

LEMMA AnsweredSilent ==
  ASSUME SilentInv, NEW x \in chat.calls, Answered(x) PROVE SilentInv'
<1>1. PICK n : IF x.at = "load" THEN chat' = LoadOver(Loaded(chat, gateway[n].durable), x)
               ELSE SnapshotAnswered(x, gateway[n])
  BY DEF Answered
<1>2. CASE x.at = "load"
  BY <1>1, <1>2, LoadedSilent, LoadOverSilent DEF SilentInv
<1>3. CASE x.at # "load"
  BY <1>1, <1>3, SnapshotSilent
<1> QED BY <1>2, <1>3

LEMMA FlightSilent == ASSUME SilentInv, Flight PROVE SilentInv'
<1>1. PICK x \in chat.calls : WaitOver(x) \/ Answered(x)
  BY DEF Flight, Step
<1>2. CASE WaitOver(x)
  BY <1>2, GotoSilent DEF SilentInv, WaitOver
<1>3. CASE Answered(x)
  BY <1>3, AnsweredSilent
<1> QED BY <1>1, <1>2, <1>3

LEMMA TailAnsweredSilent == ASSUME SilentInv, TailAnswered PROVE SilentInv'
<1> DEFINE c == [chat EXCEPT !.tail = Unasked]
           d == [(IF c.exec THEN Hide(c) ELSE c) EXCEPT !.answer = TRUE]
<1>1. Silent(c)
  BY DEF SilentInv, Silent
<1>2. Silent(d)
  <2> HIDE DEF c
  <2> QED BY <1>1, HideSilent DEF Silent
<1>3. chat' \in {c, d}
  BY DEF TailAnswered
<1> HIDE DEF c, d
<1> QED BY <1>1, <1>2, <1>3 DEF SilentInv

LEMMA TickSilent == ASSUME SilentInv, Tick PROVE SilentInv'
<1>1. Silent([chat EXCEPT !.timer = FALSE])
  BY DEF SilentInv, Silent
<1> QED BY <1>1, AskedSilent DEF SilentInv, Tick

LEMMA ReceiptSilent == ASSUME SilentInv, Receipt PROVE SilentInv'
<1>1. Silent(Adopt(chat))
  BY AdoptSilent DEF SilentInv
<1> QED BY <1>1 DEF SilentInv, Silent, Receipt

LEMMA StopAnsweredSilent == ASSUME SilentInv, StopAnswered PROVE SilentInv'
  BY CancelledSilent, RefreshSilent DEF SilentInv, StopAnswered

LEMMA CallFailsSilent == ASSUME SilentInv, CallFails PROVE SilentInv'
<1> DEFINE d == [chat EXCEPT !.degraded = TRUE]
<1>1. Silent(d)
  BY DEF SilentInv, Silent
<1>2. PICK x, then : chat' \in {LoadOver(d, x), Goto(chat, x, then)}
  BY DEF CallFails
<1> HIDE DEF d
<1> QED BY <1>1, <1>2, LoadOverSilent, GotoSilent DEF SilentInv

LEMMA TailFailsSilent == ASSUME SilentInv, TailFails PROVE SilentInv'
  BY DEF SilentInv, Silent, TailFails

LEMMA ReceiptLostSilent == ASSUME SilentInv, ReceiptLost PROVE SilentInv'
<1>1. Silent(Hide(Idle(chat)))
  BY IdleSilent, HideSilent DEF SilentInv
<1> HIDE DEF Hide, Idle
<1> QED BY <1>1 DEF SilentInv, Silent, ReceiptLost, Hide

LEMMA SilentStep == SilentInv /\ [Next]_vars => SilentInv'
<1> SUFFICES ASSUME SilentInv, [Next]_vars PROVE SilentInv'
  OBVIOUS
<1>1. CASE Page
  BY <1>1, ReceiveSilent, FlushSilent, FlightSilent, TailAnsweredSilent, TickSilent,
     ReceiptSilent, StopAnsweredSilent DEF Page
<1>2. CASE Stop \/ Server
  BY <1>2 DEF SilentInv, Stop, Server, Start, Produce, Finish, Commit, Break, Cancel
<1>3. CASE Faults
  <2>1. CASE Lose \/ Repeat
    BY <2>1 DEF SilentInv, Lose, Repeat
  <2> QED BY <1>3, <2>1, CallFailsSilent, TailFailsSilent, ReceiptLostSilent DEF Faults
<1>4. CASE UNCHANGED vars
  BY <1>4 DEF SilentInv, vars
<1> QED BY <1>1, <1>2, <1>3, <1>4 DEF Next

\* No event, answer, load, frame or receipt brings the preview of a cancelled
\* turn back, for every answer, and every number of faults and of calls under
\* way (recordCancellationReceipt, applyRecoveredLive, ensureStreamTurn).
THEOREM CancelledStaysSilent == Spec => []CancelledIsSilent
<1>1. SilentInv => CancelledIsSilent
  BY DEF SilentInv, Silent, CancelledIsSilent
<1> QED BY <1>1, SilentInit, SilentStep, PTL DEF Spec

-----------------------------------------------------------------------------
(***************************************************************************)
(* The preview is a prefix of the answer.                                  *)
(***************************************************************************)

\* A flight that was forgotten goes by the name of the call it left behind.
Calls == [by : Callers \cup Stages, at : Stages, since : Nat \ {0}]

Fields == {"exec", "slot", "shown", "spoiled", "text", "buffer", "consumed", "calls"}

Shaped(c) ==
  /\ Fields \subseteq DOMAIN c
  /\ {c.exec, c.slot, c.shown, c.spoiled} \subseteq BOOLEAN
  /\ c.consumed \in Nat /\ c.text \in Seq(Nat) /\ c.buffer \in Seq(Nat)
  /\ c.calls \subseteq Calls

\* ShownIsPrefix is not inductive: what was accepted before there was a turn to
\* show it must not be taken for the beginning of a new one's text, and a call
\* must not be answered with what the gateway never was.
Whole(c) ==
  /\ Shaped(c)
  /\ c.consumed = 0 => c.buffer = <<>>
  /\ ~c.shown => c.text = <<>>
  /\ c.exec /\ c.shown /\ ~c.spoiled => c.text \o c.buffer = Bytes(0, c.consumed)

Snapshots == [bytes : Nat, status : Statuses, durable : BOOLEAN]
Kinds == {"resync", "cancelled", "user", "terminal", "delta", "phase", "error"}
Events == [kind : Kinds, from : Nat, to : Nat]

WholeInv ==
  /\ Whole(chat)
  /\ gateway \in Seq(Snapshots) /\ gateway # <<>>
  /\ stream \in Seq(Events)

-----------------------------------------------------------------------------
(* Bytes *)

LEMMA BytesKnown ==
  ASSUME NEW m \in Nat, NEW n \in Nat, m <= n
  PROVE  Bytes(m, n) \in Seq(Nat) /\ Len(Bytes(m, n)) = n - m
BY DEF Bytes

LEMMA NoBytes == Bytes(0, 0) = <<>> /\ <<>> \o <<>> = <<>>
<1>1. Bytes(0, 0) \in Seq(Nat) /\ Len(Bytes(0, 0)) = 0
  BY BytesKnown
<1>2. \A s \in Seq(Nat) : Len(s) = 0 => s = <<>>
  OBVIOUS
<1>3. <<>> \in Seq(Nat)
  OBVIOUS
<1> QED BY <1>1, <1>2, <1>3, ConcatEmptySeq

LEMMA BytesJoined ==
  ASSUME NEW m \in Nat, NEW n \in Nat, m <= n
  PROVE  Bytes(0, m) \o Bytes(m, n) = Bytes(0, n)
<1> DEFINE a == Bytes(0, m)
           b == Bytes(m, n)
           ab == Bytes(0, n)
<1>1. a \in Seq(Nat) /\ Len(a) = m
  <2>1. 0 \in Nat /\ 0 <= m /\ m - 0 = m
    OBVIOUS
  <2> QED BY <2>1, BytesKnown
<1>2. ab \in Seq(Nat) /\ Len(ab) = n
  <2>1. 0 \in Nat /\ 0 <= n /\ n - 0 = n
    OBVIOUS
  <2> QED BY <2>1, BytesKnown
<1>3. b \in Seq(Nat) /\ Len(b) = n - m
  BY BytesKnown
<1>4. /\ \A i \in 1 .. m : a[i] = i
      /\ \A i \in 1 .. n - m : b[i] = m + i
      /\ \A i \in 1 .. n : ab[i] = i
  BY DEF Bytes
<1> HIDE DEF a, b, ab
<1>5. /\ a \o b \in Seq(Nat) /\ Len(a \o b) = n
      /\ \A i \in 1 .. n : (a \o b)[i] = IF i <= m THEN a[i] ELSE b[i - m]
  <2>1. /\ a \o b \in Seq(Nat) /\ Len(a \o b) = Len(a) + Len(b)
        /\ \A i \in 1 .. Len(a) + Len(b) :
             (a \o b)[i] = IF i <= Len(a) THEN a[i] ELSE b[i - Len(a)]
    BY <1>1, <1>3, ConcatProperties
  <2>2. Len(a) + Len(b) = n
    BY <1>1, <1>3
  <2> QED BY <1>1, <2>1, <2>2
<1>6. ASSUME NEW i \in 1 .. n PROVE (a \o b)[i] = ab[i]
  <2>1. CASE i <= m
    BY <1>4, <1>5, <2>1
  <2>2. CASE ~(i <= m)
    <3>1. i - m \in 1 .. n - m
      BY <2>2
    <3> QED BY <1>4, <1>5, <2>2, <3>1
  <2> QED BY <2>1, <2>2
<1>7. a \o b = ab
  BY <1>2, <1>5, <1>6, SeqEqual
<1> QED BY <1>7 DEF a, b, ab

LEMMA Associative ==
  ASSUME NEW s \in Seq(Nat), NEW t \in Seq(Nat), NEW u \in Seq(Nat)
  PROVE  (s \o t) \o u = s \o (t \o u)
<1> DEFINE a == (s \o t) \o u
           b == s \o (t \o u)
           n == Len(s) + Len(t) + Len(u)
<1>1. Len(s) \in Nat /\ Len(t) \in Nat /\ Len(u) \in Nat
  OBVIOUS
<1>2. /\ s \o t \in Seq(Nat) /\ Len(s \o t) = Len(s) + Len(t)
      /\ \A i \in 1 .. Len(s) + Len(t) : (s \o t)[i] = IF i <= Len(s) THEN s[i] ELSE t[i - Len(s)]
  BY ConcatProperties
<1>3. /\ t \o u \in Seq(Nat) /\ Len(t \o u) = Len(t) + Len(u)
      /\ \A i \in 1 .. Len(t) + Len(u) : (t \o u)[i] = IF i <= Len(t) THEN t[i] ELSE u[i - Len(t)]
  BY ConcatProperties
<1>4. /\ a \in Seq(Nat) /\ Len(a) = n
      /\ \A i \in 1 .. n : a[i] = IF i <= Len(s \o t) THEN (s \o t)[i] ELSE u[i - Len(s \o t)]
  BY <1>2, ConcatProperties
<1>5. /\ b \in Seq(Nat) /\ Len(b) = n
      /\ \A i \in 1 .. n : b[i] = IF i <= Len(s) THEN s[i] ELSE (t \o u)[i - Len(s)]
  <2>1. Len(s) + (Len(t) + Len(u)) = n
    BY <1>1
  <2> QED BY <1>3, <2>1, ConcatProperties
<1> HIDE DEF a, b
<1>6. ASSUME NEW i \in 1 .. n PROVE a[i] = b[i]
  <2>1. CASE i <= Len(s)
    <3>1. i \in 1 .. Len(s) + Len(t) /\ i <= Len(s \o t)
      BY <1>1, <1>2, <2>1
    <3>2. a[i] = (s \o t)[i] /\ (s \o t)[i] = s[i]
      BY <1>2, <1>4, <2>1, <3>1
    <3>3. b[i] = s[i]
      BY <1>5, <2>1
    <3> QED BY <3>2, <3>3
  <2>2. CASE ~(i <= Len(s)) /\ i <= Len(s) + Len(t)
    <3>1. a[i] = t[i - Len(s)]
      BY <1>1, <1>2, <1>4, <2>2
    <3>2. i - Len(s) \in 1 .. Len(t) + Len(u) /\ i - Len(s) <= Len(t)
      BY <1>1, <2>2
    <3>3. b[i] = (t \o u)[i - Len(s)]
      BY <1>5, <2>2
    <3> QED BY <1>3, <3>1, <3>2, <3>3
  <2>3. CASE ~(i <= Len(s) + Len(t))
    <3>1. a[i] = u[i - (Len(s) + Len(t))]
      BY <1>2, <1>4, <2>3
    <3>2. /\ i - Len(s) \in 1 .. Len(t) + Len(u) /\ ~(i - Len(s) <= Len(t)) /\ ~(i <= Len(s))
          /\ i - Len(s) - Len(t) = i - (Len(s) + Len(t))
      BY <1>1, <2>3
    <3>3. b[i] = (t \o u)[i - Len(s)]
      BY <1>5, <3>2
    <3> QED BY <1>3, <3>1, <3>2, <3>3
  <2> QED BY <2>1, <2>2, <2>3
<1>7. a = b
  <2>1. n \in Nat
    BY <1>1
  <2> QED BY <1>4, <1>5, <1>6, <2>1, SeqEqual
<1> QED BY <1>7 DEF a, b

\* A frame paints the first n bytes that wait.
LEMMA Painted ==
  ASSUME NEW t \in Seq(Nat), NEW b \in Seq(Nat), NEW n \in 1 .. Len(b)
  PROVE  /\ SubSeq(b, 1, n) \in Seq(Nat) /\ SubSeq(b, n + 1, Len(b)) \in Seq(Nat)
         /\ t \o SubSeq(b, 1, n) \in Seq(Nat)
         /\ (t \o SubSeq(b, 1, n)) \o SubSeq(b, n + 1, Len(b)) = t \o b
<1> DEFINE x == SubSeq(b, 1, n)
           y == SubSeq(b, n + 1, Len(b))
<1>1. Len(b) \in Nat /\ n \in Nat /\ n >= 1 /\ n <= Len(b)
  OBVIOUS
<1>2. x \in Seq(Nat) /\ y \in Seq(Nat)
  <2>1. /\ \A i \in 1 .. n : b[i] \in Nat
        /\ \A i \in n + 1 .. Len(b) : b[i] \in Nat
    BY <1>1
  <2> QED BY <1>1, <2>1, SubSeqProperties
<1>3. x \o y = SubSeq(b, 1, Len(b))
  <2>1. 1 \in 1 .. Len(b) + 1 /\ n \in 1 - 1 .. Len(b) /\ Len(b) \in n .. Len(b)
    BY <1>1
  <2> QED BY <2>1, ConcatAdjacentSubSeq
<1>4. SubSeq(b, 1, Len(b)) = b
  BY SubSeqFull
<1> HIDE DEF x, y
<1>5. t \o x \in Seq(Nat) /\ (t \o x) \o y = t \o (x \o y)
  <2>1. t \o x \in Seq(Nat)
    BY <1>2, ConcatProperties
  <2>2. (t \o x) \o y = t \o (x \o y)
    BY <1>2, Associative
  <2> QED BY <2>1, <2>2, Zenon
<1> QED BY <1>2, <1>3, <1>4, <1>5 DEF x, y

LEMMA Joined ==
  ASSUME NEW t \in Seq(Nat), NEW b \in Seq(Nat), NEW p \in Seq(Nat)
  PROVE  /\ t \o b \in Seq(Nat) /\ b \o p \in Seq(Nat)
         /\ t \o (b \o p) = (t \o b) \o p
         /\ t \o <<>> = t
<1>1. t \o b \in Seq(Nat) /\ b \o p \in Seq(Nat)
  BY ConcatProperties
<1>2. t \o (b \o p) = (t \o b) \o p
  BY Associative
<1>3. t \o <<>> = t
  BY ConcatEmptySeq
<1> QED BY <1>1, <1>2, <1>3

-----------------------------------------------------------------------------
(* What the handlers are made of keeps it *)

\* Whole tells chats apart by the Fields.
LEMMA SameText ==
  ASSUME NEW c, NEW d, Whole(c), DOMAIN d = DOMAIN c,
         d.exec = c.exec, d.slot = c.slot, d.shown = c.shown, d.spoiled = c.spoiled,
         d.text = c.text, d.buffer = c.buffer, d.consumed = c.consumed,
         d.calls \subseteq Calls
  PROVE  Whole(d)
  BY DEF Whole, Shaped, Fields

\* Nothing is claimed of a preview that is not shown or not whole.
LEMMA Unclaimed ==
  ASSUME NEW c,
         Shaped(c), c.consumed = 0 => c.buffer = <<>>,
         (~c.shown /\ c.text = <<>>) \/ (c.shown /\ c.spoiled)
  PROVE  Whole(c)
  BY DEF Whole, Shaped, Fields

LEMMA HideWhole == ASSUME NEW c, Whole(c) PROVE Whole(Hide(c))
<1> DEFINE d == Hide(c)
<1>1. /\ DOMAIN d = DOMAIN c /\ d.exec = c.exec /\ d.slot = c.slot /\ d.shown = FALSE
      /\ d.spoiled = c.spoiled /\ d.text = <<>> /\ d.buffer = c.buffer
      /\ d.consumed = c.consumed /\ d.calls = c.calls
  BY DEF Hide, Whole, Shaped
<1> HIDE DEF d
<1>2. /\ {d.exec, d.slot, d.shown, d.spoiled} \subseteq BOOLEAN
      /\ d.text \in Seq(Nat) /\ d.buffer \in Seq(Nat) /\ ~d.shown
  <2>1. {c.exec, c.slot, FALSE, c.spoiled} \subseteq BOOLEAN
    BY Zenon DEF Whole, Shaped, Fields
  <2>2. {d.exec, d.slot, d.shown, d.spoiled} \subseteq BOOLEAN
    BY <1>1, <2>1, Zenon
  <2>3. d.text \in Seq(Nat) /\ d.buffer \in Seq(Nat)
    BY <1>1 DEF Whole, Shaped, Fields
  <2> QED BY <1>1, <2>2, <2>3, Zenon
<1>3. Whole(d)
  BY <1>1, <1>2, Unclaimed DEF Whole, Shaped, Fields
<1> QED BY <1>3 DEF d

LEMMA EnsureWhole ==
  ASSUME NEW c, Whole(c)
  PROVE  /\ Whole(Ensure(c)) /\ DOMAIN Ensure(c) = DOMAIN c
         /\ Ensure(c).exec = c.exec /\ Ensure(c).consumed = c.consumed
         /\ Ensure(c).buffer = c.buffer /\ Ensure(c).calls = c.calls
         /\ Ensure(c).slot = c.slot /\ Ensure(c).shown = (c.shown \/ c.slot)
<1> DEFINE d == Ensure(c)
<1>1. /\ DOMAIN d = DOMAIN c /\ d.exec = c.exec /\ d.slot = c.slot
      /\ d.shown = (c.shown \/ c.slot)
      /\ d.spoiled = (c.spoiled \/ (c.slot /\ ~c.shown /\ c.consumed > 0))
      /\ d.text = c.text /\ d.buffer = c.buffer /\ d.consumed = c.consumed /\ d.calls = c.calls
  BY DEF Ensure, Whole, Shaped
<1> HIDE DEF d
<1>2. CASE c.shown \/ ~c.slot
  <2>1. d.shown = c.shown /\ d.spoiled = c.spoiled
    BY <1>1, <1>2 DEF Whole, Shaped, Fields
  <2> QED BY <1>1, <2>1, SameText DEF Whole, Shaped, Fields, d
<1>3. CASE ~c.shown /\ c.slot /\ c.consumed = 0
  <2>1. d.text \o d.buffer = Bytes(0, d.consumed)
    BY <1>1, <1>3, NoBytes DEF Whole, Shaped, Fields
  <2>2. d.shown = TRUE /\ d.spoiled = c.spoiled
    <3>1. ~(c.consumed > 0) /\ c.spoiled \in BOOLEAN
      BY <1>3 DEF Whole, Shaped, Fields
    <3> QED BY <1>1, <1>3, <3>1, Zenon
  <2>3. Whole(d)
    BY <1>1, <1>3, <2>1, <2>2 DEF Whole, Shaped, Fields
  <2> QED BY <1>1, <2>3 DEF d
<1>4. CASE ~c.shown /\ c.slot /\ c.consumed # 0
  <2>1. d.shown = TRUE /\ d.spoiled = TRUE
    <3>1. c.consumed > 0
      BY <1>4 DEF Whole, Shaped, Fields
    <3> QED BY <1>1, <1>4, <3>1, Zenon
  <2>2. Whole(d)
    BY <1>1, <2>1, Unclaimed DEF Whole, Shaped, Fields
  <2> QED BY <1>1, <2>2 DEF d
<1> QED BY <1>2, <1>3, <1>4 DEF Whole, Shaped, Fields

LEMMA IdleWhole == ASSUME NEW c, Whole(c) PROVE Whole(Idle(c))
<1> DEFINE later == {[x EXCEPT !.by = IF @ = "progress" THEN x.at ELSE @] : x \in c.calls}
           d == Idle(c)
<1>1. later \subseteq Calls
  BY DEF Whole, Shaped, Fields, Calls
<1>2. d = [c EXCEPT !.pending = FALSE, !.timer = FALSE, !.calls = later]
  BY DEF Idle
<1> HIDE DEF d, later
<1>3. /\ DOMAIN d = DOMAIN c /\ d.exec = c.exec /\ d.slot = c.slot /\ d.shown = c.shown
      /\ d.spoiled = c.spoiled /\ d.text = c.text /\ d.buffer = c.buffer
      /\ d.consumed = c.consumed /\ d.calls = later
  BY <1>2 DEF Whole, Shaped, Fields
<1> QED BY <1>1, <1>3, SameText DEF d

LEMMA CallTyped ==
  ASSUME WholeInv, NEW by \in Callers \cup Stages, NEW at \in Stages
  PROVE  Call(by, at) \in Calls
<1>1. Now \in Nat \ {0}
  BY DEF WholeInv, Now
<1> QED BY <1>1 DEF Call, Calls

LEMMA AskedWhole ==
  ASSUME WholeInv, NEW c, Whole(c), NEW by \in Callers \cup Stages, NEW at \in Stages
  PROVE  Whole(Asked(c, by, at))
<1> DEFINE d == [c EXCEPT !.calls = @ \cup {Call(by, at)}]
<1>1. /\ DOMAIN d = DOMAIN c /\ d.exec = c.exec /\ d.slot = c.slot /\ d.shown = c.shown
      /\ d.spoiled = c.spoiled /\ d.text = c.text /\ d.buffer = c.buffer
      /\ d.consumed = c.consumed /\ d.calls = c.calls \cup {Call(by, at)}
  BY DEF Whole, Shaped, Fields
<1>2. d.calls \subseteq Calls
  BY <1>1, CallTyped DEF Whole, Shaped, Fields
<1> HIDE DEF d
<1>3. Whole(d)
  BY <1>1, <1>2, SameText
<1> QED BY <1>3 DEF Asked, d

LEMMA RefreshWhole ==
  ASSUME WholeInv, NEW c, Whole(c) PROVE Whole(Refresh(c)) /\ Whole(RefreshBoth(c))
<1>1. {"live", "projection"} \subseteq Stages
  BY DEF Stages
<1>2. Whole(Refresh(c))
  BY <1>1, AskedWhole DEF Refresh
<1> QED BY <1>1, <1>2, AskedWhole DEF RefreshBoth

LEMMA LoadingWhole == ASSUME NEW c, Whole(c) PROVE Whole(Loading(c))
  BY DEF Whole, Shaped, Fields, Loading

LEMMA TailSyncWhole == ASSUME NEW c, Whole(c) PROVE Whole(TailSync(c))
  BY DEF Whole, Shaped, Fields, TailSync

\* A chat whose preview is taken away.
LEMMA HiddenWhole ==
  ASSUME NEW c, Whole(c), NEW d, DOMAIN d = DOMAIN c,
         {d.exec, d.slot} \subseteq BOOLEAN, d.shown = FALSE, d.spoiled = c.spoiled,
         d.text = <<>>, d.calls \subseteq Calls, d.consumed \in Nat,
         \/ d.buffer = <<>>
         \/ d.buffer = c.buffer /\ (d.consumed > 0 \/ d.consumed = c.consumed)
  PROVE  Whole(d)
<1>1. {d.exec, d.slot, d.shown, d.spoiled} \subseteq BOOLEAN
  <2>1. c.spoiled \in BOOLEAN
    BY DEF Whole, Shaped
  <2> QED BY <2>1, Zenon
<1>2. d.text \in Seq(Nat) /\ d.buffer \in Seq(Nat) /\ (d.consumed = 0 => d.buffer = <<>>)
  <2>1. <<>> \in Seq(Nat) /\ c.buffer \in Seq(Nat)
    BY DEF Whole, Shaped
  <2>2. d.consumed > 0 => d.consumed # 0
    OBVIOUS
  <2>3. c.consumed = 0 => c.buffer = <<>>
    BY DEF Whole
  <2> QED BY <2>1, <2>2, <2>3, Zenon
<1>3. Fields \subseteq DOMAIN d
  BY DEF Whole, Shaped
<1>4. Shaped(d)
  BY <1>1, <1>2, <1>3 DEF Shaped
<1> QED BY <1>2, <1>4, Unclaimed

LEMMA HideFields ==
  ASSUME NEW c, Whole(c)
  PROVE  LET d == Hide(c)
         IN /\ DOMAIN d = DOMAIN c /\ d.exec = c.exec /\ d.slot = c.slot /\ d.shown = FALSE
            /\ d.spoiled = c.spoiled /\ d.text = <<>> /\ d.buffer = c.buffer
            /\ d.consumed = c.consumed /\ d.calls = c.calls
  BY DEF Hide, Whole, Shaped, Fields

LEMMA ResyncWhole == ASSUME WholeInv, NEW c, Whole(c) PROVE Whole(Resync(c))
<1> DEFINE d == [c EXCEPT !.buffer = <<>>, !.degraded = TRUE, !.spoiled = @ \/ c.buffer # <<>>]
           e == [d EXCEPT !.calls = @ \cup {Call("resync", "load")}]
<1>1. /\ DOMAIN d = DOMAIN c /\ d.exec = c.exec /\ d.slot = c.slot /\ d.shown = c.shown
      /\ d.spoiled = (c.spoiled \/ c.buffer # <<>>) /\ d.text = c.text /\ d.buffer = <<>>
      /\ d.consumed = c.consumed /\ d.calls = c.calls
  BY DEF Whole, Shaped, Fields
<1> HIDE DEF d
<1>2. Whole(d)
  <2>1. CASE c.buffer = <<>>
    <3>1. d.spoiled = c.spoiled
      BY <1>1, <2>1 DEF Whole, Shaped
    <3> QED BY <1>1, <2>1, <3>1, SameText DEF Whole, Shaped
  <2>2. CASE c.buffer # <<>>
    <3>1. d.spoiled = TRUE
      BY <1>1, <2>2, Zenon
    <3>2. {d.exec, d.slot, d.shown, d.spoiled} \subseteq BOOLEAN
      <4>1. {c.exec, c.slot, c.shown, TRUE} \subseteq BOOLEAN
        BY Zenon DEF Whole, Shaped
      <4> QED BY <1>1, <3>1, <4>1, Zenon
    <3>3. Shaped(d)
      BY <1>1, <3>2 DEF Whole, Shaped
    <3>4. d.shown \/ (~d.shown /\ d.text = <<>>)
      BY <1>1 DEF Whole, Shaped
    <3> QED BY <1>1, <3>1, <3>3, <3>4, Unclaimed, Zenon
  <2> QED BY <2>1, <2>2
<1>3. {"resync", "live", "load"} \subseteq Callers \cup Stages /\ {"live", "load"} \subseteq Stages
  BY DEF Callers, Stages
<1>4. Whole(e)
  <2>1. /\ DOMAIN e = DOMAIN d /\ e.exec = d.exec /\ e.slot = d.slot /\ e.shown = d.shown
        /\ e.spoiled = d.spoiled /\ e.text = d.text /\ e.buffer = d.buffer
        /\ e.consumed = d.consumed /\ e.calls = d.calls \cup {Call("resync", "load")}
    BY <1>2 DEF Whole, Shaped, Fields
  <2>2. e.calls \subseteq Calls
    BY <1>2, <1>3, <2>1, CallTyped DEF Whole, Shaped
  <2> HIDE DEF e
  <2> QED BY <1>2, <2>1, <2>2, SameText
<1>5. Whole(Asked(d, "resync", "live")) /\ Whole(Loading(e))
  <2> HIDE DEF e
  <2> QED BY <1>2, <1>3, <1>4, AskedWhole, LoadingWhole
<1>6. Resync(c) \in {d, Asked(d, "resync", "live"), Loading(e)}
  <2> HIDE DEF e
  <2>1. Resync(c) = IF Under(c, "resync") THEN d
                    ELSE IF c.exec THEN Asked(d, "resync", "live") ELSE Loading(e)
    BY DEF Resync, d, e
  <2> QED BY <2>1
<1> HIDE DEF e
<1> QED BY <1>2, <1>5, <1>6

LEMMA AdoptWhole == ASSUME NEW c, Whole(c) PROVE Whole(Adopt(c))
<1> DEFINE again == [c EXCEPT !.pending = TRUE, !.timer = TRUE]
           h == Hide(c)
           new == [h EXCEPT !.exec = TRUE, !.pending = TRUE, !.timer = TRUE, !.slot = TRUE,
                     !.cancelled = FALSE, !.buffer = <<>>, !.consumed = 0, !.ended = FALSE]
<1>1. Whole(again)
  BY DEF Whole, Shaped, Fields
<1>2. Whole(h)
  BY HideWhole
<1>3. h.shown = FALSE /\ h.text = <<>>
  BY HideFields
<1> HIDE DEF h
<1>4. /\ DOMAIN new = DOMAIN h /\ new.exec = TRUE /\ new.slot = TRUE /\ new.shown = h.shown
      /\ new.spoiled = h.spoiled /\ new.text = h.text /\ new.buffer = <<>>
      /\ new.consumed = 0 /\ new.calls = h.calls
  BY <1>2 DEF Whole, Shaped, Fields
<1> HIDE DEF new
<1>5. h.calls \subseteq Calls
  BY <1>2 DEF Whole, Shaped
<1>6. Whole(new)
  <2>1. {new.exec, new.slot} \subseteq BOOLEAN /\ new.shown = FALSE /\ new.text = <<>>
    BY <1>3, <1>4, Zenon
  <2>2. new.calls \subseteq Calls /\ new.consumed \in Nat
    BY <1>4, <1>5
  <2> QED BY <1>2, <1>4, <2>1, <2>2, HiddenWhole, Zenon
<1>7. Adopt(c) \in {Ensure(again), Ensure(new)}
  BY DEF Adopt, new, h
<1> HIDE DEF again
<1> QED BY <1>1, <1>6, <1>7, EnsureWhole

LEMMA AdoptCompleteWhole == ASSUME NEW c, Whole(c) PROVE Whole(AdoptComplete(c))
<1> DEFINE i == Idle(c)
           over == [i EXCEPT !.ended = TRUE]
           h == Hide(c)
           new == [h EXCEPT !.exec = TRUE, !.pending = FALSE, !.slot = TRUE, !.cancelled = FALSE,
                     !.buffer = <<>>, !.consumed = 0, !.ended = TRUE]
<1>1. Whole(i) /\ Whole(h)
  BY HideWhole, IdleWhole
<1>2. h.shown = FALSE /\ h.text = <<>>
  BY HideFields
<1> HIDE DEF i, h
<1>3. Whole(over)
  BY <1>1 DEF Whole, Shaped, Fields
<1>4. /\ DOMAIN new = DOMAIN h /\ new.exec = TRUE /\ new.slot = TRUE /\ new.shown = h.shown
      /\ new.spoiled = h.spoiled /\ new.text = h.text /\ new.buffer = <<>>
      /\ new.consumed = 0 /\ new.calls = h.calls
  BY <1>1 DEF Whole, Shaped, Fields
<1>5. h.calls \subseteq Calls
  BY <1>1 DEF Whole, Shaped
<1> HIDE DEF new
<1>6. Whole(new)
  <2>1. {new.exec, new.slot} \subseteq BOOLEAN /\ new.shown = FALSE /\ new.text = <<>>
    BY <1>2, <1>4, Zenon
  <2>2. new.calls \subseteq Calls /\ new.consumed \in Nat
    BY <1>4, <1>5
  <2> QED BY <1>1, <1>4, <2>1, <2>2, HiddenWhole, Zenon
<1> QED BY <1>3, <1>6 DEF AdoptComplete, new, h, i

LEMMA CancelledWhole == ASSUME NEW c, Whole(c) PROVE Whole(Cancelled(c))
<1> DEFINE h == Hide(Idle(c))
           d == [h EXCEPT !.noted = TRUE, !.cancelled = TRUE, !.slot = FALSE, !.buffer = <<>>]
<1>1. Whole(h) /\ h.shown = FALSE /\ h.text = <<>>
  BY IdleWhole, HideWhole, HideFields
<1> HIDE DEF h
<1>2. /\ DOMAIN d = DOMAIN h /\ d.exec = h.exec /\ d.slot = FALSE /\ d.shown = h.shown
      /\ d.spoiled = h.spoiled /\ d.text = h.text /\ d.buffer = <<>>
      /\ d.consumed = h.consumed /\ d.calls = h.calls
  BY <1>1 DEF Whole, Shaped, Fields
<1>3. h.calls \subseteq Calls /\ h.exec \in BOOLEAN /\ h.consumed \in Nat
  BY <1>1 DEF Whole, Shaped
<1> HIDE DEF d
<1>4. {d.exec, d.slot} \subseteq BOOLEAN
  BY <1>2, <1>3, Zenon
<1>5. Whole(d)
  BY <1>1, <1>2, <1>3, <1>4, HiddenWhole
<1> QED BY <1>5 DEF Cancelled, d, h

-----------------------------------------------------------------------------
(* Events *)

\* The bytes behind the ones that are there, painted or waiting.
LEMMA QueueWhole ==
  ASSUME NEW b, Whole(b), NEW to \in Nat, b.consumed < to,
         NEW d, d = [b EXCEPT !.consumed = to]
  PROVE  Whole(Queue(d, Bytes(b.consumed, to)))
<1> DEFINE piece == Bytes(b.consumed, to)
           wait == [d EXCEPT !.buffer = @ \o piece]
           paint == [d EXCEPT !.text = IF d.shown THEN @ \o piece ELSE @]
<1>1. b.consumed \in Nat /\ b.text \in Seq(Nat) /\ b.buffer \in Seq(Nat) /\ Shaped(b)
  BY DEF Whole, Shaped
<1>2. piece \in Seq(Nat) /\ Bytes(0, b.consumed) \o piece = Bytes(0, to)
  <2>1. b.consumed <= to
    BY <1>1
  <2> QED BY <1>1, <2>1, BytesKnown, BytesJoined
<1>3. /\ DOMAIN d = DOMAIN b /\ d.exec = b.exec /\ d.slot = b.slot /\ d.shown = b.shown
      /\ d.spoiled = b.spoiled /\ d.text = b.text /\ d.buffer = b.buffer
      /\ d.consumed = to /\ d.calls = b.calls
  BY <1>1 DEF Shaped, Fields
<1> HIDE DEF piece
<1>4. /\ b.buffer \o piece \in Seq(Nat) /\ b.text \o piece \in Seq(Nat)
      /\ b.text \o (b.buffer \o piece) = (b.text \o b.buffer) \o piece
      /\ (b.text \o piece) \o <<>> = b.text \o piece
      /\ b.text \o <<>> = b.text
  <2>1. /\ b.buffer \o piece \in Seq(Nat)
        /\ b.text \o (b.buffer \o piece) = (b.text \o b.buffer) \o piece
        /\ b.text \o <<>> = b.text
    <3>1. b.buffer \o piece \in Seq(Nat)
      BY <1>1, <1>2, Joined
    <3>2. b.text \o (b.buffer \o piece) = (b.text \o b.buffer) \o piece
      BY <1>1, <1>2, Associative
    <3>3. b.text \o <<>> = b.text
      BY <1>1, <1>2, Joined
    <3> QED BY <3>1, <3>2, <3>3, Zenon
  <2>2. b.text \o piece \in Seq(Nat)
    BY <1>1, <1>2, Joined
  <2>3. (b.text \o piece) \o <<>> = b.text \o piece
    BY <1>1, <2>2, Joined
  <2> QED BY <2>1, <2>2, <2>3, Zenon
<1>5. Whole(wait)
  <2>1. /\ DOMAIN wait = DOMAIN b /\ wait.exec = b.exec /\ wait.slot = b.slot
        /\ wait.shown = b.shown /\ wait.spoiled = b.spoiled /\ wait.text = b.text
        /\ wait.buffer = b.buffer \o piece /\ wait.consumed = to /\ wait.calls = b.calls
    BY <1>1, <1>3 DEF Shaped, Fields
  <2> HIDE DEF wait
  <2>2. Shaped(wait) /\ to # 0
    BY <1>1, <1>4, <2>1 DEF Shaped
  <2> QED BY <1>2, <1>4, <2>1, <2>2 DEF Whole
<1>6. CASE d.buffer = <<>>
  <2>1. /\ DOMAIN paint = DOMAIN b /\ paint.exec = b.exec /\ paint.slot = b.slot
        /\ paint.shown = b.shown /\ paint.spoiled = b.spoiled
        /\ paint.text = IF b.shown THEN b.text \o piece ELSE b.text
        /\ paint.buffer = b.buffer /\ paint.consumed = to /\ paint.calls = b.calls
    BY <1>1, <1>3 DEF Shaped, Fields
  <2> HIDE DEF paint
  <2>2. Shaped(paint) /\ to # 0
    BY <1>1, <1>4, <2>1 DEF Shaped
  <2>3. Whole(paint)
    <3>1. b.shown => paint.text \o paint.buffer = (b.text \o b.buffer) \o piece
      BY <1>3, <1>4, <1>6, <2>1
    <3> QED BY <1>2, <1>3, <1>6, <2>1, <2>2, <3>1 DEF Whole
  <2>4. Queue(d, piece) \in {wait, paint}
    BY DEF Queue, wait, paint
  <2> QED BY <1>5, <2>3, <2>4 DEF piece
<1>7. CASE d.buffer # <<>>
  <2>1. Queue(d, piece) = wait
    BY <1>7 DEF Queue
  <2> QED BY <1>5, <2>1 DEF piece
<1> QED BY <1>6, <1>7

LEMMA DeltaWhole ==
  ASSUME WholeInv, NEW c, Whole(c), NEW e \in Events PROVE Whole(Delta(c, e))
<1> DEFINE b == Ensure(c)
           d == [b EXCEPT !.consumed = e.to]
<1>1. Whole(b) /\ b.consumed = c.consumed /\ c.consumed \in Nat
  BY EnsureWhole DEF Whole, Shaped
<1>2. e.from \in Nat /\ e.to \in Nat
  BY DEF Events
<1>3. Delta(c, e) = IF e.from > c.consumed THEN Resync(c)
                    ELSE IF e.to <= c.consumed THEN c
                    ELSE Queue(d, Bytes(c.consumed, e.to))
  BY DEF Delta, Overlap
<1> HIDE DEF b
<1>4. c.consumed < e.to => Whole(Queue(d, Bytes(c.consumed, e.to)))
  BY <1>1, <1>2, QueueWhole
<1> HIDE DEF d
<1> QED BY <1>1, <1>2, <1>3, <1>4, ResyncWhole

LEMMA HandleWhole ==
  ASSUME WholeInv, NEW c, Whole(c), NEW e \in Events PROVE Whole(Handle(c, e))
<1> DEFINE a == Adopt(c)
           i == Idle(c)
           adopted == [a EXCEPT !.ended = FALSE]
           settled == [i EXCEPT !.settled = c.shown]
           failed == [i EXCEPT !.ended = TRUE]
           b == Ensure(c)
           ended == [b EXCEPT !.ended = @ \/ c.exec]
<1>1. Whole(a) /\ Whole(i) /\ Whole(b)
  BY AdoptWhole, IdleWhole, EnsureWhole
<1>2. Handle(c, e) \in {Resync(c), Cancelled(c), c, adopted, RefreshBoth(TailSync(settled)),
                        TailSync(c), Delta(c, e), ended, RefreshBoth(failed)}
  BY Zenon DEF Handle
<1> HIDE DEF a, i, b
<1>3. Whole(adopted) /\ Whole(settled) /\ Whole(failed) /\ Whole(ended)
  <2>1. Whole(adopted)
    BY <1>1 DEF Whole, Shaped, Fields
  <2>2. Whole(settled)
    BY <1>1 DEF Whole, Shaped, Fields
  <2>3. Whole(failed)
    BY <1>1 DEF Whole, Shaped, Fields
  <2>4. Whole(ended)
    BY <1>1 DEF Whole, Shaped, Fields
  <2> QED BY <2>1, <2>2, <2>3, <2>4
<1> HIDE DEF adopted, settled, failed, ended
<1> QED BY <1>2, <1>3, ResyncWhole, CancelledWhole, RefreshWhole, TailSyncWhole, DeltaWhole

-----------------------------------------------------------------------------
(* Snapshots and the transcript *)

LEMMA RewrittenWhole ==
  ASSUME NEW c, Whole(c), NEW s, s.bytes \in Nat, s.bytes > 0 PROVE Whole(Rewritten(c, s))
<1> DEFINE b == [c EXCEPT !.consumed = s.bytes]
           gone == Hide(b)
           d == Ensure(b)
           e == [d EXCEPT !.text = IF d.shown THEN Bytes(0, s.bytes) ELSE @,
                          !.spoiled = d.buffer # <<>>]
<1>1. /\ Shaped(c) /\ c.calls \subseteq Calls /\ c.buffer \in Seq(Nat) /\ c.text \in Seq(Nat)
      /\ ~c.shown => c.text = <<>>
  BY DEF Whole, Shaped
<1>2. /\ DOMAIN b = DOMAIN c /\ b.exec = c.exec /\ b.slot = c.slot /\ b.shown = c.shown
      /\ b.spoiled = c.spoiled /\ b.text = c.text /\ b.buffer = c.buffer
      /\ b.consumed = s.bytes /\ b.calls = c.calls
  BY <1>1 DEF Shaped, Fields
<1> HIDE DEF b
<1>3. Whole(gone)
  <2>1. /\ DOMAIN gone = DOMAIN c /\ gone.exec = c.exec /\ gone.slot = c.slot
        /\ gone.shown = FALSE /\ gone.spoiled = c.spoiled /\ gone.text = <<>>
        /\ gone.buffer = c.buffer /\ gone.consumed = s.bytes /\ gone.calls = c.calls
    BY <1>1, <1>2 DEF Hide, Shaped, Fields
  <2> HIDE DEF gone
  <2>2. {c.exec, c.slot} \subseteq BOOLEAN
    BY <1>1 DEF Shaped
  <2>3. {gone.exec, gone.slot} \subseteq BOOLEAN
    BY <2>1, <2>2, Zenon
  <2>4. gone.calls \subseteq Calls /\ gone.consumed \in Nat /\ gone.consumed > 0
    BY <1>1, <2>1
  <2> QED BY <2>1, <2>3, <2>4, HiddenWhole, Zenon
<1>4. /\ DOMAIN d = DOMAIN c /\ d.exec = c.exec /\ d.slot = c.slot
      /\ d.shown = (c.shown \/ c.slot) /\ d.text = c.text
      /\ d.buffer = c.buffer /\ d.consumed = s.bytes /\ d.calls = c.calls
  BY <1>1, <1>2 DEF Ensure, Shaped, Fields
<1> HIDE DEF d
<1>5. /\ DOMAIN e = DOMAIN c /\ e.exec = c.exec /\ e.slot = c.slot
      /\ e.shown = (c.shown \/ c.slot) /\ e.spoiled = (c.buffer # <<>>)
      /\ e.text = IF d.shown THEN Bytes(0, s.bytes) ELSE c.text
      /\ e.buffer = c.buffer /\ e.consumed = s.bytes /\ e.calls = c.calls
  BY <1>1, <1>4 DEF Shaped, Fields
<1> HIDE DEF e
<1>6. Bytes(0, s.bytes) \in Seq(Nat) /\ Bytes(0, s.bytes) \o <<>> = Bytes(0, s.bytes)
  <2>1. Bytes(0, s.bytes) \in Seq(Nat)
    <3>1. 0 \in Nat /\ 0 <= s.bytes
      OBVIOUS
    <3> QED BY <3>1, BytesKnown
  <2> QED BY <2>1, Joined
<1>7. Shaped(e)
  <2>1. {c.exec, c.slot, c.shown} \subseteq BOOLEAN
    BY <1>1 DEF Shaped
  <2>2. {e.exec, e.slot, e.shown, e.spoiled} \subseteq BOOLEAN
    BY <1>5, <2>1, Zenon
  <2>3. e.text \in Seq(Nat) /\ e.buffer \in Seq(Nat) /\ e.consumed \in Nat
        /\ e.calls \subseteq Calls /\ Fields \subseteq DOMAIN e
    BY <1>1, <1>5, <1>6 DEF Shaped
  <2> QED BY <2>2, <2>3 DEF Shaped
<1>8. ~e.shown => e.text = <<>>
  BY <1>1, <1>4, <1>5
<1>9. e.shown /\ ~e.spoiled => e.text \o e.buffer = Bytes(0, e.consumed)
  BY <1>4, <1>5, <1>6
<1>10. Whole(e)
  <2>1. e.consumed # 0
    BY <1>5
  <2> QED BY <1>7, <1>8, <1>9, <2>1, Zenon DEF Whole
<1>11. Rewritten(c, s) \in {gone, e}
  BY DEF Rewritten, e, d, b
<1> HIDE DEF gone
<1> QED BY <1>3, <1>10, <1>11

LEMMA ApplyWhole ==
  ASSUME NEW c, Whole(c), NEW s, s.bytes \in Nat PROVE Whole(Apply(c, s))
<1> DEFINE d == [c EXCEPT !.ended = s.status \in Terminal, !.degraded = @ /\ ~Recovers(c, s)]
           h == Hide(d)
           over == [h EXCEPT !.buffer = <<>>, !.consumed = 0, !.slot = FALSE, !.cancelled = TRUE]
           e == CASE s.status = "cancelled" -> over
                  [] s.status # "cancelled" /\ s.bytes > 0 -> Rewritten(d, s)
                  [] OTHER -> d
<1>1. Whole(d)
  BY DEF Whole, Shaped, Fields
<1> HIDE DEF d
<1>2. Whole(h) /\ h.shown = FALSE /\ h.text = <<>>
  BY <1>1, HideWhole, HideFields
<1> HIDE DEF h
<1>3. Whole(over)
  <2>1. /\ DOMAIN over = DOMAIN h /\ over.exec = h.exec /\ over.slot = FALSE
        /\ over.shown = h.shown /\ over.spoiled = h.spoiled /\ over.text = h.text
        /\ over.buffer = <<>> /\ over.consumed = 0 /\ over.calls = h.calls
    BY <1>2 DEF Whole, Shaped, Fields
  <2> HIDE DEF over
  <2>2. h.exec \in BOOLEAN /\ h.calls \subseteq Calls
    BY <1>2 DEF Whole, Shaped
  <2>3. {over.exec, over.slot} \subseteq BOOLEAN /\ over.shown = FALSE /\ over.text = <<>>
    BY <1>2, <2>1, <2>2, Zenon
  <2>4. over.calls \subseteq Calls /\ over.consumed \in Nat
    BY <2>1, <2>2
  <2> QED BY <1>2, <2>1, <2>3, <2>4, HiddenWhole, Zenon
<1>4. Whole(e)
  <2> HIDE DEF over
  <2>1. CASE s.status = "cancelled"
    BY <1>3, <2>1
  <2>2. CASE s.status # "cancelled" /\ s.bytes > 0
    BY <1>1, <2>2, RewrittenWhole
  <2>3. CASE s.status # "cancelled" /\ ~(s.bytes > 0)
    BY <1>1, <2>3
  <2> QED BY <2>1, <2>2, <2>3
<1>5. Apply(c, s) = IF Superseded(c, s) THEN c
                    ELSE IF s.status \notin Terminal THEN e
                    ELSE IF c.pending THEN TailSync(Idle(e)) ELSE Idle(e)
  BY DEF Apply, over, h, d
<1> HIDE DEF e
<1> QED BY <1>4, <1>5, IdleWhole, TailSyncWhole

LEMMA GotoWhole ==
  ASSUME WholeInv, NEW c, Whole(c), NEW x \in Calls, NEW then \in Stages \cup {"done"}
  PROVE  Whole(Goto(c, x, then))
<1> DEFINE d == IF then = "load" THEN Loading(c) ELSE c
           more == (d.calls \ {x}) \cup (IF then = "done" THEN {} ELSE {Call(x.by, then)})
           e == [d EXCEPT !.calls = (@ \ {x}) \cup (IF then = "done" THEN {} ELSE {Call(x.by, then)})]
<1>1. Whole(d)
  BY LoadingWhole
<1> HIDE DEF d
<1>2. more \subseteq Calls
  <2>1. x.by \in Callers \cup Stages /\ d.calls \subseteq Calls
    BY <1>1 DEF Calls, Whole, Shaped
  <2>2. then # "done" => Call(x.by, then) \in Calls
    BY <2>1, CallTyped
  <2> QED BY <2>1, <2>2
<1>3. /\ DOMAIN e = DOMAIN d /\ e.exec = d.exec /\ e.slot = d.slot /\ e.shown = d.shown
      /\ e.spoiled = d.spoiled /\ e.text = d.text /\ e.buffer = d.buffer
      /\ e.consumed = d.consumed /\ e.calls = more
  BY <1>1 DEF Whole, Shaped, Fields
<1>4. Goto(c, x, then) = e
  BY DEF Goto, d
<1> HIDE DEF e, more
<1>5. Whole(e)
  BY <1>1, <1>2, <1>3, SameText
<1> QED BY <1>4, <1>5

LEMMA LoadedWhole ==
  ASSUME WholeInv, NEW c, Whole(c), NEW durable PROVE Whole(Loaded(c, durable))
<1> DEFINE text == IF c.shown THEN c.text \o c.buffer ELSE <<>>
           keep == text # <<>> /\ ~durable
           kept == [c EXCEPT !.text = text]
           h == Hide(c)
           d == [(IF keep THEN kept ELSE h) EXCEPT !.buffer = <<>>, !.answer = durable]
           e == IF durable \/ d.settled THEN AdoptComplete(d) ELSE d
<1>1. Shaped(c) /\ c.text \in Seq(Nat) /\ c.buffer \in Seq(Nat) /\ c.calls \subseteq Calls
  BY DEF Whole, Shaped
<1>2. c.text \o c.buffer \in Seq(Nat) /\ (c.text \o c.buffer) \o <<>> = c.text \o c.buffer
  <2>1. c.text \o c.buffer \in Seq(Nat)
    BY <1>1, Joined
  <2> QED BY <1>1, <2>1, Joined
<1>3. ASSUME keep PROVE Whole(d)
  <2>1. c.shown /\ text = c.text \o c.buffer
    BY <1>1, <1>3 DEF Shaped
  <2>2. d = [kept EXCEPT !.buffer = <<>>, !.answer = durable]
    BY <1>3
  <2> HIDE DEF text
  <2>3. /\ DOMAIN kept = DOMAIN c /\ kept.exec = c.exec /\ kept.slot = c.slot
        /\ kept.shown = c.shown /\ kept.spoiled = c.spoiled /\ kept.text = text
        /\ kept.consumed = c.consumed /\ kept.calls = c.calls
    BY <1>1 DEF Shaped, Fields
  <2> HIDE DEF kept, d
  <2>4. /\ DOMAIN d = DOMAIN c /\ d.exec = c.exec /\ d.slot = c.slot
        /\ d.shown = c.shown /\ d.spoiled = c.spoiled /\ d.text = text
        /\ d.buffer = <<>> /\ d.consumed = c.consumed /\ d.calls = c.calls
    BY <1>1, <2>2, <2>3 DEF Shaped, Fields
  <2>5. Shaped(d)
    BY <1>1, <1>2, <2>1, <2>4 DEF Shaped
  <2>6. c.exec /\ c.shown /\ ~c.spoiled => text = Bytes(0, c.consumed)
    BY <2>1 DEF Whole
  <2>7. Whole(d)
    BY <1>2, <2>1, <2>4, <2>5, <2>6 DEF Whole
  <2> QED BY <2>7
<1>4. ASSUME ~keep PROVE Whole(d)
  <2>1. Whole(h) /\ h.shown = FALSE /\ h.text = <<>>
    BY HideWhole, HideFields
  <2>2. d = [h EXCEPT !.buffer = <<>>, !.answer = durable]
    BY <1>4
  <2> HIDE DEF h, d
  <2>3. /\ DOMAIN d = DOMAIN h /\ d.exec = h.exec /\ d.slot = h.slot /\ d.shown = h.shown
        /\ d.spoiled = h.spoiled /\ d.text = h.text /\ d.buffer = <<>>
        /\ d.consumed = h.consumed /\ d.calls = h.calls
    BY <2>1, <2>2 DEF Whole, Shaped, Fields
  <2>4. {h.exec, h.slot} \subseteq BOOLEAN /\ h.calls \subseteq Calls /\ h.consumed \in Nat
    BY <2>1 DEF Whole, Shaped
  <2>5. {d.exec, d.slot} \subseteq BOOLEAN /\ d.shown = FALSE /\ d.text = <<>>
    BY <2>1, <2>3, <2>4, Zenon
  <2>6. d.calls \subseteq Calls /\ d.consumed \in Nat
    BY <2>3, <2>4
  <2>7. Whole(d)
    BY <2>1, <2>3, <2>5, <2>6, HiddenWhole, Zenon
  <2> QED BY <2>7
<1>5. Whole(d)
  BY <1>3, <1>4
<1>6. Loaded(c, durable) = IF e.exec /\ e.pending THEN Refresh(Ensure(e)) ELSE e
  BY DEF Loaded
<1> HIDE DEF d
<1>7. Whole(e)
  BY <1>5, AdoptCompleteWhole
<1> HIDE DEF e
<1>8. Whole(Refresh(Ensure(e)))
  BY <1>7, EnsureWhole, RefreshWhole
<1> QED BY <1>6, <1>7, <1>8

LEMMA LoadOverWhole ==
  ASSUME WholeInv, NEW c, Whole(c), NEW x \in Calls PROVE Whole(LoadOver(c, x))
<1> DEFINE d == [c EXCEPT !.degraded = @ /\ ~c.answer]
<1>1. Whole(d)
  BY DEF Whole, Shaped, Fields
<1> HIDE DEF d
<1> QED BY <1>1, GotoWhole DEF LoadOver, d

-----------------------------------------------------------------------------
(* Steps *)

LEMMA WaitsKnown ==
  /\ DOMAIN Waits = {"waitDone", "waitProjection", "waitLoad"} /\ DOMAIN Waits \subseteq Stages
  /\ \A w \in DOMAIN Waits : Waits[w] \in {"done", "projection", "load"}
  /\ \A then \in {"done", "projection", "load"} : WaitFor(then) \in Stages
<1>1. /\ DOMAIN Waits = {"waitDone", "waitProjection", "waitLoad"}
      /\ Waits["waitDone"] = "done" /\ Waits["waitProjection"] = "projection"
      /\ Waits["waitLoad"] = "load"
  BY DEF Waits
<1>2. DOMAIN Waits \subseteq Stages
  BY DEF Stages
<1>3. ASSUME NEW then \in {"done", "projection", "load"} PROVE WaitFor(then) \in Stages
  <2>1. \E w \in DOMAIN Waits : Waits[w] = then
    BY <1>1
  <2>2. WaitFor(then) \in DOMAIN Waits
    BY <2>1 DEF WaitFor
  <2> QED BY <1>2, <2>2
<1> QED BY <1>1, <1>2, <1>3

LEMMA SnapshotWhole ==
  ASSUME WholeInv, NEW x \in chat.calls, NEW s \in Snapshots, SnapshotAnswered(x, s)
  PROVE  Whole(chat')
<1> DEFINE b == [chat EXCEPT !.calls = @ \ {x}]
           c == IF x.at = "projection" /\ s.status = "cancelled" THEN Cancelled(b) ELSE b
<1>1. Whole(chat) /\ chat.calls \subseteq Calls /\ x \in Calls /\ s.bytes \in Nat
  BY DEF WholeInv, Whole, Shaped, Snapshots
<1>2. Whole(b)
  BY <1>1 DEF Whole, Shaped, Fields
<1> HIDE DEF b
<1>3. Whole(c)
  BY <1>2, CancelledWhole
<1>4. PICK then \in After(x, Recovers(c, s)) :
        chat' = Goto(Apply(c, s), x, IF Awaits(c, x, s) THEN WaitFor(then) ELSE then)
  BY DEF SnapshotAnswered, b
<1>5. then \in {"done", "projection", "load"}
  BY DEF After
<1>6. (IF Awaits(c, x, s) THEN WaitFor(then) ELSE then) \in Stages \cup {"done"}
  BY <1>5, WaitsKnown DEF Stages
<1>7. Whole(Apply(c, s))
  BY <1>1, <1>3, ApplyWhole
<1> QED BY <1>1, <1>4, <1>6, <1>7, GotoWhole

LEMMA AnsweredWhole ==
  ASSUME WholeInv, NEW x \in chat.calls, Answered(x) PROVE Whole(chat')
<1>1. Whole(chat) /\ chat.calls \subseteq Calls /\ x \in Calls
  BY DEF WholeInv, Whole, Shaped
<1>2. PICK n \in (IF x.at = "projection" THEN 2 ELSE x.since) .. Now :
        IF x.at = "load" THEN chat' = LoadOver(Loaded(chat, gateway[n].durable), x)
        ELSE SnapshotAnswered(x, gateway[n])
  BY DEF Answered
<1>3. n \in 1 .. Len(gateway)
  BY <1>1, <1>2 DEF Calls, Now, WholeInv
<1>4. gateway[n] \in Snapshots
  BY <1>3 DEF WholeInv
<1>5. CASE x.at = "load"
  BY <1>1, <1>2, <1>5, LoadedWhole, LoadOverWhole
<1>6. CASE x.at # "load"
  BY <1>2, <1>4, <1>6, SnapshotWhole
<1> QED BY <1>5, <1>6

LEMMA FlightWhole == ASSUME WholeInv, Flight PROVE Whole(chat')
<1>1. PICK x \in chat.calls : (x.at \in DOMAIN Waits /\ WaitOver(x)) \/ Answered(x)
  BY DEF Flight, Step
<1>2. Whole(chat) /\ x \in Calls
  BY DEF WholeInv, Whole, Shaped
<1>3. CASE x.at \in DOMAIN Waits /\ WaitOver(x)
  <2>1. Waits[x.at] \in Stages \cup {"done"}
    BY <1>3, WaitsKnown DEF Stages
  <2> QED BY <1>2, <1>3, <2>1, GotoWhole DEF WaitOver
<1>4. CASE Answered(x)
  BY <1>4, AnsweredWhole
<1> QED BY <1>1, <1>3, <1>4

LEMMA TailAnsweredWhole == ASSUME WholeInv, TailAnswered PROVE Whole(chat')
<1> DEFINE c == [chat EXCEPT !.tail = Unasked]
           b == IF c.exec THEN Hide(c) ELSE c
           d == [b EXCEPT !.answer = TRUE]
<1>1. Whole(c)
  BY DEF WholeInv, Whole, Shaped, Fields
<1>2. chat' \in {c, d}
  BY DEF TailAnswered
<1> HIDE DEF c
<1>3. Whole(b)
  BY <1>1, HideWhole
<1> HIDE DEF b
<1>4. Whole(d)
  BY <1>3 DEF Whole, Shaped, Fields
<1> HIDE DEF d
<1> QED BY <1>1, <1>2, <1>4

LEMMA FlushWhole == ASSUME WholeInv, Flush PROVE Whole(chat')
<1> DEFINE t == chat.text
           b == chat.buffer
<1>1. PICK n \in 1 .. Len(b) :
        chat' = [chat EXCEPT !.buffer = SubSeq(@, n + 1, Len(@)),
                   !.text = IF chat.shown THEN @ \o SubSeq(b, 1, n) ELSE @]
  BY DEF Flush
<1>2. Whole(chat) /\ Shaped(chat) /\ t \in Seq(Nat) /\ b \in Seq(Nat)
  BY DEF WholeInv, Whole, Shaped
<1> DEFINE rest == SubSeq(b, n + 1, Len(b))
           more == t \o SubSeq(b, 1, n)
<1>3. rest \in Seq(Nat) /\ more \in Seq(Nat) /\ more \o rest = t \o b
  BY <1>2, Painted
<1>4. b # <<>>
  BY <1>1, <1>2
<1>5. /\ DOMAIN chat' = DOMAIN chat /\ chat'.exec = chat.exec /\ chat'.slot = chat.slot
      /\ chat'.shown = chat.shown /\ chat'.spoiled = chat.spoiled
      /\ chat'.text = IF chat.shown THEN more ELSE t
      /\ chat'.buffer = rest /\ chat'.consumed = chat.consumed /\ chat'.calls = chat.calls
  BY <1>1, <1>2 DEF Shaped, Fields
<1> HIDE DEF rest, more
<1>6. Shaped(chat')
  BY <1>2, <1>3, <1>5 DEF Shaped
<1> QED BY <1>2, <1>3, <1>4, <1>5, <1>6 DEF Whole

LEMMA TickWhole == ASSUME WholeInv, Tick PROVE Whole(chat')
<1>1. Whole(chat) /\ Whole([chat EXCEPT !.timer = FALSE])
  BY DEF WholeInv, Whole, Shaped, Fields
<1>2. "progress" \in Callers \cup Stages /\ "live" \in Stages
  BY DEF Callers, Stages
<1>3. Whole(Asked(chat, "progress", "live"))
  BY <1>1, <1>2, AskedWhole
<1> QED BY <1>1, <1>3 DEF Tick

LEMMA ReceiptWhole == ASSUME WholeInv, Receipt PROVE Whole(chat')
<1> DEFINE a == Adopt(chat)
<1>1. Whole(a)
  BY AdoptWhole DEF WholeInv
<1>2. chat' = [a EXCEPT !.ended = FALSE]
  BY DEF Receipt
<1> HIDE DEF a
<1> QED BY <1>1, <1>2 DEF Whole, Shaped, Fields

LEMMA StopAnsweredWhole == ASSUME WholeInv, StopAnswered PROVE Whole(chat')
  BY CancelledWhole, RefreshWhole DEF WholeInv, StopAnswered

LEMMA CallFailsWhole == ASSUME WholeInv, CallFails PROVE Whole(chat')
<1> DEFINE d == [chat EXCEPT !.degraded = TRUE]
<1>1. Whole(chat) /\ Whole(d)
  BY DEF WholeInv, Whole, Shaped, Fields
<1>2. PICK x \in chat.calls, then \in {"done", "projection", "load"} :
        chat' \in {LoadOver(d, x), Goto(chat, x, then)}
  BY DEF CallFails, After
<1>3. x \in Calls /\ then \in Stages \cup {"done"}
  BY <1>1 DEF Whole, Shaped, Stages
<1> HIDE DEF d
<1> QED BY <1>1, <1>2, <1>3, LoadOverWhole, GotoWhole

LEMMA TailFailsWhole == ASSUME WholeInv, TailFails PROVE Whole(chat')
  BY DEF WholeInv, Whole, Shaped, Fields, TailFails

LEMMA ReceiptLostWhole == ASSUME WholeInv, ReceiptLost PROVE Whole(chat')
<1> DEFINE h == Hide(Idle(chat))
<1>1. Whole(h) /\ h.shown = FALSE
  BY IdleWhole, HideWhole, HideFields DEF WholeInv
<1>2. chat' = [h EXCEPT !.slot = FALSE, !.ended = TRUE]
  BY DEF ReceiptLost
<1> HIDE DEF h
<1> QED BY <1>1, <1>2 DEF Whole, Shaped, Fields

\* The gateway and the network leave the page alone.
LEMMA ServerWhole ==
  ASSUME WholeInv, Server \/ Lose \/ Repeat
  PROVE  /\ chat' = chat /\ gateway' \in Seq(Snapshots) /\ gateway' # <<>>
         /\ stream' \in Seq(Events)
<1> DEFINE last == Snapshot
<1>1. /\ gateway \in Seq(Snapshots) /\ gateway # <<>> /\ stream \in Seq(Events)
      /\ last \in Snapshots
  BY DEF WholeInv, Snapshot, Last
<1>2. /\ \A kind \in Kinds : Event(kind) \in Events
      /\ \A m, n \in Nat : Piece(m, n) \in Events
  BY DEF Event, Piece, Events, Kinds
<1>3. /\ \A s \in Snapshots : Append(gateway, s) \in Seq(Snapshots) /\ Append(gateway, s) # <<>>
      /\ \A e \in Events : Append(stream, e) \in Seq(Events)
  BY <1>1
<1> HIDE DEF last
<1>4. /\ \A status \in Statuses : [last EXCEPT !.status = status] \in Snapshots
      /\ [last EXCEPT !.bytes = @ + 1] \in Snapshots
      /\ [last EXCEPT !.durable = TRUE] \in Snapshots
      /\ last.bytes \in Nat
  <2>1. /\ last = [bytes |-> last.bytes, status |-> last.status, durable |-> last.durable]
        /\ last.bytes \in Nat /\ last.status \in Statuses /\ last.durable \in BOOLEAN
    BY <1>1 DEF Snapshots
  <2>2. ASSUME NEW status \in Statuses PROVE [last EXCEPT !.status = status] \in Snapshots
    BY <1>1, <2>1 DEF Snapshots
  <2>3. [last EXCEPT !.bytes = @ + 1] \in Snapshots
    <3>1. [last EXCEPT !.bytes = @ + 1] =
            [bytes |-> last.bytes + 1, status |-> last.status, durable |-> last.durable]
      BY <1>1 DEF Snapshots
    <3>2. last.bytes + 1 \in Nat
      BY <2>1
    <3> HIDE DEF last
    <3> QED BY <2>1, <3>1, <3>2, Zenon DEF Snapshots
  <2>4. [last EXCEPT !.durable = TRUE] \in Snapshots
    BY <1>1, <2>1, Zenon DEF Snapshots
  <2> QED BY <2>1, <2>2, <2>3, <2>4
<1>5. {"running", "complete", "error", "cancelled"} \subseteq Statuses
  BY DEF Statuses, Terminal
<1>6. CASE Start
  BY <1>1, <1>2, <1>3, <1>4, <1>5, <1>6 DEF Start, Becomes, Emit, Kinds, last
<1>7. CASE Produce
  <2>1. Piece(last.bytes, last.bytes + 1) \in Events
    BY <1>2, <1>4
  <2> QED BY <1>1, <1>3, <1>4, <1>7, <2>1 DEF Produce, Becomes, Emit, last
<1>8. CASE Finish
  BY <1>1, <1>2, <1>3, <1>4, <1>5, <1>8 DEF Finish, Ends, Becomes, Emit, Kinds, last
<1>9. CASE Commit
  BY <1>1, <1>2, <1>3, <1>4, <1>9 DEF Commit, Becomes, Emit, Kinds, last
<1>10. CASE Break
  BY <1>1, <1>2, <1>3, <1>4, <1>5, <1>10 DEF Break, Ends, Becomes, Emit, Kinds, last
<1>11. CASE Cancel
  BY <1>1, <1>2, <1>3, <1>4, <1>5, <1>11 DEF Cancel, Ends, Becomes, Emit, Kinds, last
<1>12. CASE Lose
  BY <1>1, <1>2, <1>12 DEF Lose, Kinds
<1>13. CASE Repeat
  <2>1. \A n \in 1 .. last.bytes : \A m \in 0 .. n - 1 : Piece(m, n) \in Events
    BY <1>2, <1>4
  <2> QED BY <1>1, <1>3, <1>13, <2>1 DEF Repeat, Emit, last
<1> QED BY <1>6, <1>7, <1>8, <1>9, <1>10, <1>11, <1>12, <1>13 DEF Server

LEMMA WholeInit == Init => WholeInv
<1> SUFFICES ASSUME Init PROVE WholeInv
  OBVIOUS
<1>1. Whole(chat)
  <2>1. NewChat(post = "asked").consumed = 0 /\ <<>> \in Seq(Nat)
    BY DEF NewChat
  <2> QED BY <2>1, NoBytes DEF Init, NewChat, Whole, Shaped, Fields
<1>2. gateway \in Seq(Snapshots) /\ gateway # <<>> /\ stream \in Seq(Events)
  BY DEF Init, Snapshots, Statuses
<1> QED BY <1>1, <1>2 DEF WholeInv

LEMMA WholeStep == WholeInv /\ [Next]_vars => WholeInv'
<1> SUFFICES ASSUME WholeInv, [Next]_vars PROVE WholeInv'
  OBVIOUS
<1>1. ASSUME Whole(chat'), UNCHANGED gateway, stream' \in Seq(Events) PROVE WholeInv'
  BY <1>1 DEF WholeInv, Whole, Shaped, Calls, Callers, Stages
<1>2. CASE Receive
  <2>1. Head(stream) \in Events /\ stream' \in Seq(Events) /\ UNCHANGED gateway
    BY <1>2 DEF Receive, WholeInv
  <2> QED BY <1>1, <1>2, <2>1, HandleWhole DEF Receive, WholeInv
<1>3. CASE Flush \/ Flight \/ TailAnswered \/ Tick \/ Receipt \/ StopAnswered
  <2>1. UNCHANGED <<gateway, stream>>
    BY <1>3 DEF Flush, Flight, Step, TailAnswered, Tick, Receipt, StopAnswered
  <2> QED BY <1>1, <1>3, <2>1, FlushWhole, FlightWhole, TailAnsweredWhole, TickWhole,
             ReceiptWhole, StopAnsweredWhole DEF WholeInv
<1>4. CASE Server \/ Lose \/ Repeat
  BY <1>4, ServerWhole DEF WholeInv, Whole, Shaped
<1>5. CASE CallFails \/ TailFails \/ ReceiptLost
  <2>1. UNCHANGED <<gateway, stream>>
    BY <1>5 DEF CallFails, TailFails, ReceiptLost
  <2> QED BY <1>1, <1>5, <2>1, CallFailsWhole, TailFailsWhole, ReceiptLostWhole DEF WholeInv
<1>6. CASE Stop \/ UNCHANGED vars
  BY <1>6 DEF Stop, vars, WholeInv, Whole, Shaped
<1> QED BY <1>2, <1>3, <1>4, <1>5, <1>6 DEF Next, Page, Faults

\* What is on the page and waits for a frame is a prefix of the answer, each byte
\* once and in its place, for every answer and every number of events, faults
\* and calls under way, unless the code is known to have lost count
\* (acceptCanonicalDelta, flush, requestCanonicalResync, applyRecoveredLive, load).
THEOREM PreviewIsPrefix == Spec => []ShownIsPrefix
<1>1. WholeInv => ShownIsPrefix
  BY DEF WholeInv, Whole, ShownIsPrefix
<1> QED BY <1>1, WholeInit, WholeStep, PTL DEF Spec

-----------------------------------------------------------------------------
(***************************************************************************)
(* Types.                                                                  *)
(***************************************************************************)
Octets == 1 .. MaxBytes

\* A flight that was not forgotten knows who awaits it, and the one that is
\* forgotten with its timer never waits for the transcript.
Flights ==
  {x \in Calls : x.by \in Callers /\ (x.by = "progress" => x.at \in {"live", "projection"})}

Parts == {"exec", "slot", "shown", "text", "buffer", "consumed", "calls", "timer"}

Tidy(c) ==
  /\ Parts \subseteq DOMAIN c
  /\ c.consumed \in 0 .. MaxBytes /\ c.text \in Seq(Octets) /\ c.buffer \in Seq(Octets)
  /\ (c.text # <<>> => c.shown) /\ (c.timer => c.exec)
  /\ c.calls \subseteq Flights

Shots == {s \in Snapshots : s.bytes <= MaxBytes}
Pieces == {e \in Events : e.to <= MaxBytes}

TidyInv ==
  /\ WholeInv /\ Tidy(chat)
  /\ gateway \in Seq(Shots) /\ stream \in Seq(Pieces)
  /\ post \in {"none", "asked", "accepted"}
  /\ stop \in {"none", "asked", "cancelled", "already_terminal", "done"}

LEMMA SameParts ==
  ASSUME NEW c, NEW d, Tidy(c), DOMAIN d = DOMAIN c,
         d.consumed = c.consumed, d.text = c.text, d.buffer = c.buffer,
         d.shown = c.shown, d.exec = c.exec, d.timer \in {FALSE, c.timer},
         d.calls \subseteq Flights
  PROVE  Tidy(d)
  BY DEF Tidy

\* Nothing is shown and nothing waits for a frame.
LEMMA EmptyTidy ==
  ASSUME NEW c, Parts \subseteq DOMAIN c, c.consumed \in 0 .. MaxBytes, c.text = <<>>,
         c.buffer = <<>>, c.timer => c.exec, c.calls \subseteq Flights
  PROVE  Tidy(c)
<1>1. <<>> \in Seq(Octets)
  OBVIOUS
<1> QED BY <1>1 DEF Tidy

LEMMA OctetsJoined ==
  ASSUME NEW s \in Seq(Octets), NEW t \in Seq(Octets)
  PROVE  s \o t \in Seq(Octets)
  BY ConcatProperties

LEMMA OctetsCut ==
  ASSUME NEW s \in Seq(Octets), NEW n \in 1 .. Len(s)
  PROVE  /\ SubSeq(s, 1, n) \in Seq(Octets)
         /\ SubSeq(s, n + 1, Len(s)) \in Seq(Octets)
  OBVIOUS

LEMMA PieceTidy ==
  ASSUME NEW m \in Nat, NEW n \in 0 .. MaxBytes, m <= n
  PROVE  Bytes(m, n) \in Seq(Octets)
<1>1. \A i \in 1 .. n - m : m + i \in Octets
  BY AnswerAssumption DEF Octets
<1> HIDE DEF Octets
<1>2. n - m \in Nat
  OBVIOUS
<1> QED BY <1>1, <1>2 DEF Bytes

LEMMA CallFlight ==
  ASSUME WholeInv, NEW by \in Callers, NEW at \in Stages,
         by = "progress" => at \in {"live", "projection"}
  PROVE  Call(by, at) \in Flights
<1>1. Call(by, at) \in Calls /\ Call(by, at).by = by /\ Call(by, at).at = at
  BY CallTyped DEF Call
<1> QED BY <1>1 DEF Flights

-----------------------------------------------------------------------------
(* What the handlers are made of keeps it *)

LEMMA HideTidy ==
  ASSUME NEW c, Tidy(c)
  PROVE  /\ Tidy(Hide(c)) /\ Hide(c).text = <<>> /\ Hide(c).calls = c.calls
         /\ Hide(c).timer = c.timer /\ Hide(c).exec = c.exec
         /\ Hide(c).consumed = c.consumed /\ DOMAIN Hide(c) = DOMAIN c
<1> DEFINE d == Hide(c)
<1>1. /\ DOMAIN d = DOMAIN c /\ d.consumed = c.consumed /\ d.text = <<>>
      /\ d.buffer = c.buffer /\ d.exec = c.exec /\ d.timer = c.timer /\ d.calls = c.calls
  BY DEF Hide, Tidy, Parts
<1>2. <<>> \in Seq(Octets)
  OBVIOUS
<1> HIDE DEF d
<1>3. Tidy(d)
  BY <1>1, <1>2 DEF Tidy
<1> QED BY <1>1, <1>3 DEF d

LEMMA EnsureTidy == ASSUME NEW c, Tidy(c) PROVE Tidy(Ensure(c))
<1> DEFINE d == Ensure(c)
<1>1. /\ DOMAIN d = DOMAIN c /\ d.consumed = c.consumed /\ d.text = c.text
      /\ d.buffer = c.buffer /\ d.exec = c.exec /\ d.timer = c.timer /\ d.calls = c.calls
      /\ d.shown = (c.shown \/ c.slot)
  BY DEF Ensure, Tidy, Parts
<1> HIDE DEF d
<1>2. Tidy(d)
  BY <1>1 DEF Tidy
<1> QED BY <1>2 DEF d

LEMMA IdleTidy == ASSUME NEW c, Tidy(c) PROVE Tidy(Idle(c))
<1> DEFINE later == {[x EXCEPT !.by = IF @ = "progress" THEN x.at ELSE @] : x \in c.calls}
           d == Idle(c)
<1>1. later \subseteq Flights
  <2> SUFFICES ASSUME NEW x \in c.calls
               PROVE  [x EXCEPT !.by = IF @ = "progress" THEN x.at ELSE @] \in Flights
    OBVIOUS
  <2>1. x \in Calls /\ x.by \in Callers /\ (x.by = "progress" => x.at \in {"live", "projection"})
    BY DEF Tidy, Flights
  <2> DEFINE by == IF x.by = "progress" THEN x.at ELSE x.by
             y == [x EXCEPT !.by = by]
  <2>2. by \in Callers /\ by # "progress"
    BY <2>1 DEF Callers
  <2> HIDE DEF by
  <2>3. y \in Calls /\ y.by = by
    BY <2>1, <2>2 DEF Calls
  <2> QED BY <2>2, <2>3 DEF Flights, by
<1>2. d = [c EXCEPT !.pending = FALSE, !.timer = FALSE, !.calls = later]
  BY DEF Idle
<1> HIDE DEF d, later
<1>3. /\ DOMAIN d = DOMAIN c /\ d.consumed = c.consumed /\ d.text = c.text
      /\ d.buffer = c.buffer /\ d.shown = c.shown /\ d.exec = c.exec
      /\ d.timer = FALSE /\ d.calls = later
  BY <1>2 DEF Tidy, Parts
<1> QED BY <1>1, <1>3, SameParts DEF d

LEMMA AskedTidy ==
  ASSUME WholeInv, NEW c, Tidy(c), NEW by \in Callers, NEW at \in Stages,
         by = "progress" => at \in {"live", "projection"}
  PROVE  Tidy(Asked(c, by, at))
<1> DEFINE d == [c EXCEPT !.calls = @ \cup {Call(by, at)}]
<1>1. /\ DOMAIN d = DOMAIN c /\ d.consumed = c.consumed /\ d.text = c.text
      /\ d.buffer = c.buffer /\ d.shown = c.shown /\ d.exec = c.exec
      /\ d.timer = c.timer /\ d.calls = c.calls \cup {Call(by, at)}
  BY DEF Tidy, Parts
<1>2. d.calls \subseteq Flights
  BY <1>1, CallFlight DEF Tidy
<1> HIDE DEF d
<1>3. Tidy(d)
  BY <1>1, <1>2, SameParts
<1> QED BY <1>3 DEF Asked, d

LEMMA RefreshTidy ==
  ASSUME WholeInv, NEW c, Tidy(c) PROVE Tidy(Refresh(c)) /\ Tidy(RefreshBoth(c))
<1>1. {"live", "projection"} \subseteq Callers /\ {"live", "projection"} \subseteq Stages
  BY DEF Callers, Stages
<1>2. Tidy(Refresh(c))
  BY <1>1, AskedTidy DEF Refresh
<1> QED BY <1>1, <1>2, AskedTidy DEF RefreshBoth

LEMMA LoadingTidy ==
  ASSUME NEW c, Tidy(c) PROVE Tidy(Loading(c)) /\ Loading(c).calls = c.calls
  BY DEF Tidy, Parts, Loading

LEMMA TailSyncTidy == ASSUME NEW c, Tidy(c) PROVE Tidy(TailSync(c))
  BY DEF Tidy, Parts, TailSync

LEMMA ResyncTidy == ASSUME WholeInv, NEW c, Tidy(c) PROVE Tidy(Resync(c))
<1> DEFINE d == [c EXCEPT !.buffer = <<>>, !.degraded = TRUE, !.spoiled = @ \/ c.buffer # <<>>]
           e == [d EXCEPT !.calls = @ \cup {Call("resync", "load")}]
<1>1. /\ DOMAIN d = DOMAIN c /\ d.consumed = c.consumed /\ d.text = c.text
      /\ d.buffer = <<>> /\ d.shown = c.shown /\ d.exec = c.exec
      /\ d.timer = c.timer /\ d.calls = c.calls
  BY DEF Tidy, Parts
<1>2. Resync(c) = IF Under(c, "resync") THEN d
                  ELSE IF c.exec THEN Asked(d, "resync", "live") ELSE Loading(e)
  BY DEF Resync, d, e
<1> HIDE DEF d
<1>3. Tidy(d)
  <2>1. <<>> \in Seq(Octets)
    OBVIOUS
  <2> QED BY <1>1, <2>1 DEF Tidy
<1>4. "resync" \in Callers /\ "live" \in Stages /\ "load" \in Stages
  BY DEF Callers, Stages
<1>5. Tidy(e)
  <2>1. /\ DOMAIN e = DOMAIN d /\ e.consumed = d.consumed /\ e.text = d.text
        /\ e.buffer = d.buffer /\ e.shown = d.shown /\ e.exec = d.exec
        /\ e.timer = d.timer /\ e.calls = d.calls \cup {Call("resync", "load")}
    BY <1>3 DEF Tidy, Parts
  <2>2. e.calls \subseteq Flights
    BY <1>3, <1>4, <2>1, CallFlight DEF Tidy
  <2> HIDE DEF e
  <2> QED BY <1>3, <2>1, <2>2, SameParts
<1> HIDE DEF e
<1> QED BY <1>2, <1>3, <1>4, <1>5, AskedTidy, LoadingTidy

LEMMA AdoptTidy == ASSUME NEW c, Tidy(c) PROVE Tidy(Adopt(c))
<1> DEFINE again == [c EXCEPT !.pending = TRUE, !.timer = TRUE]
           h == Hide(c)
           new == [h EXCEPT !.exec = TRUE, !.pending = TRUE, !.timer = TRUE, !.slot = TRUE,
                     !.cancelled = FALSE, !.buffer = <<>>, !.consumed = 0, !.ended = FALSE]
<1>1. c.exec => Tidy(again)
  BY DEF Tidy, Parts
<1>2. /\ Tidy(h) /\ h.text = <<>> /\ h.calls = c.calls
  BY HideTidy
<1>3. Adopt(c) = IF c.exec THEN Ensure(again) ELSE Ensure(new)
  BY DEF Adopt
<1> HIDE DEF h
<1>4. /\ DOMAIN new = DOMAIN h /\ new.consumed = 0 /\ new.text = <<>> /\ new.buffer = <<>>
      /\ new.exec = TRUE /\ new.calls = h.calls
  BY <1>2 DEF Tidy, Parts
<1> HIDE DEF again, new
<1>5. Tidy(new)
  <2>1. 0 \in 0 .. MaxBytes
    BY AnswerAssumption
  <2> QED BY <1>2, <1>4, <2>1, EmptyTidy DEF Tidy
<1> QED BY <1>1, <1>3, <1>5, EnsureTidy

LEMMA AdoptCompleteTidy == ASSUME NEW c, Tidy(c) PROVE Tidy(AdoptComplete(c))
<1> DEFINE i == Idle(c)
           done == [i EXCEPT !.ended = TRUE]
           h == Hide(c)
           new == [h EXCEPT !.exec = TRUE, !.pending = FALSE, !.slot = TRUE,
                     !.cancelled = FALSE, !.buffer = <<>>, !.consumed = 0, !.ended = TRUE]
<1>1. Tidy(i) /\ Tidy(h) /\ h.text = <<>>
  BY HideTidy, IdleTidy
<1>2. AdoptComplete(c) = IF c.exec THEN done ELSE new
  BY DEF AdoptComplete
<1> HIDE DEF h, i
<1>3. Tidy(done)
  BY <1>1 DEF Tidy, Parts
<1>4. /\ DOMAIN new = DOMAIN h /\ new.consumed = 0 /\ new.text = <<>> /\ new.buffer = <<>>
      /\ new.exec = TRUE /\ new.calls = h.calls
  BY <1>1 DEF Tidy, Parts
<1> HIDE DEF done, new
<1>5. Tidy(new)
  <2>1. 0 \in 0 .. MaxBytes
    BY AnswerAssumption
  <2> QED BY <1>1, <1>4, <2>1, EmptyTidy DEF Tidy
<1> QED BY <1>2, <1>3, <1>5

LEMMA CancelledTidy == ASSUME NEW c, Tidy(c) PROVE Tidy(Cancelled(c))
<1> DEFINE h == Hide(Idle(c))
           d == [h EXCEPT !.noted = TRUE, !.cancelled = TRUE, !.slot = FALSE, !.buffer = <<>>]
<1>1. Tidy(h) /\ h.text = <<>>
  BY HideTidy, IdleTidy
<1>2. Cancelled(c) \in {c, d}
  BY DEF Cancelled
<1> HIDE DEF h
<1>3. /\ DOMAIN d = DOMAIN h /\ d.consumed = h.consumed /\ d.text = <<>> /\ d.buffer = <<>>
      /\ d.exec = h.exec /\ d.timer = h.timer /\ d.calls = h.calls
  BY <1>1 DEF Tidy, Parts
<1> HIDE DEF d
<1> QED BY <1>1, <1>2, <1>3, EmptyTidy DEF Tidy

-----------------------------------------------------------------------------
(* Events and snapshots *)

LEMMA QueueTidy ==
  ASSUME NEW c, Tidy(c), NEW piece \in Seq(Octets) PROVE Tidy(Queue(c, piece))
<1> DEFINE wait == [c EXCEPT !.buffer = @ \o piece]
           paint == [c EXCEPT !.text = IF c.shown THEN @ \o piece ELSE @]
<1>1. c.buffer \o piece \in Seq(Octets) /\ c.text \o piece \in Seq(Octets)
  BY OctetsJoined DEF Tidy
<1>2. /\ DOMAIN wait = DOMAIN c /\ wait.consumed = c.consumed /\ wait.text = c.text
      /\ wait.buffer = c.buffer \o piece /\ wait.shown = c.shown /\ wait.exec = c.exec
      /\ wait.timer = c.timer /\ wait.calls = c.calls
  BY DEF Tidy, Parts
<1>3. /\ DOMAIN paint = DOMAIN c /\ paint.consumed = c.consumed
      /\ paint.text = (IF c.shown THEN c.text \o piece ELSE c.text)
      /\ paint.buffer = c.buffer /\ paint.shown = c.shown /\ paint.exec = c.exec
      /\ paint.timer = c.timer /\ paint.calls = c.calls
  BY DEF Tidy, Parts
<1>4. Queue(c, piece) \in {wait, paint}
  BY DEF Queue
<1> HIDE DEF wait, paint
<1>5. Tidy(wait)
  BY <1>1, <1>2 DEF Tidy
<1>6. Tidy(paint)
  BY <1>1, <1>3 DEF Tidy
<1> QED BY <1>4, <1>5, <1>6

LEMMA DeltaTidy ==
  ASSUME WholeInv, NEW c, Tidy(c), NEW e \in Pieces PROVE Tidy(Delta(c, e))
<1> DEFINE b == Ensure(c)
           d == [b EXCEPT !.consumed = e.to]
<1>1. Tidy(b) /\ c.consumed \in 0 .. MaxBytes /\ e.to \in 0 .. MaxBytes /\ e.from \in Nat
  BY EnsureTidy, AnswerAssumption DEF Pieces, Events, Tidy
<1>2. Delta(c, e) = IF e.from > c.consumed THEN Resync(c)
                    ELSE IF e.to <= c.consumed THEN c
                    ELSE Queue(d, Bytes(c.consumed, e.to))
  BY DEF Delta, Overlap
<1> HIDE DEF b
<1>3. Tidy(d)
  BY <1>1 DEF Tidy, Parts
<1> HIDE DEF d
<1>4. CASE e.from > c.consumed \/ e.to <= c.consumed
  BY <1>2, <1>4, ResyncTidy
<1>5. CASE ~(e.from > c.consumed) /\ ~(e.to <= c.consumed)
  <2>1. c.consumed \in Nat /\ c.consumed <= e.to
    BY <1>1, <1>5
  <2>2. Bytes(c.consumed, e.to) \in Seq(Octets)
    BY <1>1, <2>1, PieceTidy
  <2> QED BY <1>2, <1>3, <1>5, <2>2, QueueTidy
<1> QED BY <1>4, <1>5

LEMMA HandleTidy ==
  ASSUME WholeInv, NEW c, Tidy(c), NEW e \in Pieces PROVE Tidy(Handle(c, e))
<1> DEFINE a == Adopt(c)
           i == Idle(c)
           adopted == [a EXCEPT !.ended = FALSE]
           settled == [i EXCEPT !.settled = c.shown]
           failed == [i EXCEPT !.ended = TRUE]
           b == Ensure(c)
           ended == [b EXCEPT !.ended = @ \/ c.exec]
<1>1. Tidy(a) /\ Tidy(i) /\ Tidy(b)
  BY AdoptTidy, IdleTidy, EnsureTidy
<1>2. Handle(c, e) \in {Resync(c), Cancelled(c), c, adopted, RefreshBoth(TailSync(settled)),
                        TailSync(c), Delta(c, e), ended, RefreshBoth(failed)}
  BY Zenon DEF Handle
<1> HIDE DEF a, i, b
<1>3. Tidy(adopted)
  BY <1>1 DEF Tidy, Parts
<1>4. Tidy(settled)
  BY <1>1 DEF Tidy, Parts
<1>5. Tidy(failed)
  BY <1>1 DEF Tidy, Parts
<1>6. Tidy(ended)
  BY <1>1 DEF Tidy, Parts
<1> HIDE DEF adopted, settled, failed, ended
<1> QED BY <1>2, <1>3, <1>4, <1>5, <1>6, ResyncTidy, CancelledTidy, RefreshTidy,
           TailSyncTidy, DeltaTidy

LEMMA RewrittenTidy ==
  ASSUME NEW c, Tidy(c), NEW s \in Shots PROVE Tidy(Rewritten(c, s))
<1> DEFINE b == [c EXCEPT !.consumed = s.bytes]
           d == Ensure(b)
           e == [d EXCEPT !.text = IF d.shown THEN Bytes(0, s.bytes) ELSE @,
                          !.spoiled = d.buffer # <<>>]
<1>1. s.bytes \in 0 .. MaxBytes
  BY AnswerAssumption DEF Shots, Snapshots
<1>2. Tidy(b)
  BY <1>1 DEF Tidy, Parts
<1>3. Rewritten(c, s) \in {Hide(b), e}
  BY DEF Rewritten
<1> HIDE DEF b
<1>4. Tidy(d) /\ Tidy(Hide(b))
  BY <1>2, EnsureTidy, HideTidy
<1> HIDE DEF d
<1>5. /\ DOMAIN e = DOMAIN d /\ e.consumed = d.consumed
      /\ e.text = (IF d.shown THEN Bytes(0, s.bytes) ELSE d.text)
      /\ e.buffer = d.buffer /\ e.shown = d.shown /\ e.exec = d.exec
      /\ e.timer = d.timer /\ e.calls = d.calls
  BY <1>4 DEF Tidy, Parts
<1> HIDE DEF e
<1>6. Bytes(0, s.bytes) \in Seq(Octets)
  <2>1. 0 \in Nat /\ 0 <= s.bytes
    BY <1>1
  <2> QED BY <1>1, <2>1, PieceTidy
<1>7. Tidy(e)
  BY <1>4, <1>5, <1>6 DEF Tidy
<1> QED BY <1>3, <1>4, <1>7

LEMMA ApplyTidy == ASSUME NEW c, Tidy(c), NEW s \in Shots PROVE Tidy(Apply(c, s))
<1> DEFINE d == [c EXCEPT !.ended = s.status \in Terminal, !.degraded = @ /\ ~Recovers(c, s)]
           h == Hide(d)
           over == [h EXCEPT !.buffer = <<>>, !.consumed = 0, !.slot = FALSE, !.cancelled = TRUE]
           e == CASE s.status = "cancelled" -> over
                  [] s.status # "cancelled" /\ s.bytes > 0 -> Rewritten(d, s)
                  [] OTHER -> d
<1>1. Apply(c, s) = IF Superseded(c, s) THEN c
                    ELSE IF s.status \notin Terminal THEN e
                    ELSE IF c.pending THEN TailSync(Idle(e)) ELSE Idle(e)
  BY DEF Apply, over, h, d
<1>2. Tidy(d)
  BY DEF Tidy, Parts
<1> HIDE DEF d
<1>3. Tidy(h) /\ h.text = <<>>
  BY <1>2, HideTidy
<1> HIDE DEF h
<1>4. /\ DOMAIN over = DOMAIN h /\ over.consumed = 0 /\ over.text = <<>>
      /\ over.buffer = <<>> /\ over.exec = h.exec /\ over.timer = h.timer
      /\ over.calls = h.calls
  BY <1>3 DEF Tidy, Parts
<1> HIDE DEF over
<1>5. Tidy(over)
  <2>1. 0 \in 0 .. MaxBytes
    BY AnswerAssumption
  <2> QED BY <1>3, <1>4, <2>1, EmptyTidy DEF Tidy
<1>6. Tidy(e)
  <2>1. CASE s.status = "cancelled"
    BY <1>5, <2>1
  <2>2. CASE s.status # "cancelled" /\ s.bytes > 0
    BY <1>2, <2>2, RewrittenTidy
  <2>3. CASE s.status # "cancelled" /\ ~(s.bytes > 0)
    BY <1>2, <2>3
  <2> QED BY <2>1, <2>2, <2>3
<1> HIDE DEF e
<1> QED BY <1>1, <1>6, IdleTidy, TailSyncTidy

\* A flight goes on under the name of whoever awaits it.
LEMMA GotoTidy ==
  ASSUME WholeInv, NEW c, Tidy(c), NEW x \in Flights, NEW then \in Stages \cup {"done"},
         x.by = "progress" => then \in {"projection", "done"}
  PROVE  Tidy(Goto(c, x, then))
<1> DEFINE d == IF then = "load" THEN Loading(c) ELSE c
           more == (d.calls \ {x}) \cup (IF then = "done" THEN {} ELSE {Call(x.by, then)})
           e == [d EXCEPT !.calls = (@ \ {x}) \cup (IF then = "done" THEN {} ELSE {Call(x.by, then)})]
<1>1. Tidy(d)
  BY LoadingTidy
<1>2. Goto(c, x, then) = e
  BY DEF Goto, d
<1> HIDE DEF d
<1>3. more \subseteq Flights
  <2>1. x.by \in Callers /\ d.calls \subseteq Flights
    BY <1>1 DEF Flights, Tidy
  <2>2. then # "done" => Call(x.by, then) \in Flights
    BY <2>1, CallFlight
  <2> QED BY <2>1, <2>2
<1>4. /\ DOMAIN e = DOMAIN d /\ e.consumed = d.consumed /\ e.text = d.text
      /\ e.buffer = d.buffer /\ e.shown = d.shown /\ e.exec = d.exec
      /\ e.timer = d.timer /\ e.calls = more
  BY <1>1 DEF Tidy, Parts
<1> HIDE DEF e, more
<1> QED BY <1>1, <1>2, <1>3, <1>4, SameParts

LEMMA LoadedTidy == ASSUME WholeInv, NEW c, Tidy(c), NEW durable PROVE Tidy(Loaded(c, durable))
<1> DEFINE text == IF c.shown THEN c.text \o c.buffer ELSE <<>>
           keep == text # <<>> /\ ~durable
           kept == [c EXCEPT !.text = text]
           b == IF keep THEN kept ELSE Hide(c)
           d == [b EXCEPT !.buffer = <<>>, !.answer = durable]
           e == IF durable \/ d.settled THEN AdoptComplete(d) ELSE d
<1>1. Loaded(c, durable) = IF e.exec /\ e.pending THEN Refresh(Ensure(e)) ELSE e
  BY DEF Loaded
<1>2. text \in Seq(Octets) /\ (text # <<>> => c.shown)
  <2>1. c.text \o c.buffer \in Seq(Octets) /\ <<>> \in Seq(Octets)
    BY OctetsJoined DEF Tidy
  <2> QED BY <2>1
<1> HIDE DEF text
<1>3. Tidy(kept)
  <2>1. /\ DOMAIN kept = DOMAIN c /\ kept.consumed = c.consumed /\ kept.text = text
        /\ kept.buffer = c.buffer /\ kept.shown = c.shown /\ kept.exec = c.exec
        /\ kept.timer = c.timer /\ kept.calls = c.calls
    BY DEF Tidy, Parts
  <2> HIDE DEF kept
  <2> QED BY <1>2, <2>1 DEF Tidy
<1> HIDE DEF kept
<1>4. Tidy(b)
  BY <1>3, HideTidy
<1> HIDE DEF b
<1>5. Tidy(d)
  <2>1. /\ DOMAIN d = DOMAIN b /\ d.consumed = b.consumed /\ d.text = b.text
        /\ d.buffer = <<>> /\ d.shown = b.shown /\ d.exec = b.exec
        /\ d.timer = b.timer /\ d.calls = b.calls
    BY <1>4 DEF Tidy, Parts
  <2>2. <<>> \in Seq(Octets)
    OBVIOUS
  <2> HIDE DEF d
  <2> QED BY <1>4, <2>1, <2>2 DEF Tidy
<1> HIDE DEF d
<1>6. Tidy(e)
  BY <1>5, AdoptCompleteTidy
<1> HIDE DEF e
<1> QED BY <1>1, <1>6, EnsureTidy, RefreshTidy

LEMMA LoadOverTidy ==
  ASSUME WholeInv, NEW c, Tidy(c), NEW x \in Flights PROVE Tidy(LoadOver(c, x))
<1> DEFINE d == [c EXCEPT !.degraded = @ /\ ~c.answer]
<1>1. Tidy(d)
  BY DEF Tidy, Parts
<1> HIDE DEF d
<1> QED BY <1>1, GotoTidy DEF LoadOver, d

-----------------------------------------------------------------------------
(* Steps *)

LEMMA SnapshotTidy ==
  ASSUME TidyInv, NEW x \in chat.calls, NEW s \in Shots, SnapshotAnswered(x, s)
  PROVE  Tidy(chat')
<1> DEFINE b == [chat EXCEPT !.calls = @ \ {x}]
           c == IF x.at = "projection" /\ s.status = "cancelled" THEN Cancelled(b) ELSE b
<1>0. WholeInv /\ Tidy(chat) /\ x \in Flights
  BY DEF TidyInv, Tidy
<1>1. Tidy(b)
  BY <1>0 DEF Tidy, Parts
<1>2. PICK then \in After(x, Recovers(c, s)) :
        chat' = Goto(Apply(c, s), x, IF Awaits(c, x, s) THEN WaitFor(then) ELSE then)
  BY DEF SnapshotAnswered, b
<1> HIDE DEF b
<1>3. Tidy(c)
  BY <1>1, CancelledTidy
<1> HIDE DEF c
<1> DEFINE next == IF Awaits(c, x, s) THEN WaitFor(then) ELSE then
<1>4. then \in {"done", "projection", "load"} /\ (x.by = "progress" => then # "load")
  BY <1>2 DEF After
<1>5. x.by = "progress" => ~Awaits(c, x, s)
  BY DEF Awaits
<1>6. next \in Stages \cup {"done"} /\ (x.by = "progress" => next \in {"projection", "done"})
  BY <1>4, <1>5, WaitsKnown DEF Stages
<1>7. Tidy(Apply(c, s))
  BY <1>3, ApplyTidy
<1>8. chat' = Goto(Apply(c, s), x, next)
  BY <1>2
<1> HIDE DEF next
<1> QED BY <1>0, <1>6, <1>7, <1>8, GotoTidy

LEMMA FlightTidy == ASSUME TidyInv, Flight PROVE Tidy(chat')
<1>0. WholeInv /\ Tidy(chat) /\ chat.calls \subseteq Flights /\ gateway \in Seq(Shots)
  BY DEF TidyInv, Tidy
<1>1. PICK x \in chat.calls : (x.at \in DOMAIN Waits /\ WaitOver(x)) \/ Answered(x)
  BY DEF Flight, Step
<1>2. x \in Flights /\ x \in Calls
  BY <1>0 DEF Flights
<1>3. CASE x.at \in DOMAIN Waits /\ WaitOver(x)
  <2>1. Waits[x.at] \in Stages \cup {"done"}
    BY <1>3, WaitsKnown DEF Stages
  <2>2. x.by # "progress"
    BY <1>2, <1>3, WaitsKnown DEF Flights
  <2> QED BY <1>0, <1>2, <1>3, <2>1, <2>2, GotoTidy DEF WaitOver
<1>4. CASE Answered(x)
  <2>1. PICK n \in (IF x.at = "projection" THEN 2 ELSE x.since) .. Now :
          IF x.at = "load" THEN chat' = LoadOver(Loaded(chat, gateway[n].durable), x)
          ELSE SnapshotAnswered(x, gateway[n])
    BY <1>4 DEF Answered
  <2>2. n \in 1 .. Len(gateway)
    BY <1>0, <1>2, <2>1 DEF Calls, Now
  <2>3. gateway[n] \in Shots
    BY <1>0, <2>2
  <2>4. CASE x.at = "load"
    BY <1>0, <1>2, <2>1, <2>4, LoadedTidy, LoadOverTidy
  <2>5. CASE x.at # "load"
    BY <2>1, <2>3, <2>5, SnapshotTidy
  <2> QED BY <2>4, <2>5
<1> QED BY <1>1, <1>3, <1>4

LEMMA TailAnsweredTidy == ASSUME TidyInv, TailAnswered PROVE Tidy(chat')
<1> DEFINE c == [chat EXCEPT !.tail = Unasked]
           b == IF c.exec THEN Hide(c) ELSE c
           d == [b EXCEPT !.answer = TRUE]
<1>1. Tidy(c)
  BY DEF TidyInv, Tidy, Parts
<1>2. chat' \in {c, d}
  BY DEF TailAnswered
<1> HIDE DEF c
<1>3. Tidy(b)
  BY <1>1, HideTidy
<1> HIDE DEF b
<1>4. Tidy(d)
  BY <1>3 DEF Tidy, Parts
<1> HIDE DEF d
<1> QED BY <1>1, <1>2, <1>4

LEMMA FlushTidy == ASSUME TidyInv, Flush PROVE Tidy(chat')
<1> DEFINE t == chat.text
           b == chat.buffer
<1>1. PICK n \in 1 .. Len(b) :
        chat' = [chat EXCEPT !.buffer = SubSeq(@, n + 1, Len(@)),
                   !.text = IF chat.shown THEN @ \o SubSeq(b, 1, n) ELSE @]
  BY DEF Flush
<1>2. Tidy(chat) /\ t \in Seq(Octets) /\ b \in Seq(Octets)
  BY DEF TidyInv, Tidy
<1> DEFINE rest == SubSeq(b, n + 1, Len(b))
           more == t \o SubSeq(b, 1, n)
<1>3. rest \in Seq(Octets) /\ more \in Seq(Octets)
  <2>1. SubSeq(b, 1, n) \in Seq(Octets) /\ rest \in Seq(Octets)
    BY <1>2, OctetsCut
  <2> QED BY <1>2, <2>1, OctetsJoined
<1>4. /\ DOMAIN chat' = DOMAIN chat /\ chat'.exec = chat.exec /\ chat'.shown = chat.shown
      /\ chat'.text = (IF chat.shown THEN more ELSE t) /\ chat'.timer = chat.timer
      /\ chat'.buffer = rest /\ chat'.consumed = chat.consumed /\ chat'.calls = chat.calls
  BY <1>1, <1>2 DEF Tidy, Parts
<1> HIDE DEF rest, more
<1> QED BY <1>2, <1>3, <1>4 DEF Tidy

LEMMA TickTidy == ASSUME TidyInv, Tick PROVE Tidy(chat')
<1>1. WholeInv /\ Tidy(chat) /\ Tidy([chat EXCEPT !.timer = FALSE])
  BY DEF TidyInv, Tidy, Parts
<1>2. "progress" \in Callers /\ "live" \in Stages
  BY DEF Callers, Stages
<1>3. Tidy(Asked(chat, "progress", "live"))
  BY <1>1, <1>2, AskedTidy
<1> QED BY <1>1, <1>3 DEF Tick

LEMMA ReceiptTidy == ASSUME TidyInv, Receipt PROVE Tidy(chat')
<1> DEFINE a == Adopt(chat)
<1>1. Tidy(a)
  BY AdoptTidy DEF TidyInv
<1>2. chat' = [a EXCEPT !.ended = FALSE]
  BY DEF Receipt
<1> HIDE DEF a
<1> QED BY <1>1, <1>2 DEF Tidy, Parts

LEMMA StopAnsweredTidy == ASSUME TidyInv, StopAnswered PROVE Tidy(chat')
  BY CancelledTidy, RefreshTidy DEF TidyInv, StopAnswered

LEMMA CallFailsTidy == ASSUME TidyInv, CallFails PROVE Tidy(chat')
<1> DEFINE d == [chat EXCEPT !.degraded = TRUE]
<1>1. WholeInv /\ Tidy(chat) /\ Tidy(d) /\ chat.calls \subseteq Flights
  BY DEF TidyInv, Tidy, Parts
<1>2. PICK x \in chat.calls : \E then \in After(x, FALSE) :
        chat' \in {LoadOver(d, x), Goto(chat, x, then)}
  BY DEF CallFails
<1>3. PICK then \in After(x, FALSE) : chat' \in {LoadOver(d, x), Goto(chat, x, then)}
  BY <1>2
<1>4. /\ then \in Stages \cup {"done"}
      /\ x.by = "progress" => then \in {"projection", "done"}
  BY <1>3 DEF After, Stages
<1>5. x \in Flights
  BY <1>1
<1> HIDE DEF d
<1> QED BY <1>1, <1>3, <1>4, <1>5, LoadOverTidy, GotoTidy

LEMMA TailFailsTidy == ASSUME TidyInv, TailFails PROVE Tidy(chat')
  BY DEF TidyInv, Tidy, Parts, TailFails

LEMMA ReceiptLostTidy == ASSUME TidyInv, ReceiptLost PROVE Tidy(chat')
<1> DEFINE h == Hide(Idle(chat))
<1>1. Tidy(h)
  BY IdleTidy, HideTidy DEF TidyInv
<1>2. chat' = [h EXCEPT !.slot = FALSE, !.ended = TRUE]
  BY DEF ReceiptLost
<1> HIDE DEF h
<1> QED BY <1>1, <1>2 DEF Tidy, Parts

\* The gateway makes no more bytes than there are, and tells of no others.
LEMMA ServerTidy ==
  ASSUME TidyInv, Server \/ Lose \/ Repeat
  PROVE  gateway' \in Seq(Shots) /\ stream' \in Seq(Pieces)
<1> DEFINE last == Snapshot
<1>1. /\ gateway \in Seq(Shots) /\ gateway # <<>> /\ stream \in Seq(Pieces)
      /\ last \in Shots
  BY DEF TidyInv, WholeInv, Snapshot, Last
<1>2. /\ \A kind \in Kinds : Event(kind) \in Pieces
      /\ \A m \in Nat, n \in 0 .. MaxBytes : Piece(m, n) \in Pieces
  <2>1. /\ \A kind \in Kinds : Event(kind) \in Events
        /\ \A m, n \in Nat : Piece(m, n) \in Events
    BY DEF Event, Piece, Events, Kinds
  <2>2. \A kind : Event(kind).to = 0
    BY DEF Event
  <2>3. \A m, n \in Nat : Piece(m, n).to = n
    BY DEF Piece, Event
  <2> QED BY <2>1, <2>2, <2>3, AnswerAssumption DEF Pieces
<1>3. /\ \A s \in Shots : Append(gateway, s) \in Seq(Shots)
      /\ \A e \in Pieces : Append(stream, e) \in Seq(Pieces)
  BY <1>1
<1> HIDE DEF last
<1>4. /\ last = [bytes |-> last.bytes, status |-> last.status, durable |-> last.durable]
      /\ last.bytes \in 0 .. MaxBytes /\ last.status \in Statuses /\ last.durable \in BOOLEAN
  BY <1>1, AnswerAssumption DEF Shots, Snapshots
<1>5. ASSUME NEW bytes \in 0 .. MaxBytes, NEW status \in Statuses, NEW durable \in BOOLEAN
      PROVE  [bytes |-> bytes, status |-> status, durable |-> durable] \in Shots
  BY AnswerAssumption DEF Shots, Snapshots
<1>6. ASSUME NEW status \in Statuses PROVE [last EXCEPT !.status = status] \in Shots
  <2>1. [last EXCEPT !.status = status] =
          [bytes |-> last.bytes, status |-> status, durable |-> last.durable]
    BY <1>4
  <2> QED BY <1>4, <1>5, <2>1
<1>7. {"running", "complete", "error", "cancelled"} \subseteq Statuses
  BY DEF Statuses, Terminal
<1>8. CASE Start
  BY <1>1, <1>2, <1>3, <1>6, <1>7, <1>8 DEF Start, Becomes, Emit, Kinds, last
<1>9. CASE Produce
  <2>1. last.bytes + 1 \in 0 .. MaxBytes /\ last.bytes \in Nat
    BY <1>4, <1>9, AnswerAssumption DEF Produce, last
  <2>2. [last EXCEPT !.bytes = @ + 1] =
          [bytes |-> last.bytes + 1, status |-> last.status, durable |-> last.durable]
    BY <1>4
  <2>3. [last EXCEPT !.bytes = @ + 1] \in Shots
    BY <1>4, <1>5, <2>1, <2>2
  <2>4. Piece(last.bytes, last.bytes + 1) \in Pieces
    BY <1>2, <2>1
  <2> QED BY <1>3, <1>9, <2>3, <2>4 DEF Produce, Becomes, Emit, last
<1>10. CASE Finish
  BY <1>1, <1>2, <1>3, <1>6, <1>7, <1>10 DEF Finish, Ends, Becomes, Emit, Kinds, last
<1>11. CASE Commit
  <2>1. last \in Snapshots
    BY <1>1 DEF Shots
  <2>2. [last EXCEPT !.durable = TRUE] \in Shots
    <3>1. [last EXCEPT !.durable = TRUE] \in Snapshots
      BY <1>4, <2>1, Zenon DEF Snapshots
    <3>2. [last EXCEPT !.durable = TRUE].bytes = last.bytes
      BY <2>1 DEF Snapshots
    <3> QED BY <1>4, <3>1, <3>2 DEF Shots
  <2> QED BY <1>2, <1>3, <1>11, <2>2 DEF Commit, Becomes, Emit, Kinds, last
<1>12. CASE Break
  BY <1>1, <1>2, <1>3, <1>6, <1>7, <1>12 DEF Break, Ends, Becomes, Emit, Kinds, last
<1>13. CASE Cancel
  BY <1>1, <1>2, <1>3, <1>6, <1>7, <1>13 DEF Cancel, Ends, Becomes, Emit, Kinds, last
<1>14. CASE Lose
  BY <1>1, <1>2, <1>14 DEF Lose, Kinds
<1>15. CASE Repeat
  <2>1. PICK n \in 1 .. last.bytes, m \in Nat : Emit(Piece(m, n)) /\ gateway' = gateway
    BY <1>4, <1>15 DEF Repeat, last
  <2>2. Piece(m, n) \in Pieces
    BY <1>2, <1>4, <2>1, AnswerAssumption
  <2> QED BY <1>1, <1>3, <2>1, <2>2 DEF Emit
<1> QED BY <1>8, <1>9, <1>10, <1>11, <1>12, <1>13, <1>14, <1>15 DEF Server

LEMMA AskedKept ==
  ASSUME TidyInv, [Next]_vars
  PROVE  /\ post' \in {"none", "asked", "accepted"}
         /\ stop' \in {"none", "asked", "cancelled", "already_terminal", "done"}
<1>0. /\ post \in {"none", "asked", "accepted"}
      /\ stop \in {"none", "asked", "cancelled", "already_terminal", "done"}
  BY DEF TidyInv
<1>1. CASE Page
  BY <1>0, <1>1 DEF Page, Receive, Flush, TailAnswered, Tick, Receipt, StopAnswered,
     Flight, Step
<1>2. CASE Server
  BY <1>0, <1>2 DEF Server, Start, Produce, Finish, Commit, Break, Cancel
<1>3. CASE Faults \/ Stop \/ UNCHANGED vars
  BY <1>0, <1>3 DEF Faults, Lose, Repeat, CallFails, TailFails, ReceiptLost, Stop, vars
<1> QED BY <1>1, <1>2, <1>3 DEF Next

LEMMA TidyInit == Init => TidyInv
<1> SUFFICES ASSUME Init PROVE TidyInv
  OBVIOUS
<1>1. Tidy(chat)
  <2>1. chat = NewChat(post = "asked") /\ 0 \in 0 .. MaxBytes
    BY AnswerAssumption DEF Init
  <2> QED BY <2>1, EmptyTidy DEF NewChat, Parts
<1>2. gateway \in Seq(Shots) /\ stream \in Seq(Pieces)
  <2>1. [bytes |-> 0, status |-> "none", durable |-> FALSE] \in Shots
    BY AnswerAssumption DEF Shots, Snapshots, Statuses
  <2> QED BY <2>1 DEF Init
<1> QED BY <1>1, <1>2, WholeInit DEF TidyInv, Init

LEMMA TidyStep == TidyInv /\ [Next]_vars => TidyInv'
<1> SUFFICES ASSUME TidyInv, [Next]_vars PROVE TidyInv'
  OBVIOUS
<1>0. WholeInv' /\ gateway \in Seq(Shots) /\ stream \in Seq(Pieces) /\ Tidy(chat)
  BY WholeStep DEF TidyInv
<1>1. ASSUME Tidy(chat'), gateway' \in Seq(Shots), stream' \in Seq(Pieces) PROVE TidyInv'
  <2>1. Tidy(chat)'
    BY <1>1 DEF Tidy, Flights, Calls, Callers, Stages, Octets, Parts
  <2>2. (gateway \in Seq(Shots))' /\ (stream \in Seq(Pieces))'
    BY <1>1 DEF Shots, Snapshots, Statuses, Pieces, Events, Kinds
  <2> QED BY <1>0, <2>1, <2>2, AskedKept DEF TidyInv
<1>2. CASE Receive
  <2>1. Head(stream) \in Pieces /\ stream' \in Seq(Pieces) /\ gateway' = gateway
    BY <1>0, <1>2 DEF Receive
  <2>2. Tidy(chat')
    BY <1>2, <2>1, HandleTidy DEF Receive, TidyInv
  <2> QED BY <1>0, <1>1, <2>1, <2>2
<1>3. CASE Flush \/ Flight \/ TailAnswered \/ Tick \/ Receipt \/ StopAnswered
  <2>1. UNCHANGED <<gateway, stream>>
    BY <1>3 DEF Flush, Flight, Step, TailAnswered, Tick, Receipt, StopAnswered
  <2>2. Tidy(chat')
    BY <1>3, FlushTidy, FlightTidy, TailAnsweredTidy, TickTidy, ReceiptTidy, StopAnsweredTidy
  <2> QED BY <1>0, <1>1, <2>1, <2>2
<1>4. CASE Server \/ Lose \/ Repeat
  <2>1. chat' = chat
    BY <1>4, ServerWhole DEF TidyInv
  <2> QED BY <1>0, <1>1, <1>4, <2>1, ServerTidy
<1>5. CASE CallFails \/ TailFails \/ ReceiptLost
  <2>1. UNCHANGED <<gateway, stream>>
    BY <1>5 DEF CallFails, TailFails, ReceiptLost
  <2>2. Tidy(chat')
    BY <1>5, CallFailsTidy, TailFailsTidy, ReceiptLostTidy
  <2> QED BY <1>0, <1>1, <2>1, <2>2
<1>6. CASE Stop \/ UNCHANGED vars
  <2>1. UNCHANGED <<chat, gateway, stream>>
    BY <1>6 DEF Stop, vars
  <2> QED BY <1>0, <1>1, <2>1
<1> QED BY <1>2, <1>3, <1>4, <1>5, <1>6 DEF Next, Page, Faults

\* What is shown and what waits for a frame are bytes of the answer, in a turn that
\* is there; a progress timer has an execution to ask for; and every call
\* under way is one of the four flights, at one of their stages, whatever becomes of
\* the others (stopProgressRecovery, requestCanonicalResync, ensureProgressRecovery).
THEOREM AnswerTypes == Spec => []TypeOK
<1>1. TidyInv => TypeOK
  <2> SUFFICES ASSUME TidyInv PROVE TypeOK
    OBVIOUS
  <2>1. Tidy(chat) /\ gateway \in Seq(Shots)
    BY DEF TidyInv
  <2>2. \A n \in 1 .. Now : gateway[n].status \in Statuses /\ gateway[n].bytes \in 0 .. MaxBytes
    <3> SUFFICES ASSUME NEW n \in 1 .. Now
                 PROVE  gateway[n].status \in Statuses /\ gateway[n].bytes \in 0 .. MaxBytes
      OBVIOUS
    <3>1. gateway[n] \in Shots
      BY <2>1 DEF Now
    <3> QED BY <3>1, AnswerAssumption DEF Shots, Snapshots
  <2>3. \A x \in chat.calls : x.by \in Callers /\ x.at \in Stages
    BY <2>1 DEF Tidy, Flights, Calls
  <2> QED BY <2>1, <2>2, <2>3 DEF TidyInv, TypeOK, Tidy, Octets
<1> QED BY <1>1, TidyInit, TidyStep, PTL DEF Spec
=============================================================================
