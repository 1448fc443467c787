----------------------------- MODULE ChatAnswer -----------------------------
(***************************************************************************)
(* chatSessions.ts: how one answer reaches the page.  The gateway streams  *)
(* it in pieces that name their bytes; the page appends them to a preview, *)
(* notices what it missed, asks for the whole text again, and replaces the *)
(* preview by the durable answer when that is committed.                   *)
(*                                                                         *)
(* One execution of one session, sent from this tab or from another one.   *)
(* The gateway and the network are external; a byte is named by its place. *)
(* Presentations, supplements, branches, revocation (ChatAttachment) and   *)
(* the connection's state are left out.                                    *)
(***************************************************************************)
EXTENDS Integers, Sequences, FiniteSets, SequencesExt

CONSTANTS
  MaxBytes,    \* bound: bytes of the answer
  Big,         \* the last bytes of pieces too long to be painted at once
  MaxEvents,   \* bound: events on their way
  MaxCalls,    \* bound: calls under way, for an event or a tick to come
  MaxFaults    \* bound: lost or repeated events, failed calls

ASSUME AnswerAssumption ==
  MaxBytes \in Nat \ {0} /\ Big \subseteq 1 .. MaxBytes /\ MaxEvents \in Nat \ {0}
  /\ MaxCalls \in Nat \ {0} /\ MaxFaults \in Nat

VARIABLES
  chat,     \* the session's state, its timer and its calls under way
  post,     \* "none", "asked": the POST of send() that started the execution
  stop,     \* "none", "asked", or the status of the receipt to come
  stream,   \* events on their way
  gateway,  \* the execution, now and before: bytes, status, durable answer
  faults

vars == <<chat, post, stop, stream, gateway, faults>>

Terminal == {"complete", "error", "cancelled"}
Now == Len(gateway)
Unasked == [since |-> 0, valid |-> FALSE, from |-> FALSE]

\* sent: by this tab, which shows a placeholder at once.
NewChat(sent) ==
  [exec |-> FALSE,       \* executionId is the execution's
   pending |-> sent, cancelled |-> FALSE, degraded |-> FALSE,
   ended |-> FALSE,      \* live.status is terminal
   slot |-> sent,        \* streamTurnId is set
   shown |-> sent,       \* there is a turn of that id
   text |-> <<>>,        \* its content
   settled |-> FALSE,    \* its status is "complete"
   consumed |-> 0,       \* streamByteEnds
   buffer |-> <<>>,      \* deltaBuffers: accepted, waiting for a frame
   answer |-> FALSE,     \* the durable answer is among the turns
   noted |-> FALSE,      \* its cancellation receipt is
   timer |-> FALSE,      \* progressRecoveryTimers
   calls |-> {}, tail |-> Unasked,
   spoiled |-> FALSE]    \* history: the preview is known not to be whole

-----------------------------------------------------------------------------
(* What the handlers are made of *)

Hide(c) == [c EXCEPT !.shown = FALSE, !.text = <<>>, !.settled = FALSE]
\* ensureStreamTurn
Ensure(c) ==
  [c EXCEPT !.shown = @ \/ c.slot, !.spoiled = @ \/ (c.slot /\ ~c.shown /\ c.consumed > 0)]
\* pending is over: stopProgressRecovery goes with it, which forgets its flight
\* (the call under way is answered, another one after it is left out).
Idle(c) ==
  [c EXCEPT !.pending = FALSE, !.timer = FALSE,
            !.calls = {[x EXCEPT !.by = IF @ = "progress" THEN x.at ELSE @] : x \in @}]

\* A call of a flight, asked when the gateway was at since.
Call(by, at) == [by |-> by, at |-> at, since |-> Now]
Under(c, by) == \E x \in c.calls : x.by = by
Quiet == Cardinality(chat.calls) < MaxCalls
Asked(c, by, at) == IF c.exec THEN [c EXCEPT !.calls = @ \cup {Call(by, at)}] ELSE c
\* refreshLiveExecution, refreshProjection on their own.
Refresh(c) == Asked(c, "live", "live")
RefreshBoth(c) == Asked(Refresh(c), "projection", "projection")

\* load() invalidates what its epoch finds under way.
Loading(c) == [c EXCEPT !.tail.valid = FALSE]

\* requestCanonicalResync: live, projection, history; one at a time.
Resync(c) ==
  LET d == [c EXCEPT !.buffer = <<>>, !.degraded = TRUE, !.spoiled = @ \/ c.buffer # <<>>]
  IN IF Under(c, "resync") THEN d
     ELSE IF c.exec THEN Asked(d, "resync", "live")
     ELSE Loading([d EXCEPT !.calls = @ \cup {Call("resync", "load")}])

\* syncTranscriptTail: who comes while one is under way gets that one's page.
TailSync(c) ==
  IF c.tail # Unasked THEN c
  ELSE [c EXCEPT !.tail = [since |-> Now, valid |-> TRUE, from |-> c.answer]]

\* mutant of Adopt: an execution adopted again has no progress recovery.
AdoptUnwatched(c) ==
  IF c.exec THEN Ensure([c EXCEPT !.pending = TRUE])
  ELSE Ensure([Hide(c) EXCEPT !.exec = TRUE, !.pending = TRUE, !.timer = TRUE, !.slot = TRUE,
                 !.cancelled = FALSE, !.buffer = <<>>, !.consumed = 0, !.ended = FALSE])
\* adoptExecution for an execution that runs.
Adopt(c) ==
  IF c.exec THEN Ensure([c EXCEPT !.pending = TRUE, !.timer = TRUE])
  ELSE Ensure([Hide(c) EXCEPT !.exec = TRUE, !.pending = TRUE, !.timer = TRUE, !.slot = TRUE,
                 !.cancelled = FALSE, !.buffer = <<>>, !.consumed = 0, !.ended = FALSE])

\* adoptExecution for one the transcript shows as complete.
AdoptComplete(c) ==
  IF c.exec THEN [Idle(c) EXCEPT !.ended = TRUE]
  ELSE [Hide(c) EXCEPT !.exec = TRUE, !.pending = FALSE, !.slot = TRUE, !.cancelled = FALSE,
          !.buffer = <<>>, !.consumed = 0, !.ended = TRUE]

\* mutant of Cancelled: streamTurnId is kept.
KeepsSlot(c) ==
  IF c.noted THEN c
  ELSE [Hide(Idle(c)) EXCEPT !.noted = TRUE, !.cancelled = TRUE, !.buffer = <<>>]
\* recordCancellationReceipt, status "cancelled".
Cancelled(c) ==
  IF c.noted THEN c
  ELSE [Hide(Idle(c)) EXCEPT !.noted = TRUE, !.cancelled = TRUE, !.slot = FALSE, !.buffer = <<>>]

-----------------------------------------------------------------------------
(* Events of the session's stream *)

Bytes(m, n) == [i \in 1 .. n - m |-> m + i]

\* mutant of Overlap: a piece is appended as it comes.
WholePiece(c, from, to) == Bytes(from, to)
Overlap(c, from, to) == Bytes(c.consumed, to)

\* queueDelta: a piece is painted at once, or waits for a frame if it is long or
\* others wait.
Queue(c, piece) ==
  IF Last(piece) \in Big \/ c.buffer # <<>> THEN [c EXCEPT !.buffer = @ \o piece]
  ELSE [c EXCEPT !.text = IF c.shown THEN @ \o piece ELSE @]

\* acceptCanonicalDelta and what follows it: a placeholder made again is not
\* whole if there were bytes before this piece.
Delta(c, e) ==
  IF e.from > c.consumed THEN Resync(c)
  ELSE IF e.to <= c.consumed THEN c
  ELSE Queue([Ensure(c) EXCEPT !.consumed = e.to], Overlap(c, e.from, e.to))

\* After a cancellation events of the turn are ignored.  A phase is shown as an
\* activity, for which a placeholder is made again.  With one execution and one
\* input the sequence of an input, the id of a terminal and the status of a turn
\* that failed are never in the way, so Handle does not look at them.
Fenced(c, e) == c.cancelled /\ e.kind \in {"delta", "phase", "error", "terminal"}

Handle(c, e) ==
  IF Fenced(c, e) THEN c
  ELSE CASE e.kind = "resync"    -> Resync(c)
         [] e.kind = "cancelled" -> Cancelled(c)
         [] e.kind = "user"      -> [Adopt(c) EXCEPT !.ended = FALSE]
         [] e.kind = "terminal"  ->
              IF c.exec THEN RefreshBoth(TailSync([Idle(c) EXCEPT !.settled = c.shown]))
              ELSE TailSync(c)
         [] e.kind = "delta"     -> IF c.exec THEN Delta(c, e) ELSE c
         [] e.kind = "phase"     -> [Ensure(c) EXCEPT !.ended = @ \/ c.exec]
         [] OTHER                ->  \* "error"
              IF c.exec THEN RefreshBoth([Idle(c) EXCEPT !.ended = TRUE]) ELSE c

Receive ==
  /\ stream # <<>> /\ Quiet
  /\ chat' = Handle(chat, Head(stream))
  /\ stream' = Tail(stream)
  /\ UNCHANGED <<post, stop, gateway, faults>>

\* flush, in the frame it waited for.
Flush ==
  /\ \E n \in 1 .. Len(chat.buffer) :
       chat' = [chat EXCEPT !.buffer = SubSeq(@, n + 1, Len(@)),
                  !.text = IF chat.shown THEN @ \o SubSeq(chat.buffer, 1, n) ELSE @]
  /\ UNCHANGED <<post, stop, stream, gateway, faults>>

-----------------------------------------------------------------------------
(* What the gateway says of the execution when it is asked *)

\* The result of applyRecoveredLive: whether the preview needs nothing more.
Recovers(c, s) ==
  c.exec /\ (~c.degraded \/ (s.status # "cancelled" /\ (c.cancelled \/ s.bytes > 0)))

\* The output replaces the preview, which goes if the durable answer is there;
\* what waits for a frame stays and will be appended.
Rewritten(c, s) ==
  LET d == Ensure([c EXCEPT !.consumed = s.bytes]) IN
  IF s.status \in Terminal /\ c.answer THEN Hide([c EXCEPT !.consumed = s.bytes])
  ELSE [d EXCEPT !.text = IF d.shown THEN Bytes(0, s.bytes) ELSE @, !.spoiled = d.buffer # <<>>]

\* Of another execution, or older than the cancellation.
Superseded(c, s) == ~c.exec \/ (c.cancelled /\ s.status # "cancelled")

\* applyRecoveredLive
Apply(c, s) ==
  LET d == [c EXCEPT !.ended = s.status \in Terminal, !.degraded = @ /\ ~Recovers(c, s)]
      e == CASE s.status = "cancelled" ->
                  [Hide(d) EXCEPT !.buffer = <<>>, !.consumed = 0, !.slot = FALSE, !.cancelled = TRUE]
             [] s.status # "cancelled" /\ s.bytes > 0 -> Rewritten(d, s)
             [] OTHER -> d
  IN IF Superseded(c, s) THEN c
     ELSE IF s.status \notin Terminal THEN e
     ELSE IF c.pending THEN TailSync(Idle(e)) ELSE Idle(e)

\* Where a flight goes on.
After(x, recovered) ==
  IF recovered THEN {"done"}
  ELSE CASE x.by = "resync" /\ x.at = "live"        -> {"projection"}
         [] x.by = "resync" /\ x.at = "projection"  -> {"load"}
         [] x.by = "progress" /\ x.at = "live"      -> {"projection", "done"}
         [] OTHER                                   -> {"done"}

Goto(c, x, then) ==
  LET d == IF then = "load" THEN Loading(c) ELSE c IN
  [d EXCEPT !.calls = (@ \ {x}) \cup (IF then = "done" THEN {} ELSE {Call(x.by, then)})]

\* A flight that waits for syncTranscriptTail, and where it goes on then.
Waits == [waitDone |-> "done", waitProjection |-> "projection", waitLoad |-> "load"]
WaitFor(then) == CHOOSE w \in DOMAIN Waits : Waits[w] = then
\* A resync waits for the transcript if its snapshot settled the turn.
Awaits(c, x, s) == x.by = "resync" /\ c.pending /\ s.status \in Terminal /\ ~Superseded(c, s)

SnapshotAnswered(x, s) ==
  LET b == [chat EXCEPT !.calls = @ \ {x}]
      c == IF x.at = "projection" /\ s.status = "cancelled" THEN Cancelled(b) ELSE b
  IN \E then \in After(x, Recovers(c, s)) :
       chat' = Goto(Apply(c, s), x, IF Awaits(c, x, s) THEN WaitFor(then) ELSE then)

\* The rest of load(): the page takes the place of all turns but a preview that
\* it does not contain.
Loaded(c, durable) ==
  LET text == IF c.shown THEN c.text \o c.buffer ELSE <<>>
      keep == text # <<>> /\ ~durable
      d == [(IF keep THEN [c EXCEPT !.text = text] ELSE Hide(c)) EXCEPT
              !.buffer = <<>>, !.answer = durable]
      e == IF durable \/ d.settled THEN AdoptComplete(d) ELSE d
  IN IF e.exec /\ e.pending THEN Refresh(Ensure(e)) ELSE e

\* A resync ends with load(), whatever came of it.
LoadOver(c, x) == Goto([c EXCEPT !.degraded = @ /\ ~c.answer], x, "done")

WaitOver(x) == chat.tail = Unasked /\ chat' = Goto(chat, x, Waits[x.at])

\* An answer is as old as the moment it was made, a projection may be one the
\* registry had.
Answered(x) ==
  \E n \in (IF x.at = "projection" THEN 2 ELSE x.since) .. Now :
    IF x.at = "load" THEN chat' = LoadOver(Loaded(chat, gateway[n].durable), x)
    ELSE SnapshotAnswered(x, gateway[n])

\* A call, or a flight of calls, goes on.
Step(by, at) ==
  /\ \E x \in chat.calls :
       x.by = by /\ x.at = at /\ IF at \in DOMAIN Waits THEN WaitOver(x) ELSE Answered(x)
  /\ UNCHANGED <<post, stop, stream, gateway, faults>>

\* syncTranscriptTail reads from behind the last message it knew of.
TailAnswered ==
  /\ chat.tail # Unasked
  /\ \E n \in chat.tail.since .. Now :
       LET c == [chat EXCEPT !.tail = Unasked] IN
       chat' = IF chat.tail.valid /\ gateway[n].durable /\ ~chat.tail.from
               THEN [(IF c.exec THEN Hide(c) ELSE c) EXCEPT !.answer = TRUE]
               ELSE c
  /\ UNCHANGED <<post, stop, stream, gateway, faults>>

\* ensureProgressRecovery, some time after the last event.
Tick ==
  /\ chat.timer /\ Quiet
  /\ chat' = IF ~chat.pending \/ chat.ended THEN [chat EXCEPT !.timer = FALSE]
             ELSE IF Under(chat, "progress") THEN chat
             ELSE Asked(chat, "progress", "live")
  /\ UNCHANGED <<post, stop, stream, gateway, faults>>

-----------------------------------------------------------------------------
(* send() and stop() *)

Receipt ==
  /\ post = "accepted" /\ post' = "none"
  /\ chat' = [Adopt(chat) EXCEPT !.ended = FALSE]
  /\ UNCHANGED <<stop, stream, gateway, faults>>

Stop ==
  /\ chat.exec /\ chat.pending /\ stop = "none" /\ stop' = "asked"
  /\ UNCHANGED <<chat, post, stream, gateway, faults>>

StopAnswered ==
  /\ stop \in {"cancelled", "already_terminal"} /\ stop' = "done"
  /\ chat' = RefreshBoth(IF stop = "cancelled" THEN Cancelled(chat) ELSE chat)
  /\ UNCHANGED <<post, stream, gateway, faults>>

-----------------------------------------------------------------------------
(* Gateway and network *)

Event(kind) == [kind |-> kind, from |-> 0, to |-> 0]
Piece(from, to) == [Event("delta") EXCEPT !.from = from, !.to = to]
Emit(e) == Len(stream) < MaxEvents /\ stream' = Append(stream, e)
Snapshot == Last(gateway)
Becomes(s) == gateway' = Append(gateway, s)
Ends(status) == Snapshot.status = "running" /\ Becomes([Snapshot EXCEPT !.status = status])

Start ==
  /\ Snapshot.status = "none" /\ Becomes([Snapshot EXCEPT !.status = "running"])
  /\ Emit(Event("user"))
  /\ post' = IF post = "asked" THEN "accepted" ELSE post
  /\ UNCHANGED <<chat, stop, faults>>

Produce ==
  /\ Snapshot.status = "running" /\ Snapshot.bytes < MaxBytes
  /\ Becomes([Snapshot EXCEPT !.bytes = @ + 1])
  /\ Emit(Piece(Snapshot.bytes, Snapshot.bytes + 1))
  /\ UNCHANGED <<chat, post, stop, faults>>

\* The lifecycle's end, which the stream may or may not tell, precedes the
\* commit of the answer.
Finish ==
  /\ Snapshot.bytes > 0 /\ Ends("complete")
  /\ Emit(Event("phase")) \/ UNCHANGED stream
  /\ UNCHANGED <<chat, post, stop, faults>>

Commit ==
  /\ Snapshot.status = "complete" /\ ~Snapshot.durable
  /\ Becomes([Snapshot EXCEPT !.durable = TRUE]) /\ Emit(Event("terminal"))
  /\ UNCHANGED <<chat, post, stop, faults>>

Break ==
  /\ Ends("error") /\ Emit(Event("error"))
  /\ UNCHANGED <<chat, post, stop, faults>>

\* stop() arrives: the execution is cancelled, unless it is over.
Cancel ==
  /\ stop = "asked"
  /\ \/ Ends("cancelled") /\ Emit(Event("cancelled")) /\ stop' = "cancelled"
     \/ /\ Snapshot.status \in Terminal /\ stop' = "already_terminal"
        /\ UNCHANGED <<gateway, stream>>
  /\ UNCHANGED <<chat, post, faults>>

Fault == faults < MaxFaults /\ faults' = faults + 1

\* What was on its way is lost, which the transport says (LiveTransport).
Lose ==
  /\ Fault /\ stream # <<>> /\ stream' = <<Event("resync")>>
  /\ UNCHANGED <<chat, post, stop, gateway>>

\* Bytes are sent again.
Repeat ==
  /\ Fault
  /\ \E n \in 1 .. Snapshot.bytes : \E m \in 0 .. n - 1 : Emit(Piece(m, n))
  /\ UNCHANGED <<chat, post, stop, gateway>>

CallFails ==
  /\ Fault
  /\ \E x \in chat.calls :
       /\ x.at \notin DOMAIN Waits
       /\ \E then \in After(x, FALSE) :
            chat' = IF x.at = "load" THEN LoadOver([chat EXCEPT !.degraded = TRUE], x)
                    ELSE Goto(chat, x, then)
  /\ UNCHANGED <<post, stop, stream, gateway>>

TailFails ==
  /\ Fault /\ chat.tail # Unasked /\ chat' = [chat EXCEPT !.tail = Unasked]
  /\ UNCHANGED <<post, stop, stream, gateway>>

\* The POST or its answer is lost: send() gives up.
ReceiptLost ==
  /\ Fault /\ post # "none" /\ post' = "none"
  /\ chat' = [Hide(Idle(chat)) EXCEPT !.slot = FALSE, !.ended = TRUE]
  /\ UNCHANGED <<stop, stream, gateway>>

-----------------------------------------------------------------------------
Init ==
  /\ post \in {"none", "asked"}
  /\ chat = NewChat(post = "asked")
  /\ stop = "none" /\ stream = <<>> /\ faults = 0
  /\ gateway = <<[bytes |-> 0, status |-> "none", durable |-> FALSE]>>

Callers == {"resync", "progress", "live", "projection"}
Stages == {"live", "projection", "load"} \cup DOMAIN Waits
Flight == \E by \in Callers, at \in Stages : Step(by, at)

Page ==
  \/ Receive \/ Flush \/ TailAnswered \/ Tick \/ Receipt \/ StopAnswered
  \/ Flight
Server == Start \/ Produce \/ Finish \/ Commit \/ Break \/ Cancel
Faults == Lose \/ Repeat \/ CallFails \/ TailFails \/ ReceiptLost
Next == Page \/ Stop \/ Server \/ Faults

Spec == Init /\ [][Next]_vars

\* Events are read, the POST is answered, some call is, the interval fires.
FairSpec ==
  Spec /\ WF_vars(Receive) /\ WF_vars(Receipt) /\ WF_vars(Flight) /\ WF_vars(Tick)

-----------------------------------------------------------------------------
Statuses == Terminal \cup {"none", "running"}

\* Types, and what goes with them: only a turn that is there has a text, and the
\* progress of no execution is asked for.
TypeOK ==
  /\ chat.consumed \in 0 .. MaxBytes
  /\ \A n \in 1 .. Now : gateway[n].status \in Statuses /\ gateway[n].bytes \in 0 .. MaxBytes
  /\ chat.text \in Seq(1 .. MaxBytes) /\ chat.buffer \in Seq(1 .. MaxBytes)
  /\ (chat.text # <<>> => chat.shown) /\ (chat.timer => chat.exec)
  /\ \A x \in chat.calls : x.by \in Callers /\ x.at \in Stages
  /\ post \in {"none", "asked", "accepted"}
  /\ stop \in {"none", "asked", "cancelled", "already_terminal", "done"}

\* The preview of an answer is a prefix of it, each byte once and in its place,
\* whatever was lost, sent again, painted late or overtaken by a snapshot: what
\* is on the page and waits for a frame is what was accepted - except where the
\* code is known to lose count (spoiled): a resync drops accepted bytes, or a
\* placeholder is made again, and the count goes on; a snapshot is written
\* beside bytes that wait (acceptCanonicalDelta, flush, requestCanonicalResync,
\* applyRecoveredLive, load).
ShownIsPrefix ==
  chat.exec /\ chat.shown /\ ~chat.spoiled =>
    chat.text \o chat.buffer = Bytes(0, chat.consumed)

\* Nothing brings the preview of a cancelled turn back: no late event, answer,
\* load, frame or receipt of the POST that started it (recordCancellationReceipt,
\* applyRecoveredLive, ensureStreamTurn).
CancelledIsSilent == chat.cancelled => ~chat.shown

\* The page does not wait for ever for an execution that is over, whichever of
\* its events, receipts and snapshots was lost or came late, in whatever order
\* (adoptExecution, ensureProgressRecovery, applyRecoveredLive, send).
Over == Snapshot.status \in {"error", "cancelled"} \/ Snapshot.durable
Settles == <>[]Over => <>[](~chat.pending)
=============================================================================
