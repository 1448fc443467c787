---------------------------- MODULE WechatIlink ----------------------------
(***************************************************************************)
(* platform/wechat_ilink.rs and platform/dedup.rs under the receive loop   *)
(* of message_sidecar.rs: messages are polled with a cursor that moves     *)
(* before they are handed on.                                              *)
(*                                                                         *)
(* The service numbers messages; the cursor is the number of the last one  *)
(* it handed out.  With a QR token the cursor is also kept in a file, with *)
(* a bot's secret it is not.  Lengths of delays are left out, and with     *)
(* them the counters that only choose between delays; so are messages      *)
(* without an id, which the dedup does not look at.  A message with no     *)
(* text and of no known type is treated like one of Self: ignored, but     *)
(* only after the dedup has noted its id.                                  *)
(***************************************************************************)
EXTENDS Integers, Sequences, FiniteSets, SequencesExt

CONSTANTS
  Users,        \* users who write to the account
  Sender,       \* sender of each message; the account's own echo is Self
  Self,
  WindowSize,   \* capacity of the DedupStore (10 000)
  MaxFaults     \* bound: operations and faults

MaxMsgs == Len(Sender)
Msgs == 1 .. MaxMsgs

ASSUME WechatAssumption ==
  /\ Self \notin Users /\ Sender \in Seq(Users \cup {Self})
  /\ WindowSize \in Nat \ {0} /\ MaxFaults \in Nat

VARIABLES
  sent,         \* messages the service has
  qr,           \* qr_token_mode (with an account_id)
  expired,      \* the service refuses the token: the configured one in QR mode
  cursor,       \* sync_buf
  saved,        \* the cursor in the file
  linked,       \* connected: the adapter has a token then, and none otherwise
  contexts,     \* reply_contexts: the message the token came with; 0: none
  pendingMessages,
  seen,         \* seen_ids
  forgotten,    \* messages that left the window of this adapter (history)
  batch,        \* updates still to be looked at by receive()
  hand,         \* the message receive() returned
  step,         \* where the receive loop is
  live,         \* runtime.connected
  connecting,   \* connect_adapter between adapter.connect and start_receive
  leaving,      \* how far disconnect_adapter is: no, stopped or gone
  handed,       \* handed on since the cursor was last lost (history)
  faults

service == <<sent, qr, expired>>
ilink == <<cursor, saved, linked, contexts, pendingMessages, seen, forgotten>>
receiver == <<batch, hand, step>>
runtime == <<live, connecting, leaving>>
ilinkVars == <<service, ilink, receiver, runtime, handed, faults>>

IlinkInit ==
  /\ sent = 0 /\ qr \in BOOLEAN /\ expired = FALSE
  /\ cursor = 0 /\ saved = 0
  /\ linked = FALSE
  /\ contexts = [u \in Users |-> 0]
  /\ pendingMessages = <<>> /\ seen = <<>> /\ forgotten = {}
  /\ batch = <<>> /\ hand = 0 /\ step = "off"
  /\ live = FALSE /\ connecting = FALSE /\ leaving = "no"
  /\ handed = {} /\ faults = 0

Fault == faults < MaxFaults /\ faults' = faults + 1

\* The task is aborted wherever it waits: what it held is gone.
LoopStopped == batch' = <<>> /\ hand' = 0 /\ step' = "off"

-----------------------------------------------------------------------------
(* The operations of the runtime. *)

\* connect(): in QR mode it is the configured token, whatever the service
\* thinks of it; with a secret the service gives a new one.
AdapterConnect(ok) ==
  /\ qr => ok
  /\ linked' = (ok \/ linked)
  /\ expired' = IF ok /\ ~qr THEN FALSE ELSE expired
  /\ UNCHANGED <<sent, qr, cursor, saved, contexts, pendingMessages, seen, forgotten>>

Connect(ok) ==
  /\ Fault /\ ~connecting /\ AdapterConnect(ok)
  /\ live' = ok /\ connecting' = ok
  /\ UNCHANGED <<receiver, leaving, handed>>

\* start_receive: a loop that runs is stopped first.
StartReceiving ==
  /\ connecting /\ connecting' = FALSE
  /\ batch' = <<>> /\ hand' = 0 /\ step' = "head"
  /\ UNCHANGED <<service, ilink, live, leaving, handed, faults>>

\* disconnect_adapter: stop_receive, disconnect() of the adapter, and the flag
\* cleared.  A connect that overlaps it may start a loop in between.
Disconnect ==
  /\ Fault /\ leaving = "no" /\ leaving' = "stopped"
  /\ LoopStopped
  /\ UNCHANGED <<service, ilink, live, connecting, handed>>

AdapterDisconnect ==
  /\ leaving = "stopped" /\ leaving' = "gone"
  /\ linked' = FALSE
  /\ contexts' = [u \in Users |-> 0] /\ pendingMessages' = <<>>
  /\ UNCHANGED <<service, cursor, saved, seen, forgotten, receiver, live, connecting, handed,
                 faults>>

Disconnected ==
  /\ leaving = "gone" /\ leaving' = "no" /\ live' = FALSE
  /\ UNCHANGED <<service, ilink, receiver, connecting, handed, faults>>

\* The process dies, or configure replaces the adapter: the new one has the
\* cursor of the file, and perhaps another token.
Restart ==
  /\ Fault
  /\ LoopStopped
  /\ cursor' = IF qr THEN saved ELSE 0
  /\ linked' = FALSE /\ expired' \in {expired, FALSE}
  /\ contexts' = [u \in Users |-> 0]
  /\ pendingMessages' = <<>> /\ seen' = <<>> /\ forgotten' = {}
  /\ live' = FALSE /\ connecting' = FALSE /\ leaving' = "no"
  /\ handed' = IF qr THEN handed ELSE {}
  /\ UNCHANGED <<sent, qr, saved>>

-----------------------------------------------------------------------------
(* The service. *)

Write ==
  /\ sent < MaxMsgs /\ sent' = sent + 1
  /\ UNCHANGED <<qr, expired, ilink, receiver, runtime, handed, faults>>

TokenExpires ==
  /\ Fault /\ ~expired /\ expired' = TRUE
  /\ UNCHANGED <<sent, qr, ilink, receiver, runtime, handed>>

-----------------------------------------------------------------------------
(* The receive loop and receive(). *)

LoopAt(p) == step = p /\ UNCHANGED <<sent, qr, runtime>>

LoopHead ==
  /\ LoopAt("head")
  /\ step' = IF live THEN "receive" ELSE "off"
  /\ UNCHANGED <<expired, ilink, batch, hand, handed, faults>>

\* mutant of Receive: the service is asked although messages are pending.
ReceivePollsFirst ==
  /\ LoopAt("receive")
  /\ IF linked THEN step' = "poll" /\ UNCHANGED <<expired, ilink>>
     ELSE step' = "head" /\ \E ok \in BOOLEAN : AdapterConnect(ok)
  /\ UNCHANGED <<batch, hand, handed, faults>>

\* What is pending is returned first; a disconnected adapter tries to connect
\* when its backoff is over and returns nothing.
Receive ==
  /\ LoopAt("receive")
  /\ IF pendingMessages # <<>>
     THEN /\ hand' = pendingMessages[1] /\ pendingMessages' = Tail(pendingMessages)
          /\ step' = "emit"
          /\ UNCHANGED <<expired, cursor, saved, linked, contexts, seen, forgotten>>
     ELSE /\ UNCHANGED hand
          /\ IF linked THEN step' = "poll" /\ UNCHANGED <<expired, ilink>>
             ELSE /\ step' = "head"
                  /\ \/ UNCHANGED <<expired, ilink>>
                     \/ \E ok \in BOOLEAN : AdapterConnect(ok)
  /\ UNCHANGED <<batch, handed, faults>>

\* mutant of SaveCursor: the file is never written.
SaveNothing == saved' = saved

SaveCursor == saved' = IF qr THEN cursor' ELSE saved

\* The answer: perhaps a message this adapter was given before, then the next
\* ones, also when the adapter was disconnected while the poll was out.  The
\* cursor moves and is saved before any of them is looked at.
PollAnswered(n, again) ==
  /\ LoopAt("poll") /\ ~expired /\ cursor + n <= sent
  /\ IF again = <<>> THEN UNCHANGED faults ELSE Fault
  /\ cursor' = cursor + n /\ SaveCursor
  /\ batch' = again \o [k \in 1 .. n |-> cursor + k]
  /\ step' = "parse"
  /\ UNCHANGED <<expired, linked, contexts, pendingMessages, seen, forgotten, hand, handed>>

\* The cursor in memory has moved, the file cannot be written: an error, and
\* the messages of the answer are not returned.
SaveFails(n) ==
  /\ LoopAt("poll") /\ Fault /\ qr /\ ~expired /\ n > 0 /\ cursor + n <= sent
  /\ cursor' = cursor + n
  /\ step' = "head"
  /\ UNCHANGED <<expired, saved, linked, contexts, pendingMessages, seen, forgotten,
                 batch, hand, handed>>

\* A timeout, a rate limit, a network error; with a bot's secret also a token
\* that has expired: nothing, and the loop goes on.
PollFails ==
  /\ LoopAt("poll")
  /\ step' = "head"
  /\ UNCHANGED <<expired, ilink, batch, hand, handed, faults>>

\* The session has expired: the loop ends and reports it.
PollRefused ==
  /\ step = "poll" /\ qr /\ expired
  /\ linked' = FALSE
  /\ step' = "off" /\ live' = FALSE
  /\ UNCHANGED <<service, cursor, saved, contexts, pendingMessages, seen, forgotten, batch, hand,
                 connecting, leaving, handed, faults>>

\* is_duplicate of a message not in the window: it enters, the oldest leaves.
Window(m) ==
  IF Len(seen) >= WindowSize THEN Append(Tail(seen), m) ELSE Append(seen, m)

\* One update: a duplicate is skipped, the account's own message ignored,
\* otherwise its context token is kept and it is queued.
Parse ==
  /\ LoopAt("parse") /\ batch # <<>>
  /\ batch' = Tail(batch)
  /\ LET m == batch[1] IN
     IF m \in ToSet(seen) THEN UNCHANGED <<seen, forgotten, contexts, pendingMessages>>
     ELSE /\ seen' = Window(m)
          /\ forgotten' = forgotten \cup (ToSet(seen) \ ToSet(seen'))
          /\ IF Sender[m] = Self THEN UNCHANGED <<contexts, pendingMessages>>
             ELSE /\ contexts' = [contexts EXCEPT ![Sender[m]] = m]
                  /\ pendingMessages' = Append(pendingMessages, m)
  /\ UNCHANGED <<expired, cursor, saved, linked, hand, step, handed, faults>>

\* An entry of the window reaches its time to live.
SeenExpires ==
  /\ seen # <<>> /\ Fault
  /\ seen' = Tail(seen) /\ forgotten' = forgotten \cup {seen[1]}
  /\ UNCHANGED <<service, cursor, saved, linked, contexts, pendingMessages,
                 receiver, runtime, handed>>

\* mutant of Parsed: the rest of what is queued is not kept.
ParsedAlone ==
  /\ LoopAt("parse") /\ batch = <<>>
  /\ IF pendingMessages = <<>> THEN step' = "head" /\ UNCHANGED <<hand, pendingMessages>>
     ELSE hand' = pendingMessages[1] /\ pendingMessages' = <<>> /\ step' = "emit"
  /\ UNCHANGED <<expired, cursor, saved, linked, contexts, seen, forgotten, batch, handed, faults>>

\* The end of receive(): the first of what is queued now.
Parsed ==
  /\ LoopAt("parse") /\ batch = <<>>
  /\ IF pendingMessages = <<>> THEN step' = "head" /\ UNCHANGED <<hand, pendingMessages>>
     ELSE hand' = pendingMessages[1] /\ pendingMessages' = Tail(pendingMessages) /\ step' = "emit"
  /\ UNCHANGED <<expired, cursor, saved, linked, contexts, seen, forgotten, batch, handed, faults>>

\* emit_inbound_event.
Emit ==
  /\ LoopAt("emit")
  /\ handed' = handed \cup {hand} /\ hand' = 0 /\ step' = "head"
  /\ UNCHANGED <<expired, ilink, batch, faults>>

Repeats == {<<>>} \cup {<<m>> : m \in ToSet(seen) \cup forgotten}

IlinkNext ==
  \/ \E ok \in BOOLEAN : Connect(ok)
  \/ StartReceiving \/ Disconnect \/ AdapterDisconnect \/ Disconnected \/ Restart
  \/ Write \/ TokenExpires \/ SeenExpires
  \/ LoopHead \/ Receive \/ Parse \/ Parsed \/ Emit
  \/ \E n \in 0 .. MaxMsgs : \/ \E again \in Repeats : PollAnswered(n, again)
                             \/ SaveFails(n)
  \/ PollFails \/ PollRefused

IlinkSpec == IlinkInit /\ [][IlinkNext]_ilinkVars

\* The loop runs and the operations of the runtime finish; a poll that is
\* repeated is answered in the end.
FairIlink ==
  /\ IlinkSpec
  /\ WF_ilinkVars(LoopHead) /\ WF_ilinkVars(Receive) /\ WF_ilinkVars(Parse)
  /\ WF_ilinkVars(Parsed) /\ WF_ilinkVars(Emit)
  /\ WF_ilinkVars(StartReceiving)
  /\ WF_ilinkVars(AdapterDisconnect) /\ WF_ilinkVars(Disconnected)
  /\ SF_ilinkVars(\E n \in Msgs : PollAnswered(n, <<>>))

-----------------------------------------------------------------------------
\* Types, the bounds of the window and of the file's cursor, and that only a
\* loop within receive() has updates to look at or a message to hand on.
IlinkTypeOK ==
  /\ sent \in 0 .. MaxMsgs /\ cursor \in 0 .. sent /\ qr \in BOOLEAN
  /\ saved \in 0 .. cursor /\ (~qr => saved = 0)
  /\ linked \in BOOLEAN /\ expired \in BOOLEAN
  /\ contexts \in [Users -> 0 .. MaxMsgs]
  /\ pendingMessages \in Seq(Msgs) /\ batch \in Seq(Msgs) /\ handed \subseteq Msgs
  /\ seen \in Seq(Msgs) /\ Len(seen) <= WindowSize /\ forgotten \subseteq Msgs
  /\ step \in {"off", "head", "receive", "poll", "parse", "emit"}
  /\ hand \in 0 .. MaxMsgs /\ (hand # 0 <=> step = "emit") /\ (batch # <<>> => step = "parse")
  /\ live \in BOOLEAN /\ connecting \in BOOLEAN /\ leaving \in {"no", "stopped", "gone"}
  /\ faults \in 0 .. MaxFaults

\* A message that comes again is not held if it will be skipped: one that was
\* seen and then lost stays lost.
InFlight == ToSet(pendingMessages) \cup (ToSet(batch) \ ToSet(seen)) \cup {hand}

\* Messages of users the cursor has passed and nothing will hand on.
Missing == {m \in 1 .. cursor : Sender[m] # Self /\ m \notin handed \cup InFlight}

\* No message behind the cursor is ever dropped on the way through window,
\* queue and loop; only a stop of the loop or a fault loses any, and then
\* only what was fetched and not handed on.
NothingDropped ==
  [][\/ Missing' \subseteq Missing
     \/ /\ faults' # faults \/ (connecting /\ ~connecting') \/ leaving' # leaving
        /\ Missing' \ Missing \subseteq InFlight \cup (cursor + 1) .. cursor']_ilinkVars

\* A message is handed on once as long as its number is in the window, even
\* across a restart that resumes from the cursor in the file.
HandedOnce ==
  [][step = "emit" /\ step' = "head" => hand \notin handed \/ hand \in forgotten]_ilinkVars

\* With a loop that stays, linked by a token the service accepts, every message
\* the service has is handed on or was lost to a fault.
EventuallyHanded ==
  <>[](step # "off" /\ linked /\ ~expired) =>
    \A m \in Msgs : (sent >= m /\ Sender[m] # Self) ~> (m \in handed \cup Missing)

\* What the comment on pending_messages asks for: while nobody stops the
\* loop, a message the cursor has passed is handed on or still held.
CoveredIsKept == Missing = {}

\* The runtime is asked to connect once and never stopped: only the file
\* system may fail.
UndisturbedNext ==
  \/ (faults = 0 /\ Connect(TRUE)) \/ StartReceiving \/ Write
  \/ LoopHead \/ Receive \/ Parse \/ Parsed \/ Emit
  \/ \E n \in 0 .. MaxMsgs : PollAnswered(n, <<>>) \/ SaveFails(n)
UndisturbedSpec == IlinkInit /\ [][UndisturbedNext]_ilinkVars
=============================================================================
