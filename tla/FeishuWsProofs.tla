--------------------------- MODULE FeishuWsProofs ---------------------------
(***************************************************************************)
(* What the server was told is taken is never lost to a broken link: for   *)
(* any events and parts, any number of readers, any capacities, limit and  *)
(* faults.                                                                 *)
(***************************************************************************)
EXTENDS FeishuWs, TLAPS

Frames == [event : Nat, code : Nat]
Pieces == [event : Nat, part : Nat]
Places ==
  {"none", "read", "answer", "hand", "returned", "backoff", "register", "dial", "ended"}
PerReader(S) == [Readers -> S]

Typed ==
  /\ readers \in 0 .. MaxReaders /\ ws_events \in Readers \cup {0}
  /\ pc \in PerReader(Places)
  /\ current \in PerReader(Frames)
  /\ answers \in PerReader(Seq(Frames))
  /\ channel \in PerReader(Seq(Nat))
  /\ wire \in PerReader(Seq(Pieces))
  /\ position \in PerReader([Events -> Nat])

\* A reader that reads, reconnects or has ended holds no event.
Resting ==
  \A r \in Readers : pc[r] \notin {"answer", "hand"} => current[r] = Nothing

\* The readers that were not started yet.
Unstarted == \A r \in Readers : r > readers => pc[r] = "none"

\* An event is safe with the adapter, or on its way there.  What the reader
\* holds counts only if it parsed: a part that came twice makes the reader drop
\* an event that may be acknowledged already, because an earlier copy of it is
\* in the channel.
Safe(e) ==
  \/ e \in received \cup dropped
  \/ /\ ws_events # 0
     /\ \/ e \in ToSet(channel[ws_events])
        \/ current[ws_events].code = 200 /\ current[ws_events].event = e

\* An answer is safe before it is written: it may reach the server long after
\* the event has moved on, or its reader has.
Kept ==
  /\ \A e \in acked : Safe(e)
  /\ \A r \in Readers : \A f \in ToSet(answers[r]) : f.code = 200 => Safe(f.event)

WsInv == Typed /\ Resting /\ Unstarted /\ Kept

\* What is safe stays safe.
Lasting == \A e : Safe(e) => Safe(e)'

-----------------------------------------------------------------------------
LEMMA ReaderNumbers == Readers \subseteq Nat \ {0} /\ 0 \notin Readers /\ MaxReaders \in Nat
  BY WsAssumption DEF Readers

LEMMA EventNumbers == Events \subseteq Nat /\ \A e \in Events : Parts[e] \in Nat
  BY WsAssumption DEF Events

LEMMA NothingFrame == Nothing \in Frames /\ Nothing.code # 200
  BY DEF Nothing, Frames

LEMMA AppendSet ==
  ASSUME NEW S, NEW s \in Seq(S), NEW x \in S
  PROVE  Append(s, x) \in Seq(S) /\ ToSet(Append(s, x)) = ToSet(s) \cup {x}
<1>1. Append(s, x) \in Seq(S) /\ Len(Append(s, x)) = Len(s) + 1 /\ Len(s) \in Nat
  OBVIOUS
<1>2. \A i \in 1 .. Len(s) : Append(s, x)[i] = s[i]
  OBVIOUS
<1>3. Append(s, x)[Len(s) + 1] = x
  OBVIOUS
<1>4. DOMAIN Append(s, x) = 1 .. Len(s) + 1 /\ DOMAIN s = 1 .. Len(s)
  BY <1>1
<1>5. ToSet(Append(s, x)) = {Append(s, x)[i] : i \in 1 .. Len(s) + 1}
  BY <1>4 DEF ToSet
<1>6. ToSet(s) = {s[i] : i \in 1 .. Len(s)}
  BY <1>4 DEF ToSet
<1> QED BY <1>1, <1>2, <1>3, <1>5, <1>6

LEMMA TailSet ==
  ASSUME NEW S, NEW s \in Seq(S), s # <<>>
  PROVE  s[1] \in S /\ Tail(s) \in Seq(S) /\ ToSet(s) = ToSet(Tail(s)) \cup {s[1]}
<1>1. Len(s) \in Nat \ {0} /\ DOMAIN s = 1 .. Len(s) /\ s[1] \in S
  OBVIOUS
<1>2. Tail(s) \in Seq(S) /\ Len(Tail(s)) = Len(s) - 1
  OBVIOUS
<1>3. DOMAIN Tail(s) = 1 .. Len(s) - 1
  BY <1>1, <1>2
<1>4. \A i \in 1 .. Len(s) - 1 : Tail(s)[i] = s[i + 1]
  OBVIOUS
<1>5. ToSet(s) = {s[i] : i \in 1 .. Len(s)}
  BY <1>1 DEF ToSet
<1>6. ToSet(Tail(s)) = {Tail(s)[i] : i \in 1 .. Len(s) - 1}
  BY <1>3 DEF ToSet
<1>7. \A i \in 1 .. Len(s) : i = 1 \/ (i - 1 \in 1 .. Len(s) - 1 /\ s[i] = Tail(s)[i - 1])
  BY <1>1, <1>4
<1>8. \A i \in 1 .. Len(s) - 1 : i + 1 \in 1 .. Len(s) /\ Tail(s)[i] = s[i + 1]
  BY <1>1, <1>4
<1>9. ToSet(s) \subseteq ToSet(Tail(s)) \cup {s[1]}
  <2>1. ASSUME NEW i \in 1 .. Len(s) PROVE s[i] \in ToSet(Tail(s)) \cup {s[1]}
    BY <1>6, <1>7
  <2> QED BY <1>5, <2>1
<1>10. ToSet(Tail(s)) \cup {s[1]} \subseteq ToSet(s)
  BY <1>1, <1>5, <1>6, <1>8
<1> QED BY <1>1, <1>2, <1>9, <1>10

LEMMA EmptySet == ToSet(<<>>) = {}
  BY DEF ToSet

\* A step that acknowledges nothing, and adds to the answers only what is safe.
LEMMA StaysKept ==
  ASSUME Kept, Lasting, UNCHANGED acked,
         \A r \in Readers : \A f \in ToSet(answers'[r]) :
           f \in ToSet(answers[r]) \/ (f.code = 200 => Safe(f.event)')
  PROVE  Kept'
  BY DEF Kept, Lasting

-----------------------------------------------------------------------------
(* The adapter *)

\* What goes with the receiver is dropped, and nothing else is lost.
LEMMA DropLasts ==
  ASSUME WsInv, Drop, UNCHANGED received
  PROVE  Lasting
  BY DEF Drop, Lasting, Safe

LEMMA ConnectInv == ASSUME WsInv, Connect PROVE WsInv'
<1>1. UNCHANGED <<reading, answers, channel, server, acked>>
  BY DEF Connect
<1>2. CASE Fault /\ UNCHANGED <<adapter, readers, pc, connection>>
  BY <1>1, <1>2 DEF WsInv, Typed, Resting, Unstarted, Kept, Safe, adapter, reading, server
<1>3. CASE ws_events' = 0 /\ Drop /\ UNCHANGED <<received, readers, pc, connection>>
  <2>1. Typed' /\ Resting' /\ Unstarted'
    BY <1>1, <1>3 DEF WsInv, Typed, Resting, Unstarted, reading, server
  <2>2. Kept'
    BY <1>1, <1>3, DropLasts, StaysKept DEF WsInv
  <2> QED BY <2>1, <2>2 DEF WsInv
<1>4. CASE /\ readers < MaxReaders /\ readers' = readers + 1
           /\ ws_events' = readers' /\ Drop /\ UNCHANGED received
           /\ pc' = [pc EXCEPT ![readers'] = "read"]
  <2>1. readers' \in Readers /\ readers' \in 0 .. MaxReaders /\ pc[readers'] = "none"
    BY <1>4, ReaderNumbers DEF WsInv, Typed, Unstarted, Readers
  <2>2. Typed'
    <3>1. pc' \in PerReader(Places)
      BY <1>4, <2>1 DEF WsInv, Typed, PerReader, Places
    <3>2. ws_events' \in Readers \cup {0} /\ readers' \in 0 .. MaxReaders
      BY <1>4, <2>1
    <3> QED BY <1>1, <3>1, <3>2 DEF WsInv, Typed, reading, server
  <2>3. Resting' /\ Unstarted'
    BY <1>1, <1>4, <2>1, ReaderNumbers DEF WsInv, Typed, Resting, Unstarted, reading, PerReader
  <2>4. Kept'
    BY <1>1, <1>4, DropLasts, StaysKept DEF WsInv
  <2> QED BY <2>2, <2>3, <2>4 DEF WsInv
<1> QED BY <1>2, <1>3, <1>4 DEF Connect

LEMMA DisconnectInv == ASSUME WsInv, Disconnect PROVE WsInv'
<1>1. /\ ws_events' = 0 /\ Drop
      /\ UNCHANGED <<received, readers, pc, connection, reading, answers, channel, server, acked>>
  BY DEF Disconnect
<1>2. Typed' /\ Resting' /\ Unstarted'
  BY <1>1 DEF WsInv, Typed, Resting, Unstarted, reading, server
<1>3. Kept'
  BY <1>1, DropLasts, StaysKept DEF WsInv
<1> QED BY <1>2, <1>3 DEF WsInv

LEMMA ReceiveInv == ASSUME WsInv, Receive PROVE WsInv'
<1>1. /\ ws_events \in Readers
      /\ UNCHANGED <<dropped, readers, pc, connection, reading, answers, server, acked>>
  BY DEF Receive, WsInv, Typed
<1>2. CASE /\ channel[ws_events] # <<>> /\ UNCHANGED ws_events
           /\ received' = received \cup {channel[ws_events][1]}
           /\ channel' = [channel EXCEPT ![ws_events] = Tail(@)]
  <2>1. /\ Tail(channel[ws_events]) \in Seq(Nat)
        /\ ToSet(channel[ws_events]) = ToSet(Tail(channel[ws_events])) \cup {channel[ws_events][1]}
    BY <1>1, <1>2, TailSet DEF WsInv, Typed, PerReader
  <2>2. Typed' /\ Resting' /\ Unstarted'
    BY <1>1, <1>2, <2>1 DEF WsInv, Typed, Resting, Unstarted, reading, server, PerReader
  <2>3. channel'[ws_events] = Tail(channel[ws_events])
    BY <1>1, <1>2 DEF WsInv, Typed, PerReader
  <2>4. Lasting
    BY <1>1, <1>2, <2>1, <2>3 DEF Lasting, Safe, reading
  <2>5. Kept'
    BY <1>1, <2>4, StaysKept DEF WsInv
  <2> QED BY <2>2, <2>5 DEF WsInv
<1>3. CASE /\ channel[ws_events] = <<>> /\ pc[ws_events] = "ended"
           /\ ws_events' = 0 /\ UNCHANGED <<received, channel>>
  <2>1. current[ws_events] = Nothing /\ ToSet(channel[ws_events]) = {}
    BY <1>1, <1>3, EmptySet DEF WsInv, Resting
  <2>2. Lasting
    BY <1>1, <1>3, <2>1, NothingFrame DEF Lasting, Safe
  <2>3. Typed' /\ Resting' /\ Unstarted'
    BY <1>1, <1>3 DEF WsInv, Typed, Resting, Unstarted, reading, server
  <2>4. Kept'
    BY <1>1, <2>2, StaysKept DEF WsInv
  <2> QED BY <2>3, <2>4 DEF WsInv
<1> QED BY <1>1, <1>2, <1>3 DEF Receive

-----------------------------------------------------------------------------
(* The reader *)

\* Where it may go without anything to hold or to lose.
LEMMA GoneOn ==
  ASSUME WsInv, NEW r \in Readers, r <= readers, NEW p \in Places, Goto(r, p),
         UNCHANGED readers,
         current' = current \/ current' = [current EXCEPT ![r] = Nothing],
         p \notin {"answer", "hand"} => current'[r] = Nothing
  PROVE  /\ pc' \in PerReader(Places) /\ current' \in PerReader(Frames)
         /\ Resting' /\ Unstarted'
<1>1. pc \in PerReader(Places) /\ current \in PerReader(Frames)
  BY DEF WsInv, Typed
<1>2. pc' \in PerReader(Places) /\ current' \in PerReader(Frames)
  BY <1>1, NothingFrame DEF Goto, PerReader
<1>3. Resting'
  BY <1>1 DEF WsInv, Resting, Goto, PerReader
<1>4. Unstarted'
  BY <1>1, ReaderNumbers DEF WsInv, Typed, Unstarted, Goto, PerReader
<1> QED BY <1>2, <1>3, <1>4

\* The reading ends while nothing is held, or after the receiver has gone.
LEMMA ReturnInv ==
  ASSUME WsInv, NEW r \in Readers, r <= readers, Return(r),
         UNCHANGED <<adapter, readers, answers, channel, acked>>,
         Closed(r) \/ current[r] = Nothing
  PROVE  WsInv'
<1>1. /\ Goto(r, "returned") /\ wire' = [wire EXCEPT ![r] = <<>>]
      /\ position' = [position EXCEPT ![r] = NonePosted]
      /\ current' = [current EXCEPT ![r] = Nothing]
  BY DEF Return
<1>2. current'[r] = Nothing
  BY <1>1 DEF WsInv, Typed, PerReader
<1>3. pc' \in PerReader(Places) /\ current' \in PerReader(Frames) /\ Resting' /\ Unstarted'
  BY <1>1, <1>2, GoneOn DEF Places
<1>4. wire' \in PerReader(Seq(Pieces))
  BY <1>1 DEF WsInv, Typed, PerReader
<1>5. position' \in PerReader([Events -> Nat])
  BY <1>1 DEF WsInv, Typed, PerReader, NonePosted
<1>6. Typed'
  BY <1>3, <1>4, <1>5 DEF WsInv, Typed, adapter
<1>7. ws_events # 0 => ws_events \in Readers
  BY DEF WsInv, Typed
<1>8. Lasting
  BY <1>1, <1>7, NothingFrame DEF Lasting, Safe, adapter, Closed, WsInv, Typed, PerReader
<1> QED BY <1>3, <1>6, <1>8, StaysKept DEF WsInv

\* The reading ends with the link, or for want of a receiver.
LEMMA EndsInv ==
  ASSUME WsInv, NEW r \in Readers,
         ReadClosed(r) \/ AnswerClosed(r) \/ HandClosed(r) \/ ReadEnds(r)
  PROVE  WsInv'
<1>1. CASE ReadClosed(r) \/ AnswerClosed(r) \/ HandClosed(r)
  BY <1>1, ReturnInv DEF ReadClosed, AnswerClosed, HandClosed, ClosedAt
<1>2. CASE ReadEnds(r)
  <2>1. current[r] = Nothing /\ r <= readers
    BY <1>2 DEF ReadEnds, At, Open, WsInv, Resting
  <2> QED BY <1>2, <2>1, ReturnInv DEF ReadEnds, At
<1> QED BY <1>1, <1>2

\* The answers that go with the writer need no keeping.
LEMMA StopInv == ASSUME WsInv, NEW r \in Readers, Stop(r) PROVE WsInv'
<1>1. /\ r <= readers /\ pc[r] = "returned" /\ answers' = [answers EXCEPT ![r] = <<>>]
      /\ UNCHANGED <<adapter, readers, reading, server, channel, acked>>
  BY DEF Stop
<1>2. PICK p \in {"ended", "backoff"} : Goto(r, p)
  BY DEF Stop, NextAttempt
<1>3. current[r] = Nothing /\ UNCHANGED current
  BY <1>1 DEF WsInv, Resting, reading
<1>4. pc' \in PerReader(Places) /\ Resting' /\ Unstarted'
  BY <1>1, <1>2, <1>3, GoneOn DEF Places
<1>5. answers' \in PerReader(Seq(Frames))
  BY <1>1 DEF WsInv, Typed, PerReader
<1>6. Typed'
  BY <1>1, <1>4, <1>5 DEF WsInv, Typed, adapter, server, reading
<1>7. Lasting
  BY <1>1 DEF Lasting, Safe, adapter, reading
<1>8. \A q \in Readers : ToSet(answers'[q]) \subseteq ToSet(answers[q])
  BY <1>1, EmptySet DEF WsInv, Typed, PerReader
<1> QED BY <1>1, <1>4, <1>6, <1>7, <1>8, StaysKept DEF WsInv

LEMMA ReadFrameInv == ASSUME WsInv, NEW r \in Readers, ReadFrame(r) PROVE WsInv'
<1>1. /\ r <= readers /\ pc[r] = "read" /\ wire[r] # <<>>
      /\ UNCHANGED <<adapter, readers, answers, channel, position, acked>>
      /\ wire' = [wire EXCEPT ![r] = Tail(@)]
  BY DEF ReadFrame, At, Open
<1>2. wire[r] \in Seq(Pieces) /\ wire[r][1].event \in Nat /\ Tail(wire[r]) \in Seq(Pieces)
  <2>1. wire[r] \in Seq(Pieces)
    BY DEF WsInv, Typed, PerReader
  <2>2. wire[r][1] \in Pieces /\ Tail(wire[r]) \in Seq(Pieces)
    BY <1>1, <2>1, TailSet
  <2> QED BY <2>1, <2>2 DEF Pieces
<1>3. wire' \in PerReader(Seq(Pieces))
  BY <1>1, <1>2 DEF WsInv, Typed, PerReader
<1>4. current[r] = Nothing
  BY <1>1 DEF WsInv, Resting
<1>5. CASE UNCHANGED <<pc, current>>
  <2>1. Typed' /\ Resting' /\ Unstarted'
    BY <1>1, <1>3, <1>5 DEF WsInv, Typed, Resting, Unstarted, adapter
  <2>2. Lasting
    BY <1>1, <1>5 DEF Lasting, Safe, adapter
  <2> QED BY <1>1, <2>1, <2>2, StaysKept DEF WsInv
<1>6. ASSUME NEW c \in {200, 500}, Goto(r, "answer"),
             current' = [current EXCEPT ![r] = [event |-> wire[r][1].event, code |-> c]]
      PROVE  WsInv'
  <2>1. current' \in PerReader(Frames)
    BY <1>2, <1>6 DEF WsInv, Typed, PerReader, Frames
  <2>2. pc' \in PerReader(Places)
    BY <1>6 DEF WsInv, Typed, PerReader, Goto, Places
  <2>3. Resting' /\ Unstarted'
    BY <1>1, <1>6, ReaderNumbers DEF WsInv, Typed, Resting, Unstarted, Goto, PerReader
  <2>4. Typed'
    BY <1>1, <1>3, <2>1, <2>2 DEF WsInv, Typed, adapter
  <2>5. ws_events # 0 => ws_events \in Readers
    BY DEF WsInv, Typed
  <2>6. Lasting
    BY <1>1, <1>4, <1>6, <2>5, NothingFrame DEF Lasting, Safe, adapter, WsInv, Typed, PerReader
  <2> QED BY <1>1, <2>3, <2>4, <2>6, StaysKept DEF WsInv
<1> QED BY <1>5, <1>6 DEF ReadFrame

LEMMA AnswerInv == ASSUME WsInv, NEW r \in Readers, Answer(r) PROVE WsInv'
<1>1. /\ r <= readers /\ ws_events = r /\ pc[r] = "answer"
      /\ UNCHANGED <<adapter, readers, channel, server, acked>>
  BY DEF Answer, At, Open, Closed
<1>2. current[r] \in Frames /\ answers[r] \in Seq(Frames) /\ r # 0
  BY ReaderNumbers DEF WsInv, Typed, PerReader
<1>3. current[r].code = 200 => Safe(current[r].event)
  BY <1>1, <1>2 DEF Safe
<1>4. /\ Append(answers[r], current[r]) \in Seq(Frames)
      /\ ToSet(Append(answers[r], current[r])) = ToSet(answers[r]) \cup {current[r]}
  BY <1>2, AppendSet
<1>5. \/ answers' = answers
      \/ answers' = [answers EXCEPT ![r] = Append(@, current[r])]
  BY <1>2 DEF Answer, WsInv, Typed, PerReader
<1>6. answers' \in PerReader(Seq(Frames))
  BY <1>4, <1>5 DEF WsInv, Typed, PerReader
<1>7. \/ Goto(r, "hand") /\ UNCHANGED current
      \/ /\ Goto(r, "read") /\ current' = [current EXCEPT ![r] = Nothing]
         /\ current[r].code # 200
  BY DEF Answer
<1>8. pc' \in PerReader(Places) /\ current' \in PerReader(Frames) /\ Resting' /\ Unstarted'
  <2>1. CASE Goto(r, "hand") /\ UNCHANGED current
    BY <1>1, <2>1, GoneOn DEF Places
  <2>2. CASE Goto(r, "read") /\ current' = [current EXCEPT ![r] = Nothing]
    <3>1. current'[r] = Nothing
      BY <2>2 DEF WsInv, Typed, PerReader
    <3> QED BY <1>1, <2>2, <3>1, GoneOn DEF Places
  <2> QED BY <1>7, <2>1, <2>2
<1>9. Typed'
  BY <1>1, <1>6, <1>8 DEF WsInv, Typed, adapter, server
<1>10. Lasting
  BY <1>1, <1>2, <1>7, NothingFrame DEF Lasting, Safe, adapter, WsInv, Typed, PerReader
<1>11. \A q \in Readers : \A f \in ToSet(answers'[q]) : f \in ToSet(answers[q]) \/ f = current[r]
  BY <1>2, <1>4, <1>5 DEF WsInv, Typed, PerReader
<1>12. Kept'
  BY <1>1, <1>3, <1>10, <1>11, StaysKept DEF WsInv, Lasting
<1> QED BY <1>8, <1>9, <1>12 DEF WsInv

LEMMA HandInv == ASSUME WsInv, NEW r \in Readers, Hand(r) PROVE WsInv'
<1>1. /\ r <= readers /\ ws_events = r /\ Goto(r, "read")
      /\ UNCHANGED <<adapter, readers, connection, fragments, answers, server, acked>>
      /\ channel' = [channel EXCEPT ![r] = Append(@, current[r].event)]
      /\ current' = [current EXCEPT ![r] = Nothing]
  BY DEF Hand, At, Open, Closed
<1>2. current[r] \in Frames /\ channel[r] \in Seq(Nat)
  BY DEF WsInv, Typed, PerReader
<1>3. current[r].event \in Nat
  BY <1>2 DEF Frames
<1>4. /\ Append(channel[r], current[r].event) \in Seq(Nat)
      /\ ToSet(Append(channel[r], current[r].event)) = ToSet(channel[r]) \cup {current[r].event}
  BY <1>2, <1>3, AppendSet
<1>5. channel' \in PerReader(Seq(Nat)) /\ channel'[r] = Append(channel[r], current[r].event)
  BY <1>1, <1>4 DEF WsInv, Typed, PerReader
<1>6. current'[r] = Nothing
  BY <1>1 DEF WsInv, Typed, PerReader
<1>7. pc' \in PerReader(Places) /\ current' \in PerReader(Frames) /\ Resting' /\ Unstarted'
  BY <1>1, <1>6, GoneOn DEF Places
<1>8. Typed'
  BY <1>1, <1>5, <1>7 DEF WsInv, Typed, adapter, server
<1>9. Lasting
  <2> SUFFICES ASSUME NEW e, Safe(e) PROVE Safe(e)'
    BY DEF Lasting
  <2>1. CASE e \in received \cup dropped
    BY <1>1, <2>1 DEF Safe, adapter
  <2>2. CASE e \in ToSet(channel[r]) \cup {current[r].event}
    <3>1. e \in ToSet(channel'[r])
      BY <1>4, <1>5, <2>2
    <3>2. ws_events' = r /\ ws_events' # 0
      BY <1>1, ReaderNumbers DEF adapter
    <3> QED BY <3>1, <3>2 DEF Safe
  <2> QED BY <1>1, <2>1, <2>2 DEF Safe
<1> QED BY <1>1, <1>7, <1>8, <1>9, StaysKept DEF WsInv

\* While a connection is being made nothing is held.
LEMMA DiallingInv ==
  ASSUME WsInv, NEW r \in Readers,
         \/ Backoff(r) \/ Register(r) \/ Dial(r)
         \/ BackoffClosed(r) \/ RegisterClosed(r) \/ DialClosed(r)
  PROVE  WsInv'
<1>1. /\ r <= readers /\ pc[r] \in {"backoff", "register", "dial"}
      /\ UNCHANGED <<adapter, readers, reading, answers, channel, server, acked>>
  BY DEF Backoff, Register, Dial, At, Open, BackoffClosed, RegisterClosed, DialClosed, ClosedAt,
     Leave
<1>2. PICK p \in {"register", "dial", "read", "backoff", "ended"} : Goto(r, p)
  BY DEF Backoff, Register, Dial, Fails, NextAttempt, BackoffClosed, RegisterClosed, DialClosed,
     Leave
<1>3. current[r] = Nothing
  BY <1>1 DEF WsInv, Resting
<1>4. pc' \in PerReader(Places) /\ Resting' /\ Unstarted'
  BY <1>1, <1>2, <1>3, GoneOn DEF reading, Places
<1>5. Typed'
  BY <1>1, <1>4 DEF WsInv, Typed, adapter, server, reading
<1>6. Lasting
  BY <1>1 DEF Lasting, Safe, adapter, reading
<1> QED BY <1>1, <1>4, <1>5, <1>6, StaysKept DEF WsInv

LEMMA WriteInv == ASSUME WsInv, NEW r \in Readers, Write(r) PROVE WsInv'
<1>1. answers[r] # <<>> /\ UNCHANGED <<adapter, readers, pc, reading, channel, server>>
  BY DEF Write
<1>2. answers[r] \in Seq(Frames)
  BY DEF WsInv, Typed, PerReader
<1>3. /\ Tail(answers[r]) \in Seq(Frames)
      /\ ToSet(answers[r]) = ToSet(Tail(answers[r])) \cup {answers[r][1]}
  BY <1>1, <1>2, TailSet
<1>4. PICK left \in {Tail(answers[r]), <<>>} : answers' = [answers EXCEPT ![r] = left]
  BY DEF Write
<1>5. left \in Seq(Frames) /\ ToSet(left) \subseteq ToSet(answers[r])
  <2>1. CASE left = Tail(answers[r])
    BY <1>3, <2>1
  <2>2. CASE left = <<>>
    <3>1. <<>> \in Seq(Frames)
      OBVIOUS
    <3> QED BY <2>2, <3>1, EmptySet
  <2> QED BY <1>4, <2>1, <2>2
<1>6. answers' \in PerReader(Seq(Frames))
  BY <1>4, <1>5 DEF WsInv, Typed, PerReader
<1>7. \A q \in Readers : ToSet(answers'[q]) \subseteq ToSet(answers[q])
  BY <1>4, <1>5 DEF WsInv, Typed, PerReader
<1>8. Typed' /\ Resting' /\ Unstarted'
  BY <1>1, <1>6 DEF WsInv, Typed, Resting, Unstarted, adapter, reading, server
<1>9. Lasting
  BY <1>1 DEF Lasting, Safe, adapter, reading
<1>10. \A e \in acked' : e \in acked \/ (answers[r][1].code = 200 /\ e = answers[r][1].event)
  BY DEF Write
<1>11. answers[r][1].code = 200 => Safe(answers[r][1].event)
  BY <1>3 DEF WsInv, Kept
<1>12. \A e \in acked' : Safe(e)
  BY <1>10, <1>11 DEF WsInv, Kept
<1>13. \A q \in Readers : \A f \in ToSet(answers'[q]) : f.code = 200 => Safe(f.event)
  BY <1>7 DEF WsInv, Kept
<1>14. Kept'
  BY <1>9, <1>12, <1>13 DEF Kept, Lasting
<1> QED BY <1>8, <1>14 DEF WsInv

LEMMA NetworkInv ==
  ASSUME WsInv, NEW r \in Readers, Break(r) \/ \E e \in Events : Send(r, e)
  PROVE  WsInv'
<1>1. UNCHANGED <<adapter, readers, pc, reading, answers, channel, acked>>
  BY DEF Break, Send
<1>2. wire[r] \in Seq(Pieces) /\ \A e \in Events : position[r][e] \in Nat
  BY DEF WsInv, Typed, PerReader
<1>3. CASE Break(r)
  <2>1. wire' \in PerReader(Seq(Pieces)) /\ UNCHANGED position
    BY <1>3 DEF Break, WsInv, Typed, PerReader
  <2>2. Typed'
    BY <1>1, <2>1 DEF WsInv, Typed, adapter, reading
  <2> QED BY <1>1, <2>2, StaysKept DEF WsInv, Resting, Unstarted, Lasting, Safe, adapter, reading
<1>4. ASSUME NEW e \in Events, Send(r, e) PROVE WsInv'
  <2>1. PICK n \in Nat :
          /\ wire' = [wire EXCEPT ![r] = Append(@, [event |-> e, part |-> n])]
          /\ position' = position \/ position' = [position EXCEPT ![r][e] = n]
    <3>1. position[r][e] \in Nat /\ position[r][e] + 1 \in Nat
      BY <1>2
    <3>2. \/ /\ wire' = [wire EXCEPT ![r] = Append(@, [event |-> e, part |-> position[r][e] + 1])]
             /\ position' = [position EXCEPT ![r][e] = @ + 1]
          \/ /\ wire' = [wire EXCEPT ![r] = Append(@, [event |-> e, part |-> 1])]
             /\ position' = [position EXCEPT ![r][e] = 1]
          \/ /\ wire' = [wire EXCEPT ![r] = Append(@, [event |-> e, part |-> position[r][e]])]
             /\ UNCHANGED position
      BY <1>4 DEF Send
    <3>3. position \in PerReader([Events -> Nat])
      BY DEF WsInv, Typed
    <3>4. [position EXCEPT ![r][e] = @ + 1] = [position EXCEPT ![r][e] = position[r][e] + 1]
      BY <3>3 DEF PerReader
    <3> QED BY <3>1, <3>2, <3>4
  <2>2. [event |-> e, part |-> n] \in Pieces
    BY EventNumbers DEF Pieces
  <2>3. Append(wire[r], [event |-> e, part |-> n]) \in Seq(Pieces)
    BY <1>2, <2>2
  <2>4. wire' \in PerReader(Seq(Pieces))
    BY <2>1, <2>3 DEF WsInv, Typed, PerReader
  <2>5. position' \in PerReader([Events -> Nat])
    <3>1. position \in PerReader([Events -> Nat])
      BY DEF WsInv, Typed
    <3>2. [position[r] EXCEPT ![e] = n] \in [Events -> Nat]
      BY <3>1 DEF PerReader
    <3> QED BY <2>1, <3>1, <3>2 DEF PerReader
  <2>6. Typed'
    BY <1>1, <2>4, <2>5 DEF WsInv, Typed, adapter, reading
  <2> QED BY <1>1, <2>6, StaysKept DEF WsInv, Resting, Unstarted, Lasting, Safe, adapter, reading
<1> QED BY <1>3, <1>4

-----------------------------------------------------------------------------
LEMMA InitInv == Init => WsInv
<1> SUFFICES ASSUME Init PROVE WsInv
  OBVIOUS
<1>1. Typed
  BY ReaderNumbers, NothingFrame DEF Init, Typed, Each, PerReader, Places, NonePosted
<1>2. Resting /\ Unstarted
  BY DEF Init, Resting, Unstarted, Each
<1>3. Kept
  BY EmptySet DEF Init, Kept, Each
<1> QED BY <1>1, <1>2, <1>3 DEF WsInv

LEMMA NextInv == WsInv /\ [Next]_vars => WsInv'
<1> SUFFICES ASSUME WsInv, [Next]_vars PROVE WsInv'
  OBVIOUS
<1>1. CASE UNCHANGED vars
  BY <1>1 DEF vars, adapter, reading, server, WsInv, Typed, Resting, Unstarted, Kept, Safe
<1>2. CASE Connect \/ Disconnect \/ Receive
  BY <1>2, ConnectInv, DisconnectInv, ReceiveInv
<1>3. ASSUME NEW r \in Readers,
             \/ ReadEnds(r) \/ ReadFrame(r) \/ Answer(r) \/ Hand(r) \/ Stop(r)
             \/ Backoff(r) \/ Register(r) \/ Dial(r) \/ Write(r) \/ Break(r)
             \/ SeesClosed(r)
             \/ \E e \in Events : Send(r, e)
      PROVE  WsInv'
  BY <1>3, EndsInv, StopInv, ReadFrameInv, AnswerInv, HandInv, DiallingInv, WriteInv, NetworkInv
     DEF SeesClosed
<1> QED BY <1>1, <1>2, <1>3 DEF Next

\* Every event a reader says it has taken is with the adapter, on its way there,
\* or went with a receiver that was dropped, however links break, parts repeat,
\* answers wait or readers end (answered before it is handed on, ws.rs).
THEOREM TakenIsKept == Spec => []AckedIsKept
<1>1. WsInv => AckedIsKept
  BY DEF WsInv, Kept, Safe, AckedIsKept
<1> QED BY <1>1, InitInv, NextInv, PTL DEF Spec

-----------------------------------------------------------------------------
(***************************************************************************)
(* Capacities and limits, and that only what was sent is acknowledged.     *)
(***************************************************************************)
Sent == [event : Events, part : Nat]
Dialling == {"backoff", "register", "dial"}

\* The reader the adapter reads from, and those that were started.
Numbered ==
  /\ ws_events \in 0 .. readers /\ connected \in BOOLEAN /\ (connected <=> ws_events # 0)
  /\ \A r \in Readers : pc[r] = "none" <=> r > readers

\* While it dials, a reader has an attempt left that has not failed yet.
Limited ==
  /\ attempts \in PerReader(0 .. Limit) /\ failed \in PerReader(0 .. Limit)
  /\ \A r \in Readers : failed[r] <= attempts[r] /\ (pc[r] \in Dialling => failed[r] < attempts[r])

Capped ==
  \A r \in Readers :
    Len(answers[r]) <= WriteCap /\ Len(channel[r]) <= EventCap /\ Len(wire[r]) <= WireCap

\* What is on its way, at each place, is an event the server had to send.
Genuine ==
  /\ wire \in PerReader(Seq(Sent))
  /\ \A r \in Readers :
       /\ pc[r] \in {"answer", "hand"} <=> current[r] # Nothing
       /\ current[r] # Nothing => current[r].event \in Events
       /\ ToSet(channel[r]) \subseteq Events
       /\ \A f \in ToSet(answers[r]) : f.event \in Events
  /\ acked \cup received \subseteq Events

Bounds == Numbered /\ Limited /\ Capped /\ Genuine

LEMMA BoundsTypes == WsInv /\ Bounds => TypeOK
  BY DEF WsInv, Typed, Bounds, Numbered, Limited, Capped, Genuine, TypeOK, PerReader, Places

LEMMA Capacities ==
  /\ MaxReaders \in Nat /\ Limit \in Nat /\ EventCap \in Nat /\ WriteCap \in Nat /\ WireCap \in Nat
  /\ Len(<<>>) = 0
  BY WsAssumption

\* The adapter reads from the same reader, or from none.
LEMMA NumberedStays ==
  ASSUME WsInv, Bounds, UNCHANGED <<readers, pc>>,
         \/ UNCHANGED <<ws_events, connected>>
         \/ ws_events' = 0 /\ connected' = FALSE
  PROVE  Numbered'
<1>1. readers \in Nat /\ 0 \in 0 .. readers
  BY Capacities DEF WsInv, Typed
<1>2. ws_events' \in 0 .. readers'
  BY <1>1 DEF Bounds, Numbered
<1>3. connected' \in BOOLEAN /\ (connected' <=> ws_events' # 0)
  <2>1. CASE UNCHANGED <<ws_events, connected>>
    <3>1. connected \in BOOLEAN /\ (connected <=> ws_events # 0)
      BY DEF Bounds, Numbered
    <3>2. ws_events' = ws_events /\ connected' = connected
      BY <2>1
    <3> QED BY <3>1, <3>2, Zenon
  <2>2. CASE ws_events' = 0 /\ connected' = FALSE
    BY <2>2
  <2> QED BY <2>1, <2>2
<1>4. \A r \in Readers : pc'[r] = "none" <=> r > readers'
  BY DEF Bounds, Numbered
<1> QED BY <1>2, <1>3, <1>4 DEF Numbered

LEMMA ConnectBounds == ASSUME WsInv, Bounds, Connect PROVE Bounds'
<1>1. UNCHANGED <<reading, answers, channel, server, acked, attempts, failed, received>>
  BY DEF Connect, adapter, connection
<1>2. CASE /\ UNCHANGED <<readers, pc>>
           /\ \/ UNCHANGED <<ws_events, connected>>
              \/ ws_events' = 0 /\ connected' = FALSE
  <2>1. Limited' /\ Capped' /\ Genuine'
    BY <1>1, <1>2 DEF Bounds, Limited, Capped, Genuine, reading, server
  <2>2. Numbered'
    BY <1>2, NumberedStays
  <2> QED BY <2>1, <2>2 DEF Bounds
<1>3. CASE /\ readers < MaxReaders /\ readers' = readers + 1
           /\ ws_events' = readers' /\ connected' = TRUE
           /\ pc' = [pc EXCEPT ![readers'] = "read"]
  <2>1. readers \in Nat /\ readers' \in Readers /\ pc \in PerReader(Places)
    BY <1>3, Capacities DEF WsInv, Typed, Readers
  <2>2. /\ pc'[readers'] = "read" /\ pc[readers'] = "none"
        /\ \A r \in Readers : r # readers' => pc'[r] = pc[r]
    BY <1>3, <2>1, ReaderNumbers DEF PerReader, WsInv, Unstarted
  <2>3. Numbered'
    BY <1>3, <2>1, <2>2, ReaderNumbers DEF Bounds, Numbered
  <2>4. Limited'
    BY <1>1, <2>2 DEF Bounds, Limited, Dialling
  <2>5. Capped'
    BY <1>1 DEF Bounds, Capped, server
  <2>6. \A r \in Readers : pc'[r] \in {"answer", "hand"} <=> pc[r] \in {"answer", "hand"}
    BY <2>2
  <2>7. Genuine'
    BY <1>1, <2>6 DEF Bounds, Genuine, reading, server
  <2> QED BY <2>3, <2>4, <2>5, <2>7 DEF Bounds
<1>4. \/ UNCHANGED <<readers, pc, ws_events, connected>>
      \/ UNCHANGED <<readers, pc>> /\ ws_events' = 0 /\ connected' = FALSE
      \/ /\ readers < MaxReaders /\ readers' = readers + 1
         /\ ws_events' = readers' /\ connected' = TRUE
         /\ pc' = [pc EXCEPT ![readers'] = "read"]
  BY DEF Connect, adapter
<1> QED BY <1>2, <1>3, <1>4

LEMMA AdapterBounds == ASSUME WsInv, Bounds, Disconnect \/ Receive PROVE Bounds'
<1>1. UNCHANGED <<readers, pc, connection, reading, answers, server, acked>>
  BY DEF Disconnect, Receive
<1>2. CASE ws_events' = 0 /\ connected' = FALSE /\ UNCHANGED <<received, channel>>
  <2>1. Limited' /\ Capped' /\ Genuine'
    BY <1>1, <1>2 DEF Bounds, Limited, Capped, Genuine, reading, server, connection
  <2>2. Numbered'
    BY <1>1, <1>2, NumberedStays
  <2> QED BY <2>1, <2>2 DEF Bounds
<1>3. CASE /\ ws_events \in Readers /\ channel[ws_events] # <<>>
           /\ UNCHANGED <<ws_events, connected>>
           /\ received' = received \cup {channel[ws_events][1]}
           /\ channel' = [channel EXCEPT ![ws_events] = Tail(@)]
  <2>1. channel[ws_events] \in Seq(Nat)
    BY <1>3 DEF WsInv, Typed, PerReader
  <2>2. /\ ToSet(channel[ws_events]) = ToSet(Tail(channel[ws_events])) \cup {channel[ws_events][1]}
        /\ Len(Tail(channel[ws_events])) <= Len(channel[ws_events])
        /\ Len(Tail(channel[ws_events])) \in Nat /\ Len(channel[ws_events]) \in Nat
    BY <1>3, <2>1, TailSet
  <2>3. \A r \in Readers : channel'[r] = IF r = ws_events THEN Tail(channel[r]) ELSE channel[r]
    BY <1>3 DEF WsInv, Typed, PerReader
  <2>4. Numbered' /\ Limited'
    BY <1>1, <1>3 DEF Bounds, Numbered, Limited, connection
  <2>5. Capped'
    <3>1. Capped /\ UNCHANGED <<answers, wire>>
      BY <1>1 DEF Bounds, server
    <3>2. \A r \in Readers : Len(channel'[r]) <= EventCap
      <4>1. Len(channel[ws_events]) <= EventCap
        BY <1>3, <3>1 DEF Capped
      <4>2. Len(Tail(channel[ws_events])) <= EventCap
        BY <2>2, <4>1, Capacities
      <4> QED BY <2>3, <3>1, <4>2 DEF Capped
    <3> QED BY <3>1, <3>2 DEF Capped
  <2>6. Genuine'
    BY <1>1, <1>3, <2>2, <2>3 DEF Bounds, Genuine, reading, server
  <2> QED BY <2>4, <2>5, <2>6 DEF Bounds
<1>4. ws_events # 0 => ws_events \in Readers
  BY DEF WsInv, Typed
<1> QED BY <1>2, <1>3, <1>4 DEF Disconnect, Receive, adapter

\* The reading ends: nothing is held or on the way any more.
LEMMA ReturnBounds ==
  ASSUME WsInv, Bounds, NEW r \in Readers, r <= readers, Return(r),
         UNCHANGED <<adapter, readers, attempts, failed, answers, channel, acked>>
  PROVE  Bounds'
<1>1. /\ pc'[r] = "returned" /\ current'[r] = Nothing /\ wire'[r] = <<>>
      /\ \A q \in Readers : q # r => /\ pc'[q] = pc[q] /\ current'[q] = current[q]
                                     /\ wire'[q] = wire[q]
  BY DEF Return, Goto, WsInv, Typed, PerReader
<1>2. Numbered'
  BY <1>1, ReaderNumbers DEF Bounds, Numbered, adapter, WsInv, Typed
<1>3. Capped'
  BY <1>1, Capacities DEF Bounds, Capped
<1>4. wire' \in PerReader(Seq(Sent))
  BY DEF Return, Bounds, Genuine, PerReader
<1>5. Genuine'
  BY <1>1, <1>4, EmptySet DEF Bounds, Genuine, adapter
<1>6. Limited'
  BY <1>1 DEF Bounds, Limited, Dialling
<1> QED BY <1>2, <1>3, <1>5, <1>6 DEF Bounds

\* The next attempt, or none.
LEMMA AttemptLimited ==
  ASSUME WsInv, Bounds, NEW r \in Readers, NextAttempt(r),
         \/ UNCHANGED failed
         \/ failed' = [failed EXCEPT ![r] = @ + 1] /\ pc[r] \in Dialling
  PROVE  Limited'
<1>1. /\ attempts[r] \in 0 .. Limit /\ failed[r] \in 0 .. Limit /\ Limit \in Nat
      /\ failed[r] <= attempts[r] /\ (pc[r] \in Dialling => failed[r] < attempts[r])
  BY Capacities DEF Bounds, Limited, PerReader
<1>2. attempts' \in PerReader(0 .. Limit)
  BY <1>1 DEF NextAttempt, Bounds, Limited, PerReader
<1>3. failed' \in PerReader(0 .. Limit)
  BY <1>1 DEF Bounds, Limited, PerReader
<1>4. failed'[r] <= attempts[r] /\ failed'[r] \in Nat
  BY <1>1 DEF Bounds, Limited, PerReader
<1>5. \/ pc'[r] = "ended" /\ attempts'[r] = attempts[r]
      \/ pc'[r] = "backoff" /\ attempts'[r] = attempts[r] + 1
  BY DEF NextAttempt, Goto, Bounds, Limited, PerReader, WsInv, Typed
<1>6. \A q \in Readers : q # r => /\ pc'[q] = pc[q] /\ attempts'[q] = attempts[q]
                                  /\ failed'[q] = failed[q]
  BY DEF NextAttempt, Goto, Bounds, Limited, PerReader, WsInv, Typed
<1>7. \A q \in Readers : failed'[q] <= attempts'[q] /\ (pc'[q] \in Dialling => failed'[q] < attempts'[q])
  BY <1>1, <1>4, <1>5, <1>6 DEF Bounds, Limited, Dialling
<1> QED BY <1>2, <1>3, <1>7 DEF Limited

LEMMA EndBounds ==
  ASSUME WsInv, Bounds, NEW r \in Readers,
         ReadClosed(r) \/ AnswerClosed(r) \/ HandClosed(r) \/ ReadEnds(r)
  PROVE  Bounds'
  BY ReturnBounds DEF ReadClosed, AnswerClosed, HandClosed, ReadEnds, ClosedAt, At, Open

LEMMA StopBounds == ASSUME WsInv, Bounds, NEW r \in Readers, Stop(r) PROVE Bounds'
<1>1. /\ r <= readers /\ pc[r] = "returned" /\ NextAttempt(r) /\ UNCHANGED failed
      /\ UNCHANGED <<adapter, readers, reading, server, channel, acked>>
      /\ answers' = [answers EXCEPT ![r] = <<>>]
  BY DEF Stop
<1>2. PICK p \in {"ended", "backoff"} : Goto(r, p)
  BY <1>1 DEF NextAttempt
<1>3. /\ pc'[r] = p /\ answers'[r] = <<>>
      /\ \A q \in Readers : q # r => pc'[q] = pc[q] /\ answers'[q] = answers[q]
  BY <1>1, <1>2 DEF Goto, WsInv, Typed, PerReader
<1>4. Limited'
  BY <1>1, AttemptLimited
<1>5. Numbered'
  BY <1>1, <1>3, ReaderNumbers DEF Bounds, Numbered, adapter, WsInv, Typed
<1>6. Capped'
  BY <1>1, <1>3, Capacities DEF Bounds, Capped, server
<1>7. Genuine'
  BY <1>1, <1>3, EmptySet DEF Bounds, Genuine, adapter, reading, server
<1> QED BY <1>4, <1>5, <1>6, <1>7 DEF Bounds

\* A reader goes on without dialling, and what its connection counts stays.
LEMMA GoesOn ==
  ASSUME WsInv, Bounds, NEW r \in Readers, r <= readers, NEW p \in {"read", "answer", "hand"},
         Goto(r, p) \/ UNCHANGED pc, UNCHANGED <<adapter, readers, connection>>
  PROVE  /\ Numbered' /\ Limited'
         /\ \A q \in Readers : pc'[q] = pc[q] \/ (q = r /\ pc'[q] = p)
<1>1. \A q \in Readers : pc'[q] = pc[q] \/ (q = r /\ pc'[q] = p)
  BY DEF Goto, WsInv, Typed, PerReader
<1>2. Numbered'
  BY <1>1, ReaderNumbers DEF Bounds, Numbered, adapter, WsInv, Typed
<1>3. Limited'
  BY <1>1 DEF Bounds, Limited, Dialling, connection
<1> QED BY <1>1, <1>2, <1>3

LEMMA ReadBounds == ASSUME WsInv, Bounds, NEW r \in Readers, ReadFrame(r) PROVE Bounds'
<1>1. /\ r <= readers /\ pc[r] = "read" /\ wire[r] # <<>>
      /\ UNCHANGED <<adapter, readers, connection, answers, channel, acked>>
      /\ wire' = [wire EXCEPT ![r] = Tail(@)]
  BY DEF ReadFrame, At, Open
<1>2. wire[r] \in Seq(Sent)
  BY DEF Bounds, Genuine, PerReader
<1>3. /\ wire[r][1].event \in Events /\ Tail(wire[r]) \in Seq(Sent)
      /\ Len(Tail(wire[r])) <= Len(wire[r])
      /\ Len(Tail(wire[r])) \in Nat /\ Len(wire[r]) \in Nat
  <2>1. wire[r][1] \in Sent /\ Tail(wire[r]) \in Seq(Sent)
    BY <1>1, <1>2, TailSet
  <2> QED BY <1>1, <1>2, <2>1 DEF Sent
<1>4. /\ wire' \in PerReader(Seq(Sent)) /\ wire'[r] = Tail(wire[r])
      /\ \A q \in Readers : q # r => wire'[q] = wire[q]
  BY <1>1, <1>3 DEF Bounds, Genuine, PerReader
<1>5. Capped'
  BY <1>1, <1>3, <1>4, Capacities DEF Bounds, Capped
<1>6. CASE UNCHANGED <<pc, current>>
  <2>1. Numbered' /\ Limited'
    BY <1>1, <1>6, GoesOn
  <2>2. Genuine'
    BY <1>1, <1>4, <1>6 DEF Bounds, Genuine, adapter
  <2> QED BY <1>5, <2>1, <2>2 DEF Bounds
<1>7. ASSUME NEW c \in {200, 500}, Goto(r, "answer"),
             current' = [current EXCEPT ![r] = [event |-> wire[r][1].event, code |-> c]]
      PROVE  Bounds'
  <2>1. Numbered' /\ Limited'
    BY <1>1, <1>7, GoesOn
  <2>2. pc'[r] = "answer" /\ \A q \in Readers : q # r => pc'[q] = pc[q]
    BY <1>7 DEF Goto, WsInv, Typed, PerReader
  <2>3. /\ current'[r] = [event |-> wire[r][1].event, code |-> c]
        /\ \A q \in Readers : q # r => current'[q] = current[q]
    BY <1>7 DEF WsInv, Typed, PerReader
  <2>4. current'[r] # Nothing /\ current'[r].event \in Events
    BY <1>3, <2>3 DEF Nothing
  <2>5. Genuine'
    BY <1>1, <1>4, <2>2, <2>3, <2>4 DEF Bounds, Genuine, adapter
  <2> QED BY <1>5, <2>1, <2>5 DEF Bounds
<1> QED BY <1>6, <1>7 DEF ReadFrame

LEMMA AnswerBounds == ASSUME WsInv, Bounds, NEW r \in Readers, Answer(r) PROVE Bounds'
<1>1. /\ r <= readers /\ pc[r] = "answer" /\ (writer[r] => Len(answers[r]) < WriteCap)
      /\ UNCHANGED <<adapter, readers, connection, channel, wire, acked>>
  BY DEF Answer, At, Open, server
<1>2. current[r] \in Frames /\ answers[r] \in Seq(Frames) /\ current[r].event \in Events
  BY <1>1 DEF WsInv, Typed, PerReader, Bounds, Genuine
<1>3. /\ ToSet(Append(answers[r], current[r])) = ToSet(answers[r]) \cup {current[r]}
      /\ Len(Append(answers[r], current[r])) = Len(answers[r]) + 1 /\ Len(answers[r]) \in Nat
  BY <1>2, AppendSet
<1>4. /\ answers'[r] = answers[r] \/ (writer[r] /\ answers'[r] = Append(answers[r], current[r]))
      /\ \A q \in Readers : q # r => answers'[q] = answers[q]
  BY DEF Answer, WsInv, Typed, PerReader
<1>5. Capped'
  BY <1>1, <1>3, <1>4, Capacities DEF Bounds, Capped
<1>6. CASE Goto(r, "hand") /\ UNCHANGED current
  <2>1. Numbered' /\ Limited'
    BY <1>1, <1>6, GoesOn
  <2>2. pc'[r] = "hand" /\ \A q \in Readers : q # r => pc'[q] = pc[q]
    BY <1>6 DEF Goto, WsInv, Typed, PerReader
  <2>3. \A q \in Readers : \A f \in ToSet(answers'[q]) : f.event \in Events
    BY <1>2, <1>3, <1>4 DEF Bounds, Genuine
  <2>4. \A q \in Readers : pc'[q] \in {"answer", "hand"} <=> pc[q] \in {"answer", "hand"}
    BY <1>1, <2>2
  <2>5. Genuine'
    BY <1>1, <1>6, <2>3, <2>4 DEF Bounds, Genuine, adapter
  <2> QED BY <1>5, <2>1, <2>5 DEF Bounds
<1>7. CASE Goto(r, "read") /\ current' = [current EXCEPT ![r] = Nothing]
  <2>1. Numbered' /\ Limited'
    BY <1>1, <1>7, GoesOn
  <2>2. pc'[r] = "read" /\ \A q \in Readers : q # r => pc'[q] = pc[q]
    BY <1>7 DEF Goto, WsInv, Typed, PerReader
  <2>3. current'[r] = Nothing /\ \A q \in Readers : q # r => current'[q] = current[q]
    BY <1>7 DEF WsInv, Typed, PerReader
  <2>4. \A q \in Readers : \A f \in ToSet(answers'[q]) : f.event \in Events
    BY <1>2, <1>3, <1>4 DEF Bounds, Genuine
  <2>5. \A q \in Readers : /\ pc'[q] \in {"answer", "hand"} <=> current'[q] # Nothing
                           /\ current'[q] # Nothing => current'[q].event \in Events
    <3>1. \A q \in Readers : /\ pc[q] \in {"answer", "hand"} <=> current[q] # Nothing
                             /\ current[q] # Nothing => current[q].event \in Events
      BY DEF Bounds, Genuine
    <3>2. ASSUME NEW q \in Readers, q # r
          PROVE  /\ pc'[q] \in {"answer", "hand"} <=> current'[q] # Nothing
                 /\ current'[q] # Nothing => current'[q].event \in Events
      BY <2>2, <2>3, <3>1, <3>2
    <3> QED BY <2>2, <2>3, <3>2
  <2>6. UNCHANGED <<wire, channel, acked, received>>
    BY <1>1 DEF adapter
  <2>7. Genuine'
    BY <2>4, <2>5, <2>6 DEF Bounds, Genuine
  <2> QED BY <1>5, <2>1, <2>7 DEF Bounds
<1> QED BY <1>6, <1>7 DEF Answer

LEMMA HandBounds == ASSUME WsInv, Bounds, NEW r \in Readers, Hand(r) PROVE Bounds'
<1>1. /\ r <= readers /\ pc[r] = "hand" /\ Goto(r, "read") /\ Len(channel[r]) < EventCap
      /\ UNCHANGED <<adapter, readers, connection, answers, wire, acked>>
      /\ channel' = [channel EXCEPT ![r] = Append(@, current[r].event)]
      /\ current' = [current EXCEPT ![r] = Nothing]
  BY DEF Hand, At, Open, server
<1>2. current[r].event \in Events /\ current[r].event \in Nat /\ channel[r] \in Seq(Nat)
  BY <1>1, EventNumbers DEF WsInv, Typed, PerReader, Bounds, Genuine
<1>3. /\ ToSet(Append(channel[r], current[r].event)) = ToSet(channel[r]) \cup {current[r].event}
      /\ Len(Append(channel[r], current[r].event)) = Len(channel[r]) + 1 /\ Len(channel[r]) \in Nat
  BY <1>2, AppendSet
<1>4. /\ channel'[r] = Append(channel[r], current[r].event) /\ current'[r] = Nothing
      /\ pc'[r] = "read"
      /\ \A q \in Readers : q # r => /\ channel'[q] = channel[q] /\ current'[q] = current[q]
                                     /\ pc'[q] = pc[q]
  BY <1>1 DEF Goto, WsInv, Typed, PerReader
<1>5. Numbered' /\ Limited'
  BY <1>1, GoesOn
<1>6. Capped'
  BY <1>1, <1>3, <1>4, Capacities DEF Bounds, Capped
<1>7. Genuine'
  BY <1>1, <1>2, <1>3, <1>4 DEF Bounds, Genuine, adapter
<1> QED BY <1>5, <1>6, <1>7 DEF Bounds

LEMMA DiallingBounds ==
  ASSUME WsInv, Bounds, NEW r \in Readers,
         \/ Backoff(r) \/ Register(r) \/ Dial(r)
         \/ BackoffClosed(r) \/ RegisterClosed(r) \/ DialClosed(r)
  PROVE  Bounds'
<1>1. /\ r <= readers /\ pc[r] \in Dialling
      /\ UNCHANGED <<adapter, readers, reading, answers, channel, server, acked>>
  BY DEF Backoff, Register, Dial, At, Open, Dialling, BackoffClosed, RegisterClosed, DialClosed,
     ClosedAt, Leave
<1>2. PICK p \in {"register", "dial", "read", "backoff", "ended"} : Goto(r, p)
  BY DEF Backoff, Register, Dial, Fails, NextAttempt, BackoffClosed, RegisterClosed, DialClosed,
     Leave
<1>3. pc'[r] = p /\ \A q \in Readers : q # r => pc'[q] = pc[q]
  BY <1>2 DEF Goto, WsInv, Typed, PerReader
<1>4. Numbered' /\ Capped' /\ Genuine'
  BY <1>1, <1>3, ReaderNumbers DEF Bounds, Numbered, Capped, Genuine, adapter, reading, server,
     Dialling, WsInv, Typed
<1>5. Limited'
  <2>1. CASE UNCHANGED <<attempts, failed>>
    BY <1>1, <1>3, <2>1 DEF Bounds, Limited
  <2>2. CASE Fails(r)
    BY <1>1, <2>2, AttemptLimited DEF Fails
  <2>3. CASE Goto(r, "read") /\ Established(r)
    <3>1. /\ attempts'[r] = 0 /\ failed'[r] = 0
          /\ attempts' \in PerReader(0 .. Limit) /\ failed' \in PerReader(0 .. Limit)
          /\ \A q \in Readers : q # r => attempts'[q] = attempts[q] /\ failed'[q] = failed[q]
      BY <2>3, Capacities DEF Established, Bounds, Limited, PerReader
    <3>2. pc'[r] = "read"
      BY <2>3 DEF Goto, WsInv, Typed, PerReader
    <3> QED BY <1>3, <3>1, <3>2 DEF Bounds, Limited, Dialling
  <2> QED BY <2>1, <2>2, <2>3 DEF Backoff, Register, Dial, BackoffClosed, RegisterClosed,
               DialClosed, ClosedAt, connection
<1> QED BY <1>4, <1>5 DEF Bounds

LEMMA WriteBounds == ASSUME WsInv, Bounds, NEW r \in Readers, Write(r) PROVE Bounds'
<1>1. answers[r] # <<>> /\ UNCHANGED <<adapter, readers, pc, attempts, failed, reading, channel, server>>
  BY DEF Write
<1>2. answers[r] \in Seq(Frames)
  BY DEF WsInv, Typed, PerReader
<1>3. /\ ToSet(answers[r]) = ToSet(Tail(answers[r])) \cup {answers[r][1]}
      /\ Len(Tail(answers[r])) <= Len(answers[r]) /\ Len(Tail(answers[r])) \in Nat
      /\ Len(answers[r]) \in Nat
  BY <1>1, <1>2, TailSet
<1>4. /\ answers'[r] \in {Tail(answers[r]), <<>>}
      /\ \A q \in Readers : q # r => answers'[q] = answers[q]
  BY DEF Write, WsInv, Typed, PerReader
<1>5. Capped'
  BY <1>1, <1>3, <1>4, Capacities DEF Bounds, Capped, server
<1>6. Numbered' /\ Limited'
  BY <1>1 DEF Bounds, Numbered, Limited, adapter
<1>7. \A e \in acked' : e \in acked \/ e = answers[r][1].event
  BY DEF Write
<1>8. Genuine'
  <2>1. answers[r][1].event \in Events
    BY <1>3 DEF Bounds, Genuine
  <2>2. acked' \cup received' \subseteq Events
    BY <1>1, <1>7, <2>1 DEF Bounds, Genuine, adapter
  <2>3. ToSet(answers'[r]) \subseteq ToSet(answers[r])
    BY <1>3, <1>4, EmptySet
  <2>4. \A q \in Readers : \A f \in ToSet(answers'[q]) : f.event \in Events
    BY <1>4, <2>3 DEF Bounds, Genuine
  <2>5. UNCHANGED <<wire, pc, current, channel>>
    BY <1>1 DEF reading, server
  <2> QED BY <2>2, <2>4, <2>5 DEF Bounds, Genuine
<1> QED BY <1>5, <1>6, <1>8 DEF Bounds

LEMMA NetworkBounds ==
  ASSUME WsInv, Bounds, NEW r \in Readers, Break(r) \/ \E e \in Events : Send(r, e) PROVE Bounds'
<1>1. UNCHANGED <<adapter, readers, pc, attempts, failed, reading, answers, channel, acked>>
  BY DEF Break, Send, connection
<1>2. wire[r] \in Seq(Sent) /\ Len(wire[r]) \in Nat
  BY DEF Bounds, Genuine, PerReader
<1>3. PICK w \in Seq(Sent) : /\ Len(w) <= WireCap /\ wire' = [wire EXCEPT ![r] = w]
  <2>1. CASE Break(r)
    <3>1. <<>> \in Seq(Sent) /\ Len(<<>>) <= WireCap
      BY Capacities
    <3> QED BY <2>1, <3>1 DEF Break
  <2>2. ASSUME NEW e \in Events, Send(r, e)
        PROVE  \E w \in Seq(Sent) : /\ Len(w) <= WireCap /\ wire' = [wire EXCEPT ![r] = w]
    <3>1. position[r][e] \in Nat
      BY DEF WsInv, Typed, PerReader
    <3>2. PICK n \in Nat : wire' = [wire EXCEPT ![r] = Append(@, [event |-> e, part |-> n])]
      <4>1. \E n \in {position[r][e] + 1, 1, position[r][e]} :
              wire' = [wire EXCEPT ![r] = Append(@, [event |-> e, part |-> n])]
        BY <2>2 DEF Send
      <4>2. {position[r][e] + 1, 1, position[r][e]} \subseteq Nat
        BY <3>1
      <4> QED BY <4>1, <4>2
    <3>3. [event |-> e, part |-> n] \in Sent /\ Len(wire[r]) < WireCap
      BY <2>2 DEF Send, Sent
    <3>4. /\ Append(wire[r], [event |-> e, part |-> n]) \in Seq(Sent)
          /\ Len(Append(wire[r], [event |-> e, part |-> n])) = Len(wire[r]) + 1
      BY <1>2, <3>3
    <3>5. Len(wire[r]) + 1 <= WireCap
      BY <1>2, <3>3, Capacities
    <3> QED BY <3>2, <3>4, <3>5
  <2> QED BY <2>1, <2>2
<1>4. wire' \in PerReader(Seq(Sent)) /\ wire'[r] = w /\ \A q \in Readers : q # r => wire'[q] = wire[q]
  BY <1>3 DEF Bounds, Genuine, PerReader
<1>5. Numbered' /\ Limited' /\ Capped' /\ Genuine'
  BY <1>1, <1>3, <1>4 DEF Bounds, Numbered, Limited, Capped, Genuine, adapter, reading
<1> QED BY <1>5 DEF Bounds

LEMMA InitBounds == Init => Bounds
<1> SUFFICES ASSUME Init PROVE Bounds
  OBVIOUS
<1>1. Numbered /\ Capped
  <2>1. \A r \in Readers : /\ pc[r] = "none" /\ answers[r] = <<>> /\ channel[r] = <<>>
                            /\ wire[r] = <<>> /\ r > 0
    BY ReaderNumbers DEF Init, Each
  <2>2. Numbered
    <3>1. readers = 0 /\ ws_events \in 0 .. readers /\ ws_events = 0
      BY DEF Init
    <3>2. connected \in BOOLEAN /\ (connected <=> ws_events # 0)
      BY <3>1 DEF Init
    <3>3. \A r \in Readers : pc[r] = "none" <=> r > readers
      BY <2>1, <3>1
    <3> QED BY <3>1, <3>2, <3>3 DEF Numbered
  <2>3. Capped
    BY <2>1, Capacities DEF Capped
  <2> QED BY <2>2, <2>3
<1>2. Limited
  BY Capacities DEF Init, Limited, Each, PerReader, Dialling
<1>3. Genuine
  BY EmptySet DEF Init, Genuine, Each, PerReader
<1> QED BY <1>1, <1>2, <1>3 DEF Bounds

LEMMA NextBounds == WsInv /\ Bounds /\ [Next]_vars => Bounds'
<1> SUFFICES ASSUME WsInv, Bounds, [Next]_vars PROVE Bounds'
  OBVIOUS
<1>1. CASE UNCHANGED vars
  BY <1>1 DEF vars, adapter, connection, reading, server, Bounds, Numbered, Limited, Capped, Genuine
<1>2. CASE Connect \/ Disconnect \/ Receive
  BY <1>2, ConnectBounds, AdapterBounds
<1>3. ASSUME NEW r \in Readers,
             \/ ReadEnds(r) \/ ReadFrame(r) \/ Answer(r) \/ Hand(r) \/ Stop(r)
             \/ Backoff(r) \/ Register(r) \/ Dial(r) \/ Write(r) \/ Break(r)
             \/ SeesClosed(r)
             \/ \E e \in Events : Send(r, e)
      PROVE  Bounds'
  BY <1>3, EndBounds, StopBounds, ReadBounds, AnswerBounds, HandBounds, DiallingBounds,
     WriteBounds, NetworkBounds DEF SeesClosed
<1> QED BY <1>1, <1>2, <1>3 DEF Next

\* No channel holds more than its capacity, no reader makes more attempts than the
\* limit between two connections, and only events the server had to send are
\* acknowledged or received (EVENT_CHANNEL_CAPACITY, WRITE_CHANNEL_CAPACITY,
\* ReconnectState).
THEOREM LimitsAreKept == Spec => []TypeOK
<1> QED BY InitInv, NextInv, InitBounds, NextBounds, BoundsTypes, PTL DEF Spec

=============================================================================
