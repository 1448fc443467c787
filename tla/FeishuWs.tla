------------------------------ MODULE FeishuWs ------------------------------
(***************************************************************************)
(* platform/feishu/ws.rs with connect, disconnect and receive of           *)
(* feishu/adapter.rs: a reader task per connect() reads events from a      *)
(* WebSocket, acknowledges them and puts them on a channel; it reconnects  *)
(* by itself and ends when the channel's receiver is dropped.              *)
(*                                                                         *)
(* The server is external: it sends an event, in parts, until it has been  *)
(* acknowledged, and may send a part again.  Control frames and heartbeats *)
(* are left out.                                                           *)
(***************************************************************************)
EXTENDS Integers, Sequences, FiniteSets, SequencesExt

CONSTANTS
  Parts,        \* parts of each event the server has to send
  MaxReaders,   \* bound: successful calls of connect()
  Limit,        \* reconnect max_attempts (30)
  EventCap,     \* EVENT_CHANNEL_CAPACITY (1024)
  WriteCap,     \* WRITE_CHANNEL_CAPACITY (128)
  WireCap,      \* bound: frames on the way
  MaxFaults     \* bound: broken links, repeated parts, operations that fail

Events == DOMAIN Parts
Readers == 1 .. MaxReaders

ASSUME WsAssumption ==
  /\ Parts \in Seq(1 .. 2)
  /\ {MaxReaders, MaxFaults} \subseteq Nat
  /\ {Limit, EventCap, WriteCap, WireCap} \subseteq Nat \ {0}

VARIABLES
  ws_events,    \* whose receiver the adapter holds; 0: None
  connected,    \* of the adapter
  readers,      \* reader tasks started so far
  pc,           \* where each reader is
  link,         \* its connection delivers frames
  writer,       \* its writer task runs
  attempts,     \* consecutive_attempts
  failed,       \* attempts that failed since its last connection (history)
  fragments,    \* FragmentBuffer: parts of each event
  current,      \* the event it answers and hands on, and the code
  answers,      \* the write channel
  channel,      \* the event channel
  wire,         \* frames on the way to it
  position,     \* how much of each event the server has sent on it
  acked,        \* events the server has been told are taken
  received,     \* events receive() has taken
  dropped,      \* events that went with a dropped receiver (history)
  faults

adapter == <<ws_events, connected, received, dropped>>
connection == <<link, writer, attempts, failed>>
reading == <<fragments, current>>
server == <<wire, position>>
vars == <<adapter, readers, pc, connection, reading, answers, channel, server, acked, faults>>

Nothing == [event |-> 0, code |-> 0]
Each(x) == [r \in Readers |-> x]
NoParts == [e \in Events |-> <<>>]
NonePosted == [e \in Events |-> 0]

Init ==
  /\ ws_events = 0 /\ connected = FALSE /\ readers = 0
  /\ pc = Each("none") /\ link = Each(FALSE) /\ writer = Each(FALSE)
  /\ attempts = Each(0) /\ failed = Each(0)
  /\ fragments = Each(NoParts) /\ current = Each(Nothing)
  /\ answers = Each(<<>>) /\ channel = Each(<<>>)
  /\ wire = Each(<<>>) /\ position = Each(NonePosted)
  /\ acked = {} /\ received = {} /\ dropped = {} /\ faults = 0

Fault == faults < MaxFaults /\ faults' = faults + 1

\* tx.is_closed(), and what makes tx.closed() ready.
Closed(r) == ws_events # r
Open(r) == r <= readers /\ ~Closed(r)

\* The receiver the adapter holds is dropped, with what its channel holds.
Drop ==
  dropped' = dropped \cup (IF ws_events = 0 THEN {}
                           ELSE ToSet(channel[ws_events]) \cup {current[ws_events].event})

-----------------------------------------------------------------------------
(* The adapter. *)

\* connect(): no token and nothing happens, no WebSocket and the channel there
\* was is gone too; otherwise a new reader.
Connect ==
  /\ \/ Fault /\ UNCHANGED <<adapter, readers, pc, connection>>
     \/ /\ Fault /\ ws_events' = 0 /\ connected' = FALSE /\ Drop
        /\ UNCHANGED <<received, readers, pc, connection>>
     \/ /\ readers < MaxReaders /\ readers' = readers + 1 /\ UNCHANGED faults
        /\ ws_events' = readers' /\ connected' = TRUE /\ Drop
        /\ pc' = [pc EXCEPT ![readers'] = "read"]
        /\ link' = [link EXCEPT ![readers'] = TRUE]
        /\ writer' = [writer EXCEPT ![readers'] = TRUE]
        /\ UNCHANGED <<received, attempts, failed>>
  /\ UNCHANGED <<reading, answers, channel, server, acked>>

Disconnect ==
  /\ Fault
  /\ ws_events' = 0 /\ connected' = FALSE /\ Drop
  /\ UNCHANGED <<received, readers, pc, connection, reading, answers, channel, server, acked>>

\* receive(): an event, or the end of the channel.
Receive ==
  /\ ws_events # 0
  /\ \/ /\ channel[ws_events] # <<>>
        /\ received' = received \cup {channel[ws_events][1]}
        /\ channel' = [channel EXCEPT ![ws_events] = Tail(@)]
        /\ UNCHANGED <<ws_events, connected>>
     \/ /\ channel[ws_events] = <<>> /\ pc[ws_events] = "ended"
        /\ ws_events' = 0 /\ connected' = FALSE
        /\ UNCHANGED <<received, channel>>
  /\ UNCHANGED <<dropped, readers, pc, connection, reading, answers, server, acked, faults>>

-----------------------------------------------------------------------------
(* The reader. *)

(***************************************************************************)
(* Each wait of the reader is a biased select of its own: tx.closed(), or  *)
(* what it waits for.                                                      *)
(***************************************************************************)
At(r, p) == Open(r) /\ pc[r] = p /\ UNCHANGED <<adapter, readers, faults>>
ClosedAt(r, p) ==
  /\ r <= readers /\ Closed(r) /\ pc[r] = p
  /\ UNCHANGED <<adapter, readers, writer, attempts, failed, answers, channel, acked, faults>>
Goto(r, p) == pc' = [pc EXCEPT ![r] = p]

\* ws_read_loop returns: its half of the connection and what it holds are dropped.
Return(r) ==
  /\ Goto(r, "returned")
  /\ link' = [link EXCEPT ![r] = FALSE] /\ wire' = [wire EXCEPT ![r] = <<>>]
  /\ position' = [position EXCEPT ![r] = NonePosted]
  /\ fragments' = [fragments EXCEPT ![r] = NoParts]
  /\ current' = [current EXCEPT ![r] = Nothing]

ReadClosed(r) == ClosedAt(r, "read") /\ Return(r)

\* mutant of AnswerClosed: send_response_frame is awaited outside a select.
AnswerForRoom(r) ==
  /\ writer[r] => Len(answers[r]) < WriteCap
  /\ ClosedAt(r, "answer") /\ Return(r)
AnswerClosed(r) == ClosedAt(r, "answer") /\ Return(r)

\* A send on a closed channel fails.
HandClosed(r) == ClosedAt(r, "hand") /\ Return(r)

Leave(r) == Goto(r, "ended") /\ UNCHANGED <<link, reading, server>>
BackoffClosed(r) == ClosedAt(r, "backoff") /\ Leave(r)
RegisterClosed(r) == ClosedAt(r, "register") /\ Leave(r)
DialClosed(r) == ClosedAt(r, "dial") /\ Leave(r)

\* mutant of ReadEnds: a link that breaks ends the reading wherever it is.
ReadEndsAlways(r) ==
  /\ Open(r) /\ pc[r] \in {"read", "answer", "hand"} /\ ~link[r]
  /\ Return(r)
  /\ UNCHANGED <<adapter, readers, faults, writer, attempts, failed, answers, channel, acked>>

\* The read returns an error, a close frame or the end.
ReadEnds(r) ==
  /\ At(r, "read") /\ ~link[r]
  /\ Return(r)
  /\ UNCHANGED <<writer, attempts, failed, answers, channel, acked>>

\* tx.is_closed() and begin_attempt: the next attempt, or the end of the reader.
NextAttempt(r) ==
  IF Closed(r) \/ attempts[r] >= Limit THEN Goto(r, "ended") /\ UNCHANGED attempts
  ELSE Goto(r, "backoff") /\ attempts' = [attempts EXCEPT ![r] = @ + 1]

\* The writer is aborted; the reader returns or connects again.
Stop(r) ==
  /\ r <= readers /\ pc[r] = "returned"
  /\ writer' = [writer EXCEPT ![r] = FALSE] /\ answers' = [answers EXCEPT ![r] = <<>>]
  /\ NextAttempt(r)
  /\ UNCHANGED <<adapter, readers, link, failed, reading, server, channel, acked, faults>>

\* FragmentBuffer::add: the parts that go on waiting.
Waiting(e, got) == IF Len(got) = Parts[e] THEN <<>> ELSE got

\* A data frame.  An event of several parts is answered when as many parts
\* have come as it has; with one of them twice it does not parse.
ReadFrame(r) ==
  /\ At(r, "read") /\ wire[r] # <<>>
  /\ wire' = [wire EXCEPT ![r] = Tail(@)]
  /\ LET e   == wire[r][1].event
         got == Append(fragments[r][e], wire[r][1].part)
     IN  /\ fragments' = [fragments EXCEPT ![r][e] = Waiting(e, got)]
         /\ IF Len(got) # Parts[e] THEN UNCHANGED <<pc, current>>
            ELSE
              /\ current' = [current EXCEPT ![r] =
                   [event |-> e, code |-> IF ToSet(got) = 1 .. Parts[e] THEN 200 ELSE 500]]
              /\ Goto(r, "answer")
  /\ UNCHANGED <<connection, answers, channel, position, acked>>

\* mutant of Answer: what does not parse is answered like the rest.
AnswerTaken(r) ==
  /\ At(r, "answer") /\ (writer[r] => Len(answers[r]) < WriteCap)
  /\ answers' = [answers EXCEPT ![r] =
       IF writer[r] THEN Append(@, [current[r] EXCEPT !.code = 200]) ELSE @]
  /\ IF current[r].code = 200 THEN Goto(r, "hand") /\ UNCHANGED current
     ELSE Goto(r, "read") /\ current' = [current EXCEPT ![r] = Nothing]
  /\ UNCHANGED <<connection, fragments, channel, server, acked>>

\* send_response_frame: waits for room, unless the writer is gone; the event
\* is only handed on afterwards.
Answer(r) ==
  /\ At(r, "answer") /\ (writer[r] => Len(answers[r]) < WriteCap)
  /\ answers' = [answers EXCEPT ![r] = IF writer[r] THEN Append(@, current[r]) ELSE @]
  /\ IF current[r].code = 200 THEN Goto(r, "hand") /\ UNCHANGED current
     ELSE Goto(r, "read") /\ current' = [current EXCEPT ![r] = Nothing]
  /\ UNCHANGED <<connection, fragments, channel, server, acked>>

Hand(r) ==
  /\ At(r, "hand") /\ Len(channel[r]) < EventCap
  /\ channel' = [channel EXCEPT ![r] = Append(@, current[r].event)]
  /\ current' = [current EXCEPT ![r] = Nothing]
  /\ Goto(r, "read")
  /\ UNCHANGED <<connection, fragments, answers, server, acked>>

\* wait_for_reconnect.
Backoff(r) ==
  /\ At(r, "backoff") /\ Goto(r, "register")
  /\ UNCHANGED <<connection, reading, answers, channel, server, acked>>

Fails(r) ==
  /\ NextAttempt(r) /\ failed' = [failed EXCEPT ![r] = @ + 1]
  /\ UNCHANGED <<link, writer>>

\* register_pin.
Register(r) ==
  /\ At(r, "register")
  /\ Fails(r) \/ (Goto(r, "dial") /\ UNCHANGED connection)
  /\ UNCHANGED <<reading, answers, channel, server, acked>>

\* ReconnectState::connected.
Established(r) ==
  attempts' = [attempts EXCEPT ![r] = 0] /\ failed' = [failed EXCEPT ![r] = 0]

\* connect_async.
Dial(r) ==
  /\ At(r, "dial")
  /\ \/ Fails(r)
     \/ /\ Goto(r, "read") /\ Established(r)
        /\ link' = [link EXCEPT ![r] = TRUE] /\ writer' = [writer EXCEPT ![r] = TRUE]
  /\ UNCHANGED <<reading, answers, channel, server, acked>>

\* The writer task: an answer reaches the server, or the sink fails.
Write(r) ==
  /\ writer[r] /\ answers[r] # <<>>
  /\ \/ /\ answers' = [answers EXCEPT ![r] = Tail(@)]
        /\ acked' = IF answers[r][1].code = 200 THEN acked \cup {answers[r][1].event} ELSE acked
        /\ UNCHANGED <<writer, faults>>
     \/ /\ Fault /\ writer' = [writer EXCEPT ![r] = FALSE]
        /\ answers' = [answers EXCEPT ![r] = <<>>] /\ UNCHANGED acked
  /\ UNCHANGED <<adapter, readers, pc, link, attempts, failed, reading, channel, server>>

-----------------------------------------------------------------------------
(* Server and network. *)

Send(r, e) ==
  /\ r <= readers /\ link[r] /\ Len(wire[r]) < WireCap /\ e \notin acked
  /\ \/ /\ position[r][e] < Parts[e]
        /\ wire' = [wire EXCEPT ![r] = Append(@, [event |-> e, part |-> position[r][e] + 1])]
        /\ position' = [position EXCEPT ![r][e] = @ + 1] /\ UNCHANGED faults
     \/ /\ position[r][e] = Parts[e]
        /\ wire' = [wire EXCEPT ![r] = Append(@, [event |-> e, part |-> 1])]
        /\ position' = [position EXCEPT ![r][e] = 1] /\ UNCHANGED faults
     \/ /\ Fault /\ Parts[e] > 1 /\ position[r][e] > 0 /\ UNCHANGED position
        /\ wire' = [wire EXCEPT ![r] = Append(@, [event |-> e, part |-> position[r][e]])]
  /\ UNCHANGED <<adapter, readers, pc, connection, reading, answers, channel, acked>>

Break(r) ==
  /\ Fault /\ link[r] /\ link' = [link EXCEPT ![r] = FALSE]
  /\ wire' = [wire EXCEPT ![r] = <<>>]
  /\ UNCHANGED <<adapter, readers, pc, writer, attempts, failed, reading, answers, channel,
                 position, acked>>

\* The closed arm of whichever select the reader waits in.
SeesClosed(r) ==
  \/ ReadClosed(r) \/ AnswerClosed(r) \/ HandClosed(r)
  \/ BackoffClosed(r) \/ RegisterClosed(r) \/ DialClosed(r)

Next ==
  \/ Connect \/ Disconnect \/ Receive
  \/ \E r \in Readers :
       \/ ReadEnds(r) \/ ReadFrame(r) \/ Answer(r) \/ Hand(r) \/ Stop(r)
       \/ Backoff(r) \/ Register(r) \/ Dial(r) \/ Write(r) \/ Break(r)
       \/ SeesClosed(r)
       \/ \E e \in Events : Send(r, e)

Spec == Init /\ [][Next]_vars

\* The tasks run and the adapter is polled: each arm of a select that is ready
\* is taken.  Nothing is assumed of register_pin and connect_async, which have no
\* timeout here, nor of a broken link: the read may wait on it, and so may the
\* writer, for ever.
FairSpec ==
  /\ Spec /\ WF_vars(Receive)
  /\ \A r \in Readers :
       /\ WF_vars(SeesClosed(r))
       /\ WF_vars(ReadFrame(r) \/ Answer(r) \/ Hand(r) \/ Stop(r))
       /\ WF_vars(link[r] /\ Write(r))
       /\ \A e \in Events : SF_vars(Send(r, e))

-----------------------------------------------------------------------------
\* Types, capacities and limits: a reader holds an event exactly while it answers
\* it and hands it on, and makes at most Limit attempts.
TypeOK ==
  /\ ws_events \in 0 .. readers /\ readers \in 0 .. MaxReaders
  /\ connected \in BOOLEAN /\ (connected <=> ws_events # 0)
  /\ \A r \in Readers :
       /\ pc[r] \in {"none", "read", "answer", "hand", "returned", "backoff", "register",
                    "dial", "ended"}
       /\ pc[r] = "none" <=> r > readers
       /\ attempts[r] \in 0 .. Limit /\ failed[r] \in 0 .. Limit
       /\ Len(answers[r]) <= WriteCap /\ Len(channel[r]) <= EventCap /\ Len(wire[r]) <= WireCap
       /\ pc[r] \in {"answer", "hand"} <=> current[r] # Nothing
  /\ acked \cup received \subseteq Events

\* An event the server was told is taken has been received, or is on its way
\* to the adapter, or went with a receiver that was dropped: a broken link or
\* a reader that ends loses none.
AckedIsKept ==
  \A e \in acked :
    \/ e \in received \cup dropped
    \/ ws_events # 0 /\ e \in ToSet(channel[ws_events]) \cup {current[ws_events].event}

\* Dropping the receiver ends the reader, with its writer and its connection:
\* from each of its waits, although a registration or a connection may never be
\* answered, and the write channel be full with a writer that waits on a broken
\* link (the selects of reader_loop, ws_read_loop and
\* send_response_unless_receiver_closed).
DroppedReaderEnds ==
  \A r \in Readers : (r <= readers /\ Closed(r)) ~> (pc[r] = "ended" /\ ~writer[r] /\ ~link[r])

\* As long as one connection lasts, every event reaches the adapter, parts
\* that come twice and answers that are lost included.
EventuallyReceived ==
  \A r \in Readers :
    <>[](ws_events = r /\ link[r] /\ writer[r]) => <>(Events \subseteq received \cup dropped)
=============================================================================
