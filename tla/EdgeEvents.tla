----------------------------- MODULE EdgeEvents -----------------------------
(***************************************************************************)
(* The event path of a managed sidecar (managed_server.rs): adapters put   *)
(* frames into a bounded channel; one owner task numbers them, keeps them  *)
(* in a bounded replay buffer and broadcasts them; every GET /events       *)
(* request is a stream that first replays and then follows the broadcast;  *)
(* POST /events/ack releases the buffer.                                   *)
(*                                                                         *)
(* Definitions marked `mutant` are wrong on purpose: each replaces the      *)
(* definition that follows it to show which property would notice.         *)
(*                                                                         *)
(* A frame is represented by the sequence number it gets.  The replay      *)
(* deque only ever receives increasing numbers, so it is kept as the set   *)
(* of the numbers it holds, its front being the least one.                 *)
(***************************************************************************)
EXTENDS Integers, Sequences, FiniteSets, FiniteSetsExt

CONSTANTS
  Streams,          \* identifiers of GET /events requests
  InputCapacity,    \* slots of the mpsc channel (EVENT_REPLAY_CAPACITY)
  ReplayCapacity,   \* EVENT_REPLAY_CAPACITY
  LiveCapacity,     \* slots of the broadcast channel (256)
  WireCapacity,     \* frames of one response body in flight on the socket
  AckHandlers,      \* bound: POST /events/ack requests handled at once
  MaxFrames         \* bound: frames the adapters ever emit

ASSUME CapacityAssumption ==
  /\ InputCapacity \in Nat \ {0}
  /\ ReplayCapacity \in Nat \ {0}
  /\ LiveCapacity \in Nat \ {0}
  /\ WireCapacity \in Nat \ {0}
  /\ AckHandlers \in Nat \ {0}
  /\ MaxFrames \in Nat

VARIABLES
  bootstrapped,     \* state.handler is Some
  emitted,          \* frames the adapters have put into event_input
  queued,           \* frames waiting in the channel
  owner,            \* control point of the event owner task
  nextSequence,     \* ReplayState.next_sequence
  ackedSequence,    \* ReplayState.acked_sequence
  events,           \* ReplayState.events
  notifying,        \* ack_events calls between drop(replay) and notify_one
  permit,           \* permit stored in the Notify replay_space
  broadcasted,      \* last sequence given to live_events.send
  stream,           \* the state of each event stream
  received          \* sequences the gateway has read from some stream

sidecarVars == <<bootstrapped, emitted, queued, owner, nextSequence,
                 ackedSequence, events, notifying, permit, broadcasted>>
vars == <<bootstrapped, emitted, queued, owner, nextSequence, ackedSequence,
          events, notifying, permit, broadcasted, stream, received>>

Numbers == 1 .. MaxFrames

(***************************************************************************)
(* recv: in rx.recv(); push: holds a frame, about to lock the replay;      *)
(* send: pushed, lock dropped, about to broadcast; full: found no room,    *)
(* lock dropped; parked: registered in replay_space.notified().            *)
(***************************************************************************)
OwnerStates == {"recv", "push", "send", "full", "parked"}

\* closed: no request; subscribed: holds a receiver, replay not read yet;
\* open: the response body is being polled; recovering: recv returned Lagged,
\* about to lock the replay.
StreamPhases == {"closed", "subscribed", "open", "recovering"}

Closed == [phase |-> "closed", after |-> 0, floor |-> 0, initial |-> {},
           rx |-> 1, last |-> 0, lagged |-> FALSE, yielded |-> {},
           wire |-> <<>>]

StreamState ==
  [phase : StreamPhases, after : 0 .. MaxFrames, floor : 0 .. MaxFrames,
   initial : SUBSET Numbers, rx : 1 .. MaxFrames + 1, last : 0 .. MaxFrames,
   lagged : BOOLEAN, yielded : SUBSET Numbers, wire : Seq(Numbers)]

\* The gateway's position: the highest sequence it has read.
Cursor == IF received = {} THEN 0 ELSE Max(received)

Init ==
  /\ bootstrapped = FALSE
  /\ emitted = 0
  /\ queued = 0
  /\ owner = "recv"
  /\ nextSequence = 1
  /\ ackedSequence = 0
  /\ events = {}
  /\ notifying = 0
  /\ permit = FALSE
  /\ broadcasted = 0
  /\ stream = [s \in Streams |-> Closed]
  /\ received = {}
-----------------------------------------------------------------------------
(***************************************************************************)
(* The sidecar.                                                            *)
(***************************************************************************)

\* The handshake installed a handler.
Bootstrap ==
  /\ ~bootstrapped
  /\ bootstrapped' = TRUE
  /\ UNCHANGED <<emitted, queued, owner, nextSequence, ackedSequence, events,
                 notifying, permit, broadcasted, stream, received>>

\* An adapter sends a frame into event_input (its factory may do so already
\* during the handshake).
Emit ==
  /\ emitted < MaxFrames
  /\ queued < InputCapacity
  /\ emitted' = emitted + 1
  /\ queued' = queued + 1
  /\ UNCHANGED <<bootstrapped, owner, nextSequence, ackedSequence, events,
                 notifying, permit, broadcasted, stream, received>>

OwnerRecv ==
  /\ owner = "recv"
  /\ queued > 0
  /\ queued' = queued - 1
  /\ owner' = "push"
  /\ UNCHANGED <<bootstrapped, emitted, nextSequence, ackedSequence, events,
                 notifying, permit, broadcasted, stream, received>>

\* Popping the front while it is acknowledged.
Unacked(evs, acked) == {q \in evs : q > acked}

HasRoom(kept) == Cardinality(kept) < ReplayCapacity

\* One critical section of the replay lock: prune, then push if there is room.
OwnerPush ==
  /\ owner = "push"
  /\ LET kept == Unacked(events, ackedSequence)
     IN IF HasRoom(kept)
        THEN /\ events' = kept \cup {nextSequence}
             /\ nextSequence' = nextSequence + 1
             /\ owner' = "send"
        ELSE /\ events' = kept
             /\ owner' = "full"
             /\ UNCHANGED nextSequence
  /\ UNCHANGED <<bootstrapped, emitted, queued, ackedSequence, notifying,
                 permit, broadcasted, stream, received>>

\* live.send: the receivers find the envelope in the ring by its number.
OwnerSend ==
  /\ owner = "send"
  /\ broadcasted' = nextSequence - 1
  /\ owner' = "recv"
  /\ UNCHANGED <<bootstrapped, emitted, queued, nextSequence, ackedSequence,
                 events, notifying, permit, stream, received>>

\* replay_space.notified(): a stored permit is consumed at once.
OwnerPark ==
  /\ owner = "full"
  /\ owner' = IF permit THEN "push" ELSE "parked"
  /\ permit' = FALSE
  /\ UNCHANGED <<bootstrapped, emitted, queued, nextSequence, ackedSequence,
                 events, notifying, broadcasted, stream, received>>

(***************************************************************************)
(* POST /events/ack.  The replay lock is dropped before notify_one(), which *)
(* wakes the parked owner or stores one permit.                            *)
(***************************************************************************)
InAckRange(n) == n < nextSequence

AckEvents(n) ==
  /\ notifying < AckHandlers
  /\ InAckRange(n)
  /\ ackedSequence' = IF n > ackedSequence THEN n ELSE ackedSequence
  /\ events' = Unacked(events, ackedSequence')
  /\ notifying' = notifying + 1
  /\ UNCHANGED <<bootstrapped, emitted, queued, owner, nextSequence, permit,
                 broadcasted, stream, received>>

\* mutant: notify_waiters() stores no permit
WakeWaiting ==
  /\ owner' = IF owner = "parked" THEN "push" ELSE owner
  /\ UNCHANGED permit
WakeOwner ==
  IF owner = "parked"
  THEN owner' = "push" /\ UNCHANGED permit
  ELSE permit' = TRUE /\ UNCHANGED owner

NotifyOne ==
  /\ notifying > 0
  /\ notifying' = notifying - 1
  /\ WakeOwner
  /\ UNCHANGED <<bootstrapped, emitted, queued, nextSequence, ackedSequence,
                 events, broadcasted, stream, received>>
-----------------------------------------------------------------------------
(***************************************************************************)
(* GET /events?after=N.  The receiver is subscribed before the replay lock *)
(* is taken; the body then yields the replayed events and, after them,     *)
(* what the receiver still has to deliver above `last`.                    *)
(***************************************************************************)
Subscribe(s, after) ==
  /\ bootstrapped
  /\ stream[s].phase = "closed"
  /\ stream' = [stream EXCEPT ![s] =
       [Closed EXCEPT !.phase = "subscribed", !.after = after,
                      !.rx = broadcasted + 1]]
  /\ UNCHANGED <<sidecarVars, received>>

RetainedBeyond(n) == {q \in events : q > n + 1}                  \* mutant
RetainedAbove(n) == {q \in events : q > n}

\* `last`, the number the live part of the stream starts above.
LastOrNext(after, initial) ==                                   \* mutant
  IF initial = {} THEN nextSequence ELSE Max(initial)
LastReplayed(after, initial) ==
  IF initial = {} THEN after ELSE Max(initial)

Replay(s) ==
  /\ stream[s].phase = "subscribed"
  /\ LET initial == RetainedAbove(stream[s].after)
     IN stream' = [stream EXCEPT
          ![s].phase = "open",
          ![s].initial = initial,
          ![s].floor = ackedSequence,
          ![s].last = LastReplayed(stream[s].after, initial)]
  /\ UNCHANGED <<sidecarVars, received>>

\* Hyper polls the body only while the connection has window for a frame.
Polled(s) == stream[s].phase = "open" /\ Len(stream[s].wire) < WireCapacity

\* initial_stream.chain(live_stream)
SelectedLive(s) == Polled(s)                                    \* mutant
ChainedLive(s) == Polled(s) /\ stream[s].initial = {}

AnyNumber(r, q) == TRUE                                         \* mutant
AboveLast(r, q) == q > r.last

Yield(r, q) ==
  [r EXCEPT !.yielded = @ \cup {q}, !.wire = Append(@, q)]

YieldInitial(s) ==
  /\ Polled(s)
  /\ stream[s].initial # {}
  /\ LET q == Min(stream[s].initial)
         r == Yield(stream[s], q)
     IN stream' = [stream EXCEPT ![s] = [r EXCEPT !.initial = @ \ {q}]]
  /\ UNCHANGED <<sidecarVars, received>>

\* The oldest envelope the broadcast ring still holds.
OldestLive ==
  IF broadcasted > LiveCapacity THEN broadcasted - LiveCapacity + 1 ELSE 1

\* rx.recv() returned Ok(event).
YieldLive(s) ==
  /\ ChainedLive(s)
  /\ stream[s].rx <= broadcasted
  /\ stream[s].rx >= OldestLive
  /\ LET q == stream[s].rx
     IN stream' = [stream EXCEPT ![s] =
          IF AboveLast(stream[s], q)
          THEN [Yield(@, q) EXCEPT !.rx = q + 1, !.last = q]
          ELSE [@ EXCEPT !.rx = q + 1]]
  /\ UNCHANGED <<sidecarVars, received>>

\* rx.recv() returned Lagged and moved the receiver to the oldest envelope.
Lag(s) ==
  /\ ChainedLive(s)
  /\ stream[s].rx < OldestLive
  /\ stream' = [stream EXCEPT ![s].phase = "recovering",
                              ![s].rx = OldestLive,
                              ![s].lagged = TRUE]
  /\ UNCHANGED <<sidecarVars, received>>

\* The first retained event above `last`, if any, is replayed.
Recover(s) ==
  /\ stream[s].phase = "recovering"
  /\ LET missed == RetainedAbove(stream[s].last)
         r      == [stream[s] EXCEPT !.phase = "open"]
     IN stream' = [stream EXCEPT ![s] =
          IF missed = {} THEN r
          ELSE [Yield(r, Min(missed)) EXCEPT !.last = Min(missed)]]
  /\ UNCHANGED <<sidecarVars, received>>

\* The gateway reads the next frame of a response body.
Receive(s) ==
  /\ stream[s].wire # <<>>
  /\ received' = received \cup {Head(stream[s].wire)}
  /\ stream' = [stream EXCEPT ![s].wire = Tail(@)]
  /\ UNCHANGED sidecarVars

\* The connection or the response body is dropped with frames in flight.
Disconnect(s) ==
  /\ stream[s].phase # "closed"
  /\ stream' = [stream EXCEPT ![s] = Closed]
  /\ UNCHANGED <<sidecarVars, received>>

\* The gateway reconnects from a position it has confirmed, and acknowledges
\* one; a number beyond what this process assigned is what a position kept
\* from an earlier sidecar process looks like.
GatewayPositions ==
  {p \in 0 .. MaxFrames : p = 0 \/ \E q \in received : p <= q}
AckNumbers == GatewayPositions \cup (nextSequence .. MaxFrames + 1)

Sidecar ==
  \/ Bootstrap \/ Emit
  \/ OwnerRecv \/ OwnerPush \/ OwnerSend \/ OwnerPark
  \/ NotifyOne

StreamStep(s) ==
  \/ Replay(s) \/ YieldInitial(s) \/ YieldLive(s)
  \/ Lag(s) \/ Recover(s)

Gateway(s) ==
  \/ \E after \in GatewayPositions : Subscribe(s, after)
  \/ Receive(s)
  \/ Disconnect(s)

Next ==
  \/ Sidecar
  \/ \E n \in AckNumbers : AckEvents(n)
  \/ \E s \in Streams : StreamStep(s) \/ Gateway(s)

Spec == Init /\ [][Next]_vars

(***************************************************************************)
(* The runtime schedules the owner task and polls every response body; the *)
(* gateway reads what arrives and, from time to time, acknowledges all it  *)
(* has read (strongly fair: its stale acks may occupy AckHandlers again and *)
(* again).  Adapters, connects and disconnects are not fair.               *)
(***************************************************************************)
AckCursor == Cursor > ackedSequence /\ AckEvents(Cursor)

Fairness ==
  /\ WF_vars(OwnerRecv) /\ WF_vars(OwnerPush)
  /\ WF_vars(OwnerSend) /\ WF_vars(OwnerPark)
  /\ WF_vars(NotifyOne) /\ SF_vars(AckCursor)
  /\ \A s \in Streams : WF_vars(StreamStep(s)) /\ WF_vars(Receive(s))

FairSpec == Spec /\ Fairness
-----------------------------------------------------------------------------
(***************************************************************************)
(* Properties.                                                             *)
(***************************************************************************)

\* Every variable keeps its type (ReplayState, Notify, event_stream).
TypeOK ==
  /\ bootstrapped \in BOOLEAN
  /\ emitted \in 0 .. MaxFrames
  /\ queued \in 0 .. InputCapacity
  /\ owner \in OwnerStates
  /\ nextSequence \in 1 .. MaxFrames + 1
  /\ ackedSequence \in 0 .. MaxFrames
  /\ events \subseteq Numbers
  /\ notifying \in 0 .. AckHandlers
  /\ permit \in BOOLEAN
  /\ broadcasted \in 0 .. MaxFrames
  /\ stream \in [Streams -> StreamState]
  /\ received \subseteq Numbers

\* The replay buffer holds exactly the events not yet acknowledged, never
\* more than its capacity: backpressure stops the owner instead of dropping
\* an event the gateway has not acknowledged (spawn_event_owner, ack_events).
ReplayComplete ==
  /\ events = (ackedSequence + 1) .. (nextSequence - 1)
  /\ Cardinality(events) <= ReplayCapacity

\* A stream whose broadcast receiver never lagged has yielded, above what was
\* acknowledged when it replayed, every event up to the last one it took from
\* the receiver: subscribing before reading the replay leaves no hole between
\* the two (event_stream).
GapFreeUnlessLagged ==
  \A s \in Streams :
    LET r == stream[s]
    IN r.phase = "open" /\ ~r.lagged =>
         \A q \in (r.after + 1) .. r.last :
           q > r.floor => q \in r.yielded \cup r.initial

\* What a stream yields is above everything it yielded before, whatever the
\* broadcast receiver still held when the replay was read and whatever a lag
\* made it replay (the filter on event.sequence > last).
YieldsIncrease ==
  [][\A s \in Streams :
       LET wire == stream'[s].wire
       IN Len(wire) > Len(stream[s].wire) =>
            \A q \in stream[s].yielded : q < wire[Len(wire)]]_stream

\* The owner never waits in replay_space.notified() while the buffer has room,
\* unless the ack that made the room is about to notify: the stored permit
\* closes the window between the owner's drop(state) and its waiting.
NoLostWakeup ==
  owner = "parked" => Cardinality(events) = ReplayCapacity \/ notifying > 0

\* As long as no lag leaves more behind than the one event Recover replays, which
\* a ring much shorter than the buffer (256 against 4096) does not ensure, the
\* whole path is a bounded log: events are numbered while there is room, read in
\* order and released only as far as they were read.
Log == INSTANCE EventLog WITH
  Capacity <- ReplayCapacity, appended <- nextSequence - 1,
  delivered <- Cursor, released <- ackedSequence
ImplementsLog == Log!Spec

\* Whatever the capacities, and however far streams lag, an event is passed over
\* only once a whole broadcast ring of later ones has been numbered; the rest of
\* the promise stands (event_stream, RecvError::Lagged).
Lagging == INSTANCE LaggingLog WITH
  Capacity <- ReplayCapacity, Ring <- LiveCapacity, appended <- nextSequence - 1,
  delivered <- Cursor, released <- ackedSequence
ImplementsLaggingLog == Lagging!LaggingSpec

\* A gateway that keeps some stream open.
StableStream == \E s \in Streams : <>[](stream[s].phase = "open")

\* Passed over for good: a whole broadcast ring of later events has been numbered,
\* and one of them has been read.
PassedOver(n) == n < Cursor /\ n + LiveCapacity < nextSequence

\* Every emitted frame is numbered, a full replay buffer being only a pause, and
\* is eventually read by a gateway that keeps a stream open and acknowledges, or
\* passed over by a stream that a whole ring has left behind (spawn_event_owner,
\* event_stream).
EventuallyReceived ==
  StableStream => \A n \in Numbers : (emitted >= n) ~> (n \in received \/ PassedOver(n))
=============================================================================
