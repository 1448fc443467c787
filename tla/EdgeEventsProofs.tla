-------------------------- MODULE EdgeEventsProofs --------------------------
(***************************************************************************)
(* What the managed server carries: the event path keeps its promises for  *)
(* every capacity, every number of streams and every number of frames; the *)
(* incremental reads pass no row and give back every permit, for any rows, *)
(* requests, pages and chunks.                                             *)
(***************************************************************************)
EXTENDS EdgeEvents, SourceIncremental, FiniteSetTheorems, SequenceTheorems, TLAPS

-----------------------------------------------------------------------------
(***************************************************************************)
(* The inductive invariant.                                                *)
(***************************************************************************)

\* The frame the owner has taken from the channel and not numbered yet.
Held == IF owner \in {"push", "full", "parked"} THEN 1 ELSE 0

\* Every emitted frame is queued, held or numbered.
Counting == emitted = queued + Held + (nextSequence - 1)

\* The owner broadcasts what it has pushed before it takes another frame.
InStep ==
  broadcasted = IF owner = "send" THEN nextSequence - 2 ELSE nextSequence - 1

\* ReplayComplete without Cardinality.
LogInterval ==
  /\ ackedSequence < nextSequence
  /\ nextSequence - 1 - ackedSequence <= ReplayCapacity
  /\ events = (ackedSequence + 1) .. (nextSequence - 1)

\* What a stream's receiver will still deliver joins on to what the stream
\* has replayed, unless the receiver lagged.
StreamOK(r) ==
  /\ r.rx <= broadcasted + 1
  /\ r.phase # "open" => r.initial = {}
  /\ r.phase = "recovering" => r.lagged
  /\ r.initial # {} => \E a \in Numbers : a <= r.last /\ r.initial = a .. r.last
  /\ r.phase = "open" /\ ~r.lagged =>
       /\ r.rx <= r.last + 1 \/ r.rx <= r.floor + 1
       /\ \A q \in (r.after + 1) .. r.last :
            q > r.floor => q \in r.yielded \cup r.initial

\* A waiting owner has a reason to wait or somebody about to wake it.
Woken ==
  owner \in {"full", "parked"} =>
    \/ nextSequence - 1 - ackedSequence = ReplayCapacity
    \/ notifying > 0
    \/ owner = "full" /\ permit

Inv ==
  /\ TypeOK
  /\ Counting
  /\ InStep
  /\ LogInterval
  /\ Woken
  /\ \A s \in Streams : StreamOK(stream[s])
-----------------------------------------------------------------------------
\* An interval's Max and Min, as FiniteSetsExt defines them.
LEMMA MaxOfInterval ==
  ASSUME NEW a \in Int, NEW b \in Int, a <= b
  PROVE  Max(a .. b) = b
<1>1. b \in a .. b /\ \A y \in a .. b : b >= y
  OBVIOUS
<1>2. \A x \in a .. b : (\A y \in a .. b : x >= y) => x = b
  OBVIOUS
<1>. QED  BY <1>1, <1>2 DEF Max

LEMMA MinOfInterval ==
  ASSUME NEW a \in Int, NEW b \in Int, a <= b
  PROVE  Min(a .. b) = a
<1>1. a \in a .. b /\ \A y \in a .. b : a <= y
  OBVIOUS
<1>2. \A x \in a .. b : (\A y \in a .. b : x <= y) => x = a
  OBVIOUS
<1>. QED  BY <1>1, <1>2 DEF Min

\* The part of an interval above a number is an interval.
LEMMA IntervalAbove ==
  ASSUME NEW a \in Int, NEW b \in Int, NEW n \in Int, n >= a - 1
  PROVE  {q \in a .. b : q > n} = (n + 1) .. b
OBVIOUS

LEMMA IntervalBelow ==
  ASSUME NEW a \in Int, NEW b \in Int, NEW n \in Int, n <= a - 1
  PROVE  {q \in a .. b : q > n} = a .. b
OBVIOUS

\* LogInterval says what ReplayComplete says.
LEMMA ReplaySize ==
  ASSUME TypeOK, LogInterval
  PROVE  Cardinality(events) = nextSequence - 1 - ackedSequence
<1>. DEFINE a == ackedSequence + 1
            b == nextSequence - 1
<1>1. a \in Int /\ b \in Int /\ b - a + 1 = nextSequence - 1 - ackedSequence
  BY DEF TypeOK
<1>2. b - a + 1 >= 0
  BY DEF TypeOK, LogInterval
<1>. HIDE DEF a, b
<1>3. Cardinality(a .. b) = IF a > b THEN 0 ELSE b - a + 1
  BY <1>1, FS_Interval
<1>4. Cardinality(a .. b) = b - a + 1
  BY <1>1, <1>2, <1>3
<1>. QED  BY <1>1, <1>4 DEF LogInterval, a, b
-----------------------------------------------------------------------------
LEMMA InitInv == Init => Inv
<1>. SUFFICES ASSUME Init PROVE Inv
  OBVIOUS
<1>. USE CapacityAssumption DEF Init
<1>1. Closed \in StreamState
  BY DEF Closed, StreamState, StreamPhases
<1>2. TypeOK
  <2>1. stream \in [Streams -> StreamState]
    BY <1>1
  <2>2. bootstrapped \in BOOLEAN /\ permit \in BOOLEAN /\ owner \in OwnerStates
    BY DEF OwnerStates
  <2>3. events \subseteq Numbers /\ received \subseteq Numbers
    OBVIOUS
  <2>4. QED  BY <2>1, <2>2, <2>3 DEF TypeOK
<1>3. \A s \in Streams : StreamOK(stream[s])
  BY DEF StreamOK, Closed
<1>. QED
  BY <1>2, <1>3 DEF Inv, Counting, Held, InStep, LogInterval, Woken
-----------------------------------------------------------------------------
(***************************************************************************)
(* The sidecar's own steps leave the streams alone.                        *)
(***************************************************************************)
LEMMA StreamsKept ==
  ASSUME Inv, stream' = stream, broadcasted' \in Int, broadcasted' >= broadcasted
  PROVE  \A s \in Streams : StreamOK(stream[s])'
<1>. SUFFICES ASSUME NEW s \in Streams PROVE StreamOK(stream[s])'
  OBVIOUS
<1>1. StreamOK(stream[s]) /\ stream[s] \in StreamState /\ broadcasted \in Int
  BY DEF Inv, TypeOK
<1>. QED  BY <1>1 DEF StreamOK, StreamState

LEMMA OwnerStep ==
  ASSUME Inv, Bootstrap \/ Emit \/ OwnerRecv \/ OwnerSend \/ OwnerPark
  PROVE  Inv'
<1>. USE CapacityAssumption DEF Inv
<1>1. TypeOK'
  <2>1. bootstrapped' \in BOOLEAN /\ permit' \in BOOLEAN
    BY Zenon DEF TypeOK, Bootstrap, Emit, OwnerRecv, OwnerSend, OwnerPark
  <2>2. emitted' \in 0 .. MaxFrames /\ queued' \in 0 .. InputCapacity
    BY DEF TypeOK, Bootstrap, Emit, OwnerRecv, OwnerSend, OwnerPark
  <2>3. owner' \in OwnerStates /\ broadcasted' \in 0 .. MaxFrames
    BY DEF TypeOK, OwnerStates, Counting, Held, InStep, Bootstrap, Emit,
           OwnerRecv, OwnerSend, OwnerPark
  <2>. QED
    BY <2>1, <2>2, <2>3 DEF TypeOK, Bootstrap, Emit, OwnerRecv, OwnerSend,
                            OwnerPark
<1>2. Counting'
  BY DEF TypeOK, OwnerStates, Counting, Held, Bootstrap, Emit, OwnerRecv, OwnerSend, OwnerPark
<1>3. InStep'
  BY DEF TypeOK, OwnerStates, InStep, Bootstrap, Emit, OwnerRecv, OwnerSend, OwnerPark
<1>4. LogInterval'
  BY DEF LogInterval, Bootstrap, Emit, OwnerRecv, OwnerSend, OwnerPark
<1>5. Woken'
  BY DEF TypeOK, OwnerStates, Woken, Bootstrap, Emit, OwnerRecv, OwnerSend,
         OwnerPark
<1>6. \A s \in Streams : StreamOK(stream[s])'
  BY StreamsKept DEF TypeOK, InStep, Bootstrap, Emit, OwnerRecv, OwnerSend,
                     OwnerPark
<1>. QED  BY <1>1, <1>2, <1>3, <1>4, <1>5, <1>6

\* Pruning the acknowledged front leaves an interval.
LEMMA Pruned ==
  ASSUME TypeOK, LogInterval
  PROVE  Unacked(events, ackedSequence) = events
BY DEF Unacked, TypeOK, LogInterval

LEMMA OwnerPushStep ==
  ASSUME Inv, OwnerPush
  PROVE  Inv'
<1>. USE CapacityAssumption DEF Inv
<1>1. Cardinality(events) = nextSequence - 1 - ackedSequence
  BY ReplaySize
<1>2. CASE Cardinality(events) < ReplayCapacity
  <2>1. /\ events' = events \cup {nextSequence}
        /\ nextSequence' = nextSequence + 1
        /\ owner = "push" /\ owner' = "send"
    BY <1>2, Pruned DEF OwnerPush, HasRoom
  <2>2. nextSequence \in Numbers
    BY <2>1 DEF TypeOK, Counting, Held, Numbers
  <2>3. TypeOK'
    BY <2>1, <2>2 DEF TypeOK, OwnerStates, OwnerPush, Numbers
  <2>4. events' = (ackedSequence + 1) .. nextSequence
    BY <2>1 DEF TypeOK, LogInterval
  <2>5. LogInterval'
    BY <1>1, <1>2, <2>1, <2>4 DEF TypeOK, LogInterval, OwnerPush
  <2>6. Counting' /\ InStep' /\ Woken'
    BY <2>1 DEF TypeOK, Counting, Held, InStep, Woken, OwnerPush
  <2>7. \A s \in Streams : StreamOK(stream[s])'
    BY StreamsKept DEF TypeOK, OwnerPush
  <2>. QED  BY <2>3, <2>5, <2>6, <2>7
<1>3. CASE ~(Cardinality(events) < ReplayCapacity)
  <2>1. /\ events' = events
        /\ nextSequence' = nextSequence
        /\ owner = "push" /\ owner' = "full"
    BY <1>3, Pruned DEF OwnerPush, HasRoom
  <2>2. TypeOK'
    BY <2>1 DEF TypeOK, OwnerStates, OwnerPush
  <2>3. Counting' /\ InStep' /\ LogInterval'
    BY <2>1 DEF TypeOK, Counting, Held, InStep, LogInterval, OwnerPush
  <2>4. Woken'
    BY <1>1, <1>3, <2>1 DEF TypeOK, LogInterval, Woken, OwnerPush
  <2>5. \A s \in Streams : StreamOK(stream[s])'
    BY StreamsKept DEF TypeOK, OwnerPush
  <2>. QED  BY <2>2, <2>3, <2>4, <2>5
<1>. QED  BY <1>2, <1>3

LEMMA AckStep ==
  ASSUME Inv, NEW n \in AckNumbers, AckEvents(n)
  PROVE  Inv'
<1>. USE CapacityAssumption DEF Inv
<1>1. n \in Nat /\ n < nextSequence
  BY DEF AckNumbers, GatewayPositions, AckEvents, InAckRange, TypeOK
<1>2. /\ ackedSequence' \in 0 .. MaxFrames
      /\ ackedSequence' >= ackedSequence
      /\ ackedSequence' < nextSequence
  BY <1>1 DEF AckEvents, TypeOK, LogInterval
<1>3. events' = (ackedSequence' + 1) .. (nextSequence - 1)
  BY <1>2 DEF AckEvents, Unacked, TypeOK, LogInterval
<1>4. events' \subseteq Numbers
  BY DEF AckEvents, Unacked, TypeOK
<1>5. TypeOK'
  BY <1>2, <1>4 DEF TypeOK, AckEvents
<1>6. Counting' /\ InStep' /\ LogInterval'
  BY <1>2, <1>3 DEF TypeOK, Counting, Held, InStep, LogInterval, AckEvents
<1>7. Woken'
  BY DEF TypeOK, Woken, AckEvents
<1>8. \A s \in Streams : StreamOK(stream[s])'
  BY StreamsKept DEF TypeOK, AckEvents
<1>. QED  BY <1>5, <1>6, <1>7, <1>8

LEMMA NotifyStep ==
  ASSUME Inv, NotifyOne
  PROVE  Inv'
<1>. USE CapacityAssumption DEF Inv
<1>1. TypeOK'
  <2>1. permit' \in BOOLEAN
    BY Zenon DEF TypeOK, NotifyOne, WakeOwner
  <2>2. owner' \in OwnerStates /\ notifying' \in 0 .. AckHandlers
    BY DEF TypeOK, OwnerStates, NotifyOne, WakeOwner
  <2>. QED  BY <2>1, <2>2 DEF TypeOK, NotifyOne
<1>2. Counting' /\ InStep' /\ LogInterval'
  BY DEF TypeOK, OwnerStates, Counting, Held, InStep, LogInterval, NotifyOne,
         WakeOwner
<1>3. Woken'
  BY DEF TypeOK, Woken, NotifyOne, WakeOwner
<1>4. \A s \in Streams : StreamOK(stream[s])'
  BY StreamsKept DEF TypeOK, NotifyOne
<1>. QED  BY <1>1, <1>2, <1>3, <1>4
-----------------------------------------------------------------------------
(***************************************************************************)
(* The steps of a stream leave the sidecar alone, so only the stream's own *)
(* record has to be looked at.                                             *)
(***************************************************************************)
LEMMA StreamUpdate ==
  ASSUME Inv, UNCHANGED sidecarVars, received' \subseteq Numbers,
         NEW s \in Streams, NEW r \in StreamState, StreamOK(r),
         stream' = [stream EXCEPT ![s] = r]
  PROVE  Inv'
<1>. USE DEF Inv, sidecarVars
<1>1. stream' \in [Streams -> StreamState]
  BY DEF TypeOK
<1>2. TypeOK'
  BY <1>1 DEF TypeOK
<1>3. Counting' /\ InStep' /\ LogInterval' /\ Woken'
  BY DEF Counting, Held, InStep, LogInterval, Woken
<1>4. ASSUME NEW t \in Streams PROVE StreamOK(stream[t])'
  <2>1. StreamOK(stream'[t])
    BY DEF TypeOK
  <2>. QED  BY <2>1 DEF StreamOK
<1>. QED  BY <1>2, <1>3, <1>4

LEMMA StreamTyped ==
  ASSUME Inv, NEW s \in Streams
  PROVE  /\ stream[s] \in StreamState
         /\ StreamOK(stream[s])
         /\ broadcasted \in 0 .. MaxFrames
         /\ MaxFrames \in Nat
BY CapacityAssumption DEF Inv, TypeOK

LEMMA SubscribeStep ==
  ASSUME Inv, NEW s \in Streams, NEW after \in GatewayPositions,
         Subscribe(s, after)
  PROVE  Inv'
<1>. DEFINE r == [Closed EXCEPT !.phase = "subscribed", !.after = after,
                                !.rx = broadcasted + 1]
<1>1. r \in StreamState
  <2>1. after \in 0 .. MaxFrames /\ broadcasted + 1 \in 1 .. MaxFrames + 1
    BY StreamTyped DEF GatewayPositions
  <2>2. Closed \in StreamState /\ "subscribed" \in StreamPhases
    BY StreamTyped DEF Closed, StreamState, StreamPhases
  <2>. QED  BY <2>1, <2>2 DEF StreamState
<1>2. StreamOK(r)
  BY StreamTyped DEF Closed, StreamOK
<1>3. stream' = [stream EXCEPT ![s] = r] /\ UNCHANGED sidecarVars
  BY DEF Subscribe
<1>. QED  BY <1>1, <1>2, <1>3, StreamUpdate DEF Subscribe, Inv, TypeOK

LEMMA ReplayStep ==
  ASSUME Inv, NEW s \in Streams, Replay(s)
  PROVE  Inv'
<1>. DEFINE a       == stream[s].after
            initial == {q \in events : q > a}
            last    == IF initial = {} THEN a ELSE Max(initial)
            r       == [stream[s] EXCEPT !.phase = "open", !.initial = initial,
                                         !.floor = ackedSequence, !.last = last]
<1>1. /\ a \in 0 .. MaxFrames /\ ackedSequence \in 0 .. MaxFrames
      /\ nextSequence \in 1 .. MaxFrames + 1 /\ MaxFrames \in Nat
      /\ ackedSequence < nextSequence
  BY StreamTyped DEF StreamState, Inv, TypeOK, LogInterval
<1>2. stream[s].rx <= nextSequence /\ stream[s].rx \in Nat
  BY StreamTyped, <1>1 DEF StreamState, Inv, InStep, StreamOK
<1>. HIDE DEF a
<1>3. PICK low \in Nat :
        /\ low = IF a > ackedSequence THEN a + 1 ELSE ackedSequence + 1
        /\ initial = low .. (nextSequence - 1)
  <2>1. events = (ackedSequence + 1) .. (nextSequence - 1)
    BY DEF Inv, LogInterval
  <2>2. CASE a > ackedSequence
    <3>1. a >= (ackedSequence + 1) - 1
      BY <1>1, <2>2
    <3>. QED  BY <1>1, <2>1, <2>2, <3>1, IntervalAbove
  <2>3. CASE ~(a > ackedSequence)
    BY <1>1, <2>1, <2>3, IntervalBelow
  <2>. QED  BY <2>2, <2>3
<1>4. initial \in SUBSET Numbers
  BY DEF Inv, TypeOK
<1>. HIDE DEF initial
<1>5. initial # {} => low <= nextSequence - 1 /\ last = nextSequence - 1
  BY <1>1, <1>3, MaxOfInterval
<1>6. last \in 0 .. MaxFrames
  BY <1>1, <1>5
<1>7. \A q \in (a + 1) .. last : q > ackedSequence => q \in initial
  <2>1. CASE initial = {}
    <3>1. last = a
      BY <2>1
    <3>. HIDE DEF last
    <3>. QED  BY <1>1, <3>1
  <2>2. CASE initial # {}
    <3>1. last = nextSequence - 1 /\ initial = low .. last
      BY <1>3, <1>5, <2>2
    <3>. HIDE DEF last
    <3>. QED  BY <1>1, <1>3, <3>1
  <2>. QED  BY <2>1, <2>2
<1>8. stream[s].rx <= last + 1 \/ stream[s].rx <= ackedSequence + 1
  <2>1. CASE initial = {}
    <3>1. low > nextSequence - 1
      BY <1>1, <1>3, <2>1
    <3>. QED  BY <1>1, <1>2, <1>3, <2>1, <3>1
  <2>2. CASE initial # {}
    BY <1>1, <1>2, <1>5, <2>2
  <2>. QED  BY <2>1, <2>2
<1>9. initial # {} => \E b \in Numbers : b <= last /\ initial = b .. last
  <2>1. SUFFICES ASSUME initial # {}
                 PROVE  low \in Numbers /\ low <= last /\ initial = low .. last
    OBVIOUS
  <2>2. last = nextSequence - 1 /\ low <= last
    BY <1>5, <2>1
  <2>. HIDE DEF last
  <2>. QED  BY <1>1, <1>3, <2>2 DEF Numbers
<1>. HIDE DEF last
<1>10. r \in StreamState
  BY <1>1, <1>4, <1>6, StreamTyped DEF StreamState, StreamPhases
<1>11. StreamOK(r)
  <2>1. /\ r.phase = "open" /\ r.initial = initial /\ r.floor = ackedSequence
        /\ r.last = last /\ r.after = a /\ r.rx = stream[s].rx
    BY StreamTyped DEF StreamState, a
  <2>2. r.rx <= broadcasted + 1
    BY <2>1, StreamTyped DEF StreamOK
  <2>. HIDE DEF r
  <2>. QED  BY <1>7, <1>8, <1>9, <2>1, <2>2 DEF StreamOK
<1>12. stream' = [stream EXCEPT ![s] = r] /\ UNCHANGED <<sidecarVars, received>>
  BY DEF Replay, RetainedAbove, LastReplayed, initial, last, a
<1>. HIDE DEF r
<1>. QED  BY <1>10, <1>11, <1>12, StreamUpdate DEF Inv, TypeOK

LEMMA YieldInitialStep ==
  ASSUME Inv, NEW s \in Streams, YieldInitial(s)
  PROVE  Inv'
<1>. DEFINE x == stream[s]
            q == Min(x.initial)
            r == [Yield(x, q) EXCEPT !.initial = @ \ {q}]
<1>0. stream' = [stream EXCEPT ![s] = r] /\ UNCHANGED <<sidecarVars, received>>
  BY DEF YieldInitial
<1>1. x \in StreamState /\ StreamOK(x) /\ x.phase = "open" /\ x.initial # {}
  BY StreamTyped DEF YieldInitial, Polled
<1>. HIDE DEF x
<1>2. x.last \in 0 .. MaxFrames /\ MaxFrames \in Nat
  BY <1>1, StreamTyped DEF StreamState
<1>3. PICK low \in Numbers : low <= x.last /\ x.initial = low .. x.last
  BY <1>1 DEF StreamOK
<1>4. low \in Int
  BY <1>2 DEF Numbers
<1>5. q = low
  BY <1>2, <1>3, <1>4, MinOfInterval
<1>. HIDE DEF q
<1>6. /\ r = [x EXCEPT !.initial = @ \ {q}, !.yielded = @ \cup {q},
                      !.wire = Append(@, q)]
      /\ q \in Numbers
  BY <1>1, <1>3, <1>5 DEF Yield, StreamState
<1>. HIDE DEF r
<1>7. r \in StreamState
  <2>1. /\ x.initial \ {q} \in SUBSET Numbers /\ x.yielded \cup {q} \in SUBSET Numbers
        /\ Append(x.wire, q) \in Seq(Numbers)
    BY <1>1, <1>6 DEF StreamState
  <2>. QED  BY <1>1, <1>6, <2>1 DEF StreamState
<1>8. /\ r.phase = x.phase /\ r.initial = x.initial \ {q} /\ r.last = x.last
      /\ r.floor = x.floor /\ r.after = x.after /\ r.rx = x.rx
      /\ r.lagged = x.lagged /\ r.yielded = x.yielded \cup {q}
  BY <1>1, <1>6 DEF StreamState
<1>9. r.initial # {} => \E a \in Numbers : a <= r.last /\ r.initial = a .. r.last
  <2>1. SUFFICES ASSUME r.initial # {}
                 PROVE  /\ low + 1 \in Numbers /\ low + 1 <= x.last
                        /\ r.initial = (low + 1) .. x.last
    BY <1>8
  <2>2. r.initial = (low + 1) .. x.last
    BY <1>2, <1>3, <1>4, <1>5, <1>8
  <2>. QED  BY <1>2, <1>3, <1>4, <2>1, <2>2 DEF Numbers
<1>10. StreamOK(r)
  BY <1>1, <1>8, <1>9 DEF StreamOK
<1>. QED  BY <1>7, <1>10, <1>0, StreamUpdate DEF Inv, TypeOK

LEMMA YieldLiveStep ==
  ASSUME Inv, NEW s \in Streams, YieldLive(s)
  PROVE  Inv'
<1>. DEFINE x == stream[s]
            q == x.rx
            r == IF q > x.last THEN [Yield(x, q) EXCEPT !.rx = q + 1, !.last = q]
                               ELSE [x EXCEPT !.rx = q + 1]
<1>1. /\ x \in StreamState /\ StreamOK(x)
      /\ x.phase = "open" /\ x.initial = {} /\ q <= broadcasted
  BY StreamTyped DEF YieldLive, ChainedLive, Polled
<1>2. stream' = [stream EXCEPT ![s] = r] /\ UNCHANGED <<sidecarVars, received>>
  BY DEF YieldLive, Yield, AboveLast
<1>. HIDE DEF x
<1>3. /\ x.last \in 0 .. MaxFrames /\ broadcasted \in 0 .. MaxFrames
      /\ MaxFrames \in Nat /\ q \in Numbers /\ q + 1 \in 1 .. MaxFrames + 1
      /\ x.floor \in Nat /\ x.after \in Nat
  BY <1>1, StreamTyped DEF StreamState, Numbers
<1>. HIDE DEF q
<1>4. CASE q > x.last
  <2>1. r = [x EXCEPT !.yielded = @ \cup {q}, !.wire = Append(@, q),
                      !.rx = q + 1, !.last = q]
    BY <1>1, <1>4 DEF Yield, StreamState
  <2>. HIDE DEF r
  <2>2. r \in StreamState
    <3>1. /\ x.yielded \cup {q} \in SUBSET Numbers /\ q \in 0 .. MaxFrames
          /\ Append(x.wire, q) \in Seq(Numbers)
      BY <1>1, <1>3 DEF StreamState, Numbers
    <3>. QED  BY <1>1, <1>3, <2>1, <3>1 DEF StreamState
  <2>3. /\ r.phase = x.phase /\ r.initial = {} /\ r.last = q /\ r.rx = q + 1
        /\ r.floor = x.floor /\ r.after = x.after /\ r.lagged = x.lagged
        /\ r.yielded = x.yielded \cup {q}
    BY <1>1, <2>1 DEF StreamState
  <2>4. ASSUME ~x.lagged, NEW n \in (x.after + 1) .. q, n > x.floor
        PROVE  n \in r.yielded
    <3>1. CASE n = q
      BY <2>3, <3>1
    <3>2. CASE n # q
      <4>0. q <= x.last + 1 \/ q <= x.floor + 1
        BY <1>1, <2>4 DEF StreamOK, q
      <4>1. n \in (x.after + 1) .. x.last
        BY <1>3, <2>4, <3>2, <4>0 DEF Numbers
      <4>2. n \in x.yielded
        BY <1>1, <2>4, <4>1 DEF StreamOK
      <4>. QED  BY <2>3, <4>2
    <3>. QED  BY <3>1, <3>2
  <2>5. r.rx <= broadcasted + 1 /\ r.rx <= r.last + 1
    BY <1>1, <1>3, <2>3 DEF Numbers
  <2>6. StreamOK(r)
    BY <1>1, <2>3, <2>4, <2>5 DEF StreamOK
  <2>. QED  BY <1>2, <2>2, <2>6, StreamUpdate DEF Inv, TypeOK
<1>5. CASE ~(q > x.last)
  <2>1. r = [x EXCEPT !.rx = q + 1]
    BY <1>5
  <2>. HIDE DEF r
  <2>2. r \in StreamState
    BY <1>1, <1>3, <2>1 DEF StreamState
  <2>3. /\ r.phase = x.phase /\ r.initial = x.initial /\ r.last = x.last
        /\ r.rx = q + 1 /\ r.floor = x.floor /\ r.after = x.after
        /\ r.lagged = x.lagged /\ r.yielded = x.yielded
    BY <1>1, <2>1 DEF StreamState
  <2>4. r.rx <= broadcasted + 1 /\ r.rx <= r.last + 1
    BY <1>1, <1>3, <1>5, <2>3 DEF Numbers
  <2>5. StreamOK(r)
    BY <1>1, <2>3, <2>4 DEF StreamOK
  <2>. QED  BY <1>2, <2>2, <2>5, StreamUpdate DEF Inv, TypeOK
<1>. QED  BY <1>4, <1>5

LEMMA LagStep ==
  ASSUME Inv, NEW s \in Streams, Lag(s)
  PROVE  Inv'
<1>. DEFINE x == stream[s]
            r == [x EXCEPT !.phase = "recovering", !.rx = OldestLive,
                           !.lagged = TRUE]
<1>1. stream' = [stream EXCEPT ![s] = r] /\ UNCHANGED <<sidecarVars, received>>
  BY DEF Lag
<1>2. x \in StreamState /\ StreamOK(x) /\ x.phase = "open" /\ x.initial = {}
  BY StreamTyped DEF Lag, ChainedLive, Polled
<1>. HIDE DEF x
<1>3. /\ OldestLive \in 1 .. MaxFrames + 1
      /\ OldestLive <= broadcasted + 1
  BY StreamTyped, CapacityAssumption DEF OldestLive
<1>4. r \in StreamState
  BY <1>2, <1>3 DEF StreamState, StreamPhases
<1>5. /\ r.phase = "recovering" /\ r.initial = {} /\ r.lagged = TRUE
      /\ r.rx = OldestLive
  BY <1>2 DEF StreamState
<1>. HIDE DEF r
<1>6. StreamOK(r)
  BY <1>3, <1>5 DEF StreamOK
<1>. QED  BY <1>1, <1>4, <1>6, StreamUpdate DEF Inv, TypeOK

LEMMA RecoverStep ==
  ASSUME Inv, NEW s \in Streams, Recover(s)
  PROVE  Inv'
<1>. DEFINE x      == stream[s]
            missed == {q \in events : q > x.last}
            y      == [x EXCEPT !.phase = "open"]
            m      == Min(missed)
            r      == IF missed = {} THEN y
                      ELSE [Yield(y, m) EXCEPT !.last = m]
<1>1. stream' = [stream EXCEPT ![s] = r] /\ UNCHANGED <<sidecarVars, received>>
  BY DEF Recover, RetainedAbove
<1>2. x \in StreamState /\ StreamOK(x) /\ x.phase = "recovering"
  BY StreamTyped DEF Recover
<1>. HIDE DEF x
<1>3. x.initial = {} /\ x.lagged /\ x.rx <= broadcasted + 1
  BY <1>2 DEF StreamOK
<1>4. y \in StreamState /\ y.phase = "open" /\ y.initial = {} /\ y.lagged
      /\ y.rx = x.rx
  BY <1>2, <1>3 DEF StreamState, StreamPhases
<1>. HIDE DEF y
<1>5. CASE missed = {}
  <2>1. r = y
    BY <1>5
  <2>2. StreamOK(y)
    BY <1>3, <1>4 DEF StreamOK
  <2>. HIDE DEF r
  <2>. QED  BY <1>1, <1>4, <2>1, <2>2, StreamUpdate DEF Inv, TypeOK
<1>6. CASE missed # {}
  <2>1. PICK low \in Numbers : low <= nextSequence - 1 /\ missed = low .. (nextSequence - 1)
    <3>0. x.last \in Nat
      BY <1>2, StreamTyped DEF StreamState
    <3>1. /\ x.last \in Nat /\ ackedSequence \in Nat /\ nextSequence \in Nat
          /\ events = (ackedSequence + 1) .. (nextSequence - 1)
          /\ nextSequence <= MaxFrames + 1 /\ MaxFrames \in Nat
      BY <3>0, StreamTyped DEF Inv, TypeOK, LogInterval
    <3>. DEFINE low == IF x.last > ackedSequence THEN x.last + 1 ELSE ackedSequence + 1
    <3>2. low \in Nat /\ low >= 1
      BY <3>1
    <3>3. missed = low .. (nextSequence - 1)
      BY <3>1
    <3>. HIDE DEF low, missed
    <3>4. low <= nextSequence - 1
      BY <1>6, <3>1, <3>2, <3>3
    <3>. QED  BY <3>1, <3>2, <3>3, <3>4 DEF Numbers
  <2>2. m \in Numbers
    <3>1. low \in Int /\ nextSequence - 1 \in Int
      BY DEF Inv, TypeOK, Numbers
    <3>. QED  BY <2>1, <3>1, MinOfInterval
  <2>. HIDE DEF m, missed
  <2>3. r = [y EXCEPT !.yielded = @ \cup {m}, !.wire = Append(@, m), !.last = m]
    BY <1>4, <1>6 DEF Yield, StreamState
  <2>. HIDE DEF r
  <2>4. r \in StreamState
    <3>1. /\ y.yielded \cup {m} \in SUBSET Numbers /\ m \in 0 .. MaxFrames
          /\ Append(y.wire, m) \in Seq(Numbers)
      BY <1>4, <2>2, StreamTyped DEF StreamState, Numbers
    <3>. QED  BY <1>4, <2>3, <3>1 DEF StreamState
  <2>5. r.phase = "open" /\ r.initial = {} /\ r.lagged /\ r.rx = x.rx
    BY <1>4, <2>3 DEF StreamState
  <2>6. StreamOK(r)
    BY <1>3, <2>5 DEF StreamOK
  <2>. QED  BY <1>1, <2>4, <2>6, StreamUpdate DEF Inv, TypeOK
<1>. QED  BY <1>5, <1>6

LEMMA ReceiveStep ==
  ASSUME Inv, NEW s \in Streams, Receive(s)
  PROVE  Inv'
<1>. DEFINE x == stream[s]
            r == [x EXCEPT !.wire = Tail(@)]
<1>1. stream' = [stream EXCEPT ![s] = r] /\ UNCHANGED sidecarVars
  BY DEF Receive
<1>2. x \in StreamState /\ StreamOK(x)
  BY StreamTyped
<1>3. x.wire \in Seq(Numbers) /\ x.wire # <<>> /\ received' = received \cup {Head(x.wire)}
  BY <1>2 DEF Receive, StreamState
<1>. HIDE DEF x
<1>4. Tail(x.wire) \in Seq(Numbers) /\ Head(x.wire) \in Numbers
  BY <1>3
<1>5. received' \subseteq Numbers
  BY <1>3, <1>4 DEF Inv, TypeOK
<1>6. r \in StreamState
  BY <1>2, <1>4 DEF StreamState
<1>7. /\ r.phase = x.phase /\ r.initial = x.initial /\ r.last = x.last
      /\ r.floor = x.floor /\ r.after = x.after /\ r.rx = x.rx
      /\ r.lagged = x.lagged /\ r.yielded = x.yielded
  BY <1>2 DEF StreamState
<1>. HIDE DEF r
<1>8. StreamOK(r)
  BY <1>2, <1>7 DEF StreamOK
<1>. QED  BY <1>1, <1>5, <1>6, <1>8, StreamUpdate

LEMMA DisconnectStep ==
  ASSUME Inv, NEW s \in Streams, Disconnect(s)
  PROVE  Inv'
<1>1. Closed \in StreamState
  BY StreamTyped DEF Closed, StreamState, StreamPhases
<1>2. StreamOK(Closed)
  BY StreamTyped DEF Closed, StreamOK
<1>. QED  BY <1>1, <1>2, StreamUpdate DEF Disconnect, Inv, TypeOK
-----------------------------------------------------------------------------
LEMMA StepInv == Inv /\ [Next]_vars => Inv'
<1>. SUFFICES ASSUME Inv, [Next]_vars PROVE Inv'
  OBVIOUS
<1>1. CASE Sidecar
  BY <1>1, OwnerStep, OwnerPushStep, NotifyStep DEF Sidecar
<1>2. CASE \E n \in AckNumbers : AckEvents(n)
  BY <1>2, AckStep
<1>3. ASSUME NEW s \in Streams, StreamStep(s) PROVE Inv'
  BY <1>3, ReplayStep, YieldInitialStep, YieldLiveStep, LagStep, RecoverStep
  DEF StreamStep
<1>4. ASSUME NEW s \in Streams, Gateway(s) PROVE Inv'
  BY <1>4, SubscribeStep, ReceiveStep, DisconnectStep DEF Gateway
<1>5. CASE UNCHANGED vars
  <2>1. UNCHANGED sidecarVars /\ UNCHANGED <<stream, received>>
    BY <1>5 DEF vars, sidecarVars
  <2>. QED
    BY <2>1 DEF sidecarVars, Inv, TypeOK, Counting, Held, InStep, LogInterval,
                Woken, StreamOK
<1>. QED  BY <1>1, <1>2, <1>3, <1>4, <1>5 DEF Next

THEOREM Invariance == Spec => []Inv
BY InitInv, StepInv, PTL DEF Spec

\* Every variable keeps its type: sequence numbers, cursors and buffers stay
\* within the bounds of the run (managed_server.rs, the whole event path).
THEOREM TypeCorrect == Spec => []TypeOK
<1>1. Inv => TypeOK
  BY DEF Inv
<1>. QED  BY <1>1, Invariance, PTL

\* The replay buffer always holds exactly the unacknowledged events and never
\* exceeds its capacity (spawn_event_owner, ack_events).
THEOREM ReplayIsComplete == Spec => []ReplayComplete
<1>1. Inv => ReplayComplete
  BY ReplaySize DEF Inv, LogInterval, ReplayComplete
<1>. QED  BY <1>1, Invariance, PTL

\* A parked owner always has a reason: no notification is lost between the
\* unlock and the wait (spawn_event_owner, ack_events).
THEOREM NoWakeupIsLost == Spec => []NoLostWakeup
<1>1. Inv => NoLostWakeup
  BY ReplaySize DEF Inv, Woken, NoLostWakeup
<1>. QED  BY <1>1, Invariance, PTL

\* Subscribing before reading the replay leaves no hole between what is
\* replayed and what is broadcast (event_stream).
THEOREM StreamsHaveNoGap == Spec => []GapFreeUnlessLagged
<1>1. Inv => GapFreeUnlessLagged
  BY DEF Inv, StreamOK, GapFreeUnlessLagged
<1>. QED  BY <1>1, Invariance, PTL
-----------------------------------------------------------------------------
(***************************************************************************)
(* What a step does to the stream it is about, field by field.             *)
(***************************************************************************)
Only(s) == \A t \in Streams \ {s} : stream'[t] = stream[t]

\* q is yielded on s.
Yields(s, q) ==
  /\ q \in Numbers
  /\ stream'[s].yielded = stream[s].yielded \cup {q}
  /\ stream'[s].wire = Append(stream[s].wire, q)

\* s yields nothing.
Still(s) ==
  /\ stream'[s].yielded = stream[s].yielded
  /\ stream'[s].wire = stream[s].wire

LEMMA Updated ==
  ASSUME Inv, NEW s \in Streams, NEW r, stream' = [stream EXCEPT ![s] = r]
  PROVE  Only(s) /\ stream'[s] = r
BY DEF Inv, TypeOK, Only

LEMMA SubscribeShape ==
  ASSUME Inv, NEW s \in Streams, NEW after, Subscribe(s, after)
  PROVE  /\ Only(s) /\ UNCHANGED <<sidecarVars, received>>
         /\ stream'[s].phase = "subscribed" /\ stream'[s].after = after
         /\ stream'[s].initial = {} /\ stream'[s].yielded = {} /\ stream'[s].wire = <<>>
<1>. DEFINE r == [Closed EXCEPT !.phase = "subscribed", !.after = after,
                                !.rx = broadcasted + 1]
<1>1. stream' = [stream EXCEPT ![s] = r] /\ UNCHANGED <<sidecarVars, received>>
  BY DEF Subscribe
<1>2. /\ r.phase = "subscribed" /\ r.after = after
      /\ r.initial = {} /\ r.yielded = {} /\ r.wire = <<>>
  BY DEF Closed
<1>. HIDE DEF r
<1>. QED  BY <1>1, <1>2, Updated

LEMMA ReplayShape ==
  ASSUME Inv, NEW s \in Streams, Replay(s)
  PROVE  /\ Only(s) /\ Still(s) /\ UNCHANGED <<sidecarVars, received>>
         /\ stream[s].phase = "subscribed" /\ stream'[s].phase = "open"
         /\ stream'[s].after = stream[s].after /\ stream'[s].rx = stream[s].rx
         /\ stream'[s].initial = RetainedAbove(stream[s].after)
         /\ stream'[s].last = LastReplayed(stream[s].after, RetainedAbove(stream[s].after))
<1>. DEFINE x    == stream[s]
            seen == RetainedAbove(x.after)
            last == LastReplayed(x.after, seen)
            r    == [x EXCEPT !.phase = "open", !.initial = seen,
                              !.floor = ackedSequence, !.last = last]
<1>1. /\ stream' = [stream EXCEPT ![s] = r] /\ UNCHANGED <<sidecarVars, received>>
      /\ x.phase = "subscribed" /\ x \in StreamState
  BY StreamTyped DEF Replay
<1>. HIDE DEF x, seen, last
<1>2. /\ r.phase = "open" /\ r.after = x.after /\ r.rx = x.rx /\ r.initial = seen
      /\ r.last = last /\ r.yielded = x.yielded /\ r.wire = x.wire
  BY <1>1 DEF StreamState
<1>. HIDE DEF r
<1>3. Only(s) /\ stream'[s] = r
  BY <1>1, Updated
<1>. QED  BY <1>1, <1>2, <1>3 DEF Still, x, seen, last

LEMMA YieldInitialShape ==
  ASSUME Inv, NEW s \in Streams, YieldInitial(s)
  PROVE  \E low \in Numbers :
           /\ Only(s) /\ Yields(s, low) /\ UNCHANGED <<sidecarVars, received>>
           /\ stream[s].initial = low .. stream[s].last /\ low <= stream[s].last
           /\ stream[s].phase = "open" /\ stream'[s].phase = "open"
           /\ stream'[s].initial = stream[s].initial \ {low}
           /\ stream'[s].last = stream[s].last
           /\ stream'[s].after = stream[s].after /\ stream'[s].rx = stream[s].rx
<1>. DEFINE x == stream[s]
            q == Min(x.initial)
            r == [Yield(x, q) EXCEPT !.initial = @ \ {q}]
<1>1. /\ stream' = [stream EXCEPT ![s] = r] /\ UNCHANGED <<sidecarVars, received>>
      /\ x \in StreamState /\ StreamOK(x) /\ x.phase = "open" /\ x.initial # {}
  BY StreamTyped DEF YieldInitial, Polled
<1>. HIDE DEF x
<1>2. PICK low \in Numbers : low <= x.last /\ x.initial = low .. x.last
  BY <1>1 DEF StreamOK
<1>3. low \in Int /\ x.last \in Int
  BY <1>1, StreamTyped DEF Numbers, StreamState
<1>4. q = low
  BY <1>2, <1>3, MinOfInterval
<1>. HIDE DEF q
<1>5. /\ r.phase = x.phase /\ r.initial = x.initial \ {low} /\ r.last = x.last
      /\ r.after = x.after /\ r.rx = x.rx
      /\ r.yielded = x.yielded \cup {low} /\ r.wire = Append(x.wire, low)
  BY <1>1, <1>4 DEF Yield, StreamState
<1>. HIDE DEF r
<1>6. Only(s) /\ stream'[s] = r
  BY <1>1, Updated
<1>. QED  BY <1>1, <1>2, <1>5, <1>6 DEF Yields, x

LEMMA YieldLiveShape ==
  ASSUME Inv, NEW s \in Streams, YieldLive(s)
  PROVE  LET x == stream[s]
             q == stream[s].rx
         IN /\ Only(s) /\ UNCHANGED <<sidecarVars, received>>
            /\ x.phase = "open" /\ x.initial = {} /\ q <= broadcasted /\ q \in Numbers
            /\ stream'[s].phase = "open" /\ stream'[s].initial = {}
            /\ stream'[s].after = x.after /\ stream'[s].rx = q + 1
            /\ \/ q > x.last /\ Yields(s, q) /\ stream'[s].last = q
               \/ q <= x.last /\ Still(s) /\ stream'[s].last = x.last
<1>. DEFINE x == stream[s]
            q == x.rx
            r == IF q > x.last THEN [Yield(x, q) EXCEPT !.rx = q + 1, !.last = q]
                               ELSE [x EXCEPT !.rx = q + 1]
<1>1. /\ x \in StreamState /\ StreamOK(x)
      /\ x.phase = "open" /\ x.initial = {} /\ q <= broadcasted
      /\ stream' = [stream EXCEPT ![s] = r] /\ UNCHANGED <<sidecarVars, received>>
  BY StreamTyped DEF YieldLive, ChainedLive, Polled, Yield, AboveLast
<1>. HIDE DEF x
<1>2. x.last \in Nat /\ q \in Numbers
  BY <1>1, StreamTyped DEF StreamState, Numbers
<1>. HIDE DEF q
<1>3. /\ r.phase = "open" /\ r.initial = {} /\ r.after = x.after /\ r.rx = q + 1
      /\ \/ /\ q > x.last /\ r.last = q
            /\ r.yielded = x.yielded \cup {q} /\ r.wire = Append(x.wire, q)
         \/ q <= x.last /\ r.last = x.last /\ r.yielded = x.yielded /\ r.wire = x.wire
  <2>1. CASE q > x.last
    <3>1. r = [x EXCEPT !.yielded = @ \cup {q}, !.wire = Append(@, q),
                        !.rx = q + 1, !.last = q]
      BY <1>1, <2>1 DEF Yield, StreamState
    <3>. HIDE DEF r
    <3>. QED  BY <1>1, <2>1, <3>1 DEF StreamState
  <2>2. CASE ~(q > x.last)
    <3>1. r = [x EXCEPT !.rx = q + 1] /\ q <= x.last
      BY <1>2, <2>2 DEF Numbers
    <3>. HIDE DEF r
    <3>. QED  BY <1>1, <3>1 DEF StreamState
  <2>. QED  BY <2>1, <2>2
<1>. HIDE DEF r
<1>4. Only(s) /\ stream'[s] = r
  BY <1>1, Updated
<1>. QED  BY <1>1, <1>2, <1>3, <1>4 DEF Yields, Still, x, q

LEMMA LagShape ==
  ASSUME Inv, NEW s \in Streams, Lag(s)
  PROVE  /\ Only(s) /\ Still(s) /\ UNCHANGED <<sidecarVars, received>>
         /\ stream[s].phase = "open" /\ stream[s].initial = {}
         /\ stream'[s].phase = "recovering" /\ stream'[s].initial = {}
         /\ stream'[s].after = stream[s].after /\ stream'[s].last = stream[s].last
         /\ stream'[s].rx = OldestLive
<1>. DEFINE x == stream[s]
            r == [x EXCEPT !.phase = "recovering", !.rx = OldestLive, !.lagged = TRUE]
<1>1. /\ stream' = [stream EXCEPT ![s] = r] /\ UNCHANGED <<sidecarVars, received>>
      /\ x \in StreamState /\ x.phase = "open" /\ x.initial = {}
  BY StreamTyped DEF Lag, ChainedLive, Polled
<1>. HIDE DEF x
<1>2. /\ r.phase = "recovering" /\ r.initial = {} /\ r.after = x.after /\ r.last = x.last
      /\ r.rx = OldestLive /\ r.yielded = x.yielded /\ r.wire = x.wire
  BY <1>1 DEF StreamState
<1>. HIDE DEF r
<1>3. Only(s) /\ stream'[s] = r
  BY <1>1, Updated
<1>. QED  BY <1>1, <1>2, <1>3 DEF Still, x

\* The least retained number above `last`, if there is one.
LEMMA RecoverShape ==
  ASSUME Inv, NEW s \in Streams, Recover(s)
  PROVE  LET x == stream[s]
         IN /\ Only(s) /\ UNCHANGED <<sidecarVars, received>>
            /\ x.phase = "recovering" /\ x.initial = {}
            /\ stream'[s].phase = "open" /\ stream'[s].initial = {}
            /\ stream'[s].after = x.after /\ stream'[s].rx = x.rx
            /\ \/ /\ Still(s) /\ stream'[s].last = x.last
                  /\ x.last >= nextSequence - 1 \/ ackedSequence = nextSequence - 1
               \/ \E m \in Numbers :
                    /\ m = IF x.last > ackedSequence THEN x.last + 1 ELSE ackedSequence + 1
                    /\ m < nextSequence
                    /\ Yields(s, m) /\ stream'[s].last = m
<1>. DEFINE x      == stream[s]
            missed == {q \in events : q > x.last}
            m      == Min(missed)
            y      == [x EXCEPT !.phase = "open"]
            r      == IF missed = {} THEN y ELSE [Yield(y, m) EXCEPT !.last = m]
            low    == IF x.last > ackedSequence THEN x.last + 1 ELSE ackedSequence + 1
<1>1. /\ stream' = [stream EXCEPT ![s] = r] /\ UNCHANGED <<sidecarVars, received>>
      /\ x \in StreamState /\ x.phase = "recovering" /\ x.initial = {}
  BY StreamTyped DEF Recover, RetainedAbove, StreamOK
<1>. HIDE DEF x
<1>2. /\ x.last \in Nat /\ ackedSequence \in Nat /\ nextSequence \in Nat
      /\ ackedSequence < nextSequence
      /\ events = (ackedSequence + 1) .. (nextSequence - 1)
      /\ nextSequence <= MaxFrames + 1 /\ MaxFrames \in Nat
  <2>1. x.last \in Nat
    BY <1>1, StreamTyped DEF StreamState
  <2>. QED  BY <2>1, StreamTyped DEF Inv, TypeOK, LogInterval
<1>3. low \in Nat /\ low >= 1 /\ missed = low .. (nextSequence - 1)
  BY <1>2
<1>4. /\ y.phase = "open" /\ y.initial = {} /\ y.after = x.after /\ y.rx = x.rx
      /\ y.yielded = x.yielded /\ y.wire = x.wire /\ y.last = x.last
      /\ y \in StreamState
  BY <1>1 DEF StreamState, StreamPhases
<1>5. Only(s) /\ stream'[s] = r
  BY <1>1, Updated
<1>. HIDE DEF y, m
<1>6. CASE missed = {}
  <2>1. r = y
    BY <1>6
  <2>2. low > nextSequence - 1
    <3>. HIDE DEF low
    <3>. QED  BY <1>2, <1>3, <1>6
  <2>3. x.last >= nextSequence - 1 \/ ackedSequence = nextSequence - 1
    BY <1>2, <2>2
  <2>. QED  BY <1>1, <1>4, <1>5, <2>1, <2>3 DEF Still, x
<1>7. CASE missed # {}
  <2>1. low <= nextSequence - 1
    BY <1>2, <1>3, <1>7
  <2>2. low \in Int /\ nextSequence - 1 \in Int
    BY <1>2, <1>3
  <2>3. m = low
    BY <1>3, <2>1, <2>2, MinOfInterval DEF m
  <2>4. low \in Numbers /\ low < nextSequence
    BY <1>2, <1>3, <2>1 DEF Numbers
  <2>. HIDE DEF low, missed
  <2>5. r = [y EXCEPT !.yielded = @ \cup {low}, !.wire = Append(@, low), !.last = low]
    BY <1>4, <1>7, <2>3 DEF Yield, StreamState
  <2>. HIDE DEF r
  <2>6. /\ r.phase = "open" /\ r.initial = {} /\ r.after = x.after /\ r.rx = x.rx
        /\ r.yielded = x.yielded \cup {low} /\ r.wire = Append(x.wire, low) /\ r.last = low
    BY <1>4, <2>5 DEF StreamState
  <2>. QED  BY <1>1, <1>5, <2>4, <2>6 DEF Yields, x, low
<1>. QED  BY <1>6, <1>7

LEMMA ReceiveShape ==
  ASSUME Inv, NEW s \in Streams, Receive(s)
  PROVE  /\ Only(s) /\ UNCHANGED sidecarVars
         /\ stream[s].wire \in Seq(Numbers) /\ stream[s].wire # <<>>
         /\ received' = received \cup {Head(stream[s].wire)}
         /\ stream'[s].wire = Tail(stream[s].wire)
         /\ stream'[s].yielded = stream[s].yielded /\ stream'[s].phase = stream[s].phase
         /\ stream'[s].initial = stream[s].initial /\ stream'[s].last = stream[s].last
         /\ stream'[s].after = stream[s].after /\ stream'[s].rx = stream[s].rx
<1>. DEFINE x == stream[s]
            r == [x EXCEPT !.wire = Tail(@)]
<1>1. /\ stream' = [stream EXCEPT ![s] = r] /\ UNCHANGED sidecarVars
      /\ x \in StreamState /\ x.wire \in Seq(Numbers) /\ x.wire # <<>>
      /\ received' = received \cup {Head(x.wire)}
  BY StreamTyped DEF Receive, StreamState
<1>. HIDE DEF x
<1>2. /\ r.wire = Tail(x.wire) /\ r.yielded = x.yielded /\ r.phase = x.phase
      /\ r.initial = x.initial /\ r.last = x.last /\ r.after = x.after /\ r.rx = x.rx
  BY <1>1 DEF StreamState
<1>. HIDE DEF r
<1>3. Only(s) /\ stream'[s] = r
  BY <1>1, Updated
<1>. QED  BY <1>1, <1>2, <1>3 DEF x

LEMMA DisconnectShape ==
  ASSUME Inv, NEW s \in Streams, Disconnect(s)
  PROVE  Only(s) /\ stream'[s] = Closed /\ UNCHANGED <<sidecarVars, received>>
BY Updated DEF Disconnect

-----------------------------------------------------------------------------
(***************************************************************************)
(* Streams never go backwards.  What a stream has still to replay is above *)
(* all it has yielded, and so is what it takes above `last` afterwards.    *)
(***************************************************************************)
Increasing(r) ==
  /\ r.phase \in {"closed", "subscribed"} => r.yielded = {}
  /\ \A y \in r.yielded : y <= r.last /\ \A q \in r.initial : y < q

Forward == \A s \in Streams : Increasing(stream[s])

\* What YieldsIncrease says of one stream.
Rises(s) ==
  Len(stream'[s].wire) > Len(stream[s].wire) =>
    \A q \in stream[s].yielded : q < stream'[s].wire[Len(stream'[s].wire)]

LEMMA AppendedWire ==
  ASSUME NEW wire \in Seq(Numbers), NEW q \in Numbers
  PROVE  LET more == Append(wire, q) IN more[Len(more)] = q
OBVIOUS

LEMMA TakenWire ==
  ASSUME NEW wire \in Seq(Numbers), wire # <<>>
  PROVE  /\ Len(wire) \in Nat /\ Len(wire) >= 1 /\ Head(wire) = wire[1] /\ wire[1] \in Numbers
         /\ Tail(wire) \in Seq(Numbers) /\ Len(Tail(wire)) = Len(wire) - 1
         /\ \A i \in 1 .. Len(wire) - 1 : Tail(wire)[i] = wire[i + 1]
OBVIOUS

LEMMA YieldsRises ==
  ASSUME Inv, NEW s \in Streams, NEW q, Yields(s, q), \A y \in stream[s].yielded : y < q
  PROVE  Rises(s)
<1>1. stream[s].wire \in Seq(Numbers) /\ q \in Numbers
  BY StreamTyped DEF StreamState, Yields
<1>2. stream'[s].wire[Len(stream'[s].wire)] = q
  BY <1>1, AppendedWire DEF Yields
<1>. QED  BY <1>2 DEF Rises

LEMMA StillRises ==
  ASSUME Inv, NEW s \in Streams, stream'[s].wire = stream[s].wire
  PROVE  Rises(s)
<1>1. Len(stream[s].wire) \in Nat
  BY StreamTyped DEF StreamState
<1>. QED  BY <1>1 DEF Rises

LEMMA YieldedNumbers ==
  ASSUME Inv, NEW s \in Streams
  PROVE  /\ stream[s].yielded \subseteq Nat /\ stream[s].initial \subseteq Nat
         /\ stream[s].last \in Nat /\ stream[s].rx \in Nat
         /\ \A q \in Numbers : q \in Nat
BY StreamTyped DEF StreamState, Numbers

LEMMA StreamForward ==
  ASSUME Inv, Forward, NEW s \in Streams, StreamStep(s)
  PROVE  Only(s) /\ Increasing(stream'[s]) /\ Rises(s)
<1>1. Increasing(stream[s])
  BY DEF Forward
<1>2. CASE Replay(s)
  <2>1. stream[s].yielded = {} /\ stream'[s].yielded = {}
    BY <1>1, <1>2, ReplayShape DEF Increasing, Still
  <2>. QED  BY <1>2, <2>1, ReplayShape, StillRises DEF Increasing, Still
<1>3. CASE YieldInitial(s)
  <2>1. PICK low \in Numbers :
          /\ Only(s) /\ Yields(s, low)
          /\ stream[s].initial = low .. stream[s].last /\ low <= stream[s].last
          /\ stream'[s].phase = "open"
          /\ stream'[s].initial = stream[s].initial \ {low}
          /\ stream'[s].last = stream[s].last
    BY <1>3, YieldInitialShape
  <2>2. low \in Nat /\ low \in stream[s].initial
    BY <2>1, YieldedNumbers
  <2>3. \A y \in stream[s].yielded : y < low
    BY <1>1, <2>2 DEF Increasing
  <2>4. \A q \in stream'[s].initial : low < q
    BY <2>1, <2>2, YieldedNumbers
  <2>5. Increasing(stream'[s])
    BY <1>1, <2>1, <2>4 DEF Increasing, Yields
  <2>. QED  BY <2>1, <2>3, <2>5, YieldsRises
<1>4. CASE YieldLive(s)
  <2>. DEFINE q == stream[s].rx
  <2>1. /\ Only(s) /\ q \in Numbers
        /\ stream'[s].phase = "open" /\ stream'[s].initial = {}
        /\ \/ q > stream[s].last /\ Yields(s, q) /\ stream'[s].last = q
           \/ q <= stream[s].last /\ Still(s) /\ stream'[s].last = stream[s].last
    BY <1>4, YieldLiveShape
  <2>2. CASE q > stream[s].last /\ Yields(s, q) /\ stream'[s].last = q
    <3>1. \A y \in stream[s].yielded : y < q
      BY <1>1, <2>2, YieldedNumbers DEF Increasing
    <3>2. q \in Nat /\ stream[s].yielded \subseteq Nat
      BY YieldedNumbers
    <3>. HIDE DEF q
    <3>3. \A y \in stream'[s].yielded : y <= stream'[s].last
      BY <2>2, <3>1, <3>2 DEF Yields
    <3>4. Increasing(stream'[s])
      BY <2>1, <3>3 DEF Increasing
    <3>. QED  BY <2>1, <2>2, <3>1, <3>4, YieldsRises
  <2>3. CASE Still(s) /\ stream'[s].last = stream[s].last
    BY <1>1, <2>1, <2>3, StillRises DEF Increasing, Still
  <2>. QED  BY <2>1, <2>2, <2>3
<1>5. CASE Lag(s)
  <2>1. Increasing(stream'[s])
    BY <1>1, <1>5, LagShape DEF Increasing, Still
  <2>. QED  BY <1>5, <2>1, LagShape, StillRises DEF Still
<1>6. CASE Recover(s)
  <2>1. /\ Only(s) /\ stream'[s].phase = "open" /\ stream'[s].initial = {}
        /\ \/ Still(s) /\ stream'[s].last = stream[s].last
           \/ \E m \in Numbers :
                /\ m = IF stream[s].last > ackedSequence THEN stream[s].last + 1
                       ELSE ackedSequence + 1
                /\ Yields(s, m) /\ stream'[s].last = m
    BY <1>6, RecoverShape
  <2>2. CASE Still(s) /\ stream'[s].last = stream[s].last
    BY <1>1, <2>1, <2>2, StillRises DEF Increasing, Still
  <2>3. ASSUME NEW m \in Numbers,
               m = IF stream[s].last > ackedSequence THEN stream[s].last + 1
                   ELSE ackedSequence + 1,
               Yields(s, m), stream'[s].last = m
        PROVE  Increasing(stream'[s]) /\ Rises(s)
    <3>1. m \in Nat /\ stream[s].last < m /\ stream[s].yielded \subseteq Nat
      BY <2>3, YieldedNumbers DEF Inv, TypeOK
    <3>2. \A y \in stream[s].yielded : y < m
      BY <1>1, <3>1, YieldedNumbers DEF Increasing
    <3>3. \A y \in stream'[s].yielded : y <= stream'[s].last
      BY <2>3, <3>1, <3>2 DEF Yields
    <3>4. Increasing(stream'[s])
      BY <2>1, <3>3 DEF Increasing
    <3>. QED  BY <2>3, <3>2, <3>4, YieldsRises
  <2>. QED  BY <2>1, <2>2, <2>3
<1>. QED  BY <1>2, <1>3, <1>4, <1>5, <1>6 DEF StreamStep

LEMMA GatewayForward ==
  ASSUME Inv, Forward, NEW s \in Streams, Gateway(s)
  PROVE  Only(s) /\ Increasing(stream'[s]) /\ Rises(s)
<1>1. Increasing(stream[s]) /\ Len(stream[s].wire) \in Nat
  BY StreamTyped DEF Forward, StreamState
<1>2. ASSUME NEW after, Subscribe(s, after)
      PROVE  Only(s) /\ Increasing(stream'[s]) /\ Rises(s)
  <2>1. Increasing(stream'[s]) /\ Len(stream'[s].wire) = 0
    BY <1>2, SubscribeShape DEF Increasing
  <2>. QED  BY <1>1, <1>2, <2>1, SubscribeShape DEF Rises
<1>3. CASE Receive(s)
  <2>1. Increasing(stream'[s])
    BY <1>1, <1>3, ReceiveShape DEF Increasing
  <2>2. Len(stream'[s].wire) = Len(stream[s].wire) - 1
    BY <1>3, ReceiveShape, TakenWire
  <2>. QED  BY <1>1, <1>3, <2>1, <2>2, ReceiveShape DEF Rises
<1>4. CASE Disconnect(s)
  <2>1. Increasing(stream'[s]) /\ Len(stream'[s].wire) = 0
    BY <1>4, DisconnectShape DEF Increasing, Closed
  <2>. QED  BY <1>1, <1>4, <2>1, DisconnectShape DEF Rises
<1>. QED  BY <1>2, <1>3, <1>4 DEF Gateway

LEMMA StepForward ==
  Inv /\ Forward /\ [Next]_vars => Forward' /\ [\A s \in Streams : Rises(s)]_stream
<1>. SUFFICES ASSUME Inv, Forward, [Next]_vars
              PROVE  Forward' /\ [\A s \in Streams : Rises(s)]_stream
  OBVIOUS
<1>1. CASE UNCHANGED stream
  BY <1>1 DEF Forward
<1>2. ASSUME NEW s \in Streams, Only(s), Increasing(stream'[s]), Rises(s)
      PROVE  Forward' /\ \A t \in Streams : Rises(t)
  <2>1. ASSUME NEW t \in Streams PROVE Increasing(stream'[t]) /\ Rises(t)
    <3>1. CASE t = s
      BY <1>2, <3>1
    <3>2. CASE t # s
      <4>1. stream'[t] = stream[t]
        BY <1>2, <3>2 DEF Only
      <4>. QED  BY <4>1, StillRises DEF Forward
    <3>. QED  BY <3>1, <3>2
  <2>. QED  BY <2>1 DEF Forward
<1>3. ASSUME NEW s \in Streams, StreamStep(s) \/ Gateway(s)
      PROVE  Forward' /\ \A t \in Streams : Rises(t)
  BY <1>2, <1>3, StreamForward, GatewayForward
<1>4. CASE Sidecar \/ \E n \in AckNumbers : AckEvents(n)
  BY <1>1, <1>4 DEF Sidecar, Bootstrap, Emit, OwnerRecv, OwnerPush, OwnerSend, OwnerPark,
                    NotifyOne, AckEvents
<1>. QED  BY <1>1, <1>3, <1>4 DEF Next, vars

\* No filter, lag or late receiver makes a stream repeat or go back: the live
\* part takes nothing up to what was replayed, and a recovery raises `last`
\* with what it replays (event_stream).
THEOREM StreamsGoForward == Spec => YieldsIncrease
<1>1. Init => Forward
  BY DEF Init, Forward, Increasing, Closed
<1>2. Inv /\ Forward /\ [Next]_vars =>
        [\A s \in Streams :
           LET wire == stream'[s].wire
           IN Len(wire) > Len(stream[s].wire) =>
                \A q \in stream[s].yielded : q < wire[Len(wire)]]_stream
  BY StepForward DEF Rises
<1>3. Inv /\ Forward /\ [Next]_vars => Forward'
  BY StepForward
<1>. QED  BY <1>1, <1>2, <1>3, Invariance, PTL DEF Spec, YieldsIncrease

-----------------------------------------------------------------------------
(***************************************************************************)
(* The refinements.  The gateway reads no number before the one below it:  *)
(* neither does a wire hold one out of turn, nor does a stream have one to *)
(* yield.  A lag is what could break that: Recover replays one event.      *)
(* Either no lag skips more than that (the log), or what it skips has been *)
(* followed by a whole ring (the lagging log: lax).                        *)
(***************************************************************************)

\* A lag has skipped no more than the one event that Recover replays.
NothingSkipped ==
  \A s \in Streams : stream[s].phase = "recovering" =>
    stream[s].rx <= stream[s].last + 2 \/ stream[s].rx <= ackedSequence + 2

Unskipped(lax) == lax \/ NothingSkipped

\* The highest number that may be passed to, when `next` comes next; 0: none.
Slack(next, lax) == IF lax THEN next - LiveCapacity ELSE 0

\* How far the gateway will have read, from c, when a wire is empty.
ReachOf(wire, c) ==
  IF wire = <<>> \/ wire[Len(wire)] < c THEN c ELSE wire[Len(wire)]

Chained(wire, c, next, lax) ==
  \A i \in 1 .. Len(wire) :
    /\ wire[i] < next
    /\ \/ wire[i] <= c + 1 \/ wire[i] <= Slack(next, lax)
       \/ i > 1 /\ wire[i] <= wire[i - 1] + 1

Follows(r, c, next, lax) ==
  /\ Chained(r.wire, c, next, lax)
  /\ r.after <= c
  /\ r.phase \in {"open", "recovering"} /\ r.initial = {} => r.last <= ReachOf(r.wire, c)
  /\ r.initial # {} => \E b \in r.initial : b <= ReachOf(r.wire, c) + 1
  /\ \A b \in r.initial : b < next
  /\ r.phase = "open" => r.rx <= c + 1 \/ r.rx <= r.last + 1 \/ r.rx <= Slack(next, lax)
  /\ lax /\ r.phase = "recovering" => r.rx <= Slack(next, lax)

\* The gateway has a highest number.
Topped == received # {} => \E x \in received : \A y \in received : x >= y

Logged(lax) ==
  /\ Topped
  /\ ackedSequence <= Cursor
  /\ \A q \in received : q < nextSequence
  /\ \A s \in Streams : Follows(stream[s], Cursor, nextSequence, lax)

LEMMA CursorKnown ==
  ASSUME Inv, Topped
  PROVE  /\ Cursor \in Nat
         /\ \A q \in received : q <= Cursor
         /\ received = {} => Cursor = 0
         /\ received # {} => Cursor \in received
<1>1. received \subseteq Nat
  BY DEF Inv, TypeOK, Numbers
<1>2. CASE received = {}
  BY <1>2 DEF Cursor
<1>3. CASE received # {}
  <2>1. PICK x \in received : \A y \in received : x >= y
    BY <1>3 DEF Topped
  <2>2. Max(received) \in received /\ \A y \in received : Max(received) >= y
    BY <2>1 DEF Max
  <2>3. Cursor = Max(received)
    BY <1>3 DEF Cursor
  <2>. QED  BY <1>1, <1>3, <2>2, <2>3
<1>. QED  BY <1>2, <1>3

LEMMA CursorSame == UNCHANGED received => UNCHANGED Cursor /\ (Topped => Topped')
BY DEF Cursor, Topped

\* Reading one number more.
LEMMA CursorTaken ==
  ASSUME Inv, Inv', Topped, NEW q \in Numbers, received' = received \cup {q}
  PROVE  /\ Topped'
         /\ Cursor' = IF q > Cursor THEN q ELSE Cursor
<1>1. /\ Cursor \in Nat /\ q \in Nat /\ received \subseteq Nat
      /\ \A x \in received : x <= Cursor
      /\ received = {} => Cursor = 0
      /\ received # {} => Cursor \in received
  BY CursorKnown DEF Numbers, Inv, TypeOK
<1>2. PICK top \in Nat : top = IF q > Cursor THEN q ELSE Cursor
  BY <1>1
<1>3. top \in received'
  <2>1. CASE q > Cursor
    BY <1>2, <2>1
  <2>2. CASE ~(q > Cursor)
    <3>1. q # 0 /\ q <= Cursor
      BY <1>1, <2>2 DEF Numbers
    <3>2. received # {}
      BY <1>1, <3>1 DEF Numbers
    <3>. QED  BY <1>1, <1>2, <2>2, <3>2
  <2>. QED  BY <2>1, <2>2
<1>4. \A y \in received' : top >= y
  BY <1>1, <1>2
<1>5. Topped'
  BY <1>3, <1>4 DEF Topped
<1>6. Cursor' \in Nat /\ (\A y \in received' : y <= Cursor') /\ Cursor' \in received'
  <2>1. Inv' /\ Topped' => /\ Cursor' \in Nat
                           /\ \A y \in received' : y <= Cursor'
                           /\ received' # {} => Cursor' \in received'
    <3>1. received' \subseteq Nat
      BY DEF Inv, TypeOK, Numbers
    <3>2. Max(received') \in received' /\ \A y \in received' : Max(received') >= y
      BY <1>3, <1>4 DEF Max
    <3>3. Cursor' = Max(received')
      BY <1>3 DEF Cursor
    <3>. QED  BY <3>1, <3>2, <3>3
  <2>. QED  BY <1>3, <1>5, <2>1
<1>7. Cursor' = top
  BY <1>1, <1>2, <1>3, <1>4, <1>6
<1>. QED  BY <1>2, <1>5, <1>7

-----------------------------------------------------------------------------
(* Wires *)

LEMMA WireKnown ==
  ASSUME NEW wire \in Seq(Numbers)
  PROVE  /\ Len(wire) \in Nat
         /\ wire = <<>> <=> Len(wire) = 0
         /\ \A i \in 1 .. Len(wire) : wire[i] \in Nat
         /\ wire # <<>> => Len(wire) \in 1 .. Len(wire) /\ wire[Len(wire)] \in Nat
<1>1. /\ Len(wire) \in Nat
      /\ wire = <<>> <=> Len(wire) = 0
      /\ \A i \in 1 .. Len(wire) : wire[i] \in Numbers
  OBVIOUS
<1>2. Numbers \subseteq Nat
  BY CapacityAssumption DEF Numbers
<1>3. \A i \in 1 .. Len(wire) : wire[i] \in Nat
  BY <1>1, <1>2
<1>4. wire # <<>> => Len(wire) \in 1 .. Len(wire)
  BY <1>1
<1>. QED  BY <1>1, <1>3, <1>4, Zenon

LEMMA ReachKnown ==
  ASSUME NEW wire \in Seq(Numbers), NEW c \in Nat
  PROVE  ReachOf(wire, c) \in Nat /\ ReachOf(wire, c) >= c
<1>1. CASE wire = <<>>
  BY <1>1 DEF ReachOf
<1>2. CASE wire # <<>>
  <2>1. wire[Len(wire)] \in Nat
    BY <1>2, WireKnown
  <2>. QED  BY <2>1 DEF ReachOf
<1>. QED  BY <1>1, <1>2

LEMMA ReachAppended ==
  ASSUME NEW wire \in Seq(Numbers), NEW q \in Numbers, NEW c \in Nat
  PROVE  Append(wire, q) \in Seq(Numbers) /\ ReachOf(Append(wire, q), c) \in Nat
<1>1. Append(wire, q) \in Seq(Numbers)
  OBVIOUS
<1>. QED  BY <1>1, ReachKnown

LEMMA ReachGrows ==
  ASSUME NEW wire \in Seq(Numbers), NEW c \in Nat, NEW d \in Nat, c <= d
  PROVE  ReachOf(wire, c) <= ReachOf(wire, d)
<1>1. CASE wire = <<>>
  BY <1>1 DEF ReachOf
<1>2. CASE wire # <<>>
  <2>1. wire[Len(wire)] \in Nat
    BY <1>2, WireKnown
  <2>. QED  BY <1>2, <2>1 DEF ReachOf
<1>. QED  BY <1>1, <1>2

LEMMA SlackGrows ==
  ASSUME NEW lax \in BOOLEAN, NEW n \in Nat, NEW m \in Nat, n <= m
  PROVE  Slack(n, lax) \in Int /\ Slack(m, lax) \in Int /\ Slack(n, lax) <= Slack(m, lax)
BY CapacityAssumption DEF Slack

LEMMA ChainGrows ==
  ASSUME NEW lax \in BOOLEAN, NEW wire \in Seq(Numbers), NEW c \in Nat, NEW d \in Nat, c <= d,
         NEW n \in Nat, NEW m \in Nat, n <= m, Chained(wire, c, n, lax)
  PROVE  Chained(wire, d, m, lax)
<1>1. \A i \in 1 .. Len(wire) : wire[i] \in Nat
  BY WireKnown
<1>2. Slack(n, lax) \in Int /\ Slack(m, lax) \in Int /\ Slack(n, lax) <= Slack(m, lax)
  BY SlackGrows
<1>. QED  BY <1>1, <1>2 DEF Chained

LEMMA FollowsGrows ==
  ASSUME NEW lax \in BOOLEAN, NEW r \in StreamState, NEW c \in Nat, NEW d \in Nat, c <= d,
         NEW n \in Nat, NEW m \in Nat, n <= m, Follows(r, c, n, lax), MaxFrames \in Nat
  PROVE  Follows(r, d, m, lax)
<1>1. /\ r.wire \in Seq(Numbers) /\ r.after \in Nat /\ r.last \in Nat /\ r.rx \in Nat
      /\ r.initial \subseteq Nat
  BY DEF StreamState, Numbers
<1>2. /\ ReachOf(r.wire, c) \in Nat /\ ReachOf(r.wire, d) \in Nat
      /\ ReachOf(r.wire, c) <= ReachOf(r.wire, d)
  BY <1>1, ReachKnown, ReachGrows
<1>3. Chained(r.wire, d, m, lax)
  BY <1>1, ChainGrows DEF Follows
<1>4. r.initial # {} => \E b \in r.initial : b <= ReachOf(r.wire, d) + 1
  BY <1>1, <1>2 DEF Follows
<1>5. /\ r.after <= d /\ (\A b \in r.initial : b < m)
      /\ r.phase = "open" => r.rx <= d + 1 \/ r.rx <= r.last + 1 \/ r.rx <= Slack(m, lax)
      /\ lax /\ r.phase = "recovering" => r.rx <= Slack(m, lax)
  <2>1. Slack(n, lax) \in Int /\ Slack(m, lax) \in Int /\ Slack(n, lax) <= Slack(m, lax)
    BY SlackGrows
  <2>2. r.after <= d /\ (\A b \in r.initial : b < m)
    BY <1>1 DEF Follows
  <2>3. /\ r.phase = "open" => r.rx <= c + 1 \/ r.rx <= r.last + 1 \/ r.rx <= Slack(n, lax)
        /\ lax /\ r.phase = "recovering" => r.rx <= Slack(n, lax)
    BY DEF Follows
  <2>4. /\ r.phase = "open" => r.rx <= d + 1 \/ r.rx <= r.last + 1 \/ r.rx <= Slack(m, lax)
        /\ lax /\ r.phase = "recovering" => r.rx <= Slack(m, lax)
    BY <1>1, <2>1, <2>3
  <2>. QED  BY <2>2, <2>4
<1>6. r.phase \in {"open", "recovering"} /\ r.initial = {} => r.last <= ReachOf(r.wire, d)
  BY <1>1, <1>2 DEF Follows
<1>. QED  BY <1>3, <1>4, <1>5, <1>6 DEF Follows

LEMMA ChainAppended ==
  ASSUME NEW lax \in BOOLEAN, NEW wire \in Seq(Numbers), NEW c \in Nat, NEW n \in Nat,
         NEW q \in Numbers, Chained(wire, c, n, lax), q < n,
         q <= ReachOf(wire, c) + 1 \/ q <= Slack(n, lax)
  PROVE  Chained(Append(wire, q), c, n, lax) /\ ReachOf(Append(wire, q), c) >= q
<1>. DEFINE more == Append(wire, q)
<1>1. /\ more \in Seq(Numbers) /\ more # <<>> /\ Len(wire) \in Nat /\ Len(more) = Len(wire) + 1
      /\ more[Len(wire) + 1] = q
  OBVIOUS
<1>2. \A i \in 1 .. Len(wire) : more[i] = wire[i]
  OBVIOUS
<1>3. wire # <<>> => Len(wire) \in 1 .. Len(wire) /\ wire[Len(wire)] \in Nat
  BY WireKnown
<1>4. q \in Nat
  BY DEF Numbers
<1>5. \/ q <= c + 1 \/ q <= Slack(n, lax)
      \/ wire # <<>> /\ q <= wire[Len(wire)] + 1
  BY DEF ReachOf
<1>. HIDE DEF more
<1>6. ASSUME NEW i \in 1 .. Len(more)
      PROVE  /\ more[i] < n
             /\ \/ more[i] <= c + 1 \/ more[i] <= Slack(n, lax)
                \/ i > 1 /\ more[i] <= more[i - 1] + 1
  <2>1. CASE i = Len(wire) + 1
    <3>1. more[i] = q
      BY <1>1, <2>1
    <3>2. CASE q <= c + 1 \/ q <= Slack(n, lax)
      BY <3>1, <3>2
    <3>3. CASE wire # <<>> /\ q <= wire[Len(wire)] + 1
      <4>1. Len(wire) \in 1 .. Len(wire) /\ i - 1 = Len(wire) /\ i > 1
        BY <1>1, <1>3, <1>4, <2>1, <3>3
      <4>2. more[i - 1] = wire[Len(wire)]
        BY <1>2, <4>1
      <4>. QED  BY <3>1, <3>3, <4>1, <4>2
    <3>. QED  BY <1>5, <3>2, <3>3
  <2>2. CASE i # Len(wire) + 1
    <3>1. i \in 1 .. Len(wire)
      BY <1>1, <2>2
    <3>2. more[i] = wire[i] /\ (i > 1 => i - 1 \in 1 .. Len(wire))
      BY <1>1, <1>2, <3>1
    <3>3. i > 1 => more[i - 1] = wire[i - 1]
      BY <1>2, <3>2
    <3>. QED  BY <3>1, <3>2, <3>3 DEF Chained
  <2>. QED  BY <2>1, <2>2
<1>7. ReachOf(more, c) >= q
  <2>1. more[Len(more)] = q
    BY <1>1
  <2>. QED  BY <1>1, <1>4, <2>1 DEF ReachOf
<1>. QED  BY <1>6, <1>7 DEF Chained, more

LEMMA ChainTaken ==
  ASSUME NEW lax \in BOOLEAN, NEW wire \in Seq(Numbers), wire # <<>>, NEW c \in Nat,
         NEW d \in Nat, NEW n \in Nat, c <= d, wire[1] <= d, Chained(wire, c, n, lax)
  PROVE  Chained(Tail(wire), d, n, lax) /\ ReachOf(Tail(wire), d) >= ReachOf(wire, c)
<1>. DEFINE rest == Tail(wire)
<1>1. /\ Len(wire) \in Nat /\ Len(wire) >= 1 /\ rest \in Seq(Numbers) /\ Len(rest) = Len(wire) - 1
  BY TakenWire
<1>2. \A i \in 1 .. Len(wire) - 1 : rest[i] = wire[i + 1]
  BY TakenWire
<1>3. \A i \in 1 .. Len(wire) : wire[i] \in Nat
  BY WireKnown
<1>4. rest = <<>> <=> Len(rest) = 0
  <2>. HIDE DEF rest
  <2>. QED  BY <1>1, WireKnown
<1>. HIDE DEF rest
<1>5. ASSUME NEW i \in 1 .. Len(rest)
      PROVE  /\ rest[i] < n
             /\ \/ rest[i] <= d + 1 \/ rest[i] <= Slack(n, lax)
                \/ i > 1 /\ rest[i] <= rest[i - 1] + 1
  <2>1. i \in 1 .. Len(wire) - 1 /\ i + 1 \in 1 .. Len(wire) /\ i \in 1 .. Len(wire)
    BY <1>1
  <2>2. rest[i] = wire[i + 1] /\ wire[i + 1] \in Nat /\ wire[i] \in Nat
    BY <1>2, <1>3, <2>1
  <2>3. /\ wire[i + 1] < n
        /\ \/ wire[i + 1] <= c + 1 \/ wire[i + 1] <= Slack(n, lax)
           \/ wire[i + 1] <= wire[(i + 1) - 1] + 1
    BY <2>1 DEF Chained
  <2>4. wire[i + 1] <= c + 1 \/ wire[i + 1] <= Slack(n, lax) \/ wire[i + 1] <= wire[i] + 1
    BY <2>1, <2>3
  <2>5. CASE i = 1
    BY <2>2, <2>3, <2>4, <2>5
  <2>6. CASE i # 1
    <3>1. i - 1 \in 1 .. Len(wire) - 1 /\ i > 1 /\ (i - 1) + 1 = i
      BY <2>1, <2>6
    <3>2. rest[i - 1] = wire[i]
      BY <1>2, <3>1
    <3>3. rest[i] < n
      BY <2>2, <2>3
    <3>4. rest[i] <= d + 1 \/ rest[i] <= Slack(n, lax) \/ rest[i] <= rest[i - 1] + 1
      BY <2>2, <2>4, <3>2
    <3>. QED  BY <3>1, <3>3, <3>4
  <2>. QED  BY <2>5, <2>6
<1>6. ReachOf(rest, d) >= ReachOf(wire, c)
  <2>1. CASE Len(rest) = 0
    <3>1. Len(wire) = 1 /\ rest = <<>>
      BY <1>1, <1>4, <2>1
    <3>2. ReachOf(rest, d) = d /\ ReachOf(wire, c) \in {c, wire[1]}
      BY <3>1 DEF ReachOf
    <3>. QED  BY <1>3, <3>2
  <2>2. CASE Len(rest) # 0
    <3>1. Len(rest) \in 1 .. Len(wire) - 1 /\ rest # <<>> /\ Len(rest) + 1 = Len(wire)
      BY <1>1, <1>4, <2>2
    <3>2. rest[Len(rest)] = wire[Len(wire)]
      BY <1>2, <3>1
    <3>3. wire[Len(wire)] \in Nat
      BY <1>1, <1>3
    <3>. QED  BY <3>1, <3>2, <3>3 DEF ReachOf
  <2>. QED  BY <2>1, <2>2
<1>. QED  BY <1>5, <1>6 DEF Chained, rest


-----------------------------------------------------------------------------
(* Streams *)

LEMMA StreamKnown ==
  ASSUME NEW lax \in BOOLEAN, Inv, Logged(lax), NEW s \in Streams
  PROVE  LET r == stream[s]
         IN /\ Cursor \in Nat /\ ackedSequence \in Nat /\ nextSequence \in Nat
            /\ ackedSequence <= Cursor /\ Cursor < nextSequence
            /\ r.wire \in Seq(Numbers) /\ r.after \in Nat /\ r.last \in Nat /\ r.rx \in Nat
            /\ r.initial \subseteq Nat /\ r.rx <= nextSequence
            /\ ReachOf(r.wire, Cursor) \in Nat /\ ReachOf(r.wire, Cursor) >= Cursor
            /\ Follows(r, Cursor, nextSequence, lax)
<1>1. /\ Cursor \in Nat /\ (received = {} => Cursor = 0)
      /\ received # {} => Cursor \in received
  BY CursorKnown DEF Logged
<1>2. /\ ackedSequence \in Nat /\ nextSequence \in Nat /\ nextSequence >= 1
      /\ broadcasted \in Nat /\ broadcasted + 1 <= nextSequence
  BY DEF Inv, TypeOK, InStep
<1>3. ackedSequence <= Cursor /\ Cursor < nextSequence
  BY <1>1, <1>2 DEF Logged
<1>4. stream[s].wire \in Seq(Numbers) /\ stream[s].after \in Nat
  BY StreamTyped DEF StreamState
<1>5. /\ stream[s].last \in Nat /\ stream[s].rx \in Nat /\ stream[s].initial \subseteq Nat
  BY YieldedNumbers
<1>6. stream[s].rx <= broadcasted + 1
  BY DEF Inv, StreamOK
<1>7. stream[s].rx <= nextSequence
  BY <1>2, <1>5, <1>6
<1>. QED  BY <1>1, <1>2, <1>3, <1>4, <1>5, <1>7, ReachKnown DEF Logged

LEMMA ReplayFollows ==
  ASSUME NEW lax \in BOOLEAN, Inv, Logged(lax), NEW s \in Streams, Replay(s)
  PROVE  Follows(stream'[s], Cursor, nextSequence, lax)
<1>. DEFINE x    == stream[s]
            y    == stream'[s]
            low  == IF x.after > ackedSequence THEN x.after + 1 ELSE ackedSequence + 1
<1>1. /\ x.wire = y.wire /\ y.phase = "open" /\ y.after = x.after /\ y.rx = x.rx
      /\ y.initial = {q \in events : q > x.after}
      /\ y.last = IF y.initial = {} THEN x.after ELSE Max(y.initial)
  BY ReplayShape DEF RetainedAbove, LastReplayed, Still
<1>2. /\ Cursor \in Nat /\ ackedSequence \in Nat /\ nextSequence \in Nat
      /\ ackedSequence <= Cursor /\ Cursor < nextSequence
      /\ x.after \in Nat /\ x.after <= Cursor /\ x.rx \in Nat /\ x.rx <= nextSequence
      /\ ReachOf(x.wire, Cursor) \in Nat /\ ReachOf(x.wire, Cursor) >= Cursor
      /\ Chained(x.wire, Cursor, nextSequence, lax)
  BY StreamKnown DEF Follows
<1>3. events = (ackedSequence + 1) .. (nextSequence - 1)
  BY DEF Inv, LogInterval
<1>. HIDE DEF x, y
<1>4. low \in Nat /\ low <= Cursor + 1 /\ y.initial = low .. (nextSequence - 1)
  <2>1. low \in Nat /\ low <= Cursor + 1
    BY <1>2
  <2>2. \A q : q \in y.initial <=> q \in low .. (nextSequence - 1)
    BY <1>1, <1>2, <1>3
  <2> HIDE DEF low
  <2> QED BY <2>1, <2>2
<1>5. CASE y.initial = {}
  <2>1. low > nextSequence - 1
    <3>. HIDE DEF low
    <3>1. low \in Nat /\ nextSequence - 1 \in Int
      BY <1>2, <1>4
    <3>2. ~(low <= nextSequence - 1)
      <4>. SUFFICES ASSUME low <= nextSequence - 1 PROVE FALSE
        OBVIOUS
      <4>1. low \in low .. (nextSequence - 1)
        BY <3>1
      <4>. QED  BY <1>4, <1>5, <4>1
    <3>. QED  BY <3>1, <3>2
  <2>2. Cursor >= nextSequence - 1
    BY <1>2, <1>4, <2>1
  <2>3. y.last <= ReachOf(y.wire, Cursor) /\ y.rx <= Cursor + 1
    BY <1>1, <1>2, <1>5, <2>2
  <2>. QED  BY <1>1, <1>2, <1>5, <2>3 DEF Follows, y
<1>6. CASE y.initial # {}
  <2>. HIDE DEF low
  <2>1. low <= nextSequence - 1 /\ low \in y.initial
    BY <1>2, <1>4, <1>6
  <2>2. y.last = nextSequence - 1
    <3>1. low \in Int /\ nextSequence - 1 \in Int
      BY <1>2, <1>4
    <3>. QED  BY <1>1, <1>4, <1>6, <2>1, <3>1, MaxOfInterval
  <2>3. low <= ReachOf(y.wire, Cursor) + 1 /\ (\A b \in y.initial : b < nextSequence)
    BY <1>1, <1>2, <1>4
  <2>4. y.rx <= y.last + 1
    BY <1>1, <1>2, <2>2
  <2>. QED  BY <1>1, <1>2, <1>6, <2>1, <2>3, <2>4 DEF Follows, y
<1>. QED  BY <1>5, <1>6 DEF y

LEMMA YieldInitialFollows ==
  ASSUME NEW lax \in BOOLEAN, Inv, Logged(lax), NEW s \in Streams, YieldInitial(s)
  PROVE  Follows(stream'[s], Cursor, nextSequence, lax)
<1>. DEFINE x == stream[s]
            y == stream'[s]
            reach == ReachOf(y.wire, Cursor)
<1>1. PICK low \in Numbers :
        /\ y.wire = Append(x.wire, low)
        /\ x.initial = low .. x.last /\ low <= x.last
        /\ x.phase = "open" /\ y.phase = "open"
        /\ y.initial = x.initial \ {low} /\ y.last = x.last
        /\ y.after = x.after /\ y.rx = x.rx
  BY YieldInitialShape DEF Yields
<1>2. /\ Cursor \in Nat /\ nextSequence \in Nat
      /\ x.wire \in Seq(Numbers) /\ x.after \in Nat /\ x.last \in Nat /\ x.rx \in Nat
      /\ ReachOf(x.wire, Cursor) \in Nat
      /\ Follows(x, Cursor, nextSequence, lax)
  BY StreamKnown
<1>3. low \in Nat
  BY YieldedNumbers
<1>. HIDE DEF x, y
<1>4. low \in x.initial
  BY <1>1, <1>2, <1>3
<1>5. low < nextSequence /\ low <= ReachOf(x.wire, Cursor) + 1
  <2>1. PICK b \in x.initial : b <= ReachOf(x.wire, Cursor) + 1
    BY <1>2, <1>4 DEF Follows
  <2>2. b \in Nat /\ low <= b
    BY <1>1, <1>2, <1>3, <2>1
  <2>. QED  BY <1>2, <1>3, <1>4, <2>1, <2>2 DEF Follows
<1>6. Chained(y.wire, Cursor, nextSequence, lax) /\ reach >= low
  BY <1>1, <1>2, <1>5, ChainAppended DEF Follows
<1>7. reach \in Nat
  BY <1>1, <1>2, ReachAppended
<1>8. y.initial = {} => y.last <= reach
  <2>. HIDE DEF reach
  <2>1. y.initial = {} => low = x.last
    <3>1. SUFFICES ASSUME low # x.last PROVE x.last \in y.initial
      OBVIOUS
    <3>2. x.last \in low .. x.last
      BY <1>1, <1>2, <1>3
    <3>. QED  BY <1>1, <3>1, <3>2
  <2>. QED  BY <1>1, <1>2, <1>3, <1>6, <1>7, <2>1
<1>9. y.initial # {} => \E b \in y.initial : b <= reach + 1
  <2>. HIDE DEF reach
  <2>1. y.initial # {} => low + 1 \in y.initial
    BY <1>1, <1>2, <1>3
  <2>2. low + 1 <= reach + 1
    BY <1>3, <1>6, <1>7
  <2>. QED  BY <2>1, <2>2
<1>10. y.rx <= Cursor + 1 \/ y.rx <= y.last + 1 \/ y.rx <= Slack(nextSequence, lax)
  BY <1>1, <1>2 DEF Follows
<1>11. (\A b \in y.initial : b < nextSequence) /\ y.after <= Cursor
  BY <1>1, <1>2 DEF Follows
<1>. QED  BY <1>1, <1>6, <1>8, <1>9, <1>10, <1>11 DEF Follows, y

LEMMA YieldLiveFollows ==
  ASSUME NEW lax \in BOOLEAN, Inv, Logged(lax), NEW s \in Streams, YieldLive(s)
  PROVE  Follows(stream'[s], Cursor, nextSequence, lax)
<1>. DEFINE x == stream[s]
            y == stream'[s]
            q == stream[s].rx
<1>1. /\ x.phase = "open" /\ x.initial = {} /\ q <= broadcasted /\ q \in Numbers
      /\ y.phase = "open" /\ y.initial = {} /\ y.after = x.after /\ y.rx = q + 1
      /\ \/ q > x.last /\ y.wire = Append(x.wire, q) /\ y.last = q
         \/ q <= x.last /\ y.wire = x.wire /\ y.last = x.last
  BY YieldLiveShape DEF Yields, Still
<1>2. /\ Cursor \in Nat /\ nextSequence \in Nat
      /\ x.wire \in Seq(Numbers) /\ x.after \in Nat /\ x.last \in Nat /\ q \in Nat
      /\ ReachOf(x.wire, Cursor) \in Nat /\ ReachOf(x.wire, Cursor) >= Cursor
      /\ Follows(x, Cursor, nextSequence, lax)
  BY StreamKnown
<1>3. q < nextSequence
  BY <1>1, <1>2 DEF Inv, TypeOK, InStep
<1>4. /\ x.last <= ReachOf(x.wire, Cursor)
      /\ q <= Cursor + 1 \/ q <= x.last + 1 \/ q <= Slack(nextSequence, lax)
      /\ x.after <= Cursor /\ Chained(x.wire, Cursor, nextSequence, lax)
  BY <1>1, <1>2 DEF Follows
<1>. HIDE DEF x, y, q
<1>5. q <= ReachOf(x.wire, Cursor) + 1 \/ q <= Slack(nextSequence, lax)
  BY <1>2, <1>4
<1>6. CASE y.wire = Append(x.wire, q) /\ y.last = q
  <2>1. Chained(y.wire, Cursor, nextSequence, lax) /\ ReachOf(y.wire, Cursor) >= q
    BY <1>1, <1>2, <1>3, <1>4, <1>5, <1>6, ChainAppended
  <2>2. ReachOf(y.wire, Cursor) \in Nat
    BY <1>1, <1>2, <1>6, ReachAppended
  <2>3. y.last <= ReachOf(y.wire, Cursor) /\ y.rx <= y.last + 1
    BY <1>1, <1>2, <1>6, <2>1, <2>2
  <2>. QED  BY <1>1, <1>4, <2>1, <2>3 DEF Follows, y
<1>7. CASE q <= x.last /\ y.wire = x.wire /\ y.last = x.last
  <2>1. y.last <= ReachOf(y.wire, Cursor) /\ y.rx <= y.last + 1
    BY <1>1, <1>2, <1>4, <1>7
  <2>. QED  BY <1>1, <1>4, <1>7, <2>1 DEF Follows, y
<1>. QED  BY <1>1, <1>6, <1>7

\* Nothing is left behind by a recovery of which only one event was missed; what
\* else is, a ring has followed.
LEMMA RecoverFollows ==
  ASSUME NEW lax \in BOOLEAN, Inv, Logged(lax), Unskipped(lax), NEW s \in Streams, Recover(s)
  PROVE  Follows(stream'[s], Cursor, nextSequence, lax)
<1>. DEFINE x == stream[s]
            y == stream'[s]
            low == IF x.last > ackedSequence THEN x.last + 1 ELSE ackedSequence + 1
<1>1. /\ x.phase = "recovering" /\ x.initial = {}
      /\ y.phase = "open" /\ y.initial = {} /\ y.after = x.after /\ y.rx = x.rx
      /\ \/ /\ y.wire = x.wire /\ y.last = x.last
            /\ x.last >= nextSequence - 1 \/ ackedSequence = nextSequence - 1
         \/ /\ low \in Numbers /\ low < nextSequence
            /\ y.wire = Append(x.wire, low) /\ y.last = low
  BY RecoverShape DEF Yields, Still
<1>2. /\ Cursor \in Nat /\ ackedSequence \in Nat /\ nextSequence \in Nat
      /\ ackedSequence <= Cursor
      /\ x.wire \in Seq(Numbers) /\ x.after \in Nat /\ x.last \in Nat /\ x.rx \in Nat
      /\ ReachOf(x.wire, Cursor) \in Nat /\ ReachOf(x.wire, Cursor) >= Cursor
      /\ x.rx <= nextSequence
      /\ Follows(x, Cursor, nextSequence, lax)
  BY StreamKnown
<1>3. \/ x.rx <= x.last + 2 \/ x.rx <= ackedSequence + 2
      \/ x.rx <= Slack(nextSequence, lax)
  BY <1>1, <1>2 DEF Unskipped, NothingSkipped, Follows
<1>4. /\ x.last <= ReachOf(x.wire, Cursor)
      /\ x.after <= Cursor /\ Chained(x.wire, Cursor, nextSequence, lax)
  BY <1>1, <1>2 DEF Follows
<1>. HIDE DEF x, y
<1>5. CASE /\ y.wire = x.wire /\ y.last = x.last
           /\ x.last >= nextSequence - 1 \/ ackedSequence = nextSequence - 1
  <2>1. x.rx <= Cursor + 1 \/ x.rx <= x.last + 1
    BY <1>2, <1>5
  <2>. QED  BY <1>1, <1>4, <1>5, <2>1 DEF Follows, y
<1>6. CASE /\ low \in Numbers /\ low < nextSequence
           /\ y.wire = Append(x.wire, low) /\ y.last = low
  <2>1. /\ low \in Nat /\ low <= ReachOf(x.wire, Cursor) + 1
        /\ x.rx <= low + 1 \/ x.rx <= Slack(nextSequence, lax)
    <3>1. CASE x.last > ackedSequence
      <4>1. low = x.last + 1
        BY <3>1
      <4>. HIDE DEF low
      <4>2. low \in Nat /\ low <= ReachOf(x.wire, Cursor) + 1
        BY <1>2, <1>4, <4>1
      <4>3. x.rx <= low + 1 \/ x.rx <= Slack(nextSequence, lax)
        BY <1>2, <1>3, <3>1, <4>1
      <4>. QED  BY <4>2, <4>3
    <3>2. CASE ~(x.last > ackedSequence)
      <4>1. low = ackedSequence + 1
        BY <3>2
      <4>. HIDE DEF low
      <4>2. low \in Nat /\ low <= ReachOf(x.wire, Cursor) + 1
        BY <1>2, <4>1
      <4>3. x.rx <= low + 1 \/ x.rx <= Slack(nextSequence, lax)
        BY <1>2, <1>3, <3>2, <4>1
      <4>. QED  BY <4>2, <4>3
    <3>. QED  BY <3>1, <3>2
  <2>. HIDE DEF low
  <2>2. Chained(y.wire, Cursor, nextSequence, lax) /\ ReachOf(y.wire, Cursor) >= low
    BY <1>2, <1>4, <1>6, <2>1, ChainAppended
  <2>3. ReachOf(y.wire, Cursor) \in Nat
    BY <1>2, <1>6, ReachAppended
  <2>4. /\ y.last <= ReachOf(y.wire, Cursor)
        /\ y.rx <= y.last + 1 \/ y.rx <= Slack(nextSequence, lax)
    BY <1>1, <1>6, <2>1, <2>2, <2>3
  <2>. QED  BY <1>1, <1>4, <2>2, <2>4 DEF Follows, y
<1>. QED  BY <1>1, <1>5, <1>6

LEMMA LagFollows ==
  ASSUME NEW lax \in BOOLEAN, Inv, Logged(lax), NEW s \in Streams, Lag(s)
  PROVE  Follows(stream'[s], Cursor, nextSequence, lax)
<1>1. Follows(stream[s], Cursor, nextSequence, lax)
  BY StreamKnown
<1>2. lax => stream'[s].rx <= Slack(nextSequence, lax)
  <2>1. /\ broadcasted \in Nat /\ nextSequence \in Nat /\ broadcasted <= nextSequence - 1
        /\ LiveCapacity \in Nat
    BY CapacityAssumption DEF Inv, TypeOK, InStep
  <2>2. stream[s].rx \in Nat /\ stream[s].rx >= 1 /\ stream[s].rx < OldestLive
    BY StreamTyped DEF Lag, StreamState
  <2>3. OldestLive <= nextSequence - LiveCapacity
    BY <2>1, <2>2 DEF OldestLive
  <2>. QED  BY <2>3, LagShape DEF Slack
<1>. QED  BY <1>1, <1>2, LagShape DEF Still, Follows

LEMMA StreamFollows ==
  ASSUME NEW lax \in BOOLEAN, Inv, Logged(lax), Unskipped(lax), NEW s \in Streams, StreamStep(s)
  PROVE  /\ Only(s) /\ UNCHANGED <<sidecarVars, received>>
         /\ Follows(stream'[s], Cursor, nextSequence, lax)
<1>1. CASE Replay(s)
  BY <1>1, ReplayShape, ReplayFollows
<1>2. CASE YieldInitial(s)
  BY <1>2, YieldInitialShape, YieldInitialFollows
<1>3. CASE YieldLive(s)
  BY <1>3, YieldLiveShape, YieldLiveFollows
<1>4. CASE Lag(s)
  BY <1>4, LagShape, LagFollows
<1>5. CASE Recover(s)
  BY <1>5, RecoverShape, RecoverFollows
<1>. QED  BY <1>1, <1>2, <1>3, <1>4, <1>5 DEF StreamStep

\* A new stream, like a closed one, has nothing to be out of turn.
LEMMA EmptyFollows ==
  ASSUME NEW lax \in BOOLEAN, NEW r, NEW c \in Nat, NEW next \in Nat,
         r.phase \in {"closed", "subscribed"}, r.initial = {}, r.wire = <<>>,
         r.after \in Nat, r.after <= c
  PROVE  Follows(r, c, next, lax)
BY DEF Follows, Chained

LEMMA SubscribeFollows ==
  ASSUME NEW lax \in BOOLEAN, Inv, Logged(lax), NEW s \in Streams,
         NEW after \in GatewayPositions, Subscribe(s, after)
  PROVE  Follows(stream'[s], Cursor, nextSequence, lax)
<1>1. Cursor \in Nat /\ nextSequence \in Nat /\ \A q \in received : q \in Nat /\ q <= Cursor
  BY CursorKnown DEF Logged, Inv, TypeOK, Numbers
<1>2. after \in Nat /\ after <= Cursor
  BY <1>1, CapacityAssumption DEF GatewayPositions
<1>. QED  BY <1>1, <1>2, SubscribeShape, EmptyFollows

LEMMA DisconnectFollows ==
  ASSUME NEW lax \in BOOLEAN, Inv, Logged(lax), NEW s \in Streams, Disconnect(s)
  PROVE  Follows(stream'[s], Cursor, nextSequence, lax)
<1>1. Cursor \in Nat /\ nextSequence \in Nat
  BY StreamKnown
<1>2. /\ Closed.phase = "closed" /\ Closed.initial = {} /\ Closed.wire = <<>>
      /\ Closed.after = 0
  BY DEF Closed
<1>3. 0 \in Nat /\ 0 <= Cursor
  BY <1>1
<1>4. Follows(Closed, Cursor, nextSequence, lax)
  BY <1>1, <1>2, <1>3, EmptyFollows
<1>. QED  BY <1>4, DisconnectShape

\* The gateway reads at most the next number, or one it may pass to.
LEMMA ReceiveFollows ==
  ASSUME NEW lax \in BOOLEAN, Inv, Inv', Logged(lax), NEW s \in Streams, Receive(s)
  PROVE  LET d == Cursor'
         IN /\ Topped' /\ d \in Nat /\ Cursor <= d /\ d < nextSequence
            /\ d <= Cursor + 1 \/ d <= Slack(nextSequence, lax)
            /\ \A q \in received' : q < nextSequence
            /\ Follows(stream'[s], d, nextSequence, lax)
<1>. DEFINE x == stream[s]
            y == stream'[s]
            q == x.wire[1]
            d == IF q > Cursor THEN q ELSE Cursor
<1>1. /\ x.wire \in Seq(Numbers) /\ x.wire # <<>>
      /\ received' = received \cup {Head(x.wire)}
      /\ y.wire = Tail(x.wire) /\ y.phase = x.phase
      /\ y.initial = x.initial /\ y.last = x.last
      /\ y.after = x.after /\ y.rx = x.rx
  BY ReceiveShape
<1>2. /\ Cursor \in Nat /\ nextSequence \in Nat /\ Cursor < nextSequence
      /\ x.after \in Nat /\ x.last \in Nat /\ x.rx \in Nat /\ x.initial \subseteq Nat
      /\ ReachOf(x.wire, Cursor) \in Nat
      /\ Follows(x, Cursor, nextSequence, lax)
  BY StreamKnown
<1>. HIDE DEF x, y
<1>3. /\ Head(x.wire) = q /\ q \in Numbers /\ Tail(x.wire) \in Seq(Numbers)
      /\ 1 \in 1 .. Len(x.wire)
  BY <1>1, TakenWire
<1>4. q \in Nat /\ q < nextSequence /\ (q <= Cursor + 1 \/ q <= Slack(nextSequence, lax))
  <2>1. q \in Nat
    BY <1>3, CapacityAssumption DEF Numbers
  <2>. QED  BY <1>2, <1>3, <2>1 DEF Follows, Chained
<1>5. received' = received \cup {q}
  BY <1>1, <1>3
<1>6. Topped' /\ Cursor' = d
  BY <1>3, <1>5, CursorTaken DEF Logged
<1>7. /\ d \in Nat /\ Cursor <= d /\ d < nextSequence /\ q <= d
      /\ d <= Cursor + 1 \/ d <= Slack(nextSequence, lax)
  BY <1>2, <1>4
<1>8. \A z \in received' : z < nextSequence
  BY <1>4, <1>5 DEF Logged
<1>. HIDE DEF d
<1>9. /\ Chained(y.wire, d, nextSequence, lax)
      /\ ReachOf(y.wire, d) >= ReachOf(x.wire, Cursor)
  BY <1>1, <1>2, <1>7, ChainTaken DEF Follows
<1>10. ReachOf(y.wire, d) \in Nat
  BY <1>1, <1>3, <1>7, ReachKnown
<1>11. Follows(y, d, nextSequence, lax)
  <2>1. y.phase \in {"open", "recovering"} /\ y.initial = {} => y.last <= ReachOf(y.wire, d)
    BY <1>1, <1>2, <1>9, <1>10 DEF Follows
  <2>2. y.initial # {} => \E b \in y.initial : b <= ReachOf(y.wire, d) + 1
    BY <1>1, <1>2, <1>9, <1>10 DEF Follows
  <2>3. /\ y.after <= d /\ (\A b \in y.initial : b < nextSequence)
        /\ y.phase = "open" =>
             y.rx <= d + 1 \/ y.rx <= y.last + 1 \/ y.rx <= Slack(nextSequence, lax)
        /\ lax /\ y.phase = "recovering" => y.rx <= Slack(nextSequence, lax)
    <3>1. /\ x.after <= Cursor /\ (\A b \in x.initial : b < nextSequence)
          /\ x.phase = "open" =>
               x.rx <= Cursor + 1 \/ x.rx <= x.last + 1 \/ x.rx <= Slack(nextSequence, lax)
          /\ lax /\ x.phase = "recovering" => x.rx <= Slack(nextSequence, lax)
      BY <1>2 DEF Follows
    <3>. QED  BY <1>1, <1>2, <1>7, <3>1
  <2>. QED  BY <1>9, <2>1, <2>2, <2>3 DEF Follows
<1>. QED  BY <1>6, <1>7, <1>8, <1>11 DEF y

-----------------------------------------------------------------------------
(* Steps *)

LogStep(lax) ==
  \/ [Log!Next]_Log!vars
  \/ lax /\ Lagging!Skip

LEMMA FollowsStill ==
  ASSUME NEW lax \in BOOLEAN, Inv, Logged(lax), NEW s \in Streams, NEW d \in Nat, Cursor <= d,
         NEW m \in Nat, nextSequence <= m
  PROVE  Follows(stream[s], d, m, lax)
<1>1. Cursor \in Nat /\ nextSequence \in Nat /\ Follows(stream[s], Cursor, nextSequence, lax)
  BY StreamKnown
<1>. QED  BY <1>1, FollowsGrows, StreamTyped, CapacityAssumption

\* A step of the sidecar.
LEMMA SidecarLogged ==
  ASSUME NEW lax \in BOOLEAN, Inv, Inv', Logged(lax), UNCHANGED <<stream, received>>,
         nextSequence <= nextSequence', ackedSequence' <= Cursor
  PROVE  Logged(lax)' /\ Cursor' = Cursor
<1>1. Cursor' = Cursor /\ Topped' /\ Cursor \in Nat
  BY CursorSame, CursorKnown DEF Logged
<1>2. nextSequence \in Nat /\ nextSequence' \in Nat /\ received \subseteq Nat
  BY DEF Inv, TypeOK, Numbers
<1>3. \A s \in Streams : Follows(stream'[s], Cursor', nextSequence', lax)
  BY <1>1, <1>2, FollowsStill
<1>4. \A q \in received' : q < nextSequence'
  BY <1>2 DEF Logged
<1>. QED  BY <1>1, <1>3, <1>4 DEF Logged

\* A step of one stream.
LEMMA OneLogged ==
  ASSUME NEW lax \in BOOLEAN, Inv, Inv', Logged(lax), NEW s \in Streams, Only(s),
         UNCHANGED sidecarVars, Topped', Cursor' \in Nat, Cursor <= Cursor',
         \A q \in received' : q < nextSequence,
         Follows(stream'[s], Cursor', nextSequence, lax)
  PROVE  Logged(lax)'
<1>1. Cursor \in Nat /\ nextSequence \in Nat /\ ackedSequence \in Nat /\ ackedSequence <= Cursor
  BY StreamKnown
<1>2. nextSequence' = nextSequence /\ ackedSequence' = ackedSequence
  BY DEF sidecarVars
<1>3. ASSUME NEW t \in Streams
      PROVE  Follows(stream'[t], Cursor', nextSequence, lax)
  <2>1. CASE t = s
    BY <2>1
  <2>2. CASE t # s
    <3>1. stream'[t] = stream[t]
      BY <2>2 DEF Only
    <3>. QED  BY <1>1, <3>1, FollowsStill
  <2>. QED  BY <2>1, <2>2
<1>4. ackedSequence' <= Cursor'
  BY <1>1, <1>2
<1>. QED  BY <1>2, <1>3, <1>4 DEF Logged

LEMMA PushLogged ==
  ASSUME NEW lax \in BOOLEAN, Inv, Inv', Logged(lax), OwnerPush
  PROVE  Logged(lax)' /\ LogStep(lax)
<1>1. /\ nextSequence \in Nat /\ ackedSequence \in Nat /\ ReplayCapacity \in Nat
      /\ UNCHANGED <<stream, received, ackedSequence>>
  BY CapacityAssumption DEF OwnerPush, Inv, TypeOK
<1>2. \/ UNCHANGED nextSequence
      \/ nextSequence' = nextSequence + 1 /\ nextSequence - 1 - ackedSequence < ReplayCapacity
  BY Pruned, ReplaySize DEF OwnerPush, HasRoom, Inv
<1>3. nextSequence <= nextSequence' /\ ackedSequence' <= Cursor
  BY <1>1, <1>2 DEF Logged
<1>4. Logged(lax)' /\ Cursor' = Cursor
  BY <1>1, <1>3, SidecarLogged
<1>5. CASE UNCHANGED nextSequence
  BY <1>1, <1>4, <1>5 DEF LogStep, Log!vars
<1>6. CASE nextSequence' = nextSequence + 1 /\ nextSequence - 1 - ackedSequence < ReplayCapacity
  BY <1>1, <1>4, <1>6 DEF LogStep, Log!Next, Log!Append
<1>. QED  BY <1>2, <1>4, <1>5, <1>6

LEMMA AckLogged ==
  ASSUME NEW lax \in BOOLEAN, Inv, Inv', Logged(lax), NEW n \in AckNumbers, AckEvents(n)
  PROVE  Logged(lax)' /\ LogStep(lax)
<1>1. /\ nextSequence \in Nat /\ ackedSequence \in Nat /\ Cursor \in Nat
      /\ \A q \in received : q \in Nat /\ q <= Cursor
      /\ ackedSequence <= Cursor
  BY CursorKnown DEF Logged, Inv, TypeOK, Numbers
<1>2. /\ n < nextSequence /\ UNCHANGED <<nextSequence, stream, received>>
      /\ ackedSequence' = IF n > ackedSequence THEN n ELSE ackedSequence
  BY DEF AckEvents, InAckRange
<1>3. n \in GatewayPositions
  BY <1>1, <1>2, CapacityAssumption DEF AckNumbers
<1>4. n \in Nat /\ n <= Cursor
  BY <1>1, <1>3, CapacityAssumption DEF GatewayPositions
<1>5. nextSequence <= nextSequence' /\ ackedSequence' <= Cursor
  BY <1>1, <1>2, <1>4
<1>6. Logged(lax)' /\ Cursor' = Cursor
  BY <1>2, <1>5, SidecarLogged
<1>7. CASE n > ackedSequence
  <2>1. ackedSequence < Cursor /\ ackedSequence' \in (ackedSequence + 1) .. Cursor
    BY <1>1, <1>2, <1>4, <1>7
  <2>. QED  BY <1>2, <1>6, <2>1 DEF LogStep, Log!Next, Log!Release
<1>8. CASE ~(n > ackedSequence)
  BY <1>2, <1>6, <1>8 DEF LogStep, Log!vars
<1>. QED  BY <1>7, <1>8

LEMMA ReceiveLogged ==
  ASSUME NEW lax \in BOOLEAN, Inv, Inv', Logged(lax), NEW s \in Streams, Receive(s)
  PROVE  Logged(lax)' /\ LogStep(lax)
<1>1. /\ Topped' /\ Cursor' \in Nat /\ Cursor <= Cursor' /\ Cursor' < nextSequence
      /\ Cursor' <= Cursor + 1 \/ Cursor' <= Slack(nextSequence, lax)
      /\ \A q \in received' : q < nextSequence
      /\ Follows(stream'[s], Cursor', nextSequence, lax)
  BY ReceiveFollows
<1>2. Only(s) /\ UNCHANGED sidecarVars /\ UNCHANGED <<nextSequence, ackedSequence>>
  BY ReceiveShape DEF sidecarVars
<1>3. Logged(lax)'
  BY <1>1, <1>2, OneLogged
<1>4. Cursor \in Nat /\ nextSequence \in Nat
  BY StreamKnown
<1>5. CASE Cursor' = Cursor
  BY <1>2, <1>3, <1>5 DEF LogStep, Log!vars
<1>6. CASE Cursor' = Cursor + 1
  <2>1. Cursor < nextSequence - 1
    BY <1>1, <1>4, <1>6
  <2>. QED  BY <1>2, <1>3, <1>6, <2>1 DEF LogStep, Log!Next, Log!Deliver
<1>7. CASE Cursor' # Cursor /\ Cursor' # Cursor + 1
  <2>1. lax /\ Cursor' <= nextSequence - LiveCapacity /\ Cursor' >= Cursor + 2
    BY <1>1, <1>4, <1>7 DEF Slack
  <2>2. Cursor' \in (Cursor + 2) .. ((nextSequence - 1) - LiveCapacity + 1)
    BY <1>1, <1>4, <2>1, CapacityAssumption
  <2>. QED  BY <1>2, <1>3, <2>1, <2>2 DEF LogStep, Lagging!Skip
<1>. QED  BY <1>5, <1>6, <1>7

LEMMA StreamLogged ==
  ASSUME NEW lax \in BOOLEAN, Inv, Inv', Logged(lax), NEW s \in Streams, Only(s),
         UNCHANGED <<sidecarVars, received>>, Follows(stream'[s], Cursor, nextSequence, lax)
  PROVE  Logged(lax)' /\ LogStep(lax)
<1>1. Cursor' = Cursor /\ Topped' /\ Cursor \in Nat
  BY CursorSame, CursorKnown DEF Logged
<1>2. UNCHANGED sidecarVars /\ UNCHANGED <<nextSequence, ackedSequence>>
  BY DEF sidecarVars
<1>3. Logged(lax)'
  BY <1>1, <1>2, OneLogged DEF Logged
<1>. QED  BY <1>1, <1>2, <1>3 DEF LogStep, Log!vars

LEMMA StepLogged ==
  ASSUME NEW lax \in BOOLEAN, Inv, Inv', Logged(lax), Unskipped(lax), [Next]_vars
  PROVE  Logged(lax)' /\ LogStep(lax)
<1>1. CASE UNCHANGED <<nextSequence, ackedSequence, stream, received>>
  <2>1. nextSequence <= nextSequence' /\ ackedSequence' <= Cursor
    BY <1>1 DEF Logged, Inv, TypeOK
  <2>2. Logged(lax)' /\ Cursor' = Cursor
    BY <1>1, <2>1, SidecarLogged
  <2>. QED  BY <1>1, <2>2 DEF LogStep, Log!vars
<1>2. CASE Sidecar
  BY <1>1, <1>2, PushLogged
  DEF Sidecar, Bootstrap, Emit, OwnerRecv, OwnerSend, OwnerPark, NotifyOne
<1>3. CASE \E n \in AckNumbers : AckEvents(n)
  BY <1>3, AckLogged
<1>4. ASSUME NEW s \in Streams, StreamStep(s)
      PROVE  Logged(lax)' /\ LogStep(lax)
  BY <1>4, StreamFollows, StreamLogged
<1>5. ASSUME NEW s \in Streams, Gateway(s)
      PROVE  Logged(lax)' /\ LogStep(lax)
  <2>1. ASSUME NEW after \in GatewayPositions, Subscribe(s, after)
        PROVE  Logged(lax)' /\ LogStep(lax)
    BY <2>1, SubscribeShape, SubscribeFollows, StreamLogged
  <2>2. CASE Disconnect(s)
    BY <2>2, DisconnectShape, DisconnectFollows, StreamLogged
  <2>. QED  BY <1>5, <2>1, <2>2, ReceiveLogged DEF Gateway
<1>. QED  BY <1>1, <1>2, <1>3, <1>4, <1>5 DEF Next, vars

LEMMA InitLogged ==
  ASSUME NEW lax \in BOOLEAN, Init PROVE Logged(lax) /\ Log!Init
<1>1. Cursor = 0 /\ Topped
  BY DEF Init, Cursor, Topped
<1>2. \A s \in Streams : Follows(stream[s], 0, 1, lax)
  <2>1. /\ Closed.phase = "closed" /\ Closed.initial = {} /\ Closed.wire = <<>>
        /\ Closed.after = 0
    BY DEF Closed
  <2>2. Follows(Closed, 0, 1, lax)
    BY <2>1, EmptyFollows
  <2>. QED  BY <2>2 DEF Init
<1>3. Logged(lax)
  BY <1>1, <1>2 DEF Init, Logged
<1>. QED  BY <1>1, <1>3 DEF Init, Log!Init

\* The event path is a log, for every capacity, as long as no lag of a stream
\* skips more than the one event its recovery replays (event_stream replays
\* only the first retained event above `last`).
THEOREM UnskippedPathIsALog == Spec /\ []NothingSkipped => ImplementsLog
<1>1. Init => Logged(FALSE) /\ Log!Init
  BY InitLogged
<1>2. Inv /\ Inv' /\ Logged(FALSE) /\ NothingSkipped /\ [Next]_vars =>
        Logged(FALSE)' /\ [Log!Next]_Log!vars
  BY StepLogged DEF Unskipped, LogStep
<1>. QED  BY <1>1, <1>2, Invariance, PTL DEF Spec, ImplementsLog, Log!Spec

\* Whatever the capacities and however far a stream lags, the path is a log whose
\* reader passes over nothing but what a whole broadcast ring has followed: a
\* gateway that keeps up with the ring misses nothing (event_stream).
THEOREM PathIsALaggingLog == Spec => ImplementsLaggingLog
<1>1. Init => Logged(TRUE) /\ Lagging!Init
  BY InitLogged DEF Log!Init, Lagging!Init
<1>2. Inv /\ Inv' /\ Logged(TRUE) /\ [Next]_vars =>
        Logged(TRUE)' /\ [Lagging!LaggingNext]_Lagging!vars
  <2>. SUFFICES ASSUME Inv, Inv', Logged(TRUE), [Next]_vars
                PROVE  Logged(TRUE)' /\ [Lagging!LaggingNext]_Lagging!vars
    OBVIOUS
  <2>1. Logged(TRUE)' /\ LogStep(TRUE)
    BY StepLogged DEF Unskipped
  <2>2. Log!Next => Lagging!Next
    BY DEF Log!Next, Log!Append, Log!Deliver, Log!Release,
           Lagging!Next, Lagging!Append, Lagging!Deliver, Lagging!Release
  <2>3. UNCHANGED Log!vars => UNCHANGED Lagging!vars
    BY DEF Log!vars, Lagging!vars
  <2>. QED  BY <2>1, <2>2, <2>3 DEF LogStep, Lagging!LaggingNext
<1>. QED  BY <1>1, <1>2, Invariance, PTL DEF Spec, ImplementsLaggingLog, Lagging!LaggingSpec

LEMMA LagSkipsOne ==
  ASSUME ReplayCapacity <= LiveCapacity + 1, Inv, NEW s \in Streams, Lag(s)
  PROVE  stream'[s].rx <= ackedSequence + 2
<1>1. /\ broadcasted \in Nat /\ nextSequence \in Nat /\ ackedSequence \in Nat
      /\ broadcasted <= nextSequence - 1
      /\ nextSequence - 1 - ackedSequence <= ReplayCapacity
  BY DEF Inv, TypeOK, InStep, LogInterval
<1>2. OldestLive <= ackedSequence + 2
  BY <1>1, CapacityAssumption DEF OldestLive
<1>. QED  BY <1>2, LagShape

LEMMA StepSkips ==
  ASSUME ReplayCapacity <= LiveCapacity + 1
  PROVE  Inv /\ NothingSkipped /\ [Next]_vars => NothingSkipped'
<1>. SUFFICES ASSUME Inv, NothingSkipped, [Next]_vars PROVE NothingSkipped'
  OBVIOUS
<1>1. ASSUME stream' = stream, ackedSequence' >= ackedSequence, ackedSequence' \in Nat
      PROVE  NothingSkipped'
  <2>1. ackedSequence \in Nat /\ \A s \in Streams : stream[s].rx \in Nat
    BY YieldedNumbers DEF Inv, TypeOK
  <2>. QED  BY <1>1, <2>1 DEF NothingSkipped
<1>2. ASSUME NEW s \in Streams, Only(s), UNCHANGED sidecarVars,
             stream'[s].phase = "recovering" =>
               stream'[s].rx <= stream'[s].last + 2 \/ stream'[s].rx <= ackedSequence + 2
      PROVE  NothingSkipped'
  <2>1. ASSUME NEW t \in Streams, stream'[t].phase = "recovering"
        PROVE  stream'[t].rx <= stream'[t].last + 2 \/ stream'[t].rx <= ackedSequence + 2
    <3>1. CASE t = s
      BY <1>2, <2>1, <3>1
    <3>2. CASE t # s
      <4>1. stream'[t] = stream[t]
        BY <1>2, <3>2 DEF Only
      <4>. QED  BY <2>1, <4>1 DEF NothingSkipped
    <3>. QED  BY <3>1, <3>2
  <2>. QED  BY <1>2, <2>1 DEF NothingSkipped, sidecarVars
<1>3. CASE Sidecar \/ UNCHANGED vars
  <2>1. stream' = stream /\ ackedSequence' = ackedSequence
    BY <1>3 DEF Sidecar, Bootstrap, Emit, OwnerRecv, OwnerPush, OwnerSend, OwnerPark,
                NotifyOne, vars
  <2>. QED  BY <1>1, <2>1 DEF Inv, TypeOK
<1>4. ASSUME NEW n \in AckNumbers, AckEvents(n) PROVE NothingSkipped'
  <2>1. n \in Nat /\ ackedSequence \in Nat
    BY <1>4, CapacityAssumption DEF AckNumbers, GatewayPositions, AckEvents, Inv, TypeOK
  <2>. QED  BY <1>1, <1>4, <2>1 DEF AckEvents
<1>5. ASSUME NEW s \in Streams, StreamStep(s) PROVE NothingSkipped'
  <2>1. Only(s) /\ UNCHANGED sidecarVars
    BY <1>5, ReplayShape, YieldInitialShape, YieldLiveShape, LagShape, RecoverShape
    DEF StreamStep
  <2>2. stream'[s].phase = "open" \/ Lag(s)
    BY <1>5, ReplayShape, YieldInitialShape, YieldLiveShape, RecoverShape DEF StreamStep
  <2>. QED  BY <1>2, <2>1, <2>2, LagSkipsOne
<1>6. ASSUME NEW s \in Streams, Gateway(s) PROVE NothingSkipped'
  <2>1. ASSUME NEW after, Subscribe(s, after) PROVE NothingSkipped'
    BY <1>2, <2>1, SubscribeShape
  <2>2. CASE Receive(s)
    BY <1>2, <2>2, ReceiveShape DEF NothingSkipped
  <2>3. CASE Disconnect(s)
    BY <1>2, <2>3, DisconnectShape DEF Closed
  <2>. QED  BY <1>6, <2>1, <2>2, <2>3 DEF Gateway
<1>. QED  BY <1>3, <1>4, <1>5, <1>6 DEF Next

\* A broadcast ring at most one slot shorter than the replay buffer rules
\* such a lag out: the owner stops before it overwrites two events that the
\* gateway has not confirmed.
COROLLARY PathIsALog ==
  ASSUME ReplayCapacity <= LiveCapacity + 1
  PROVE  Spec => ImplementsLog
<1>1. Init => NothingSkipped
  BY DEF Init, NothingSkipped, Closed
<1>2. Inv /\ NothingSkipped /\ [Next]_vars => NothingSkipped'
  BY StepSkips
<1>. QED  BY <1>1, <1>2, Invariance, UnskippedPathIsALog, PTL DEF Spec
-----------------------------------------------------------------------------
(***************************************************************************)
(* The incremental reads: every variable keeps its type.                   *)
(***************************************************************************)

LEMMA RowNumbers ==
  /\ IsFiniteSet(Rows) /\ Cardinality(Rows) \in Nat /\ MaxTime \in Nat /\ MaxInFlight \in Nat
  /\ Limit \in Nat \ {0} /\ ChunkRows \in Nat \ {0} /\ MaxFaults \in Nat /\ MaxChanges \in Nat
  /\ IsFiniteSet(Requests) /\ Start \subseteq [Rows -> 0 .. MaxTime]
  /\ NoWatermark \in Watermarks /\ Idle \in RequestType
<1>1. IsFiniteSet(Rows) /\ Cardinality(Rows) \in Nat
  BY SourceAssumption, FS_CardinalityType
<1>2. MaxTime \in Nat /\ MaxInFlight \in Nat /\ MaxFaults \in Nat /\ Limit \in Nat \ {0}
      /\ ChunkRows \in Nat \ {0} /\ IsFiniteSet(Requests) /\ MaxChanges \in Nat
      /\ Start \subseteq [Rows -> 0 .. MaxTime]
  BY SourceAssumption
<1>3. NoWatermark \in Watermarks BY <1>1, <1>2 DEF NoWatermark, Watermarks
<1>4. Idle \in RequestType BY <1>3 DEF Idle, RequestType
<1> QED BY <1>1, <1>2, <1>3, <1>4

LEMMA SubsetCount ==
  ASSUME NEW S \in SUBSET Rows
  PROVE /\ IsFiniteSet(S) /\ Cardinality(S) \in 0 .. Cardinality(Rows)
        /\ \A T \in SUBSET S : /\ Cardinality(T) <= Cardinality(S)
                               /\ T # S => Cardinality(T) < Cardinality(S)
<1>1. IsFiniteSet(S) /\ Cardinality(S) \in Nat /\ Cardinality(S) <= Cardinality(Rows)
  BY RowNumbers, FS_Subset, FS_CardinalityType
<1>2. ASSUME NEW T \in SUBSET S
      PROVE Cardinality(T) <= Cardinality(S) /\ (T # S => Cardinality(T) < Cardinality(S))
  <2>1. Cardinality(T) \in Nat BY <1>1, FS_Subset, FS_CardinalityType
  <2>2. Cardinality(T) <= Cardinality(S) /\ (Cardinality(S) = Cardinality(T) => S = T)
    BY <1>1, FS_Subset
  <2> QED BY <1>1, <2>1, <2>2
<1> QED BY <1>1, <1>2, RowNumbers

\* SetToSeqs orders all of a set, each element once.
LEMMA Ordered ==
  ASSUME NEW S \in SUBSET Rows, NEW rows \in Orders(S)
  PROVE /\ rows \in Seq(Rows) /\ Len(rows) = Cardinality(S) /\ Len(rows) \in Nat
        /\ DOMAIN rows = 1 .. Len(rows)
        /\ \A i \in 1 .. Len(rows) : rows[i] \in S
        /\ \A i, j \in 1 .. Len(rows) : rows[i] = rows[j] => i = j
        /\ \A i, j \in 1 .. Len(rows) : i < j => table[rows[i]] <= table[rows[j]]
        /\ \A x \in S : \E i \in 1 .. Len(rows) : rows[i] = x
<1> DEFINE n == Cardinality(S)
<1>1. n \in Nat /\ IsFiniteSet(S) BY SubsetCount
<1>2. /\ rows \in [1 .. n -> S] /\ \A i, j \in 1 .. n : i # j => rows[i] # rows[j]
      /\ \A i, j \in DOMAIN rows : i < j => table[rows[i]] <= table[rows[j]]
  BY DEF Orders, SetToSeqs
<1>3. rows \in Injection(1 .. n, S) BY <1>2 DEF Injection, IsInjective
<1>4. IsFiniteSet(1 .. n) /\ Cardinality(1 .. n) = n BY <1>1, FS_Interval
<1>5. rows \in Surjection(1 .. n, S)
  BY <1>1, <1>3, <1>4, FS_Injection
<1>6. \A x \in S : \E i \in 1 .. n : rows[i] = x BY <1>5 DEF Surjection
<1>7. rows \in Seq(Rows) /\ Len(rows) = n /\ DOMAIN rows = 1 .. n BY <1>1, <1>2
<1> QED BY <1>1, <1>2, <1>6, <1>7

\* What a page holds of the window, when there is an offset and a limit.
LEMMA PageTyped ==
  ASSUME SourceTypeOK, NEW before \in Watermarks, NEW rows \in Orders(Window(before.value))
  PROVE LET page == Page(rows, before)
            end == IF Truncated(rows, before) THEN before.offset + Limit ELSE Len(rows)
        IN /\ page \in Seq(Rows \X Times)
           /\ Truncated(rows, before) => Len(page) = Limit /\ end < Len(rows)
           /\ \A i \in DOMAIN page : page[i] = <<rows[before.offset + i], table[page[i][1]]>>
           /\ \A r \in Rows : \A t : <<r, t>> \in ToSet(page) <=>
                t = table[r] /\ \E k \in before.offset + 1 .. end : rows[k] = r
<1> DEFINE page == Page(rows, before)
           end == IF Truncated(rows, before) THEN before.offset + Limit ELSE Len(rows)
           length == IF Truncated(rows, before) THEN Limit ELSE Len(rows) - before.offset
<1>1. Window(before.value) \in SUBSET Rows BY DEF Window
<1>2. /\ rows \in Seq(Rows) /\ Len(rows) \in Nat /\ DOMAIN rows = 1 .. Len(rows)
      /\ \A i \in 1 .. Len(rows) : rows[i] \in Window(before.value)
  BY <1>1, Ordered
<1>3. before.offset \in Nat /\ before.value \in 0 .. MaxTime /\ Limit \in Nat
  BY RowNumbers DEF Watermarks
<1>4. /\ length \in Int /\ end \in Nat
      /\ \A i : i \in 1 .. length <=> before.offset + i \in before.offset + 1 .. end /\ i \in Int
      /\ \A i \in 1 .. length : before.offset + i \in 1 .. Len(rows)
      /\ Truncated(rows, before) => end < Len(rows)
  <2>1. Truncated(rows, before) => before.offset + Limit < Len(rows)
    BY <1>2, <1>3 DEF Truncated
  <2>2. /\ length \in Int /\ end \in Nat /\ end = before.offset + length
        /\ end <= Len(rows) /\ (Truncated(rows, before) => end < Len(rows))
    BY <2>1, <1>2, <1>3
  <2> HIDE DEF length, end
  <2>3. \A i : i \in 1 .. length <=> before.offset + i \in before.offset + 1 .. end /\ i \in Int
    BY <2>2, <1>3
  <2>4. \A i \in 1 .. length : before.offset + i \in 1 .. Len(rows)
    BY <2>2, <1>2, <1>3
  <2> QED BY <2>2, <2>3, <2>4
<1>5. \A x \in Window(before.value) : x \in Rows /\ table[x] \in Times
  BY <1>3, RowNumbers DEF Window, SourceTypeOK, Times
<1>6. page = [i \in 1 .. length |-> <<rows[before.offset + i], table[rows[before.offset + i]]>>]
  BY DEF Page
<1> HIDE DEF page, length, end
<1>7. \A i \in 1 .. length :
        page[i] = <<rows[before.offset + i], table[rows[before.offset + i]]>>
        /\ page[i] \in Rows \X Times
  BY <1>2, <1>4, <1>5, <1>6
<1>8. PICK l \in Nat : 1 .. l = 1 .. length /\ (length \in Nat => l = length)
  <2>1. CASE length \in Nat BY <2>1
  <2>2. CASE ~(length \in Nat) BY <2>2, <1>4
  <2> QED BY <2>1, <2>2
<1>9. page \in Seq(Rows \X Times) /\ Len(page) = l /\ DOMAIN page = 1 .. length
  <2>1. page = [i \in 1 .. l |-> page[i]] BY <1>6, <1>8
  <2>2. \A i \in 1 .. l : page[i] \in Rows \X Times BY <1>7, <1>8
  <2> QED BY <2>1, <2>2, <1>8
<1>10. Truncated(rows, before) => length = Limit BY DEF length
<1>11. ASSUME NEW r \in Rows, NEW t
       PROVE <<r, t>> \in ToSet(page) <=>
               t = table[r] /\ \E k \in before.offset + 1 .. end : rows[k] = r
  <2>1. ASSUME <<r, t>> \in ToSet(page)
        PROVE t = table[r] /\ \E k \in before.offset + 1 .. end : rows[k] = r
    <3>1. PICK i \in 1 .. length : page[i] = <<r, t>> BY <2>1, <1>9 DEF ToSet
    <3>2. before.offset + i \in before.offset + 1 .. end BY <1>4
    <3>3. <<r, t>> = <<rows[before.offset + i], table[rows[before.offset + i]]>> BY <3>1, <1>7
    <3> QED BY <3>2, <3>3
  <2>2. ASSUME t = table[r], NEW k \in before.offset + 1 .. end, rows[k] = r
        PROVE <<r, t>> \in ToSet(page)
    <3>1. k - before.offset \in 1 .. length /\ before.offset + (k - before.offset) = k
      <4>1. k - before.offset \in Int /\ before.offset + (k - before.offset) = k
        BY <1>3, <1>4
      <4> QED BY <4>1, <1>4
    <3>2. page[k - before.offset] = <<r, t>> BY <3>1, <2>2, <1>7
    <3> QED BY <3>1, <3>2, <1>9 DEF ToSet
  <2> QED BY <2>1, <2>2
<1>12. \A i \in DOMAIN page : page[i] = <<rows[before.offset + i], table[page[i][1]]>>
  BY <1>7, <1>9
<1> QED BY <1>3, <1>4, <1>8, <1>9, <1>10, <1>11, <1>12 DEF end, page
LEMMA SourceInitTyped == SourceInit => SourceTypeOK
  BY RowNumbers DEF SourceInit, SourceTypeOK

\* RemoveAt takes one place out of the lane; the others keep their order.
LEMMA PlaceRemoved ==
  ASSUME NEW s \in Seq(Requests), NEW i \in DOMAIN s
  PROVE LET t == RemoveAt(s, i) IN
        /\ t \in Seq(Requests) /\ DOMAIN t = 1 .. Len(s) - 1 /\ DOMAIN s = 1 .. Len(s)
        /\ \A k \in DOMAIN t : t[k] = IF k < i THEN s[k] ELSE s[k + 1]
<1> DEFINE a == SubSeq(s, 1, i - 1)
           b == SubSeq(s, i + 1, Len(s))
<1>1. i \in 1 .. Len(s) /\ Len(s) \in Nat /\ DOMAIN s = 1 .. Len(s) OBVIOUS
<1>2. /\ a \in Seq(Requests) /\ Len(a) = i - 1
      /\ \A k \in 1 .. i - 1 : a[k] = s[k]
  BY <1>1
<1>3. /\ b \in Seq(Requests) /\ Len(b) = Len(s) - i
      /\ \A k \in 1 .. Len(s) - i : b[k] = s[k + i]
  BY <1>1
<1>4. RemoveAt(s, i) = a \o b BY DEF RemoveAt
<1> HIDE DEF a, b
<1>5. a \o b \in Seq(Requests) /\ Len(a \o b) = Len(s) - 1 /\ DOMAIN (a \o b) = 1 .. Len(s) - 1
  <2>1. a \o b \in Seq(Requests) /\ Len(a \o b) = Len(a) + Len(b)
    BY <1>2, <1>3, ConcatProperties
  <2>2. Len(a) + Len(b) = Len(s) - 1 BY <1>1, <1>2, <1>3
  <2> QED BY <2>1, <2>2
<1>6. ASSUME NEW k \in 1 .. Len(s) - 1
      PROVE (a \o b)[k] = IF k < i THEN s[k] ELSE s[k + 1]
  <2>1. CASE k < i BY <2>1, <1>1, <1>2, <1>3
  <2>2. CASE ~(k < i)
    <3>1. k - Len(a) \in 1 .. Len(s) - i /\ k - Len(a) + i = k + 1 BY <2>2, <1>1, <1>2
    <3>2. (a \o b)[k] = b[k - Len(a)] BY <2>2, <1>1, <1>2, <1>3
    <3> QED BY <2>2, <3>1, <3>2, <1>3
  <2> QED BY <2>1, <2>2
<1> QED BY <1>1, <1>4, <1>5, <1>6

LEMMA LeaveTyped ==
  ASSUME SourceTypeOK, NEW q \in Requests, Leave(q)
  PROVE /\ run' = [run EXCEPT ![q] = Idle] /\ run' \in [Requests -> RequestType]
        /\ lane' \in Seq(Requests)
        /\ permits' = IF HoldsPermit(q) THEN permits + 1 ELSE permits
<1>1. run' = [run EXCEPT ![q] = Idle] /\ run' \in [Requests -> RequestType]
  BY RowNumbers DEF Leave, SourceTypeOK
<1>2. lane' \in Seq(Requests) BY PlaceRemoved DEF Leave, LeaveLane, SourceTypeOK
<1> QED BY <1>1, <1>2 DEF Leave, PermitBack

LEMMA ReadTyped ==
  ASSUME SourceTypeOK, NEW q \in Requests, ReadBatch(q)
  PROVE \E rows \in Orders(Window(run[q].before.value)), after \in Watermarks :
          LET before == run[q].before
              page == Page(rows, before)
          IN /\ WatermarkAfter(page, Truncated(rows, before), before, after)
             /\ page \in Seq(Rows \X Times) /\ before \in Watermarks
             /\ run' = [run EXCEPT ![q] = [run[q] EXCEPT !.phase = "streaming",
                                             !.rest = page, !.after = after]]
             /\ run' \in [Requests -> RequestType]
<1>1. PICK rows \in Orders(Window(run[q].before.value)), after \in Watermarks :
        /\ WatermarkAfter(Page(rows, run[q].before), Truncated(rows, run[q].before),
                          run[q].before, after)
        /\ run' = [run EXCEPT ![q].phase = "streaming", ![q].rest = Page(rows, run[q].before),
                              ![q].after = after]
  BY DEF ReadBatch
<1>2. run[q].before \in Watermarks /\ run[q] \in RequestType /\ run \in [Requests -> RequestType]
  BY DEF SourceTypeOK, RequestType
<1>3. Page(rows, run[q].before) \in Seq(Rows \X Times) BY <1>2, PageTyped
<1>4. PICK page : page = Page(rows, run[q].before) OBVIOUS
<1>5. run' = [run EXCEPT ![q] = [run[q] EXCEPT !.phase = "streaming", !.rest = page,
                                   !.after = after]]
  BY <1>1, <1>2, <1>4
<1>6. run' \in [Requests -> RequestType] BY <1>2, <1>3, <1>4, <1>5 DEF RequestType
<1> QED BY <1>1, <1>2, <1>3, <1>4, <1>5, <1>6

\* What a chunk takes is held by the gateway, the rest is still to come.
LEMMA ChunkTyped ==
  ASSUME SourceTypeOK, NEW q \in Requests, SendChunk(q)
  PROVE /\ run[q].phase = "streaming" /\ run' \in [Requests -> RequestType]
        /\ \A x \in Requests : x # q => run'[x] = run[x]
        /\ run'[q].before = run[q].before /\ run'[q].after = run[q].after
        /\ run'[q].current = run[q].current
        /\ \A x : x \in run'[q].got \cup ToSet(run'[q].rest) <=>
                    x \in run[q].got \cup ToSet(run[q].rest)
        /\ \/ run'[q].phase = "streaming"
           \/ run'[q].phase = "sent" /\ run'[q].rest = <<>>
<1>1. run[q] \in RequestType /\ run \in [Requests -> RequestType] BY DEF SourceTypeOK
<1>2. PICK n \in 0 .. ChunkRows :
        /\ n <= Len(run[q].rest)
        /\ LET rest == SubSeq(run[q].rest, n + 1, Len(run[q].rest)) IN
           /\ run' = [run EXCEPT ![q].rest = rest,
                        ![q].got = @ \cup ToSet(SubSeq(run[q].rest, 1, n)),
                        ![q].phase = IF FinalChunk(rest) THEN "sent" ELSE "streaming"]
  BY DEF SendChunk
<1>3. PICK old : old = run[q].rest OBVIOUS
<1>4. PICK rest : rest = SubSeq(old, n + 1, Len(old)) OBVIOUS
<1>5. PICK given : given = SubSeq(old, 1, n) OBVIOUS
<1>6. old \in Seq(Rows \X Times) /\ n \in Nat /\ n <= Len(old) /\ Len(old) \in Nat
  BY <1>1, <1>2, <1>3, RowNumbers DEF RequestType
<1>7. /\ given \in Seq(Rows \X Times) /\ DOMAIN given = 1 .. n
      /\ \A i \in 1 .. n : given[i] = old[i]
  BY <1>5, <1>6
<1>8. /\ rest \in Seq(Rows \X Times) /\ DOMAIN rest = 1 .. Len(old) - n
      /\ \A i \in 1 .. Len(old) - n : rest[i] = old[i + n]
  BY <1>4, <1>6
<1>9. ASSUME NEW x PROVE x \in ToSet(old) <=> x \in ToSet(given) \/ x \in ToSet(rest)
  <2>1. ASSUME x \in ToSet(old) PROVE x \in ToSet(given) \/ x \in ToSet(rest)
    <3>1. PICK i \in 1 .. Len(old) : old[i] = x BY <2>1, <1>6 DEF ToSet
    <3>2. CASE i <= n
      <4>1. i \in 1 .. n /\ given[i] = x BY <3>1, <3>2, <1>6, <1>7
      <4>2. x \in ToSet(given) BY <4>1, <1>7 DEF ToSet
      <4> QED BY <4>2
    <3>3. CASE i > n
      <4>1. i - n \in 1 .. Len(old) - n /\ i - n + n = i BY <3>1, <3>3, <1>6
      <4>2. rest[i - n] = x BY <3>1, <4>1, <1>8
      <4>3. x \in ToSet(rest) BY <4>1, <4>2, <1>8 DEF ToSet
      <4> QED BY <4>3
    <3> QED BY <3>1, <3>2, <3>3, <1>6
  <2>2. ASSUME x \in ToSet(given) PROVE x \in ToSet(old)
    BY <2>2, <1>6, <1>7 DEF ToSet
  <2>3. ASSUME x \in ToSet(rest) PROVE x \in ToSet(old)
    <3>1. PICK i \in 1 .. Len(old) - n : rest[i] = x BY <2>3, <1>8 DEF ToSet
    <3>2. i + n \in 1 .. Len(old) BY <3>1, <1>6
    <3> QED BY <3>1, <3>2, <1>6, <1>8 DEF ToSet
  <2> QED BY <2>1, <2>2, <2>3
<1>10. PICK phase : phase = IF FinalChunk(rest) THEN "sent" ELSE "streaming" OBVIOUS
<1>11. PICK got : got = run[q].got \cup ToSet(given) OBVIOUS
<1>12. run' = [run EXCEPT ![q] = [run[q] EXCEPT !.rest = rest, !.got = got, !.phase = phase]]
  BY <1>1, <1>2, <1>3, <1>4, <1>5, <1>10, <1>11
<1>13. got \subseteq Rows \X Times
  <2>1. \A x \in ToSet(given) : x \in Rows \X Times BY <1>7 DEF ToSet
  <2> QED BY <2>1, <1>1, <1>11 DEF RequestType
<1>14. run' \in [Requests -> RequestType]
  BY <1>1, <1>8, <1>10, <1>12, <1>13 DEF RequestType
<1>15. run'[q] = [run[q] EXCEPT !.rest = rest, !.got = got, !.phase = phase]
  BY <1>1, <1>12
<1>16. /\ run'[q].rest = rest /\ run'[q].got = got /\ run'[q].phase = phase
       /\ run'[q].before = run[q].before /\ run'[q].after = run[q].after
       /\ run'[q].current = run[q].current
  BY <1>1, <1>15 DEF RequestType
<1>18. \A x : x \in run'[q].got \cup ToSet(run'[q].rest) <=>
                x \in run[q].got \cup ToSet(run[q].rest)
  BY <1>3, <1>9, <1>11, <1>16
<1>19. \A x \in Requests : x # q => run'[x] = run[x] BY <1>1, <1>12
<1> QED
  BY <1>10, <1>14, <1>16, <1>18, <1>19 DEF SendChunk, FinalChunk

-----------------------------------------------------------------------------
(***************************************************************************)
(* Permits and lane come back.                                             *)
(***************************************************************************)

\* A request stays in the lane while it is queued; a permit is taken by each
\* request that is queued or whose stream has not ended.
Laned ==
  /\ \A i \in DOMAIN lane : run[lane[i]].phase = "queued"
  /\ \A i, j \in DOMAIN lane : lane[i] = lane[j] => i = j
Holders == {q \in Requests : HoldsPermit(q)}
Permitted == permits = MaxInFlight - Cardinality(Holders)
Served == SourceTypeOK /\ Laned /\ Permitted

LEMMA HolderCount ==
  /\ IsFiniteSet(Holders) /\ Cardinality(Holders) \in Nat
  /\ IsFiniteSet(Holders') /\ Cardinality(Holders') \in Nat
  /\ Holders = {} <=> Cardinality(Holders) = 0
<1>1. Holders \in SUBSET Requests /\ Holders' \in SUBSET Requests BY DEF Holders
<1>2. IsFiniteSet(Holders) /\ IsFiniteSet(Holders') BY <1>1, RowNumbers, FS_Subset
<1> QED BY <1>2, FS_CardinalityType, FS_EmptySet

\* One request takes its permit, gives it back or does neither.
LEMMA PermitsFollow ==
  ASSUME Served, NEW q \in Requests, \A x \in Requests \ {q} : HoldsPermit(x)' <=> HoldsPermit(x),
         \/ (HoldsPermit(q)' <=> HoldsPermit(q)) /\ permits' = permits
         \/ HoldsPermit(q) /\ ~HoldsPermit(q)' /\ permits' = permits + 1
         \/ ~HoldsPermit(q) /\ HoldsPermit(q)' /\ permits' = permits - 1
  PROVE Permitted'
<1>0. permits = MaxInFlight - Cardinality(Holders) BY DEF Served, Permitted
<1>1. CASE (HoldsPermit(q)' <=> HoldsPermit(q)) /\ permits' = permits
  <2>1. Holders' = Holders BY <1>1 DEF Holders
  <2> QED BY <1>0, <1>1, <2>1 DEF Permitted
<1>2. CASE HoldsPermit(q) /\ ~HoldsPermit(q)' /\ permits' = permits + 1
  <2>1. Holders' = Holders \ {q} /\ q \in Holders BY <1>2 DEF Holders
  <2>2. Cardinality(Holders') = Cardinality(Holders) - 1
    BY <2>1, HolderCount, FS_RemoveElement
  <2>3. permits' = permits + 1 BY <1>2
  <2>4. permits' = MaxInFlight - Cardinality(Holders')
    BY <1>0, <2>2, <2>3, HolderCount, RowNumbers
  <2> QED BY <2>4 DEF Permitted
<1>3. CASE ~HoldsPermit(q) /\ HoldsPermit(q)' /\ permits' = permits - 1
  <2>1. Holders' = Holders \cup {q} /\ q \notin Holders BY <1>3 DEF Holders
  <2>2. Cardinality(Holders') = Cardinality(Holders) + 1
    BY <2>1, HolderCount, FS_AddElement
  <2>3. permits' = permits - 1 BY <1>3
  <2>4. permits' = MaxInFlight - Cardinality(Holders')
    BY <1>0, <2>2, <2>3, HolderCount, RowNumbers
  <2> QED BY <2>4 DEF Permitted
<1> QED BY <1>1, <1>2, <1>3

LEMMA PermitsBounded ==
  ASSUME Permitted', permits' \in Int PROVE permits' <= MaxInFlight
  BY HolderCount, RowNumbers DEF Permitted

LEMMA LeaveServed ==
  ASSUME Served, NEW q \in Requests, Leave(q), UNCHANGED <<data, exposed, gateway>>,
         faults' \in 0 .. MaxFaults
  PROVE Served'
<1>1. /\ run' = [run EXCEPT ![q] = Idle] /\ run' \in [Requests -> RequestType]
      /\ lane' \in Seq(Requests)
      /\ permits' = IF HoldsPermit(q) THEN permits + 1 ELSE permits
  BY LeaveTyped DEF Served
<1>2. run'[q].phase = "idle" /\ \A x \in Requests \ {q} : run'[x] = run[x]
  BY <1>1 DEF Idle, Served, SourceTypeOK
<1>3. ~HoldsPermit(q)' /\ \A x \in Requests \ {q} : HoldsPermit(x)' <=> HoldsPermit(x)
  BY <1>2 DEF HoldsPermit
<1>4. HoldsPermit(q) \in BOOLEAN /\ permits \in 0 .. MaxInFlight
  BY DEF HoldsPermit, Served, SourceTypeOK
<1>5. Permitted'
  <2>1. CASE HoldsPermit(q) BY <2>1, <1>1, <1>3, PermitsFollow
  <2>2. CASE ~HoldsPermit(q) BY <2>2, <1>1, <1>3, PermitsFollow
  <2> QED BY <2>1, <2>2
<1>6. permits' \in Int /\ permits' >= 0 BY <1>1, <1>4, RowNumbers
<1>7. permits' \in 0 .. MaxInFlight BY <1>5, <1>6, PermitsBounded, RowNumbers
<1>8. SourceTypeOK' BY <1>1, <1>7 DEF Served, SourceTypeOK, data, gateway
<1>9. Laned'
  <2>1. CASE q \notin ToSet(lane) /\ lane' = lane
    <3>1. \A i \in DOMAIN lane : lane[i] # q /\ lane[i] \in Requests
      BY <2>1 DEF ToSet, Served, SourceTypeOK
    <3> QED BY <2>1, <3>1, <1>2 DEF Laned, Served
  <2>2. ASSUME NEW i \in DOMAIN lane, lane[i] = q, lane' = RemoveAt(lane, i)
        PROVE Laned'
    <3>1. /\ DOMAIN lane' = 1 .. Len(lane) - 1 /\ DOMAIN lane = 1 .. Len(lane)
          /\ Len(lane) \in Nat /\ i \in 1 .. Len(lane)
          /\ \A k \in DOMAIN lane' : lane'[k] = IF k < i THEN lane[k] ELSE lane[k + 1]
      BY <2>2, PlaceRemoved DEF Served, SourceTypeOK
    <3>2. ASSUME NEW k \in DOMAIN lane'
          PROVE \E l \in DOMAIN lane : /\ l # i /\ lane'[k] = lane[l]
                                       /\ l = IF k < i THEN k ELSE k + 1
      BY <3>1
    <3>3. \A k \in DOMAIN lane' : lane'[k] \in Requests \ {q} /\ run[lane'[k]].phase = "queued"
      BY <2>2, <3>2 DEF Laned, Served, SourceTypeOK
    <3>4. ASSUME NEW k \in DOMAIN lane', NEW m \in DOMAIN lane', lane'[k] = lane'[m]
          PROVE k = m
      <4>1. PICK l \in DOMAIN lane : lane'[k] = lane[l] /\ l = IF k < i THEN k ELSE k + 1
        BY <3>2
      <4>2. PICK o \in DOMAIN lane : lane'[m] = lane[o] /\ o = IF m < i THEN m ELSE m + 1
        BY <3>2
      <4>3. l = o BY <3>4, <4>1, <4>2 DEF Laned, Served
      <4> QED BY <3>1, <4>1, <4>2, <4>3
    <3> QED BY <3>3, <3>4, <1>2 DEF Laned
  <2> QED BY <2>1, <2>2 DEF Leave, LeaveLane
<1> QED BY <1>5, <1>8, <1>9 DEF Served

LEMMA AcceptServed ==
  ASSUME Served, NEW q \in Requests, Accept(q)
  PROVE /\ Served' /\ \A x \in Requests \ {q} : run'[x] = run[x]
        /\ run'[q].phase = "queued" /\ run'[q].before = watermark
        /\ run'[q].after = NoWatermark /\ run'[q].rest = <<>> /\ run'[q].got = {}
<1>1. PICK r : r = [Idle EXCEPT !.phase = "queued", !.before = watermark, !.current = TRUE]
  OBVIOUS
<1>0. run' = [run EXCEPT ![q] = r] BY <1>1 DEF Accept
<1>2. /\ run \in [Requests -> RequestType] /\ watermark \in Watermarks
      /\ NoWatermark \in Watermarks /\ lane \in Seq(Requests) /\ permits \in 0 .. MaxInFlight
      /\ run[q].phase = "idle" /\ permits > 0 /\ permits' = permits - 1
      /\ lane' = Append(lane, q)
  BY RowNumbers DEF Accept, Served, SourceTypeOK
<1>3. /\ run' \in [Requests -> RequestType] /\ r.phase = "queued" /\ r.before = watermark
      /\ r.after = NoWatermark /\ r.rest = <<>> /\ r.got = {}
  <2>1. r \in RequestType BY <1>1, <1>2, RowNumbers DEF RequestType
  <2>2. /\ r.phase = "queued" /\ r.before = watermark
        /\ r.after = NoWatermark /\ r.rest = <<>> /\ r.got = {}
    BY <1>1 DEF Idle
  <2> QED BY <1>0, <1>2, <2>1, <2>2
<1>4. run'[q].phase = "queued" /\ \A x \in Requests \ {q} : run'[x] = run[x]
  BY <1>0, <1>2, <1>3
<1>5. Permitted'
  <2>1. HoldsPermit(q)' /\ ~HoldsPermit(q) BY <1>2, <1>4 DEF HoldsPermit
  <2>2. \A x \in Requests \ {q} : HoldsPermit(x)' <=> HoldsPermit(x)
    BY <1>4 DEF HoldsPermit
  <2> QED BY <1>2, <2>1, <2>2, PermitsFollow
<1>6. permits' \in 0 .. MaxInFlight BY <1>2, RowNumbers
<1>7. /\ lane' \in Seq(Requests) /\ Len(lane') = Len(lane) + 1 /\ Len(lane) \in Nat
      /\ DOMAIN lane = 1 .. Len(lane) /\ DOMAIN lane' = 1 .. Len(lane')
      /\ \A k \in 1 .. Len(lane') : lane'[k] = IF k <= Len(lane) THEN lane[k] ELSE q
  <2>1. lane' \in Seq(Requests) /\ Len(lane') = Len(lane) + 1 /\ Len(lane) \in Nat
    BY <1>2, AppendProperties
  <2>2. /\ \A k \in 1 .. Len(lane) : lane'[k] = lane[k]
        /\ lane'[Len(lane) + 1] = q
    BY <1>2, AppendProperties
  <2>3. ASSUME NEW k \in 1 .. Len(lane'), ~(k <= Len(lane)) PROVE k = Len(lane) + 1
    BY <2>1, <2>3
  <2>4. \A k \in 1 .. Len(lane') : lane'[k] = IF k <= Len(lane) THEN lane[k] ELSE q
    BY <2>1, <2>2, <2>3
  <2>5. DOMAIN lane = 1 .. Len(lane) /\ DOMAIN lane' = 1 .. Len(lane') BY <1>2, <2>1
  <2> QED BY <2>1, <2>4, <2>5
<1>8. \A k \in 1 .. Len(lane) : lane[k] \in Requests \ {q} /\ run[lane[k]].phase = "queued"
  BY <1>2, <1>7 DEF Served, Laned
<1>9. Laned'
  <2>1. ASSUME NEW k \in DOMAIN lane' PROVE run'[lane'[k]].phase = "queued"
    <3>1. CASE k <= Len(lane)
      <4>1. k \in 1 .. Len(lane) /\ lane'[k] = lane[k] BY <3>1, <1>7, <2>1
      <4> QED BY <4>1, <1>4, <1>8
    <3>2. CASE ~(k <= Len(lane))
      <4>1. lane'[k] = q BY <3>2, <1>7, <2>1
      <4> QED BY <4>1, <1>4
    <3> QED BY <3>1, <3>2
  <2>2. ASSUME NEW i \in DOMAIN lane', NEW j \in DOMAIN lane', lane'[i] = lane'[j]
        PROVE i = j
    <3>1. CASE i <= Len(lane) /\ j <= Len(lane)
      <4>1. i \in DOMAIN lane /\ j \in DOMAIN lane /\ lane[i] = lane[j]
        BY <3>1, <2>2, <1>7
      <4> QED BY <4>1 DEF Served, Laned
    <3>2. CASE ~(i <= Len(lane)) /\ ~(j <= Len(lane)) BY <3>2, <1>7
    <3>3. CASE i <= Len(lane) /\ ~(j <= Len(lane))
      <4>1. i \in 1 .. Len(lane) /\ lane'[i] = lane[i] BY <3>3, <2>2, <1>7
      <4>2. lane'[j] = q BY <3>3, <2>2, <1>7
      <4> QED BY <4>1, <4>2, <2>2, <1>8
    <3>4. CASE ~(i <= Len(lane)) /\ j <= Len(lane)
      <4>1. j \in 1 .. Len(lane) /\ lane'[j] = lane[j] BY <3>4, <2>2, <1>7
      <4>2. lane'[i] = q BY <3>4, <2>2, <1>7
      <4> QED BY <4>1, <4>2, <2>2, <1>8
    <3> QED BY <3>1, <3>2, <3>3, <3>4
  <2> QED BY <2>1, <2>2 DEF Laned
<1>10. SourceTypeOK' BY <1>3, <1>6, <1>7 DEF Accept, Served, SourceTypeOK, data, gateway
<1> QED
  BY <1>0, <1>2, <1>3, <1>4, <1>5, <1>9, <1>10 DEF Served

\* A request leaves the head of the lane for another phase and keeps its permit.
LEMMA HeadServed ==
  ASSUME Served, NEW q \in Requests, HoldsLane(q), lane' = Tail(lane), permits' = permits,
         NEW new \in RequestType, new.phase \in {"streaming", "closing"},
         run' = [run EXCEPT ![q] = new]
  PROVE /\ Laned' /\ Permitted' /\ lane' \in Seq(Requests)
        /\ run' \in [Requests -> RequestType] /\ run[q].phase = "queued"
        /\ run'[q] = new /\ \A x \in Requests \ {q} : run'[x] = run[x]
<1>1. /\ run \in [Requests -> RequestType] /\ lane \in Seq(Requests) /\ lane # <<>>
      /\ q = lane[1]
  BY DEF HoldsLane, Served, SourceTypeOK
<1>2. run[q].phase = "queued"
  <2>1. 1 \in DOMAIN lane BY <1>1
  <2> QED BY <1>1, <2>1 DEF Served, Laned
<1>3. /\ run' \in [Requests -> RequestType] /\ run'[q] = new
      /\ \A x \in Requests \ {q} : run'[x] = run[x]
  BY <1>1
<1>4. Permitted'
  <2>1. HoldsPermit(q)' /\ HoldsPermit(q) BY <1>2, <1>3 DEF HoldsPermit
  <2>2. \A x \in Requests \ {q} : HoldsPermit(x)' <=> HoldsPermit(x)
    BY <1>3 DEF HoldsPermit
  <2> QED BY <2>1, <2>2, PermitsFollow
<1>5. /\ lane' \in Seq(Requests) /\ Len(lane) \in Nat /\ Len(lane') = Len(lane) - 1
      /\ DOMAIN lane = 1 .. Len(lane) /\ DOMAIN lane' = 1 .. Len(lane')
      /\ \A k \in 1 .. Len(lane') : lane'[k] = lane[k + 1] /\ k + 1 \in 1 .. Len(lane)
  BY <1>1
<1>6. Laned'
  <2>1. \A k \in DOMAIN lane' : lane'[k] \in Requests \ {q} /\ run[lane'[k]].phase = "queued"
    BY <1>1, <1>5 DEF Served, Laned
  <2>2. ASSUME NEW i \in DOMAIN lane', NEW j \in DOMAIN lane', lane'[i] = lane'[j]
        PROVE i = j
    <3>1. i + 1 \in DOMAIN lane /\ j + 1 \in DOMAIN lane /\ lane[i + 1] = lane[j + 1]
      BY <2>2, <1>5
    <3>2. i + 1 = j + 1 BY <3>1 DEF Served, Laned
    <3> QED BY <3>2, <1>5
  <2> QED BY <1>3, <2>1, <2>2 DEF Laned
<1> QED BY <1>2, <1>3, <1>4, <1>5, <1>6

LEMMA ReadServed ==
  ASSUME Served, NEW q \in Requests, ReadBatch(q)
  PROVE Served' /\ run[q].phase = "queued"
<1>1. PICK page, after :
        /\ run' = [run EXCEPT ![q] = [run[q] EXCEPT !.phase = "streaming",
                                        !.rest = page, !.after = after]]
        /\ run' \in [Requests -> RequestType]
  BY ReadTyped DEF Served
<1>2. PICK new : new = [run[q] EXCEPT !.phase = "streaming", !.rest = page, !.after = after]
  OBVIOUS
<1>3. new \in RequestType /\ new.phase = "streaming"
  <2>1. run \in [Requests -> RequestType] BY DEF Served, SourceTypeOK
  <2>2. run'[q] = new BY <1>1, <1>2, <2>1
  <2> QED BY <1>1, <1>2, <2>1, <2>2 DEF RequestType
<1>4. HoldsLane(q) /\ lane' = Tail(lane) /\ permits' = permits BY DEF ReadBatch
<1>5. /\ Laned' /\ Permitted' /\ lane' \in Seq(Requests)
      /\ run' \in [Requests -> RequestType] /\ run[q].phase = "queued"
  BY <1>1, <1>2, <1>3, <1>4, HeadServed
<1>6. exposed' \in SUBSET Rows
  <2>1. exposed \in SUBSET Rows BY DEF Served, SourceTypeOK
  <2>2. Torn(run[q].before) \in SUBSET Rows BY DEF Torn, Window
  <2> QED BY <2>1, <2>2 DEF ReadBatch
<1>7. SourceTypeOK'
  BY <1>4, <1>5, <1>6 DEF ReadBatch, Served, SourceTypeOK, data, gateway
<1> QED BY <1>5, <1>7 DEF Served

LEMMA FailServed ==
  ASSUME Served, NEW q \in Requests, ReadFails(q)
  PROVE /\ Served' /\ run'[q].phase = "closing" /\ ~run'[q].current
        /\ \A x \in Requests \ {q} : run'[x] = run[x]
<1>1. PICK new : new = [Idle EXCEPT !.phase = "closing"] OBVIOUS
<1>2. new \in RequestType /\ new.phase = "closing" /\ ~new.current
  BY <1>1, RowNumbers DEF Idle, RequestType
<1>3. HoldsLane(q) /\ lane' = Tail(lane) /\ permits' = permits /\ run' = [run EXCEPT ![q] = new]
  BY <1>1 DEF ReadFails
<1>4. /\ Laned' /\ Permitted' /\ lane' \in Seq(Requests)
      /\ run' \in [Requests -> RequestType]
      /\ run'[q] = new /\ \A x \in Requests \ {q} : run'[x] = run[x]
  BY <1>2, <1>3, HeadServed
<1>5. faults' \in 0 .. MaxFaults BY RowNumbers DEF ReadFails, Fault, Served, SourceTypeOK
<1>6. SourceTypeOK'
  BY <1>3, <1>4, <1>5 DEF ReadFails, Served, SourceTypeOK, data, gateway
<1> QED BY <1>2, <1>4, <1>6 DEF Served

LEMMA ChunkServed ==
  ASSUME Served, NEW q \in Requests, SendChunk(q) PROVE Served'
<1>1. /\ run[q].phase = "streaming" /\ run' \in [Requests -> RequestType]
      /\ \A x \in Requests : x # q => run'[x] = run[x]
      /\ run'[q].phase \in {"streaming", "sent"} /\ permits' = permits /\ lane' = lane
  BY ChunkTyped DEF Served, SendChunk
<1>2. Permitted'
  <2>1. HoldsPermit(q) /\ HoldsPermit(q)' BY <1>1 DEF HoldsPermit
  <2>2. \A x \in Requests \ {q} : HoldsPermit(x)' <=> HoldsPermit(x)
    BY <1>1 DEF HoldsPermit
  <2> QED BY <1>1, <2>1, <2>2, PermitsFollow
<1>3. SourceTypeOK' BY <1>1 DEF SendChunk, Served, SourceTypeOK, data, gateway
<1>4. \A i \in DOMAIN lane : lane[i] \in Requests \ {q}
  BY <1>1 DEF Served, Laned, SourceTypeOK
<1>5. Laned' BY <1>1, <1>4 DEF Served, Laned
<1> QED BY <1>2, <1>3, <1>5 DEF Served

LEMMA EndServed ==
  ASSUME Served, NEW q \in Requests, EndStream(q)
  PROVE /\ Served' /\ \A x \in Requests \ {q} : run'[x] = run[x]
        /\ \/ run[q].phase = "sent" /\ run'[q] = [run[q] EXCEPT !.phase = "delivered"]
           \/ run[q].phase = "closing" /\ run'[q] = Idle
<1>1. /\ run \in [Requests -> RequestType] /\ run[q] \in RequestType
      /\ run[q].phase \in {"sent", "closing"} /\ permits' = permits + 1 /\ lane' = lane
      /\ permits \in 0 .. MaxInFlight
  BY DEF EndStream, Served, SourceTypeOK
<1>2. PICK new : new = IF run[q].phase = "sent" THEN [run[q] EXCEPT !.phase = "delivered"]
                       ELSE Idle
  OBVIOUS
<1>3. run' = [run EXCEPT ![q] = new] BY <1>2 DEF EndStream
<1>4. new \in RequestType /\ new.phase \in {"delivered", "idle"}
  <2>1. CASE run[q].phase = "sent" BY <2>1, <1>1, <1>2 DEF RequestType
  <2>2. CASE run[q].phase # "sent" BY <2>2, <1>2, RowNumbers DEF Idle
  <2> QED BY <2>1, <2>2
<1>5. /\ run' \in [Requests -> RequestType] /\ run'[q] = new
      /\ \A x \in Requests \ {q} : run'[x] = run[x]
  BY <1>1, <1>3, <1>4
<1>6. Permitted'
  <2>1. HoldsPermit(q) /\ ~HoldsPermit(q)' BY <1>1, <1>4, <1>5 DEF HoldsPermit
  <2>2. \A x \in Requests \ {q} : HoldsPermit(x)' <=> HoldsPermit(x)
    BY <1>5 DEF HoldsPermit
  <2> QED BY <1>1, <2>1, <2>2, PermitsFollow
<1>7. permits' \in 0 .. MaxInFlight
  <2>1. permits' \in Int /\ permits' >= 0 BY <1>1, RowNumbers
  <2> QED BY <1>6, <2>1, PermitsBounded, RowNumbers
<1>8. SourceTypeOK' BY <1>1, <1>5, <1>7 DEF EndStream, Served, SourceTypeOK, data, gateway
<1>9. \A i \in DOMAIN lane : lane[i] \in Requests \ {q}
  BY <1>1 DEF Served, Laned, SourceTypeOK
<1>10. Laned' BY <1>1, <1>5, <1>9 DEF Served, Laned
<1> QED BY <1>1, <1>2, <1>5, <1>6, <1>8, <1>10 DEF Served

LEMMA CommitServed ==
  ASSUME Served, NEW q \in Requests, Commit(q)
  PROVE /\ Served' /\ run[q].phase \in {"sent", "delivered"} /\ run'[q] = Done(q)
        /\ \A x \in Requests \ {q} :
             run'[x] = IF run[q].current THEN [run[x] EXCEPT !.current = FALSE] ELSE run[x]
<1>0. /\ Done(q) \in RequestType /\ ~Done(q).current
      /\ Done(q).phase = IF HoldsPermit(q) THEN "closing" ELSE "idle"
  BY RowNumbers DEF Done, Idle, RequestType
<1>1. /\ run \in [Requests -> RequestType] /\ run[q].phase \in {"sent", "delivered"}
      /\ permits' = permits /\ lane' = lane
  BY DEF Commit, Served, SourceTypeOK
<1>2. /\ run' \in [Requests -> RequestType] /\ run'[q] = Done(q)
      /\ \A x \in Requests \ {q} :
           run'[x] = IF run[q].current THEN [run[x] EXCEPT !.current = FALSE] ELSE run[x]
  <2>1. \A x \in Requests : [run[x] EXCEPT !.current = FALSE] \in RequestType
    BY <1>1 DEF RequestType
  <2>2. CASE run[q].current
    <3>1. run' = [x \in Requests |->
               IF x = q THEN Done(q) ELSE [run[x] EXCEPT !.current = FALSE]]
      BY <2>2 DEF Commit
    <3> QED BY <1>0, <1>1, <2>1, <2>2, <3>1
  <2>3. CASE ~run[q].current
    <3>1. run' = [run EXCEPT ![q] = Done(q)] BY <2>3 DEF Commit
    <3> QED BY <1>0, <1>1, <2>3, <3>1
  <2> QED BY <2>2, <2>3
<1>3. /\ HoldsPermit(q)' <=> HoldsPermit(q)
      /\ \A x \in Requests \ {q} : run'[x].phase = run[x].phase
  <2>1. ASSUME NEW x \in Requests \ {q} PROVE run'[x].phase = run[x].phase
    <3>1. [run[x] EXCEPT !.current = FALSE].phase = run[x].phase BY <1>1 DEF RequestType
    <3> QED BY <3>1, <1>2
  <2>2. HoldsPermit(q)' <=> HoldsPermit(q) BY <1>0, <1>2 DEF HoldsPermit
  <2> QED BY <2>1, <2>2
<1>4. Permitted'
  <2>1. \A x \in Requests \ {q} : HoldsPermit(x)' <=> HoldsPermit(x)
    BY <1>3 DEF HoldsPermit
  <2> QED BY <1>1, <1>3, <2>1, PermitsFollow
<1>5. watermark' \in Watermarks /\ taken' \in [Rows -> 0 .. MaxTime]
  <2>1. CASE run[q].current
    <3>1. /\ watermark' = run[q].after
          /\ taken' = [r \in Rows |->
               IF \E t \in Times : <<r, t>> \in run[q].got
               THEN CHOOSE t \in Times : <<r, t>> \in run[q].got
               ELSE taken[r]]
      BY <2>1 DEF Commit
    <3>2. \A r \in Rows : taken'[r] \in 0 .. MaxTime
      <4>1. TAKE r \in Rows
      <4>2. CASE \E t \in Times : <<r, t>> \in run[q].got
        <5>1. taken'[r] \in Times BY <3>1, <4>2
        <5> QED BY <5>1, RowNumbers DEF Times
      <4>3. CASE ~\E t \in Times : <<r, t>> \in run[q].got
        BY <3>1, <4>3 DEF Served, SourceTypeOK
      <4> QED BY <4>2, <4>3
    <3> QED BY <1>1, <3>1, <3>2 DEF RequestType
  <2>2. CASE ~run[q].current BY <2>2 DEF Commit, gateway, Served, SourceTypeOK
  <2> QED BY <2>1, <2>2
<1>6. SourceTypeOK' BY <1>1, <1>2, <1>5 DEF Commit, Served, SourceTypeOK, data
<1>7. Laned'
  <2>1. \A i \in DOMAIN lane : lane[i] \in Requests \ {q} BY <1>1 DEF Served, Laned, SourceTypeOK
  <2> QED BY <1>1, <1>3, <2>1 DEF Served, Laned
<1> QED BY <1>1, <1>2, <1>4, <1>6, <1>7 DEF Served

LEMMA WriteServed ==
  ASSUME Served, NEW S \in SUBSET Rows, NEW t \in 0 .. MaxTime, Write(S, t) PROVE Served'
<1>1. changes' \in 0 .. MaxChanges /\ table' \in [Rows -> 0 .. MaxTime]
  BY RowNumbers DEF Write, Served, SourceTypeOK
<1>2. exposed' \in SUBSET Rows
  <2>1. exposed \in SUBSET Rows /\ Hidden(table', S) \in SUBSET Rows
    BY DEF Hidden, Served, SourceTypeOK
  <2> QED BY <2>1 DEF Write
<1>3. SourceTypeOK' BY <1>1, <1>2 DEF Write, Served, SourceTypeOK, gateway
<1>4. Laned' BY DEF Write, Served, Laned
<1>5. Permitted'
  <2>1. Holders' = Holders BY DEF Write, Holders, HoldsPermit
  <2> QED BY <2>1 DEF Write, Served, Permitted
<1> QED BY <1>3, <1>4, <1>5 DEF Served

LEMMA FaultServed ==
  ASSUME Served, NEW q \in Requests, Timeout(q) \/ Cut(q)
  PROVE Served' /\ Leave(q) /\ UNCHANGED <<data, exposed, gateway>>
<1>1. Leave(q) /\ UNCHANGED <<data, exposed, gateway>> /\ Fault BY DEF Timeout, Cut
<1>2. faults' \in 0 .. MaxFaults BY <1>1, RowNumbers DEF Fault, Served, SourceTypeOK
<1> QED BY <1>1, <1>2, LeaveServed

LEMMA SourceInitServed == SourceInit => Served
<1> SUFFICES ASSUME SourceInit PROVE Served OBVIOUS
<1>1. SourceTypeOK BY SourceInitTyped
<1>2. Laned BY DEF SourceInit, Laned
<1>3. Holders = {} BY DEF SourceInit, Holders, HoldsPermit, Idle
<1>4. Permitted BY <1>3, HolderCount, RowNumbers DEF SourceInit, Permitted
<1> QED BY <1>1, <1>2, <1>4 DEF Served

LEMMA SourceStepServed == Served /\ [SourceNext]_sourceVars => Served'
<1> SUFFICES ASSUME Served, [SourceNext]_sourceVars PROVE Served' OBVIOUS
<1>1. ASSUME NEW q \in Requests, Work(q) PROVE Served'
  BY <1>1, AcceptServed, ReadServed, ChunkServed, EndServed, CommitServed DEF Work
<1>2. ASSUME NEW q \in Requests, ReadFails(q) \/ Timeout(q) \/ Cut(q) PROVE Served'
  BY <1>2, FailServed, FaultServed
<1>3. CASE UNCHANGED sourceVars
  BY <1>3 DEF sourceVars, data, gateway, Served, SourceTypeOK, Laned, Permitted, Holders,
       HoldsPermit
<1> QED BY <1>1, <1>2, <1>3, WriteServed DEF SourceNext

\* Every variable of the incremental reads keeps its type and no permit is given
\* back twice, for any rows, requests, pages, chunks and faults (source_sidecar.rs,
\* in_flight of managed_server.rs).
THEOREM SourceTypes == SourceSpec => []SourceTypeOK
<1>1. Served => SourceTypeOK BY DEF Served
<1> QED BY <1>1, SourceInitServed, SourceStepServed, PTL DEF SourceSpec

\* However requests end (answered, failed, timed out at the lane, cut off in the
\* stream), once none is served every permit is back and nobody is in the lane, for
\* any number of requests and permits (OwnedSemaphorePermit in
\* frame_stream_response, the lane's guard).
THEOREM PermitsComeBack == SourceSpec => []NothingLeaks
<1>1. Served => NothingLeaks
  <2> SUFFICES ASSUME Served, \A q \in Requests : ~HoldsPermit(q)
               PROVE permits = MaxInFlight /\ lane = <<>>
    BY DEF NothingLeaks
  <2>1. Holders = {} BY DEF Holders
  <2>2. permits = MaxInFlight BY <2>1, HolderCount, RowNumbers DEF Served, Permitted
  <2>3. lane = <<>>
    <3>1. \A i \in DOMAIN lane : lane[i] \in Requests /\ HoldsPermit(lane[i])
      BY DEF Served, Laned, SourceTypeOK, HoldsPermit
    <3>2. DOMAIN lane = {} BY <3>1
    <3> QED BY <3>2 DEF Served, SourceTypeOK
  <2> QED BY <2>2, <2>3
<1> QED BY <1>1, SourceInitServed, SourceStepServed, PTL DEF SourceSpec

-----------------------------------------------------------------------------
(***************************************************************************)
(* The watermark passes no row.                                            *)
(***************************************************************************)

\* Only a request under the committed watermark may still be committed.
Asked ==
  \A q \in Requests :
    /\ run[q].phase \in {"idle", "closing"} => ~run[q].current
    /\ run[q].phase = "queued" => run[q].got = {}
    /\ run[q].phase \in {"sent", "delivered"} => run[q].rest = <<>>
    /\ run[q].current => run[q].before = watermark

\* It carries, or the gateway has, every row its next watermark passes, as it is,
\* unless writers put the row out of reach.
Carried(q) == run[q].got \cup ToSet(run[q].rest)
Carries(q) ==
  run[q].phase \in {"streaming", "sent", "delivered"} /\ run[q].current =>
    \A r \in Rows \ exposed : Passed(table, run[q].after, r) =>
      /\ \A t \in Times : <<r, t>> \in Carried(q) => t = table[r]
      /\ <<r, table[r]>> \in Carried(q) \/ taken[r] = table[r]

CoverInv == Asked /\ Covered /\ \A q \in Requests : Carries(q)

LEMMA RowTimes ==
  ASSUME SourceTypeOK
  PROVE /\ \A r \in Rows : table[r] \in Nat
        /\ \A w \in Watermarks : w.value \in Nat /\ w.offset \in Nat
  BY RowNumbers DEF SourceTypeOK, Watermarks

\* The place of a row in its window lies after the earlier rows, and not after the
\* rows of its time.
LEMMA Place ==
  ASSUME SourceTypeOK, NEW w \in Watermarks, NEW rows \in Orders(Window(w.value)),
         NEW k \in 1 .. Len(rows)
  PROVE LET before == {x \in Window(w.value) : table[x] < table[rows[k]]}
            upto == {x \in Window(w.value) : table[x] <= table[rows[k]]}
        IN Cardinality(before) < k /\ k <= Cardinality(upto)
<1> DEFINE before == {x \in Window(w.value) : table[x] < table[rows[k]]}
           upto == {x \in Window(w.value) : table[x] <= table[rows[k]]}
           first == {rows[j] : j \in 1 .. k}
           f == [j \in 1 .. k |-> rows[j]]
<1>1. /\ Len(rows) \in Nat /\ k \in Nat /\ k >= 1 /\ 1 .. k \subseteq 1 .. Len(rows)
      /\ \A i \in 1 .. Len(rows) : rows[i] \in Window(w.value)
      /\ \A i, j \in 1 .. Len(rows) : rows[i] = rows[j] => i = j
      /\ \A i, j \in 1 .. Len(rows) : i < j => table[rows[i]] <= table[rows[j]]
      /\ \A x \in Window(w.value) : \E i \in 1 .. Len(rows) : rows[i] = x
  <2>1. Window(w.value) \in SUBSET Rows BY DEF Window
  <2> HIDE DEF before, upto, first, f
  <2>2. /\ Len(rows) \in Nat
        /\ \A i \in 1 .. Len(rows) : rows[i] \in Window(w.value)
        /\ \A i, j \in 1 .. Len(rows) : rows[i] = rows[j] => i = j
        /\ \A i, j \in 1 .. Len(rows) : i < j => table[rows[i]] <= table[rows[j]]
        /\ \A x \in Window(w.value) : \E i \in 1 .. Len(rows) : rows[i] = x
    BY <2>1, Ordered
  <2>3. k \in Nat /\ k >= 1 /\ 1 .. k \subseteq 1 .. Len(rows) BY <2>2
  <2> QED BY <2>2, <2>3
<1>2. \A x \in Window(w.value) : x \in Rows /\ table[x] \in Nat BY RowTimes DEF Window
<1>3. first \in SUBSET Rows /\ before \in SUBSET Rows /\ upto \in SUBSET Rows
  BY <1>1, <1>2
<1>4. /\ IsFiniteSet(first) /\ IsFiniteSet(before) /\ IsFiniteSet(upto)
      /\ Cardinality(first) \in Nat /\ Cardinality(before) \in Nat /\ Cardinality(upto) \in Nat
  BY <1>3, SubsetCount, RowNumbers
<1>5. Cardinality(first) = k
  <2>1. f \in [1 .. k -> first] /\ \A i, j \in 1 .. k : f[i] = f[j] => i = j
    BY <1>1
  <2>2. \A x \in first : \E j \in 1 .. k : f[j] = x OBVIOUS
  <2> HIDE DEF f, first
  <2>3. f \in Bijection(1 .. k, first)
    BY <2>1, <2>2 DEF Bijection, Injection, Surjection, IsInjective
  <2>4. ExistsBijection(1 .. k, first) BY <2>3 DEF ExistsBijection
  <2> QED BY <1>1, <2>4, FS_CountingElements
<1>6. ASSUME NEW j \in 1 .. k PROVE rows[j] \in upto
  <2>1. j \in 1 .. Len(rows) /\ (j < k \/ j = k) BY <1>1, <1>6
  <2>2. rows[j] \in Window(w.value) /\ rows[k] \in Window(w.value) BY <2>1, <1>1
  <2>3. table[rows[j]] <= table[rows[k]]
    <3>1. CASE j < k BY <2>1, <3>1, <1>1
    <3>2. CASE j = k
      <4>1. table[rows[k]] \in Nat BY <2>2, <1>2
      <4> QED BY <3>2, <4>1
    <3> QED BY <2>1, <3>1, <3>2
  <2> QED BY <2>2, <2>3
<1>7. ASSUME NEW x \in before PROVE x \in first /\ x # rows[k]
  <2>1. x \in Window(w.value) /\ table[x] < table[rows[k]] /\ table[x] \in Nat
        /\ table[rows[k]] \in Nat
    BY <1>1, <1>2
  <2>2. PICK j \in 1 .. Len(rows) : rows[j] = x BY <2>1, <1>1
  <2>3. j < k
    <3>1. SUFFICES ASSUME k <= j PROVE FALSE BY <1>1, <2>2
    <3>2. table[rows[k]] <= table[rows[j]]
      <4>1. CASE k < j BY <4>1, <1>1, <2>2
      <4>2. CASE k = j BY <4>2, <2>1
      <4> QED BY <3>1, <4>1, <4>2, <1>1, <2>2
    <3> QED BY <3>2, <2>1, <2>2
  <2>4. j \in 1 .. k BY <2>2, <2>3, <1>1
  <2> QED BY <2>1, <2>2, <2>4
<1>8. first \subseteq upto BY <1>6
<1>9. before \subseteq first /\ before # first
  <2>1. rows[k] \in first BY <1>1
  <2> QED BY <2>1, <1>7
<1> HIDE DEF before, upto, first
<1>10. Cardinality(first) <= Cardinality(upto) BY <1>3, <1>8, SubsetCount
<1>11. Cardinality(before) < Cardinality(first) BY <1>3, <1>9, SubsetCount
<1> QED BY <1>4, <1>5, <1>10, <1>11 DEF before, upto

\* A page is what its next watermark passes beyond the one before, but for rows of
\* one time that the page before ends between.
LEMMA PageCovers ==
  ASSUME SourceTypeOK, NEW w \in Watermarks,
         NEW rows \in Orders(Window(w.value)), NEW after \in Watermarks,
         WatermarkAfter(Page(rows, w), Truncated(rows, w), w, after)
  PROVE /\ \A r \in Rows \ Torn(w) : Passed(table, after, r) =>
             Passed(table, w, r) \/ <<r, table[r]>> \in ToSet(Page(rows, w))
        /\ \A r \in Rows : \A t : <<r, t>> \in ToSet(Page(rows, w)) => t = table[r]
<1> DEFINE page == Page(rows, w)
           end == IF Truncated(rows, w) THEN w.offset + Limit ELSE Len(rows)
           upto(r) == {x \in Window(w.value) : table[x] <= table[r]}
<1>1. /\ page \in Seq(Rows \X Times)
      /\ Truncated(rows, w) => Len(page) = Limit /\ end < Len(rows)
      /\ \A r \in Rows : \A t : <<r, t>> \in ToSet(page) <=>
           t = table[r] /\ \E k \in w.offset + 1 .. end : rows[k] = r
  BY PageTyped
<1>2. Len(rows) \in Nat /\ \A x \in Window(w.value) : \E i \in 1 .. Len(rows) : rows[i] = x
  <2>1. Window(w.value) \in SUBSET Rows BY DEF Window
  <2> QED BY <2>1, Ordered
<1>3. /\ w.value \in Nat /\ w.offset \in Nat /\ after.value \in Nat /\ after.offset \in Nat
      /\ Limit \in Nat /\ \A r \in Rows : table[r] \in Nat /\ Cardinality(upto(r)) \in Nat
  <2>1. \A r \in Rows : upto(r) \in SUBSET Rows BY DEF Window
  <2>2. \A r \in Rows : Cardinality(upto(r)) \in Nat BY <2>1, SubsetCount, RowNumbers
  <2> QED BY <2>2, RowTimes, RowNumbers
<1>4. \A r \in Rows : {x \in Rows : table[x] > w.value /\ table[x] <= table[r]} = upto(r)
  BY DEF Window
<1> HIDE DEF page
<1>5. ASSUME NEW r \in Rows \ Torn(w), table[r] > w.value,
             \A k \in 1 .. Len(rows) : rows[k] = r => k <= end
      PROVE Passed(table, w, r) \/ <<r, table[r]>> \in ToSet(page)
  <2>1. r \in Window(w.value) BY <1>5 DEF Window
  <2>2. PICK k \in 1 .. Len(rows) : rows[k] = r BY <2>1, <1>2
  <2>3. CASE k <= w.offset
    <3>1. Cardinality({x \in Window(w.value) : table[x] < table[r]}) < w.offset
      <4>1. Cardinality({x \in Window(w.value) : table[x] < table[r]}) < k BY <2>2, Place
      <4>2. {x \in Window(w.value) : table[x] < table[r]} \in SUBSET Rows BY DEF Window
      <4>3. Cardinality({x \in Window(w.value) : table[x] < table[r]}) \in Nat
        BY <4>2, SubsetCount, RowNumbers
      <4> QED BY <4>1, <4>3, <2>3, <1>2, <1>3
    <3>2. ~(Cardinality(upto(r)) > w.offset) BY <3>1, <2>1, <1>5 DEF Torn
    <3>3. Cardinality(upto(r)) <= w.offset BY <3>2, <1>3, <1>5
    <3> QED BY <3>3, <1>4, <1>5 DEF Passed
  <2>4. CASE ~(k <= w.offset)
    <3>1. k \in w.offset + 1 .. end BY <2>2, <2>4, <1>2, <1>3, <1>5
    <3> QED BY <3>1, <2>2, <1>1, <1>5
  <2> QED BY <2>3, <2>4
<1>6. CASE Truncated(rows, w)
  <2>1. after.value = w.value /\ after.offset = w.offset + Limit /\ end = w.offset + Limit
    BY <1>1, <1>6 DEF WatermarkAfter, page, Watermarks
  <2>2. ASSUME NEW r \in Rows \ Torn(w), Passed(table, after, r)
        PROVE Passed(table, w, r) \/ <<r, table[r]>> \in ToSet(page)
    <3>1. CASE table[r] \in 1 .. w.value BY <3>1 DEF Passed
    <3>2. CASE table[r] > w.value /\ Cardinality(upto(r)) <= w.offset + Limit
      <4>1. ASSUME NEW k \in 1 .. Len(rows), rows[k] = r PROVE k <= end
        <5>1. k <= Cardinality(upto(r)) BY <4>1, Place
        <5> QED BY <5>1, <3>2, <2>1, <2>2, <1>2, <1>3
      <4> QED BY <3>2, <4>1, <1>5, <2>2
    <3> QED BY <2>1, <2>2, <3>1, <3>2, <1>4 DEF Passed
  <2> QED BY <2>2, <1>1 DEF page
<1>7. CASE ~Truncated(rows, w)
  <2>1. after.offset = 0 /\ end = Len(rows) BY <1>7 DEF WatermarkAfter, page
  <2>2. ASSUME NEW r \in Rows \ Torn(w), Passed(table, after, r)
        PROVE Passed(table, w, r) \/ <<r, table[r]>> \in ToSet(page)
    <3>0. table[r] \in Nat /\ r \in Rows BY <2>2, RowTimes
    <3>1. table[r] \in 1 .. after.value
      <4>1. SUFFICES ASSUME table[r] > after.value,
                            Cardinality({x \in Rows : table[x] > after.value
                                                      /\ table[x] <= table[r]}) <= 0
                     PROVE FALSE
        BY <2>1, <2>2 DEF Passed
      <4>2. PICK P \in SUBSET Rows : P = {x \in Rows : table[x] > after.value
                                                       /\ table[x] <= table[r]}
        OBVIOUS
      <4>3. r \in P BY <4>1, <4>2, <3>0
      <4>4. Cardinality(P) <= 0 /\ Cardinality(P) \in Nat /\ IsFiniteSet(P)
        BY <4>1, <4>2, SubsetCount, RowNumbers
      <4>5. P = {} BY <4>4, FS_EmptySet
      <4> QED BY <4>3, <4>5
    <3>2. CASE table[r] <= w.value
      <4>1. table[r] \in 1 .. w.value BY <3>1, <3>2, <1>3
      <4> QED BY <4>1 DEF Passed
    <3>3. CASE table[r] > w.value
      <4>1. \A k \in 1 .. Len(rows) : rows[k] = r => k <= end BY <2>1, <1>2
      <4> QED BY <3>3, <4>1, <1>5, <2>2
    <3>4. table[r] <= w.value \/ table[r] > w.value
      <4>1. w.value \in Nat BY <1>3
      <4> QED BY <4>1, <3>0
    <3> QED BY <3>2, <3>3, <3>4
  <2> QED BY <2>2, <1>1 DEF page
<1> QED BY <1>6, <1>7

LEMMA SourceInitCovers == SourceInit => CoverInv
<1> SUFFICES ASSUME SourceInit PROVE CoverInv OBVIOUS
<1>1. \A q \in Requests : run[q].phase = "idle" /\ ~run[q].current
  BY DEF SourceInit, Idle
<1>2. SourceTypeOK BY SourceInitTyped
<1>3. ASSUME NEW r \in Rows, Passed(table, watermark, r) PROVE FALSE
  <2>1. watermark.value = 0 /\ watermark.offset = 0 BY DEF SourceInit, NoWatermark
  <2>2. table[r] \in Nat BY <1>2, RowTimes
  <2>3. PICK P \in SUBSET Rows : P = {x \in Rows : table[x] > 0 /\ table[x] <= table[r]}
    OBVIOUS
  <2>4. table[r] > 0 /\ Cardinality(P) <= 0 BY <1>3, <2>1, <2>2, <2>3 DEF Passed
  <2>5. r \in P BY <2>2, <2>3, <2>4
  <2>6. Cardinality(P) \in Nat /\ IsFiniteSet(P) BY SubsetCount, RowNumbers
  <2>7. P = {} BY <2>4, <2>6, FS_EmptySet
  <2> QED BY <2>5, <2>7
<1>4. Covered BY <1>3 DEF Covered
<1> QED BY <1>1, <1>4 DEF CoverInv, Asked, Carries

\* What becomes of one request when table, watermark and commits stay as they are.
LEMMA OthersCarry ==
  ASSUME CoverInv, UNCHANGED <<data, gateway>>, exposed \subseteq exposed', NEW q \in Requests,
         \A x \in Requests \ {q} : run'[x] = run[x],
         /\ run'[q].phase \in {"idle", "closing"} => ~run'[q].current
         /\ run'[q].phase = "queued" => run'[q].got = {}
         /\ run'[q].phase \in {"sent", "delivered"} => run'[q].rest = <<>>
         /\ run'[q].current => run'[q].before = watermark,
         Carries(q)'
  PROVE CoverInv'
<1>1. table' = table /\ watermark' = watermark /\ taken' = taken BY DEF data, gateway
<1>2. Covered' BY <1>1 DEF CoverInv, Covered
<1>3. Asked' BY <1>1 DEF CoverInv, Asked
<1>4. ASSUME NEW x \in Requests \ {q} PROVE Carries(x)'
  <2>1. Carries(x) /\ run'[x] = run[x] /\ Carried(x)' = Carried(x)
    BY DEF CoverInv, Carried
  <2> QED BY <2>1, <1>1 DEF Carries
<1> QED BY <1>2, <1>3, <1>4 DEF CoverInv

\* A request that may not be committed any more carries nothing.
LEMMA Dropped ==
  ASSUME CoverInv, UNCHANGED <<data, exposed, gateway>>, NEW q \in Requests,
         \A x \in Requests \ {q} : run'[x] = run[x], ~run'[q].current,
         run'[q].phase \in {"idle", "closing"}
  PROVE CoverInv'
<1>1. Carries(q)' BY DEF Carries
<1> QED BY <1>1, OthersCarry

LEMMA AcceptCovers ==
  ASSUME Served, CoverInv, NEW q \in Requests, Accept(q) PROVE CoverInv'
<1>1. UNCHANGED <<data, exposed, gateway>> BY DEF Accept
<1>2. Carries(q)' BY AcceptServed DEF Carries
<1> QED BY <1>1, <1>2, AcceptServed, OthersCarry

LEMMA LeaveCovers ==
  ASSUME Served, CoverInv, NEW q \in Requests, Leave(q), UNCHANGED <<data, exposed, gateway>>
  PROVE CoverInv'
<1>1. run'[q].phase = "idle" /\ ~run'[q].current /\ \A x \in Requests \ {q} : run'[x] = run[x]
  BY LeaveTyped DEF Served, SourceTypeOK, Idle
<1> QED BY <1>1, Dropped

LEMMA FailCovers ==
  ASSUME Served, CoverInv, NEW q \in Requests, ReadFails(q) PROVE CoverInv'
<1>1. UNCHANGED <<data, exposed, gateway>> BY DEF ReadFails
<1> QED BY <1>1, FailServed, Dropped

LEMMA ReadCovers ==
  ASSUME Served, CoverInv, NEW q \in Requests, ReadBatch(q) PROVE CoverInv'
<1>1. PICK rows \in Orders(Window(run[q].before.value)), after \in Watermarks :
        LET before == run[q].before
            page == Page(rows, before)
        IN /\ WatermarkAfter(page, Truncated(rows, before), before, after)
           /\ page \in Seq(Rows \X Times) /\ before \in Watermarks
           /\ run' = [run EXCEPT ![q] = [run[q] EXCEPT !.phase = "streaming",
                                           !.rest = page, !.after = after]]
           /\ run' \in [Requests -> RequestType]
  BY ReadTyped DEF Served
<1>2. PICK page : page = Page(rows, run[q].before) OBVIOUS
<1>3. run[q] \in RequestType /\ run[q].phase = "queued" /\ run \in [Requests -> RequestType]
  BY ReadServed DEF Served, SourceTypeOK
<1>4. run'[q] = [run[q] EXCEPT !.phase = "streaming", !.rest = page, !.after = after]
  BY <1>1, <1>2, <1>3
<1>5. /\ run'[q].phase = "streaming" /\ run'[q].rest = page /\ run'[q].after = after
      /\ run'[q].before = run[q].before /\ run'[q].current = run[q].current
      /\ run'[q].got = {}
  BY <1>3, <1>4 DEF RequestType, CoverInv, Asked
<1>6. \A x \in Requests \ {q} : run'[x] = run[x] BY <1>1, <1>3
<1>7. /\ UNCHANGED <<data, gateway>> /\ table' = table /\ taken' = taken
      /\ exposed \subseteq exposed'
      /\ run[q].current => exposed' = exposed \cup Torn(run[q].before)
  BY DEF ReadBatch, data, gateway
<1>8. ASSUME run[q].current PROVE Carries(q)'
  <2>1. run[q].before = watermark /\ watermark \in Watermarks
    BY <1>1, <1>8 DEF CoverInv, Asked
  <2>2. /\ \A r \in Rows \ Torn(watermark) : Passed(table, after, r) =>
             Passed(table, watermark, r) \/ <<r, table[r]>> \in ToSet(page)
        /\ \A r \in Rows : \A t : <<r, t>> \in ToSet(page) => t = table[r]
    BY <1>1, <1>2, <2>1, PageCovers DEF Served
  <2>3. Carried(q)' = ToSet(page)
    <3>1. Carried(q)' = {} \cup ToSet(page) BY <1>5 DEF Carried
    <3> QED BY <3>1
  <2>4. ASSUME NEW r \in Rows \ exposed', Passed(table', run'[q].after, r)
        PROVE /\ \A t \in Times : <<r, t>> \in Carried(q)' => t = table'[r]
              /\ <<r, table'[r]>> \in Carried(q)' \/ taken'[r] = table'[r]
    <3>1. Passed(table, after, r) BY <1>5, <1>7, <2>4
    <3>2. r \in Rows \ exposed /\ r \in Rows \ Torn(watermark) BY <1>7, <1>8, <2>1, <2>4
    <3>3. Passed(table, watermark, r) => taken[r] = table[r]
      BY <3>2 DEF CoverInv, Covered
    <3> QED BY <1>7, <2>2, <2>3, <3>1, <3>2, <3>3
  <2> QED BY <2>4 DEF Carries
<1>9. Carries(q)'
  <2>1. ~run[q].current => Carries(q)' BY <1>5 DEF Carries
  <2> QED BY <1>8, <2>1
<1>10. run'[q].current => run'[q].before = watermark BY <1>5 DEF CoverInv, Asked
<1> QED BY <1>5, <1>6, <1>7, <1>9, <1>10, OthersCarry

\* What carries the same rows under the same watermark still carries enough.
LEMMA CarriesOn ==
  ASSUME CoverInv, UNCHANGED <<data, exposed, gateway>>, NEW q \in Requests,
         run[q].phase \in {"streaming", "sent", "delivered"},
         run'[q].current = run[q].current, run'[q].after = run[q].after,
         \A x : x \in Carried(q)' <=> x \in Carried(q)
  PROVE Carries(q)'
<1>1. SUFFICES ASSUME run[q].current PROVE Carries(q)' BY DEF Carries
<1>2. table' = table /\ taken' = taken /\ exposed' = exposed BY DEF data, gateway
<1>3. \A r \in Rows \ exposed : Passed(table, run[q].after, r) =>
        /\ \A t \in Times : <<r, t>> \in Carried(q) => t = table[r]
        /\ <<r, table[r]>> \in Carried(q) \/ taken[r] = table[r]
  BY <1>1 DEF CoverInv, Carries
<1>4. ASSUME NEW r \in Rows \ exposed', Passed(table', run'[q].after, r)
      PROVE /\ \A t \in Times : <<r, t>> \in Carried(q)' => t = table'[r]
            /\ <<r, table'[r]>> \in Carried(q)' \/ taken'[r] = table'[r]
  <2>1. Passed(table, run[q].after, r) /\ r \in Rows \ exposed BY <1>2, <1>4
  <2> QED BY <1>2, <1>3, <2>1
<1> QED BY <1>4 DEF Carries

LEMMA ChunkCovers ==
  ASSUME Served, CoverInv, NEW q \in Requests, SendChunk(q) PROVE CoverInv'
<1>1. /\ run[q].phase = "streaming" /\ \A x \in Requests : x # q => run'[x] = run[x]
      /\ run'[q].before = run[q].before /\ run'[q].after = run[q].after
      /\ run'[q].current = run[q].current
      /\ \A x : x \in Carried(q)' <=> x \in Carried(q)
      /\ \/ run'[q].phase = "streaming"
         \/ run'[q].phase = "sent" /\ run'[q].rest = <<>>
  BY ChunkTyped DEF Served, Carried
<1>2. UNCHANGED <<data, exposed, gateway>> BY DEF SendChunk
<1>3. Carries(q)' BY <1>1, <1>2, CarriesOn
<1>4. run'[q].current => run'[q].before = watermark BY <1>1 DEF CoverInv, Asked
<1> QED BY <1>1, <1>2, <1>3, <1>4, OthersCarry

LEMMA EndCovers ==
  ASSUME Served, CoverInv, NEW q \in Requests, EndStream(q) PROVE CoverInv'
<1>1. UNCHANGED <<data, exposed, gateway>> /\ \A x \in Requests \ {q} : run'[x] = run[x]
  BY EndServed DEF EndStream
<1>2. CASE run[q].phase = "closing" /\ run'[q] = Idle BY <1>1, <1>2, Dropped DEF Idle
<1>3. CASE run[q].phase = "sent" /\ run'[q] = [run[q] EXCEPT !.phase = "delivered"]
  <2>1. run[q] \in RequestType BY DEF Served, SourceTypeOK
  <2>2. /\ run'[q].phase = "delivered" /\ run'[q].before = run[q].before
        /\ run'[q].after = run[q].after /\ run'[q].current = run[q].current
        /\ run'[q].rest = run[q].rest /\ run'[q].got = run[q].got
    BY <1>3, <2>1 DEF RequestType
  <2>3. Carried(q)' = Carried(q) BY <2>2 DEF Carried
  <2>4. Carries(q)' BY <1>1, <1>3, <2>2, <2>3, CarriesOn
  <2>5. run'[q].rest = <<>> /\ (run'[q].current => run'[q].before = watermark)
    BY <1>3, <2>2 DEF CoverInv, Asked
  <2> QED BY <1>1, <2>2, <2>4, <2>5, OthersCarry
<1> QED BY <1>2, <1>3, EndServed

LEMMA CommitCovers ==
  ASSUME Served, CoverInv, NEW q \in Requests, Commit(q) PROVE CoverInv'
<1>1. /\ run[q].phase \in {"sent", "delivered"} /\ ~run'[q].current
      /\ run'[q].phase \in {"idle", "closing"}
      /\ \A x \in Requests \ {q} :
           run'[x] = IF run[q].current THEN [run[x] EXCEPT !.current = FALSE] ELSE run[x]
  BY CommitServed DEF Done, Idle
<1>2. table' = table /\ exposed' = exposed BY DEF Commit, data
<1>3. CASE ~run[q].current
  <2>1. UNCHANGED <<data, exposed, gateway>> BY <1>3 DEF Commit
  <2> QED BY <1>1, <1>3, <2>1, Dropped
<1>4. CASE run[q].current
  <2>1. ASSUME NEW x \in Requests
        PROVE /\ ~run'[x].current
              /\ x # q => /\ run'[x].phase = run[x].phase /\ run'[x].rest = run[x].rest
                          /\ run'[x].got = run[x].got
    <3>1. run[x] \in RequestType BY DEF Served, SourceTypeOK
    <3>2. x # q => run'[x] = [run[x] EXCEPT !.current = FALSE] BY <1>1, <1>4
    <3> QED BY <1>1, <3>1, <3>2 DEF RequestType
  <2>2. Asked' BY <1>1, <2>1 DEF CoverInv, Asked
  <2>3. \A x \in Requests : Carries(x)' BY <2>1 DEF Carries
  <2>4. /\ watermark' = run[q].after
        /\ taken' = [r \in Rows |->
             IF \E t \in Times : <<r, t>> \in run[q].got
             THEN CHOOSE t \in Times : <<r, t>> \in run[q].got
             ELSE taken[r]]
    BY <1>4 DEF Commit
  <2>5. \A r \in Rows \ exposed : Passed(table, run[q].after, r) =>
          /\ \A t \in Times : <<r, t>> \in Carried(q) => t = table[r]
          /\ <<r, table[r]>> \in Carried(q) \/ taken[r] = table[r]
    BY <1>1, <1>4 DEF CoverInv, Carries
  <2>6. Carried(q) = run[q].got
    <3>1. run[q].rest = <<>> BY <1>1 DEF CoverInv, Asked
    <3>2. ToSet(<<>>) = {} BY DEF ToSet
    <3> QED BY <3>1, <3>2 DEF Carried
  <2>7. ASSUME NEW r \in Rows \ exposed', Passed(table', watermark', r)
        PROVE taken'[r] = table'[r]
    <3>1. /\ \A t \in Times : <<r, t>> \in run[q].got => t = table[r]
          /\ <<r, table[r]>> \in run[q].got \/ taken[r] = table[r]
      BY <1>2, <2>4, <2>5, <2>6, <2>7
    <3>2. CASE \E t \in Times : <<r, t>> \in run[q].got
      <4>1. taken'[r] = CHOOSE t \in Times : <<r, t>> \in run[q].got BY <2>4, <3>2
      <4>2. taken'[r] \in Times /\ <<r, taken'[r]>> \in run[q].got BY <3>2, <4>1
      <4> QED BY <3>1, <4>2, <1>2
    <3>3. CASE ~\E t \in Times : <<r, t>> \in run[q].got
      <4>1. taken'[r] = taken[r] BY <2>4, <3>3
      <4>2. <<r, table[r]>> \notin run[q].got
        <5>1. run[q].got \subseteq Rows \X Times BY DEF Served, SourceTypeOK, RequestType
        <5> QED BY <3>3, <5>1
      <4> QED BY <3>1, <4>1, <4>2, <1>2
    <3> QED BY <3>2, <3>3
  <2>8. Covered' BY <2>7 DEF Covered
  <2> QED BY <2>2, <2>3, <2>8 DEF CoverInv
<1> QED BY <1>3, <1>4

\* A row that no change puts out of reach is passed as it was before.
LEMMA WriteShows ==
  ASSUME Served, NEW S \in SUBSET Rows, NEW t \in 0 .. MaxTime, Write(S, t),
         NEW w \in InUse, NEW r \in Rows \ exposed', Passed(table', w, r)
  PROVE r \in Rows \ exposed /\ Passed(table, w, r) /\ table'[r] = table[r]
<1>1. exposed' = (exposed \ S) \cup Hidden(table', S) BY DEF Write
<1>2. r \notin S /\ Passed(table, w, r) BY <1>1 DEF Hidden
<1>3. r \in Rows \ exposed BY <1>1, <1>2
<1>4. table'[r] = table[r] BY <1>2, <1>3 DEF Write
<1> QED BY <1>2, <1>3, <1>4

LEMMA WriteCovers ==
  ASSUME Served, CoverInv, NEW S \in SUBSET Rows, NEW t \in 0 .. MaxTime, Write(S, t)
  PROVE CoverInv'
<1>1. run' = run /\ watermark' = watermark /\ taken' = taken BY DEF Write, gateway
<1>2. Asked' BY <1>1 DEF CoverInv, Asked
<1>3. Covered'
  <2>1. watermark \in InUse BY DEF InUse
  <2>2. ASSUME NEW r \in Rows \ exposed', Passed(table', watermark', r)
        PROVE taken'[r] = table'[r]
    <3>1. r \in Rows \ exposed /\ Passed(table, watermark, r) /\ table'[r] = table[r]
      BY <1>1, <2>1, <2>2, WriteShows
    <3> QED BY <1>1, <3>1 DEF CoverInv, Covered
  <2> QED BY <2>2 DEF Covered
<1>4. ASSUME NEW q \in Requests PROVE Carries(q)'
  <2>1. SUFFICES ASSUME run[q].phase \in {"streaming", "sent", "delivered"}, run[q].current
                 PROVE Carries(q)'
    BY <1>1 DEF Carries
  <2>2. run[q].after \in InUse BY <2>1 DEF InUse
  <2>3. \A r \in Rows \ exposed : Passed(table, run[q].after, r) =>
          /\ \A x \in Times : <<r, x>> \in Carried(q) => x = table[r]
          /\ <<r, table[r]>> \in Carried(q) \/ taken[r] = table[r]
    BY <2>1 DEF CoverInv, Carries
  <2>4. Carried(q)' = Carried(q) BY <1>1 DEF Carried
  <2>5. ASSUME NEW r \in Rows \ exposed', Passed(table', run'[q].after, r)
        PROVE /\ \A x \in Times : <<r, x>> \in Carried(q)' => x = table'[r]
              /\ <<r, table'[r]>> \in Carried(q)' \/ taken'[r] = table'[r]
    <3>1. r \in Rows \ exposed /\ Passed(table, run[q].after, r) /\ table'[r] = table[r]
      BY <1>1, <2>2, <2>5, WriteShows
    <3> QED BY <3>1, <2>3, <2>4, <1>1
  <2> QED BY <2>5 DEF Carries
<1> QED BY <1>2, <1>3, <1>4 DEF CoverInv

LEMMA SourceStepCovers == Served /\ CoverInv /\ [SourceNext]_sourceVars => CoverInv'
<1> SUFFICES ASSUME Served, CoverInv, [SourceNext]_sourceVars PROVE CoverInv' OBVIOUS
<1>1. ASSUME NEW q \in Requests, Work(q) PROVE CoverInv'
  BY <1>1, AcceptCovers, ReadCovers, ChunkCovers, EndCovers, CommitCovers DEF Work
<1>2. ASSUME NEW q \in Requests, ReadFails(q) \/ Timeout(q) \/ Cut(q) PROVE CoverInv'
  BY <1>2, FailCovers, FaultServed, LeaveCovers
<1>3. CASE UNCHANGED sourceVars
  <2>1. /\ table' = table /\ watermark' = watermark /\ taken' = taken /\ run' = run
        /\ exposed' = exposed
    BY <1>3 DEF sourceVars, data, gateway
  <2>2. Asked' /\ Covered' BY <2>1 DEF CoverInv, Asked, Covered
  <2>3. \A q \in Requests : Carries(q)' BY <2>1 DEF CoverInv, Carries, Carried
  <2> QED BY <2>2, <2>3 DEF CoverInv
<1> QED BY <1>1, <1>2, <1>3, WriteCovers DEF SourceNext

\* The committed watermark passes no row the gateway has not got as it is, although
\* its value is the maximum of texts and its pages are cut off, lost and repeated and
\* writers are not restricted; except for the rows that they put out of reach, which
\* the code does lose (watermark_after_batch, source_incremental_frame_stream,
\* read_postgres_batch).
THEOREM NoRowIsPassed == SourceSpec => []Covered
<1>1. Served /\ CoverInv => Covered BY DEF CoverInv
<1> QED
  BY <1>1, SourceInitServed, SourceStepServed, SourceInitCovers, SourceStepCovers, PTL
  DEF SourceSpec
=============================================================================
