------------------------ MODULE MessageRuntimeProofs ------------------------
(***************************************************************************)
(* One receive loop on the installed adapter, no connection left behind,   *)
(* and sends that take turns: for any number of requests, adapters, loops, *)
(* sessions and operations.                                                *)
(***************************************************************************)
EXTENDS MessageRuntime, TLAPS

\* Those that send have the session's lane, which is the one made last: as long
\* as somebody has it no other is made.
Laned(r) ==
  /\ request[r].op = "send" =>
       /\ request[r].pc \in {"lane", "send"} /\ request[r].session \in Sessions
  /\ request[r].op # "send" => request[r].session = None /\ request[r].pc \notin {"lane", "send"}
  /\ request[r].session # None => request[r].lane = lanes[request[r].session]

LaneInv == TypeOK /\ (\A r \in Requests : Laned(r)) /\ SerialPerSession

-----------------------------------------------------------------------------
(* Requests that come one after the other, each to its end, and those that   *)
(* do so again.                                                              *)
InTurn == order \in {"turns", "mended"}

Alone == \A q, r \in Requests : Changing(q) /\ Changing(r) => q = r

\* The request under way.
Under == IF \E r \in Requests : Changing(r)
         THEN request[CHOOSE r \in Requests : Changing(r)] ELSE Idle

Installs(u) == u.op \in {"install", "invalid", "failed"}
OnInstalled(u) == adapter # None /\ u.own = adapter

\* What a request knows at each of its awaits.
Fits(u) ==
  \/ u.pc = "restoring" /\ u.op = "connect" /\ ~u.starting
  \/ u.pc = "connecting" /\ u.op = "connect" /\ ~u.starting /\ OnInstalled(u)
  \/ u.pc = "connecting" /\ u.op = "install" /\ ~u.starting /\ u.own \notin {None, adapter}
  \/ u.pc \in {"bump", "take"} /\ ~u.starting
     /\ \/ u.op \in {"invalid", "failed", "disconnect"}
        \/ u.op = "install" /\ u.own \notin {None, adapter}
  \/ u.pc = "swap" /\ Installs(u) /\ (u.op = "install" => u.own \notin {None, adapter})
  \/ u.pc = "previous" /\ u.previous \notin {None, adapter}
     /\ Installs(u) /\ (u.op = "install" => OnInstalled(u))
  \/ u.pc = "store" /\ Installs(u) /\ (u.op = "install" => OnInstalled(u))
  \/ u.pc \in {"bump", "take"} /\ u.starting /\ OnInstalled(u)
  \/ u.pc = "spawn" /\ OnInstalled(u)
  \/ u.pc = "keep" /\ OnInstalled(u) /\ u.task # None
     /\ loop[u.task].adapter = adapter /\ Current(u.task)
     /\ (connected => Running(u.task))
  \/ u.pc \in {"find", "unplug"} /\ u.op = "disconnect"

\* From here until it keeps a new one, a request has no loop.
Without == {"swap", "previous", "store", "spawn", "keep", "find", "unplug"}

\* A loop that counts: one that is left from before requests came in turn again is
\* superseded.
Counts(t) == Running(t) /\ (order = "turns" \/ Current(t))

\* The loop the runtime knows of is the only one, and receives while the runtime
\* is connected, but for a moment within a request.
OneLoop(u) ==
  /\ \A t \in Tasks : Counts(t) => t = receiveTask \/ (u.pc = "keep" /\ u.task = t)
  /\ u.pc \in Without => receiveTask = None
  /\ receiveTask # None =>
       /\ loop[receiveTask].adapter = adapter
       /\ u.pc # "take" => Current(receiveTask)
       /\ connected /\ u.pc # "take" /\ ~u.starting => Running(receiveTask)

\* Before it stops the loop or reports a connection.
Early(u) == u.pc \in {"idle", "restoring", "connecting", "bump", "take"} /\ ~u.starting

Backed(u) == connected /\ Early(u) => adapter # None /\ receiveTask # None

\* Who may be connected to the platform.
Plugged(u) ==
  order = "turns" => \A a \in Adapters : platform[a] = "up" =>
    \/ a = adapter
    \/ u.op = "install" /\ u.own = a
    \/ u.pc = "previous" /\ u.previous = a

Turn(u) == (u = Idle \/ Fits(u)) /\ OneLoop(u) /\ Backed(u) /\ Plugged(u)

\* What a request that replaces the adapter knows, alone after others were mixed.
Mends(u) ==
  /\ Fits(u) /\ u.pc \in {"connecting", "bump", "take", "swap"} /\ ~u.starting /\ Installs(u)
  /\ u.pc \in {"take", "swap"} => \A t \in Tasks : Running(t) => ~Current(t)
  /\ u.pc = "swap" => receiveTask = None

RuntimeInv ==
  /\ LaneInv
  /\ order # "mixed" => Alone
  /\ InTurn => Turn(Under)
  /\ order = "mending" => Mends(Under)
-----------------------------------------------------------------------------
(***************************************************************************)
(* Types.                                                                  *)
(***************************************************************************)
USE DEF At, Continue, Goto, Answer, flags, Idle

LEMMA TypeInit == Init => TypeOK
<1>1. \A s \in Sessions : (CHOOSE l \in Lanes : TRUE) \in Lanes
  BY RuntimeAssumption DEF RuntimeAssumption
<1>2. SUFFICES ASSUME Init PROVE TypeOK
  OBVIOUS
<1>3. lanes \in [Sessions -> Lanes] /\ request \in [Requests -> RequestState]
  BY <1>1, <1>2 DEF Init, RequestState, Points, Operations
<1>4. loop \in [Tasks -> [state : LoopStates, adapter : Adapters \cup {None},
                         generation : 0 .. generation]]
  BY <1>2 DEF Init, LoopStates
<1>5. platform \in [Adapters -> {"down", "up"}] /\ accepted \in 0 .. MaxOperations
  BY <1>2, RuntimeAssumption DEF Init, RuntimeAssumption
<1>. HIDE DEF Idle
<1>. QED  BY <1>2, <1>3, <1>4, <1>5 DEF Init, TypeOK, Orders

\* A free identity is one.
LEMMA FreeTypes ==
  /\ FreeAdapters # {} => (CHOOSE a \in FreeAdapters : TRUE) \in FreeAdapters
  /\ FreeTasks # {} => (CHOOSE t \in FreeTasks : TRUE) \in FreeTasks
  /\ FreeAdapters \subseteq Adapters
  /\ FreeTasks \subseteq Tasks
BY DEF FreeAdapters, FreeTasks

\* What a step makes of the request that takes it.
LEMMA RequestTypes ==
  ASSUME request \in [Requests -> RequestState], NEW r \in Requests,
         \/ \E pc \in Points : Goto(r, pc)
         \/ \E rec \in RequestState : Continue(r, rec)
  PROVE  request' \in [Requests -> RequestState]
BY DEF RequestState

LEMMA RecordTypes ==
  ASSUME NEW rec \in RequestState
  PROVE  /\ \A pc \in Points : [rec EXCEPT !.pc = pc] \in RequestState
         /\ \A a \in Adapters \cup {None}, pc \in Points :
              [rec EXCEPT !.previous = a, !.pc = pc] \in RequestState
         /\ \A t \in Tasks : [rec EXCEPT !.pc = "keep", !.task = t] \in RequestState
         /\ \A a \in Adapters \cup {None} :
              [rec EXCEPT !.own = a, !.pc = "unplug"] \in RequestState
         /\ StartReceive(rec) \in RequestState
<1>1. \A pc \in Points : [rec EXCEPT !.pc = pc] \in RequestState
  BY DEF RequestState
<1>2. \A a \in Adapters \cup {None}, pc \in Points :
        [rec EXCEPT !.previous = a, !.pc = pc] \in RequestState
  BY DEF RequestState
<1>3. \A t \in Tasks : [rec EXCEPT !.pc = "keep", !.task = t] \in RequestState
  BY DEF RequestState, Points
<1>4. StartReceive(rec) \in RequestState
  BY DEF RequestState, StartReceive, Points
<1>5. \A a \in Adapters \cup {None} : [rec EXCEPT !.own = a, !.pc = "unplug"] \in RequestState
  BY DEF RequestState, Points
<1>. QED  BY <1>1, <1>2, <1>3, <1>4, <1>5

LEMMA IdleTypes ==
  /\ Idle \in RequestState
  /\ \A a \in Adapters, op \in Operations :
       [Idle EXCEPT !.pc = "connecting", !.op = op, !.own = a] \in RequestState
  /\ \A a \in Adapters : [Idle EXCEPT !.pc = "connecting", !.own = a] \in RequestState
  /\ \A op \in Operations : [Idle EXCEPT !.pc = "bump", !.op = op] \in RequestState
  /\ [Idle EXCEPT !.pc = "restoring"] \in RequestState
  /\ \A a \in Adapters, s \in Sessions, l \in Lanes :
       [Idle EXCEPT !.pc = "lane", !.op = "send", !.own = a, !.session = s, !.lane = l]
         \in RequestState
BY DEF RequestState, Points, Operations

LEMMA TypeStep == TypeOK /\ [Next]_vars => TypeOK'
<1>. SUFFICES ASSUME TypeOK, [Next]_vars PROVE TypeOK'
  OBVIOUS
<1>0. /\ request \in [Requests -> RequestState]
      /\ \A r \in Requests : /\ request[r].own \in Adapters \cup {None}
                             /\ request[r].task \in Tasks \cup {None}
  BY DEF TypeOK, RequestState
<1>. USE DEF TypeOK
<1>. HIDE DEF Continue, Goto, Idle
<1>a. ASSUME NEW r \in Requests, Accept(r)
      PROVE  accepted' \in 0 .. MaxOperations /\ lanes' = lanes
  BY <1>a, RuntimeAssumption DEF RuntimeAssumption, Accept, Changing
<1>f. Joined \in Orders /\ Mending \in Orders
  BY DEF Joined, Mending, Orders
<1>b. ASSUME NEW r \in Requests, Install(r) \/ Reject(r)
      PROVE  /\ request' \in [Requests -> RequestState]
             /\ platform' \in [Adapters -> {"down", "up"}]
  <2>1. CASE Install(r)
    <3>. DEFINE a == CHOOSE a \in FreeAdapters : TRUE
    <3>1. a \in Adapters
      BY <2>1, FreeTypes DEF Install
    <3>2. [Idle EXCEPT !.pc = "connecting", !.op = "install", !.own = a] \in RequestState
      BY <3>1, IdleTypes DEF Operations
    <3>. QED  BY <2>1, <3>1, <3>2, RequestTypes DEF Install
  <2>2. CASE Reject(r)
    <3>1. [Idle EXCEPT !.pc = "bump", !.op = "invalid"] \in RequestState
      BY IdleTypes DEF Operations
    <3>. QED  BY <2>2, <3>1, RequestTypes DEF Reject
  <2>. QED  BY <1>b, <2>1, <2>2
<1>c. ASSUME NEW r \in Requests, Continue(r, Idle) PROVE request' \in [Requests -> RequestState]
  BY <1>c, IdleTypes, RequestTypes
<1>d. ASSUME NEW r \in Requests, Continue(r, StartReceive(request[r]))
      PROVE  request' \in [Requests -> RequestState]
  BY <1>d, RecordTypes, RequestTypes
<1>e. ASSUME NEW r \in Requests, NEW pc \in Points, Goto(r, pc)
      PROVE  request' \in [Requests -> RequestState]
  BY <1>e, RequestTypes
<1>1. ASSUME NEW r \in Requests, Configure(r) PROVE TypeOK'
  BY <1>1, <1>a, <1>b, <1>f DEF Configure
<1>2. ASSUME NEW r \in Requests, Health(r) PROVE TypeOK'
  <2>1. request' \in [Requests -> RequestState]
    BY <1>2, IdleTypes, RequestTypes DEF Health
  <2>. QED  BY <1>2, <1>a, <1>f, <2>1 DEF Health
<1>3. ASSUME NEW r \in Requests, RestoreConfig(r) PROVE TypeOK'
  BY <1>3, <1>b, <1>c DEF RestoreConfig
<1>4. ASSUME NEW r \in Requests, ConnectRequest(r) PROVE TypeOK'
  <2>1. request' \in [Requests -> RequestState]
    BY <1>4, IdleTypes, RequestTypes DEF ConnectRequest
  <2>. QED  BY <1>4, <1>a, <1>f, <2>1 DEF ConnectRequest
<1>5. ASSUME NEW r \in Requests, DisconnectRequest(r) PROVE TypeOK'
  <2>1. [Idle EXCEPT !.pc = "bump", !.op = "disconnect"] \in RequestState
    BY IdleTypes DEF Operations
  <2>2. request' \in [Requests -> RequestState]
    BY <1>5, <2>1, RequestTypes DEF DisconnectRequest
  <2>. QED  BY <1>5, <1>a, <1>f, <2>2 DEF DisconnectRequest
<1>6. ASSUME NEW r \in Requests, Connected(r) PROVE TypeOK'
  <2>1. request' \in [Requests -> RequestState]
    BY <1>6, <1>d, <1>e DEF Connected, Points
  <2>. QED  BY <1>6, <2>1 DEF Connected
<1>7. ASSUME NEW r \in Requests, ConnectFailed(r) PROVE TypeOK'
  <2>1. [Idle EXCEPT !.pc = "bump", !.op = "failed"] \in RequestState
    BY IdleTypes DEF Operations
  <2>2. request' \in [Requests -> RequestState]
    BY <1>7, <2>1, <1>c, RequestTypes DEF ConnectFailed
  <2>. QED  BY <1>7, <2>2 DEF ConnectFailed
<1>8. ASSUME NEW r \in Requests, Bump(r) PROVE TypeOK'
  <2>1. request' \in [Requests -> RequestState]
    BY <1>8, <1>e DEF Bump, Points
  <2>2. loop' \in [Tasks -> [state : LoopStates, adapter : Adapters \cup {None},
                            generation : 0 .. generation']]
    BY <1>8 DEF Bump, NewGeneration
  <2>. QED  BY <1>8, <2>1, <2>2 DEF Bump, NewGeneration
<1>9. ASSUME NEW r \in Requests, Take(r) PROVE TypeOK'
  <2>1. request' \in [Requests -> RequestState]
    BY <1>9, <1>e DEF Take, Points
  <2>2. loop' \in [Tasks -> [state : LoopStates, adapter : Adapters \cup {None},
                            generation : 0 .. generation]]
    BY <1>9 DEF Take, Abort, LoopStates
  <2>. QED  BY <1>9, <2>1, <2>2 DEF Take, Abort
<1>10. ASSUME NEW r \in Requests, Swap(r) PROVE TypeOK'
  <2>1. [request[r] EXCEPT !.previous = adapter,
                           !.pc = IF adapter = None THEN "store" ELSE "previous"] \in RequestState
    BY RecordTypes DEF Points
  <2>2. request' \in [Requests -> RequestState]
    BY <1>10, <2>1, RequestTypes DEF Swap
  <2>. QED  BY <1>10, <1>0, <2>2 DEF Swap, Orders
<1>11. ASSUME NEW r \in Requests, Previous(r) PROVE TypeOK'
  <2>1. [request[r] EXCEPT !.previous = None, !.pc = "store"] \in RequestState
    BY RecordTypes DEF Points
  <2>2. request' \in [Requests -> RequestState]
    BY <1>11, <2>1, RequestTypes DEF Previous
  <2>. QED  BY <1>11, <2>2 DEF Previous, Unplugged
<1>12. ASSUME NEW r \in Requests, Store(r) PROVE TypeOK'
  BY <1>12, <1>c, <1>d DEF Store
<1>13. ASSUME NEW r \in Requests, Spawn(r) PROVE TypeOK'
  <2>. DEFINE t == CHOOSE t \in FreeTasks : TRUE
  <2>1. t \in Tasks
    BY <1>13, FreeTypes DEF Spawn
  <2>2. [request[r] EXCEPT !.pc = "keep", !.task = t] \in RequestState
    BY <2>1, RecordTypes
  <2>3. request' \in [Requests -> RequestState]
    BY <1>13, <2>2, RequestTypes DEF Spawn
  <2>4. loop' \in [Tasks -> [state : LoopStates, adapter : Adapters \cup {None},
                            generation : 0 .. generation]]
    BY <1>13, <1>0, <2>1 DEF Spawn, LoadedGeneration, LoopStates
  <2>. QED  BY <1>13, <2>3, <2>4 DEF Spawn
<1>14. ASSUME NEW r \in Requests, Keep(r) PROVE TypeOK'
  BY <1>14, <1>0, <1>c DEF Keep
<1>15. ASSUME NEW r \in Requests, Unplug(r) PROVE TypeOK'
  <2>1. platform' \in [Adapters -> {"down", "up"}]
    BY <1>15 DEF Unplug, Becomes
  <2>. QED  BY <1>15, <1>c, <2>1 DEF Unplug
<1>21. ASSUME NEW r \in Requests, Find(r) PROVE TypeOK'
  <2>1. [request[r] EXCEPT !.own = adapter, !.pc = "unplug"] \in RequestState
    BY RecordTypes
  <2>2. request' \in [Requests -> RequestState]
    BY <1>21, <2>1, RequestTypes DEF Find
  <2>. QED  BY <1>21, <2>2 DEF Find
<1>16. ASSUME NEW r \in Requests, Drop(r) PROVE TypeOK'
  <2>1. platform' \in [Adapters -> {"down", "up"}]
    BY <1>16 DEF Drop, Unplugged, Becomes
  <2>2. /\ receiveTask' \in Tasks \cup {None}
        /\ loop' \in [Tasks -> [state : LoopStates, adapter : Adapters \cup {None},
                                generation : 0 .. generation]]
    BY <1>16 DEF Drop, Abort, LoopStates
  <2>3. order' \in Orders
    BY <1>16 DEF Drop, Orders
  <2>. QED  BY <1>16, <1>c, <2>1, <2>2, <2>3 DEF Drop
<1>17. ASSUME NEW r \in Requests, NEW s \in Sessions, Send(r, s) PROVE TypeOK'
  <2>. DEFINE lane == IF Held(s) THEN lanes[s]
                      ELSE CHOOSE l \in Lanes :
                             \A q \in Requests : request[q].session = s => request[q].lane # l
  <2>1. ~Held(s) => \A q \in Requests : request[q].session = s => request[q].lane # lanes[s]
    BY DEF Held
  <2>2. lane \in Lanes
    BY <2>1
  <2>3. [Idle EXCEPT !.pc = "lane", !.op = "send", !.own = adapter, !.session = s, !.lane = lane]
          \in RequestState
    BY <1>17, <2>2, IdleTypes DEF Send
  <2>4. request' \in [Requests -> RequestState]
    BY <1>17, <2>3, RequestTypes DEF Send
  <2>. QED  BY <1>17, <2>2, <2>4 DEF Send
<1>18. ASSUME NEW r \in Requests, Lock(r) \/ Sent(r) PROVE TypeOK'
  BY <1>18, <1>c, <1>e DEF Lock, Sent, Points
<1>19. ASSUME NEW t \in Tasks, LoopStep(t) PROVE TypeOK'
  <2>1. loop' \in [Tasks -> [state : LoopStates, adapter : Adapters \cup {None},
                            generation : 0 .. generation]]
    BY <1>19 DEF LoopStep, LoopCheck, LoopReceive, LoopAgain, LoopFail, LoopReport, LoopGoto,
                 LoopStates
  <2>. QED
    BY <1>19, <2>1 DEF LoopStep, LoopCheck, LoopReceive, LoopAgain, LoopFail, LoopReport,
                       LoopUnchanged, ReportFailure
<1>20. CASE UNCHANGED vars
  BY <1>20 DEF vars
<1>. QED
  BY <1>1, <1>2, <1>3, <1>4, <1>5, <1>6, <1>7, <1>8, <1>9, <1>10, <1>11, <1>12, <1>13, <1>14,
     <1>15, <1>16, <1>17, <1>18, <1>19, <1>20, <1>21 DEF Next, RequestStep
-----------------------------------------------------------------------------
(***************************************************************************)
(* Sends take turns.                                                       *)
(***************************************************************************)

\* A request that is no send, or none.
Other(rec) == rec.op # "send" /\ rec.session = None /\ rec.pc \notin {"lane", "send"}

LEMMA GotoContinues ==
  ASSUME TypeOK, NEW r \in Requests, NEW pc, Goto(r, pc)
  PROVE  Continue(r, [request[r] EXCEPT !.pc = pc])
BY DEF TypeOK, RequestState

LEMMA LanesKept ==
  ASSUME LaneInv, NEW r \in Requests, NEW rec, Other(rec), Continue(r, rec), lanes' = lanes
  PROVE  (\A q \in Requests : Laned(q)') /\ SerialPerSession'
<1>1. \A q \in Requests : request'[q] = IF q = r THEN rec ELSE request[q]
  BY DEF LaneInv, TypeOK
<1>. HIDE DEF Continue
<1>2. \A q \in Requests : Laned(q)'
  BY <1>1 DEF LaneInv, Laned, Other
<1>3. SerialPerSession'
  BY <1>1 DEF LaneInv, SerialPerSession, Other
<1>. QED  BY <1>2, <1>3

LEMMA IdleIsOther ==
  /\ Other(Idle)
  /\ \A a : Other([Idle EXCEPT !.pc = "connecting", !.op = "install", !.own = a])
  /\ \A a : Other([Idle EXCEPT !.pc = "connecting", !.own = a])
  /\ \A op : op # "send" => Other([Idle EXCEPT !.pc = "bump", !.op = op])
  /\ Other([Idle EXCEPT !.pc = "restoring"])
BY DEF Other

LEMMA OtherStaysOther ==
  ASSUME NEW rec \in RequestState, Other(rec)
  PROVE  /\ Other(StartReceive(rec))
         /\ \A pc : pc \notin {"lane", "send"} => Other([rec EXCEPT !.pc = pc])
         /\ \A a, pc : pc \notin {"lane", "send"} => Other([rec EXCEPT !.previous = a, !.pc = pc])
         /\ \A t : Other([rec EXCEPT !.pc = "keep", !.task = t])
         /\ \A a : Other([rec EXCEPT !.own = a, !.pc = "unplug"])
BY DEF Other, StartReceive, RequestState

\* Where the requests that are no sends are.
LEMMA ElsewhereIsOther ==
  ASSUME LaneInv, NEW r \in Requests, request[r].pc \notin {"lane", "send"}
  PROVE  Other(request[r]) /\ request[r] \in RequestState
BY DEF LaneInv, Laned, Other, TypeOK

\* Every step of a request that is no send leaves the lanes alone.
LEMMA OtherSteps ==
  ASSUME LaneInv, NEW r \in Requests,
         \/ Configure(r) \/ Health(r) \/ ConnectRequest(r) \/ DisconnectRequest(r)
         \/ RestoreConfig(r) \/ Connected(r) \/ ConnectFailed(r) \/ Bump(r) \/ Take(r)
         \/ Swap(r) \/ Previous(r) \/ Store(r) \/ Spawn(r) \/ Keep(r) \/ Unplug(r)
         \/ Find(r) \/ Drop(r) \/ Sent(r)
  PROVE  lanes' = lanes /\ \E rec : Other(rec) /\ Continue(r, rec)
<1>. USE IdleIsOther, ElsewhereIsOther, OtherStaysOther, GotoContinues
<1>. HIDE DEF Continue, Idle, Goto
<1>0. TypeOK
  BY DEF LaneInv
<1>a. ASSUME Install(r) \/ Reject(r) PROVE \E rec : Other(rec) /\ Continue(r, rec)
  BY <1>a DEF Install, Reject
<1>1. CASE Configure(r)
  BY <1>1, <1>a DEF Configure, Accept
<1>2. CASE Health(r)
  BY <1>2 DEF Health, Accept
<1>3. CASE RestoreConfig(r)
  BY <1>3, <1>a DEF RestoreConfig
<1>4. CASE ConnectRequest(r)
  BY <1>4 DEF ConnectRequest, Accept
<1>5. CASE DisconnectRequest(r)
  BY <1>5 DEF DisconnectRequest, Accept
<1>6. CASE Connected(r)
  BY <1>0, <1>6 DEF Connected
<1>7. CASE ConnectFailed(r)
  BY <1>0, <1>7 DEF ConnectFailed
<1>8. CASE Bump(r)
  BY <1>0, <1>8 DEF Bump
<1>9. CASE Take(r)
  BY <1>0, <1>9 DEF Take
<1>10. CASE Swap(r)
  BY <1>0, <1>10 DEF Swap
<1>11. CASE Previous(r)
  BY <1>0, <1>11 DEF Previous
<1>12. CASE Store(r)
  BY <1>0, <1>12 DEF Store
<1>13. CASE Spawn(r)
  BY <1>0, <1>13 DEF Spawn
<1>14. CASE Keep(r) \/ Unplug(r) \/ Drop(r) \/ Sent(r)
  BY <1>14 DEF Keep, Unplug, Drop, Sent
<1>15. CASE Find(r)
  BY <1>0, <1>15 DEF Find
<1>. QED
  BY <1>1, <1>2, <1>3, <1>4, <1>5, <1>6, <1>7, <1>8, <1>9, <1>10, <1>11, <1>12, <1>13, <1>14,
     <1>15

\* The lane that a send is given is the session's only one.
LEMMA SendKeepsLanes ==
  ASSUME LaneInv, NEW r \in Requests, NEW s \in Sessions, Send(r, s)
  PROVE  (\A q \in Requests : Laned(q)') /\ SerialPerSession'
<1>. DEFINE lane == IF Held(s) THEN lanes[s]
                    ELSE CHOOSE l \in Lanes :
                           \A q \in Requests : request[q].session = s => request[q].lane # l
            rec == [Idle EXCEPT !.pc = "lane", !.op = "send", !.own = adapter, !.session = s,
                                !.lane = lane]
<1>1. /\ lanes' = [lanes EXCEPT ![s] = lane]
      /\ Continue(r, rec)
  BY DEF Send
<1>2. /\ rec.op = "send" /\ rec.pc = "lane" /\ rec.session = s /\ rec.lane = lane
  OBVIOUS
<1>3. ASSUME NEW q \in Requests, request[q].session = s PROVE lane = lanes[s]
  BY <1>3, RuntimeAssumption DEF LaneInv, Laned, Held, RuntimeAssumption
<1>. HIDE DEF rec, lane
<1>4. \A q \in Requests : request'[q] = IF q = r THEN rec ELSE request[q]
  BY <1>1 DEF LaneInv, TypeOK
<1>5. lanes'[s] = lane /\ \A z \in Sessions : z # s => lanes'[z] = lanes[z]
  BY <1>1 DEF LaneInv, TypeOK
<1>. HIDE DEF Continue
<1>6. ASSUME NEW q \in Requests PROVE Laned(q)'
  <2>1. CASE q = r
    BY <1>2, <1>4, <1>5, <2>1 DEF Laned
  <2>2. CASE q # r
    <3>1. request'[q] = request[q] /\ Laned(q) /\ request[q].session \in Sessions \cup {None}
      BY <1>4, <2>2 DEF LaneInv, TypeOK, RequestState
    <3>. QED  BY <1>3, <1>5, <3>1 DEF Laned
  <2>. QED  BY <2>1, <2>2
<1>7. SerialPerSession'
  BY <1>2, <1>4 DEF LaneInv, SerialPerSession
<1>. QED  BY <1>6, <1>7

\* Only one of those that have the lane holds it.
LEMMA LockKeepsTurns ==
  ASSUME LaneInv, NEW r \in Requests, Lock(r)
  PROVE  (\A q \in Requests : Laned(q)') /\ SerialPerSession'
<1>. DEFINE rec == [request[r] EXCEPT !.pc = "send"]
<1>1. Continue(r, rec) /\ lanes' = lanes
  BY GotoContinues DEF Lock, LaneInv
<1>2. /\ request[r].op = "send" /\ request[r].session \in Sessions
      /\ rec.op = "send" /\ rec.pc = "send"
      /\ rec.session = request[r].session /\ rec.lane = request[r].lane
  BY DEF Lock, LaneInv, Laned, TypeOK, RequestState
<1>. HIDE DEF rec
<1>3. \A q \in Requests : request'[q] = IF q = r THEN rec ELSE request[q]
  BY <1>1 DEF LaneInv, TypeOK
<1>. HIDE DEF Continue, Goto
<1>4. \A q \in Requests : Laned(q)'
  BY <1>1, <1>2, <1>3 DEF LaneInv, Laned
<1>5. ASSUME NEW q \in Requests, At(q, "send"), request[q].session = request[r].session PROVE FALSE
  <2>1. request[q].lane # request[r].lane
    BY <1>5 DEF Lock
  <2>2. Laned(q) /\ Laned(r)
    BY DEF LaneInv
  <2>3. request[r].session # None
    BY <1>2, RuntimeAssumption DEF RuntimeAssumption
  <2>. QED  BY <1>5, <2>1, <2>2, <2>3 DEF Laned
<1>6. SerialPerSession'
  BY <1>2, <1>3, <1>5 DEF LaneInv, SerialPerSession
<1>. QED  BY <1>4, <1>6

LEMMA LaneInit == Init => LaneInv
<1>. SUFFICES ASSUME Init PROVE LaneInv
  OBVIOUS
<1>1. \A r \in Requests : request[r] = Idle
  BY DEF Init
<1>2. \A r \in Requests : Laned(r)
  BY <1>1 DEF Laned
<1>3. SerialPerSession
  BY <1>1 DEF SerialPerSession
<1>. QED  BY TypeInit, <1>2, <1>3 DEF LaneInv

LEMMA LaneStep == LaneInv /\ [Next]_vars => LaneInv'
<1>. SUFFICES ASSUME LaneInv, [Next]_vars PROVE LaneInv'
  OBVIOUS
<1>0. TypeOK'
  BY TypeStep DEF LaneInv
<1>1. ASSUME NEW r \in Requests,
             \/ Configure(r) \/ Health(r) \/ ConnectRequest(r) \/ DisconnectRequest(r)
             \/ RestoreConfig(r) \/ Connected(r) \/ ConnectFailed(r) \/ Bump(r) \/ Take(r)
             \/ Swap(r) \/ Previous(r) \/ Store(r) \/ Spawn(r) \/ Keep(r) \/ Unplug(r)
             \/ Find(r) \/ Drop(r) \/ Sent(r)
      PROVE  LaneInv'
  <2>1. PICK rec : Other(rec) /\ Continue(r, rec)
    BY <1>1, OtherSteps
  <2>. QED  BY <1>0, <1>1, <2>1, OtherSteps, LanesKept DEF LaneInv
<1>2. ASSUME NEW r \in Requests, NEW s \in Sessions, Send(r, s) PROVE LaneInv'
  BY <1>0, <1>2, SendKeepsLanes DEF LaneInv
<1>3. ASSUME NEW r \in Requests, Lock(r) PROVE LaneInv'
  BY <1>0, <1>3, LockKeepsTurns DEF LaneInv
<1>4. ASSUME UNCHANGED <<request, lanes>> PROVE LaneInv'
  BY <1>0, <1>4 DEF LaneInv, Laned, SerialPerSession
<1>5. ASSUME NEW t \in Tasks, LoopStep(t) PROVE LaneInv'
  BY <1>4, <1>5 DEF LoopStep, LoopCheck, LoopReceive, LoopAgain, LoopFail, LoopReport,
                    LoopUnchanged
<1>6. CASE UNCHANGED vars
  BY <1>4, <1>6 DEF vars
<1>. QED  BY <1>1, <1>2, <1>3, <1>5, <1>6 DEF Next, RequestStep

\* No receive loop is of a generation the runtime has not reached, and what
\* requests, loops and lanes hold stays within its types, for any number of them
\* (stop_receive, run_receive_loop).
THEOREM RuntimeTypes == Spec => []TypeOK
  BY TypeInit, TypeStep, PTL DEF Spec

\* Nothing is sent to a session while something else is on its way to it: for any
\* number of requests, sessions and lanes, and however they are dropped
\* (SessionLaneRegistry::lane).
THEOREM OneSendPerSession == Spec => []SerialPerSession
<1>1. Spec => []LaneInv
  BY LaneInit, LaneStep, PTL DEF Spec
<1>2. LaneInv => SerialPerSession
  BY DEF LaneInv
<1>. QED  BY <1>1, <1>2, PTL
-----------------------------------------------------------------------------
(***************************************************************************)
(* The request under way, before and after a step.                         *)
(***************************************************************************)
LEMMA UnderWay ==
  ASSUME Alone
  PROVE  /\ \A r \in Requests : Changing(r) => Under = request[r]
         /\ Quiescent => Under = Idle
BY DEF Alone, Under, Quiescent

LEMMA UnderWayNext ==
  ASSUME Alone'
  PROVE  /\ \A r \in Requests : Changing(r)' => Under' = request'[r]
         /\ Quiescent' => Under' = Idle
BY DEF Alone, Under, Quiescent

\* A step of the only request that changes anything.
LEMMA UnderMoves ==
  ASSUME TypeOK, Alone, NEW r \in Requests, NEW rec, Changing(r) \/ Quiescent,
         Continue(r, rec), rec.op # "send", rec.pc = "idle" => rec = Idle
  PROVE  Alone' /\ Under' = rec
<1>1. \A q \in Requests : request'[q] = IF q = r THEN rec ELSE request[q]
  BY DEF TypeOK
<1>. HIDE DEF Continue
<1>2. \A q \in Requests : q # r => ~Changing(q) /\ ~Changing(q)'
  BY <1>1 DEF Alone, Changing, Quiescent
<1>3. Alone'
  BY <1>2 DEF Alone
<1>4. CASE Changing(r)'
  BY <1>1, <1>3, <1>4, UnderWayNext
<1>5. CASE ~Changing(r)'
  <2>1. Quiescent' /\ rec = Idle
    BY <1>1, <1>2, <1>5 DEF Quiescent, Changing
  <2>. QED  BY <1>3, <2>1, UnderWayNext
<1>. QED  BY <1>3, <1>4, <1>5

\* A step of a send.
LEMMA UnderStays ==
  ASSUME TypeOK, Alone, NEW r \in Requests, NEW rec, ~Changing(r),
         Continue(r, rec), rec.pc = "idle" \/ rec.op = "send"
  PROVE  Alone' /\ Under' = Under
<1>1. \A q \in Requests : request'[q] = IF q = r THEN rec ELSE request[q]
  BY DEF TypeOK
<1>. HIDE DEF Continue
<1>2. \A q \in Requests : /\ Changing(q)' <=> Changing(q)
                          /\ Changing(q) => request'[q] = request[q]
  BY <1>1 DEF Changing
<1>3. Alone'
  BY <1>2 DEF Alone, Changing
<1>4. CASE Quiescent
  <2>1. Quiescent'
    BY <1>2, <1>4 DEF Quiescent, Changing
  <2>. QED  BY <1>3, <1>4, <2>1, UnderWay, UnderWayNext
<1>5. CASE ~Quiescent
  <2>1. PICK q \in Requests : Changing(q)
    BY <1>5 DEF Quiescent
  <2>2. Changing(q)' /\ request'[q] = request[q]
    BY <1>2, <2>1 DEF Changing
  <2>. QED  BY <1>3, <2>1, <2>2, UnderWay, UnderWayNext
<1>. QED  BY <1>4, <1>5

\* What is said of the request under way is said of its record.
LEMMA TurnOfNext ==
  ASSUME NEW CONSTANT v, Under' = v, Turn(v)'
  PROVE  Turn(Under)'
BY DEF Turn, Fits, OneLoop, Backed, Plugged, Early, Installs, OnInstalled, Counts, Current, Running

LEMMA TurnOf ==
  ASSUME NEW CONSTANT u, Under = u, Turn(Under)
  PROVE  Turn(u)
BY DEF Turn, Fits, OneLoop, Backed, Plugged, Early, Installs, OnInstalled, Counts, Current, Running

\* Nothing that the turn depends on has changed.
LEMMA TurnStays ==
  ASSUME NEW CONSTANT u, Turn(u),
         UNCHANGED <<adapter, connected, generation, receiveTask, loop, platform, order>>
  PROVE  Turn(u)'
BY DEF Turn, Fits, OneLoop, Backed, Plugged, Early, Installs, OnInstalled, Counts, Current, Running
-----------------------------------------------------------------------------
(***************************************************************************)
(* Each step of a request that is alone gives the next one its turn.       *)
(***************************************************************************)

\* An identity that nothing refers to.
LEMMA FreeAdapter ==
  ASSUME FreeAdapters # {}, NEW CONSTANT a, a = CHOOSE b \in FreeAdapters : TRUE
  PROVE  a \in Adapters /\ a # adapter /\ a # None
BY FreeTypes, RuntimeAssumption DEF FreeAdapters, RuntimeAssumption

LEMMA FreeTask ==
  ASSUME FreeTasks # {}, NEW CONSTANT t, t = CHOOSE b \in FreeTasks : TRUE
  PROVE  t \in Tasks /\ t # None
BY FreeTypes, RuntimeAssumption DEF FreeTasks, RuntimeAssumption

\* No request but perhaps a restoring one is under way.
Waiting(u) == u.pc \in {"idle", "restoring"} /\ u.op = "connect" /\ ~u.starting

LEMMA WaitingIs ==
  /\ Waiting(Idle)
  /\ \A u : Turn(u) /\ u.pc = "restoring" => Waiting(u)
BY DEF Waiting, Turn, Fits

\* What holds while waiting holds for one that has just begun.
LEMMA TurnBegins ==
  ASSUME TypeOK, NEW CONSTANT u, Turn(u), Waiting(u), NEW CONSTANT v,
         v = Idle \/ Fits(v)', ~v.starting, v.pc \in {"idle", "restoring", "connecting", "bump"},
         UNCHANGED <<adapter, connected, generation, receiveTask, loop, order>>,
         \A a \in Adapters : platform'[a] = "up" => platform[a] = "up"
  PROVE  Turn(v)'
<1>1. OneLoop(v)'
  BY DEF Turn, OneLoop, Waiting, Counts, Current, Running, Without
<1>2. Backed(v)'
  BY DEF Turn, Backed, Early, Waiting
<1>3. Plugged(v)'
  BY DEF Turn, Plugged, Waiting
<1>4. Fits(v)' => (v = Idle \/ Fits(v))'
  OBVIOUS
<1>. QED  BY <1>1, <1>2, <1>3, <1>4 DEF Turn

LEMMA TurnInstall ==
  ASSUME TypeOK, NEW CONSTANT u, Turn(u), Waiting(u), NEW CONSTANT v, NEW r \in Requests,
         v = request'[r], Install(r) \/ Reject(r),
         UNCHANGED <<adapter, connected, generation, receiveTask, loop, order>>
  PROVE  Turn(v)'
<1>1. CASE Install(r)
  <2>1. PICK a : a = CHOOSE b \in FreeAdapters : TRUE
    OBVIOUS
  <2>2. /\ a \in Adapters /\ a # adapter /\ a # None
        /\ v = [Idle EXCEPT !.pc = "connecting", !.op = "install", !.own = a]
        /\ platform' = [platform EXCEPT ![a] = "down"]
    BY <1>1, <2>1, FreeAdapter DEF Install, TypeOK
  <2>3. Fits(v)' /\ ~v.starting /\ v.pc = "connecting"
    BY <2>2 DEF Fits
  <2>4. \A b \in Adapters : platform'[b] = "up" => platform[b] = "up"
    BY <2>2 DEF TypeOK
  <2>. QED  BY <2>3, <2>4, TurnBegins
<1>2. CASE Reject(r)
  <2>1. v = [Idle EXCEPT !.pc = "bump", !.op = "invalid"] /\ platform' = platform
    BY <1>2 DEF Reject, TypeOK
  <2>2. Fits(v)' /\ ~v.starting /\ v.pc = "bump"
    BY <2>1 DEF Fits
  <2>. QED  BY <2>1, <2>2, TurnBegins
<1>. QED  BY <1>1, <1>2

LEMMA TurnAccept ==
  ASSUME TypeOK, Turn(Idle), NEW r \in Requests, NEW CONSTANT v, v = request'[r],
         Configure(r) \/ Health(r) \/ ConnectRequest(r) \/ DisconnectRequest(r), order' = order
  PROVE  Turn(v)'
<1>0. PICK u : u = Idle
  OBVIOUS
<1>a. Turn(u) /\ Waiting(u)
  BY <1>0, WaitingIs
<1>1. CASE Configure(r)
  BY <1>a, <1>1, TurnInstall DEF Configure
<1>2. CASE Health(r)
  <2>1. v = [Idle EXCEPT !.pc = "restoring"]
    BY <1>2 DEF Health, TypeOK
  <2>2. Fits(v)' /\ ~v.starting /\ v.pc = "restoring"
    BY <2>1 DEF Fits
  <2>. QED  BY <1>a, <1>2, <2>2, TurnBegins DEF Health
<1>3. CASE ConnectRequest(r)
  <2>1. v = [Idle EXCEPT !.pc = "connecting", !.own = adapter] /\ adapter # None
        /\ adapter' = adapter
    BY <1>3 DEF ConnectRequest, TypeOK
  <2>2. Fits(v)' /\ ~v.starting /\ v.pc = "connecting"
    BY <2>1 DEF Fits, OnInstalled
  <2>. QED  BY <1>a, <1>3, <2>2, TurnBegins DEF ConnectRequest
<1>4. CASE DisconnectRequest(r)
  <2>1. v = [Idle EXCEPT !.pc = "bump", !.op = "disconnect"]
    BY <1>4 DEF DisconnectRequest, TypeOK
  <2>2. Fits(v)' /\ ~v.starting /\ v.pc = "bump"
    BY <2>1 DEF Fits
  <2>. QED  BY <1>a, <1>4, <2>2, TurnBegins DEF DisconnectRequest
<1>. QED  BY <1>1, <1>2, <1>3, <1>4

LEMMA TurnRestore ==
  ASSUME TypeOK, NEW r \in Requests, NEW CONSTANT u, u = request[r], Turn(u),
         NEW CONSTANT v, v = request'[r], RestoreConfig(r)
  PROVE  Turn(v)'
<1>1. Waiting(u) /\ UNCHANGED <<adapter, generation, receiveTask, loop, connected, order>>
  BY WaitingIs DEF RestoreConfig, Install, Reject
<1>2. CASE Install(r) \/ Reject(r)
  BY <1>1, <1>2, TurnInstall
<1>3. CASE Answer(r) /\ UNCHANGED platform
  <2>1. v = Idle
    BY <1>3 DEF TypeOK
  <2>2. ~v.starting /\ v.pc = "idle"
    BY <2>1
  <2>. QED  BY <1>1, <1>3, <2>1, <2>2, TurnBegins
<1>. QED  BY <1>2, <1>3 DEF RestoreConfig

\* The steps of the request under way.
LEMMA TurnConnected ==
  ASSUME TypeOK, NEW r \in Requests, NEW CONSTANT u \in RequestState, u = request[r], Turn(u),
         NEW CONSTANT v, v = request'[r], Connected(r)
  PROVE  Turn(v)'
<1>1. u.pc = "connecting" /\ ~u.starting /\ u.own # None /\ u.own \in Adapters
      /\ ((u.op = "connect" /\ u.own = adapter) \/ (u.op = "install" /\ u.own # adapter))
  <2>1. u.pc = "connecting" /\ Fits(u)
    BY DEF Connected, Turn
  <2>2. u.own # None /\ ~u.starting
        /\ ((u.op = "connect" /\ u.own = adapter) \/ (u.op = "install" /\ u.own # adapter))
    BY <2>1 DEF Fits, OnInstalled
  <2>3. u.own \in Adapters \cup {None}
    BY DEF RequestState
  <2>. QED  BY <2>1, <2>2, <2>3
<1>2. CASE u.op = "connect"
  <2>1. /\ v = [u EXCEPT !.pc = "bump", !.starting = TRUE] /\ connected' = TRUE
        /\ UNCHANGED <<adapter, generation, receiveTask, loop, order>>
        /\ platform' = [platform EXCEPT ![adapter] = "up"]
    BY <1>1, <1>2 DEF Connected, StartReceive, TypeOK
  <2>2. v.pc = "bump" /\ v.starting /\ v.own = adapter /\ v.op = "connect"
    BY <1>1, <1>2, <2>1 DEF RequestState
  <2>3. Fits(v)'
    BY <1>1, <1>2, <2>1, <2>2 DEF Fits, OnInstalled
  <2>4. OneLoop(v)'
    BY <1>1, <2>1, <2>2 DEF Turn, OneLoop, Counts, Current, Running, Without
  <2>5. Backed(v)'
    BY <2>2 DEF Backed, Early
  <2>6. Plugged(v)'
    BY <1>1, <1>2, <2>1, <2>2 DEF Turn, Plugged, TypeOK
  <2>. QED  BY <2>3, <2>4, <2>5, <2>6 DEF Turn
<1>3. CASE u.op = "install"
  <2>1. /\ v = [u EXCEPT !.pc = "bump"]
        /\ UNCHANGED <<adapter, connected, generation, receiveTask, loop, order>>
        /\ platform' = [platform EXCEPT ![u.own] = "up"]
    BY <1>1, <1>3 DEF Connected, TypeOK
  <2>2. v.pc = "bump" /\ ~v.starting /\ v.own = u.own /\ v.op = "install"
    BY <1>1, <1>3, <2>1 DEF RequestState
  <2>3. Fits(v)'
    BY <1>1, <2>1, <2>2 DEF Fits
  <2>4. OneLoop(v)'
    BY <1>1, <2>1, <2>2 DEF Turn, OneLoop, Counts, Current, Running, Without
  <2>5. Backed(v)'
    BY <1>1, <2>1 DEF Turn, Backed, Early
  <2>6. Plugged(v)'
    BY <1>1, <2>1, <2>2 DEF Turn, Plugged, TypeOK
  <2>. QED  BY <2>3, <2>4, <2>5, <2>6 DEF Turn
<1>. QED  BY <1>1, <1>2, <1>3

LEMMA TurnConnectFailed ==
  ASSUME TypeOK, NEW r \in Requests, NEW CONSTANT u \in RequestState, u = request[r], Turn(u),
         NEW CONSTANT v, v = request'[r], ConnectFailed(r)
  PROVE  Turn(v)'
<1>1. u.pc = "connecting" /\ ~u.starting /\ (u.op = "connect" \/ u.op = "install")
  BY DEF ConnectFailed, Turn, Fits
<1>2. /\ UNCHANGED <<adapter, generation, receiveTask, loop, order>>
      /\ platform' = [platform EXCEPT ![u.own] = "down"]
      /\ \/ u.op = "connect" /\ v = Idle /\ connected' = FALSE
         \/ /\ u.op = "install" /\ v = [Idle EXCEPT !.pc = "bump", !.op = "failed"]
            /\ connected' = connected
  BY <1>1 DEF ConnectFailed, TypeOK
<1>3. v.pc \in {"idle", "bump"} /\ ~v.starting /\ (v.pc = "bump" => v.op = "failed")
  <2>1. CASE v = Idle
    BY <2>1
  <2>2. CASE v = [Idle EXCEPT !.pc = "bump", !.op = "failed"]
    BY <2>2
  <2>. QED  BY <1>2, <2>1, <2>2
<1>4. (v = Idle \/ Fits(v))'
  BY <1>2, <1>3 DEF Fits
<1>5. OneLoop(v)'
  BY <1>1, <1>2, <1>3 DEF Turn, OneLoop, Counts, Current, Running, Without
<1>6. Backed(v)'
  BY <1>1, <1>2 DEF Turn, Backed, Early
<1>7. Plugged(v)'
  BY <1>1, <1>2 DEF Turn, Plugged, TypeOK
<1>. QED  BY <1>4, <1>5, <1>6, <1>7 DEF Turn

LEMMA TurnBump ==
  ASSUME TypeOK, NEW r \in Requests, NEW CONSTANT u \in RequestState, u = request[r], Turn(u),
         NEW CONSTANT v, v = request'[r], Bump(r)
  PROVE  Turn(v)'
<1>1. /\ v = [u EXCEPT !.pc = "take"] /\ u.pc = "bump"
      /\ UNCHANGED <<adapter, connected, receiveTask, loop, platform, order>>
  BY DEF Bump, TypeOK
<1>a. generation' = generation + 1 /\ generation \in Nat
  BY DEF Bump, NewGeneration, TypeOK
<1>b. \A t \in Tasks : loop[t].generation # generation'
  BY <1>a DEF TypeOK
<1>2. v.pc = "take" /\ v.op = u.op /\ v.own = u.own /\ v.starting = u.starting
  BY <1>1 DEF RequestState
<1>3. Fits(v)'
  <2>1. Fits(u)
    BY <1>1 DEF Turn
  <2>. QED  BY <1>1, <1>2, <2>1 DEF Fits, OnInstalled
<1>4. OneLoop(v)'
  <2>1. \A t \in Tasks : Counts(t)' => Counts(t)
    BY <1>1, <1>b DEF Counts, Running, Current
  <2>. QED  BY <1>1, <1>2, <2>1 DEF Turn, OneLoop, Without
<1>5. Backed(v)'
  BY <1>1, <1>2 DEF Turn, Backed, Early
<1>6. Plugged(v)'
  BY <1>1, <1>2 DEF Turn, Plugged
<1>. QED  BY <1>3, <1>4, <1>5, <1>6 DEF Turn

LEMMA TurnTake ==
  ASSUME TypeOK, NEW r \in Requests, NEW CONSTANT u \in RequestState, u = request[r], Turn(u),
         NEW CONSTANT v, v = request'[r], Take(r)
  PROVE  Turn(v)'
<1>1. /\ u.pc = "take" /\ receiveTask' = None
      /\ v = [u EXCEPT !.pc = IF u.starting THEN "spawn"
                            ELSE IF u.op = "disconnect" THEN "find" ELSE "swap"]
      /\ UNCHANGED <<adapter, connected, generation, platform, order>>
  BY DEF Take, Abort, TypeOK
<1>a. \A t \in Tasks : loop'[t].generation = loop[t].generation
                       /\ (Running(t)' => Running(t) /\ t # receiveTask)
  <2>1. CASE receiveTask = None
    BY <2>1, RuntimeAssumption DEF Take, Abort, Running, RuntimeAssumption
  <2>2. CASE receiveTask # None
    BY <2>2 DEF Take, Abort, TaskIsOver, Running, TypeOK
  <2>. QED  BY <2>1, <2>2
<1>2. /\ v.op = u.op /\ v.own = u.own /\ v.starting = u.starting
      /\ v.pc = IF u.starting THEN "spawn" ELSE IF u.op = "disconnect" THEN "find" ELSE "swap"
  BY <1>1 DEF RequestState
<1>3. Fits(v)'
  <2>1. Fits(u)
    BY <1>1 DEF Turn
  <2>. QED  BY <1>1, <1>2, <2>1 DEF Fits, OnInstalled, Installs
<1>4. \A t \in Tasks : ~Counts(t)'
  <2>1. \A t \in Tasks : Counts(t)' => Counts(t) /\ t # receiveTask
    BY <1>1, <1>a DEF Counts, Current
  <2>. QED  BY <1>1, <2>1 DEF Turn, OneLoop
<1>5. OneLoop(v)' /\ Backed(v)'
  BY <1>1, <1>2, <1>4 DEF OneLoop, Backed, Early
<1>6. Plugged(v)'
  BY <1>1, <1>2 DEF Turn, Plugged
<1>. QED  BY <1>3, <1>5, <1>6 DEF Turn

LEMMA TurnSwap ==
  ASSUME TypeOK, NEW r \in Requests, NEW CONSTANT u \in RequestState, u = request[r],
         (InTurn /\ Turn(u)) \/ (order = "mending" /\ Mends(u)),
         NEW CONSTANT v, v = request'[r], Swap(r)
  PROVE  InTurn' /\ Turn(v)'
<1>1. /\ u.pc = "swap" /\ adapter' = IF u.op = "install" THEN u.own ELSE None
      /\ v = [u EXCEPT !.previous = adapter, !.pc = IF adapter = None THEN "store" ELSE "previous"]
      /\ UNCHANGED <<connected, generation, receiveTask, loop, platform>>
      /\ order' = IF order = "mending" THEN "mended" ELSE order
  BY DEF Swap, TypeOK
<1>2. /\ v.op = u.op /\ v.own = u.own /\ v.previous = adapter
      /\ v.pc = IF adapter = None THEN "store" ELSE "previous"
  BY <1>1 DEF RequestState
<1>3. Installs(u) /\ (u.op = "install" => u.own \notin {None, adapter}) /\ receiveTask = None
  BY <1>1 DEF Turn, Mends, Fits, OneLoop, Without
<1>4. Fits(v)'
  BY <1>1, <1>2, <1>3 DEF Fits, OnInstalled, Installs
<1>5. \A t \in Tasks : ~Counts(t)'
  <2>1. CASE InTurn /\ Turn(u)
    BY <1>1, <1>3, <2>1, RuntimeAssumption
       DEF InTurn, Turn, OneLoop, Counts, Running, Current, RuntimeAssumption
  <2>2. CASE order = "mending" /\ Mends(u)
    BY <1>1, <2>2 DEF Mends, Counts, Running, Current
  <2>. QED  BY <2>1, <2>2
<1>6. OneLoop(v)' /\ Backed(v)'
  BY <1>1, <1>2, <1>3, <1>5 DEF OneLoop, Backed, Early
<1>7. Plugged(v)'
  BY <1>1, <1>2, <1>3, RuntimeAssumption DEF InTurn, Turn, Plugged, RuntimeAssumption
<1>8. InTurn'
  BY <1>1 DEF InTurn
<1>. QED  BY <1>4, <1>6, <1>7, <1>8 DEF Turn

LEMMA TurnPrevious ==
  ASSUME TypeOK, NEW r \in Requests, NEW CONSTANT u \in RequestState, u = request[r], Turn(u),
         NEW CONSTANT v, v = request'[r], Previous(r)
  PROVE  Turn(v)'
<1>1. /\ u.pc = "previous" /\ v = [u EXCEPT !.previous = None, !.pc = "store"]
      /\ platform' = [platform EXCEPT ![u.previous] = "down"]
      /\ UNCHANGED <<adapter, connected, generation, receiveTask, loop, order>>
  BY DEF Previous, Unplugged, TypeOK
<1>2. v.op = u.op /\ v.own = u.own /\ v.pc = "store"
  BY <1>1 DEF RequestState
<1>3. Installs(u) /\ (u.op = "install" => OnInstalled(u)) /\ receiveTask = None
  BY <1>1 DEF Turn, Fits, OneLoop, Without
<1>4. Fits(v)'
  BY <1>1, <1>2, <1>3 DEF Fits, OnInstalled, Installs
<1>5. OneLoop(v)'
  BY <1>1, <1>2, <1>3 DEF Turn, OneLoop, Counts, Running, Current
<1>6. Backed(v)'
  BY <1>2 DEF Backed, Early
<1>7. Plugged(v)'
  BY <1>1, <1>2 DEF Turn, Plugged, TypeOK
<1>. QED  BY <1>4, <1>5, <1>6, <1>7 DEF Turn

LEMMA TurnStore ==
  ASSUME TypeOK, NEW r \in Requests, NEW CONSTANT u \in RequestState, u = request[r], Turn(u),
         NEW CONSTANT v, v = request'[r], Store(r)
  PROVE  Turn(v)'
<1>1. /\ u.pc = "store" /\ connected' = (u.op = "install")
      /\ \/ u.op = "install" /\ v = [u EXCEPT !.pc = "bump", !.starting = TRUE]
         \/ u.op # "install" /\ v = Idle
      /\ UNCHANGED <<adapter, generation, receiveTask, loop, platform, order>>
  BY DEF Store, StartReceive, TypeOK
<1>2. \/ /\ u.op = "install" /\ v.pc = "bump" /\ v.starting
         /\ v.own = u.own /\ v.op = u.op
      \/ /\ u.op # "install" /\ v = Idle /\ v.pc = "idle"
  <2>1. CASE u.op = "install" /\ v = [u EXCEPT !.pc = "bump", !.starting = TRUE]
    BY <2>1 DEF RequestState
  <2>2. CASE u.op # "install" /\ v = Idle
    BY <2>2
  <2>. QED  BY <1>1, <2>1, <2>2
<1>3. (u.op = "install" => OnInstalled(u)) /\ receiveTask = None
  BY <1>1 DEF Turn, Fits, OneLoop, Without
<1>4. (v = Idle \/ Fits(v))'
  BY <1>1, <1>2, <1>3 DEF Fits, OnInstalled
<1>5. OneLoop(v)'
  BY <1>1, <1>2, <1>3 DEF Turn, OneLoop, Counts, Running, Current, Without
<1>6. Backed(v)'
  BY <1>1, <1>2 DEF Backed, Early
<1>7. Plugged(v)'
  BY <1>1, <1>2, <1>3 DEF Turn, Plugged, OnInstalled
<1>. QED  BY <1>4, <1>5, <1>6, <1>7 DEF Turn

LEMMA TurnSpawn ==
  ASSUME TypeOK, NEW r \in Requests, NEW CONSTANT u \in RequestState, u = request[r], Turn(u),
         NEW CONSTANT v, v = request'[r], Spawn(r)
  PROVE  Turn(v)'
<1>1. PICK t : t = CHOOSE b \in FreeTasks : TRUE
  OBVIOUS
<1>2. /\ u.pc = "spawn" /\ t \in Tasks /\ t # None
      /\ v = [u EXCEPT !.pc = "keep", !.task = t]
      /\ loop' = [loop EXCEPT ![t] = [state |-> "check", adapter |-> u.own,
                                     generation |-> generation]]
      /\ UNCHANGED <<adapter, connected, generation, receiveTask, platform, order>>
  BY <1>1, FreeTask DEF Spawn, LoadedGeneration, TypeOK
<1>3. v.op = u.op /\ v.own = u.own /\ v.pc = "keep" /\ v.task = t
  BY <1>2 DEF RequestState
<1>4. OnInstalled(u) /\ receiveTask = None /\ \A x \in Tasks : ~Counts(x)
  BY <1>2, RuntimeAssumption DEF Turn, Fits, OneLoop, Counts, Without, Running, RuntimeAssumption
<1>5. /\ loop'[t].adapter = u.own /\ loop'[t].generation = generation
      /\ loop'[t].state = "check" /\ \A x \in Tasks : x # t => ~Counts(x)'
  BY <1>2, <1>4 DEF TypeOK, Counts, Running, Current
<1>6. Fits(v)'
  BY <1>2, <1>3, <1>4, <1>5 DEF Fits, OnInstalled, Current, Running
<1>7. OneLoop(v)'
  BY <1>2, <1>3, <1>4, <1>5 DEF OneLoop, Counts, Running
<1>8. Backed(v)'
  BY <1>3 DEF Backed, Early
<1>9. Plugged(v)'
  BY <1>2, <1>3 DEF Turn, Plugged
<1>. QED  BY <1>6, <1>7, <1>8, <1>9 DEF Turn

LEMMA TurnKeep ==
  ASSUME TypeOK, NEW r \in Requests, NEW CONSTANT u \in RequestState, u = request[r], Turn(u),
         NEW CONSTANT v, v = request'[r], Keep(r)
  PROVE  Turn(v)'
<1>1. /\ u.pc = "keep" /\ v = Idle /\ v.pc = "idle" /\ receiveTask' = u.task
      /\ UNCHANGED <<adapter, connected, generation, loop, platform, order>>
  BY DEF Keep, TypeOK
<1>2. /\ OnInstalled(u) /\ u.task # None /\ loop[u.task].adapter = adapter /\ Current(u.task)
      /\ (connected => Running(u.task)) /\ receiveTask = None
  BY <1>1 DEF Turn, Fits, OneLoop, Without
<1>3. OneLoop(v)'
  BY <1>1, <1>2, RuntimeAssumption DEF Turn, OneLoop, Counts, Running, Current, Current, Without, RuntimeAssumption
<1>4. Backed(v)'
  BY <1>1, <1>2 DEF Backed, OnInstalled
<1>5. Plugged(v)'
  BY <1>1, <1>2 DEF Turn, Plugged, OnInstalled
<1>. QED  BY <1>1, <1>3, <1>4, <1>5 DEF Turn

LEMMA TurnFind ==
  ASSUME TypeOK, NEW r \in Requests, NEW CONSTANT u \in RequestState, u = request[r], Turn(u),
         NEW CONSTANT v, v = request'[r], Find(r)
  PROVE  Turn(v)'
<1>1. /\ u.pc = "find" /\ v = [u EXCEPT !.own = adapter, !.pc = "unplug"]
      /\ UNCHANGED <<adapter, connected, generation, receiveTask, loop, platform, order>>
  BY DEF Find, TypeOK
<1>2. v.pc = "unplug" /\ v.op = u.op /\ v.own = adapter
  BY <1>1 DEF RequestState
<1>3. receiveTask = None /\ u.op = "disconnect"
  BY <1>1 DEF Turn, Fits, OneLoop, Without
<1>4. Fits(v)'
  BY <1>2, <1>3 DEF Fits
<1>5. OneLoop(v)'
  BY <1>1, <1>2, <1>3 DEF Turn, OneLoop, Counts, Running, Current
<1>6. Backed(v)'
  BY <1>2 DEF Backed, Early
<1>7. Plugged(v)'
  BY <1>1, <1>2, <1>3 DEF Turn, Plugged
<1>. QED  BY <1>4, <1>5, <1>6, <1>7 DEF Turn

LEMMA TurnUnplug ==
  ASSUME TypeOK, NEW r \in Requests, NEW CONSTANT u \in RequestState, u = request[r], Turn(u),
         NEW CONSTANT v, v = request'[r], Unplug(r)
  PROVE  Turn(v)'
<1>1. /\ u.pc = "unplug" /\ v = Idle /\ v.pc = "idle" /\ connected' = FALSE
      /\ UNCHANGED <<adapter, generation, receiveTask, loop, order>>
      /\ \A a \in Adapters : platform'[a] = "up" => platform[a] = "up"
  BY DEF Unplug, Becomes, TypeOK
<1>2. receiveTask = None /\ u.op = "disconnect"
  BY <1>1 DEF Turn, Fits, OneLoop, Without
<1>3. OneLoop(v)'
  BY <1>1, <1>2, RuntimeAssumption DEF Turn, OneLoop, Counts, Running, Current, Without, RuntimeAssumption
<1>4. Backed(v)'
  BY <1>1 DEF Backed
<1>5. Plugged(v)'
  BY <1>1, <1>2 DEF Turn, Plugged
<1>. QED  BY <1>1, <1>3, <1>4, <1>5 DEF Turn

\* A step of a loop: the loop the runtime knows of ends only when it has failed.
LEMMA TurnLoop ==
  ASSUME TypeOK, NEW t \in Tasks, NEW CONSTANT u \in RequestState, Turn(u), LoopStep(t)
  PROVE  Turn(u)'
<1>1. /\ UNCHANGED <<adapter, generation, receiveTask, platform, order>>
      /\ connected' => connected
      /\ \A x \in Tasks : /\ loop'[x].adapter = loop[x].adapter
                          /\ loop'[x].generation = loop[x].generation
                          /\ Running(x)' => Running(x)
                          /\ connected' /\ Current(x) /\ Running(x) => Running(x)'
  <2>1. CASE LoopCheck(t)
    BY <2>1 DEF LoopCheck, LoopGoto, LoopUnchanged, TypeOK, Running, Current, MayReceive
  <2>2. CASE LoopReceive(t)
    BY <2>2 DEF LoopReceive, LoopGoto, LoopUnchanged, TypeOK, Running, Current
  <2>3. CASE LoopAgain(t)
    BY <2>3 DEF LoopAgain, LoopGoto, LoopUnchanged, TypeOK, Running, Current
  <2>4. CASE LoopFail(t)
    BY <2>4 DEF LoopFail, LoopGoto, LoopUnchanged, TypeOK, Running, Current
  <2>5. CASE LoopReport(t)
    BY <2>5 DEF LoopReport, LoopGoto, LoopUnchanged, TypeOK, Running, Current, ReportFailure
  <2>. QED  BY <2>1, <2>2, <2>3, <2>4, <2>5 DEF LoopStep
<1>2. receiveTask \in Tasks \cup {None} /\ u.task \in Tasks \cup {None}
  BY DEF TypeOK, RequestState
<1>3. (u = Idle \/ Fits(u))'
  <2>1. CASE u.pc # "keep"
    BY <1>1, <2>1 DEF Turn, Fits, OnInstalled
  <2>2. CASE u.pc = "keep"
    <3>1. Fits(u)
      BY <2>2 DEF Turn
    <3>2. /\ OnInstalled(u) /\ u.task # None /\ loop[u.task].adapter = adapter
          /\ Current(u.task) /\ (connected => Running(u.task))
      BY <2>2, <3>1 DEF Fits
    <3>3. /\ OnInstalled(u)' /\ loop'[u.task].adapter = adapter'
          /\ Current(u.task)' /\ (connected' => Running(u.task)')
      BY <1>1, <1>2, <3>2 DEF OnInstalled, Current, Running
    <3>. QED  BY <2>2, <3>2, <3>3 DEF Fits
  <2>. QED  BY <2>1, <2>2
<1>4. OneLoop(u)'
  <2>1. \A x \in Tasks : Counts(x)' => x = receiveTask' \/ (u.pc = "keep" /\ u.task = x)
    BY <1>1 DEF Turn, OneLoop, Counts, Current
  <2>2. u.pc \in Without => receiveTask' = None
    BY <1>1 DEF Turn, OneLoop
  <2>3. ASSUME receiveTask' # None
        PROVE  /\ loop'[receiveTask'].adapter = adapter'
               /\ u.pc # "take" => Current(receiveTask)'
               /\ connected' /\ u.pc # "take" /\ ~u.starting => Running(receiveTask)'
    BY <1>1, <1>2, <2>3 DEF Turn, OneLoop, Current, Running
  <2>. QED  BY <2>1, <2>2, <2>3 DEF OneLoop
<1>5. Backed(u)'
  BY <1>1 DEF Turn, Backed
<1>6. Plugged(u)'
  BY <1>1 DEF Turn, Plugged
<1>. QED  BY <1>3, <1>4, <1>5, <1>6 DEF Turn
-----------------------------------------------------------------------------
(***************************************************************************)
(* Steps of a request that replaces the adapter, alone after others were   *)
(* mixed, up to its swap.                                                  *)
(***************************************************************************)
LEMMA MendsOfNext ==
  ASSUME NEW CONSTANT v, Under' = v, Mends(v)'
  PROVE  Mends(Under)'
BY DEF Mends, Fits, Installs, OnInstalled, Current, Running

LEMMA MendsOf ==
  ASSUME NEW CONSTANT u, Under = u, Mends(Under)
  PROVE  Mends(u)
BY DEF Mends, Fits, Installs, OnInstalled, Current, Running

LEMMA MendsBegins ==
  ASSUME TypeOK, NEW r \in Requests, NEW CONSTANT v, v = request'[r], Configure(r)
  PROVE  Mends(v)'
<1>1. CASE Install(r)
  <2>1. PICK a : a = CHOOSE b \in FreeAdapters : TRUE
    OBVIOUS
  <2>2. /\ a # adapter /\ a # None /\ adapter' = adapter
        /\ v = [Idle EXCEPT !.pc = "connecting", !.op = "install", !.own = a]
    BY <1>1, <2>1, FreeAdapter DEF Install, Configure, TypeOK
  <2>. QED  BY <2>2 DEF Mends, Fits, Installs
<1>2. CASE Reject(r)
  <2>1. v = [Idle EXCEPT !.pc = "bump", !.op = "invalid"]
    BY <1>2 DEF Reject, TypeOK
  <2>. QED  BY <2>1 DEF Mends, Fits, Installs
<1>. QED  BY <1>1, <1>2 DEF Configure

LEMMA MendsGoesOn ==
  ASSUME TypeOK, NEW r \in Requests, NEW CONSTANT u \in RequestState, u = request[r], Mends(u),
         NEW CONSTANT v, v = request'[r],
         Connected(r) \/ ConnectFailed(r) \/ Bump(r) \/ Take(r)
  PROVE  Mends(v)'
<1>0. u.op \in {"install", "invalid", "failed"} /\ ~u.starting /\ Fits(u)
  BY DEF Mends, Installs
<1>1. CASE Connected(r)
  <2>1. u.pc = "connecting" /\ v = [u EXCEPT !.pc = "bump"] /\ adapter' = adapter
    BY <1>0, <1>1 DEF Connected, TypeOK
  <2>2. v.pc = "bump" /\ v.op = u.op /\ v.own = u.own /\ v.starting = u.starting
    BY <2>1 DEF RequestState
  <2>. QED  BY <1>0, <2>1, <2>2 DEF Mends, Fits, Installs
<1>2. CASE ConnectFailed(r)
  <2>1. v = [Idle EXCEPT !.pc = "bump", !.op = "failed"]
    BY <1>0, <1>2 DEF ConnectFailed, TypeOK
  <2>. QED  BY <2>1 DEF Mends, Fits, Installs
<1>3. CASE Bump(r)
  <2>1. /\ u.pc = "bump" /\ v = [u EXCEPT !.pc = "take"]
        /\ adapter' = adapter /\ loop' = loop /\ generation' = generation + 1
    BY <1>3 DEF Bump, NewGeneration, TypeOK
  <2>2. v.pc = "take" /\ v.op = u.op /\ v.own = u.own /\ v.starting = u.starting
    BY <2>1 DEF RequestState
  <2>3. \A t \in Tasks : ~Current(t)'
    BY <2>1 DEF TypeOK, Current
  <2>4. Fits(v)'
    BY <1>0, <2>1, <2>2 DEF Fits, Installs
  <2>. QED  BY <1>0, <2>2, <2>3, <2>4 DEF Mends, Installs
<1>4. CASE Take(r)
  <2>1. /\ u.pc = "take" /\ v = [u EXCEPT !.pc = "swap"] /\ receiveTask' = None
        /\ adapter' = adapter /\ generation' = generation
    BY <1>0, <1>4 DEF Take, Abort, TypeOK
  <2>2. v.pc = "swap" /\ v.op = u.op /\ v.own = u.own /\ v.starting = u.starting
    BY <2>1 DEF RequestState
  <2>3. \A t \in Tasks : loop'[t].generation = loop[t].generation /\ (Running(t)' => Running(t))
    BY <1>4 DEF Take, Abort, TypeOK, Running
  <2>4. \A t \in Tasks : Running(t)' => ~Current(t)'
    BY <2>1, <2>3 DEF Mends, Current
  <2>5. Fits(v)'
    BY <1>0, <2>1, <2>2 DEF Fits, Installs
  <2>. QED  BY <1>0, <2>1, <2>2, <2>4, <2>5 DEF Mends, Installs
<1>. QED  BY <1>1, <1>2, <1>3, <1>4

\* Nothing that such a request depends on has changed, but that loops have ended.
LEMMA MendsStays ==
  ASSUME NEW CONSTANT u, Mends(u), UNCHANGED <<adapter, generation, receiveTask>>,
         \A t \in Tasks : loop'[t].generation = loop[t].generation /\ (Running(t)' => Running(t))
  PROVE  Mends(u)'
<1>1. Fits(u)'
  BY DEF Mends, Fits, Installs, OnInstalled
<1>2. \A t \in Tasks : Current(t)' = Current(t)
  BY DEF Current
<1>. QED  BY <1>1, <1>2 DEF Mends
-----------------------------------------------------------------------------
(***************************************************************************)
(* The invariant.                                                          *)
(***************************************************************************)
LEMMA RuntimeInit == Init => RuntimeInv
<1>. SUFFICES ASSUME Init PROVE RuntimeInv
  OBVIOUS
<1>1. LaneInv
  BY LaneInit
<1>2. \A r \in Requests : ~Changing(r)
  BY DEF Init, Changing
<1>3. Alone /\ Under = Idle
  BY <1>2, UnderWay DEF Alone, Quiescent
<1>4. Idle.pc = "idle" /\ Idle.op = "connect" /\ ~Idle.starting
  OBVIOUS
<1>5. OneLoop(Idle) /\ Backed(Idle) /\ Plugged(Idle)
  BY <1>4 DEF Init, OneLoop, Backed, Plugged, Counts, Running, Without
<1>6. Turn(Under)
  BY <1>3, <1>5 DEF Turn
<1>7. order = "turns"
  BY DEF Init
<1>. QED  BY <1>1, <1>3, <1>6, <1>7 DEF RuntimeInv

LEMMA TurnIsBusy ==
  ASSUME NEW CONSTANT v, (Turn(v) \/ Mends(v))'
  PROVE  v.pc = "idle" => v = Idle
BY DEF Turn, Mends, Fits

\* The end of every step of a request that is no send.
LEMMA TurnPasses ==
  ASSUME LaneInv, Alone, NEW r \in Requests, Changing(r) \/ Quiescent,
         NEW rec, Other(rec), Continue(r, rec),
         NEW CONSTANT v, v = request'[r], (Turn(v) \/ Mends(v))'
  PROVE  /\ Alone'
         /\ Turn(v)' => Turn(Under)'
         /\ Mends(v)' => Mends(Under)'
<1>1. TypeOK /\ rec = v
  BY DEF LaneInv, TypeOK
<1>2. v.op # "send" /\ (v.pc = "idle" => v = Idle)
  BY <1>1, TurnIsBusy DEF Other
<1>3. Alone' /\ Under' = v
  BY <1>1, <1>2, UnderMoves
<1>. QED  BY <1>3, TurnOfNext, MendsOfNext

\* What is to be shown of every step.
Holds == Alone /\ (InTurn => Turn(Under)) /\ (order = "mending" => Mends(Under))

\* While nothing but sends is under way requests come in turn, or are mixed.
LEMMA QuiescentOrder == RuntimeInv /\ Quiescent => order # "mending"
<1>. SUFFICES ASSUME RuntimeInv, Quiescent, order = "mending" PROVE FALSE
  OBVIOUS
<1>1. Alone /\ Mends(Under)
  BY DEF RuntimeInv
<1>2. Under = Idle
  BY <1>1, UnderWay
<1>3. PICK u : u = Under
  OBVIOUS
<1>4. Mends(u) /\ u = Idle
  BY <1>1, <1>2, <1>3, MendsOf
<1>5. Idle.pc = "idle"
  OBVIOUS
<1>. QED  BY <1>4, <1>5 DEF Mends

\* A request is accepted.
LEMMA AcceptStep ==
  ASSUME RuntimeInv, NEW r \in Requests, order' # "mixed",
         Configure(r) \/ Health(r) \/ ConnectRequest(r) \/ DisconnectRequest(r)
  PROVE  Holds'
<1>0. LaneInv /\ TypeOK
  BY DEF RuntimeInv, LaneInv
<1>1. Quiescent /\ order # "mending"
  <2>1. order' = Joined \/ order' = Mending
    BY DEF Configure, Health, ConnectRequest, DisconnectRequest
  <2>2. Quiescent
    BY <2>1 DEF Joined, Mending, Quiescent
  <2>. QED  BY <2>2, QuiescentOrder
<1>2. PICK rec : Other(rec) /\ Continue(r, rec)
  BY <1>0, OtherSteps
<1>3. PICK v : v = request'[r]
  OBVIOUS
<1>4. Alone
  BY <1>1 DEF Alone, Quiescent
<1>5. CASE order = "mixed"
  <2>1. Configure(r) /\ order' = "mending"
    BY <1>1, <1>5 DEF Configure, Health, ConnectRequest, DisconnectRequest, Joined, Mending,
                      Quiescent
  <2>2. Mends(v)'
    BY <1>0, <1>3, <2>1, MendsBegins
  <2>3. Alone' /\ Mends(Under)'
    BY <1>0, <1>1, <1>2, <1>3, <1>4, <2>2, TurnPasses
  <2>. QED  BY <2>1, <2>3 DEF Holds, InTurn
<1>6. CASE order # "mixed"
  <2>1. InTurn /\ order' = order
    BY <1>0, <1>1, <1>6 DEF Configure, Health, ConnectRequest, DisconnectRequest, Joined, Mending,
                      Quiescent, InTurn, TypeOK, Orders
  <2>2. Turn(Under) /\ Under = Idle
    BY <1>1, <1>4, <2>1, UnderWay DEF RuntimeInv
  <2>3. PICK u : u = Idle
    OBVIOUS
  <2>4. Turn(Idle)
    BY <2>2, <2>3, TurnOf
  <2>5. Turn(v)'
    BY <1>0, <1>3, <2>1, <2>4, TurnAccept
  <2>6. Alone' /\ Turn(Under)'
    BY <1>0, <1>1, <1>2, <1>3, <1>4, <2>5, TurnPasses
  <2>. QED  BY <2>1, <2>6 DEF Holds, InTurn
<1>. QED  BY <1>5, <1>6

\* The request under way takes a step.
LEMMA UnderStep ==
  ASSUME RuntimeInv, NEW r \in Requests, order' # "mixed",
         \/ RestoreConfig(r) \/ Connected(r) \/ ConnectFailed(r) \/ Bump(r) \/ Take(r)
         \/ Swap(r) \/ Previous(r) \/ Store(r) \/ Spawn(r) \/ Keep(r) \/ Find(r) \/ Unplug(r)
  PROVE  Holds'
<1>0. LaneInv /\ TypeOK
  BY DEF RuntimeInv, LaneInv
<1>1. request[r].pc \notin {"idle", "lane", "send"} /\ order # "mixed"
      /\ (~Swap(r) => order' = order)
  BY DEF RestoreConfig, Connected, ConnectFailed, Bump, Take, Swap, Previous, Store,
         Spawn, Keep, Find, Unplug
<1>2. Changing(r)
  BY <1>0, <1>1, ElsewhereIsOther DEF Changing, Other
<1>3. PICK u : u = request[r]
  OBVIOUS
<1>4. Alone /\ Under = u /\ u \in RequestState
  BY <1>0, <1>1, <1>2, <1>3, UnderWay DEF RuntimeInv, TypeOK
<1>5. (InTurn /\ Turn(u)) \/ (order = "mending" /\ Mends(u))
  <2>1. InTurn \/ order = "mending"
    BY <1>0, <1>1 DEF TypeOK, Orders, InTurn
  <2>. QED  BY <1>4, <2>1, TurnOf, MendsOf DEF RuntimeInv
<1>6. PICK v : v = request'[r]
  OBVIOUS
<1>7. PICK rec : Other(rec) /\ Continue(r, rec)
  BY <1>0, OtherSteps
<1>8. CASE Swap(r)
  <2>1. InTurn' /\ Turn(v)'
    BY <1>0, <1>3, <1>4, <1>5, <1>6, <1>8, TurnSwap
  <2>2. Alone' /\ Turn(Under)'
    BY <1>0, <1>2, <1>4, <1>6, <1>7, <2>1, TurnPasses
  <2>. QED  BY <2>1, <2>2 DEF Holds, InTurn
<1>9. CASE ~Swap(r) /\ InTurn /\ Turn(u)
  <2>1. Turn(v)'
    BY <1>0, <1>3, <1>4, <1>6, <1>9, TurnRestore, TurnConnected, TurnConnectFailed, TurnBump,
       TurnTake, TurnPrevious, TurnStore, TurnSpawn, TurnKeep, TurnFind, TurnUnplug
  <2>2. Alone' /\ Turn(Under)'
    BY <1>0, <1>2, <1>4, <1>6, <1>7, <2>1, TurnPasses
  <2>. QED  BY <1>1, <1>9, <2>2 DEF Holds, InTurn
<1>10. CASE ~Swap(r) /\ order = "mending" /\ Mends(u)
  <2>1. u.pc \in {"connecting", "bump", "take", "swap"}
    BY <1>10 DEF Mends
  <2>2. Connected(r) \/ ConnectFailed(r) \/ Bump(r) \/ Take(r)
    BY <1>3, <1>10, <2>1 DEF RestoreConfig, Previous, Store, Spawn, Keep, Find, Unplug
  <2>3. Mends(v)'
    BY <1>0, <1>3, <1>4, <1>6, <1>10, <2>2, MendsGoesOn
  <2>4. Alone' /\ Mends(Under)'
    BY <1>0, <1>2, <1>4, <1>6, <1>7, <2>3, TurnPasses
  <2>. QED  BY <1>1, <1>10, <2>4 DEF Holds, InTurn
<1>. QED  BY <1>5, <1>8, <1>9, <1>10

\* The request under way stays as it is.
LEMMA StaysStep ==
  ASSUME RuntimeInv, order # "mixed", order' = order, Alone', Under' = Under,
         UNCHANGED <<adapter, connected, generation, receiveTask, loop, platform>>
  PROVE  Holds'
<1>1. PICK u : u = Under
  OBVIOUS
<1>2. InTurn => Turn(u)'
  BY <1>1, TurnOf, TurnStays DEF RuntimeInv
<1>3. order = "mending" => Mends(u)'
  <2>. SUFFICES ASSUME order = "mending" PROVE Mends(u)'
    OBVIOUS
  <2>1. Mends(u)
    BY <1>1, MendsOf DEF RuntimeInv
  <2>2. \A t \in Tasks : loop'[t].generation = loop[t].generation /\ (Running(t)' => Running(t))
    BY DEF Running
  <2>. QED  BY <2>1, <2>2, MendsStays
<1>. QED  BY <1>1, <1>2, <1>3, TurnOfNext, MendsOfNext DEF Holds, InTurn

\* A send takes a step.
LEMMA SendStep ==
  ASSUME RuntimeInv, NEW r \in Requests, NEW rec, Continue(r, rec), ~Changing(r),
         order # "mixed", order' = order, rec.pc = "idle" \/ rec.op = "send",
         UNCHANGED <<adapter, connected, generation, receiveTask, loop, platform>>
  PROVE  Holds'
<1>1. Alone /\ TypeOK
  BY DEF RuntimeInv, LaneInv
<1>2. Alone' /\ Under' = Under
  BY <1>1, UnderStays
<1>. QED  BY <1>2, StaysStep

LEMMA RuntimeStep == RuntimeInv /\ [Next]_vars => RuntimeInv'
<1>. SUFFICES ASSUME RuntimeInv, [Next]_vars PROVE RuntimeInv'
  OBVIOUS
<1>0. LaneInv /\ LaneInv' /\ TypeOK
  BY LaneStep DEF RuntimeInv, LaneInv
<1>. SUFFICES ASSUME order' # "mixed" PROVE Holds'
  BY <1>0 DEF RuntimeInv, Holds, InTurn
<1>. USE <1>0
<1>1. ASSUME NEW r \in Requests,
             Configure(r) \/ Health(r) \/ ConnectRequest(r) \/ DisconnectRequest(r)
      PROVE  Holds'
  BY <1>1, AcceptStep
<1>2. ASSUME NEW r \in Requests,
             \/ RestoreConfig(r) \/ Connected(r) \/ ConnectFailed(r) \/ Bump(r) \/ Take(r)
             \/ Swap(r) \/ Previous(r) \/ Store(r) \/ Spawn(r) \/ Keep(r) \/ Find(r) \/ Unplug(r)
      PROVE  Holds'
  BY <1>2, UnderStep
<1>4. ASSUME NEW r \in Requests, NEW s \in Sessions, Send(r, s) PROVE Holds'
  <2>1. PICK lane : Continue(r, [Idle EXCEPT !.pc = "lane", !.op = "send", !.own = adapter,
                                             !.session = s, !.lane = lane])
    BY <1>4 DEF Send
  <2>2. ~Changing(r) /\ order # "mixed" /\ order' = order
        /\ UNCHANGED <<adapter, connected, generation, receiveTask, loop, platform>>
    BY <1>4 DEF Send, Changing
  <2>. DEFINE rec == [Idle EXCEPT !.pc = "lane", !.op = "send", !.own = adapter,
                                  !.session = s, !.lane = lane]
  <2>3. rec.op = "send"
    OBVIOUS
  <2>. HIDE DEF rec
  <2>. QED  BY <2>1, <2>2, <2>3, SendStep DEF rec
<1>5. ASSUME NEW r \in Requests, Lock(r) PROVE Holds'
  <2>. DEFINE rec == [request[r] EXCEPT !.pc = "send"]
  <2>1. request[r].op = "send"
    BY <1>5 DEF Lock, LaneInv, Laned
  <2>2. rec.op = "send"
    BY <2>1 DEF TypeOK, RequestState
  <2>3. ~Changing(r) /\ order # "mixed" /\ order' = order /\ Continue(r, rec)
        /\ UNCHANGED <<adapter, connected, generation, receiveTask, loop, platform>>
    BY <1>5, <2>1, GotoContinues DEF Lock, Changing
  <2>. HIDE DEF rec
  <2>. QED  BY <2>2, <2>3, SendStep
<1>6. ASSUME NEW r \in Requests, Sent(r) \/ Drop(r) PROVE Holds'
  <2>1. Continue(r, Idle) /\ ~Changing(r) /\ order' = order
    <3>1. CASE Sent(r)
      BY <3>1 DEF Sent, LaneInv, Laned, Changing
    <3>2. CASE Drop(r)
      BY <3>2 DEF Drop, Changing
    <3>. QED  BY <1>6, <3>1, <3>2
  <2>2. request[r].pc \in {"lane", "send"}
    BY <1>6, <2>1, ElsewhereIsOther DEF Sent, Drop, Awaits, Other, Changing
  <2>3. UNCHANGED <<adapter, connected, generation, receiveTask, loop, platform>>
    BY <1>6, <2>2 DEF Sent, Drop
  <2>4. Idle.pc = "idle"
    OBVIOUS
  <2>. QED  BY <2>1, <2>3, <2>4, SendStep
<1>7. ASSUME NEW t \in Tasks, LoopStep(t) PROVE Holds'
  <2>1. order # "mixed" /\ order' = order /\ request' = request
        /\ UNCHANGED <<adapter, generation, receiveTask>>
    BY <1>7 DEF LoopStep, LoopCheck, LoopReceive, LoopAgain, LoopFail, LoopReport, LoopUnchanged
  <2>2. Alone
    BY <2>1 DEF RuntimeInv
  <2>3. Alone' /\ Under' = Under
    BY <2>1, <2>2 DEF Alone, Under, Changing
  <2>4. PICK u : u = Under
    OBVIOUS
  <2>5. u \in RequestState
    BY <2>4, IdleTypes DEF Under, TypeOK
  <2>6. InTurn => Turn(u)'
    BY <1>7, <2>4, <2>5, TurnOf, TurnLoop DEF RuntimeInv
  <2>7. \A x \in Tasks : loop'[x].generation = loop[x].generation /\ (Running(x)' => Running(x))
    BY <1>7 DEF LoopStep, LoopCheck, LoopReceive, LoopAgain, LoopFail, LoopReport, LoopGoto,
                TypeOK, Running
  <2>8. order = "mending" => Mends(u)'
    BY <2>1, <2>4, <2>7, MendsOf, MendsStays DEF RuntimeInv
  <2>. QED  BY <2>1, <2>3, <2>4, <2>6, <2>8, TurnOfNext, MendsOfNext DEF Holds, InTurn
<1>8. CASE UNCHANGED vars
  <2>1. order # "mixed" /\ order' = order /\ request' = request
        /\ UNCHANGED <<adapter, connected, generation, receiveTask, loop, platform>>
    BY <1>8 DEF vars
  <2>2. Alone
    BY <2>1 DEF RuntimeInv
  <2>3. Alone' /\ Under' = Under
    BY <2>1, <2>2 DEF Alone, Under, Changing
  <2>. QED  BY <2>1, <2>3, StaysStep
<1>. QED
  BY <1>1, <1>2, <1>4, <1>5, <1>6, <1>7, <1>8 DEF Next, RequestStep

\* The invariant holds in every reachable state: requests that change anything are
\* alone unless they are mixed, and what each knows at each of its awaits is so.
THEOREM RuntimeInvariant == Spec => []RuntimeInv
BY RuntimeInit, RuntimeStep, PTL DEF Spec

\* While nothing but sends is under way the invariant speaks of Idle.
LEMMA QuiescentTurn ==
  ASSUME RuntimeInv, InTurn, Quiescent
  PROVE  TypeOK /\ OneLoop(Idle) /\ Backed(Idle) /\ Plugged(Idle)
<1>1. Alone /\ Turn(Under) /\ Under = Idle /\ TypeOK
  BY UnderWay DEF RuntimeInv, LaneInv, InTurn
<1>2. PICK u : u = Under
  OBVIOUS
<1>3. Turn(u) /\ u = Idle
  BY <1>1, <1>2, TurnOf
<1>. QED  BY <1>1, <1>3 DEF Turn

\* When no request but sends is under way and the runtime calls itself connected,
\* exactly the loop whose handle is kept runs in the current generation, on the
\* installed adapter: as long as such requests come one after the other, each to its
\* end, and again once a configuration has replaced the adapter by itself, whatever
\* overlapped or was dropped before; for any number of requests, adapters and loops
\* (install_adapter, connect_adapter, disconnect_adapter, run_receive_loop).
THEOREM ConnectedReceives == Spec => []ReadyReceives
<1>1. RuntimeInv => ReadyReceives
  <2>. SUFFICES ASSUME RuntimeInv, InTurn, Quiescent, connected PROVE
         /\ adapter # None
         /\ receiveTask # None
         /\ \A t \in Tasks : (Running(t) /\ Current(t)) = (t = receiveTask)
         /\ loop[receiveTask].adapter = adapter
    BY DEF ReadyReceives, InTurn
  <2>1. OneLoop(Idle) /\ Backed(Idle)
    BY QuiescentTurn
  <2>2. Idle.pc = "idle" /\ ~Idle.starting
    OBVIOUS
  <2>3. adapter # None /\ receiveTask # None
    BY <2>1, <2>2 DEF Backed, Early
  <2>4. /\ loop[receiveTask].adapter = adapter /\ Current(receiveTask) /\ Running(receiveTask)
        /\ \A t \in Tasks : Counts(t) => t = receiveTask
    BY <2>1, <2>2, <2>3 DEF OneLoop
  <2>5. \A t \in Tasks : (Running(t) /\ Current(t)) = (t = receiveTask)
    BY <2>4 DEF Counts, Running, Current
  <2>. QED  BY <2>3, <2>4, <2>5
<1>. QED  BY <1>1, RuntimeInvariant, PTL

\* When none is under way an adapter that was replaced or never installed has no
\* connection to its platform, as long as all have come in turn; for any number of
\* them (install_adapter).
THEOREM NoneIsLeftConnected == Spec => []NoStrayConnection
<1>1. RuntimeInv => NoStrayConnection
  <2>1. Idle.pc = "idle" /\ Idle.op = "connect"
    OBVIOUS
  <2>. QED  BY <2>1, QuiescentTurn DEF NoStrayConnection, Plugged, InTurn
<1>. QED  BY <1>1, RuntimeInvariant, PTL

\* As long as requests come in turn no loop is about to report the loss of a
\* connection while a later one receives on its successor; for any number of them
\* (stop_receive, run_receive_loop).
THEOREM LossIsReportedByItsOwn == Spec => []LossIsOwn
<1>1. RuntimeInv => LossIsOwn
  <2>. SUFFICES ASSUME RuntimeInv, order = "turns", NEW t \in Tasks, NEW x \in Tasks,
                       Running(t), Running(x)
                PROVE  x = t
    BY DEF LossIsOwn, Running
  <2>1. PICK u : u = Under
    OBVIOUS
  <2>2. OneLoop(u)
    BY <2>1, TurnOf DEF RuntimeInv, InTurn, Turn
  <2>3. /\ t = receiveTask \/ (u.pc = "keep" /\ u.task = t)
        /\ x = receiveTask \/ (u.pc = "keep" /\ u.task = x)
    BY <2>2 DEF OneLoop, Counts
  <2>4. u.pc = "keep" => receiveTask = None
    BY <2>2 DEF OneLoop, Without
  <2>. QED  BY <2>3, <2>4, RuntimeAssumption DEF RuntimeAssumption
<1>. QED  BY <1>1, RuntimeInvariant, PTL
=============================================================================
