--------------------------- MODULE MessageRuntime ---------------------------
(***************************************************************************)
(* MessageConnectorRuntime (message_sidecar.rs): one installed platform    *)
(* adapter, one receive loop that turns its messages into events, the      *)
(* configure, connect, disconnect and health requests that replace them,   *)
(* and the sends, which take turns within a session.                       *)
(* The managed server handles requests concurrently and nothing orders     *)
(* them: a request is a process that may be overtaken at every await, and  *)
(* is dropped at one when its 30 s deadline passes or its stream is reset. *)
(*                                                                         *)
(* Definitions marked `mutant` are wrong on purpose: each replaces the     *)
(* definition that follows it to show which property would notice.         *)
(***************************************************************************)
EXTENDS Integers, FiniteSets

CONSTANTS
  Requests,      \* requests being handled at once
  Adapters,      \* adapter instances (identities are reused once dropped)
  Tasks,         \* receive loop tasks (identities are reused once ended)
  Sessions,      \* chats that something is sent to
  Lanes,         \* mutexes of a session (identities are reused once dropped)
  None,          \* no adapter, no task, no lane
  MaxOperations, \* bound: requests accepted altogether, sends not counted
  MaxWithSends,  \* bound: of these, those accepted before the last send begins
  OverlapAgain,  \* bound: whether requests that have been mixed overlap again
                 \* before one of them was alone
  Droppable      \* whether requests may be dropped before they are done

ASSUME RuntimeAssumption ==
  /\ None \notin Adapters \cup Tasks \cup Sessions \cup Lanes
  /\ Lanes # {}
  /\ MaxOperations \in Nat /\ MaxWithSends \in Nat
  /\ OverlapAgain \in BOOLEAN /\ Droppable \in BOOLEAN

VARIABLES
  adapter,       \* runtime.adapter
  configured,    \* runtime.configured
  connected,     \* runtime.connected
  lastError,     \* runtime.last_error is Some
  generation,    \* runtime.generation
  receiveTask,   \* runtime.receive_task
  loop,          \* the receive loop tasks
  platform,      \* whether each adapter is connected to its platform
  request,       \* the requests being handled
  lanes,         \* runtime.lanes: the lane last made for each session
  accepted,      \* requests accepted so far, sends not counted
  order          \* how the requests other than sends have come so far

flags == <<configured, connected, lastError>>
vars == <<adapter, flags, generation, receiveTask, loop, platform, request,
          lanes, accepted, order>>

(***************************************************************************)
(* turns: one after the other, each to its end; mixed: one began while     *)
(* another was under way, or was dropped; mending: after that, one that    *)
(* replaces the adapter is alone; mended: it has replaced it, and those    *)
(* after it take turns again.  Only the properties and a bound read it.    *)
(***************************************************************************)
Orders == {"turns", "mixed", "mending", "mended"}

(***************************************************************************)
(* restoring: awaits restore_config; connecting: awaits adapter.connect(); *)
(* bump, take: the two steps of stop_receive; swap: about to replace the   *)
(* installed adapter; previous: awaits the replaced adapter's disconnect;  *)
(* store: about to set the flags; spawn, keep: start_receive about to      *)
(* start the loop and to store its handle; find: about to read the adapter *)
(* to disconnect; unplug: awaits its disconnect(); lane: waits for the     *)
(* session's lane; send: awaits the adapter's send.                        *)
(***************************************************************************)
Points == {"idle", "restoring", "connecting", "bump", "take", "swap",
           "previous", "store", "spawn", "keep", "find", "unplug", "lane",
           "send"}

\* install: a new adapter; invalid: the factory rejected the configuration;
\* failed: the new adapter did not connect.
Operations == {"install", "invalid", "failed", "connect", "disconnect", "send"}

\* own: the adapter the request works on; previous: the one it replaced;
\* task: the loop it spawned; starting: stop_receive is called by start_receive;
\* session, lane: what a send is for, and the lane it holds or waits for.
Idle == [pc |-> "idle", op |-> "connect", own |-> None, previous |-> None,
         task |-> None, starting |-> FALSE, session |-> None, lane |-> None]

\* check: about to test generation and connected; receive: awaits
\* adapter.receive(); emit: awaits events.send(); report: failed, in the current
\* generation, and about to clear connected; ended: aborted or returned.
LoopStates == {"check", "receive", "emit", "report", "ended"}

Running(t) == loop[t].state # "ended"
Current(t) == loop[t].generation = generation

Init ==
  /\ adapter = None
  /\ configured = FALSE
  /\ connected = FALSE
  /\ lastError = FALSE
  /\ generation = 0
  /\ receiveTask = None
  /\ loop = [t \in Tasks |-> [state |-> "ended", adapter |-> None, generation |-> 0]]
  /\ platform = [a \in Adapters |-> "down"]
  /\ request = [r \in Requests |-> Idle]
  /\ lanes = [s \in Sessions |-> CHOOSE l \in Lanes : TRUE]
  /\ accepted = 0
  /\ order = "turns"

\* Identities nothing refers to any more; which one is taken does not matter.
\* That there are enough of them is a bound of the model.
FreeAdapters ==
  {a \in Adapters :
     /\ a # adapter
     /\ \A t \in Tasks : Running(t) => loop[t].adapter # a
     /\ \A r \in Requests : a \notin {request[r].own, request[r].previous}}
FreeTasks ==
  {t \in Tasks : ~Running(t) /\ t # receiveTask /\ \A r \in Requests : request[r].task # t}

At(r, pc) == request[r].pc = pc
Continue(r, rec) == request' = [request EXCEPT ![r] = rec]
Goto(r, pc) == request' = [request EXCEPT ![r].pc = pc]
Answer(r) == Continue(r, Idle)

\* Requests that change what is installed, connected or received.
Changing(r) == ~At(r, "idle") /\ request[r].op # "send"
-----------------------------------------------------------------------------
(***************************************************************************)
(* Requests.                                                               *)
(***************************************************************************)
Accept(r) ==
  /\ At(r, "idle")
  /\ accepted < MaxOperations
  /\ (\E q \in Requests : Changing(q)) => OverlapAgain \/ order # "mixed"
  /\ accepted' = accepted + 1
  /\ UNCHANGED lanes

\* What the order becomes with one more request, and with one that replaces the
\* adapter.
Joined == IF \E q \in Requests : Changing(q) THEN "mixed" ELSE order
Mending == IF Joined = "mixed" /\ \A q \in Requests : ~Changing(q) THEN "mending" ELSE Joined

\* install_adapter: the factory accepts the configuration ...
Install(r) ==
  LET a == CHOOSE a \in FreeAdapters : TRUE
  IN /\ FreeAdapters # {}
     /\ Continue(r, [Idle EXCEPT !.pc = "connecting", !.op = "install", !.own = a])
     /\ platform' = [platform EXCEPT ![a] = "down"]
\* ... or rejects it: the installed adapter is stopped and dropped.
Reject(r) ==
  /\ Continue(r, [Idle EXCEPT !.pc = "bump", !.op = "invalid"])
  /\ UNCHANGED platform

\* Configure, or an account action that activates a configuration.
Configure(r) ==
  /\ Accept(r)
  /\ Install(r) \/ Reject(r)
  /\ order' = Mending
  /\ UNCHANGED <<adapter, flags, generation, receiveTask, loop>>

\* Health restores a stored account when no adapter is installed.
Health(r) ==
  /\ Accept(r)
  /\ adapter = None
  /\ Continue(r, [Idle EXCEPT !.pc = "restoring"])
  /\ order' = Joined
  /\ UNCHANGED <<adapter, flags, generation, receiveTask, loop, platform>>

RestoreConfig(r) ==
  /\ At(r, "restoring")
  /\ \/ (Install(r) \/ Reject(r)) /\ UNCHANGED flags
     \/ Answer(r) /\ UNCHANGED <<flags, platform>>
     \/ Answer(r) /\ lastError' = TRUE /\ UNCHANGED <<configured, connected, platform>>
  /\ UNCHANGED <<adapter, generation, receiveTask, loop, lanes, accepted, order>>

ConnectRequest(r) ==
  /\ Accept(r)
  /\ adapter # None
  /\ Continue(r, [Idle EXCEPT !.pc = "connecting", !.own = adapter])
  /\ order' = Joined
  /\ UNCHANGED <<adapter, flags, generation, receiveTask, loop, platform>>

DisconnectRequest(r) ==
  /\ Accept(r)
  /\ Continue(r, [Idle EXCEPT !.pc = "bump", !.op = "disconnect"])
  /\ order' = Joined
  /\ UNCHANGED <<adapter, flags, generation, receiveTask, loop, platform>>

\* start_receive begins with its own stop_receive.
StartReceive(rec) == [rec EXCEPT !.pc = "bump", !.starting = TRUE]

\* adapter.connect() returned Ok.
Connected(r) ==
  /\ At(r, "connecting")
  /\ platform' = [platform EXCEPT ![request[r].own] = "up"]
  /\ IF request[r].op = "connect"
     THEN /\ connected' = TRUE
          /\ lastError' = FALSE
          /\ Continue(r, StartReceive(request[r]))
          /\ UNCHANGED configured
     ELSE Goto(r, "bump") /\ UNCHANGED flags
  /\ UNCHANGED <<adapter, generation, receiveTask, loop, lanes, accepted, order>>

\* adapter.connect() returned Err; a new adapter is dropped.
ConnectFailed(r) ==
  /\ At(r, "connecting")
  /\ platform' = [platform EXCEPT ![request[r].own] = "down"]
  /\ IF request[r].op = "connect"
     THEN /\ connected' = FALSE
          /\ lastError' = TRUE
          /\ Answer(r)
          /\ UNCHANGED configured
     ELSE /\ Continue(r, [Idle EXCEPT !.pc = "bump", !.op = "failed"])
          /\ UNCHANGED flags
  /\ UNCHANGED <<adapter, generation, receiveTask, loop, lanes, accepted, order>>
-----------------------------------------------------------------------------
(***************************************************************************)
(* stop_receive: count up the generation, then, under the receive_task     *)
(* lock (held until the task has ended), abort the loop, which stops it at *)
(* its next await: a failure it is about to report is reported first.      *)
(***************************************************************************)
SameGeneration == generation                                    \* mutant
NewGeneration == generation + 1

Bump(r) ==
  /\ At(r, "bump")
  /\ generation' = NewGeneration
  /\ Goto(r, "take")
  /\ UNCHANGED <<adapter, flags, receiveTask, loop, platform, lanes, accepted, order>>

Abort ==
  /\ loop' = IF receiveTask = None THEN loop
             ELSE [loop EXCEPT ![receiveTask].state = IF @ = "report" THEN @ ELSE "ended"]
  /\ receiveTask' = None

NotAwaited == TRUE                                              \* mutant
TaskIsOver == receiveTask # None => loop[receiveTask].state # "report"

Take(r) ==
  /\ At(r, "take")
  /\ Abort
  /\ TaskIsOver
  /\ Goto(r, IF request[r].starting THEN "spawn"
             ELSE IF request[r].op = "disconnect" THEN "find" ELSE "swap")
  /\ UNCHANGED <<adapter, flags, generation, platform, lanes, accepted, order>>

\* The rest of install_adapter: replace the adapter and disconnect the old one.
Swap(r) ==
  /\ At(r, "swap")
  /\ adapter' = IF request[r].op = "install" THEN request[r].own ELSE None
  /\ Continue(r, [request[r] EXCEPT
       !.previous = adapter, !.pc = IF adapter = None THEN "store" ELSE "previous"])
  /\ order' = IF order = "mending" THEN "mended" ELSE order
  /\ UNCHANGED <<flags, generation, receiveTask, loop, platform, lanes, accepted>>

ForgetPrevious(r) == UNCHANGED platform                         \* mutant
Unplugged(r) == platform' = [platform EXCEPT ![request[r].previous] = "down"]

Previous(r) ==
  /\ At(r, "previous")
  /\ Unplugged(r)
  /\ Continue(r, [request[r] EXCEPT !.previous = None, !.pc = "store"])
  /\ UNCHANGED <<adapter, flags, generation, receiveTask, loop, lanes, accepted, order>>

Store(r) ==
  /\ At(r, "store")
  /\ configured' = (request[r].op # "invalid")
  /\ connected' = (request[r].op = "install")
  /\ lastError' = (request[r].op # "install")
  /\ IF request[r].op = "install"
     THEN Continue(r, StartReceive(request[r]))
     ELSE Answer(r)
  /\ UNCHANGED <<adapter, generation, receiveTask, loop, platform, lanes, accepted, order>>

\* start_receive: the loop carries the generation it was started in.
LoadedGeneration == generation

Spawn(r) ==
  /\ At(r, "spawn")
  /\ LET t == CHOOSE t \in FreeTasks : TRUE
     IN /\ FreeTasks # {}
        /\ loop' = [loop EXCEPT ![t] =
             [state |-> "check", adapter |-> request[r].own,
              generation |-> LoadedGeneration]]
        /\ Continue(r, [request[r] EXCEPT !.pc = "keep", !.task = t])
  /\ UNCHANGED <<adapter, flags, generation, receiveTask, platform, lanes, accepted, order>>

\* Storing the handle drops the one that was there; its task runs on.
Keep(r) ==
  /\ At(r, "keep")
  /\ receiveTask' = request[r].task
  /\ Answer(r)
  /\ UNCHANGED <<adapter, flags, generation, loop, platform, lanes, accepted, order>>

\* What becomes of the adapter the request works on, if there is one.
Becomes(r, state) ==
  platform' = [a \in Adapters |-> IF a = request[r].own THEN state ELSE platform[a]]

\* disconnect_adapter after stop_receive.
Find(r) ==
  /\ At(r, "find")
  /\ Continue(r, [request[r] EXCEPT !.own = adapter, !.pc = "unplug"])
  /\ UNCHANGED <<adapter, flags, generation, receiveTask, loop, platform, lanes, accepted, order>>

Unplug(r) ==
  /\ At(r, "unplug")
  /\ Becomes(r, "down")
  /\ connected' = FALSE
  /\ Answer(r)
  /\ UNCHANGED <<adapter, configured, lastError, generation, receiveTask, loop,
                 lanes, accepted, order>>

\* Where a request waits.  The wait of set_error comes before start_receive; only
\* last_error, which the model has set by then, would tell it from what follows.
Awaits(r) ==
  \/ request[r].pc \in {"restoring", "connecting", "take", "swap", "previous", "keep",
                        "find", "unplug", "lane", "send"}
  \/ At(r, "bump") /\ request[r].starting

\* The deadline passes, or the stream is reset, while the request waits.  What it
\* waits for has not begun, or has done its work on the loop or the platform.
Drop(r) ==
  /\ Droppable
  /\ Awaits(r)
  /\ \/ UNCHANGED <<receiveTask, loop, platform>>
     \/ At(r, "take") /\ Abort /\ UNCHANGED platform
     \/ At(r, "previous") /\ Unplugged(r) /\ UNCHANGED <<receiveTask, loop>>
     \/ At(r, "unplug") /\ Becomes(r, "down") /\ UNCHANGED <<receiveTask, loop>>
     \/ /\ At(r, "connecting")
        /\ request[r].op = "connect"
        /\ Becomes(r, "down") \/ Becomes(r, "up")
        /\ UNCHANGED <<receiveTask, loop>>
  /\ Answer(r)
  /\ order' = IF Changing(r) THEN "mixed" ELSE order
  /\ UNCHANGED <<adapter, flags, generation, lanes, accepted>>
-----------------------------------------------------------------------------
(***************************************************************************)
(* Sends and the other message actions.                                    *)
(***************************************************************************)
\* mutant of Held: a lane that only one request refers to is taken for unused.
HeldByTwo(s) ==
  Cardinality({r \in Requests : request[r].session = s /\ request[r].lane = lanes[s]}) > 1

\* The registry refers to a lane weakly: the requests that hold it or wait for
\* it keep it.  A dead entry is as good as none, and is forgotten by and by.
Held(s) == \E r \in Requests : request[r].session = s /\ request[r].lane = lanes[s]

\* send_text_frame and dispatch_message_action take the adapter first, then the
\* session's lane, which is a new one if nobody refers to the last.
Send(r, s) ==
  /\ At(r, "idle")
  /\ accepted <= MaxWithSends
  /\ adapter # None
  /\ LET lane == IF Held(s) THEN lanes[s]
                 ELSE CHOOSE l \in Lanes :
                        \A q \in Requests : request[q].session = s => request[q].lane # l
     IN  /\ lanes' = [lanes EXCEPT ![s] = lane]
         /\ Continue(r, [Idle EXCEPT !.pc = "lane", !.op = "send", !.own = adapter,
                                     !.session = s, !.lane = lane])
  /\ UNCHANGED <<adapter, flags, generation, receiveTask, loop, platform, accepted,
                 order>>

Lock(r) ==
  /\ At(r, "lane")
  /\ \A q \in Requests :
       At(q, "send") /\ request[q].session = request[r].session =>
         request[q].lane # request[r].lane
  /\ Goto(r, "send")
  /\ UNCHANGED <<adapter, flags, generation, receiveTask, loop, platform, lanes,
                 accepted, order>>

\* The adapter answers, or there was nothing to ask it for; the lane is let go.
Sent(r) ==
  /\ At(r, "send")
  /\ Answer(r)
  /\ UNCHANGED <<adapter, flags, generation, receiveTask, loop, platform, lanes,
                 accepted, order>>
-----------------------------------------------------------------------------
(***************************************************************************)
(* run_receive_loop.                                                       *)
(***************************************************************************)
LoopGoto(t, state) == loop' = [loop EXCEPT ![t].state = state]
LoopUnchanged ==
  UNCHANGED <<adapter, generation, receiveTask, platform, request, lanes, accepted, order>>

ConnectedOnly(t) == connected                                   \* mutant
CurrentOnly(t) == Current(t)                                    \* mutant
MayReceive(t) == Current(t) /\ connected

LoopCheck(t) ==
  /\ loop[t].state = "check"
  /\ LoopGoto(t, IF MayReceive(t) THEN "receive" ELSE "ended")
  /\ LoopUnchanged /\ UNCHANGED flags

\* receive() returned a message; an adapter that is down returns none.
LoopReceive(t) ==
  /\ loop[t].state = "receive"
  /\ platform[loop[t].adapter] = "up"
  /\ LoopGoto(t, IF Current(t) THEN "emit" ELSE "ended")
  /\ LoopUnchanged /\ UNCHANGED flags

\* receive() returned Ok(None), then a pause; or the event was sent.
LoopAgain(t) ==
  /\ loop[t].state \in {"receive", "emit"}
  /\ LoopGoto(t, "check")
  /\ LoopUnchanged /\ UNCHANGED flags

\* receive() returned Err.  A superseded loop leaves the runtime's flags alone;
\* another may be superseded after it has looked.
LoopFail(t) ==
  /\ loop[t].state = "receive"
  /\ LoopGoto(t, IF Current(t) THEN "report" ELSE "ended")
  /\ LoopUnchanged /\ UNCHANGED flags

ReturnOnly == UNCHANGED flags                                   \* mutant
ReportFailure == connected' = FALSE /\ lastError' = TRUE /\ UNCHANGED configured

LoopReport(t) ==
  /\ loop[t].state = "report"
  /\ LoopGoto(t, "ended")
  /\ ReportFailure
  /\ LoopUnchanged

RequestStep(r) ==
  \/ RestoreConfig(r) \/ Connected(r) \/ ConnectFailed(r)
  \/ Bump(r) \/ Take(r) \/ Swap(r) \/ Previous(r) \/ Store(r)
  \/ Spawn(r) \/ Keep(r) \/ Find(r) \/ Unplug(r) \/ Lock(r) \/ Sent(r)

LoopStep(t) ==
  LoopCheck(t) \/ LoopReceive(t) \/ LoopAgain(t) \/ LoopFail(t) \/ LoopReport(t)

Next ==
  \/ \E r \in Requests :
       \/ Configure(r) \/ Health(r) \/ ConnectRequest(r) \/ DisconnectRequest(r)
       \/ \E s \in Sessions : Send(r, s)
       \/ RequestStep(r) \/ Drop(r)
  \/ \E t \in Tasks : LoopStep(t)

Spec == Init /\ [][Next]_vars

\* Every accepted request goes on (its deadline sees to that) and every loop
\* is scheduled; receive() returns, at the latest with Ok(None).
FairSpec ==
  /\ Spec
  /\ \A r \in Requests : WF_vars(RequestStep(r))
  /\ \A t \in Tasks : WF_vars(LoopStep(t))
-----------------------------------------------------------------------------
(***************************************************************************)
(* Properties.                                                             *)
(***************************************************************************)
RequestState ==
  [pc : Points, op : Operations, own : Adapters \cup {None},
   previous : Adapters \cup {None}, task : Tasks \cup {None},
   starting : BOOLEAN, session : Sessions \cup {None}, lane : Lanes \cup {None}]

\* Every variable keeps its type, and no loop is ahead of the generation
\* (MessageConnectorRuntime, handle_frame).
TypeOK ==
  /\ adapter \in Adapters \cup {None}
  /\ configured \in BOOLEAN /\ connected \in BOOLEAN /\ lastError \in BOOLEAN
  /\ generation \in Nat
  /\ receiveTask \in Tasks \cup {None}
  /\ loop \in [Tasks -> [state : LoopStates, adapter : Adapters \cup {None},
                         generation : 0 .. generation]]
  /\ platform \in [Adapters -> {"down", "up"}]
  /\ request \in [Requests -> RequestState]
  /\ lanes \in [Sessions -> Lanes]
  /\ accepted \in 0 .. MaxOperations /\ order \in Orders

Quiescent == \A r \in Requests : ~Changing(r)

\* When no request but sends is under way and health would say "ready", the loop
\* whose handle is kept, and no other, is running in the current generation, on the
\* installed adapter.  It is so as long as such requests come one after the other,
\* each to its end, and again, whatever overlapped or was dropped half way before,
\* once a configuration has replaced the adapter by itself (install_adapter,
\* connect_adapter, disconnect_adapter).
ReadyReceives ==
  order \in {"turns", "mended"} /\ Quiescent /\ connected =>
    /\ adapter # None
    /\ receiveTask # None
    /\ \A t \in Tasks : (Running(t) /\ Current(t)) = (t = receiveTask)
    /\ loop[receiveTask].adapter = adapter

\* With such requests, when none is under way an adapter that is not installed
\* has no platform connection left, as long as they have all come in turn.
NoStrayConnection ==
  order = "turns" /\ Quiescent => \A a \in Adapters : platform[a] = "up" => a = adapter

\* With such requests, no loop is about to report the loss of a connection while a
\* later one already receives on its successor (the generation tests of
\* run_receive_loop, and the wait for the task in stop_receive).
LossIsOwn ==
  order = "turns" =>
    \A t, x \in Tasks : loop[t].state = "report" /\ Running(x) /\ Current(x) => x = t

\* Nothing is sent to a session while something else is on its way to it, whoever
\* gives up waiting or sending, and although the registry forgets lanes and makes
\* new ones all the time (SessionLaneRegistry::lane).
SerialPerSession ==
  \A q, r \in Requests :
    At(q, "send") /\ At(r, "send") /\ request[q].session = request[r].session => q = r

\* A loop that was superseded, even one whose handle was lost to a concurrent
\* start_receive, or that the runtime disconnected from, ends by itself (the
\* conditions of run_receive_loop).
Serves(t) == Current(t) /\ connected
StrayLoopsEnd == \A t \in Tasks : Running(t) /\ ~Serves(t) ~> ~Running(t) \/ Serves(t)
=============================================================================
