------------------------------ MODULE ChatQueue ------------------------------
(***************************************************************************)
(* ChatProcessingQueue (feishu/processing.rs): a lock per chat, a shared   *)
(* queue of the events that found their chat busy, and a drainer that      *)
(* retries them.  FeishuAdapter::receive is its only caller.               *)
(*                                                                         *)
(* Events are numbered in the order their calls of try_process begin.      *)
(*                                                                         *)
(* Definitions marked `mutant` are wrong on purpose: each replaces the     *)
(* definition that follows it to show which property would notice.         *)
(***************************************************************************)
EXTENDS Integers, Sequences, FiniteSets, SequencesExt

CONSTANTS
  Chats,
  MaxEvents,       \* bound: events that ever arrive
  MaxCallers,      \* calls of try_process and release under way at once
  MaxQueueDepth,   \* max_queue_depth
  GivesUp,         \* whether 120 s may pass without a successful drain
  Abortable        \* whether a caller's task may be aborted

ASSUME QueueAssumption ==
  /\ MaxEvents \in Nat /\ MaxCallers \in Nat
  /\ MaxQueueDepth \in Nat \ {0}
  /\ GivesUp \in BOOLEAN /\ Abortable \in BOOLEAN

VARIABLES
  arrived,      \* events that have arrived: 1 .. arrived
  chat,         \* the chat of each event
  hasHandler,   \* whether with_drain_handler was used; the adapter does not
  call,         \* how far the caller of each event has come
  place,        \* where each event is
  locked,       \* chats whose guard is in active_guards
  pending,      \* pending_events
  scheduled,    \* drain_scheduled
  drainers      \* the drainer tasks that run

vars == <<arrived, chat, hasHandler, call, place, locked, pending, scheduled, drainers>>

Events == 1 .. MaxEvents

\* push, schedule: try_process found the chat busy and is about to queue the
\* event, to start the drainer; process: it returned Process; release: the
\* guard is removed and the queue not yet looked at.
Calls == {"none", "push", "schedule", "process", "release", "returned"}

\* held, locked: processed under the chat's lock by the caller, by a handler of
\* the drainer; loose: processed by a handler release() started, without it;
\* aborted, leaked: its caller was aborted, and took its guard's owner with it.
Places == {"none", "caller", "held", "queued", "drained", "locked", "loose",
           "done", "evicted", "aborted", "leaked"}

\* todo, kept: the batch being retried and what was put aside of it; any:
\* drained_any; stale: polls have passed since last_drain.
Drainer == [pc : {"sleep", "retry", "stopping"}, todo : Seq(Events),
            kept : Seq(Events), any : BOOLEAN, stale : BOOLEAN]
NewDrainer == [pc |-> "sleep", todo |-> <<>>, kept |-> <<>>, any |-> FALSE,
               stale |-> FALSE]

Init ==
  /\ arrived = 0
  /\ chat \in [Events -> Chats]
  /\ hasHandler \in BOOLEAN
  /\ call = [e \in Events |-> "none"]
  /\ place = [e \in Events |-> "none"]
  /\ locked = {}
  /\ pending = <<>>
  /\ scheduled = FALSE
  /\ drainers = {}

Callers == {e \in Events : call[e] \notin {"none", "returned"}}
Move(e, to) == place' = [place EXCEPT ![e] = to]
Advance(e, to) == call' = [call EXCEPT ![e] = to]
-----------------------------------------------------------------------------
(***************************************************************************)
(* try_process.                                                            *)
(***************************************************************************)
TryProcess ==
  /\ arrived < MaxEvents
  /\ Cardinality(Callers) < MaxCallers
  /\ arrived' = arrived + 1
  /\ LET e == arrived + 1
     IN IF chat[e] \in locked
        THEN Advance(e, "push") /\ Move(e, "caller") /\ UNCHANGED locked
        ELSE /\ Advance(e, "process") /\ Move(e, "held")
             /\ locked' = locked \cup {chat[e]}
  /\ UNCHANGED <<chat, hasHandler, pending, scheduled, drainers>>

\* Queue the event; when that is one too many, evict the oldest of all chats
\* and return without a look at the drainer.
Push(e) ==
  LET queue == Append(pending, e)
  IN /\ call[e] = "push"
     /\ IF Len(queue) > MaxQueueDepth
        THEN /\ pending' = Tail(queue)
             /\ place' = [place EXCEPT ![e] = "queued", ![Head(queue)] = "evicted"]
             /\ Advance(e, "returned")
        ELSE /\ pending' = queue
             /\ Move(e, "queued")
             /\ Advance(e, IF hasHandler THEN "schedule" ELSE "returned")
     /\ UNCHANGED <<arrived, chat, hasHandler, locked, scheduled, drainers>>

\* drain_scheduled.swap(true): who finds it false starts the drainer.
NeverSpawn == UNCHANGED drainers                                \* mutant
SpawnDrainer ==
  drainers' = IF scheduled THEN drainers ELSE drainers \cup {NewDrainer}

Schedule(e) ==
  /\ call[e] = "schedule"
  /\ scheduled' = TRUE
  /\ SpawnDrainer
  /\ Advance(e, "returned")
  /\ UNCHANGED <<arrived, chat, hasHandler, place, locked, pending>>

(***************************************************************************)
(* release: drop the guard, then hand the chat's next event to a handler.  *)
(***************************************************************************)
Release(e) ==
  /\ call[e] = "process"
  /\ locked' = locked \ {chat[e]}
  /\ Move(e, "done")
  /\ Advance(e, IF hasHandler THEN "release" ELSE "returned")
  /\ UNCHANGED <<arrived, chat, hasHandler, pending, scheduled, drainers>>

HandNext(e) ==
  /\ call[e] = "release"
  /\ LET i == SelectInSeq(pending, LAMBDA f : chat[f] = chat[e])
     IN IF i = 0 THEN UNCHANGED <<pending, place>>
        ELSE pending' = RemoveAt(pending, i) /\ Move(pending[i], "loose")
  /\ Advance(e, "returned")
  /\ UNCHANGED <<arrived, chat, hasHandler, locked, scheduled, drainers>>

\* The receive task is aborted (MessageConnectorRuntime::stop_receive) while
\* try_process waits for the queue or receive() for the platform: the guard of
\* a chat being processed stays in active_guards.
Abort(e) ==
  /\ Abortable
  /\ call[e] \in {"push", "process", "release"}
  /\ Advance(e, "returned")
  /\ Move(e, CASE call[e] = "push" -> "aborted"
               [] call[e] = "process" -> "leaked"
               [] call[e] = "release" -> place[e])
  /\ UNCHANGED <<arrived, chat, hasHandler, locked, pending, scheduled, drainers>>
-----------------------------------------------------------------------------
(***************************************************************************)
(* The drainer task.                                                       *)
(***************************************************************************)
Becomes(d, rec) == drainers' = (drainers \ {d}) \cup {rec}

\* One poll: take the whole queue.
DrainerPoll(d) ==
  /\ d.pc = "sleep"
  /\ IF pending = <<>>
     THEN Becomes(d, [d EXCEPT !.stale = TRUE]) /\ UNCHANGED <<pending, place>>
     ELSE /\ Becomes(d, [d EXCEPT !.pc = "retry", !.todo = pending])
          /\ pending' = <<>>
          /\ place' = [e \in Events |->
               IF e \in ToSet(pending) THEN "drained" ELSE place[e]]
  /\ UNCHANGED <<arrived, chat, hasHandler, call, locked, scheduled>>

\* Retry the next event of the batch; keep it when its chat is still busy.
DrainerRetry(d) ==
  /\ d.pc = "retry" /\ d.todo # <<>>
  /\ LET e == Head(d.todo)
         rest == [d EXCEPT !.todo = Tail(d.todo)]
     IN IF chat[e] \in locked
        THEN /\ Becomes(d, [rest EXCEPT !.kept = Append(d.kept, e)])
             /\ UNCHANGED <<locked, place>>
        ELSE /\ Becomes(d, [rest EXCEPT !.any = TRUE])
             /\ locked' = locked \cup {chat[e]}
             /\ Move(e, "locked")
  /\ UNCHANGED <<arrived, chat, hasHandler, call, pending, scheduled>>

KeepBehind(kept) == pending \o kept                             \* mutant
KeepNone(kept) == pending                                       \* mutant
KeepInFront(kept) == kept \o pending

\* Put the kept events back, in front of what was queued since.
DrainerKeep(d) ==
  /\ d.pc = "retry" /\ d.todo = <<>>
  /\ pending' = KeepInFront(d.kept)
  /\ place' = [e \in Events |-> IF e \in ToSet(d.kept) THEN "queued" ELSE place[e]]
  /\ Becomes(d, [NewDrainer EXCEPT !.stale = ~d.any])
  /\ UNCHANGED <<arrived, chat, hasHandler, call, locked, scheduled>>

\* Give up: a separate store lets the next caller start another drainer.
DrainerExpire(d) ==
  /\ GivesUp /\ d.pc = "sleep" /\ d.stale
  /\ Becomes(d, [d EXCEPT !.pc = "stopping"])
  /\ UNCHANGED <<arrived, chat, hasHandler, call, place, locked, pending, scheduled>>

DrainerStop(d) ==
  /\ d.pc = "stopping"
  /\ scheduled' = FALSE
  /\ drainers' = drainers \ {d}
  /\ UNCHANGED <<arrived, chat, hasHandler, call, place, locked, pending>>

\* A handler the drainer spawned is done: its guard goes.
DropGuard(e) == locked' = locked \ {chat[e]}

HandlerDone(e) ==
  /\ place[e] = "locked"
  /\ Move(e, "done")
  /\ DropGuard(e)
  /\ UNCHANGED <<arrived, chat, hasHandler, call, pending, scheduled, drainers>>

DropAnyGuard(e) == DropGuard(e)                                 \* mutant
LeaveGuard(e) == UNCHANGED locked

\* A handler release() spawned is done: it had no guard.
LooseDone(e) ==
  /\ place[e] = "loose"
  /\ Move(e, "done")
  /\ LeaveGuard(e)
  /\ UNCHANGED <<arrived, chat, hasHandler, call, pending, scheduled, drainers>>

CallerStep(e) == Push(e) \/ Schedule(e) \/ Release(e) \/ HandNext(e)
HandlerStep(e) == HandlerDone(e) \/ LooseDone(e)
DrainerStep ==
  \E d \in drainers : DrainerPoll(d) \/ DrainerRetry(d) \/ DrainerKeep(d) \/ DrainerStop(d)

Next ==
  \/ TryProcess
  \/ \E e \in Events : CallerStep(e) \/ Abort(e) \/ HandlerStep(e)
  \/ DrainerStep
  \/ \E d \in drainers : DrainerExpire(d)

Spec == Init /\ [][Next]_vars

\* Callers, handlers and the drainer are tasks the runtime schedules; a caller
\* and a handler come to an end (the platform calls they wait for time out).
FairSpec ==
  /\ Spec
  /\ \A e \in Events : WF_vars(CallerStep(e)) /\ WF_vars(HandlerStep(e))
  /\ WF_vars(DrainerStep)
-----------------------------------------------------------------------------
(***************************************************************************)
(* Properties.                                                             *)
(***************************************************************************)
\* Every variable keeps its type, and drain_scheduled says whether the one
\* drainer runs (ChatProcessingQueue).
TypeOK ==
  /\ arrived \in 0 .. MaxEvents
  /\ chat \in [Events -> Chats]
  /\ hasHandler \in BOOLEAN
  /\ call \in [Events -> Calls]
  /\ place \in [Events -> Places]
  /\ locked \subseteq Chats
  /\ pending \in Seq(Events)
  /\ scheduled \in BOOLEAN
  /\ drainers \subseteq Drainer
  /\ Cardinality(drainers) = (IF scheduled THEN 1 ELSE 0)

InBatch == UNION {ToSet(d.todo) \cup ToSet(d.kept) : d \in drainers}

\* No event is lost or handled twice: one that waits is in the queue, or in
\* exactly one drainer's batch, exactly once, and one that is not waiting is in
\* neither (try_process, release, the drainer's drain and push_front).
Accounted ==
  /\ IsInjective(pending)
  /\ \A d \in drainers : IsInjective(d.todo \o d.kept)
  /\ {e \in Events : place[e] = "queued"} = ToSet(pending)
  /\ {e \in Events : place[e] = "drained"} = InBatch

Holders(c) == {e \in Events : chat[e] = c /\ place[e] \in {"held", "locked"}}
Leaked(c) == \E e \in Events : chat[e] = c /\ place[e] = "leaked"

\* A chat's guard is kept exactly while one event of it is processed under it
\* (or for good, once that event's caller was aborted): a guard is never dropped
\* for someone else, nor left behind by release or a handler (active_guards in
\* try_process, release and the drainer's handlers).
HeldByOne ==
  \A c \in Chats :
    /\ Cardinality(Holders(c)) <= 1
    /\ c \in locked <=> Holders(c) # {} \/ Leaked(c)
    /\ Leaked(c) => Holders(c) = {}

\* Where a drainer's batch and the queue put the events that wait.
Waiting == IF drainers = {} THEN pending
           ELSE LET d == CHOOSE d \in drainers : TRUE
                IN d.kept \o d.todo \o pending

Before(s, e, f) == \E i, j \in DOMAIN s : i < j /\ s[i] = e /\ s[j] = f

\* First come, first served: two events that both keep waiting never change
\* their order, however often the drainer takes them out and puts them back, and
\* what is new waits behind both halves of its batch and the queue (try_process,
\* spawn_drainer).
OrderKept ==
  [][\A e \in ToSet(Waiting) \cap ToSet(Waiting'), f \in ToSet(Waiting') :
       Before(Waiting, e, f) \/ f \notin ToSet(Waiting) =>
         Before(Waiting', e, f)]_<<pending, drainers>>

\* An event that was queued is handled in the end, or evicted, unless no drainer
\* is scheduled - no handler is set, or the last one gave up - or the guard of its
\* chat has leaked; a drainer that gave up does not keep the next one from running
\* (spawn_drainer, release).
QueuedIsHandled ==
  \A e \in Events :
    place[e] = "queued" ~>
      \/ place[e] \in {"loose", "locked", "done", "evicted"}
      \/ call[e] = "returned" /\ ~scheduled
      \/ Leaked(chat[e])
=============================================================================
