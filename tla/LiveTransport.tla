---------------------------- MODULE LiveTransport ----------------------------
(***************************************************************************)
(* stores/liveTransport.ts: every live source of the WebUI is multiplexed  *)
(* over one gateway subscription and one EventSource.  synchronize() makes *)
(* the subscription follow the set of open sources; a timer rebuilds it    *)
(* after a fault; a revision barrier orders what consumers see.            *)
(*                                                                         *)
(* JavaScript runs to completion: a continuation of synchronize() that     *)
(* goes back to its loop (pc "loop"), or hands on what ran ahead (pc       *)
(* "replay"), excludes every other action of the client.                   *)
(*                                                                         *)
(* The gateway is external and modelled from how the client uses it: a     *)
(* subscription has a revision, a selector change makes the next one; a    *)
(* stream that is (re)connected, or whose subscription is revised, first   *)
(* carries a baseline and, sooner or later, `ready`.                       *)
(*                                                                         *)
(* Definitions marked `mutant` are wrong on purpose: each replaces the     *)
(* definition that follows it to show which property would notice.         *)
(***************************************************************************)
EXTENDS Integers, Sequences

CONSTANTS
  Sources,        \* the sources consumers may open
  MaxIds,         \* bound: subscriptions the gateway ever makes
  MaxChanges,     \* bound: opens, closes and updates of sources; one more after a failed call
  MaxFailures,    \* bound: faults of the network and the gateway
  MaxLive,        \* bound: number of the last event
  BufferLimit     \* envelopes either buffer holds (1024)

ASSUME TransportAssumption ==
  /\ {MaxIds, MaxChanges, MaxFailures, MaxLive} \subseteq Nat
  /\ BufferLimit \in Nat \ {0}

VARIABLES
  sources,        \* keys of the map of sources
  dirty,          \* syncedGeneration # syncGeneration
  flight,         \* synchronize() under way
  subscription,   \* the acknowledged subscription: id and revision
  pendingDelete,  \* the id of pendingDelete
  pendingCreate,  \* the selector of pendingCreate, and what its key created
  timer,          \* reconnectTimer; stale: of an earlier physicalGeneration
  stream,         \* the EventSource: its subscription's id and its state
  ready,          \* readyRevision
  barrier,        \* pendingRevisionEnvelopes
  unacknowledged, \* pendingAcknowledgementEnvelopes
  shown,          \* what consumers were given; lost: one may have been kept back
  server,         \* the gateway's subscriptions
  wire,           \* envelopes on their way on the current stream
  announced,      \* the stream's last revision was announced by `ready`
  live,           \* number of the last event; 1: one precedes the client
  changes,        \* changes so far
  failures,       \* faults so far
  calls           \* history: of failed API calls and the rebuild each one asks for

client == <<sources, dirty, flight, subscription, pendingDelete, pendingCreate,
            timer, stream, ready, barrier, unacknowledged, shown>>
gateway == <<server, wire, announced, live>>
transportVars == <<client, gateway, changes, failures, calls>>

\* The gateway numbers its subscriptions.
Ids == 1 .. MaxIds
NoId == 0

NoSubscription == [id |-> NoId, revision |-> 0]
NoStream == [id |-> NoId, state |-> "closed"]
NoCreate == [selector |-> {}, id |-> NoId]
Idle == [pc |-> "none", selector |-> {}, fresh |-> TRUE,
         call |-> NoSubscription, reply |-> "sent"]

TransportInit ==
  /\ sources = {} /\ dirty = FALSE /\ flight = Idle
  /\ subscription = NoSubscription /\ pendingDelete = NoId /\ pendingCreate = NoCreate
  /\ timer = "off" /\ stream = NoStream
  /\ ready = 0 /\ barrier = <<>> /\ unacknowledged = <<>>
  /\ shown = [upto |-> 0, gap |-> FALSE, lost |-> FALSE]
  /\ server = [i \in Ids |-> [state |-> "unused", revision |-> 0, selector |-> {}]]
  /\ wire = <<>> /\ announced = FALSE
  /\ live = 1 /\ changes = 0 /\ failures = 0 /\ calls = "answered"

At(pc) == flight.pc = pc
\* No JavaScript is running.
Turn == ~At("loop") /\ ~At("replay") /\ ~(At("delete_last") /\ flight.call = NoSubscription)
Mutating == flight.pc \in {"patch", "create"}   \* subscriptionMutationInFlight

\* closePhysical: what was on the wire is not read any more.
ClosePhysical ==
  /\ stream' = NoStream /\ wire' = <<>> /\ announced' = FALSE

\* History: a failed call asks for a rebuild (owed), which happens (repaired) unless
\* the stream opens first and takes the timer with it (overlooked).
Repaired == calls' = IF calls = "answered" THEN calls ELSE "repaired"
Overlooked == calls' = IF calls = "owed" /\ timer = "armed" THEN "overlooked" ELSE calls

\* The timer survives closePhysical, but will find its generation gone.
Outdated == IF timer = "armed" THEN "stale" ELSE timer

\* requestSync: start synchronize() unless it is under way.
RequestSync ==
  /\ dirty' = TRUE
  /\ flight' = IF At("none") THEN [Idle EXCEPT !.pc = "loop"]
               ELSE [flight EXCEPT !.fresh = FALSE]
-----------------------------------------------------------------------------
(***************************************************************************)
(* Consumers open, close and update sources.                               *)
(***************************************************************************)
Change(changed) ==
  /\ Turn
  /\ changes < IF calls = "answered" THEN MaxChanges ELSE MaxChanges + 1
  /\ changes' = changes + 1
  /\ sources' = changed
  /\ RequestSync
  /\ UNCHANGED <<subscription, pendingDelete, pendingCreate, timer, stream, ready,
                 barrier, unacknowledged, shown, gateway, failures, calls>>

OpenLiveSource(s) == Change(sources \cup {s})
CloseSource(s) == s \in sources /\ Change(sources \ {s})
-----------------------------------------------------------------------------
(***************************************************************************)
(* synchronize().                                                          *)
(***************************************************************************)
\* No source is left: close the stream and delete the subscription.
LoopEmpty ==
  /\ At("loop") /\ dirty /\ sources = {}
  /\ ClosePhysical
  /\ timer' = Outdated
  /\ flight' = [Idle EXCEPT !.pc = "delete_last", !.call = subscription,
                  !.reply = IF subscription = NoSubscription THEN "ok" ELSE "sent"]
  /\ UNCHANGED <<sources, dirty, subscription, pendingDelete, pendingCreate, ready,
                 barrier, unacknowledged, shown, server, live, changes, failures, calls>>

LoopBegin ==
  /\ At("loop") /\ dirty /\ sources # {}
  /\ flight' = [Idle EXCEPT !.pc = "claim", !.selector = sources]
  /\ UNCHANGED <<sources, dirty, subscription, pendingDelete, pendingCreate, timer,
                 stream, ready, barrier, unacknowledged, shown, gateway, changes, failures, calls>>

LoopEnd ==
  /\ At("loop") /\ ~dirty
  /\ flight' = Idle
  /\ UNCHANGED <<sources, dirty, subscription, pendingDelete, pendingCreate, timer,
                 stream, ready, barrier, unacknowledged, shown, gateway, changes, failures, calls>>

\* syncedGeneration takes the generation the selector was read in, so that a
\* change made meanwhile sends the loop round again.
TakeLatest == FALSE                                             \* mutant
StillDirty == ~flight.fresh

\* The last delete was answered or failed: failures are ignored.
DeletedLast ==
  /\ At("delete_last") /\ flight.reply # "sent"
  /\ subscription' = NoSubscription
  /\ ready' = 0 /\ barrier' = <<>>
  /\ dirty' = StillDirty
  /\ flight' = [Idle EXCEPT !.pc = "loop"]
  /\ UNCHANGED <<sources, pendingDelete, pendingCreate, timer, stream, unacknowledged,
                 shown, gateway, changes, failures, calls>>

\* The call that makes the subscription follow the selector.  A create keeps
\* its idempotency key only while the selector is the same.
Mutate ==
  /\ flight' = [flight EXCEPT
       !.pc = IF subscription = NoSubscription THEN "create" ELSE "patch",
       !.call = subscription, !.reply = "sent"]
  /\ pendingCreate' =
       IF subscription # NoSubscription \/ pendingCreate.selector = flight.selector
       THEN pendingCreate
       ELSE [selector |-> flight.selector, id |-> NoId]

\* The observer id is known: first delete the subscription given up before.
ObserverClaimed ==
  /\ At("claim") /\ flight.reply = "ok"
  /\ IF subscription = NoSubscription /\ pendingDelete # NoId
     THEN /\ flight' = [flight EXCEPT !.pc = "delete_stale", !.reply = "sent",
                                      !.call = [id |-> pendingDelete, revision |-> 0]]
          /\ UNCHANGED pendingCreate
     ELSE Mutate
  /\ UNCHANGED <<sources, dirty, subscription, pendingDelete, timer, stream, ready,
                 barrier, unacknowledged, shown, gateway, changes, failures, calls>>

DeletedStale ==
  /\ At("delete_stale") /\ flight.reply = "ok"
  /\ pendingDelete' = NoId
  /\ Mutate
  /\ UNCHANGED <<sources, dirty, subscription, timer, stream, ready, barrier,
                 unacknowledged, shown, gateway, changes, failures, calls>>

\* scheduleRecreate for the current physical generation.
ScheduleRecreate == timer' = "armed"

\* deliverEnvelope, for those of revision r: consumers are given an event, or a
\* snapshot up to it; gap: they once got an event without the one before it.
Deliver(envelopes, r) ==
  LET delivered == {i \in DOMAIN envelopes : envelopes[i].revision = r}
      before(i) == {shown.upto} \cup {envelopes[j].number : j \in {k \in delivered : k < i}}
      given == before(Len(envelopes) + 1)
  IN \E last \in given :
       /\ \A n \in given : n <= last
       /\ shown' = [shown EXCEPT
            !.upto = last,
            !.gap = @ \/ \E i \in delivered : /\ envelopes[i].kind = "live"
                                              /\ \A n \in before(i) : n + 1 < envelopes[i].number]
LoseOne == shown' = [shown EXCEPT !.lost = TRUE]

\* An envelope of the current revision opens the barrier, is delivered, or waits
\* for the barrier.
ConsumeCurrent(e) ==
  \/ /\ e.kind = "ready"
     /\ ready' = e.revision /\ barrier' = <<>>
     /\ Deliver(barrier, e.revision)
     /\ UNCHANGED timer
  \/ /\ e.kind = "resync"
     /\ ScheduleRecreate
     /\ UNCHANGED <<ready, barrier, shown>>
  \/ /\ e.kind = "baseline" \/ (e.kind = "live" /\ ready = e.revision)
     /\ Deliver(<<e>>, e.revision)
     /\ UNCHANGED <<ready, barrier, timer>>
  \/ /\ e.kind = "live" /\ ready # e.revision
     /\ IF Len(barrier) < BufferLimit
        THEN barrier' = Append(barrier, e) /\ UNCHANGED <<shown, timer>>
        ELSE ScheduleRecreate /\ LoseOne /\ UNCHANGED barrier
     /\ UNCHANGED ready

\* Only the revision that a mutation under way is about to bring is kept, with
\* the others that ran ahead of its answer.
Early(e) == Mutating /\ e.revision = subscription.revision + 1
ConsumeLater(e, kept) ==
  IF Early(e) /\ Len(kept) < BufferLimit
  THEN unacknowledged' = Append(kept, e) /\ UNCHANGED <<shown, timer>>
  ELSE /\ unacknowledged' = kept
       /\ ScheduleRecreate
       /\ IF Early(e) THEN LoseOne ELSE UNCHANGED shown

\* consumeEnvelope, with `kept` already waiting for an answer.
Consume(e, kept) ==
  \/ /\ e.revision < subscription.revision
     /\ unacknowledged' = kept
     /\ UNCHANGED <<ready, barrier, shown, timer>>
  \/ /\ e.revision > subscription.revision
     /\ ConsumeLater(e, kept)
     /\ UNCHANGED <<ready, barrier>>
  \/ /\ e.revision = subscription.revision
     /\ unacknowledged' = kept
     /\ ConsumeCurrent(e)

\* The mutation was answered: adopt the revision.
SkipRanAhead == <<>>                                            \* mutant
RanAhead == unacknowledged

Acknowledged ==
  /\ Mutating /\ flight.reply = "ok"
  /\ LET id == IF At("create") THEN pendingCreate.id ELSE flight.call.id
         r == server[id].revision
     IN /\ subscription' = [id |-> id, revision |-> r]
        /\ ready' = IF r # flight.call.revision THEN 0 ELSE ready
        /\ barrier' = IF r # flight.call.revision THEN <<>> ELSE barrier
  /\ pendingCreate' = NoCreate
  /\ unacknowledged' = RanAhead
  /\ flight' = [flight EXCEPT !.pc = "replay"]
  /\ UNCHANGED <<sources, dirty, pendingDelete, timer, stream, shown, gateway, changes,
                 failures, calls>>

\* Read the envelopes that ran ahead of the answer,
Replay ==
  /\ At("replay") /\ unacknowledged # <<>>
  /\ Consume(Head(unacknowledged), Tail(unacknowledged))
  /\ UNCHANGED <<sources, dirty, flight, subscription, pendingDelete, pendingCreate, stream,
                 gateway, changes, failures, calls>>

\* and open a stream unless this subscription has one.
Adopted ==
  /\ At("replay") /\ unacknowledged = <<>>
  /\ dirty' = StillDirty
  /\ flight' = [Idle EXCEPT !.pc = "loop"]
  /\ IF stream.id = subscription.id
     THEN UNCHANGED <<timer, stream, wire, announced, calls>>
     ELSE /\ timer' = "off" /\ Repaired
          /\ stream' = [id |-> subscription.id, state |-> "connecting"]
          /\ wire' = <<>> /\ announced' = FALSE
  /\ UNCHANGED <<sources, subscription, pendingDelete, pendingCreate, ready, barrier,
                 unacknowledged, shown, server, live, changes, failures>>

\* A call failed: give up, and let the timer start again.
SyncFailed ==
  /\ flight.pc \in {"claim", "delete_stale", "patch", "create"}
  /\ flight.reply = "failed"
  /\ unacknowledged' = <<>>
  /\ ScheduleRecreate
  /\ flight' = Idle
  /\ UNCHANGED <<sources, dirty, subscription, pendingDelete, pendingCreate, stream,
                 ready, barrier, shown, gateway, changes, failures, calls>>

(***************************************************************************)
(* The timer of scheduleRecreate.                                          *)
(***************************************************************************)
KeepId == UNCHANGED pendingDelete                               \* mutant
GiveUp == pendingDelete' = subscription.id

Recreate ==
  /\ Turn /\ timer = "armed"
  /\ timer' = "off"
  /\ ClosePhysical
  /\ GiveUp
  /\ subscription' = NoSubscription
  /\ ready' = 0 /\ barrier' = <<>> /\ unacknowledged' = <<>>
  /\ RequestSync
  /\ Repaired
  /\ UNCHANGED <<sources, pendingCreate, shown, server, live, changes, failures>>

StaleTimer ==
  /\ Turn /\ timer = "stale"
  /\ timer' = "off"
  /\ UNCHANGED <<sources, dirty, flight, subscription, pendingDelete, pendingCreate,
                 stream, ready, barrier, unacknowledged, shown, gateway, changes, failures, calls>>
-----------------------------------------------------------------------------
(***************************************************************************)
(* The physical stream.                                                    *)
(***************************************************************************)
StreamUnchanged ==
  UNCHANGED <<sources, dirty, flight, subscription, pendingDelete, pendingCreate, changes>>

Baseline(id) == [kind |-> "baseline", revision |-> server[id].revision, number |-> live]

\* onopen, at first or after the browser reconnected by itself.
StreamOpens ==
  /\ Turn
  /\ stream.state = "connecting" /\ server[stream.id].state = "live"
  /\ stream' = [stream EXCEPT !.state = "open"]
  /\ timer' = IF timer = "armed" THEN "off" ELSE timer
  /\ Overlooked
  /\ wire' = <<Baseline(stream.id)>> /\ announced' = FALSE
  /\ StreamUnchanged
  /\ UNCHANGED <<ready, barrier, unacknowledged, shown, server, live, failures>>

\* onerror: the gateway does not know the subscription, or the connection broke.
StreamErrs ==
  /\ stream' = [stream EXCEPT !.state = "connecting"]
  /\ wire' = <<>> /\ announced' = FALSE
  /\ ScheduleRecreate
  /\ StreamUnchanged
  /\ UNCHANGED <<ready, barrier, unacknowledged, shown, server, live, calls>>

StreamRefused ==
  /\ Turn
  /\ stream.state = "connecting" /\ server[stream.id].state # "live"
  /\ StreamErrs /\ UNCHANGED failures

StreamBreaks ==
  /\ Turn
  /\ stream.state = "open" /\ failures < MaxFailures
  /\ failures' = failures + 1
  /\ StreamErrs

\* handleLiveEvent.
HandleLiveEvent ==
  /\ Turn /\ stream.state = "open" /\ wire # <<>>
  /\ wire' = Tail(wire)
  /\ Consume(Head(wire), unacknowledged)
  /\ StreamUnchanged
  /\ UNCHANGED <<stream, server, announced, live, failures, calls>>
-----------------------------------------------------------------------------
(***************************************************************************)
(* The gateway.                                                            *)
(***************************************************************************)
Reply(result) == flight' = [flight EXCEPT !.reply = result]
ClientWaits ==
  UNCHANGED <<sources, dirty, subscription, pendingDelete, timer, stream, ready, barrier,
              unacknowledged, live, changes, failures, calls>>
GatewayUnchanged == ClientWaits /\ UNCHANGED shown

ServeClaim ==
  /\ At("claim") /\ flight.reply = "sent" /\ Reply("ok")
  /\ GatewayUnchanged /\ UNCHANGED <<pendingCreate, server, wire, announced>>

ServeDelete ==
  /\ flight.pc \in {"delete_last", "delete_stale"} /\ flight.reply = "sent"
  /\ server' = [server EXCEPT ![flight.call.id] = [@ EXCEPT !.state = "gone", !.selector = {}]]
  /\ Reply("ok")
  /\ GatewayUnchanged /\ UNCHANGED <<pendingCreate, wire, announced>>

\* A create with a key the gateway knows answers with what that key created.
ServeCreate ==
  /\ At("create") /\ flight.reply = "sent"
  /\ IF pendingCreate.id # NoId /\ server[pendingCreate.id].state = "live"
     THEN UNCHANGED <<pendingCreate, server>>
     ELSE \E i \in Ids :
            /\ server[i].state = "unused"
            /\ \A j \in Ids : server[j].state = "unused" => i <= j
            /\ pendingCreate' = [pendingCreate EXCEPT !.id = i]
            /\ server' = [server EXCEPT ![i] =
                 [state |-> "live", revision |-> 1, selector |-> flight.selector]]
  /\ Reply("ok")
  /\ GatewayUnchanged /\ UNCHANGED <<wire, announced>>

\* The key of a patch names the subscription and the expected revision: the gateway
\* knows it once that revision has been superseded.
KeyKnown ==
  /\ server[flight.call.id].state = "live"
  /\ server[flight.call.id].revision = flight.call.revision + 1

\* A patch with the expected revision makes the next one; its baseline goes out
\* on the stream before or after the answer arrives.  Another expected revision is
\* refused, and so may be a known key with another selector.
ServePatch ==
  /\ At("patch") /\ flight.reply = "sent"
  /\ ~(KeyKnown /\ server[flight.call.id].selector = flight.selector)
  /\ LET id == flight.call.id
         r == server[id].revision
     IN IF server[id].state = "live" /\ r = flight.call.revision
        THEN /\ server' = [server EXCEPT ![id].revision = r + 1,
                                         ![id].selector = flight.selector]
             /\ Reply("ok")
             /\ IF stream.id = id /\ stream.state = "open"
                THEN /\ wire' = Append(wire, [kind |-> "baseline", revision |-> r + 1,
                                              number |-> live])
                     /\ announced' = FALSE
                ELSE UNCHANGED <<wire, announced>>
        ELSE Reply("failed") /\ UNCHANGED <<server, wire, announced>>
  /\ GatewayUnchanged /\ UNCHANGED pendingCreate

\* The same key again, after its answer was lost: answered as before, whatever the
\* selector is now.  What the stream brought of that revision meanwhile was dropped.
ServePatchAgain ==
  /\ At("patch") /\ flight.reply = "sent" /\ KeyKnown
  /\ Reply("ok")
  /\ LoseOne
  /\ ClientWaits /\ UNCHANGED <<pendingCreate, server, wire, announced>>

\* A request or its answer is lost.
CallFails ==
  /\ failures < MaxFailures /\ failures' = failures + 1
  /\ calls' = IF ~At("delete_last") THEN "owed"
              ELSE IF calls = "answered" THEN "repaired" ELSE calls
  /\ flight.pc \in {"delete_last", "claim", "delete_stale", "patch", "create"}
  /\ flight.reply \in {"sent", "ok"} /\ ~(At("delete_last") /\ flight.call = NoSubscription)
  /\ Reply("failed")
  /\ UNCHANGED <<sources, dirty, subscription, pendingDelete, pendingCreate, timer,
                 stream, ready, barrier, unacknowledged, shown, gateway, changes>>

\* The gateway forgets a subscription no stream is connected to.
Expire(i) ==
  /\ failures < MaxFailures /\ failures' = failures + 1
  /\ server[i].state = "live" /\ ~(stream.id = i /\ stream.state = "open")
  /\ ~(Mutating /\ flight.reply = "ok")
  /\ server' = [server EXCEPT ![i] = [@ EXCEPT !.state = "gone", !.selector = {}]]
  /\ UNCHANGED <<client, wire, announced, live, changes, calls>>

Send(kind, number) ==
  wire' = Append(wire, [kind |-> kind, revision |-> server[stream.id].revision,
                        number |-> number])
SendUnchanged == UNCHANGED <<client, server, changes, calls>>

Announce ==
  /\ stream.state = "open" /\ ~announced
  /\ announced' = TRUE /\ Send("ready", live)
  /\ SendUnchanged /\ UNCHANGED <<live, failures>>
Publish ==
  /\ live < MaxLive /\ live' = live + 1
  /\ IF stream.state = "open" THEN Send("live", live + 1) ELSE UNCHANGED wire
  /\ SendUnchanged /\ UNCHANGED <<announced, failures>>
Resync ==
  /\ stream.state = "open"
  /\ failures < MaxFailures /\ failures' = failures + 1
  /\ Send("resync", live)
  /\ SendUnchanged /\ UNCHANGED <<announced, live>>

Synchronize ==
  \/ LoopEmpty \/ LoopBegin \/ LoopEnd \/ DeletedLast \/ ObserverClaimed \/ DeletedStale
  \/ Acknowledged \/ Replay \/ Adopted \/ SyncFailed
Timer == Recreate \/ StaleTimer
Physical == StreamOpens \/ StreamRefused \/ HandleLiveEvent
Serve == ServeClaim \/ ServeDelete \/ ServeCreate \/ ServePatch \/ ServePatchAgain

TransportNext ==
  \/ \E s \in Sources : OpenLiveSource(s) \/ CloseSource(s)
  \/ Synchronize \/ Timer \/ Physical \/ StreamBreaks
  \/ Serve \/ CallFails \/ (\E i \in Ids : Expire(i)) \/ Announce \/ Publish \/ Resync

TransportSpec == TransportInit /\ [][TransportNext]_transportVars

\* Timers fire, calls are answered, the browser retries its EventSource, and
\* the gateway announces a revision it serves.
FairTransport ==
  /\ TransportSpec
  /\ WF_transportVars(Synchronize) /\ WF_transportVars(Timer) /\ WF_transportVars(Physical)
  /\ WF_transportVars(Serve) /\ WF_transportVars(Announce)
-----------------------------------------------------------------------------
(***************************************************************************)
(* Properties.                                                             *)
(***************************************************************************)
SubscriptionType == [id : Ids \cup {NoId}, revision : Nat]
FlightType ==
  [pc : {"none", "loop", "delete_last", "claim", "delete_stale", "patch", "create", "replay"},
   selector : SUBSET Sources, fresh : BOOLEAN, call : SubscriptionType,
   reply : {"sent", "ok", "failed"}]
CreateType == [selector : SUBSET Sources, id : Ids \cup {NoId}]
StreamType == [id : Ids \cup {NoId}, state : {"closed", "connecting", "open"}]
ShownType == [upto : Nat, gap : BOOLEAN, lost : BOOLEAN]
CallHistory == {"answered", "owed", "overlooked", "repaired"}
ServerType ==
  [state : {"unused", "live", "gone"}, revision : Nat, selector : SUBSET Sources]
EnvelopeType ==
  [kind : {"baseline", "ready", "live", "resync"}, revision : Nat, number : Nat]

\* Every variable keeps its type, and no buffer exceeds its bound
\* (liveTransport.ts, module state).
TransportTypeOK ==
  /\ sources \subseteq Sources /\ dirty \in BOOLEAN
  /\ flight \in FlightType
  /\ subscription \in SubscriptionType
  /\ pendingDelete \in Ids \cup {NoId}
  /\ pendingCreate \in CreateType
  /\ timer \in {"off", "armed", "stale"}
  /\ stream \in StreamType /\ (stream.id = NoId <=> stream.state = "closed")
  /\ ready \in Nat
  /\ barrier \in Seq(EnvelopeType) /\ Len(barrier) <= BufferLimit
  /\ unacknowledged \in Seq(EnvelopeType) /\ Len(unacknowledged) <= BufferLimit
  /\ shown \in ShownType
  /\ server \in [Ids -> ServerType]
  /\ wire \in Seq(EnvelopeType) /\ announced \in BOOLEAN
  /\ live \in Nat /\ changes \in Nat /\ failures \in Nat /\ calls \in CallHistory

\* Consumers see no hole: no live event overtakes the event, or the snapshot,
\* before it, across revisions, reconnects and rebuilt subscriptions - unless one
\* of the two buffers was full, or a patch was repeated under its key: then the
\* stream is read on for the 5 s until it is rebuilt (consumeEnvelope, synchronize).
NoGap == shown.gap => shown.lost

\* As long as API calls are answered no subscription is left behind at the
\* gateway: each is the client's own, given up and to be deleted, or being created
\* (synchronize, scheduleRecreate, liveCreateRequest).
NoneLeftBehind ==
  calls = "answered" =>
    \A i \in Ids :
      server[i].state = "live" => i \in {subscription.id, pendingDelete, pendingCreate.id}

\* The gateway serves exactly the open sources, on an open stream whose revision
\* is ready.
Synced ==
  IF sources = {}
  THEN stream = NoStream /\ subscription = NoSubscription
  ELSE /\ subscription # NoSubscription
       /\ stream = [id |-> subscription.id, state |-> "open"]
       /\ server[subscription.id].selector = sources
       /\ ready = subscription.revision

\* That is where changes and faults end, whatever broke, calls that failed included
\* - or with a failed call whose rebuild the reopened stream called off (requestSync,
\* synchronize, scheduleRecreate, onopen).
EndsSynced == <>[]Synced \/ <>[](calls = "overlooked")
=============================================================================
