------------------------- MODULE ProjectionRegistry -------------------------
(***************************************************************************)
(* The WebUI's registry of execution projections                           *)
(* (stores/projectionRegistry.ts), for one execution: consumers acquire    *)
(* and release it with a detail scope, loads are coalesced into one        *)
(* flight, a connection load ends in a live source, and every loss of      *)
(* authority fails closed.                                                 *)
(*                                                                         *)
(* JavaScript runs an event handler, and the promise reactions it causes,  *)
(* to the end: one action is one such turn.  An operation is a function    *)
(* from the entry before it to the entry after it, so that calls compose.  *)
(*                                                                         *)
(* Definitions marked `mutant` are wrong on purpose: each replaces the     *)
(* definition that follows it to show which property would notice.         *)
(***************************************************************************)
EXTENDS Integers, FiniteSets

CONSTANTS
  Consumers,      \* names of components that watch the execution
  Sessions,       \* sessions on whose authority it may be read
  None,
  MaxAttempts,    \* length of INITIAL_MATERIALIZATION_DELAYS_MS
  MaxRevision,    \* bound: revisions the execution goes through
  MaxActions,     \* bound: calls of acquire and load
  MaxLogins,      \* bound: logins begun and completed
  MaxFaults       \* bound: failed loads, refusals and retention gaps

ASSUME RegistryAssumption ==
  /\ {MaxAttempts, MaxRevision, MaxActions, MaxLogins, MaxFaults} \subseteq Nat
  /\ None \notin Sessions

VARIABLES
  entry,          \* the registry's entry, with what its maps hold for it
  execution,      \* at the gateway: its revision, and whether it is finished
  login,          \* logins completed
  loggingIn,      \* login() awaits api.authLogin
  actions, faults

vars == <<entry, execution, login, loggingIn, actions, faults>>

Scopes == {"summary", "full"}

\* Revision 0: no projection.  authority: the login and the session it was
\* read under.
NoProjection == [revision |-> 0, terminal |-> FALSE, scope |-> "none", authority |-> None]
\* base: the revision the gateway's next delta starts from.
NoLease == [scope |-> "none", base |-> 0]
\* next: pendingLoadScopes of a flight that was marked dirty; fresh: its
\* requestEpoch is the entry's; from, authority: what the request was sent under.
NoFlight == [pc |-> "none", scope |-> "none", next |-> "none", fresh |-> TRUE,
             from |-> [revision |-> 0, done |-> FALSE], authority |-> None]

NewEntry ==
  [known |-> FALSE,         \* ensureEntry was called
   projection |-> NoProjection, blocked |-> FALSE, session |-> None,
   consumers |-> [c \in Consumers |-> "none"], bounded |-> {},
   detail |-> "summary", lease |-> NoLease, timer |-> "none", attempts |-> 0,
   connecting |-> "none",   \* scope of the connectionLoads member
   flight |-> NoFlight,     \* inFlightLoads
   recovering |-> FALSE,    \* recoverProjectionSource awaits, for the lease
   upset |-> FALSE]         \* history: one of the cases Served leaves out

Init ==
  /\ entry = NewEntry
  /\ execution = [revision |-> 0, done |-> FALSE]
  /\ login = 0 /\ loggingIn = FALSE
  /\ actions = 0 /\ faults = 0

Active(e) == \E c \in Consumers : e.consumers[c] # "none"
Desired(e) == IF \E c \in Consumers : e.consumers[c] = "full" THEN "full" ELSE "summary"
Wider(s, t) == IF "full" \in {s, t} THEN "full" ELSE "summary"
Installed(e) == e.projection # NoProjection
-----------------------------------------------------------------------------
(***************************************************************************)
(* Streams, timers and the latch.                                          *)
(***************************************************************************)
CloseStream(e) == [e EXCEPT !.lease = NoLease, !.recovering = FALSE]

NextEpoch(f) == [f EXCEPT !.fresh = FALSE]

FailClosed(e) ==
  [CloseStream(e) EXCEPT !.timer = "none", !.attempts = 0, !.blocked = TRUE,
     !.projection = NoProjection, !.flight = NextEpoch(@)]

\* failClosed of all entries there are.
FailAllClosed == IF entry.known THEN FailClosed(entry) ELSE entry

\* load(): join the flight that is under way, or start one.
Load(e, scope) ==
  IF e.flight.pc = "none"
  THEN [e EXCEPT !.flight = [NoFlight EXCEPT !.pc = "wait", !.scope = scope]]
  ELSE [e EXCEPT !.flight.next = Wider(@, scope)]

EstablishConnection(e, scope) ==
  LET d == [e EXCEPT !.detail = scope]
  IN CASE e.lease.scope = scope -> d
       [] e.lease.scope # scope /\ e.connecting # "none" -> d
       [] OTHER -> Load([d EXCEPT !.connecting = scope], scope)

OpenStream(e, scope) ==
  IF e.lease.scope = scope THEN e
  ELSE [CloseStream(e) EXCEPT !.timer = "none",
          !.lease = [scope |-> scope, base |-> e.projection.revision]]

\* Only for an entry that is watched, not blocked, and without a projection.
NoRetry(e, scope) == e                                          \* mutant
ScheduleInitialMaterialization(e, scope) ==
  CASE e.timer # "none" -> e
    [] e.timer = "none" /\ e.attempts >= MaxAttempts -> [e EXCEPT !.upset = TRUE]
    [] OTHER -> [e EXCEPT !.timer = scope, !.attempts = @ + 1]

MayConnect(e) == Active(e) /\ ~e.blocked /\ ~e.projection.terminal

\* The continuation of establishConnection for a connection of that scope ...
Attempted(e, scope) ==
  CASE ~MayConnect(e) -> e
    [] MayConnect(e) /\ Desired(e) # scope -> [e EXCEPT !.upset = @ \/ e.detail = scope]
    [] MayConnect(e) /\ Desired(e) = scope /\ Installed(e) -> OpenStream(e, scope)
    [] MayConnect(e) /\ Desired(e) = scope /\ ~Installed(e) ->
         IF e.bounded # {} THEN ScheduleInitialMaterialization(e, scope) ELSE e

\* ... and its finally block.
Finally(e, scope) ==
  IF MayConnect(e) /\ e.detail # scope THEN EstablishConnection(e, Desired(e)) ELSE e

Connected(e) ==
  LET scope == e.connecting
  IN IF scope = "none" THEN entry' = e
     ELSE \E d \in {Attempted([e EXCEPT !.connecting = "none"], scope)} :
            entry' = Finally(d, scope)

\* The continuation of recoverProjectionSource: lease.update.  The selector keeps the
\* larger revision (mergedSelector); that is the projection's, which does not go back
\* while a lease of it is open.
Recovered(e) ==
  IF e.recovering /\ Installed(e) /\ ~e.projection.terminal
  THEN [e EXCEPT !.recovering = FALSE, !.lease.base = e.projection.revision]
  ELSE [e EXCEPT !.recovering = FALSE]

\* loadOnce returned: go round again if load() was called meanwhile, or resolve
\* the flight for everyone who awaits it.  (\E over one value, here and below:
\* TLC then computes it once.)
LoadReturned(e) ==
  IF e.flight.next # "none"
  THEN entry' = [e EXCEPT !.flight = [NoFlight EXCEPT !.pc = "wait", !.scope = e.flight.next]]
  ELSE \E d \in {Recovered([e EXCEPT !.flight = NoFlight])} : Connected(d)
-----------------------------------------------------------------------------
(***************************************************************************)
(* load: the refresh interval passes, the request is sent, it is answered. *)
(***************************************************************************)
Authority == <<login, entry.session>>

SendLoad ==
  /\ entry.flight.pc = "wait"
  /\ IF entry.blocked THEN LoadReturned(entry)
     ELSE entry' = [entry EXCEPT !.flight.pc = "sent", !.flight.fresh = TRUE,
                      !.flight.from = execution, !.flight.authority = Authority]
  /\ UNCHANGED <<execution, login, loggingIn, actions, faults>>

NotLower(e, revision) == TRUE                                   \* mutant: no check
Acceptable(e, revision) == revision >= e.projection.revision

\* A terminal snapshot closes the stream; promoteDeferredStreams then connects
\* every watched entry again.
Accept(e, revision, terminal) ==
  LET a == [e EXCEPT
        !.projection = [revision |-> revision, terminal |-> terminal,
                        scope |-> e.flight.scope, authority |-> e.flight.authority],
        !.blocked = FALSE, !.attempts = 0, !.detail = e.flight.scope,
        !.upset = @ \/ (e.projection.terminal /\ ~terminal)]
      t == [CloseStream(a) EXCEPT !.timer = "none"]
  IN CASE ~Acceptable(e, revision) -> e
       [] Acceptable(e, revision) /\ ~terminal -> a
       [] Acceptable(e, revision) /\ terminal /\ Active(t) -> EstablishConnection(t, Desired(t))
       [] Acceptable(e, revision) /\ terminal /\ ~Active(t) -> t

Answered == entry.flight.pc = "sent" /\ entry.flight.fresh

\* The gateway read the execution some time after the request was sent.
LoadReady ==
  /\ Answered
  /\ \E revision \in entry.flight.from.revision .. execution.revision, terminal \in BOOLEAN :
       /\ revision > 0
       /\ terminal => execution.done /\ revision = execution.revision
       /\ entry.flight.from.done => terminal
       /\ \E e \in {Accept(entry, revision, terminal)} : LoadReturned(e)
  /\ UNCHANGED <<execution, login, loggingIn, actions, faults>>

LoadNotFound ==
  /\ Answered /\ entry.flight.from.revision = 0
  /\ LoadReturned(entry)
  /\ UNCHANGED <<execution, login, loggingIn, actions, faults>>

\* An answer to a request of an earlier epoch, or an error of one.
LoadSuperseded ==
  /\ entry.flight.pc = "sent" /\ ~entry.flight.fresh
  /\ LoadReturned(entry)
  /\ UNCHANGED <<execution, login, loggingIn, actions, faults>>

LoadUnavailable ==
  /\ Answered
  /\ faults < MaxFaults /\ faults' = faults + 1
  /\ LoadReturned([entry EXCEPT !.upset = @ \/ Installed(entry)])
  /\ UNCHANGED <<execution, login, loggingIn, actions>>

\* forbidden, unauthorized, or a contract the WebUI does not know.
LoadRefused ==
  /\ Answered
  /\ faults < MaxFaults /\ faults' = faults + 1
  /\ LoadReturned(FailClosed(entry))
  /\ UNCHANGED <<execution, login, loggingIn, actions>>

InitialTimer ==
  /\ entry.timer # "none"
  /\ LET e == [entry EXCEPT !.timer = "none"]
     IN entry' = IF Active(e) /\ ~e.projection.terminal
                 THEN EstablishConnection(e, entry.timer) ELSE e
  /\ UNCHANGED <<execution, login, loggingIn, actions, faults>>
-----------------------------------------------------------------------------
(***************************************************************************)
(* Envelopes of the live source.                                           *)
(***************************************************************************)
Live == entry.lease # NoLease
LeaveOpen(e) == e                                               \* mutant
Finished(e) == IF e.projection.terminal THEN CloseStream(e) ELSE e
Recover(e) == Load([e EXCEPT !.recovering = TRUE], e.lease.scope)

\* A delta that does not continue the projection makes the registry reload it.
Delta ==
  /\ Live
  /\ \E revision \in (entry.lease.base + 1) .. execution.revision :
       LET e == [entry EXCEPT !.lease.base = revision]
       IN entry' =
            IF /\ entry.projection.revision = entry.lease.base
               /\ entry.projection.scope = entry.lease.scope
            THEN Finished([e EXCEPT !.projection.revision = revision,
                   !.projection.terminal = @ \/ (execution.done /\ revision = execution.revision)])
            ELSE Recover(e)
  /\ UNCHANGED <<execution, login, loggingIn, actions, faults>>

\* projection_live: the status alone.
LiveStatus ==
  /\ Live /\ execution.done /\ entry.lease.base = execution.revision
  /\ entry' = Finished([entry EXCEPT !.projection.terminal = TRUE])
  /\ UNCHANGED <<execution, login, loggingIn, actions, faults>>

Snapshot ==
  /\ Live
  /\ \E revision \in entry.lease.base .. execution.revision :
       LET sent == [entry EXCEPT !.lease.base = revision]
       IN entry' =
            IF Acceptable(entry, revision)
            THEN Finished([sent EXCEPT !.projection.revision = revision,
                   !.projection.scope = entry.lease.scope,
                   !.projection.terminal = execution.done /\ revision = execution.revision])
            ELSE sent
  /\ UNCHANGED <<execution, login, loggingIn, actions, faults>>

\* The gateway lost the events since its position.
ResyncRequired ==
  /\ Live
  /\ faults < MaxFaults /\ faults' = faults + 1
  /\ entry' = Recover([entry EXCEPT !.lease.base = execution.revision])
  /\ UNCHANGED <<execution, login, loggingIn, actions>>

\* The source, the session or all authority is revoked.
Revoked ==
  /\ faults < MaxFaults /\ faults' = faults + 1
  /\ entry' = FailAllClosed
  /\ UNCHANGED <<execution, login, loggingIn, actions>>
-----------------------------------------------------------------------------
(***************************************************************************)
(* Consumers.                                                              *)
(***************************************************************************)
Act == actions < MaxActions /\ actions' = actions + 1

\* acquire and load: another session takes a watched entry down, and an
\* unwatched one over.  None: the caller names no session.
Conflict(session) ==
  session # None /\ entry.session \notin {None, session} /\ Active(entry)
KeepShown(session) ==                                           \* mutant
  IF session = None THEN entry ELSE [entry EXCEPT !.session = session]
Claimed(session) ==
  CASE session \in {None, entry.session} -> entry
    [] session # None /\ entry.session = None -> [entry EXCEPT !.session = session]
    [] OTHER -> [FailClosed(entry) EXCEPT !.blocked = FALSE, !.session = session]

\* How the pages and the chat store watch: only a restored chat is passive.
Watches == {<<"summary", "passive">>, <<"summary", "bounded">>, <<"full", "bounded">>}

Acquire(c, scope, policy, session) ==
  /\ Act
  /\ entry' =
       IF Conflict(session) THEN FailClosed(entry)
       ELSE LET claimed == Claimed(session)
                e == [claimed EXCEPT !.known = TRUE, !.consumers[c] = scope,
                        !.bounded = IF policy = "bounded" THEN @ \cup {c} ELSE @ \ {c}]
                again == ~Installed(e) /\ policy = "bounded" /\ c \notin entry.bounded
            IN EstablishConnection(
                 IF again THEN [e EXCEPT !.timer = "none", !.attempts = 0] ELSE e,
                 Desired(e))
  /\ UNCHANGED <<execution, login, loggingIn, faults>>

Abandon(e) == [CloseStream(e) EXCEPT !.timer = "none", !.attempts = 0]

Release(c) ==
  /\ entry.consumers[c] # "none"
  /\ LET e == [entry EXCEPT !.consumers[c] = "none", !.bounded = @ \ {c}]
     IN entry' = IF Active(e) THEN EstablishConnection(e, Desired(e)) ELSE Abandon(e)
  /\ UNCHANGED <<execution, login, loggingIn, actions, faults>>

Refresh(scope, session) ==
  /\ Act
  /\ entry' = IF Conflict(session) THEN FailClosed(entry)
              ELSE Load([Claimed(session) EXCEPT !.known = TRUE], scope)
  /\ UNCHANGED <<execution, login, loggingIn, faults>>

\* app.login(): fail closed, await api.authLogin, then refreshAuthorization.
LoginBegins ==
  /\ login < MaxLogins /\ ~loggingIn
  /\ loggingIn' = TRUE
  /\ entry' = FailAllClosed
  /\ UNCHANGED <<execution, login, actions, faults>>

LoginDone ==
  /\ loggingIn
  /\ loggingIn' = FALSE /\ login' = login + 1
  /\ LET e == FailAllClosed
     IN entry' = IF Active(e)
                 THEN EstablishConnection([e EXCEPT !.blocked = FALSE], Desired(e)) ELSE e
  /\ UNCHANGED <<execution, actions, faults>>

(***************************************************************************)
(* The execution at the gateway.                                           *)
(***************************************************************************)
Progress ==
  /\ ~execution.done
  /\ \/ execution.revision < MaxRevision /\ execution' = [execution EXCEPT !.revision = @ + 1]
     \/ execution.revision > 0 /\ execution' = [execution EXCEPT !.done = TRUE]
  /\ UNCHANGED <<entry, login, loggingIn, actions, faults>>

Flight == SendLoad \/ LoadReady \/ LoadNotFound \/ LoadSuperseded \/ LoadUnavailable \/ LoadRefused
Envelope == Delta \/ LiveStatus

Next ==
  \/ Flight \/ InitialTimer \/ Envelope \/ Snapshot \/ ResyncRequired \/ Revoked
  \/ \E c \in Consumers :
       \/ \E watch \in Watches, session \in Sessions : Acquire(c, watch[1], watch[2], session)
       \/ Release(c)
  \/ \E scope \in Scopes, session \in Sessions \cup {None} : Refresh(scope, session)
  \/ LoginBegins \/ LoginDone \/ Progress

Spec == Init /\ [][Next]_vars

\* Requests are answered, timers fire, and the gateway sends what its source
\* has not got yet.
FairSpec == Spec /\ WF_vars(Flight) /\ WF_vars(InitialTimer) /\ WF_vars(Envelope)
-----------------------------------------------------------------------------
(***************************************************************************)
(* Properties.                                                             *)
(***************************************************************************)
Authorities == (0 .. MaxLogins) \X (Sessions \cup {None})

\* Every variable keeps its type (ExecutionProjectionRegistryEntry and the maps
\* next to it), and there is never a timer next to a live source.
TypeOK ==
  /\ entry.projection \in
       [revision : 1 .. MaxRevision, terminal : BOOLEAN, scope : Scopes,
        authority : Authorities] \cup {NoProjection}
  /\ entry = NewEntry \/ entry.known
  /\ entry.session \in Sessions \cup {None}
  /\ entry.consumers \in [Consumers -> Scopes \cup {"none"}]
  /\ \A c \in entry.bounded : entry.consumers[c] # "none"
  /\ {entry.timer, entry.connecting, entry.lease.scope} \subseteq Scopes \cup {"none"}
  /\ entry.attempts \in 0 .. MaxAttempts
  /\ entry.timer # "none" => entry.lease = NoLease
  /\ entry.recovering => entry.lease # NoLease /\ entry.flight # NoFlight
  /\ entry.connecting # "none" => entry.flight # NoFlight

\* Nothing observes an execution that nobody watches, that is finished, or whose
\* authority was lost: no live source, no retry timer (closeStream and
\* cancelReconnect in release, loadOnce, applyDelta and failClosed).
Quiet ==
  ~MayConnect(entry) => entry.lease = NoLease /\ entry.timer = "none"

\* What is shown was read under the current login, and under the entry's session
\* or before it had one: no answer that was on its way when authority changed is
\* installed (requestEpoch in loadOnce, failClosed).
OwnAuthority ==
  Installed(entry) =>
    ~entry.blocked /\ entry.projection.authority \in {Authority, <<login, None>>}

\* A projection never goes back to an earlier revision, whichever of a load, a
\* delta and a snapshot comes late (loadOnce, applyDelta,
\* applyProjectionEnvelope).
RevisionsIncrease ==
  [][Installed(entry) /\ entry'.projection # NoProjection =>
       entry'.projection.revision >= entry.projection.revision]_vars

\* A watcher with a retry budget sees the end of an execution that ends, at its
\* last revision, unless authority stays lost - and except where the code does
\* not see to it (upset): the retry budget was spent, another scope was asked for
\* during a connection load, a reload failed, a late snapshot hid the end
\* (establishConnection, loadOnce, recoverProjectionSource).
Shown == entry.projection.terminal /\ entry.projection.revision = execution.revision
Served ==
  <>[](entry.bounded # {} /\ ~entry.blocked /\ execution.done /\ ~entry.upset)
    => <>[]Shown
=============================================================================
