---------------------- MODULE ProjectionRegistryProofs ----------------------
(***************************************************************************)
(* What the registry and the live transport under it promise the pages:    *)
(* nothing observes an execution without reason, nothing is shown on a     *)
(* lost authority, no event is skipped and the gateway keeps no            *)
(* subscription nobody owns; for any consumers, sessions, logins, sources, *)
(* revisions, retries and faults.                                          *)
(***************************************************************************)
EXTENDS ProjectionRegistry, LiveTransport, TLAPS

ScopesOrNone == Scopes \cup {"none"}
Executions == [revision : Nat, done : BOOLEAN]
AnyAuthority == (Nat \X (Sessions \cup {None})) \cup {None}

Projections ==
  [revision : Nat, terminal : BOOLEAN, scope : ScopesOrNone, authority : AnyAuthority]
Leases == [scope : ScopesOrNone, base : Nat]
Flights ==
  [pc : {"none", "wait", "sent"}, scope : ScopesOrNone, next : ScopesOrNone,
   fresh : BOOLEAN, from : Executions, authority : AnyAuthority]

Entries ==
  [known : BOOLEAN, projection : Projections, blocked : BOOLEAN,
   session : Sessions \cup {None}, consumers : [Consumers -> ScopesOrNone],
   bounded : SUBSET Consumers, detail : ScopesOrNone, lease : Leases,
   timer : ScopesOrNone, attempts : Nat, connecting : ScopesOrNone, flight : Flights,
   recovering : BOOLEAN, upset : BOOLEAN]

\* What was read under the authority a counts as the entry's own.
Own(e, a) == a \in {<<login, e.session>>, <<login, None>>}

\* An operation changes an entry several times before its turn is over; this
\* much holds in between as well.  A live source and a timer have a reason; a
\* source has a projection to continue and no timer next to it; what is shown,
\* or is on its way and will be accepted, was read under the entry's authority.
Sound(e) ==
  /\ e \in Entries
  /\ e.lease # NoLease => /\ e.lease.scope # "none" /\ e.timer = "none"
                          /\ Installed(e) /\ MayConnect(e)
  /\ e.timer # "none" => MayConnect(e)
  /\ e.recovering => e.lease # NoLease
  /\ Installed(e) => /\ e.projection.revision > 0 /\ ~e.blocked
                     /\ Own(e, e.projection.authority)
  /\ e.flight.pc = "sent" /\ e.flight.fresh => Own(e, e.flight.authority)

-----------------------------------------------------------------------------
LEMMA NothingTyped ==
  NoProjection \in Projections /\ NoLease \in Leases /\ NoFlight \in Flights
  BY DEF NoProjection, Projections, NoLease, Leases, NoFlight, Flights, ScopesOrNone,
     Executions, AnyAuthority

LEMMA NewSound == Sound(NewEntry)
<1>1. NewEntry \in Entries
  BY NothingTyped DEF NewEntry, Entries, ScopesOrNone, Scopes
<1> QED BY <1>1 DEF Sound, NewEntry, Installed, NoFlight

\* Sound looks at seven fields and the flight.
SameView(d, e) ==
  /\ d.projection = e.projection /\ d.blocked = e.blocked /\ d.session = e.session
  /\ d.consumers = e.consumers /\ d.lease = e.lease /\ d.timer = e.timer
  /\ d.recovering = e.recovering

SameAnswer(d, e) ==
  d.flight.pc = "sent" /\ d.flight.fresh =>
    e.flight.pc = "sent" /\ e.flight.fresh /\ d.flight.authority = e.flight.authority

LEMMA SameSound ==
  ASSUME NEW e, NEW d \in Entries, Sound(e), SameView(d, e), SameAnswer(d, e)
  PROVE  Sound(d)
<1>1. MayConnect(d) = MayConnect(e) /\ Installed(d) = Installed(e)
  BY DEF SameView, MayConnect, Active, Installed
<1> QED BY <1>1 DEF Sound, Own, SameView, SameAnswer

\* Nothing is observed, shown, or on its way.
LEMMA ClosedSound ==
  ASSUME NEW d \in Entries, d.lease = NoLease, d.timer = "none", ~d.recovering,
         d.projection = NoProjection, d.flight.pc # "sent" \/ ~d.flight.fresh
  PROVE  Sound(d)
  BY DEF Sound, Installed

-----------------------------------------------------------------------------
(* Streams, timers and the latch *)

LEMMA CloseStreamSound ==
  ASSUME NEW e, Sound(e)
  PROVE  Sound(CloseStream(e)) /\ CloseStream(e).known = e.known
<1> DEFINE d == CloseStream(e)
<1>1. d \in Entries
  BY NothingTyped DEF Sound, Entries, CloseStream
<1>2. /\ d.lease = NoLease /\ d.recovering = FALSE /\ d.known = e.known
      /\ d.projection = e.projection /\ d.blocked = e.blocked /\ d.session = e.session
      /\ d.consumers = e.consumers /\ d.timer = e.timer /\ d.flight = e.flight
  BY DEF Sound, Entries, CloseStream
<1>3. MayConnect(d) = MayConnect(e) /\ Installed(d) = Installed(e)
  BY <1>2 DEF MayConnect, Active, Installed
<1> HIDE DEF d
<1>4. Sound(d)
  BY <1>1, <1>2, <1>3 DEF Sound, Own
<1> QED BY <1>2, <1>4 DEF d

LEMMA FailClosedSound ==
  ASSUME NEW e, Sound(e)
  PROVE  Sound(FailClosed(e)) /\ FailClosed(e).known = e.known
<1> DEFINE d == FailClosed(e)
<1>1. NextEpoch(e.flight) \in Flights /\ ~NextEpoch(e.flight).fresh
  BY DEF Sound, Entries, NextEpoch, Flights
<1>2. /\ d \in Entries /\ d.lease = NoLease /\ d.timer = "none" /\ ~d.recovering
      /\ d.projection = NoProjection /\ d.flight = NextEpoch(e.flight) /\ d.known = e.known
  <2> HIDE DEF NextEpoch
  <2> QED BY <1>1, NothingTyped DEF Sound, Entries, FailClosed, CloseStream, ScopesOrNone
<1> HIDE DEF d
<1>3. Sound(d)
  BY <1>1, <1>2, ClosedSound
<1> QED BY <1>2, <1>3 DEF d

LEMMA LoadSound ==
  ASSUME NEW e, Sound(e), NEW scope \in ScopesOrNone
  PROVE  Sound(Load(e, scope)) /\ Load(e, scope).known = e.known
<1> DEFINE f == IF e.flight.pc = "none"
                THEN [NoFlight EXCEPT !.pc = "wait", !.scope = scope]
                ELSE [e.flight EXCEPT !.next = Wider(@, scope)]
           d == [e EXCEPT !.flight = f]
<1>1. f \in Flights
  BY NothingTyped DEF Sound, Entries, Flights, Wider, ScopesOrNone, Scopes
<1>2. f.pc = "sent" => f.pc = e.flight.pc /\ f.fresh = e.flight.fresh
                       /\ f.authority = e.flight.authority
  BY DEF Sound, Entries, Flights, NoFlight
<1>3. Load(e, scope) = d
  BY DEF Load
<1>4. d \in Entries /\ SameView(d, e) /\ d.flight = f /\ d.known = e.known
  <2> HIDE DEF f
  <2> QED BY <1>1 DEF Sound, Entries, SameView
<1> HIDE DEF d, f
<1>5. SameAnswer(d, e)
  BY <1>2, <1>4 DEF SameAnswer
<1> QED BY <1>3, <1>4, <1>5, SameSound

LEMMA EstablishSound ==
  ASSUME NEW e, Sound(e), NEW scope \in ScopesOrNone
  PROVE  /\ Sound(EstablishConnection(e, scope))
         /\ EstablishConnection(e, scope).known = e.known
<1> DEFINE d == [e EXCEPT !.detail = scope]
           c == [d EXCEPT !.connecting = scope]
<1>1. d \in Entries /\ c \in Entries
  BY DEF Sound, Entries
<1>2. /\ SameView(d, e) /\ SameAnswer(d, e) /\ d.known = e.known
      /\ SameView(c, e) /\ SameAnswer(c, e) /\ c.known = e.known
  BY DEF Sound, Entries, SameView, SameAnswer
<1>3. Sound(d) /\ Sound(c)
  <2> HIDE DEF d, c
  <2> QED BY <1>1, <1>2, SameSound
<1>4. EstablishConnection(e, scope) \in {d, Load(c, scope)}
  BY DEF EstablishConnection
<1> HIDE DEF d, c
<1> QED BY <1>2, <1>3, <1>4, LoadSound

LEMMA OpenStreamSound ==
  ASSUME NEW e, Sound(e), NEW scope \in Scopes, MayConnect(e), Installed(e)
  PROVE  Sound(OpenStream(e, scope)) /\ OpenStream(e, scope).known = e.known
<1> DEFINE lease == [scope |-> scope, base |-> e.projection.revision]
           d == [CloseStream(e) EXCEPT !.timer = "none", !.lease = lease]
<1>0. lease \in Leases /\ lease.scope = scope
  BY DEF Sound, Entries, Projections, Leases, ScopesOrNone
<1>1. /\ d \in Entries /\ ~d.recovering /\ d.timer = "none" /\ d.lease = lease
      /\ d.known = e.known /\ d.projection = e.projection /\ d.blocked = e.blocked
      /\ d.session = e.session /\ d.consumers = e.consumers /\ d.flight = e.flight
  <2> HIDE DEF lease
  <2> QED BY <1>0, NothingTyped DEF Sound, Entries, CloseStream, ScopesOrNone
<1>2. OpenStream(e, scope) \in {e, d}
  BY DEF OpenStream
<1> HIDE DEF lease, d
<1>3. MayConnect(d) /\ Installed(d)
  BY <1>1 DEF MayConnect, Active, Installed
<1>4. Sound(d)
  BY <1>0, <1>1, <1>3 DEF Sound, Own, Scopes
<1> QED BY <1>1, <1>2, <1>4

LEMMA ScheduleSound ==
  ASSUME NEW e, Sound(e), NEW scope \in ScopesOrNone, MayConnect(e), ~Installed(e)
  PROVE  /\ Sound(ScheduleInitialMaterialization(e, scope))
         /\ ScheduleInitialMaterialization(e, scope).known = e.known
<1> DEFINE u == [e EXCEPT !.upset = TRUE]
           n == e.attempts + 1
           t == [e EXCEPT !.timer = scope, !.attempts = n]
<1>0. n \in Nat
  BY DEF Sound, Entries
<1>1. u \in Entries /\ SameView(u, e) /\ SameAnswer(u, e) /\ u.known = e.known
  BY DEF Sound, Entries, SameView, SameAnswer
<1>2. Sound(u)
  <2> HIDE DEF u
  <2> QED BY <1>1, SameSound
<1>3. /\ t \in Entries /\ t.known = e.known /\ t.projection = e.projection
      /\ t.blocked = e.blocked /\ t.session = e.session /\ t.consumers = e.consumers
      /\ t.lease = e.lease /\ t.recovering = e.recovering /\ t.flight = e.flight
  <2> HIDE DEF n
  <2> QED BY <1>0 DEF Sound, Entries
<1>4. MayConnect(t) /\ ~Installed(t) /\ t.lease = NoLease
  <2> HIDE DEF t
  <2> QED BY <1>3 DEF Sound, MayConnect, Active, Installed
<1>5. Sound(t)
  <2> HIDE DEF t
  <2> QED BY <1>3, <1>4 DEF Sound, Own
<1>6. ScheduleInitialMaterialization(e, scope) \in {e, u, t}
  BY DEF ScheduleInitialMaterialization, Sound, Entries
<1> HIDE DEF u, t
<1> QED BY <1>1, <1>2, <1>3, <1>5, <1>6

LEMMA DesiredScope == ASSUME NEW e PROVE Desired(e) \in Scopes
  BY DEF Desired, Scopes

LEMMA AttemptedSound ==
  ASSUME NEW e, Sound(e), NEW scope \in ScopesOrNone
  PROVE  Sound(Attempted(e, scope)) /\ Attempted(e, scope).known = e.known
<1> DEFINE u == [e EXCEPT !.upset = @ \/ e.detail = scope]
<1>1. u \in Entries /\ SameView(u, e) /\ SameAnswer(u, e) /\ u.known = e.known
  BY DEF Sound, Entries, SameView, SameAnswer
<1>2. Sound(u)
  <2> HIDE DEF u
  <2> QED BY <1>1, SameSound
<1>3. CASE ~MayConnect(e)
  BY <1>3 DEF Attempted
<1>4. CASE MayConnect(e) /\ Desired(e) # scope
  <2>1. Attempted(e, scope) = u
    BY <1>4 DEF Attempted
  <2> QED BY <1>1, <1>2, <2>1
<1>5. CASE MayConnect(e) /\ Desired(e) = scope /\ Installed(e)
  <2>1. Attempted(e, scope) = OpenStream(e, scope)
    BY <1>5 DEF Attempted
  <2> QED BY <1>5, <2>1, OpenStreamSound, DesiredScope
<1>6. CASE MayConnect(e) /\ Desired(e) = scope /\ ~Installed(e)
  <2>1. Attempted(e, scope) \in {ScheduleInitialMaterialization(e, scope), e}
    BY <1>6 DEF Attempted
  <2> QED BY <1>6, <2>1, ScheduleSound
<1> QED BY <1>3, <1>4, <1>5, <1>6

LEMMA FinallySound ==
  ASSUME NEW e, Sound(e), NEW scope \in ScopesOrNone
  PROVE  Sound(Finally(e, scope)) /\ Finally(e, scope).known = e.known
  BY EstablishSound, DesiredScope DEF Finally, ScopesOrNone

LEMMA ConnectedSound ==
  ASSUME NEW e, Sound(e), Connected(e)
  PROVE  Sound(entry') /\ entry'.known = e.known
<1> DEFINE scope == e.connecting
           d == [e EXCEPT !.connecting = "none"]
<1>1. scope \in ScopesOrNone
  BY DEF Sound, Entries
<1>2. d \in Entries /\ SameView(d, e) /\ SameAnswer(d, e) /\ d.known = e.known
  BY DEF Sound, Entries, SameView, SameAnswer, ScopesOrNone
<1>3. entry' = e \/ entry' = Finally(Attempted(d, scope), scope)
  BY DEF Connected
<1> HIDE DEF d, scope
<1>4. Sound(d)
  BY <1>2, SameSound
<1> QED BY <1>1, <1>2, <1>3, <1>4, AttemptedSound, FinallySound

LEMMA RecoveredSound ==
  ASSUME NEW e, Sound(e)
  PROVE  Sound(Recovered(e)) /\ Recovered(e).known = e.known
<1> DEFINE lease == [e.lease EXCEPT !.base = e.projection.revision]
           d == [e EXCEPT !.recovering = FALSE, !.lease = lease]
           c == [e EXCEPT !.recovering = FALSE]
<1>1. lease \in Leases /\ lease.scope = e.lease.scope
  BY DEF Sound, Entries, Projections, Leases
<1>2. /\ d \in Entries /\ ~d.recovering /\ d.lease = lease /\ d.timer = e.timer
      /\ d.known = e.known /\ d.projection = e.projection /\ d.blocked = e.blocked
      /\ d.session = e.session /\ d.consumers = e.consumers /\ d.flight = e.flight
  <2> HIDE DEF lease
  <2> QED BY <1>1 DEF Sound, Entries
<1>3. /\ c \in Entries /\ ~c.recovering /\ c.lease = e.lease /\ c.timer = e.timer
      /\ c.known = e.known /\ c.projection = e.projection /\ c.blocked = e.blocked
      /\ c.session = e.session /\ c.consumers = e.consumers /\ c.flight = e.flight
  BY DEF Sound, Entries
<1>4. /\ e.recovering => Recovered(e) \in {c, d}
      /\ ~e.recovering => Recovered(e) = c
  BY DEF Recovered
<1> HIDE DEF c, d, lease
<1>5. /\ MayConnect(c) = MayConnect(e) /\ Installed(c) = Installed(e)
      /\ MayConnect(d) = MayConnect(e) /\ Installed(d) = Installed(e)
  BY <1>2, <1>3 DEF MayConnect, Active, Installed
<1>6. Sound(c)
  BY <1>3, <1>5 DEF Sound, Own
<1>7. e.recovering => Sound(d)
  BY <1>1, <1>2, <1>5 DEF Sound, Own
<1> QED BY <1>2, <1>3, <1>4, <1>6, <1>7

LEMMA LoadReturnedSound ==
  ASSUME NEW e, Sound(e), LoadReturned(e)
  PROVE  Sound(entry') /\ entry'.known = e.known
<1>1. CASE e.flight.next # "none"
  <2> DEFINE f == [NoFlight EXCEPT !.pc = "wait", !.scope = e.flight.next]
             d == [e EXCEPT !.flight = f]
  <2>1. f \in Flights /\ f.pc = "wait"
    BY NothingTyped DEF Sound, Entries, Flights
  <2>2. entry' = d
    BY <1>1 DEF LoadReturned
  <2>3. d \in Entries /\ SameView(d, e) /\ d.flight = f /\ d.known = e.known
    <3> HIDE DEF f
    <3> QED BY <2>1 DEF Sound, Entries, SameView
  <2> HIDE DEF d, f
  <2>4. SameAnswer(d, e)
    BY <2>1, <2>3 DEF SameAnswer
  <2> QED BY <2>2, <2>3, <2>4, SameSound
<1>2. CASE e.flight.next = "none"
  <2> DEFINE d == [e EXCEPT !.flight = NoFlight]
  <2>1. d \in Entries /\ SameView(d, e) /\ d.flight = NoFlight /\ d.known = e.known
    BY NothingTyped DEF Sound, Entries, SameView
  <2>2. Connected(Recovered(d))
    BY <1>2 DEF LoadReturned
  <2> HIDE DEF d
  <2>3. SameAnswer(d, e)
    BY <2>1 DEF SameAnswer, NoFlight
  <2> QED BY <2>1, <2>2, <2>3, SameSound, RecoveredSound, ConnectedSound
<1> QED BY <1>1, <1>2

-----------------------------------------------------------------------------
(* Answers and envelopes *)

LEMMA AcceptSound ==
  ASSUME NEW e, Sound(e), e.flight.pc = "sent", e.flight.fresh,
         NEW revision \in Nat \ {0}, NEW terminal \in BOOLEAN
  PROVE  /\ Sound(Accept(e, revision, terminal))
         /\ Accept(e, revision, terminal).known = e.known
<1> DEFINE p == [revision |-> revision, terminal |-> terminal,
                 scope |-> e.flight.scope, authority |-> e.flight.authority]
           u == e.upset \/ (e.projection.terminal /\ ~terminal)
           a == [e EXCEPT !.projection = p, !.blocked = FALSE, !.attempts = 0,
                   !.detail = e.flight.scope, !.upset = u]
           t == [CloseStream(a) EXCEPT !.timer = "none"]
<1>1. /\ p \in Projections /\ p.revision = revision /\ p.terminal = terminal
      /\ p.authority = e.flight.authority /\ e.flight.scope \in ScopesOrNone /\ u \in BOOLEAN
      /\ p # NoProjection
  BY DEF Sound, Entries, Projections, Flights, NoProjection
<1>2. /\ a \in Entries /\ a.projection = p /\ ~a.blocked /\ a.session = e.session
      /\ a.consumers = e.consumers /\ a.lease = e.lease /\ a.timer = e.timer
      /\ a.recovering = e.recovering /\ a.flight = e.flight /\ a.known = e.known
  <2> HIDE DEF p, u
  <2> QED BY <1>1 DEF Sound, Entries
<1>3. /\ t \in Entries /\ t.projection = p /\ ~t.blocked /\ t.session = e.session
      /\ t.lease = NoLease /\ t.timer = "none"
      /\ ~t.recovering /\ t.flight = e.flight /\ t.known = e.known
  <2> HIDE DEF a
  <2> QED BY <1>2, NothingTyped DEF Entries, CloseStream, ScopesOrNone
<1>4. /\ ~Acceptable(e, revision) => Accept(e, revision, terminal) = e
      /\ Acceptable(e, revision) /\ ~terminal => Accept(e, revision, terminal) = a
      /\ Acceptable(e, revision) /\ terminal =>
           Accept(e, revision, terminal) \in {t, EstablishConnection(t, Desired(t))}
  BY DEF Accept
<1> HIDE DEF p, u, a, t
<1>5. ~terminal => Sound(a)
  <2>1. ~terminal /\ MayConnect(e) => MayConnect(a)
    BY <1>1, <1>2 DEF MayConnect, Active
  <2> QED BY <1>1, <1>2, <2>1 DEF Sound, Own, Installed
<1>6. Sound(t)
  BY <1>1, <1>3 DEF Sound, Own, Installed
<1> QED BY <1>2, <1>3, <1>4, <1>5, <1>6, EstablishSound, DesiredScope DEF ScopesOrNone

\* What an envelope may change of an entry with a live source.
LEMMA FinishedSound ==
  ASSUME NEW e, Sound(e), e.lease # NoLease, NEW d \in Entries,
         d.blocked = e.blocked, d.session = e.session, d.consumers = e.consumers,
         d.timer = e.timer, d.recovering = e.recovering, d.flight = e.flight,
         d.known = e.known, d.lease.scope = e.lease.scope,
         d.projection.revision > 0, d.projection.authority = e.projection.authority
  PROVE  Sound(Finished(d)) /\ Finished(d).known = e.known
<1>1. Installed(d) /\ d.lease # NoLease
  BY DEF Installed, NoProjection, NoLease, Sound
<1>2. CASE d.projection.terminal
  <2> DEFINE c == CloseStream(d)
  <2>1. /\ c \in Entries /\ c.projection = d.projection /\ c.blocked = d.blocked
        /\ c.session = d.session /\ c.lease = NoLease /\ c.timer = d.timer
        /\ ~c.recovering /\ c.flight = d.flight /\ c.known = d.known
    BY NothingTyped DEF Entries, CloseStream
  <2>2. Finished(d) = c
    BY <1>2 DEF Finished
  <2> HIDE DEF c
  <2>3. Sound(c)
    BY <2>1 DEF Sound, Own, MayConnect
  <2> QED BY <2>1, <2>2, <2>3
<1>3. CASE ~d.projection.terminal
  <2>1. MayConnect(d)
    BY <1>3 DEF Sound, MayConnect, Active
  <2>2. Finished(d) = d
    BY <1>3 DEF Finished
  <2> QED BY <1>1, <2>1, <2>2 DEF Sound, Own, MayConnect
<1> QED BY <1>2, <1>3

LEMMA RebasedSound ==
  ASSUME NEW e, Sound(e), e.lease # NoLease, NEW base \in Nat
  PROVE  LET d == [e EXCEPT !.lease.base = base]
         IN  Sound(d) /\ d.lease # NoLease /\ d.known = e.known
<1> DEFINE lease == [e.lease EXCEPT !.base = base]
           d == [e EXCEPT !.lease = lease]
<1>1. lease \in Leases /\ lease.scope = e.lease.scope
  BY DEF Sound, Entries, Leases
<1>2. /\ d \in Entries /\ d.lease = lease /\ d.projection = e.projection
      /\ d.blocked = e.blocked /\ d.session = e.session /\ d.consumers = e.consumers
      /\ d.timer = e.timer /\ d.recovering = e.recovering /\ d.flight = e.flight
      /\ d.known = e.known
  <2> HIDE DEF lease
  <2> QED BY <1>1 DEF Sound, Entries
<1>3. [e EXCEPT !.lease.base = base] = d
  OBVIOUS
<1> HIDE DEF lease, d
<1>4. MayConnect(d) = MayConnect(e) /\ Installed(d) = Installed(e)
  BY <1>2 DEF MayConnect, Active, Installed
<1>5. d.lease # NoLease
  BY <1>1, <1>2 DEF Sound, NoLease
<1>6. Sound(d)
  BY <1>1, <1>2, <1>4, <1>5 DEF Sound, Own
<1> QED BY <1>2, <1>3, <1>5, <1>6

LEMMA RecoverSound ==
  ASSUME NEW e, Sound(e), e.lease # NoLease
  PROVE  Sound(Recover(e)) /\ Recover(e).known = e.known
<1> DEFINE d == [e EXCEPT !.recovering = TRUE]
<1>1. /\ d \in Entries /\ d.recovering /\ d.lease = e.lease /\ d.projection = e.projection
      /\ d.blocked = e.blocked /\ d.session = e.session /\ d.consumers = e.consumers
      /\ d.timer = e.timer /\ d.flight = e.flight /\ d.known = e.known
  BY DEF Sound, Entries
<1>2. Recover(e) = Load(d, e.lease.scope) /\ e.lease.scope \in ScopesOrNone
  BY DEF Recover, Sound, Entries, Leases
<1> HIDE DEF d
<1>3. MayConnect(d) = MayConnect(e) /\ Installed(d) = Installed(e)
  BY <1>1 DEF MayConnect, Active, Installed
<1>4. Sound(d)
  BY <1>1, <1>3 DEF Sound, Own
<1> QED BY <1>1, <1>2, <1>4, LoadSound

-----------------------------------------------------------------------------
(* Consumers *)

LEMMA ClaimedSound ==
  ASSUME NEW session \in Sessions \cup {None}, Sound(entry)
  PROVE  Sound(Claimed(session)) /\ Claimed(session).known = entry.known
<1> DEFINE f == FailClosed(entry)
           s == [entry EXCEPT !.session = session]
           d == [f EXCEPT !.blocked = FALSE, !.session = session]
<1>1. /\ s \in Entries /\ s.projection = entry.projection /\ s.blocked = entry.blocked
      /\ s.consumers = entry.consumers /\ s.lease = entry.lease /\ s.timer = entry.timer
      /\ s.recovering = entry.recovering /\ s.flight = entry.flight
      /\ s.known = entry.known /\ s.session = session
  BY DEF Sound, Entries
<1>2. /\ f \in Entries /\ f.lease = NoLease /\ f.timer = "none" /\ ~f.recovering
      /\ f.projection = NoProjection /\ f.flight = NextEpoch(entry.flight)
      /\ f.known = entry.known
  <2>1. f \in Entries /\ f.known = entry.known
    BY FailClosedSound DEF Sound
  <2> QED BY <2>1 DEF Sound, Entries, FailClosed, CloseStream
<1>3. ~f.flight.fresh
  BY <1>2 DEF Sound, Entries, Flights, NextEpoch
<1>4. /\ d \in Entries /\ d.lease = NoLease /\ d.timer = "none" /\ ~d.recovering
      /\ d.projection = NoProjection /\ d.flight = f.flight /\ d.known = entry.known
  <2> HIDE DEF f
  <2> QED BY <1>2 DEF Entries
<1>5. \/ Claimed(session) \in {entry, d}
      \/ Claimed(session) = s /\ entry.session = None
  BY DEF Claimed
<1> HIDE DEF f, s, d
<1>6. entry.session = None => Sound(s)
  <2>1. MayConnect(s) = MayConnect(entry) /\ Installed(s) = Installed(entry)
    BY <1>1 DEF MayConnect, Active, Installed
  <2> QED BY <1>1, <2>1 DEF Sound, Own
<1>7. Sound(d)
  BY <1>3, <1>4, ClosedSound
<1> QED BY <1>1, <1>4, <1>5, <1>6, <1>7

\* An entry is watched by c, and by whom else it was.
LEMMA WatchedSound ==
  ASSUME NEW e, Sound(e), NEW c \in Consumers, NEW scope \in Scopes, NEW bounded \in SUBSET Consumers
  PROVE  LET d == [e EXCEPT !.known = TRUE, !.consumers[c] = scope, !.bounded = bounded]
         IN  Sound(d) /\ d.known
<1> DEFINE w == [e.consumers EXCEPT ![c] = scope]
           d == [e EXCEPT !.known = TRUE, !.consumers = w, !.bounded = bounded]
<1>1. w \in [Consumers -> ScopesOrNone] /\ w[c] = scope
  BY DEF Sound, Entries, ScopesOrNone
<1>2. /\ d \in Entries /\ d.known /\ d.consumers = w /\ d.projection = e.projection
      /\ d.blocked = e.blocked /\ d.session = e.session /\ d.lease = e.lease
      /\ d.timer = e.timer /\ d.recovering = e.recovering /\ d.flight = e.flight
  <2> HIDE DEF w
  <2> QED BY <1>1 DEF Sound, Entries
<1>3. [e EXCEPT !.known = TRUE, !.consumers[c] = scope, !.bounded = bounded] = d
  OBVIOUS
<1> HIDE DEF w, d
<1>4. Active(d) /\ Installed(d) = Installed(e)
  BY <1>1, <1>2 DEF Active, Installed, Scopes
<1>5. MayConnect(e) => MayConnect(d)
  BY <1>2, <1>4 DEF MayConnect
<1>6. Sound(d)
  BY <1>2, <1>4, <1>5 DEF Sound, Own
<1> QED BY <1>2, <1>3, <1>6

LEMMA UntimedSound ==
  ASSUME NEW e, Sound(e)
  PROVE  LET d == [e EXCEPT !.timer = "none", !.attempts = 0]
         IN  Sound(d) /\ d.known = e.known
<1> DEFINE d == [e EXCEPT !.timer = "none", !.attempts = 0]
<1>1. /\ d \in Entries /\ d.timer = "none" /\ d.known = e.known /\ d.projection = e.projection
      /\ d.blocked = e.blocked /\ d.session = e.session /\ d.consumers = e.consumers
      /\ d.lease = e.lease /\ d.recovering = e.recovering /\ d.flight = e.flight
  BY DEF Sound, Entries, ScopesOrNone
<1> HIDE DEF d
<1>2. MayConnect(d) = MayConnect(e) /\ Installed(d) = Installed(e)
  BY <1>1 DEF MayConnect, Active, Installed
<1>3. Sound(d)
  BY <1>1, <1>2 DEF Sound, Own
<1> QED BY <1>1, <1>3 DEF d

-----------------------------------------------------------------------------
(* Steps *)

RegistryInv ==
  /\ Sound(entry)
  /\ entry.known \/ entry = NewEntry
  /\ execution \in Executions /\ login \in Nat

LEMMA InitInv == Init => RegistryInv
  BY NewSound DEF Init, RegistryInv, Executions

\* What is left to show of a step that is not a login's.
LEMMA StepSound ==
  ASSUME RegistryInv, Sound(entry'), entry'.known, UNCHANGED <<execution, login>>
  PROVE  RegistryInv'
  BY DEF RegistryInv, Sound, Own, MayConnect, Active, Installed

\* A new entry has nothing that an answer, an envelope or a timer is about.
LEMMA NewIsIdle ==
  ASSUME RegistryInv, entry.flight.pc # "none" \/ entry.lease # NoLease \/ entry.timer # "none"
                      \/ (\E c \in Consumers : entry.consumers[c] # "none")
                      \/ entry.session # None
  PROVE  entry.known
  BY DEF RegistryInv, NewEntry, NoFlight

LEMMA FlightInv == ASSUME RegistryInv, Flight PROVE RegistryInv'
<1> USE DEF RegistryInv
<1>1. CASE SendLoad
  <2>1. CASE entry.blocked
    BY <1>1, <2>1, LoadReturnedSound, NewIsIdle, StepSound DEF SendLoad
  <2>2. CASE ~entry.blocked
    <3> DEFINE f == [entry.flight EXCEPT !.pc = "sent", !.fresh = TRUE, !.from = execution,
                       !.authority = Authority]
               d == [entry EXCEPT !.flight = f]
    <3>1. f \in Flights /\ f.authority = Authority
      BY DEF Sound, Entries, Flights, Authority, AnyAuthority
    <3>2. entry' = d
      BY <1>1, <2>2 DEF SendLoad
    <3>3. d \in Entries /\ SameView(d, entry) /\ d.flight = f /\ d.known = entry.known
      <4> HIDE DEF f
      <4> QED BY <3>1 DEF Sound, Entries, SameView
    <3> HIDE DEF d, f
    <3>4. MayConnect(d) = MayConnect(entry) /\ Installed(d) = Installed(entry)
      BY <3>3 DEF SameView, MayConnect, Active, Installed
    <3>5. Sound(d)
      BY <3>1, <3>3, <3>4 DEF Sound, Own, SameView, Authority
    <3> QED BY <1>1, <3>2, <3>3, <3>5, NewIsIdle, StepSound DEF SendLoad
  <2> QED BY <2>1, <2>2
<1>2. CASE LoadReady
  <2>1. PICK revision \in Nat \ {0}, terminal \in BOOLEAN :
          LoadReturned(Accept(entry, revision, terminal))
    BY <1>2 DEF LoadReady
  <2> QED BY <1>2, <2>1, AcceptSound, LoadReturnedSound, NewIsIdle, StepSound
          DEF LoadReady, Answered
<1>3. CASE LoadNotFound \/ LoadSuperseded
  BY <1>3, LoadReturnedSound, NewIsIdle, StepSound DEF LoadNotFound, LoadSuperseded, Answered
<1>4. CASE LoadUnavailable
  <2> DEFINE d == [entry EXCEPT !.upset = @ \/ Installed(entry)]
  <2>1. d \in Entries /\ SameView(d, entry) /\ SameAnswer(d, entry) /\ d.known = entry.known
    BY DEF Sound, Entries, SameView, SameAnswer, Installed
  <2>2. LoadReturned(d)
    BY <1>4 DEF LoadUnavailable
  <2> HIDE DEF d
  <2> QED BY <1>4, <2>1, <2>2, SameSound, LoadReturnedSound, NewIsIdle, StepSound
          DEF LoadUnavailable, Answered
<1>5. CASE LoadRefused
  BY <1>5, FailClosedSound, LoadReturnedSound, NewIsIdle, StepSound DEF LoadRefused, Answered
<1> QED BY <1>1, <1>2, <1>3, <1>4, <1>5 DEF Flight

LEMMA TimerInv == ASSUME RegistryInv, InitialTimer PROVE RegistryInv'
<1> DEFINE d == [entry EXCEPT !.timer = "none"]
<1>1. /\ d \in Entries /\ d.timer = "none" /\ d.known = entry.known
      /\ d.projection = entry.projection /\ d.blocked = entry.blocked
      /\ d.session = entry.session /\ d.consumers = entry.consumers /\ d.lease = entry.lease
      /\ d.recovering = entry.recovering /\ d.flight = entry.flight
  BY DEF RegistryInv, Sound, Entries, ScopesOrNone
<1>2. entry' \in {d, EstablishConnection(d, entry.timer)} /\ entry.timer \in ScopesOrNone
  BY DEF InitialTimer, RegistryInv, Sound, Entries
<1> HIDE DEF d
<1>3. MayConnect(d) = MayConnect(entry) /\ Installed(d) = Installed(entry)
  BY <1>1 DEF MayConnect, Active, Installed
<1>4. Sound(d)
  BY <1>1, <1>3 DEF RegistryInv, Sound, Own
<1>5. d.known
  BY <1>1, NewIsIdle DEF InitialTimer
<1>6. /\ Sound(EstablishConnection(d, entry.timer))
      /\ EstablishConnection(d, entry.timer).known
  BY <1>2, <1>4, <1>5, EstablishSound
<1>7. Sound(entry') /\ entry'.known
  BY <1>2, <1>4, <1>5, <1>6
<1> QED BY <1>7, StepSound DEF InitialTimer

\* The numbers an envelope brings.
LEMMA BaseNat ==
  ASSUME RegistryInv, Live, NEW revision \in entry.lease.base .. execution.revision
  PROVE  revision \in Nat /\ entry.lease.base \in Nat /\ entry.projection.revision \in Nat \ {0}
  BY DEF RegistryInv, Live, Sound, Entries, Leases, Projections, Executions

\* An envelope that changes the projection, and where the source goes on.
LEMMA ShownSound ==
  ASSUME RegistryInv, Live, NEW base \in Nat, NEW p \in Projections, p.revision > 0,
         p.authority = entry.projection.authority
  PROVE  LET d == [entry EXCEPT !.lease.base = base, !.projection = p]
         IN  Sound(Finished(d)) /\ Finished(d).known = entry.known
<1> DEFINE lease == [entry.lease EXCEPT !.base = base]
           d == [entry EXCEPT !.lease = lease, !.projection = p]
<1>1. lease \in Leases /\ lease.scope = entry.lease.scope
  BY DEF RegistryInv, Sound, Entries, Leases
<1>2. /\ d \in Entries /\ d.lease = lease /\ d.projection = p
      /\ d.blocked = entry.blocked /\ d.session = entry.session
      /\ d.consumers = entry.consumers /\ d.timer = entry.timer
      /\ d.recovering = entry.recovering /\ d.flight = entry.flight /\ d.known = entry.known
  <2> HIDE DEF lease
  <2> QED BY <1>1 DEF RegistryInv, Sound, Entries
<1>3. [entry EXCEPT !.lease.base = base, !.projection = p] = d
  OBVIOUS
<1> HIDE DEF lease, d
<1>4. Sound(Finished(d)) /\ Finished(d).known = entry.known
  BY <1>1, <1>2, FinishedSound DEF RegistryInv, Live
<1> QED BY <1>3, <1>4

LEMMA DeltaInv == ASSUME RegistryInv, Delta PROVE RegistryInv'
<1>1. PICK revision \in (entry.lease.base + 1) .. execution.revision :
        LET e == [entry EXCEPT !.lease.base = revision]
        IN entry' =
             IF /\ entry.projection.revision = entry.lease.base
                /\ entry.projection.scope = entry.lease.scope
             THEN Finished([e EXCEPT !.projection.revision = revision,
                    !.projection.terminal = @ \/ (execution.done /\ revision = execution.revision)])
             ELSE Recover(e)
  BY DEF Delta
<1>2. revision \in Nat \ {0} /\ Live /\ UNCHANGED <<execution, login>>
  BY DEF Delta, RegistryInv, Sound, Entries, Leases
<1>3. entry.known
  BY <1>2, NewIsIdle DEF Live
<1> DEFINE e == [entry EXCEPT !.lease.base = revision]
           ends == entry.projection.terminal \/ (execution.done /\ revision = execution.revision)
           p == [entry.projection EXCEPT !.revision = revision, !.terminal = ends]
           d == [entry EXCEPT !.lease.base = revision, !.projection = p]
<1>4. Sound(e) /\ e.lease # NoLease /\ e.known = entry.known
  BY <1>2, RebasedSound DEF RegistryInv, Live
<1>5. p \in Projections /\ p.revision > 0 /\ p.authority = entry.projection.authority
  <2>1. ends \in BOOLEAN
    OBVIOUS
  <2>2. entry.projection \in Projections
    BY DEF RegistryInv, Sound, Entries
  <2>3. revision \in Nat /\ revision > 0
    BY <1>2
  <2> HIDE DEF ends
  <2>4. p \in Projections
    BY <2>1, <2>2, <2>3 DEF Projections
  <2>5. p.revision = revision /\ p.authority = entry.projection.authority
    BY <2>2 DEF Projections
  <2> QED BY <2>3, <2>4, <2>5
<1>6. Sound(Finished(d)) /\ Finished(d).known = entry.known
  <2> HIDE DEF p
  <2> QED BY <1>2, <1>5, ShownSound
<1>7. [e EXCEPT !.projection.revision = revision,
         !.projection.terminal = @ \/ (execution.done /\ revision = execution.revision)] = d
  BY DEF RegistryInv, Sound, Entries, Projections
<1>8. entry' \in {Finished(d), Recover(e)}
  BY <1>1, <1>7
<1> HIDE DEF e, d, p
<1>9. Sound(entry') /\ entry'.known
  BY <1>3, <1>4, <1>6, <1>8, RecoverSound
<1> QED BY <1>2, <1>9, StepSound

LEMMA LiveStatusInv == ASSUME RegistryInv, LiveStatus PROVE RegistryInv'
<1> DEFINE p == [entry.projection EXCEPT !.terminal = TRUE]
           d == [entry EXCEPT !.projection = p]
<1>1. entry.projection \in Projections /\ entry.lease # NoLease /\ entry.known
  BY NewIsIdle DEF LiveStatus, Live, RegistryInv, Sound, Entries
<1>2. /\ p \in Projections /\ p.revision = entry.projection.revision
      /\ p.authority = entry.projection.authority
  BY <1>1 DEF Projections
<1>3. p.revision > 0
  BY <1>1, <1>2 DEF RegistryInv, Sound
<1>4. entry' = Finished(d)
  BY DEF LiveStatus
<1>5. /\ d \in Entries /\ d.projection = p /\ d.lease = entry.lease
      /\ d.blocked = entry.blocked /\ d.session = entry.session
      /\ d.consumers = entry.consumers /\ d.timer = entry.timer
      /\ d.recovering = entry.recovering /\ d.flight = entry.flight /\ d.known = entry.known
  <2> HIDE DEF p
  <2> QED BY <1>2 DEF RegistryInv, Sound, Entries
<1> HIDE DEF p, d
<1>6. Sound(entry') /\ entry'.known
  BY <1>1, <1>2, <1>3, <1>4, <1>5, FinishedSound DEF RegistryInv
<1> QED BY <1>6, StepSound DEF LiveStatus

LEMMA SnapshotInv == ASSUME RegistryInv, Snapshot PROVE RegistryInv'
<1>1. PICK revision \in entry.lease.base .. execution.revision :
        LET sent == [entry EXCEPT !.lease.base = revision]
        IN entry' =
             IF Acceptable(entry, revision)
             THEN Finished([sent EXCEPT !.projection.revision = revision,
                    !.projection.scope = entry.lease.scope,
                    !.projection.terminal = execution.done /\ revision = execution.revision])
             ELSE sent
  BY DEF Snapshot
<1>2. Live /\ UNCHANGED <<execution, login>> /\ entry.known
  BY NewIsIdle DEF Snapshot, Live
<1>3. revision \in Nat /\ entry.projection.revision \in Nat \ {0}
  BY <1>2, BaseNat
<1> DEFINE sent == [entry EXCEPT !.lease.base = revision]
           done == execution.done /\ revision = execution.revision
           p == [entry.projection EXCEPT !.revision = revision, !.scope = entry.lease.scope,
                   !.terminal = done]
           d == [entry EXCEPT !.lease.base = revision, !.projection = p]
<1>4. Sound(sent) /\ sent.known = entry.known
  BY <1>2, <1>3, RebasedSound DEF RegistryInv, Live
<1>5. /\ p \in Projections /\ p.revision = revision
      /\ p.authority = entry.projection.authority
  <2>1. entry.projection \in Projections /\ entry.lease.scope \in ScopesOrNone
    BY DEF RegistryInv, Sound, Entries, Leases
  <2>2. done \in BOOLEAN
    OBVIOUS
  <2> HIDE DEF done
  <2> QED BY <1>3, <2>1, <2>2 DEF Projections
<1>6. Acceptable(entry, revision) => Sound(Finished(d)) /\ Finished(d).known = entry.known
  <2> SUFFICES ASSUME Acceptable(entry, revision)
               PROVE  Sound(Finished(d)) /\ Finished(d).known = entry.known
    OBVIOUS
  <2>1. revision > 0
    BY <1>3 DEF Acceptable
  <2> HIDE DEF p
  <2> QED BY <1>2, <1>3, <1>5, <2>1, ShownSound
<1>7. [sent EXCEPT !.projection.revision = revision,
         !.projection.scope = entry.lease.scope,
         !.projection.terminal = execution.done /\ revision = execution.revision] = d
  BY DEF RegistryInv, Sound, Entries, Projections
<1>8. \/ Acceptable(entry, revision) /\ entry' = Finished(d)
      \/ entry' = sent
  BY <1>1, <1>7
<1> HIDE DEF sent, d, p
<1>9. Sound(entry') /\ entry'.known
  BY <1>2, <1>4, <1>6, <1>8
<1> QED BY <1>2, <1>9, StepSound

LEMMA ResyncInv == ASSUME RegistryInv, ResyncRequired PROVE RegistryInv'
<1> DEFINE d == [entry EXCEPT !.lease.base = execution.revision]
<1>1. execution.revision \in Nat /\ entry.lease # NoLease /\ entry.known
  BY NewIsIdle DEF ResyncRequired, Live, RegistryInv, Executions
<1>2. Sound(d) /\ d.lease # NoLease /\ d.known = entry.known
  BY <1>1, RebasedSound DEF RegistryInv
<1>3. entry' = Recover(d)
  BY DEF ResyncRequired
<1> HIDE DEF d
<1>4. Sound(entry') /\ entry'.known
  BY <1>1, <1>2, <1>3, RecoverSound
<1> QED BY <1>4, StepSound DEF ResyncRequired

\* A refusal fails the entry closed, if there is one.
LEMMA AllClosed ==
  ASSUME RegistryInv
  PROVE  /\ Sound(FailAllClosed)
         /\ FailAllClosed.known \/ FailAllClosed = NewEntry
         /\ FailAllClosed.projection = NoProjection /\ FailAllClosed.lease = NoLease
         /\ FailAllClosed.timer = "none"
         /\ FailAllClosed.flight.pc # "sent" \/ ~FailAllClosed.flight.fresh
<1>1. CASE entry.known
  <2>1. FailAllClosed = FailClosed(entry)
    BY <1>1 DEF FailAllClosed
  <2>2. Sound(FailClosed(entry)) /\ FailClosed(entry).known
    BY <1>1, FailClosedSound DEF RegistryInv
  <2>3. /\ FailClosed(entry).projection = NoProjection /\ FailClosed(entry).lease = NoLease
        /\ FailClosed(entry).timer = "none" /\ ~FailClosed(entry).flight.fresh
    BY DEF RegistryInv, Sound, Entries, FailClosed, CloseStream, NextEpoch, Flights
  <2> QED BY <2>1, <2>2, <2>3
<1>2. CASE ~entry.known
  BY <1>2 DEF RegistryInv, FailAllClosed, NewEntry, NoFlight
<1> QED BY <1>1, <1>2

\* Idle entries do not depend on who is logged in.
LEMMA IdleInv ==
  ASSUME RegistryInv, Sound(entry'), entry'.known \/ entry' = NewEntry,
         entry'.projection = NoProjection, entry'.lease = NoLease, entry'.timer = "none",
         entry'.flight.pc # "sent" \/ ~entry'.flight.fresh,
         execution' = execution, login' \in Nat
  PROVE  RegistryInv'
  BY DEF RegistryInv, Sound, Installed

LEMMA AcquireInv ==
  ASSUME RegistryInv, NEW c \in Consumers, NEW watch \in Watches, NEW session \in Sessions,
         Acquire(c, watch[1], watch[2], session)
  PROVE  RegistryInv'
<1>1. CASE Conflict(session)
  BY <1>1, FailClosedSound, NewIsIdle, StepSound DEF Acquire, Conflict, RegistryInv
<1>2. CASE ~Conflict(session)
  <2> DEFINE bounded == IF watch[2] = "bounded" THEN Claimed(session).bounded \cup {c}
                        ELSE Claimed(session).bounded \ {c}
             e == [Claimed(session) EXCEPT !.known = TRUE, !.consumers[c] = watch[1],
                     !.bounded = bounded]
             u == [e EXCEPT !.timer = "none", !.attempts = 0]
  <2>1. Sound(Claimed(session)) /\ Claimed(session).bounded \in SUBSET Consumers
    <3>1. Sound(Claimed(session))
      BY ClaimedSound DEF RegistryInv
    <3> QED BY <3>1 DEF Sound, Entries
  <2>2. watch[1] \in Scopes /\ bounded \in SUBSET Consumers
    BY <2>1 DEF Watches, Scopes
  <2>3. Sound(e) /\ e.known
    <3> HIDE DEF bounded
    <3> QED BY <2>1, <2>2, WatchedSound
  <2>4. Sound(u) /\ u.known = e.known
    <3> HIDE DEF e
    <3> QED BY <2>3, UntimedSound
  <2>5. entry' \in {EstablishConnection(u, Desired(e)), EstablishConnection(e, Desired(e))}
    BY <1>2 DEF Acquire
  <2> HIDE DEF e, u
  <2>6. Sound(entry') /\ entry'.known
    BY <2>3, <2>4, <2>5, EstablishSound, DesiredScope DEF ScopesOrNone
  <2> QED BY <2>6, StepSound DEF Acquire
<1> QED BY <1>1, <1>2

LEMMA ReleaseInv ==
  ASSUME RegistryInv, NEW c \in Consumers, Release(c) PROVE RegistryInv'
<1> DEFINE w == [entry.consumers EXCEPT ![c] = "none"]
           b == entry.bounded \ {c}
           e == [entry EXCEPT !.consumers = w, !.bounded = b]
           a == Abandon(e)
<1>1. w \in [Consumers -> ScopesOrNone] /\ b \in SUBSET Consumers
  BY DEF RegistryInv, Sound, Entries, ScopesOrNone
<1>2. /\ e \in Entries /\ e.known = entry.known /\ e.projection = entry.projection
      /\ e.blocked = entry.blocked /\ e.session = entry.session /\ e.lease = entry.lease
      /\ e.timer = entry.timer /\ e.recovering = entry.recovering /\ e.flight = entry.flight
  <2> HIDE DEF w, b
  <2> QED BY <1>1 DEF RegistryInv, Sound, Entries
<1>3. [entry EXCEPT !.consumers[c] = "none", !.bounded = @ \ {c}] = e
  OBVIOUS
<1>4. /\ Active(e) /\ entry' = EstablishConnection(e, Desired(e))
      \/ entry' = a
  BY <1>3 DEF Release
<1>5. /\ a \in Entries /\ a.lease = NoLease /\ a.timer = "none" /\ ~a.recovering
      /\ a.projection = e.projection /\ a.blocked = e.blocked /\ a.session = e.session
      /\ a.flight = e.flight /\ a.known = e.known
  <2> HIDE DEF e
  <2> QED BY <1>2, NothingTyped DEF Entries, Abandon, CloseStream, ScopesOrNone
<1> HIDE DEF w, b, e, a
<1>6. Installed(e) = Installed(entry) /\ Installed(a) = Installed(entry)
  BY <1>2, <1>5 DEF Installed
<1>7. Active(e) => Sound(e)
  <2>1. Active(e) /\ MayConnect(entry) => MayConnect(e)
    BY <1>2 DEF MayConnect
  <2> QED BY <1>2, <1>6, <2>1 DEF RegistryInv, Sound, Own
<1>8. Sound(a)
  BY <1>2, <1>5, <1>6 DEF RegistryInv, Sound, Own
<1>9. entry.known
  BY NewIsIdle DEF Release
<1>10. Desired(e) \in ScopesOrNone
  BY DesiredScope DEF ScopesOrNone
<1>11. Active(e) => /\ Sound(EstablishConnection(e, Desired(e)))
                    /\ EstablishConnection(e, Desired(e)).known = e.known
  BY <1>7, <1>10, EstablishSound
<1>12. Sound(entry') /\ entry'.known
  BY <1>2, <1>4, <1>5, <1>8, <1>9, <1>11
<1> QED BY <1>12, StepSound DEF Release

LEMMA RefreshInv ==
  ASSUME RegistryInv, NEW scope \in Scopes, NEW session \in Sessions \cup {None},
         Refresh(scope, session)
  PROVE  RegistryInv'
<1>1. CASE Conflict(session)
  BY <1>1, FailClosedSound, NewIsIdle, StepSound DEF Refresh, Conflict, RegistryInv
<1>2. CASE ~Conflict(session)
  <2> DEFINE e == Claimed(session)
             d == [e EXCEPT !.known = TRUE]
  <2>1. Sound(e)
    BY ClaimedSound DEF RegistryInv
  <2>2. d \in Entries /\ SameView(d, e) /\ SameAnswer(d, e) /\ d.known
    <3> HIDE DEF e
    <3> QED BY <2>1 DEF Sound, Entries, SameView, SameAnswer
  <2>3. entry' = Load(d, scope)
    BY <1>2 DEF Refresh
  <2> HIDE DEF e, d
  <2>4. Sound(entry') /\ entry'.known
    BY <2>1, <2>2, <2>3, SameSound, LoadSound DEF ScopesOrNone
  <2> QED BY <2>4, StepSound DEF Refresh
<1> QED BY <1>1, <1>2

LEMMA LoginBeginsInv == ASSUME RegistryInv, LoginBegins \/ Revoked PROVE RegistryInv'
<1>1. entry' = FailAllClosed /\ execution' = execution /\ login' \in Nat
  BY DEF LoginBegins, Revoked, RegistryInv
<1> QED BY <1>1, AllClosed, IdleInv

LEMMA LoginDoneInv == ASSUME RegistryInv, LoginDone PROVE RegistryInv'
<1> DEFINE f == FailAllClosed
           d == [f EXCEPT !.blocked = FALSE]
<1>1. /\ Sound(f)
      /\ f.known \/ f = NewEntry
      /\ f.projection = NoProjection /\ f.lease = NoLease /\ f.timer = "none"
      /\ f.flight.pc # "sent" \/ ~f.flight.fresh
  BY AllClosed
<1>2. /\ d \in Entries /\ d.projection = f.projection /\ d.lease = f.lease
      /\ d.timer = f.timer /\ d.flight = f.flight /\ d.recovering = f.recovering
      /\ d.known = f.known
  <2>1. f \in Entries
    BY <1>1 DEF Sound
  <2> HIDE DEF f
  <2> QED BY <2>1 DEF Entries
<1>3. /\ Active(f) /\ entry' = EstablishConnection(d, Desired(f))
      \/ entry' = f
  BY DEF LoginDone
<1> HIDE DEF f, d
<1>4. Sound(d)
  <2>1. ~f.recovering
    BY <1>1 DEF Sound
  <2> QED BY <1>1, <1>2, <2>1, ClosedSound
<1>5. Active(f) => f.known
  BY <1>1 DEF Active, NewEntry
<1> DEFINE g == EstablishConnection(d, Desired(f))
<1>6. /\ g.projection = d.projection /\ g.lease = d.lease /\ g.timer = d.timer
      /\ g.flight.pc # "sent" \/ ~g.flight.fresh
  BY <1>1, <1>2, <1>4 DEF Sound, Entries, EstablishConnection, Load, NoFlight, Flights
<1>7. Sound(g) /\ g.known = d.known
  BY <1>4, EstablishSound, DesiredScope DEF ScopesOrNone
<1> HIDE DEF g
<1>8. execution' = execution /\ login' \in Nat
  BY DEF LoginDone, RegistryInv
<1>9. CASE entry' = f
  BY <1>1, <1>8, <1>9, IdleInv
<1>10. CASE entry' = g /\ Active(f)
  BY <1>1, <1>2, <1>5, <1>6, <1>7, <1>8, <1>10, IdleInv
<1> QED BY <1>3, <1>9, <1>10 DEF g

LEMMA ProgressInv == ASSUME RegistryInv, Progress PROVE RegistryInv'
<1>1. execution \in Executions
  BY DEF RegistryInv
<1>2. execution' \in Executions
  <2>1. CASE execution' = [execution EXCEPT !.revision = @ + 1]
    BY <1>1, <2>1 DEF Executions
  <2>2. CASE execution' = [execution EXCEPT !.done = TRUE]
    BY <1>1, <2>2 DEF Executions
  <2> QED BY <2>1, <2>2 DEF Progress
<1> QED BY <1>2 DEF RegistryInv, Progress, Sound, Own, MayConnect, Active, Installed

LEMMA NextInv == RegistryInv /\ [Next]_vars => RegistryInv'
<1> SUFFICES ASSUME RegistryInv, [Next]_vars PROVE RegistryInv'
  OBVIOUS
<1>1. CASE Flight \/ InitialTimer \/ Envelope \/ Snapshot \/ ResyncRequired
  BY <1>1, FlightInv, TimerInv, DeltaInv, LiveStatusInv, SnapshotInv, ResyncInv DEF Envelope
<1>2. CASE \E c \in Consumers : \/ \E watch \in Watches, session \in Sessions :
                                     Acquire(c, watch[1], watch[2], session)
                                \/ Release(c)
  BY <1>2, AcquireInv, ReleaseInv
<1>3. CASE \E scope \in Scopes, session \in Sessions \cup {None} : Refresh(scope, session)
  BY <1>3, RefreshInv
<1>4. CASE Revoked \/ LoginBegins \/ LoginDone \/ Progress
  BY <1>4, LoginBeginsInv, LoginDoneInv, ProgressInv
<1>5. CASE UNCHANGED vars
  BY <1>5 DEF vars, RegistryInv, Sound, Own, MayConnect, Active, Installed
<1> QED BY <1>1, <1>2, <1>3, <1>4, <1>5 DEF Next

\* Every entry stays sound between the operations of the store, and an entry that
\* nobody has asked for stays new.
THEOREM RegistryIsSound == Spec => []RegistryInv
  BY InitInv, NextInv, PTL DEF Spec

\* Nothing observes an execution that nobody watches, that is finished, or whose
\* authority was lost, for any consumers and sessions and however often they come,
\* are revoked, log in and are answered late (closeStream, cancelReconnect).
THEOREM NothingObservesInVain == Spec => []Quiet
<1>1. RegistryInv => Quiet
  BY DEF RegistryInv, Sound, Quiet
<1> QED BY <1>1, RegistryIsSound, PTL

\* No answer that was on its way when authority changed is installed, for any
\* number of logins and sessions (requestEpoch in loadOnce, failClosed).
THEOREM ShownOnOwnAuthority == Spec => []OwnAuthority
<1>1. RegistryInv => OwnAuthority
  BY DEF RegistryInv, Sound, OwnAuthority, Own, Authority
<1> QED BY <1>1, RegistryIsSound, PTL

-----------------------------------------------------------------------------
(* Types *)

\* What is shown has a revision of the execution, and was read by somebody.
Read(p) == p.revision \in 1 .. MaxRevision /\ p.scope \in Scopes /\ p.authority \in Authorities

\* The part of TypeOK that Sound leaves out holds between the changes of an
\* operation as well ...
Within(e) ==
  /\ e.attempts \in 0 .. MaxAttempts
  /\ \A c \in e.bounded : e.consumers[c] # "none"
  /\ Installed(e) => Read(e.projection)
  /\ e.flight.pc # "none" => e.flight.scope \in Scopes
  /\ e.flight.pc = "sent" => e.flight.authority \in Authorities

\* ... except while a flight is resolved: whoever awaits it goes on in that turn.
Attended(e) == e.recovering \/ e.connecting # "none" => e.flight.pc # "none"

\* d awaits, tries and shows nothing that e does not.
Lesser(d, e) ==
  /\ d.attempts \in {0, e.attempts}
  /\ d.bounded = e.bounded /\ d.consumers = e.consumers
  /\ d.projection \in {NoProjection, e.projection}
  /\ d.flight.pc = e.flight.pc /\ d.flight.scope = e.flight.scope
  /\ d.flight.authority = e.flight.authority
  /\ d.recovering => e.recovering
  /\ d.connecting \in {"none", e.connecting}

LEMMA LesserWithin ==
  ASSUME NEW e, NEW d, Lesser(d, e)
  PROVE  (Within(e) => Within(d)) /\ (Attended(e) => Attended(d))
  BY RegistryAssumption DEF Lesser, Within, Attended, Installed

LEMMA NewWithin == Within(NewEntry) /\ Attended(NewEntry)
  BY RegistryAssumption DEF NewEntry, NoFlight, Within, Attended, Installed

LEMMA CloseStreamLesser ==
  ASSUME NEW e \in Entries PROVE Lesser(CloseStream(e), e)
  BY DEF Entries, CloseStream, Lesser

LEMMA FailClosedLesser ==
  ASSUME NEW e \in Entries PROVE Lesser(FailClosed(e), e)
<1>1. /\ NextEpoch(e.flight).pc = e.flight.pc /\ NextEpoch(e.flight).scope = e.flight.scope
      /\ NextEpoch(e.flight).authority = e.flight.authority
  BY DEF Entries, Flights, NextEpoch
<1>2. FailClosed(e).flight = NextEpoch(e.flight)
  BY DEF Entries, FailClosed, CloseStream
<1> QED BY <1>1, <1>2 DEF Entries, FailClosed, CloseStream, Lesser

\* Whoever loads has a flight to await.
LEMMA LoadWithin ==
  ASSUME NEW e \in Entries, Within(e), NEW scope \in Scopes
  PROVE  Within(Load(e, scope)) /\ Attended(Load(e, scope))
<1> DEFINE f == IF e.flight.pc = "none"
                THEN [NoFlight EXCEPT !.pc = "wait", !.scope = scope]
                ELSE [e.flight EXCEPT !.next = Wider(@, scope)]
           d == [e EXCEPT !.flight = f]
<1>1. /\ f.pc # "none"
      /\ f.pc = "sent" => e.flight.pc = "sent" /\ f.authority = e.flight.authority
      /\ f.scope \in Scopes
  <2>1. CASE e.flight.pc = "none"
    BY <2>1 DEF NoFlight
  <2>2. CASE e.flight.pc # "none"
    BY <2>2 DEF Within, Entries, Flights
  <2> QED BY <2>1, <2>2
<1>2. Load(e, scope) = d
  BY DEF Load
<1>3. /\ d.attempts = e.attempts /\ d.bounded = e.bounded /\ d.consumers = e.consumers
      /\ d.projection = e.projection /\ d.flight = f
  <2> HIDE DEF f
  <2> QED BY DEF Entries
<1> HIDE DEF d, f
<1> QED BY <1>1, <1>2, <1>3 DEF Within, Attended, Installed

LEMMA EstablishWithin ==
  ASSUME NEW e \in Entries, Within(e), NEW scope \in Scopes
  PROVE  /\ Within(EstablishConnection(e, scope))
         /\ Attended(e) => Attended(EstablishConnection(e, scope))
<1> DEFINE d == [e EXCEPT !.detail = scope]
           c == [d EXCEPT !.connecting = scope]
<1>1. Lesser(d, e)
  BY DEF Entries, Lesser
<1>2. /\ c \in Entries /\ c.attempts = e.attempts /\ c.bounded = e.bounded
      /\ c.consumers = e.consumers /\ c.projection = e.projection /\ c.flight = e.flight
  BY DEF Entries, ScopesOrNone
<1>3. EstablishConnection(e, scope) \in {d, Load(c, scope)}
  BY DEF EstablishConnection
<1> HIDE DEF d, c
<1>4. Within(c)
  BY <1>2 DEF Within, Installed
<1> QED BY <1>1, <1>2, <1>3, <1>4, LesserWithin, LoadWithin

LEMMA AttemptedWithin ==
  ASSUME NEW e \in Entries, Within(e), Attended(e), NEW scope \in ScopesOrNone
  PROVE  Within(Attempted(e, scope)) /\ Attended(Attempted(e, scope))
<1> DEFINE u == [e EXCEPT !.upset = @ \/ e.detail = scope]
           s == ScheduleInitialMaterialization(e, scope)
           o == OpenStream(e, scope)
<1>1. Lesser(u, e)
  BY DEF Entries, Lesser
<1>2. Lesser(o, e)
  BY DEF Entries, Lesser, OpenStream, CloseStream
<1>3. Within(s) /\ Attended(s)
  <2>1. CASE e.timer # "none" \/ e.attempts >= MaxAttempts
    <3>1. s \in {e, [e EXCEPT !.upset = TRUE]}
      BY <2>1 DEF ScheduleInitialMaterialization
    <3>2. Lesser(s, e)
      BY <3>1 DEF Entries, Lesser
    <3> QED BY <3>2, LesserWithin
  <2>2. CASE e.timer = "none" /\ ~(e.attempts >= MaxAttempts)
    <3> DEFINE n == e.attempts + 1
    <3>1. n \in 0 .. MaxAttempts
      BY <2>2, RegistryAssumption DEF Within
    <3>2. s = [e EXCEPT !.timer = scope, !.attempts = n]
      BY <2>2 DEF ScheduleInitialMaterialization
    <3> HIDE DEF n
    <3>3. /\ s.attempts = n /\ s.bounded = e.bounded /\ s.consumers = e.consumers
          /\ s.projection = e.projection /\ s.flight = e.flight
          /\ s.recovering = e.recovering /\ s.connecting = e.connecting
      BY <3>2 DEF Entries
    <3> HIDE DEF s
    <3> QED BY <3>1, <3>3 DEF Within, Attended, Installed
  <2> QED BY <2>1, <2>2
<1>4. Attempted(e, scope) \in {e, u, o, s}
  BY DEF Attempted
<1> HIDE DEF u, s, o
<1> QED BY <1>1, <1>2, <1>3, <1>4, LesserWithin

\* The flight is resolved: the recovery is over, and so is the connection, unless
\* it loads anew.
LEMMA ConnectedWithin ==
  ASSUME NEW e, Sound(e), Within(e), ~e.recovering, Connected(e)
  PROVE  Within(entry') /\ Attended(entry')
<1> DEFINE scope == e.connecting
           d == [e EXCEPT !.connecting = "none"]
<1>0. e \in Entries /\ scope \in ScopesOrNone
  BY DEF Sound, Entries
<1>1. CASE scope = "none"
  <2>1. entry' = e /\ Attended(e)
    BY <1>1 DEF Connected, Attended
  <2> QED BY <2>1
<1>2. CASE scope # "none"
  <2>1. entry' = Finally(Attempted(d, scope), scope)
    BY <1>2 DEF Connected
  <2>2. /\ d \in Entries /\ SameView(d, e) /\ SameAnswer(d, e) /\ Lesser(d, e)
        /\ Attended(d)
    BY <1>0 DEF Entries, SameView, SameAnswer, Lesser, ScopesOrNone, Attended
  <2> DEFINE a == Attempted(d, scope)
  <2> HIDE DEF d, scope
  <2>3. Sound(d) /\ Within(d)
    BY <2>2, SameSound, LesserWithin
  <2>4. a \in Entries /\ Within(a) /\ Attended(a)
    BY <1>0, <2>2, <2>3, AttemptedSound, AttemptedWithin DEF Sound
  <2>5. entry' \in {a, EstablishConnection(a, Desired(a))}
    BY <2>1 DEF Finally
  <2> HIDE DEF a
  <2> QED BY <2>4, <2>5, EstablishWithin, DesiredScope
<1> QED BY <1>1, <1>2

LEMMA LoadReturnedWithin ==
  ASSUME NEW e, Sound(e), Within(e), LoadReturned(e)
  PROVE  Within(entry') /\ Attended(entry')
<1>0. e \in Entries
  BY DEF Sound
<1>1. CASE e.flight.next # "none"
  <2> DEFINE f == [NoFlight EXCEPT !.pc = "wait", !.scope = e.flight.next]
             d == [e EXCEPT !.flight = f]
  <2>1. f.pc = "wait" /\ f.scope \in Scopes
    BY <1>0, <1>1 DEF NoFlight, Entries, Flights, ScopesOrNone
  <2>2. entry' = d
    BY <1>1 DEF LoadReturned
  <2>3. /\ d.attempts = e.attempts /\ d.bounded = e.bounded /\ d.consumers = e.consumers
        /\ d.projection = e.projection /\ d.flight = f
    <3> HIDE DEF f
    <3> QED BY <1>0 DEF Entries
  <2> HIDE DEF d, f
  <2>4. Within(d) /\ Attended(d)
    BY <2>1, <2>3 DEF Within, Attended, Installed
  <2> QED BY <2>2, <2>4
<1>2. CASE e.flight.next = "none"
  <2> DEFINE d == [e EXCEPT !.flight = NoFlight]
             r == Recovered(d)
  <2>1. /\ d \in Entries /\ SameView(d, e) /\ d.flight = NoFlight
        /\ d.attempts = e.attempts /\ d.bounded = e.bounded
    BY <1>0, NothingTyped DEF Entries, SameView
  <2>2. Connected(r)
    BY <1>2 DEF LoadReturned
  <2> HIDE DEF d
  <2>3. Sound(d)
    BY <2>1, SameSound DEF SameAnswer, NoFlight
  <2>4. Within(d)
    BY <2>1 DEF Within, Installed, SameView, NoFlight
  <2>5. Sound(r)
    BY <2>3, RecoveredSound
  <2>6. Lesser(r, d) /\ ~r.recovering
    BY <2>1 DEF Recovered, Entries, Lesser
  <2> HIDE DEF r
  <2> QED BY <2>2, <2>4, <2>5, <2>6, LesserWithin, ConnectedWithin
<1> QED BY <1>1, <1>2

LEMMA AcceptWithin ==
  ASSUME NEW e, Sound(e), Within(e), e.flight.pc = "sent",
         NEW revision \in 1 .. MaxRevision, NEW terminal \in BOOLEAN
  PROVE  Within(Accept(e, revision, terminal))
<1> DEFINE p == [revision |-> revision, terminal |-> terminal,
                 scope |-> e.flight.scope, authority |-> e.flight.authority]
           u == e.upset \/ (e.projection.terminal /\ ~terminal)
           a == [e EXCEPT !.projection = p, !.blocked = FALSE, !.attempts = 0,
                   !.detail = e.flight.scope, !.upset = u]
           t == [CloseStream(a) EXCEPT !.timer = "none"]
<1>0. e \in Entries
  BY DEF Sound
<1>1. p \in Projections /\ Read(p) /\ e.flight.scope \in ScopesOrNone /\ u \in BOOLEAN
  BY <1>0, RegistryAssumption
     DEF Within, Read, Projections, Entries, Flights, ScopesOrNone
<1>2. /\ a \in Entries /\ a.projection = p /\ a.attempts = 0 /\ a.bounded = e.bounded
      /\ a.consumers = e.consumers /\ a.flight = e.flight
  <2> HIDE DEF p, u
  <2> QED BY <1>0, <1>1 DEF Entries
<1>3. Accept(e, revision, terminal) \in {e, a, t, EstablishConnection(t, Desired(t))}
  BY DEF Accept
<1> HIDE DEF p, u, a
<1>4. Within(a)
  BY <1>1, <1>2, RegistryAssumption DEF Within
<1>5. t \in Entries /\ Lesser(t, a)
  BY <1>2, NothingTyped DEF Entries, CloseStream, Lesser, ScopesOrNone
<1> HIDE DEF t
<1>6. Within(t)
  BY <1>4, <1>5, LesserWithin
<1> QED BY <1>3, <1>4, <1>5, <1>6, EstablishWithin, DesiredScope

RegistryWithin ==
  /\ RegistryInv
  /\ Within(entry) /\ Attended(entry)
  /\ execution.revision <= MaxRevision
  /\ login <= MaxLogins /\ (loggingIn => login < MaxLogins)

LEMMA EntryTyped ==
  ASSUME RegistryWithin
  PROVE  entry \in Entries /\ Sound(entry) /\ Within(entry) /\ Attended(entry)
  BY DEF RegistryWithin, RegistryInv, Sound

LEMMA FlightWithin == ASSUME RegistryWithin, Flight PROVE Within(entry') /\ Attended(entry')
<1>0. entry \in Entries /\ Sound(entry) /\ Within(entry) /\ Attended(entry)
  BY EntryTyped
<1>1. CASE SendLoad
  <2>1. CASE entry.blocked
    BY <1>0, <1>1, <2>1, LoadReturnedWithin DEF SendLoad
  <2>2. CASE ~entry.blocked
    <3> DEFINE f == [entry.flight EXCEPT !.pc = "sent", !.fresh = TRUE, !.from = execution,
                       !.authority = Authority]
               d == [entry EXCEPT !.flight = f]
    <3>1. Authority \in Authorities
      BY <1>0 DEF RegistryWithin, RegistryInv, Authority, Authorities, Entries
    <3>2. f.pc = "sent" /\ f.scope = entry.flight.scope /\ f.authority = Authority
      BY <1>0 DEF Entries, Flights
    <3>3. entry' = d
      BY <1>1, <2>2 DEF SendLoad
    <3>4. /\ d.attempts = entry.attempts /\ d.bounded = entry.bounded
          /\ d.consumers = entry.consumers /\ d.projection = entry.projection /\ d.flight = f
      <4> HIDE DEF f
      <4> QED BY <1>0 DEF Entries
    <3> HIDE DEF d, f
    <3> QED BY <1>0, <1>1, <3>1, <3>2, <3>3, <3>4 DEF SendLoad, Within, Attended, Installed
  <2> QED BY <2>1, <2>2
<1>2. CASE LoadReady
  <2>1. PICK revision \in 1 .. MaxRevision, terminal \in BOOLEAN :
          LoadReturned(Accept(entry, revision, terminal))
    <3>1. PICK revision \in entry.flight.from.revision .. execution.revision,
               terminal \in BOOLEAN :
            revision > 0 /\ LoadReturned(Accept(entry, revision, terminal))
      BY <1>2 DEF LoadReady
    <3>2. revision \in 1 .. MaxRevision
      <4>1. entry.flight.from.revision \in Nat /\ execution.revision \in Nat
        BY <1>0 DEF RegistryWithin, RegistryInv, Entries, Flights, Executions
      <4>2. execution.revision <= MaxRevision /\ MaxRevision \in Nat
        BY RegistryAssumption DEF RegistryWithin
      <4> QED BY <3>1, <4>1, <4>2
    <3> QED BY <3>1, <3>2
  <2>2. revision \in Nat \ {0}
    BY RegistryAssumption
  <2> QED BY <1>0, <1>2, <2>1, <2>2, AcceptSound, AcceptWithin, LoadReturnedWithin
          DEF LoadReady, Answered
<1>3. CASE LoadNotFound \/ LoadSuperseded
  BY <1>0, <1>3, LoadReturnedWithin DEF LoadNotFound, LoadSuperseded
<1>4. CASE LoadUnavailable
  <2> DEFINE d == [entry EXCEPT !.upset = @ \/ Installed(entry)]
  <2>1. d \in Entries /\ SameView(d, entry) /\ SameAnswer(d, entry) /\ Lesser(d, entry)
    BY <1>0 DEF Entries, SameView, SameAnswer, Installed, Lesser
  <2>2. LoadReturned(d)
    BY <1>4 DEF LoadUnavailable
  <2> HIDE DEF d
  <2>3. Sound(d) /\ Within(d)
    BY <1>0, <2>1, SameSound, LesserWithin
  <2> QED BY <2>2, <2>3, LoadReturnedWithin
<1>5. CASE LoadRefused
  <2>1. Sound(FailClosed(entry)) /\ Within(FailClosed(entry))
    BY <1>0, FailClosedSound, FailClosedLesser, LesserWithin
  <2> QED BY <1>5, <2>1, LoadReturnedWithin DEF LoadRefused
<1> QED BY <1>1, <1>2, <1>3, <1>4, <1>5 DEF Flight

LEMMA TimerWithin ==
  ASSUME RegistryWithin, InitialTimer PROVE Within(entry') /\ Attended(entry')
<1> DEFINE d == [entry EXCEPT !.timer = "none"]
<1>0. entry \in Entries /\ Within(entry) /\ Attended(entry)
  BY EntryTyped
<1>1. d \in Entries /\ Lesser(d, entry)
  BY <1>0 DEF Entries, ScopesOrNone, Lesser
<1>2. entry' \in {d, EstablishConnection(d, entry.timer)} /\ entry.timer \in Scopes
  BY <1>0 DEF InitialTimer, Entries, ScopesOrNone
<1> HIDE DEF d
<1> QED BY <1>0, <1>1, <1>2, LesserWithin, EstablishWithin

\* An envelope that changes the projection.
LEMMA FinishedWithin ==
  ASSUME NEW e, Within(e), Attended(e), NEW d \in Entries,
         d.attempts = e.attempts, d.bounded = e.bounded, d.consumers = e.consumers,
         d.flight = e.flight, d.recovering = e.recovering, d.connecting = e.connecting,
         d.projection = e.projection \/ Read(d.projection)
  PROVE  Within(Finished(d)) /\ Attended(Finished(d))
<1>1. Within(d) /\ Attended(d)
  BY DEF Within, Attended, Installed
<1>2. Finished(d) \in {d, CloseStream(d)}
  BY DEF Finished
<1> QED BY <1>1, <1>2, CloseStreamLesser, LesserWithin

LEMMA RebasedWithin ==
  ASSUME RegistryWithin, NEW base \in Nat, NEW p \in Projections,
         p = entry.projection \/ Read(p)
  PROVE  LET d == [entry EXCEPT !.lease.base = base, !.projection = p]
         IN  Within(Finished(d)) /\ Attended(Finished(d))
<1> DEFINE lease == [entry.lease EXCEPT !.base = base]
           d == [entry EXCEPT !.lease = lease, !.projection = p]
<1>0. entry \in Entries /\ Within(entry) /\ Attended(entry)
  BY EntryTyped
<1>1. lease \in Leases
  BY <1>0 DEF Entries, Leases
<1>2. /\ d \in Entries /\ d.attempts = entry.attempts /\ d.bounded = entry.bounded
      /\ d.consumers = entry.consumers /\ d.flight = entry.flight
      /\ d.recovering = entry.recovering /\ d.connecting = entry.connecting
      /\ d.projection = p
  <2> HIDE DEF lease
  <2> QED BY <1>0, <1>1 DEF Entries
<1>3. [entry EXCEPT !.lease.base = base, !.projection = p] = d
  OBVIOUS
<1> HIDE DEF lease, d
<1>4. Within(Finished(d)) /\ Attended(Finished(d))
  BY <1>0, <1>2, FinishedWithin
<1> QED BY <1>3, <1>4

\* A reload is a flight for the scope of the source.
LEMMA RecoverWithin ==
  ASSUME RegistryWithin, Live, NEW base \in Nat
  PROVE  LET d == [entry EXCEPT !.lease.base = base]
         IN  /\ Within(d) /\ Attended(d)
             /\ Within(Recover(d)) /\ Attended(Recover(d))
<1> DEFINE lease == [entry.lease EXCEPT !.base = base]
           d == [entry EXCEPT !.lease = lease]
           r == [d EXCEPT !.recovering = TRUE]
<1>0. entry \in Entries /\ Sound(entry) /\ Within(entry) /\ Attended(entry)
  BY EntryTyped
<1>1. lease \in Leases /\ lease.scope = entry.lease.scope
  BY <1>0 DEF Entries, Leases
<1>2. lease.scope \in Scopes
  BY <1>0, <1>1 DEF Live, Sound, Entries, Leases, ScopesOrNone
<1>3. /\ d \in Entries /\ d.lease = lease /\ Lesser(d, entry)
      /\ r \in Entries /\ r.attempts = entry.attempts /\ r.bounded = entry.bounded
      /\ r.consumers = entry.consumers /\ r.flight = entry.flight
      /\ r.projection = entry.projection
  <2> HIDE DEF lease
  <2> QED BY <1>0, <1>1 DEF Entries, Lesser
<1>4. Recover(d) = Load(r, lease.scope)
  <2>1. d.lease = lease
    BY <1>3
  <2> QED BY <2>1 DEF Recover
<1>5. [entry EXCEPT !.lease.base = base] = d
  OBVIOUS
<1> HIDE DEF lease, d, r
<1>6. Within(r)
  BY <1>0, <1>3 DEF Within, Installed
<1>7. Within(Recover(d)) /\ Attended(Recover(d))
  BY <1>2, <1>3, <1>4, <1>6, LoadWithin
<1>8. Within(d) /\ Attended(d)
  BY <1>0, <1>3, LesserWithin
<1> QED BY <1>5, <1>7, <1>8

LEMMA DeltaWithin ==
  ASSUME RegistryWithin, Delta PROVE Within(entry') /\ Attended(entry')
<1>0. entry \in Entries /\ Sound(entry) /\ Within(entry) /\ Live
  BY EntryTyped DEF Delta
<1>1. PICK revision \in (entry.lease.base + 1) .. execution.revision :
        LET e == [entry EXCEPT !.lease.base = revision]
        IN entry' =
             IF /\ entry.projection.revision = entry.lease.base
                /\ entry.projection.scope = entry.lease.scope
             THEN Finished([e EXCEPT !.projection.revision = revision,
                    !.projection.terminal = @ \/ (execution.done /\ revision = execution.revision)])
             ELSE Recover(e)
  BY DEF Delta
<1>2. revision \in 1 .. MaxRevision /\ revision \in Nat
  <2>1. entry.lease.base \in Nat /\ execution.revision \in Nat /\ MaxRevision \in Nat
        /\ execution.revision <= MaxRevision
    BY <1>0, RegistryAssumption DEF RegistryWithin, RegistryInv, Entries, Leases, Executions
  <2> QED BY <2>1
<1> DEFINE e == [entry EXCEPT !.lease.base = revision]
           ends == entry.projection.terminal \/ (execution.done /\ revision = execution.revision)
           p == [entry.projection EXCEPT !.revision = revision, !.terminal = ends]
           d == [entry EXCEPT !.lease.base = revision, !.projection = p]
<1>3. p \in Projections /\ Read(p)
  <2>1. entry.projection \in Projections /\ Read(entry.projection) /\ ends \in BOOLEAN
    BY <1>0 DEF Entries, Live, Sound, Within
  <2> HIDE DEF ends
  <2> QED BY <1>2, <2>1 DEF Projections, Read
<1>4. [e EXCEPT !.projection.revision = revision,
         !.projection.terminal = @ \/ (execution.done /\ revision = execution.revision)] = d
  BY <1>0 DEF Entries, Projections
<1>5. entry' \in {Finished(d), Recover(e)}
  BY <1>1, <1>4
<1>6. Within(Finished(d)) /\ Attended(Finished(d))
  <2> HIDE DEF p
  <2> QED BY <1>2, <1>3, RebasedWithin
<1>7. Within(Recover(e)) /\ Attended(Recover(e))
  BY <1>0, <1>2, RecoverWithin
<1> HIDE DEF e, p, d
<1> QED BY <1>5, <1>6, <1>7

LEMMA LiveStatusWithin ==
  ASSUME RegistryWithin, LiveStatus PROVE Within(entry') /\ Attended(entry')
<1> DEFINE p == [entry.projection EXCEPT !.terminal = TRUE]
           d == [entry EXCEPT !.projection = p]
<1>0. entry \in Entries /\ Sound(entry) /\ Within(entry) /\ Attended(entry) /\ Live
  BY EntryTyped DEF LiveStatus
<1>1. p \in Projections /\ Read(p)
  BY <1>0 DEF Entries, Projections, Live, Sound, Within, Read
<1>2. entry' = Finished(d)
  BY DEF LiveStatus
<1>3. /\ d \in Entries /\ d.attempts = entry.attempts /\ d.bounded = entry.bounded
      /\ d.consumers = entry.consumers /\ d.flight = entry.flight
      /\ d.recovering = entry.recovering /\ d.connecting = entry.connecting
      /\ d.projection = p
  <2> HIDE DEF p
  <2> QED BY <1>0, <1>1 DEF Entries
<1> HIDE DEF p, d
<1> QED BY <1>0, <1>1, <1>2, <1>3, FinishedWithin

LEMMA SnapshotWithin ==
  ASSUME RegistryWithin, Snapshot PROVE Within(entry') /\ Attended(entry')
<1>0. entry \in Entries /\ Sound(entry) /\ Within(entry) /\ Live
  BY EntryTyped DEF Snapshot
<1>1. PICK revision \in entry.lease.base .. execution.revision :
        LET sent == [entry EXCEPT !.lease.base = revision]
        IN entry' =
             IF Acceptable(entry, revision)
             THEN Finished([sent EXCEPT !.projection.revision = revision,
                    !.projection.scope = entry.lease.scope,
                    !.projection.terminal = execution.done /\ revision = execution.revision])
             ELSE sent
  BY DEF Snapshot
<1>2. revision \in Nat /\ revision <= MaxRevision
  <2>1. entry.lease.base \in Nat /\ execution.revision \in Nat /\ MaxRevision \in Nat
        /\ execution.revision <= MaxRevision
    BY <1>0, RegistryAssumption DEF RegistryWithin, RegistryInv, Entries, Leases, Executions
  <2> QED BY <2>1
<1> DEFINE sent == [entry EXCEPT !.lease.base = revision]
           done == execution.done /\ revision = execution.revision
           p == [entry.projection EXCEPT !.revision = revision, !.scope = entry.lease.scope,
                   !.terminal = done]
           d == [entry EXCEPT !.lease.base = revision, !.projection = p]
<1>3. Acceptable(entry, revision) => p \in Projections /\ Read(p)
  <2>1. /\ entry.projection \in Projections /\ Read(entry.projection) /\ done \in BOOLEAN
        /\ entry.lease.scope \in Scopes
    BY <1>0 DEF Entries, Leases, Live, Sound, Within, ScopesOrNone
  <2>2. Acceptable(entry, revision) => revision \in 1 .. MaxRevision
    BY <1>2, <2>1, RegistryAssumption DEF Acceptable, Read
  <2> HIDE DEF done
  <2> QED BY <1>2, <2>1, <2>2 DEF Projections, Read, ScopesOrNone
<1>4. [sent EXCEPT !.projection.revision = revision,
         !.projection.scope = entry.lease.scope,
         !.projection.terminal = execution.done /\ revision = execution.revision] = d
  BY <1>0 DEF Entries, Projections
<1>5. \/ Acceptable(entry, revision) /\ entry' = Finished(d)
      \/ entry' = sent
  BY <1>1, <1>4
<1>6. Acceptable(entry, revision) => Within(Finished(d)) /\ Attended(Finished(d))
  <2> HIDE DEF p
  <2> QED BY <1>2, <1>3, RebasedWithin
<1>7. Within(sent) /\ Attended(sent)
  BY <1>0, <1>2, RecoverWithin
<1> HIDE DEF sent, p, d
<1> QED BY <1>5, <1>6, <1>7

LEMMA ResyncWithin ==
  ASSUME RegistryWithin, ResyncRequired PROVE Within(entry') /\ Attended(entry')
<1>1. execution.revision \in Nat
  BY DEF RegistryWithin, RegistryInv, Executions
<1> QED BY <1>1, RecoverWithin DEF ResyncRequired

LEMMA AllClosedLesser ==
  ASSUME RegistryWithin PROVE Lesser(FailAllClosed, entry) /\ FailAllClosed \in Entries
<1>0. entry \in Entries /\ Sound(entry)
  BY EntryTyped
<1>1. FailAllClosed \in {entry, FailClosed(entry)}
  BY DEF FailAllClosed
<1>2. Lesser(entry, entry)
  BY DEF Lesser
<1>3. FailClosed(entry) \in Entries
  BY <1>0, FailClosedSound DEF Sound
<1> QED BY <1>0, <1>1, <1>2, <1>3, FailClosedLesser

LEMMA ClaimedLesser ==
  ASSUME RegistryWithin, NEW session \in Sessions \cup {None}
  PROVE  Claimed(session) \in Entries /\ Lesser(Claimed(session), entry)
<1> DEFINE f == FailClosed(entry)
           s == [entry EXCEPT !.session = session]
           d == [f EXCEPT !.blocked = FALSE, !.session = session]
<1>0. entry \in Entries /\ Sound(entry)
  BY EntryTyped
<1>1. f \in Entries /\ Lesser(f, entry)
  BY <1>0, FailClosedSound, FailClosedLesser DEF Sound
<1> HIDE DEF f
<1>2. Lesser(d, entry)
  BY <1>1 DEF Entries, Lesser
<1>3. Lesser(s, entry) /\ Lesser(entry, entry)
  BY <1>0 DEF Entries, Lesser
<1>4. Claimed(session) \in {entry, s, d}
  BY DEF Claimed, f
<1>5. Claimed(session) \in Entries
  BY ClaimedSound, <1>0 DEF Sound
<1> HIDE DEF s, d
<1> QED BY <1>2, <1>3, <1>4, <1>5

LEMMA ClosedWithin ==
  ASSUME RegistryWithin
  PROVE  /\ Within(FailClosed(entry)) /\ Attended(FailClosed(entry))
         /\ Within(FailAllClosed) /\ Attended(FailAllClosed)
  BY EntryTyped, FailClosedLesser, AllClosedLesser, LesserWithin

LEMMA AcquireWithin ==
  ASSUME RegistryWithin, NEW c \in Consumers, NEW watch \in Watches, NEW session \in Sessions,
         Acquire(c, watch[1], watch[2], session)
  PROVE  Within(entry') /\ Attended(entry')
<1>1. CASE Conflict(session)
  BY <1>1, ClosedWithin DEF Acquire
<1>2. CASE ~Conflict(session)
  <2> DEFINE k == Claimed(session)
             b == IF watch[2] = "bounded" THEN k.bounded \cup {c} ELSE k.bounded \ {c}
             w == [k.consumers EXCEPT ![c] = watch[1]]
             e == [k EXCEPT !.known = TRUE, !.consumers = w, !.bounded = b]
             u == [e EXCEPT !.timer = "none", !.attempts = 0]
  <2>0. k \in Entries /\ Within(k) /\ Attended(k)
    BY ClaimedLesser, LesserWithin, EntryTyped
  <2>1. entry' \in {EstablishConnection(u, Desired(e)), EstablishConnection(e, Desired(e))}
    BY <1>2 DEF Acquire
  <2>2. watch[1] \in Scopes
    BY DEF Watches, Scopes
  <2> HIDE DEF k
  <2>3. b \in SUBSET Consumers /\ w \in [Consumers -> ScopesOrNone]
    BY <2>0, <2>2 DEF Entries, ScopesOrNone
  <2>4. \A x \in b : w[x] # "none"
    <3>1. k.consumers \in [Consumers -> ScopesOrNone] /\ k.bounded \in SUBSET Consumers
          /\ \A x \in k.bounded : k.consumers[x] # "none"
      BY <2>0 DEF Entries, Within
    <3> QED BY <2>2, <3>1 DEF Scopes
  <2>5. /\ e \in Entries /\ e.attempts = k.attempts /\ e.bounded = b /\ e.consumers = w
        /\ e.projection = k.projection /\ e.flight = k.flight
        /\ e.recovering = k.recovering /\ e.connecting = k.connecting
    <3> HIDE DEF b, w
    <3> QED BY <2>0, <2>3 DEF Entries
  <2> HIDE DEF e, b, w
  <2>6. Within(e) /\ Attended(e)
    BY <2>0, <2>4, <2>5 DEF Within, Attended, Installed
  <2>7. u \in Entries /\ Lesser(u, e)
    BY <2>5 DEF Entries, Lesser, ScopesOrNone
  <2> HIDE DEF u
  <2> QED BY <2>1, <2>5, <2>6, <2>7, LesserWithin, EstablishWithin, DesiredScope
<1> QED BY <1>1, <1>2

LEMMA ReleaseWithin ==
  ASSUME RegistryWithin, NEW c \in Consumers, Release(c)
  PROVE  Within(entry') /\ Attended(entry')
<1> DEFINE w == [entry.consumers EXCEPT ![c] = "none"]
           b == entry.bounded \ {c}
           e == [entry EXCEPT !.consumers = w, !.bounded = b]
<1>0. entry \in Entries /\ Within(entry) /\ Attended(entry)
  BY EntryTyped
<1>1. w \in [Consumers -> ScopesOrNone] /\ b \in SUBSET Consumers
  BY <1>0 DEF Entries, ScopesOrNone
<1>2. \A x \in b : w[x] # "none"
  BY <1>0 DEF Entries, Within
<1>3. /\ e \in Entries /\ e.attempts = entry.attempts /\ e.bounded = b /\ e.consumers = w
      /\ e.projection = entry.projection /\ e.flight = entry.flight
      /\ e.recovering = entry.recovering /\ e.connecting = entry.connecting
  <2> HIDE DEF w, b
  <2> QED BY <1>0, <1>1 DEF Entries
<1>4. entry' \in {EstablishConnection(e, Desired(e)), Abandon(e)}
  BY DEF Release
<1> HIDE DEF w, b, e
<1>5. Within(e) /\ Attended(e)
  BY <1>0, <1>2, <1>3 DEF Within, Attended, Installed
<1>6. Lesser(Abandon(e), e)
  BY <1>3 DEF Entries, Abandon, CloseStream, Lesser
<1> QED BY <1>3, <1>4, <1>5, <1>6, LesserWithin, EstablishWithin, DesiredScope

LEMMA RefreshWithin ==
  ASSUME RegistryWithin, NEW scope \in Scopes, NEW session \in Sessions \cup {None},
         Refresh(scope, session)
  PROVE  Within(entry') /\ Attended(entry')
<1>1. CASE Conflict(session)
  BY <1>1, ClosedWithin DEF Refresh
<1>2. CASE ~Conflict(session)
  <2> DEFINE k == Claimed(session)
             d == [k EXCEPT !.known = TRUE]
  <2>0. k \in Entries /\ Within(k)
    BY ClaimedLesser, LesserWithin, EntryTyped
  <2>1. entry' = Load(d, scope)
    BY <1>2 DEF Refresh
  <2> HIDE DEF k
  <2>2. d \in Entries /\ Lesser(d, k)
    BY <2>0 DEF Entries, Lesser
  <2> HIDE DEF d
  <2> QED BY <2>0, <2>1, <2>2, LesserWithin, LoadWithin
<1> QED BY <1>1, <1>2

LEMMA LoginWithin ==
  ASSUME RegistryWithin, Revoked \/ LoginBegins \/ LoginDone
  PROVE  Within(entry') /\ Attended(entry')
<1>1. CASE Revoked \/ LoginBegins
  BY <1>1, ClosedWithin DEF Revoked, LoginBegins
<1>2. CASE LoginDone
  <2> DEFINE f == FailAllClosed
             d == [f EXCEPT !.blocked = FALSE]
  <2>0. f \in Entries /\ Within(f) /\ Attended(f)
    BY ClosedWithin, AllClosedLesser
  <2>1. entry' \in {f, EstablishConnection(d, Desired(f))}
    BY <1>2 DEF LoginDone
  <2> HIDE DEF f
  <2>2. d \in Entries /\ Lesser(d, f)
    BY <2>0 DEF Entries, Lesser
  <2> HIDE DEF d
  <2> QED BY <2>0, <2>1, <2>2, LesserWithin, EstablishWithin, DesiredScope
<1> QED BY <1>1, <1>2

\* The execution and the logins stay within their bounds.
LEMMA BoundsKept ==
  ASSUME RegistryWithin, [Next]_vars
  PROVE  /\ execution'.revision <= MaxRevision
         /\ login' <= MaxLogins /\ (loggingIn' => login' < MaxLogins)
<1>0. /\ execution \in Executions /\ execution.revision <= MaxRevision /\ login \in Nat
      /\ login <= MaxLogins /\ (loggingIn => login < MaxLogins)
      /\ MaxLogins \in Nat /\ MaxRevision \in Nat
  BY RegistryAssumption DEF RegistryWithin, RegistryInv
<1>1. CASE UNCHANGED <<execution, login, loggingIn>>
  BY <1>0, <1>1
<1>2. CASE Flight
  BY <1>1, <1>2 DEF Flight, SendLoad, LoadReady, LoadNotFound, LoadSuperseded,
     LoadUnavailable, LoadRefused
<1>3. CASE InitialTimer \/ Envelope \/ Snapshot \/ ResyncRequired \/ Revoked
  BY <1>1, <1>3 DEF InitialTimer, Envelope, Delta, LiveStatus, Snapshot, ResyncRequired, Revoked
<1>4. CASE \/ \E c \in Consumers : \/ \E watch \in Watches, session \in Sessions :
                                     Acquire(c, watch[1], watch[2], session)
                                   \/ Release(c)
           \/ \E scope \in Scopes, session \in Sessions \cup {None} : Refresh(scope, session)
  <2>1. UNCHANGED <<execution, login, loggingIn>>
    BY <1>4, Zenon DEF Acquire, Release, Refresh
  <2> QED BY <1>1, <2>1
<1>5. CASE LoginBegins
  BY <1>0, <1>5 DEF LoginBegins
<1>6. CASE LoginDone
  BY <1>0, <1>6 DEF LoginDone
<1>7. CASE Progress
  <2>1. login' = login /\ loggingIn' = loggingIn
    BY <1>7 DEF Progress
  <2>2. execution'.revision <= MaxRevision
    BY <1>0, <1>7 DEF Progress, Executions
  <2> QED BY <1>0, <2>1, <2>2
<1>8. CASE UNCHANGED vars
  BY <1>1, <1>8 DEF vars
<1> QED BY <1>2, <1>3, <1>4, <1>5, <1>6, <1>7, <1>8 DEF Next

LEMMA NextWithin == RegistryWithin /\ [Next]_vars => RegistryWithin'
<1> SUFFICES ASSUME RegistryWithin, [Next]_vars PROVE RegistryWithin'
  OBVIOUS
<1>0. RegistryInv'
  BY NextInv DEF RegistryWithin
<1>1. CASE Flight \/ InitialTimer \/ Envelope \/ Snapshot \/ ResyncRequired
  BY <1>1, FlightWithin, TimerWithin, DeltaWithin, LiveStatusWithin, SnapshotWithin,
     ResyncWithin, BoundsKept, <1>0 DEF Envelope, RegistryWithin
<1>2. CASE \E c \in Consumers : \/ \E watch \in Watches, session \in Sessions :
                                     Acquire(c, watch[1], watch[2], session)
                                \/ Release(c)
  <2>1. Within(entry') /\ Attended(entry')
    BY <1>2, AcquireWithin, ReleaseWithin
  <2> QED BY <1>0, <2>1, BoundsKept DEF RegistryWithin
<1>3. CASE \E scope \in Scopes, session \in Sessions \cup {None} : Refresh(scope, session)
  <2>1. Within(entry') /\ Attended(entry')
    BY <1>3, RefreshWithin
  <2> QED BY <1>0, <2>1, BoundsKept DEF RegistryWithin
<1>4. CASE Revoked \/ LoginBegins \/ LoginDone
  BY <1>0, <1>4, LoginWithin, BoundsKept DEF RegistryWithin
<1>5. CASE Progress \/ UNCHANGED vars
  <2>1. entry' = entry
    BY <1>5 DEF Progress, vars
  <2>2. Within(entry') /\ Attended(entry')
    BY <2>1, EntryTyped
  <2> QED BY <1>0, <2>2, BoundsKept DEF RegistryWithin
<1> QED BY <1>1, <1>2, <1>3, <1>4, <1>5 DEF Next

\* Whatever waits for a load has a flight that will resolve it, a source and a timer
\* exclude each other, no load is tried more often than the schedule says, and
\* what is shown was read by somebody, for any consumers, logins and late answers
\* (load, scheduleInitialMaterialization, recoverProjectionSource).
THEOREM RegistryTypes == Spec => []TypeOK
<1>1. Init => RegistryWithin
  BY InitInv, NewWithin, RegistryAssumption DEF Init, RegistryWithin
<1>2. RegistryWithin => TypeOK
  <2> SUFFICES ASSUME RegistryWithin PROVE TypeOK
    OBVIOUS
  <2>0. entry \in Entries /\ Sound(entry) /\ Within(entry) /\ Attended(entry)
    BY EntryTyped
  <2>1. entry.projection \in
          [revision : 1 .. MaxRevision, terminal : BOOLEAN, scope : Scopes,
           authority : Authorities] \cup {NoProjection}
    <3>1. CASE Installed(entry)
      <4>1. entry.projection \in Projections /\ Read(entry.projection)
        BY <2>0, <3>1 DEF Entries, Within
      <4> QED BY <4>1 DEF Projections, Read
    <3>2. CASE ~Installed(entry)
      BY <3>2 DEF Installed
    <3> QED BY <3>1, <3>2
  <2>2. entry = NewEntry \/ entry.known
    BY DEF RegistryWithin, RegistryInv
  <2>3. /\ entry.session \in Sessions \cup {None}
        /\ entry.consumers \in [Consumers -> Scopes \cup {"none"}]
        /\ {entry.timer, entry.connecting, entry.lease.scope} \subseteq Scopes \cup {"none"}
    BY <2>0 DEF Entries, ScopesOrNone, Leases
  <2>4. /\ \A c \in entry.bounded : entry.consumers[c] # "none"
        /\ entry.attempts \in 0 .. MaxAttempts
    BY <2>0 DEF Within
  <2>5. entry.timer # "none" => entry.lease = NoLease
    BY <2>0 DEF Sound
  <2>6. entry.flight.pc # "none" => entry.flight # NoFlight
    BY DEF NoFlight
  <2>7. /\ entry.recovering => entry.lease # NoLease /\ entry.flight # NoFlight
        /\ entry.connecting # "none" => entry.flight # NoFlight
    BY <2>0, <2>6 DEF Sound, Attended
  <2> QED BY <2>1, <2>2, <2>3, <2>4, <2>5, <2>7 DEF TypeOK
<1> QED BY <1>1, <1>2, NextWithin, PTL DEF Spec

-----------------------------------------------------------------------------
(* Revisions *)

\* What an operation may do to what is shown: leave it, or take it down.
KeepsShown(d, e) == d.projection \in {e.projection, NoProjection}

\* Connecting and loading leave it.
LEMMA EstablishShows ==
  ASSUME NEW e \in Entries, NEW scope
  PROVE  EstablishConnection(e, scope).projection = e.projection
  BY DEF EstablishConnection, Load, Entries

LEMMA AttemptedShows ==
  ASSUME NEW e \in Entries, NEW scope
  PROVE  Attempted(e, scope).projection = e.projection
<1>1. OpenStream(e, scope).projection = e.projection
  BY DEF OpenStream, CloseStream, Entries
<1>2. ScheduleInitialMaterialization(e, scope).projection = e.projection
  BY DEF ScheduleInitialMaterialization, Entries
<1>3. [e EXCEPT !.upset = @ \/ e.detail = scope].projection = e.projection
  BY DEF Entries
<1> QED BY <1>1, <1>2, <1>3 DEF Attempted

LEMMA LoadReturnedShows ==
  ASSUME NEW e, Sound(e), LoadReturned(e)
  PROVE  entry'.projection = e.projection
<1>0. e \in Entries
  BY DEF Sound
<1>1. CASE e.flight.next # "none"
  BY <1>0, <1>1 DEF LoadReturned, Entries
<1>2. CASE e.flight.next = "none"
  <2> DEFINE f == [e EXCEPT !.flight = NoFlight]
             r == Recovered(f)
             c == [r EXCEPT !.connecting = "none"]
             scope == r.connecting
  <2>1. f \in Entries /\ SameView(f, e) /\ f.projection = e.projection /\ f.flight = NoFlight
    BY <1>0, NothingTyped DEF Entries, SameView
  <2>2. Sound(f)
    <3> HIDE DEF f
    <3> QED BY <2>1, SameSound DEF SameAnswer, NoFlight
  <2>3. Sound(r) /\ r.projection = f.projection
    <3> HIDE DEF f
    <3> QED BY <2>1, <2>2, RecoveredSound DEF Recovered, Entries
  <2>4. entry' = r \/ entry' = Finally(Attempted(c, scope), scope)
    BY <1>2 DEF LoadReturned, Connected
  <2> HIDE DEF f, r
  <2>5. c \in Entries /\ c.projection = r.projection /\ SameView(c, r) /\ SameAnswer(c, r)
        /\ scope \in ScopesOrNone
    BY <2>3 DEF Sound, Entries, ScopesOrNone, SameView, SameAnswer
  <2> HIDE DEF c, scope
  <2>6. Sound(c)
    BY <2>3, <2>5, SameSound
  <2>7. Attempted(c, scope) \in Entries /\ Attempted(c, scope).projection = c.projection
    BY <2>5, <2>6, AttemptedSound, AttemptedShows DEF Sound
  <2>8. Finally(Attempted(c, scope), scope).projection = c.projection
    BY <2>7, EstablishShows DEF Finally
  <2> QED BY <2>1, <2>3, <2>4, <2>5, <2>8
<1> QED BY <1>1, <1>2

LEMMA FailClosedShows ==
  ASSUME NEW e \in Entries
  PROVE  FailClosed(e).projection = NoProjection
  BY DEF FailClosed, CloseStream, Entries

LEMMA ClaimedShows ==
  ASSUME NEW session \in Sessions \cup {None}, entry \in Entries
  PROVE  KeepsShown(Claimed(session), entry)
<1>1. [FailClosed(entry) EXCEPT !.blocked = FALSE, !.session = session].projection = NoProjection
  BY DEF FailClosed, CloseStream, Entries
<1>2. [entry EXCEPT !.session = session].projection = entry.projection
  BY DEF Entries
<1> QED BY <1>1, <1>2 DEF Claimed, KeepsShown

\* An answer that is older than what is shown is not installed.
LEMMA AcceptShows ==
  ASSUME NEW e, Sound(e), NEW revision \in Nat \ {0}, NEW terminal \in BOOLEAN
  PROVE  \/ Accept(e, revision, terminal).projection = e.projection
         \/ Accept(e, revision, terminal).projection.revision >= e.projection.revision
<1> DEFINE p == [revision |-> revision, terminal |-> terminal,
                 scope |-> e.flight.scope, authority |-> e.flight.authority]
           u == e.upset \/ (e.projection.terminal /\ ~terminal)
           a == [e EXCEPT !.projection = p, !.blocked = FALSE, !.attempts = 0,
                   !.detail = e.flight.scope, !.upset = u]
           t == [CloseStream(a) EXCEPT !.timer = "none"]
<1>0. p \in Projections /\ p.revision = revision /\ u \in BOOLEAN /\ e.flight.scope \in ScopesOrNone
  BY DEF Sound, Entries, Projections, Flights
<1>1. a \in Entries /\ a.projection = p
  <2> HIDE DEF p, u
  <2> QED BY <1>0 DEF Sound, Entries
<1>2. t \in Entries /\ t.projection = p
  <2> HIDE DEF a
  <2> QED BY <1>1, NothingTyped DEF Entries, CloseStream, ScopesOrNone
<1>3. CASE ~Acceptable(e, revision)
  BY <1>3 DEF Accept
<1>4. CASE Acceptable(e, revision)
  <2>1. Accept(e, revision, terminal) \in {a, t, EstablishConnection(t, Desired(t))}
    BY <1>4 DEF Accept
  <2>2. revision >= e.projection.revision
    BY <1>4 DEF Acceptable
  <2> HIDE DEF p, a, t
  <2> QED BY <1>0, <1>1, <1>2, <2>1, <2>2, EstablishShows
<1> QED BY <1>3, <1>4

\* What a step does to what is shown.
Advances == \/ KeepsShown(entry', entry)
            \/ entry'.projection.revision >= entry.projection.revision

LEMMA FlightAdvances == ASSUME RegistryInv, Flight PROVE Advances
<1> USE DEF RegistryInv
<1>0. entry \in Entries
  BY DEF Sound
<1>1. ASSUME LoadReturned(entry) PROVE Advances
  BY <1>1, LoadReturnedShows DEF Advances, KeepsShown
<1>2. CASE SendLoad
  <2>1. CASE entry.blocked
    BY <1>1, <1>2, <2>1 DEF SendLoad
  <2>2. CASE ~entry.blocked
    BY <1>0, <1>2, <2>2 DEF SendLoad, Entries, Advances, KeepsShown
  <2> QED BY <2>1, <2>2
<1>3. CASE LoadReady
  <2>1. PICK revision \in Nat \ {0}, terminal \in BOOLEAN :
          LoadReturned(Accept(entry, revision, terminal))
    BY <1>3 DEF LoadReady
  <2>2. Sound(Accept(entry, revision, terminal))
    BY <1>3, AcceptSound DEF LoadReady, Answered
  <2>3. entry'.projection = Accept(entry, revision, terminal).projection
    BY <2>1, <2>2, LoadReturnedShows
  <2> QED BY <2>3, AcceptShows DEF Advances, KeepsShown
<1>4. CASE LoadNotFound \/ LoadSuperseded
  BY <1>1, <1>4 DEF LoadNotFound, LoadSuperseded
<1>5. CASE LoadUnavailable
  <2> DEFINE d == [entry EXCEPT !.upset = @ \/ Installed(entry)]
  <2>1. d \in Entries /\ SameView(d, entry) /\ SameAnswer(d, entry)
    BY DEF Sound, Entries, SameView, SameAnswer, Installed
  <2>2. LoadReturned(d)
    BY <1>5 DEF LoadUnavailable
  <2> HIDE DEF d
  <2>3. entry'.projection = d.projection
    BY <2>1, <2>2, SameSound, LoadReturnedShows
  <2> QED BY <2>1, <2>3 DEF Advances, KeepsShown, SameView
<1>6. CASE LoadRefused
  <2>1. Sound(FailClosed(entry)) /\ LoadReturned(FailClosed(entry))
    BY <1>6, FailClosedSound DEF LoadRefused
  <2> QED BY <1>0, <2>1, LoadReturnedShows, FailClosedShows DEF Advances, KeepsShown
<1> QED BY <1>2, <1>3, <1>4, <1>5, <1>6 DEF Flight

\* Closing the source leaves what it last brought.
LEMMA FinishedShows ==
  ASSUME NEW e \in Entries
  PROVE  Finished(e).projection = e.projection
  BY DEF Finished, CloseStream, Entries

LEMMA RecoverShows ==
  ASSUME NEW e \in Entries
  PROVE  Recover(e).projection = e.projection
  BY DEF Recover, Load, Entries

\* Envelopes: a delta continues what is shown, a snapshot is compared with it.
LEMMA EnvelopeAdvances ==
  ASSUME RegistryInv, Delta \/ LiveStatus \/ Snapshot \/ ResyncRequired PROVE Advances
<1>0. /\ entry \in Entries /\ entry.projection \in Projections
      /\ entry.lease \in Leases /\ entry.lease.base \in Nat /\ execution.revision \in Nat
  BY DEF RegistryInv, Sound, Entries, Leases, Executions
<1>1. \A b \in Nat : /\ [entry EXCEPT !.lease.base = b] \in Entries
                     /\ [entry EXCEPT !.lease.base = b].projection = entry.projection
  <2> SUFFICES ASSUME NEW b \in Nat
               PROVE  /\ [entry EXCEPT !.lease.base = b] \in Entries
                      /\ [entry EXCEPT !.lease.base = b].projection = entry.projection
    OBVIOUS
  <2> DEFINE lease == [entry.lease EXCEPT !.base = b]
  <2>1. lease \in Leases
    BY <1>0 DEF Leases
  <2>2. [entry EXCEPT !.lease = lease] \in Entries
    <3> HIDE DEF lease
    <3> QED BY <1>0, <2>1 DEF Entries
  <2>3. [entry EXCEPT !.lease.base = b] = [entry EXCEPT !.lease = lease]
    BY <1>0 DEF Entries
  <2> QED BY <1>0, <2>2, <2>3 DEF Entries
<1>2. CASE Delta
  <2>1. PICK revision \in (entry.lease.base + 1) .. execution.revision :
          LET e == [entry EXCEPT !.lease.base = revision]
          IN entry' =
               IF /\ entry.projection.revision = entry.lease.base
                  /\ entry.projection.scope = entry.lease.scope
               THEN Finished([e EXCEPT !.projection.revision = revision,
                      !.projection.terminal =
                        @ \/ (execution.done /\ revision = execution.revision)])
               ELSE Recover(e)
    BY <1>2 DEF Delta
  <2> DEFINE e == [entry EXCEPT !.lease.base = revision]
             ends == entry.projection.terminal \/ (execution.done /\ revision = execution.revision)
             p == [entry.projection EXCEPT !.revision = revision, !.terminal = ends]
             d == [e EXCEPT !.projection = p]
  <2>2. e \in Entries /\ e.projection = entry.projection /\ revision \in Nat
        /\ revision > entry.lease.base
    BY <1>0, <1>1
  <2>3. p \in Projections /\ p.revision = revision
    <3>1. ends \in BOOLEAN
      OBVIOUS
    <3> HIDE DEF ends
    <3> QED BY <1>0, <2>2, <3>1 DEF Projections
  <2>4. [e EXCEPT !.projection.revision = revision,
           !.projection.terminal = @ \/ (execution.done /\ revision = execution.revision)] = d
    BY <1>0 DEF Entries, Projections
  <2>5. d \in Entries /\ d.projection = p
    <3> HIDE DEF e, p
    <3> QED BY <2>2, <2>3 DEF Entries
  <2>6. \/ entry.projection.revision = entry.lease.base /\ entry' = Finished(d)
        \/ entry' = Recover(e)
    BY <2>1, <2>4
  <2> HIDE DEF e, d, p
  <2>7. CASE entry.projection.revision = entry.lease.base /\ entry' = Finished(d)
    BY <1>0, <2>2, <2>3, <2>5, <2>7, FinishedShows DEF Advances
  <2>8. CASE entry' = Recover(e)
    BY <2>2, <2>8, RecoverShows DEF Advances, KeepsShown
  <2> QED BY <2>6, <2>7, <2>8
<1>3. CASE LiveStatus
  <2> DEFINE p == [entry.projection EXCEPT !.terminal = TRUE]
             d == [entry EXCEPT !.projection = p]
  <2>1. p \in Projections /\ p.revision = entry.projection.revision
    BY <1>0 DEF Projections
  <2>2. d \in Entries /\ d.projection = p
    <3> HIDE DEF p
    <3> QED BY <1>0, <2>1 DEF Entries
  <2>3. entry' = Finished(d)
    BY <1>3 DEF LiveStatus
  <2> HIDE DEF d, p
  <2> QED BY <1>0, <2>1, <2>2, <2>3, FinishedShows DEF Advances, Projections
<1>4. CASE Snapshot
  <2>1. PICK revision \in entry.lease.base .. execution.revision :
          LET sent == [entry EXCEPT !.lease.base = revision]
          IN entry' =
               IF Acceptable(entry, revision)
               THEN Finished([sent EXCEPT !.projection.revision = revision,
                      !.projection.scope = entry.lease.scope,
                      !.projection.terminal = execution.done /\ revision = execution.revision])
               ELSE sent
    BY <1>4 DEF Snapshot
  <2> DEFINE e == [entry EXCEPT !.lease.base = revision]
             ends == execution.done /\ revision = execution.revision
             p == [entry.projection EXCEPT !.revision = revision, !.scope = entry.lease.scope,
                     !.terminal = ends]
             d == [e EXCEPT !.projection = p]
  <2>2. e \in Entries /\ e.projection = entry.projection /\ revision \in Nat
    BY <1>0, <1>1
  <2>3. p \in Projections /\ p.revision = revision
    <3>1. ends \in BOOLEAN /\ entry.lease.scope \in ScopesOrNone
      BY <1>0 DEF Leases
    <3> HIDE DEF ends
    <3> QED BY <1>0, <2>2, <3>1 DEF Projections
  <2>4. [e EXCEPT !.projection.revision = revision, !.projection.scope = entry.lease.scope,
           !.projection.terminal = execution.done /\ revision = execution.revision] = d
    BY <1>0 DEF Entries, Projections
  <2>5. d \in Entries /\ d.projection = p
    <3> HIDE DEF e, p
    <3> QED BY <2>2, <2>3 DEF Entries
  <2>6. \/ Acceptable(entry, revision) /\ entry' = Finished(d)
        \/ entry' = e
    BY <2>1, <2>4
  <2> HIDE DEF e, d, p
  <2>7. CASE Acceptable(entry, revision) /\ entry' = Finished(d)
    BY <2>3, <2>5, <2>7, FinishedShows DEF Advances, Acceptable
  <2>8. CASE entry' = e
    BY <2>2, <2>8 DEF Advances, KeepsShown
  <2> QED BY <2>6, <2>7, <2>8
<1>5. CASE ResyncRequired
  BY <1>0, <1>1, <1>5, RecoverShows DEF ResyncRequired, Advances, KeepsShown
<1> QED BY <1>2, <1>3, <1>4, <1>5

\* Calls leave what is shown, or take it down.
LEMMA CallAdvances ==
  ASSUME RegistryInv,
         \/ InitialTimer \/ Revoked \/ LoginBegins \/ LoginDone \/ Progress
         \/ \E c \in Consumers : \/ \E watch \in Watches, session \in Sessions :
                                      Acquire(c, watch[1], watch[2], session)
                                 \/ Release(c)
         \/ \E scope \in Scopes, session \in Sessions \cup {None} : Refresh(scope, session)
  PROVE  Advances
<1>0. entry \in Entries /\ Sound(entry)
  BY DEF RegistryInv, Sound
<1> SUFFICES KeepsShown(entry', entry)
  BY DEF Advances
<1>1. CASE InitialTimer
  <2>1. [entry EXCEPT !.timer = "none"] \in Entries
        /\ [entry EXCEPT !.timer = "none"].projection = entry.projection
    BY <1>0 DEF Entries, ScopesOrNone
  <2> QED BY <1>1, <2>1, EstablishShows DEF InitialTimer, KeepsShown
<1>2. CASE Revoked \/ LoginBegins
  BY <1>2, AllClosed DEF Revoked, LoginBegins, KeepsShown
<1>3. CASE LoginDone
  <2> DEFINE f == FailAllClosed
  <2>1. f \in Entries /\ f.projection = NoProjection
    BY AllClosed DEF Sound
  <2>2. entry' \in {f, EstablishConnection([f EXCEPT !.blocked = FALSE], Desired(f))}
    BY <1>3 DEF LoginDone
  <2> HIDE DEF f
  <2>3. /\ [f EXCEPT !.blocked = FALSE] \in Entries
        /\ [f EXCEPT !.blocked = FALSE].projection = NoProjection
    BY <2>1 DEF Entries
  <2> QED BY <2>1, <2>2, <2>3, EstablishShows DEF KeepsShown
<1>4. CASE Progress
  BY <1>4 DEF Progress, KeepsShown
<1>5. ASSUME NEW c \in Consumers, NEW watch \in Watches, NEW session \in Sessions,
             Acquire(c, watch[1], watch[2], session)
      PROVE  KeepsShown(entry', entry)
  <2>1. CASE Conflict(session)
    BY <1>0, <1>5, <2>1, FailClosedShows DEF Acquire, KeepsShown
  <2>2. CASE ~Conflict(session)
    <3> DEFINE bounded == IF watch[2] = "bounded" THEN Claimed(session).bounded \cup {c}
                          ELSE Claimed(session).bounded \ {c}
               e == [Claimed(session) EXCEPT !.known = TRUE, !.consumers[c] = watch[1],
                       !.bounded = bounded]
               u == [e EXCEPT !.timer = "none", !.attempts = 0]
    <3>1. Sound(Claimed(session)) /\ KeepsShown(Claimed(session), entry)
      BY <1>0, ClaimedSound, ClaimedShows
    <3>2. watch[1] \in Scopes /\ bounded \in SUBSET Consumers
      <4>1. Claimed(session).bounded \in SUBSET Consumers
        BY <3>1 DEF Sound, Entries
      <4> QED BY <4>1 DEF Watches, Scopes
    <3>3. e \in Entries /\ e.projection = Claimed(session).projection
      <4>1. e \in Entries
        <5> HIDE DEF bounded
        <5> QED BY <3>1, <3>2, WatchedSound DEF Sound
      <4>2. e.projection = Claimed(session).projection
        BY <3>1 DEF Sound, Entries
      <4> QED BY <4>1, <4>2
    <3>4. u \in Entries /\ u.projection = e.projection
      <4> HIDE DEF e
      <4> QED BY <3>3 DEF Entries, ScopesOrNone
    <3>5. entry' \in {EstablishConnection(u, Desired(e)), EstablishConnection(e, Desired(e))}
      BY <1>5, <2>2 DEF Acquire
    <3> HIDE DEF e, u
    <3> QED BY <3>1, <3>3, <3>4, <3>5, EstablishShows DEF KeepsShown
  <2> QED BY <2>1, <2>2
<1>6. ASSUME NEW c \in Consumers, Release(c) PROVE KeepsShown(entry', entry)
  <2> DEFINE e == [entry EXCEPT !.consumers[c] = "none", !.bounded = @ \ {c}]
  <2>1. e \in Entries /\ e.projection = entry.projection
    BY <1>0 DEF Entries, ScopesOrNone
  <2>2. entry' \in {EstablishConnection(e, Desired(e)), Abandon(e)}
    BY <1>6 DEF Release
  <2> HIDE DEF e
  <2>3. Abandon(e).projection = e.projection
    BY <2>1 DEF Abandon, CloseStream, Entries
  <2> QED BY <2>1, <2>2, <2>3, EstablishShows DEF KeepsShown
<1>7. ASSUME NEW scope \in Scopes, NEW session \in Sessions \cup {None}, Refresh(scope, session)
      PROVE  KeepsShown(entry', entry)
  <2>1. CASE Conflict(session)
    BY <1>0, <1>7, <2>1, FailClosedShows DEF Refresh, KeepsShown
  <2>2. CASE ~Conflict(session)
    <3>1. Claimed(session) \in Entries /\ KeepsShown(Claimed(session), entry)
      BY <1>0, ClaimedSound, ClaimedShows DEF Sound
    <3>2. entry' = Load([Claimed(session) EXCEPT !.known = TRUE], scope)
      BY <1>7, <2>2 DEF Refresh
    <3> DEFINE e == [Claimed(session) EXCEPT !.known = TRUE]
    <3>3. e \in Entries /\ e.projection = Claimed(session).projection
      BY <3>1 DEF Entries
    <3> HIDE DEF e
    <3>4. Load(e, scope).projection = e.projection
      BY <3>3 DEF Load, Entries
    <3> QED BY <3>1, <3>2, <3>3, <3>4 DEF KeepsShown, e
  <2> QED BY <2>1, <2>2
<1> QED BY <1>1, <1>2, <1>3, <1>4, <1>5, <1>6, <1>7

\* What is shown never goes back to an earlier revision, whichever of an answer, a
\* delta and a snapshot comes late, for any revisions, consumers, logins and faults
\* (loadOnce, applyDelta, applyProjectionEnvelope).
THEOREM NothingGoesBack == Spec => RevisionsIncrease
<1>1. ASSUME RegistryInv, [Next]_vars
      PROVE  [Installed(entry) /\ entry'.projection # NoProjection =>
                entry'.projection.revision >= entry.projection.revision]_vars
  <2>1. CASE UNCHANGED vars
    BY <2>1
  <2>2. CASE Next
    <3>1. Advances
      BY <1>1, <2>2, FlightAdvances, EnvelopeAdvances, CallAdvances DEF Next, Envelope
    <3>2. entry.projection.revision \in Nat
      BY <1>1 DEF RegistryInv, Sound, Entries, Projections
    <3> QED BY <3>1, <3>2 DEF Advances, KeepsShown
  <2> QED BY <1>1, <2>1, <2>2
<1> QED BY <1>1, RegistryIsSound, PTL DEF Spec, RevisionsIncrease
-----------------------------------------------------------------------------
(***************************************************************************)
(* The live transport: every variable keeps its type, and every identifier *)
(* a call or the client holds is of a subscription that exists.            *)
(***************************************************************************)
Used(i) == i \in Ids /\ server[i].state # "unused" /\ server[i].revision > 0

\* The stream is of the subscription, which exists, like the one being created.
Named ==
  /\ stream.id # NoId => stream.id = subscription.id
  /\ stream.state # "open" => wire = <<>>
  /\ subscription.id # NoId => Used(subscription.id)
  /\ subscription.id = NoId => subscription = NoSubscription
  /\ pendingCreate.id # NoId => Used(pendingCreate.id)
  /\ pendingDelete # NoId => Used(pendingDelete)

Called ==
  /\ At("patch") => /\ Used(flight.call.id)
                    /\ subscription \in {flight.call, NoSubscription}
                    /\ flight.reply = "ok" =>
                         server[flight.call.id].revision = flight.call.revision + 1
  /\ At("create") => /\ subscription = NoSubscription /\ flight.call = NoSubscription
                     /\ flight.reply = "ok" => pendingCreate.id # NoId
  /\ At("replay") => subscription # NoSubscription
  /\ At("delete_stale") => flight.call.id \in Ids
  /\ At("delete_last") => /\ stream = NoStream
                          /\ flight.call.id \in Ids \/ flight.reply # "sent"

Shape == TransportTypeOK /\ Named /\ Called

LEMMA ConstantTypes ==
  /\ Idle \in FlightType /\ NoSubscription \in SubscriptionType
  /\ NoCreate \in CreateType /\ NoStream \in StreamType
  /\ NoStream.id = NoId /\ NoStream.state = "closed" /\ NoSubscription.id = NoId
  /\ <<>> \in Seq(EnvelopeType) /\ Len(<<>>) <= BufferLimit
  BY TransportAssumption
  DEF FlightType, SubscriptionType, CreateType, StreamType, Idle, NoSubscription, NoCreate, NoStream

LEMMA TransportInitShape == TransportInit => Shape
<1> SUFFICES ASSUME TransportInit PROVE Shape OBVIOUS
<1>1. server \in [Ids -> ServerType]
  BY DEF TransportInit, ServerType
<1>2. shown \in ShownType
  BY DEF TransportInit, ShownType
<1>3. TransportTypeOK
  <2>1. calls \in CallHistory BY DEF TransportInit, CallHistory
  <2> QED BY <2>1, <1>1, <1>2, ConstantTypes DEF TransportInit, TransportTypeOK
<1>4. Named /\ Called
  BY DEF TransportInit, Named, Called, At, Idle, NoStream, NoSubscription, NoCreate
<1> QED BY <1>3, <1>4 DEF Shape

\* The history of failed calls keeps its type.
LEMMA CallsTyped ==
  ASSUME calls \in CallHistory, UNCHANGED calls \/ Repaired \/ Overlooked
  PROVE  calls' \in CallHistory
  BY DEF CallHistory, Repaired, Overlooked

LEMMA IdleAt ==
  ASSUME NEW p \in {"loop", "replay"}
  PROVE /\ [Idle EXCEPT !.pc = p] \in FlightType
        /\ [Idle EXCEPT !.pc = p].pc = p
  BY ConstantTypes DEF FlightType, Idle

LEMMA RequestSyncTyped ==
  ASSUME TransportTypeOK, RequestSync
  PROVE /\ dirty' \in BOOLEAN /\ flight' \in FlightType
        /\ \/ At("none") /\ flight'.pc = "loop"
           \/ /\ flight'.pc = flight.pc /\ flight'.call = flight.call
              /\ flight'.reply = flight.reply /\ flight'.selector = flight.selector
  BY IdleAt DEF RequestSync, TransportTypeOK, FlightType, At

LEMMA ChangeShape ==
  ASSUME Shape, NEW c \in SUBSET Sources, Change(c) PROVE Shape'
<1>1. TransportTypeOK'
  BY RequestSyncTyped DEF Change, gateway, Shape, TransportTypeOK
<1>2. Named' /\ Called'
  BY RequestSyncTyped DEF Change, gateway, Shape, Named, Called, At, Used
<1> QED BY <1>1, <1>2 DEF Shape

LEMMA LoopEmptyShape ==
  ASSUME Shape, LoopEmpty PROVE Shape'
<1>1. /\ flight' \in FlightType /\ flight'.pc = "delete_last" /\ flight'.call = subscription
      /\ flight'.reply = "ok" <=> subscription = NoSubscription
  BY ConstantTypes DEF LoopEmpty, FlightType, Shape, TransportTypeOK
<1>2. TransportTypeOK'
  BY <1>1, ConstantTypes DEF LoopEmpty, ClosePhysical, Outdated, Shape, TransportTypeOK
<1>3. Named' /\ Called'
  BY <1>1, ConstantTypes
  DEF LoopEmpty, ClosePhysical, Shape, Named, Called, At, Used, TransportTypeOK, FlightType
<1> QED BY <1>2, <1>3 DEF Shape

LEMMA LoopShape ==
  ASSUME Shape, LoopBegin \/ LoopEnd PROVE Shape'
<1>1. flight' \in FlightType /\ flight'.pc \in {"claim", "none"}
  BY ConstantTypes DEF LoopBegin, LoopEnd, FlightType, Shape, TransportTypeOK, Idle
<1>2. TransportTypeOK'
  BY <1>1 DEF LoopBegin, LoopEnd, gateway, Shape, TransportTypeOK
<1>3. Named' /\ Called'
  BY <1>1 DEF LoopBegin, LoopEnd, gateway, Shape, Named, Called, At, Used
<1> QED BY <1>2, <1>3 DEF Shape

LEMMA DeletedLastShape ==
  ASSUME Shape, DeletedLast PROVE Shape'
<1>1. flight' \in FlightType /\ flight'.pc = "loop"
  BY IdleAt DEF DeletedLast
<1>2. TransportTypeOK'
  BY <1>1, ConstantTypes DEF DeletedLast, StillDirty, gateway, Shape, TransportTypeOK, FlightType
<1>3. Named' /\ Called'
  BY <1>1, ConstantTypes DEF DeletedLast, gateway, Shape, Named, Called, At, Used
<1> QED BY <1>2, <1>3 DEF Shape

LEMMA MutateTyped ==
  ASSUME Shape, Mutate
  PROVE /\ flight' \in FlightType /\ pendingCreate' \in CreateType
        /\ flight'.pc = IF subscription = NoSubscription THEN "create" ELSE "patch"
        /\ flight'.call = subscription /\ flight'.reply = "sent"
        /\ flight'.selector = flight.selector
        /\ pendingCreate'.id \in {pendingCreate.id, NoId}
  BY DEF Mutate, Shape, TransportTypeOK, FlightType, CreateType

LEMMA ObserverClaimedShape ==
  ASSUME Shape, ObserverClaimed PROVE Shape'
<1>1. CASE subscription = NoSubscription /\ pendingDelete # NoId
  <2>1. /\ flight' \in FlightType /\ flight'.pc = "delete_stale"
        /\ flight'.call.id = pendingDelete
    <3>1. [id |-> pendingDelete, revision |-> 0] \in SubscriptionType
      BY DEF SubscriptionType, Shape, TransportTypeOK
    <3>2. PICK c \in SubscriptionType :
            /\ c.id = pendingDelete
            /\ flight' = [flight EXCEPT !.pc = "delete_stale", !.reply = "sent", !.call = c]
      BY <1>1, <3>1 DEF ObserverClaimed
    <3> QED BY <3>2 DEF FlightType, Shape, TransportTypeOK
  <2>2. TransportTypeOK'
    BY <2>1, <1>1 DEF ObserverClaimed, gateway, Shape, TransportTypeOK
  <2>3. Named' /\ Called'
    BY <2>1, <1>1 DEF ObserverClaimed, gateway, Shape, Named, Called, At, Used, TransportTypeOK
  <2> QED BY <2>2, <2>3 DEF Shape
<1>2. CASE ~(subscription = NoSubscription /\ pendingDelete # NoId)
  <2>1. Mutate BY <1>2 DEF ObserverClaimed
  <2>2. TransportTypeOK'
    BY <2>1, MutateTyped DEF ObserverClaimed, gateway, Shape, TransportTypeOK
  <2>3. Named' /\ Called'
    BY <2>1, MutateTyped, ConstantTypes
    DEF ObserverClaimed, gateway, Shape, Named, Called, At, Used, TransportTypeOK
  <2> QED BY <2>2, <2>3 DEF Shape
<1> QED BY <1>1, <1>2

LEMMA DeletedStaleShape ==
  ASSUME Shape, DeletedStale PROVE Shape'
<1>1. Mutate BY DEF DeletedStale
<1>2. TransportTypeOK'
  BY <1>1, MutateTyped DEF DeletedStale, gateway, Shape, TransportTypeOK
<1>3. Named' /\ Called'
  BY <1>1, MutateTyped, ConstantTypes
  DEF DeletedStale, gateway, Shape, Named, Called, At, Used, TransportTypeOK
<1> QED BY <1>2, <1>3 DEF Shape

LEMMA DeliverTyped ==
  ASSUME shown \in ShownType, NEW s \in Seq(EnvelopeType), NEW r, Deliver(s, r)
  PROVE shown' \in ShownType /\ shown'.lost = shown.lost
<1>1. PICK last \in {shown.upto} \cup
        {s[j].number : j \in {k \in {i \in DOMAIN s : s[i].revision = r} : k < Len(s) + 1}} :
        shown' = [shown EXCEPT !.upto = last, !.gap = shown'.gap]
  BY DEF Deliver, ShownType
<1>2. \A j \in DOMAIN s : s[j].number \in Nat
  <2>1. \A j \in DOMAIN s : s[j] \in EnvelopeType OBVIOUS
  <2> QED BY <2>1 DEF EnvelopeType
<1>3. last \in Nat BY <1>1, <1>2 DEF ShownType
<1>4. shown'.gap \in BOOLEAN
  BY DEF Deliver, ShownType
<1> QED BY <1>1, <1>3, <1>4 DEF ShownType

BufferTypes ==
  /\ ready \in Nat /\ timer \in {"off", "armed", "stale"} /\ shown \in ShownType
  /\ barrier \in Seq(EnvelopeType) /\ Len(barrier) <= BufferLimit
  /\ unacknowledged \in Seq(EnvelopeType) /\ Len(unacknowledged) <= BufferLimit

LEMMA ConsumeTyped ==
  ASSUME BufferTypes, subscription \in SubscriptionType, NEW e \in EnvelopeType,
         NEW kept \in Seq(EnvelopeType), Len(kept) <= BufferLimit, Consume(e, kept)
  PROVE BufferTypes'
<1>1. e.revision \in Nat /\ <<e>> \in Seq(EnvelopeType) /\ BufferLimit \in Nat
      /\ Append(barrier, e) \in Seq(EnvelopeType) /\ Len(Append(barrier, e)) = Len(barrier) + 1
      /\ Append(kept, e) \in Seq(EnvelopeType) /\ Len(Append(kept, e)) = Len(kept) + 1
  BY TransportAssumption DEF EnvelopeType, BufferTypes
<1>2. LoseOne => shown' \in ShownType BY DEF LoseOne, BufferTypes, ShownType
<1>3. CASE e.revision < subscription.revision
  BY <1>3, <1>1 DEF Consume, BufferTypes, SubscriptionType
<1>4. CASE e.revision > subscription.revision
  <2>1. CASE Early(e) /\ Len(kept) < BufferLimit
    <3>1. unacknowledged' = Append(kept, e) /\ UNCHANGED <<shown, timer, ready, barrier>>
      BY <1>4, <1>1, <2>1 DEF Consume, ConsumeLater, SubscriptionType
    <3> QED BY <3>1, <1>1, <2>1 DEF BufferTypes
  <2>2. CASE ~(Early(e) /\ Len(kept) < BufferLimit)
    BY <1>4, <1>1, <1>2, <2>2
    DEF Consume, ConsumeLater, ScheduleRecreate, BufferTypes, SubscriptionType
  <2> QED BY <2>1, <2>2
<1>5. CASE e.revision = subscription.revision
  <2>1. ConsumeCurrent(e) /\ unacknowledged' = kept
    BY <1>5 DEF Consume, SubscriptionType
  <2>2. CASE Deliver(barrier, e.revision) /\ ready' = e.revision /\ barrier' = <<>> /\ UNCHANGED timer
    BY <2>1, <2>2, <1>1, DeliverTyped, ConstantTypes DEF BufferTypes
  <2>3. CASE ScheduleRecreate /\ UNCHANGED <<ready, barrier, shown>>
    BY <2>1, <2>3 DEF BufferTypes, ScheduleRecreate
  <2>4. CASE Deliver(<<e>>, e.revision) /\ UNCHANGED <<ready, barrier, timer>>
    BY <2>1, <2>4, <1>1, DeliverTyped DEF BufferTypes
  <2>5. CASE Len(barrier) < BufferLimit /\ barrier' = Append(barrier, e) /\ UNCHANGED <<shown, timer, ready>>
    BY <2>1, <2>5, <1>1 DEF BufferTypes
  <2>6. CASE ScheduleRecreate /\ LoseOne /\ UNCHANGED <<barrier, ready>>
    BY <2>1, <2>6, <1>2 DEF BufferTypes, ScheduleRecreate
  <2> QED BY <2>1, <2>2, <2>3, <2>4, <2>5, <2>6 DEF ConsumeCurrent
<1> QED BY <1>1, <1>3, <1>4, <1>5 DEF SubscriptionType

LEMMA AcknowledgedTyped ==
  ASSUME Shape, Acknowledged
  PROVE /\ subscription' \in SubscriptionType /\ Used(subscription'.id)
        /\ subscription'.revision = server[subscription'.id].revision
        /\ At("create") => subscription'.id = pendingCreate.id /\ stream = NoStream
        /\ At("patch") => subscription'.id = flight.call.id
        /\ subscription'.revision # flight.call.revision
        /\ ready' = 0 /\ barrier' = <<>>
        /\ flight' \in FlightType /\ flight'.pc = "replay"
<1> DEFINE id == IF At("create") THEN pendingCreate.id ELSE flight.call.id
<1>1. Used(id) /\ id \in Ids
  BY DEF Acknowledged, Mutating, Shape, Named, Called, Used, At
<1>2. server[id].revision \in Nat /\ server[id].revision # flight.call.revision
  <2>1. server[id].revision \in Nat /\ server[id].revision > 0
    BY <1>1 DEF Shape, TransportTypeOK, ServerType, Used
  <2>2. CASE At("create")
    BY <2>1, <2>2 DEF Shape, Called, NoSubscription
  <2>3. CASE At("patch")
    <3>1. server[id].revision = flight.call.revision + 1 /\ flight.call.revision \in Nat
      BY <2>3 DEF Acknowledged, Shape, Called, At, TransportTypeOK, FlightType, SubscriptionType
    <3> QED BY <3>1
  <2> QED BY <2>1, <2>2, <2>3 DEF Acknowledged, Mutating, At
<1>3. subscription' = [id |-> id, revision |-> server[id].revision]
      /\ ready' = 0 /\ barrier' = <<>>
  BY <1>2 DEF Acknowledged
<1>4. At("create") => stream = NoStream
  BY DEF Shape, Named, Called, NoSubscription, NoStream, TransportTypeOK, StreamType
<1>5. flight' \in FlightType /\ flight'.pc = "replay"
  BY DEF Acknowledged, FlightType, Shape, TransportTypeOK
<1> QED BY <1>1, <1>2, <1>3, <1>4, <1>5 DEF SubscriptionType, At

LEMMA AcknowledgedShape ==
  ASSUME Shape, Acknowledged PROVE Shape'
<1>1. TransportTypeOK'
  BY AcknowledgedTyped, ConstantTypes DEF Acknowledged, RanAhead, gateway, Shape, TransportTypeOK
<1>2. stream.id # NoId => stream.id = subscription'.id
  BY AcknowledgedTyped, ConstantTypes
  DEF Acknowledged, Mutating, At, Shape, Named, Called
<1>3. Named' /\ Called'
  BY <1>2, AcknowledgedTyped, ConstantTypes
  DEF Acknowledged, gateway, Shape, Named, Called, At, Used, NoCreate, Ids, NoId
<1> QED BY <1>1, <1>3 DEF Shape

LEMMA ReplayShape ==
  ASSUME Shape, Replay PROVE Shape'
<1>1. /\ Head(unacknowledged) \in EnvelopeType /\ Tail(unacknowledged) \in Seq(EnvelopeType)
      /\ Len(Tail(unacknowledged)) <= BufferLimit
  BY TransportAssumption DEF Replay, Shape, TransportTypeOK
<1>2. BufferTypes'
  BY <1>1, ConsumeTyped DEF Replay, BufferTypes, Shape, TransportTypeOK
<1>3. TransportTypeOK'
  BY <1>2 DEF Replay, gateway, BufferTypes, Shape, TransportTypeOK
<1>4. Named' /\ Called'
  BY DEF Replay, gateway, Shape, Named, Called, At, Used
<1> QED BY <1>3, <1>4 DEF Shape

LEMMA AdoptedShape ==
  ASSUME Shape, Adopted PROVE Shape'
<1>1. flight' \in FlightType /\ flight'.pc = "loop"
  BY IdleAt DEF Adopted
<1>2. subscription.id # NoId => [id |-> subscription.id, state |-> "connecting"] \in StreamType
  BY DEF StreamType, Shape, TransportTypeOK, SubscriptionType
<1>3. stream.id # subscription.id => subscription.id # NoId
  BY DEF Shape, Named
<1>4. dirty' \in BOOLEAN
  BY DEF Adopted, StillDirty, Shape, TransportTypeOK, FlightType
<1>5. /\ stream' \in StreamType /\ (stream'.id = NoId <=> stream'.state = "closed")
      /\ wire' \in Seq(EnvelopeType) /\ announced' \in BOOLEAN
      /\ timer' \in {"off", "armed", "stale"}
      /\ stream'.id # NoId => stream'.id = subscription.id
      /\ stream'.state # "open" => wire' = <<>>
  <2>1. CASE stream.id = subscription.id
    BY <2>1 DEF Adopted, Shape, Named, TransportTypeOK
  <2>2. CASE stream.id # subscription.id
    <3>1. stream' = [id |-> subscription.id, state |-> "connecting"] /\ wire' = <<>>
          /\ announced' = FALSE /\ timer' = "off"
      BY <2>2 DEF Adopted
    <3> QED BY <3>1, <2>2, <1>2, <1>3, ConstantTypes
  <2> QED BY <2>1, <2>2
<1>6. TransportTypeOK'
  <2>1. calls' \in CallHistory BY CallsTyped DEF Adopted, Shape, TransportTypeOK
  <2> QED BY <2>1, <1>1, <1>4, <1>5 DEF Adopted, Shape, TransportTypeOK
<1>7. Named' /\ Called'
  BY <1>1, <1>5 DEF Adopted, Shape, Named, Called, At, Used
<1> QED BY <1>6, <1>7 DEF Shape

LEMMA SyncFailedShape ==
  ASSUME Shape, SyncFailed PROVE Shape'
<1>1. flight' \in FlightType /\ flight'.pc = "none"
  BY ConstantTypes DEF SyncFailed, Idle
<1>2. TransportTypeOK'
  BY <1>1, ConstantTypes DEF SyncFailed, ScheduleRecreate, gateway, Shape, TransportTypeOK
<1>3. Named' /\ Called'
  BY <1>1 DEF SyncFailed, gateway, Shape, Named, Called, At, Used
<1> QED BY <1>2, <1>3 DEF Shape

LEMMA RecreateShape ==
  ASSUME Shape, Recreate PROVE Shape'
<1>1. subscription.id \in Ids \cup {NoId}
  BY DEF Shape, TransportTypeOK, SubscriptionType
<1>2. TransportTypeOK'
  <2>1. calls' \in CallHistory BY CallsTyped DEF Recreate, Shape, TransportTypeOK
  <2> QED BY <2>1, <1>1, RequestSyncTyped, ConstantTypes
          DEF Recreate, ClosePhysical, GiveUp, Shape, TransportTypeOK
<1>3. Named' /\ Called'
  BY RequestSyncTyped, ConstantTypes
  DEF Recreate, Turn, ClosePhysical, GiveUp, Shape, Named, Called, At, Used
<1> QED BY <1>2, <1>3 DEF Shape

LEMMA StaleTimerShape ==
  ASSUME Shape, StaleTimer PROVE Shape'
<1>1. TransportTypeOK'
  BY DEF StaleTimer, gateway, Shape, TransportTypeOK
<1>2. Named' /\ Called'
  BY DEF StaleTimer, gateway, Shape, Named, Called, At, Used
<1> QED BY <1>1, <1>2 DEF Shape

LEMMA StreamOpensShape ==
  ASSUME Shape, StreamOpens PROVE Shape'
<1>1. stream' \in StreamType /\ stream'.state = "open" /\ stream'.id = stream.id
      /\ stream.id # NoId
  BY DEF StreamOpens, Shape, TransportTypeOK, StreamType
<1>2. server[stream.id] \in ServerType
  BY <1>1 DEF Shape, TransportTypeOK, StreamType
<1>3. Baseline(stream.id) \in EnvelopeType
  BY <1>2 DEF Baseline, EnvelopeType, ServerType, Shape, TransportTypeOK
<1>4. TransportTypeOK'
  <2>1. <<Baseline(stream.id)>> \in Seq(EnvelopeType) BY <1>3
  <2>2. calls' \in CallHistory BY CallsTyped DEF StreamOpens, Shape, TransportTypeOK
  <2> QED BY <1>1, <2>1, <2>2 DEF StreamOpens, StreamUnchanged, Shape, TransportTypeOK
<1>5. Named' /\ Called'
  BY <1>1, ConstantTypes DEF StreamOpens, StreamUnchanged, Shape, Named, Called, At, Used
<1> QED BY <1>4, <1>5 DEF Shape

LEMMA StreamErrsShape ==
  ASSUME Shape, StreamErrs, stream.state # "closed", failures' \in Nat PROVE Shape'
<1>1. stream' \in StreamType /\ stream'.state = "connecting" /\ stream'.id = stream.id
      /\ stream.id # NoId
  BY DEF StreamErrs, Shape, TransportTypeOK, StreamType
<1>4. TransportTypeOK'
  BY <1>1, ConstantTypes DEF StreamErrs, ScheduleRecreate, StreamUnchanged, Shape, TransportTypeOK
<1>5. Named' /\ Called'
  BY <1>1, ConstantTypes DEF StreamErrs, StreamUnchanged, Shape, Named, Called, At, Used
<1> QED BY <1>4, <1>5 DEF Shape

LEMMA HandleLiveEventShape ==
  ASSUME Shape, HandleLiveEvent PROVE Shape'
<1>1. Head(wire) \in EnvelopeType /\ Tail(wire) \in Seq(EnvelopeType)
  BY DEF HandleLiveEvent, Shape, TransportTypeOK
<1>2. BufferTypes'
  BY <1>1, ConsumeTyped DEF HandleLiveEvent, BufferTypes, Shape, TransportTypeOK
<1>3. TransportTypeOK'
  BY <1>1, <1>2 DEF HandleLiveEvent, StreamUnchanged, BufferTypes, Shape, TransportTypeOK
<1>4. Named' /\ Called'
  BY DEF HandleLiveEvent, StreamUnchanged, Shape, Named, Called, At, Used
<1> QED BY <1>3, <1>4 DEF Shape

LEMMA ReplyTyped ==
  ASSUME TransportTypeOK, NEW result \in {"ok", "failed"}, Reply(result)
  PROVE /\ flight' \in FlightType /\ flight'.pc = flight.pc /\ flight'.call = flight.call
        /\ flight'.selector = flight.selector /\ flight'.fresh = flight.fresh
        /\ flight'.reply = result
  BY DEF Reply, TransportTypeOK, FlightType

LEMMA ServeClaimShape ==
  ASSUME Shape, ServeClaim PROVE Shape'
<1>1. TransportTypeOK'
  BY ReplyTyped DEF ServeClaim, GatewayUnchanged, ClientWaits, Shape, TransportTypeOK
<1>2. Named' /\ Called'
  BY ReplyTyped DEF ServeClaim, GatewayUnchanged, ClientWaits, Shape, Named, Called, At, Used
<1> QED BY <1>1, <1>2 DEF Shape

LEMMA ServeDeleteShape ==
  ASSUME Shape, ServeDelete PROVE Shape'
<1>1. flight.call.id \in Ids
  BY DEF ServeDelete, Shape, Called, At
<1>2. /\ server' \in [Ids -> ServerType]
      /\ \A i \in Ids : server'[i].revision = server[i].revision
                        /\ (server[i].state # "unused" => server'[i].state # "unused")
  BY <1>1 DEF ServeDelete, ServerType, Shape, TransportTypeOK
<1>3. TransportTypeOK'
  BY <1>2, ReplyTyped DEF ServeDelete, GatewayUnchanged, ClientWaits, Shape, TransportTypeOK
<1>4. Named' /\ Called'
  BY <1>2, ReplyTyped DEF ServeDelete, GatewayUnchanged, ClientWaits, Shape, Named, Called, At, Used
<1> QED BY <1>3, <1>4 DEF Shape

\* Whatever the gateway does to a subscription it knows, it goes on knowing it.
LEMMA ServeCreateTyped ==
  ASSUME Shape, ServeCreate
  PROVE /\ server' \in [Ids -> ServerType] /\ pendingCreate' \in CreateType
        /\ pendingCreate'.id \in Ids /\ Used(pendingCreate.id)'
        /\ \A i \in Ids : server[i].state # "unused" => server'[i] = server[i]
        /\ flight' \in FlightType /\ flight'.pc = "create" /\ flight'.call = flight.call
        /\ flight'.reply = "ok"
<1>1. flight' \in FlightType /\ flight'.pc = "create" /\ flight'.call = flight.call
      /\ flight'.reply = "ok"
  BY ReplyTyped DEF ServeCreate, Shape, TransportTypeOK, At
<1>2. CASE pendingCreate.id # NoId /\ server[pendingCreate.id].state = "live"
  BY <1>1, <1>2 DEF ServeCreate, Shape, TransportTypeOK, CreateType, Named, Used
<1>3. CASE ~(pendingCreate.id # NoId /\ server[pendingCreate.id].state = "live")
  <2>1. PICK i \in Ids :
          /\ server[i].state = "unused"
          /\ pendingCreate' = [pendingCreate EXCEPT !.id = i]
          /\ server' = [server EXCEPT ![i] =
               [state |-> "live", revision |-> 1, selector |-> flight.selector]]
    BY <1>3 DEF ServeCreate
  <2>2. [state |-> "live", revision |-> 1, selector |-> flight.selector] \in ServerType
    BY DEF ServerType, Shape, TransportTypeOK, FlightType
  <2>3. server' \in [Ids -> ServerType] /\ server'[i].state = "live" /\ server'[i].revision = 1
        /\ \A j \in Ids : j # i => server'[j] = server[j]
    BY <2>1, <2>2 DEF Shape, TransportTypeOK
  <2>4. pendingCreate' \in CreateType /\ pendingCreate'.id = i
    BY <2>1 DEF Shape, TransportTypeOK, CreateType
  <2> QED BY <1>1, <2>1, <2>3, <2>4 DEF Used
<1> QED BY <1>2, <1>3

LEMMA ServeCreateShape ==
  ASSUME Shape, ServeCreate PROVE Shape'
<1>1. TransportTypeOK'
  BY ServeCreateTyped DEF ServeCreate, GatewayUnchanged, ClientWaits, Shape, TransportTypeOK
<1>2. Named' /\ Called'
  BY ServeCreateTyped DEF ServeCreate, GatewayUnchanged, ClientWaits, Shape, Named, Called, At, Used, NoId, Ids
<1> QED BY <1>1, <1>2 DEF Shape

LEMMA ServePatchTyped ==
  ASSUME Shape, ServePatch
  PROVE /\ flight' \in FlightType /\ flight'.pc = "patch" /\ flight'.call = flight.call
        /\ \/ /\ flight'.reply = "ok" /\ server' \in [Ids -> ServerType]
              /\ server[flight.call.id].state = "live"
              /\ server[flight.call.id].revision = flight.call.revision
              /\ server'[flight.call.id].state = "live"
              /\ server'[flight.call.id].revision = flight.call.revision + 1
              /\ \A i \in Ids \ {flight.call.id} : server'[i] = server[i]
           \/ /\ flight'.reply = "failed" /\ UNCHANGED <<server, wire, announced>>
              /\ \/ server[flight.call.id].state # "live"
                 \/ server[flight.call.id].revision # flight.call.revision
<1>1. flight.call.id \in Ids /\ server[flight.call.id] \in ServerType
      /\ flight.call.revision \in Nat
  BY DEF ServePatch, Shape, TransportTypeOK, Called, At, Used, FlightType, SubscriptionType
<1>2. CASE server[flight.call.id].state = "live"
           /\ server[flight.call.id].revision = flight.call.revision
  <2>1. /\ server' = [server EXCEPT ![flight.call.id].revision = flight.call.revision + 1,
                                   ![flight.call.id].selector = flight.selector]
        /\ Reply("ok")
    BY <1>2 DEF ServePatch
  <2>2. flight.selector \in SUBSET Sources BY DEF Shape, TransportTypeOK, FlightType
  <2>3. /\ server' \in [Ids -> ServerType] /\ server'[flight.call.id].state = "live"
        /\ server'[flight.call.id].revision = flight.call.revision + 1
        /\ \A i \in Ids \ {flight.call.id} : server'[i] = server[i]
    <3>1. server \in [Ids -> ServerType] BY DEF Shape, TransportTypeOK
    <3>2. server[flight.call.id] \in [state : {"unused", "live", "gone"}, revision : Nat,
                                      selector : SUBSET Sources]
      BY <1>1 DEF ServerType
    <3>3. /\ [server[flight.call.id] EXCEPT !.revision = flight.call.revision + 1,
                                            !.selector = flight.selector] \in ServerType
          /\ server' = [server EXCEPT ![flight.call.id] =
                          [server[flight.call.id] EXCEPT !.revision = flight.call.revision + 1,
                                                         !.selector = flight.selector]]
      <4>1. flight.call.revision + 1 \in Nat BY <1>1
      <4>2. [server[flight.call.id] EXCEPT !.revision = flight.call.revision + 1,
                                          !.selector = flight.selector] \in ServerType
        BY <2>2, <3>2, <4>1 DEF ServerType
      <4>3. server' = [server EXCEPT ![flight.call.id] =
                        [server[flight.call.id] EXCEPT !.revision = flight.call.revision + 1,
                                                       !.selector = flight.selector]]
        BY <2>1, <1>1, <3>1
      <4> QED BY <4>2, <4>3
    <3>4. /\ server' \in [Ids -> ServerType]
          /\ \A i \in Ids \ {flight.call.id} : server'[i] = server[i]
      BY <3>1, <3>3
    <3>5. server'[flight.call.id] = [server[flight.call.id] EXCEPT
                                      !.revision = flight.call.revision + 1,
                                      !.selector = flight.selector]
      BY <1>1, <3>1, <3>3
    <3>6. ASSUME NEW x \in ServerType, x.state = "live"
          PROVE  LET y == [x EXCEPT !.revision = flight.call.revision + 1,
                                    !.selector = flight.selector]
                 IN  y.state = "live" /\ y.revision = flight.call.revision + 1
      BY <3>6 DEF ServerType
    <3>7. /\ server'[flight.call.id].state = "live"
          /\ server'[flight.call.id].revision = flight.call.revision + 1
      BY <1>1, <1>2, <3>5, <3>6
    <3> QED BY <3>4, <3>7
  <2> QED BY <1>2, <2>1, <2>3, ReplyTyped DEF ServePatch, At, Shape
<1>3. CASE ~(server[flight.call.id].state = "live"
             /\ server[flight.call.id].revision = flight.call.revision)
  <2>1. Reply("failed") /\ UNCHANGED <<server, wire, announced>>
    BY <1>3 DEF ServePatch
  <2> QED BY <1>3, <2>1, ReplyTyped DEF ServePatch, At, Shape
<1> QED BY <1>2, <1>3

LEMMA ServePatchShape ==
  ASSUME Shape, ServePatch PROVE Shape'
<1>1. flight.call.id \in Ids /\ flight.call.revision \in Nat /\ At("patch")
  BY DEF ServePatch, Shape, Called, At, Used, TransportTypeOK, FlightType, SubscriptionType
<1>2. wire' \in Seq(EnvelopeType) /\ announced' \in BOOLEAN
      /\ (stream.state # "open" => wire' = wire)
  <2>1. [kind |-> "baseline", revision |-> flight.call.revision + 1, number |-> live]
          \in EnvelopeType
    BY <1>1 DEF EnvelopeType, Shape, TransportTypeOK
  <2>2. CASE server[flight.call.id].revision = flight.call.revision
             /\ stream.state = "open" /\ wire' # wire
    <3>1. wire' = Append(wire, [kind |-> "baseline", revision |-> flight.call.revision + 1,
                                number |-> live]) /\ announced' = FALSE
      BY <2>2 DEF ServePatch
    <3>2. wire \in Seq(EnvelopeType) BY DEF Shape, TransportTypeOK
    <3>3. PICK e \in EnvelopeType : wire' = Append(wire, e) BY <3>1, <2>1
    <3>4. wire' \in Seq(EnvelopeType) BY <3>2, <3>3
    <3>5. announced' = FALSE BY <3>1
    <3>6. stream.state = "open" BY <2>2
    <3> QED BY <3>4, <3>5, <3>6
  <2>3. CASE wire' = wire /\ announced' \in {announced, FALSE}
    BY <2>3 DEF Shape, TransportTypeOK
  <2> QED BY <2>2, <2>3 DEF ServePatch
<1>3. server' \in [Ids -> ServerType]
      /\ \A i \in Ids : Used(i) => server'[i].state # "unused" /\ server'[i].revision > 0
  <2>1. /\ server' \in [Ids -> ServerType]
        /\ \A i \in Ids :
             \/ server'[i] = server[i]
             \/ server'[i].state = "live" /\ server'[i].revision = flight.call.revision + 1
    <3>1. server \in [Ids -> ServerType] BY DEF Shape, TransportTypeOK
    <3>2. CASE UNCHANGED server BY <3>1, <3>2
    <3>3. CASE ~UNCHANGED server
      <4>1. \A i \in Ids : i = flight.call.id \/ i \in Ids \ {flight.call.id} OBVIOUS
      <4> QED BY <4>1, <3>3, ServePatchTyped
    <3> QED BY <3>2, <3>3
  <2> QED BY <2>1, <1>1 DEF Used
<1>4. TransportTypeOK'
  BY <1>2, <1>3, ServePatchTyped DEF ServePatch, GatewayUnchanged, ClientWaits, Shape, TransportTypeOK
<1>5. Named' /\ Called'
  BY <1>1, <1>2, <1>3, ServePatchTyped
  DEF ServePatch, GatewayUnchanged, ClientWaits, Shape, Named, Called, At, Used
<1> QED BY <1>4, <1>5 DEF Shape

LEMMA ServePatchAgainShape ==
  ASSUME Shape, ServePatchAgain PROVE Shape'
<1>1. shown' \in ShownType
  BY DEF ServePatchAgain, LoseOne, Shape, TransportTypeOK, ShownType
<1>2. TransportTypeOK'
  BY <1>1, ReplyTyped DEF ServePatchAgain, ClientWaits, Shape, TransportTypeOK
<1>3. Named' /\ Called'
  BY ReplyTyped
  DEF ServePatchAgain, KeyKnown, ClientWaits, Shape, Named, Called, At, Used
<1> QED BY <1>2, <1>3 DEF Shape

LEMMA CallFailsShape ==
  ASSUME Shape, CallFails PROVE Shape'
<1>1. TransportTypeOK'
  <2>1. calls' \in CallHistory
    BY DEF CallFails, CallHistory, Shape, TransportTypeOK
  <2> QED BY <2>1, ReplyTyped DEF CallFails, gateway, Shape, TransportTypeOK
<1>2. Named' /\ Called'
  BY ReplyTyped DEF CallFails, gateway, Shape, Named, Called, At, Used
<1> QED BY <1>1, <1>2 DEF Shape

LEMMA ExpireShape ==
  ASSUME Shape, NEW i \in Ids, Expire(i) PROVE Shape'
<1>1. /\ server' \in [Ids -> ServerType]
      /\ \A j \in Ids : server'[j].revision = server[j].revision
                        /\ (server[j].state # "unused" => server'[j].state # "unused")
  BY DEF Expire, ServerType, Shape, TransportTypeOK
<1>2. TransportTypeOK'
  BY <1>1 DEF Expire, client, Shape, TransportTypeOK
<1>3. Named' /\ Called'
  BY <1>1 DEF Expire, client, Shape, Named, Called, At, Used
<1> QED BY <1>2, <1>3 DEF Shape

LEMMA SendTyped ==
  ASSUME Shape, stream.state = "open", NEW kind \in {"ready", "live", "resync"},
         NEW number \in Nat, Send(kind, number)
  PROVE wire' \in Seq(EnvelopeType)
<1>1. stream.id \in Ids BY DEF Shape, TransportTypeOK, StreamType
<1>2. [kind |-> kind, revision |-> server[stream.id].revision, number |-> number]
        \in EnvelopeType
  BY <1>1 DEF Shape, TransportTypeOK, ServerType, EnvelopeType
<1> QED BY <1>2 DEF Send, Shape, TransportTypeOK

LEMMA GatewaySendsShape ==
  ASSUME Shape, Announce \/ Publish \/ Resync PROVE Shape'
<1>1. wire' \in Seq(EnvelopeType) /\ (stream.state # "open" => wire' = wire)
  BY SendTyped DEF Announce, Publish, Resync, Shape, TransportTypeOK
<1>2. TransportTypeOK'
  <2>1. live' \in Nat /\ failures' \in Nat /\ announced' \in BOOLEAN
    <3>1. live \in Nat /\ failures \in Nat /\ announced \in BOOLEAN
      BY DEF Shape, TransportTypeOK
    <3>2. CASE Announce BY <3>1, <3>2 DEF Announce
    <3>3. CASE Publish BY <3>1, <3>3 DEF Publish
    <3>4. CASE Resync BY <3>1, <3>4 DEF Resync
    <3> QED BY <3>2, <3>3, <3>4
  <2>2. UNCHANGED <<client, server, changes, calls>>
    BY DEF Announce, Publish, Resync, SendUnchanged
  <2> QED BY <1>1, <2>1, <2>2 DEF client, Shape, TransportTypeOK
<1>3. Named' /\ Called'
  BY <1>1 DEF Announce, Publish, Resync, SendUnchanged, client, Shape, Named, Called, At, Used
<1> QED BY <1>2, <1>3 DEF Shape

LEMMA TransportStepShape == Shape /\ [TransportNext]_transportVars => Shape'
<1> SUFFICES ASSUME Shape, [TransportNext]_transportVars PROVE Shape' OBVIOUS
<1>1. ASSUME NEW s \in Sources, OpenLiveSource(s) \/ CloseSource(s) PROVE Shape'
  <2>1. sources \cup {s} \in SUBSET Sources /\ sources \ {s} \in SUBSET Sources
    BY <1>1 DEF Shape, TransportTypeOK
  <2> QED BY <1>1, <2>1, ChangeShape DEF OpenLiveSource, CloseSource
<1>2. ASSUME Synchronize PROVE Shape'
  BY <1>2, LoopEmptyShape, LoopShape, DeletedLastShape, ObserverClaimedShape, DeletedStaleShape,
     AcknowledgedShape, ReplayShape, AdoptedShape, SyncFailedShape DEF Synchronize
<1>3. ASSUME Timer PROVE Shape'
  BY <1>3, RecreateShape, StaleTimerShape DEF Timer
<1>4. ASSUME Physical PROVE Shape'
  BY <1>4, StreamOpensShape, StreamErrsShape, HandleLiveEventShape
  DEF Physical, StreamRefused, Shape, TransportTypeOK
<1>5. ASSUME StreamBreaks PROVE Shape'
  BY <1>5, StreamErrsShape DEF StreamBreaks, Shape, TransportTypeOK
<1>6. ASSUME Serve PROVE Shape'
  BY <1>6, ServeClaimShape, ServeDeleteShape, ServeCreateShape, ServePatchShape,
     ServePatchAgainShape DEF Serve
<1>7. CASE UNCHANGED transportVars
  <2>1. TransportTypeOK'
    BY <1>7 DEF transportVars, client, gateway, Shape, TransportTypeOK
  <2>2. Named' /\ Called'
    BY <1>7 DEF transportVars, client, gateway, Shape, Named, Called, At, Used
  <2> QED BY <2>1, <2>2 DEF Shape
<1> QED
  BY <1>1, <1>2, <1>3, <1>4, <1>5, <1>6, <1>7, CallFailsShape, ExpireShape, GatewaySendsShape
  DEF TransportNext

\* Every variable of the transport keeps its type and neither buffer exceeds its
\* limit, for any sources, identifiers, changes and faults (liveTransport.ts, module
\* state).
THEOREM TransportTypes == TransportSpec => []TransportTypeOK
<1>1. Shape => TransportTypeOK BY DEF Shape
<1> QED BY <1>1, TransportInitShape, TransportStepShape, PTL DEF TransportSpec

-----------------------------------------------------------------------------
(***************************************************************************)
(* What the client knows of the gateway while its calls are answered: the  *)
(* revision it counts on is the one served, and every subscription still   *)
(* served is its own, given up and to be deleted, or the one being created. *)
(***************************************************************************)
InService(i) == i # NoId /\ server[i].state = "live"

\* While every call is answered: what the client knows of the gateway.
Known ==
  /\ flight.reply = "failed" => At("patch") /\ ~InService(flight.call.id)
  /\ subscription # NoSubscription /\ ~(At("patch") /\ flight.reply = "ok") =>
       server[subscription.id].revision = subscription.revision
  /\ At("patch") =>
       /\ flight.reply = "sent" => server[flight.call.id].revision = flight.call.revision
       /\ subscription = NoSubscription =>
            timer # "armed" /\ (pendingDelete = flight.call.id \/ ~InService(pendingDelete))
  /\ At("delete_last") =>
       /\ timer # "armed" /\ flight.call = subscription
       /\ flight.reply = "ok" => ~InService(subscription.id)
  /\ At("delete_stale") =>
       /\ subscription = NoSubscription
       /\ pendingDelete = flight.call.id \/ ~InService(pendingDelete)
       /\ flight.reply = "ok" => ~InService(flight.call.id)
  /\ At("create") => ~InService(pendingDelete)
  /\ pendingCreate.id # NoId => At("create") /\ flight.reply = "ok"
  /\ subscription # NoSubscription => pendingDelete = subscription.id \/ ~InService(pendingDelete)
  /\ subscription = NoSubscription /\ timer = "armed" => ~InService(pendingDelete)

AllOwned == \A i \in Ids : InService(i) => i \in {subscription.id, pendingDelete, pendingCreate.id}

Owned == calls = "answered" => Known /\ AllOwned

LEMMA TransportInitOwned == TransportInit => Owned
  BY
  DEF TransportInit, Owned, Known, AllOwned, At, InService, Idle, NoStream, NoSubscription,
      NoCreate, NoId

LEMMA ChangeOwned ==
  ASSUME Shape, Owned, NEW c \in SUBSET Sources, Change(c) PROVE Owned'
<1>1. RequestSync /\ Turn BY DEF Change
<1> QED BY <1>1, RequestSyncTyped
  DEF Change, gateway, Shape, Owned, Known, AllOwned, At, InService, Turn, RequestSync, Idle

LEMMA LoopEmptyOwned ==
  ASSUME Shape, Owned, LoopEmpty PROVE Owned'
<1>1. /\ flight'.pc = "delete_last" /\ flight'.call = subscription
      /\ flight'.reply \in {"ok", "sent"} /\ (flight'.reply = "ok" <=> subscription = NoSubscription)
  BY ConstantTypes DEF LoopEmpty, FlightType, Shape, TransportTypeOK
<1>2. NoSubscription.id = NoId BY ConstantTypes
<1> QED BY <1>1, <1>2
  DEF LoopEmpty, Outdated, Owned, Known, AllOwned, At, InService, Shape, Named, TransportTypeOK

LEMMA LoopOwned ==
  ASSUME Shape, Owned, LoopBegin \/ LoopEnd PROVE Owned'
<1>1. flight'.pc \in {"claim", "none"} /\ flight'.reply = "sent"
  BY ConstantTypes DEF LoopBegin, LoopEnd, FlightType, Shape, TransportTypeOK, Idle
<1> QED BY <1>1 DEF LoopBegin, LoopEnd, gateway, Owned, Known, AllOwned, At, InService

LEMMA DeletedLastOwned ==
  ASSUME Shape, Owned, DeletedLast PROVE Owned'
<1>1. flight'.pc = "loop" /\ flight'.reply = "sent"
  BY DEF DeletedLast, Idle
<1>2. NoSubscription.id = NoId BY ConstantTypes
<1>3. flight.reply \in {"ok", "failed"} BY DEF DeletedLast, Shape, TransportTypeOK, FlightType
<1> QED BY <1>1, <1>2, <1>3 DEF DeletedLast, gateway, Owned, Known, AllOwned, At, InService

LEMMA MutateOwned ==
  ASSUME Shape, Mutate, calls = "answered", Known, flight.pc \in {"claim", "delete_stale"}
  PROVE /\ flight'.pc = IF subscription = NoSubscription THEN "create" ELSE "patch"
        /\ flight'.call = subscription /\ flight'.reply = "sent"
        /\ pendingCreate.id = NoId /\ pendingCreate'.id = NoId
<1>1. pendingCreate.id = NoId BY DEF Known, At
<1> QED BY <1>1, MutateTyped

LEMMA ObserverClaimedOwned ==
  ASSUME Shape, Owned, ObserverClaimed PROVE Owned'
<1> SUFFICES ASSUME calls = "answered" PROVE Known' /\ AllOwned'
  BY DEF Owned, ObserverClaimed
<1>1. Known /\ AllOwned BY DEF Owned
<1>2. CASE subscription = NoSubscription /\ pendingDelete # NoId
  <2>1. /\ flight'.pc = "delete_stale" /\ flight'.call.id = pendingDelete /\ flight'.reply = "sent"
        /\ UNCHANGED pendingCreate
    <3>1. PICK c :
            /\ c.id = pendingDelete
            /\ flight' = [flight EXCEPT !.pc = "delete_stale", !.reply = "sent", !.call = c]
      BY <1>2 DEF ObserverClaimed
    <3> QED BY <3>1, <1>2 DEF ObserverClaimed, Shape, TransportTypeOK, FlightType
  <2> QED BY <1>1, <1>2, <2>1 DEF ObserverClaimed, gateway, Known, AllOwned, At, InService
<1>3. CASE ~(subscription = NoSubscription /\ pendingDelete # NoId)
  <2>1. Mutate BY <1>3 DEF ObserverClaimed
  <2> QED BY <1>1, <1>3, <2>1, MutateOwned
    DEF ObserverClaimed, gateway, Known, AllOwned, At, InService
<1> QED BY <1>2, <1>3

LEMMA DeletedStaleOwned ==
  ASSUME Shape, Owned, DeletedStale PROVE Owned'
<1> SUFFICES ASSUME calls = "answered" PROVE Known' /\ AllOwned'
  BY DEF Owned, DeletedStale
<1>1. Known /\ AllOwned BY DEF Owned
<1>2. Mutate BY DEF DeletedStale
<1> QED BY <1>1, <1>2, MutateOwned DEF DeletedStale, gateway, Known, AllOwned, At, InService

LEMMA AcknowledgedOwned ==
  ASSUME Shape, Owned, Acknowledged PROVE Owned'
<1> SUFFICES ASSUME calls = "answered" PROVE Known' /\ AllOwned'
  BY DEF Owned, Acknowledged
<1>1. Known /\ AllOwned BY DEF Owned
<1>2. At("create") \/ At("patch") BY DEF Acknowledged, Mutating, At
<1>3. flight'.reply = "ok" BY DEF Acknowledged, Shape, TransportTypeOK, FlightType
<1>4. pendingCreate'.id = NoId BY DEF Acknowledged, NoCreate
<1> QED BY <1>1, <1>2, <1>3, <1>4, AcknowledgedTyped, ConstantTypes
    DEF Acknowledged, gateway, Known, AllOwned, At, InService, Shape, Called

LEMMA ReplayOwned ==
  ASSUME Shape, Owned, Replay PROVE Owned'
<1>1. At("replay") /\ UNCHANGED <<flight, subscription, pendingDelete, pendingCreate, server, calls>>
  BY DEF Replay, gateway
<1>2. subscription # NoSubscription
  BY <1>1 DEF Shape, Called
<1> QED BY <1>1, <1>2 DEF Owned, Known, AllOwned, At, InService

LEMMA AdoptedOwned ==
  ASSUME Shape, Owned, Adopted PROVE Owned'
<1>1. flight'.pc = "loop" /\ flight'.reply = "sent"
  BY DEF Adopted, Idle
<1>2. timer' \in {timer, "off"} BY DEF Adopted
<1>3. calls' = "answered" => calls = "answered" BY DEF Adopted, Repaired
<1> QED BY <1>1, <1>2, <1>3 DEF Adopted, Owned, Known, AllOwned, At, InService

LEMMA SyncFailedOwned ==
  ASSUME Shape, Owned, SyncFailed PROVE Owned'
<1>1. flight'.pc = "none" /\ flight'.reply = "sent"
  BY DEF SyncFailed, Idle
<1>2. calls = "answered" => At("patch") /\ ~InService(flight.call.id)
  BY DEF SyncFailed, Owned, Known
<1> QED BY <1>1, <1>2 DEF SyncFailed, gateway, Owned, Known, AllOwned, At, InService, Shape, Called

LEMMA RecreateOwned ==
  ASSUME Shape, Owned, Recreate PROVE Owned'
<1> SUFFICES ASSUME calls = "answered" PROVE Known' /\ AllOwned'
  BY DEF Owned, Recreate, Repaired
<1>1. Known /\ AllOwned BY DEF Owned
<1>2. RequestSync /\ Turn BY DEF Recreate
<1>3. pendingDelete' = subscription.id BY DEF Recreate, GiveUp
<1>4. NoSubscription.id = NoId BY ConstantTypes
<1>5. At("none") => flight'.reply = "sent" BY <1>2 DEF RequestSync, Idle
<1> QED BY <1>1, <1>2, <1>3, <1>4, <1>5, RequestSyncTyped
    DEF Recreate, Turn, Known, AllOwned, At, InService, Shape, Called, Named

LEMMA StaleTimerOwned ==
  ASSUME Shape, Owned, StaleTimer PROVE Owned'
  BY DEF StaleTimer, gateway, Owned, Known, AllOwned, At, InService

LEMMA StreamOwned ==
  ASSUME Shape, Owned, StreamUnchanged, UNCHANGED server,
         calls' = "answered" => calls = "answered",
         stream # NoStream \/ timer' \in {timer, "off"}
  PROVE Owned'
<1>1. stream # NoStream => subscription # NoSubscription
  BY ConstantTypes DEF Shape, Named, TransportTypeOK, StreamType, NoStream
<1>2. At("delete_last") => stream = NoStream BY DEF Shape, Called
<1> QED BY <1>1, <1>2 DEF StreamUnchanged, Owned, Known, AllOwned, At, InService

LEMMA PhysicalOwned ==
  ASSUME Shape, Owned, Physical \/ StreamBreaks PROVE Owned'
<1>1. NoStream.state = "closed" BY ConstantTypes
<1>2. StreamUnchanged /\ UNCHANGED server /\ (stream # NoStream \/ timer' \in {timer, "off"})
  BY <1>1 DEF Physical, StreamOpens, StreamRefused, StreamErrs, StreamBreaks, HandleLiveEvent
<1>3. calls' = "answered" => calls = "answered"
  BY DEF Physical, StreamOpens, StreamRefused, StreamErrs, StreamBreaks, HandleLiveEvent,
         Overlooked
<1> QED BY <1>2, <1>3, StreamOwned

LEMMA ServeClaimOwned ==
  ASSUME Shape, Owned, ServeClaim PROVE Owned'
<1>1. flight'.pc = "claim" /\ flight'.reply = "ok"
  BY ReplyTyped DEF ServeClaim, Shape, At
<1> QED BY <1>1 DEF ServeClaim, GatewayUnchanged, ClientWaits, Owned, Known, AllOwned, At, InService

LEMMA ServeDeleteOwned ==
  ASSUME Shape, Owned, ServeDelete PROVE Owned'
<1>1. flight'.pc = flight.pc /\ flight'.call = flight.call /\ flight'.reply = "ok"
  BY ReplyTyped DEF ServeDelete, Shape
<1>2. flight.call.id \in Ids /\ server \in [Ids -> ServerType]
  BY DEF ServeDelete, Shape, Called, At, TransportTypeOK
<1>3. /\ server'[flight.call.id].state = "gone"
      /\ \A i \in Ids : server'[i].revision = server[i].revision /\ (InService(i)' => InService(i))
  BY <1>2 DEF ServeDelete, InService, ServerType
<1>4. pendingDelete \in Ids \cup {NoId} /\ subscription.id \in Ids \cup {NoId}
      /\ pendingDelete' = pendingDelete /\ subscription' = subscription
  BY DEF Shape, TransportTypeOK, SubscriptionType, ServeDelete, GatewayUnchanged, ClientWaits
<1>5. subscription # NoSubscription => subscription.id \in Ids
  BY <1>4 DEF Shape, Named
<1>6. InService(pendingDelete)' => InService(pendingDelete) BY <1>3, <1>4 DEF InService
<1>7. ~InService(flight.call.id)' BY <1>1, <1>2, <1>3 DEF InService
<1> QED BY <1>1, <1>2, <1>3, <1>4, <1>5, <1>6, <1>7
    DEF ServeDelete, GatewayUnchanged, ClientWaits, Owned, Known, AllOwned, At

LEMMA ServeCreateOwned ==
  ASSUME Shape, Owned, ServeCreate PROVE Owned'
<1> SUFFICES ASSUME calls = "answered" PROVE Known' /\ AllOwned'
  BY DEF Owned, ServeCreate, GatewayUnchanged, ClientWaits
<1>1. Known /\ AllOwned BY DEF Owned
<1>2. At("create") BY DEF ServeCreate
<1>3. pendingCreate.id = NoId BY <1>1, <1>2 DEF Known, ServeCreate
<1>4. PICK i \in Ids :
        /\ server[i].state = "unused" /\ pendingCreate'.id = i
        /\ \A j \in Ids \ {i} : server'[j] = server[j]
  BY <1>3 DEF ServeCreate, Shape, TransportTypeOK, CreateType
<1>5. InService(pendingDelete)' => InService(pendingDelete) \/ pendingDelete = i
  BY <1>4 DEF InService, ServeCreate, GatewayUnchanged, ClientWaits, Shape, TransportTypeOK
<1>6. pendingDelete # i BY <1>4 DEF Shape, Named, Used, NoId, Ids
<1>7. subscription = NoSubscription BY <1>2 DEF Shape, Called
<1>8. \A j \in Ids : InService(j)' => InService(j) \/ j = i
  BY <1>4 DEF InService
<1>9. flight'.pc = "create" /\ flight'.reply = "ok" /\ UNCHANGED <<subscription, pendingDelete, timer>>
  BY ServeCreateTyped DEF ServeCreate, GatewayUnchanged, ClientWaits
<1> QED BY <1>1, <1>2, <1>3, <1>4, <1>5, <1>6, <1>7, <1>8, <1>9 DEF Known, AllOwned, At, NoId, Ids

LEMMA ServePatchOwned ==
  ASSUME Shape, Owned, ServePatch PROVE Owned'
<1> SUFFICES ASSUME calls = "answered" PROVE Known' /\ AllOwned'
  BY DEF Owned, ServePatch, GatewayUnchanged, ClientWaits
<1>1. Known /\ AllOwned BY DEF Owned
<1>2. At("patch") /\ flight.reply = "sent" BY DEF ServePatch
<1>3. flight'.pc = "patch" /\ flight'.call = flight.call
  BY ServePatchTyped
<1>4. UNCHANGED <<subscription, pendingDelete, timer, pendingCreate>>
  BY DEF ServePatch, GatewayUnchanged, ClientWaits
<1>5. pendingDelete \in Ids \cup {NoId} /\ NoId \notin Ids
  BY DEF Shape, TransportTypeOK, NoId, Ids
<1>6. CASE flight'.reply = "failed"
  <2>1. UNCHANGED server /\ ~InService(flight.call.id)
    BY <1>1, <1>2, <1>6, ServePatchTyped DEF Known, InService
  <2> QED BY <1>1, <1>2, <1>3, <1>4, <1>6, <2>1 DEF Known, AllOwned, At, InService
<1>7. CASE flight'.reply = "ok"
  <2>1. \A i \in Ids : InService(i)' => InService(i)
    BY <1>7, ServePatchTyped DEF InService
  <2>2. InService(pendingDelete)' => InService(pendingDelete)
    BY <2>1, <1>4, <1>5 DEF InService
  <2>3. subscription # NoSubscription => subscription = flight.call
    BY <1>2 DEF Shape, Called
  <2> QED BY <1>1, <1>2, <1>3, <1>4, <1>7, <2>1, <2>2, <2>3 DEF Known, AllOwned, At
<1> QED BY <1>6, <1>7, ServePatchTyped

\* A key is known again only if an answer was lost.
LEMMA ServePatchAgainOwned ==
  ASSUME Shape, Owned, ServePatchAgain PROVE Owned'
<1>1. calls # "answered"
  BY DEF Owned, Known, ServePatchAgain, KeyKnown, At, Shape, Called, Used, TransportTypeOK,
         FlightType, SubscriptionType
<1> QED BY <1>1 DEF Owned, ServePatchAgain, ClientWaits

LEMMA CallFailsOwned == CallFails => Owned'
  BY DEF CallFails, Owned

LEMMA ExpireOwned ==
  ASSUME Shape, Owned, NEW i \in Ids, Expire(i) PROVE Owned'
<1>1. \A j \in Ids : server'[j].revision = server[j].revision /\ (InService(j)' => InService(j))
  BY DEF Expire, InService, ServerType, Shape, TransportTypeOK
<1>2. \A j \in Ids \cup {NoId} : InService(j)' => InService(j) BY <1>1 DEF InService
<1>3. /\ pendingDelete \in Ids \cup {NoId} /\ subscription.id \in Ids \cup {NoId}
      /\ flight.call.id \in Ids \cup {NoId}
      /\ subscription # NoSubscription => subscription.id \in Ids
      /\ At("patch") => flight.call.id \in Ids
  BY DEF Shape, TransportTypeOK, SubscriptionType, FlightType, Named, Called, Used
<1>4. UNCHANGED <<client, calls>> BY DEF Expire
<1>5. InService(pendingDelete)' => InService(pendingDelete) BY <1>2, <1>3, <1>4 DEF client
<1>6. InService(flight.call.id)' => InService(flight.call.id) BY <1>2, <1>3, <1>4 DEF client
<1>7. InService(subscription.id)' => InService(subscription.id) BY <1>2, <1>3, <1>4 DEF client
<1> QED BY <1>1, <1>3, <1>4, <1>5, <1>6, <1>7 DEF client, Owned, Known, AllOwned, At

LEMMA GatewaySendsOwned ==
  ASSUME Owned, Announce \/ Publish \/ Resync PROVE Owned'
<1>1. UNCHANGED <<client, server, calls>>
  BY DEF Announce, Publish, Resync, SendUnchanged
<1> QED BY <1>1 DEF client, Owned, Known, AllOwned, At, InService

LEMMA StepOwned == Shape /\ Owned /\ [TransportNext]_transportVars => Owned'
<1> SUFFICES ASSUME Shape, Owned, [TransportNext]_transportVars PROVE Owned' OBVIOUS
<1>1. ASSUME NEW s \in Sources, OpenLiveSource(s) \/ CloseSource(s) PROVE Owned'
  <2>1. sources \cup {s} \in SUBSET Sources /\ sources \ {s} \in SUBSET Sources
    BY <1>1 DEF Shape, TransportTypeOK
  <2> QED BY <1>1, <2>1, ChangeOwned DEF OpenLiveSource, CloseSource
<1>2. ASSUME Synchronize PROVE Owned'
  BY <1>2, LoopEmptyOwned, LoopOwned, DeletedLastOwned, ObserverClaimedOwned, DeletedStaleOwned,
     AcknowledgedOwned, ReplayOwned, AdoptedOwned, SyncFailedOwned DEF Synchronize
<1>3. ASSUME Timer PROVE Owned'
  BY <1>3, RecreateOwned, StaleTimerOwned DEF Timer
<1>4. ASSUME Serve PROVE Owned'
  BY <1>4, ServeClaimOwned, ServeDeleteOwned, ServeCreateOwned, ServePatchOwned,
     ServePatchAgainOwned DEF Serve
<1>5. CASE UNCHANGED transportVars
  BY <1>5 DEF transportVars, client, gateway, Owned, Known, AllOwned, At, InService
<1> QED
  BY <1>1, <1>2, <1>3, <1>4, <1>5, PhysicalOwned, CallFailsOwned, ExpireOwned, GatewaySendsOwned
  DEF TransportNext

\* As long as calls are answered the gateway keeps no subscription the client does
\* not still own, give up or create, for any number of sources, expiries, broken
\* streams and rebuilds (synchronize, scheduleRecreate, liveCreateRequest).
THEOREM GatewayIsCleanedUp == TransportSpec => []NoneLeftBehind
<1>1. Shape /\ Owned => NoneLeftBehind
  BY DEF Owned, AllOwned, InService, NoneLeftBehind, Ids, NoId
<1> QED
  BY <1>1, TransportInitShape, TransportInitOwned, TransportStepShape, StepOwned, PTL
  DEF TransportSpec

-----------------------------------------------------------------------------
(***************************************************************************)
(* Envelopes in sequence: what is chained has no hole, what reaches a number *)
(* ends with it; both survive an append, a concatenation and a tail.       *)
(***************************************************************************)
\* A live envelope of revision r comes after the one, or the snapshot, before it.
Counts(e, r) == e.kind \in {"live", "baseline"} /\ e.revision = r
Chained(s, n, r) ==
  \A i \in DOMAIN s : s[i].kind = "live" /\ s[i].revision = r =>
    \/ s[i].number <= n + 1
    \/ \E j \in 1 .. i - 1 : Counts(s[j], r) /\ s[i].number <= s[j].number + 1
Reaches(s, n, r, m) ==
  m <= n \/ \E j \in DOMAIN s : Counts(s[j], r) /\ m <= s[j].number

LEMMA EnvelopeNumber ==
  ASSUME NEW s \in Seq(EnvelopeType), NEW i \in DOMAIN s
  PROVE s[i] \in EnvelopeType /\ s[i].number \in Nat /\ s[i].revision \in Nat
<1>1. s[i] \in EnvelopeType OBVIOUS
<1> QED BY <1>1 DEF EnvelopeType

LEMMA ConcatAt ==
  ASSUME NEW P \in Seq(EnvelopeType), NEW Q \in Seq(EnvelopeType)
  PROVE /\ P \o Q \in Seq(EnvelopeType) /\ Len(P \o Q) = Len(P) + Len(Q)
        /\ \A i \in 1 .. Len(P) : (P \o Q)[i] = P[i]
        /\ \A i \in 1 .. Len(Q) : (P \o Q)[Len(P) + i] = Q[i]
        /\ DOMAIN (P \o Q) = 1 .. Len(P) + Len(Q)
  OBVIOUS

LEMMA TailAt ==
  ASSUME NEW Q \in Seq(EnvelopeType), Q # <<>>
  PROVE /\ Tail(Q) \in Seq(EnvelopeType) /\ Len(Tail(Q)) = Len(Q) - 1 /\ Len(Q) > 0
        /\ \A i \in 1 .. Len(Q) - 1 : Tail(Q)[i] = Q[i + 1]
        /\ Head(Q) = Q[1] /\ Head(Q) \in EnvelopeType
  OBVIOUS

LEMMA AppendAt ==
  ASSUME NEW P \in Seq(EnvelopeType), NEW e \in EnvelopeType
  PROVE /\ Append(P, e) \in Seq(EnvelopeType) /\ Len(Append(P, e)) = Len(P) + 1
        /\ \A i \in 1 .. Len(P) : Append(P, e)[i] = P[i]
        /\ Append(P, e)[Len(P) + 1] = e
        /\ DOMAIN Append(P, e) = 1 .. Len(P) + 1
  OBVIOUS

LEMMA SameEnvelopes ==
  ASSUME NEW s \in Seq(EnvelopeType), NEW t \in Seq(EnvelopeType), Len(s) = Len(t),
         \A i \in 1 .. Len(s) : s[i] = t[i]
  PROVE s = t
  OBVIOUS

LEMMA Moved ==
  ASSUME NEW P \in Seq(EnvelopeType), NEW Q \in Seq(EnvelopeType), Q # <<>>
  PROVE Append(P, Head(Q)) \o Tail(Q) = P \o Q
<1> DEFINE L == Append(P, Head(Q))
           s == L \o Tail(Q)
           t == P \o Q
<1>1. L \in Seq(EnvelopeType) /\ Len(L) = Len(P) + 1 /\ Tail(Q) \in Seq(EnvelopeType)
  BY TailAt, AppendAt
<1>2. s \in Seq(EnvelopeType) /\ t \in Seq(EnvelopeType) /\ Len(s) = Len(t)
  BY <1>1, ConcatAt, TailAt
<1>3. ASSUME NEW i \in 1 .. Len(s) PROVE s[i] = t[i]
  <2>1. CASE i <= Len(P)
    <3>1. s[i] = L[i] BY <1>1, <2>1, ConcatAt
    <3>2. L[i] = P[i] BY <2>1, AppendAt, TailAt
    <3>3. t[i] = P[i] BY <2>1, ConcatAt
    <3> QED BY <3>1, <3>2, <3>3
  <2>2. CASE i = Len(P) + 1
    <3>1. s[i] = L[i] BY <1>1, <2>2, ConcatAt
    <3>2. L[i] = Q[1] BY <2>2, AppendAt, TailAt
    <3>3. t[i] = Q[1] BY <2>2, ConcatAt, TailAt
    <3> QED BY <3>1, <3>2, <3>3
  <2>3. CASE i > Len(P) + 1
    <3> DEFINE k == i - (Len(P) + 1)
    <3>1. k \in 1 .. Len(Tail(Q)) /\ i = Len(L) + k /\ i = Len(P) + (k + 1)
          /\ k + 1 \in 1 .. Len(Q) /\ k \in 1 .. Len(Q) - 1
      BY <1>1, <1>2, <2>3, ConcatAt, TailAt
    <3>2. s[i] = Tail(Q)[k] BY <1>1, <3>1, ConcatAt
    <3>3. Tail(Q)[k] = Q[k + 1] BY <3>1, TailAt
    <3>4. t[i] = Q[k + 1] BY <3>1, ConcatAt
    <3> QED BY <3>2, <3>3, <3>4
  <2> QED BY <2>1, <2>2, <2>3, <1>1
<1> QED BY <1>2, <1>3, SameEnvelopes

LEMMA Assoc ==
  ASSUME NEW P \in Seq(EnvelopeType), NEW Q \in Seq(EnvelopeType), NEW e \in EnvelopeType
  PROVE P \o Append(Q, e) = Append(P \o Q, e)
<1> DEFINE s == P \o Append(Q, e)
           t == Append(P \o Q, e)
<1>1. s \in Seq(EnvelopeType) /\ t \in Seq(EnvelopeType) /\ Len(s) = Len(t)
  BY ConcatAt, AppendAt
<1>2. ASSUME NEW i \in 1 .. Len(s) PROVE s[i] = t[i]
  <2>1. CASE i <= Len(P)
    BY <2>1, ConcatAt, AppendAt
  <2>2. CASE i > Len(P) /\ i <= Len(P) + Len(Q)
    <3>1. i - Len(P) \in 1 .. Len(Q) /\ i = Len(P) + (i - Len(P)) BY <2>2
    <3>2. s[i] = Append(Q, e)[i - Len(P)] BY <3>1, ConcatAt, AppendAt
    <3>3. t[i] = (P \o Q)[i] BY <2>2, ConcatAt, AppendAt
    <3> QED BY <3>1, <3>2, <3>3, ConcatAt, AppendAt
  <2>3. CASE i = Len(P) + Len(Q) + 1
    <3>1. s[i] = Append(Q, e)[Len(Q) + 1] BY <2>3, ConcatAt, AppendAt
    <3> QED BY <2>3, <3>1, ConcatAt, AppendAt
  <2> QED BY <2>1, <2>2, <2>3, <1>1, ConcatAt, AppendAt
<1> QED BY <1>1, <1>2, SameEnvelopes

LEMMA EmptyConcat ==
  ASSUME NEW P \in Seq(EnvelopeType)
  PROVE <<>> \o P = P /\ P \o <<>> = P
  OBVIOUS

LEMMA ConcatHead ==
  ASSUME NEW P \in Seq(EnvelopeType), NEW Q \in Seq(EnvelopeType), P # <<>>
  PROVE P \o Q # <<>> /\ Head(P \o Q) = Head(P) /\ Tail(P \o Q) = Tail(P) \o Q
<1>1. P \o Q \in Seq(EnvelopeType) /\ Len(P) > 0 /\ Len(P \o Q) = Len(P) + Len(Q)
      /\ (P \o Q)[1] = P[1]
  BY ConcatAt, TailAt
<1>2. P \o Q # <<>> BY <1>1
<1> DEFINE s == Tail(P \o Q)
           t == Tail(P) \o Q
<1>3. s \in Seq(EnvelopeType) /\ t \in Seq(EnvelopeType) /\ Len(s) = Len(t)
      /\ Len(s) = Len(P) + Len(Q) - 1 /\ Len(Tail(P)) = Len(P) - 1
  BY <1>1, <1>2, TailAt, ConcatAt
<1>4. ASSUME NEW i \in 1 .. Len(s) PROVE s[i] = t[i]
  <2>1. s[i] = (P \o Q)[i + 1] BY <1>1, <1>2, <1>3, TailAt
  <2>2. CASE i + 1 <= Len(P)
    <3>1. (P \o Q)[i + 1] = P[i + 1] BY <2>2, ConcatAt
    <3>2. t[i] = Tail(P)[i] BY <2>2, <1>3, ConcatAt, TailAt
    <3>3. Tail(P)[i] = P[i + 1] BY <2>2, TailAt
    <3> QED BY <2>1, <3>1, <3>2, <3>3
  <2>3. CASE i + 1 > Len(P)
    <3> DEFINE k == i + 1 - Len(P)
    <3>1. k \in 1 .. Len(Q) /\ i + 1 = Len(P) + k /\ i = Len(Tail(P)) + k
      BY <1>3, <2>3, TailAt
    <3>2. (P \o Q)[i + 1] = Q[k] BY <3>1, ConcatAt
    <3>3. Tail(P) \in Seq(EnvelopeType) BY TailAt
    <3>4. t[i] = Q[k] BY <3>1, <3>3, ConcatAt
    <3> QED BY <2>1, <3>2, <3>4
  <2> QED BY <2>2, <2>3, <1>3
<1> QED BY <1>1, <1>2, <1>3, <1>4, SameEnvelopes, TailAt

-----------------------------------------------------------------------------
\* Consumers have seen more: what follows follows all the more.
LEMMA ChainedFrom ==
  ASSUME NEW s \in Seq(EnvelopeType), NEW n \in Nat, NEW m \in Nat, n <= m, NEW r
  PROVE /\ Chained(s, n, r) => Chained(s, m, r)
        /\ \A l \in Nat : Reaches(s, n, r, l) => Reaches(s, m, r, l)
<1>1. \A i \in DOMAIN s : s[i].number <= n + 1 => s[i].number <= m + 1
  BY EnvelopeNumber
<1>2. Chained(s, n, r) => Chained(s, m, r) BY <1>1 DEF Chained
<1>3. \A l \in Nat : l <= n => l <= m OBVIOUS
<1> QED BY <1>2, <1>3 DEF Reaches

\* The first ones are chained among themselves.
LEMMA PrefixChained ==
  ASSUME NEW P \in Seq(EnvelopeType), NEW Q \in Seq(EnvelopeType), NEW n \in Nat, NEW r,
         Chained(P \o Q, n, r)
  PROVE Chained(P, n, r)
<1> SUFFICES ASSUME NEW i \in DOMAIN P, P[i].kind = "live", P[i].revision = r,
                    ~(P[i].number <= n + 1)
             PROVE \E j \in 1 .. i - 1 : Counts(P[j], r) /\ P[i].number <= P[j].number + 1
  BY DEF Chained
<1>1. i \in DOMAIN (P \o Q) /\ (P \o Q)[i] = P[i] /\ \A j \in 1 .. i - 1 : (P \o Q)[j] = P[j]
  BY ConcatAt
<1>2. PICK j \in 1 .. i - 1 :
        Counts((P \o Q)[j], r) /\ (P \o Q)[i].number <= (P \o Q)[j].number + 1
  BY <1>1 DEF Chained
<1> QED BY <1>1, <1>2

\* Once consumers saw what comes first, the rest follows what they saw.
LEMMA Flushed ==
  ASSUME NEW P \in Seq(EnvelopeType), NEW Q \in Seq(EnvelopeType),
         NEW n \in Nat, NEW m \in Nat, n <= m, NEW r,
         \A i \in DOMAIN P : Counts(P[i], r) => P[i].number <= m
  PROVE /\ Chained(P \o Q, n, r) => Chained(Q, m, r)
        /\ \A l \in Nat : Reaches(P \o Q, n, r, l) => Reaches(Q, m, r, l)
<1>1. /\ \A i \in 1 .. Len(P) : (P \o Q)[i] = P[i] /\ P[i].number \in Nat
      /\ \A i \in 1 .. Len(Q) : (P \o Q)[Len(P) + i] = Q[i] /\ Q[i].number \in Nat
      /\ DOMAIN (P \o Q) = 1 .. Len(P) + Len(Q)
      /\ Len(P) \in Nat /\ Len(Q) \in Nat /\ DOMAIN P = 1 .. Len(P) /\ DOMAIN Q = 1 .. Len(Q)
  BY ConcatAt, EnvelopeNumber
<1>2. ASSUME Chained(P \o Q, n, r), NEW i \in 1 .. Len(Q), Q[i].kind = "live",
             Q[i].revision = r, ~(Q[i].number <= m + 1)
      PROVE \E j \in 1 .. i - 1 : Counts(Q[j], r) /\ Q[i].number <= Q[j].number + 1
  <2>1. Len(P) + i \in DOMAIN (P \o Q) /\ (P \o Q)[Len(P) + i] = Q[i] /\ ~(Q[i].number <= n + 1)
    BY <1>1, <1>2
  <2>2. PICK k \in 1 .. Len(P) + i - 1 :
          Counts((P \o Q)[k], r) /\ Q[i].number <= (P \o Q)[k].number + 1
    <3>1. \A x \in DOMAIN (P \o Q) : (P \o Q)[x].kind = "live" /\ (P \o Q)[x].revision = r =>
            \/ (P \o Q)[x].number <= n + 1
            \/ \E j \in 1 .. x - 1 :
                 Counts((P \o Q)[j], r) /\ (P \o Q)[x].number <= (P \o Q)[j].number + 1
      BY <1>2 DEF Chained
    <3>2. PICK x : /\ x = Len(P) + i /\ x \in DOMAIN (P \o Q) /\ (P \o Q)[x] = Q[i]
                   /\ ~(Q[i].number <= n + 1)
      BY <2>1
    <3>3. \E j \in 1 .. x - 1 :
            Counts((P \o Q)[j], r) /\ (P \o Q)[x].number <= (P \o Q)[j].number + 1
      BY <1>2, <3>1, <3>2
    <3>4. \E j \in 1 .. x - 1 : Counts((P \o Q)[j], r) /\ Q[i].number <= (P \o Q)[j].number + 1
      BY <3>2, <3>3
    <3> QED BY <3>2, <3>4
  <2>3. k > Len(P)
    <3>1. k <= Len(P) => Counts(P[k], r) /\ P[k].number <= m /\ P[k].number \in Nat
                         /\ Q[i].number <= P[k].number + 1
      BY <2>2, <1>1
    <3> QED BY <3>1, <1>1, <1>2
  <2>4. k - Len(P) \in 1 .. i - 1 /\ k - Len(P) \in 1 .. Len(Q) /\ k = Len(P) + (k - Len(P))
    BY <2>2, <2>3, <1>1
  <2>5. (P \o Q)[k] = Q[k - Len(P)] BY <2>4, <1>1
  <2> QED BY <2>2, <2>4, <2>5
<1>3. ASSUME NEW l \in Nat, Reaches(P \o Q, n, r, l) PROVE Reaches(Q, m, r, l)
  <2>1. CASE l <= n BY <2>1 DEF Reaches
  <2>2. CASE ~(l <= n)
    <3>1. PICK k \in 1 .. Len(P) + Len(Q) : Counts((P \o Q)[k], r) /\ l <= (P \o Q)[k].number
      BY <1>1, <1>3, <2>2 DEF Reaches
    <3>2. CASE k <= Len(P)
      <4>1. Counts(P[k], r) /\ l <= P[k].number /\ P[k].number \in Nat BY <3>1, <3>2, <1>1
      <4>2. P[k].number <= m BY <4>1, <3>2, <1>1
      <4> QED BY <4>1, <4>2 DEF Reaches
    <3>3. CASE k > Len(P)
      <4>1. k - Len(P) \in 1 .. Len(Q) /\ k = Len(P) + (k - Len(P)) BY <3>1, <3>3, <1>1
      <4> QED BY <3>1, <4>1, <1>1 DEF Reaches
    <3> QED BY <3>1, <3>2, <3>3, <1>1
  <2> QED BY <2>1, <2>2
<1> QED BY <1>1, <1>2, <1>3 DEF Chained

\* The next one was seen, or does not count.
LEMMA Consumed ==
  ASSUME NEW P \in Seq(EnvelopeType), NEW Q \in Seq(EnvelopeType), Q # <<>>,
         NEW n \in Nat, NEW m \in Nat, n <= m, NEW r,
         Counts(Head(Q), r) => Head(Q).number <= m
  PROVE /\ Chained(P \o Q, n, r) => Chained(P \o Tail(Q), m, r)
        /\ \A l \in Nat : Reaches(P \o Q, n, r, l) => Reaches(P \o Tail(Q), m, r, l)
<1> DEFINE s == P \o Q
           t == P \o Tail(Q)
           f(i) == IF i <= Len(P) THEN i ELSE i + 1
<1>1. /\ s \in Seq(EnvelopeType) /\ t \in Seq(EnvelopeType) /\ Len(P) \in Nat
      /\ Len(s) = Len(P) + Len(Q) /\ Len(t) = Len(s) - 1 /\ Len(Q) > 0
      /\ s[Len(P) + 1] = Head(Q)
  BY ConcatAt, TailAt
<1>2. ASSUME NEW i \in 1 .. Len(t)
      PROVE f(i) \in 1 .. Len(s) /\ s[f(i)] = t[i] /\ f(i) # Len(P) + 1
  <2>1. CASE i <= Len(P) BY <2>1, <1>1, <1>2, ConcatAt, TailAt
  <2>2. CASE i > Len(P)
    <3>1. /\ i - Len(P) \in 1 .. Len(Tail(Q)) /\ i = Len(P) + (i - Len(P))
          /\ i - Len(P) + 1 \in 1 .. Len(Q) /\ i + 1 = Len(P) + (i - Len(P) + 1)
          /\ f(i) = i + 1
      BY <2>2, <1>1, TailAt
    <3>2. t[i] = Tail(Q)[i - Len(P)] BY <3>1, ConcatAt, TailAt
    <3>3. s[i + 1] = Q[i - Len(P) + 1] BY <3>1, ConcatAt
    <3> QED BY <3>1, <3>2, <3>3, <1>1, TailAt
  <2> QED BY <2>1, <2>2, <1>1
<1>3. ASSUME NEW k \in 1 .. Len(s), k # Len(P) + 1
      PROVE \E j \in 1 .. Len(t) : k = f(j) /\ t[j] = s[k]
  <2> DEFINE j == IF k <= Len(P) THEN k ELSE k - 1
  <2>1. j \in 1 .. Len(t) /\ f(j) = k BY <1>1, <1>3
  <2> QED BY <2>1, <1>2
<1>4. \A i \in 1 .. Len(s) : s[i].number \in Nat BY <1>1, EnvelopeNumber
<1>5. \A i, j \in 1 .. Len(t) : f(j) < f(i) => j < i BY <1>1
<1> HIDE DEF s, t, f
<1>6. DOMAIN s = 1 .. Len(s) /\ DOMAIN t = 1 .. Len(t) BY <1>1
<1>0. \A x, y \in Nat : x <= y + 1 /\ y <= m => x <= m + 1 OBVIOUS
<1>7. ASSUME Chained(s, n, r), NEW i \in 1 .. Len(t), t[i].kind = "live", t[i].revision = r,
             ~(t[i].number <= m + 1)
      PROVE \E j \in 1 .. i - 1 : Counts(t[j], r) /\ t[i].number <= t[j].number + 1
  <2>1. f(i) \in 1 .. Len(s) /\ s[f(i)] = t[i] /\ t[i].number \in Nat BY <1>2, <1>4
  <2>2. ~(s[f(i)].number <= n + 1) BY <2>1, <1>7
  <2>3. PICK k \in 1 .. f(i) - 1 : Counts(s[k], r) /\ s[f(i)].number <= s[k].number + 1
    BY <2>1, <2>2, <1>6, <1>7 DEF Chained
  <2>4. k \in 1 .. Len(s) /\ k < f(i) BY <2>1, <2>3, <1>1
  <2>5. k # Len(P) + 1
    <3>1. SUFFICES ASSUME k = Len(P) + 1 PROVE FALSE OBVIOUS
    <3>2. s[k].number <= m /\ s[k].number \in Nat BY <3>1, <2>3, <2>4, <1>1, <1>4
    <3>3. t[i].number <= s[k].number + 1 BY <2>1, <2>3
    <3>4. t[i].number <= m + 1 BY <1>0, <2>1, <3>2, <3>3
    <3> QED BY <3>4, <1>7
  <2>6. PICK j \in 1 .. Len(t) : k = f(j) /\ t[j] = s[k] BY <2>4, <2>5, <1>3
  <2>7. j \in 1 .. i - 1 BY <2>4, <2>6, <1>5
  <2> QED BY <2>1, <2>3, <2>6, <2>7
<1>8. ASSUME NEW l \in Nat, Reaches(s, n, r, l) PROVE Reaches(t, m, r, l)
  <2>1. CASE l <= n BY <2>1 DEF Reaches
  <2>2. CASE ~(l <= n)
    <3>1. PICK k \in 1 .. Len(s) : Counts(s[k], r) /\ l <= s[k].number
      BY <1>6, <1>8, <2>2 DEF Reaches
    <3>2. CASE k = Len(P) + 1
      <4>1. s[k].number <= m /\ s[k].number \in Nat BY <3>1, <3>2, <1>1, <1>4
      <4> QED BY <3>1, <4>1 DEF Reaches
    <3>3. CASE k # Len(P) + 1
      BY <3>1, <3>3, <1>3, <1>6 DEF Reaches
    <3> QED BY <3>2, <3>3
  <2> QED BY <2>1, <2>2
<1>9. Chained(s, n, r) => Chained(t, m, r) BY <1>6, <1>7 DEF Chained
<1> QED BY <1>8, <1>9 DEF s, t

\* One more comes last.
LEMMA ChainAppended ==
  ASSUME NEW s \in Seq(EnvelopeType), NEW e \in EnvelopeType, NEW n \in Nat, NEW r,
         Chained(s, n, r),
         e.kind = "live" /\ e.revision = r => Reaches(s, n, r, e.number - 1)
  PROVE Chained(Append(s, e), n, r)
<1> DEFINE t == Append(s, e)
<1>1. /\ DOMAIN t = 1 .. Len(s) + 1 /\ t[Len(s) + 1] = e /\ e.number \in Nat
      /\ \A i \in 1 .. Len(s) : t[i] = s[i] /\ s[i].number \in Nat
      /\ DOMAIN s = 1 .. Len(s) /\ Len(s) \in Nat
  BY AppendAt, EnvelopeNumber DEF EnvelopeType
<1> HIDE DEF t
<1>2. ASSUME NEW i \in 1 .. Len(s), t[i].kind = "live", t[i].revision = r, ~(t[i].number <= n + 1)
      PROVE \E j \in 1 .. i - 1 : Counts(t[j], r) /\ t[i].number <= t[j].number + 1
  <2>1. \E j \in 1 .. i - 1 : Counts(s[j], r) /\ s[i].number <= s[j].number + 1
    BY <1>1, <1>2 DEF Chained
  <2> QED BY <2>1, <1>1
<1>3. ASSUME e.kind = "live", e.revision = r, ~(e.number <= n + 1)
      PROVE \E j \in 1 .. Len(s) : Counts(t[j], r) /\ e.number <= t[j].number + 1
  <2>1. \E j \in 1 .. Len(s) : Counts(s[j], r) /\ e.number - 1 <= s[j].number
    BY <1>1, <1>3 DEF Reaches
  <2> QED BY <2>1, <1>1
<1>4. Chained(t, n, r)
  <2> SUFFICES ASSUME NEW i \in 1 .. Len(s) + 1, t[i].kind = "live", t[i].revision = r,
                      ~(t[i].number <= n + 1)
               PROVE \E j \in 1 .. i - 1 : Counts(t[j], r) /\ t[i].number <= t[j].number + 1
    BY <1>1 DEF Chained
  <2>1. CASE i = Len(s) + 1 BY <2>1, <1>1, <1>3
  <2>2. CASE i \in 1 .. Len(s) BY <2>2, <1>2
  <2> QED BY <2>1, <2>2, <1>1
<1> QED BY <1>4 DEF t

LEMMA ReachesAppended ==
  ASSUME NEW s \in Seq(EnvelopeType), NEW e \in EnvelopeType, NEW n, NEW r, NEW l
  PROVE /\ Reaches(s, n, r, l) => Reaches(Append(s, e), n, r, l)
        /\ Counts(e, r) /\ l <= e.number => Reaches(Append(s, e), n, r, l)
<1>1. /\ DOMAIN Append(s, e) = 1 .. Len(s) + 1 /\ Append(s, e)[Len(s) + 1] = e
      /\ \A i \in 1 .. Len(s) : Append(s, e)[i] = s[i]
      /\ DOMAIN s = 1 .. Len(s) /\ Len(s) + 1 \in 1 .. Len(s) + 1
  BY AppendAt
<1> QED BY <1>1 DEF Reaches

-----------------------------------------------------------------------------
(***************************************************************************)
(* An envelope is consumed, held back for its revision, or dropped as old. *)
(***************************************************************************)
\* deliverEnvelope shows no hole in what is chained, and moves on to its last.
LEMMA Delivered ==
  ASSUME shown \in ShownType, NEW s \in Seq(EnvelopeType), NEW r, Deliver(s, r)
  PROVE /\ shown' \in ShownType /\ shown.upto <= shown'.upto /\ shown'.lost = shown.lost
        /\ \A i \in DOMAIN s : Counts(s[i], r) => s[i].number <= shown'.upto
        /\ Chained(s, shown.upto, r) => shown'.gap = shown.gap
<1> DEFINE delivered == {i \in DOMAIN s : s[i].revision = r}
           before(i) == {shown.upto} \cup {s[j].number : j \in {k \in delivered : k < i}}
           hole == \E i \in delivered : /\ s[i].kind = "live"
                                        /\ \A n \in before(i) : n + 1 < s[i].number
<1>1. PICK last \in before(Len(s) + 1) :
        /\ \A n \in before(Len(s) + 1) : n <= last
        /\ shown' = [shown EXCEPT !.upto = last, !.gap = shown.gap \/ hole]
  BY DEF Deliver
<1>2. shown' \in ShownType /\ shown'.lost = shown.lost BY DeliverTyped
<1>3. shown'.upto = last BY <1>1 DEF ShownType
<1>4. shown'.gap = (shown.gap \/ hole) BY <1>1 DEF ShownType
<1>5. \A i \in delivered : s[i].number \in before(Len(s) + 1)
  OBVIOUS
<1>6. ASSUME Chained(s, shown.upto, r) PROVE ~hole
  <2> SUFFICES ASSUME NEW i \in delivered, s[i].kind = "live",
                      \A n \in before(i) : n + 1 < s[i].number
               PROVE FALSE
    OBVIOUS
  <2>1. s[i].number \in Nat /\ shown.upto \in Nat BY EnvelopeNumber DEF ShownType
  <2>2. \/ s[i].number <= shown.upto + 1
        \/ \E j \in 1 .. i - 1 : Counts(s[j], r) /\ s[i].number <= s[j].number + 1
    BY <1>6 DEF Chained
  <2>3. shown.upto + 1 < s[i].number OBVIOUS
  <2>4. PICK j \in 1 .. i - 1 : Counts(s[j], r) /\ s[i].number <= s[j].number + 1
    BY <2>1, <2>2, <2>3
  <2>5. j \in DOMAIN s /\ j \in delivered /\ j < i BY <2>4 DEF Counts
  <2>6. s[j].number \in before(i) /\ s[j].number \in Nat BY <2>5, EnvelopeNumber
  <2>7. s[j].number + 1 < s[i].number BY <2>6
  <2> QED BY <2>1, <2>4, <2>6, <2>7
<1>7. shown.upto <= shown'.upto BY <1>1, <1>3
<1>8. \A i \in DOMAIN s : Counts(s[i], r) => s[i].number <= shown'.upto
  BY <1>1, <1>3, <1>5 DEF Counts
<1>9. Chained(s, shown.upto, r) => shown'.gap = shown.gap
  BY <1>4, <1>6, <1>2 DEF ShownType
<1> QED BY <1>2, <1>7, <1>8, <1>9

\* The barrier holds live envelopes of the current revision, until it opens.
Barred ==
  /\ \A i \in DOMAIN barrier : barrier[i].kind = "live" /\ barrier[i].revision = subscription.revision
  /\ barrier # <<>> => ready # subscription.revision

\* Nothing is missing: what waits at the barrier and what comes are chained.
LEMMA ConsumedWhole ==
  ASSUME BufferTypes, Barred, subscription \in SubscriptionType, UNCHANGED subscription,
         NEW Q \in Seq(EnvelopeType), Q # <<>>,
         NEW kept \in Seq(EnvelopeType), Len(kept) <= BufferLimit, Consume(Head(Q), kept),
         ~shown.gap, Chained(barrier \o Q, shown.upto, subscription.revision),
         NEW l \in Nat
  PROVE \/ shown'.lost
        \/ /\ ~shown'.gap /\ shown.upto <= shown'.upto
           /\ Chained(barrier' \o Tail(Q), shown'.upto, subscription.revision)
           /\ Reaches(barrier \o Q, shown.upto, subscription.revision, l)
                => Reaches(barrier' \o Tail(Q), shown'.upto, subscription.revision, l)
<1> DEFINE e == Head(Q)
           r == subscription.revision
<1>1. e \in EnvelopeType /\ Tail(Q) \in Seq(EnvelopeType) /\ barrier \in Seq(EnvelopeType)
      /\ barrier \o Q \in Seq(EnvelopeType) /\ e.revision \in Nat /\ r \in Nat /\ e.number \in Nat
      /\ shown \in ShownType /\ shown.upto \in Nat
  BY TailAt, ConcatAt DEF BufferTypes, SubscriptionType, EnvelopeType, ShownType
<1> HIDE DEF e
\* What is dropped without being shown does not count.
<1>2. ASSUME UNCHANGED <<barrier, shown>>, ~Counts(e, r)
      PROVE /\ ~shown'.gap /\ shown.upto <= shown'.upto
            /\ Chained(barrier' \o Tail(Q), shown'.upto, r)
            /\ Reaches(barrier \o Q, shown.upto, r, l)
                 => Reaches(barrier' \o Tail(Q), shown'.upto, r, l)
  BY <1>1, <1>2, Consumed DEF e
<1>3. CASE e.revision < r
  <2>1. UNCHANGED <<barrier, shown>> BY <1>1, <1>3 DEF Consume, e
  <2> QED BY <1>1, <1>2, <1>3, <2>1 DEF Counts
<1>4. CASE e.revision > r
  <2>1. UNCHANGED barrier /\ (UNCHANGED shown \/ LoseOne)
    BY <1>1, <1>4 DEF Consume, ConsumeLater, e
  <2>2. LoseOne => shown'.lost BY <1>1 DEF LoseOne, ShownType
  <2> QED BY <1>1, <1>2, <1>4, <2>1, <2>2 DEF Counts
<1>5. CASE e.revision = r
  <2>1. ConsumeCurrent(e) BY <1>1, <1>5 DEF Consume, e
  <2>2. CASE e.kind = "ready" /\ barrier' = <<>> /\ Deliver(barrier, e.revision)
    <3>1. Chained(barrier, shown.upto, r) BY <1>1, PrefixChained
    <3>2. /\ shown' \in ShownType /\ shown.upto <= shown'.upto /\ ~shown'.gap
          /\ \A i \in DOMAIN barrier : Counts(barrier[i], r) => barrier[i].number <= shown'.upto
      BY <1>1, <1>5, <2>2, <3>1, Delivered
    <3>3. shown'.upto \in Nat BY <3>2 DEF ShownType
    <3>4. Chained(Q, shown'.upto, r)
          /\ (Reaches(barrier \o Q, shown.upto, r, l) => Reaches(Q, shown'.upto, r, l))
      BY <1>1, <3>2, <3>3, Flushed
    <3>5. <<>> \in Seq(EnvelopeType) /\ <<>> \o Q = Q BY EmptyConcat
    <3>6. ~Counts(Head(Q), r) BY <2>2 DEF Counts, e
    <3>7. /\ Chained(<<>> \o Tail(Q), shown'.upto, r)
          /\ Reaches(barrier \o Q, shown.upto, r, l)
               => Reaches(<<>> \o Tail(Q), shown'.upto, r, l)
      <4>1. Chained(<<>> \o Q, shown'.upto, r)
            /\ (Reaches(barrier \o Q, shown.upto, r, l) => Reaches(<<>> \o Q, shown'.upto, r, l))
        BY <3>4, <3>5
      <4>2. shown'.upto <= shown'.upto BY <3>3
      <4>3. /\ Chained(<<>> \o Q, shown'.upto, r) => Chained(<<>> \o Tail(Q), shown'.upto, r)
            /\ Reaches(<<>> \o Q, shown'.upto, r, l) => Reaches(<<>> \o Tail(Q), shown'.upto, r, l)
        BY <3>3, <3>5, <3>6, <4>2, Consumed
      <4> QED BY <4>1, <4>3
    <3> QED BY <2>2, <3>2, <3>7
  <2>3. CASE e.kind = "resync" /\ UNCHANGED <<barrier, shown>>
    BY <1>2, <2>3 DEF Counts
  <2>4. CASE /\ e.kind = "baseline" \/ (e.kind = "live" /\ ready = e.revision)
             /\ Deliver(<<e>>, e.revision) /\ UNCHANGED barrier
    <3>1. <<e>> \in Seq(EnvelopeType) /\ DOMAIN <<e>> = {1} /\ <<e>>[1] = e BY <1>1
    <3>2. Chained(<<e>>, shown.upto, r)
      <4>1. CASE e.kind = "baseline"
        BY <3>1, <4>1 DEF Chained
      <4>2. CASE e.kind = "live" /\ ready = e.revision
        <5>1. barrier = <<>> BY <4>2, <1>5 DEF Barred
        <5>2. barrier \o Q = Q BY <5>1, EmptyConcat
        <5>3. 1 \in DOMAIN Q /\ Q[1] = e BY TailAt DEF e
        <5>4. e.number <= shown.upto + 1
          <6>1. ~(\E j \in 1 .. 1 - 1 : Counts(Q[j], r) /\ Q[1].number <= Q[j].number + 1)
            OBVIOUS
          <6> QED BY <6>1, <5>2, <5>3, <4>2, <1>5 DEF Chained
        <5> QED BY <3>1, <5>4 DEF Chained
      <4> QED BY <2>4, <4>1, <4>2
    <3>3. /\ shown' \in ShownType /\ shown.upto <= shown'.upto /\ ~shown'.gap
          /\ Counts(e, r) => e.number <= shown'.upto
      BY <1>1, <1>5, <2>4, <3>1, <3>2, Delivered
    <3>4. shown'.upto \in Nat BY <3>3 DEF ShownType
    <3>5. /\ Chained(barrier \o Tail(Q), shown'.upto, r)
          /\ Reaches(barrier \o Q, shown.upto, r, l)
               => Reaches(barrier \o Tail(Q), shown'.upto, r, l)
      BY <1>1, <3>3, <3>4, Consumed DEF e
    <3> QED BY <2>4, <3>3, <3>5
  <2>5. CASE barrier' = Append(barrier, e) /\ UNCHANGED shown
    <3>1. barrier' \o Tail(Q) = barrier \o Q BY <1>1, <2>5, Moved DEF e
    <3>2. ~shown'.gap /\ shown'.upto = shown.upto /\ shown.upto <= shown.upto BY <1>1, <2>5
    <3>3. Chained(barrier' \o Tail(Q), shown.upto, r) BY <3>1
    <3>4. Reaches(barrier \o Q, shown.upto, r, l) => Reaches(barrier' \o Tail(Q), shown.upto, r, l)
      BY <3>1
    <3> QED BY <3>2, <3>3, <3>4
  <2>6. CASE LoseOne
    BY <1>1, <2>6 DEF LoseOne, ShownType
  <2> QED BY <2>1, <2>2, <2>3, <2>4, <2>5, <2>6 DEF ConsumeCurrent
<1> QED BY <1>1, <1>3, <1>4, <1>5

-----------------------------------------------------------------------------
(***************************************************************************)
(* Consumers see no hole: what waits in the buffers and on the wire follows *)
(* on what was shown, up to the last event published.                      *)
(***************************************************************************)
\* What waits in the two buffers, and on the wire, is of the revision it should be.
Buffered ==
  /\ \A i \in DOMAIN wire : wire[i].revision <= server[stream.id].revision
  /\ Barred
  /\ \A i \in DOMAIN unacknowledged :
       \/ At("replay") /\ unacknowledged[i].revision = subscription.revision
       \/ /\ At("patch") /\ stream.id = flight.call.id
          /\ unacknowledged[i].revision = flight.call.revision + 1
          /\ unacknowledged[i].revision <= server[flight.call.id].revision

\* What consumers will be given in the current revision, and in the next one if
\* the answer under way brings it.
Coming ==
  IF At("replay") THEN barrier \o (unacknowledged \o wire) ELSE barrier \o wire
Following == unacknowledged \o wire
Adoptable == At("patch") /\ flight.reply = "ok" /\ stream.id = flight.call.id
UpToDate == stream.state = "open" /\ server[stream.id].revision = subscription.revision

Whole ==
  ~shown.lost =>
    /\ ~shown.gap
    /\ Chained(Coming, shown.upto, subscription.revision)
    /\ UpToDate => Reaches(Coming, shown.upto, subscription.revision, live)
    /\ Adoptable =>
         /\ Chained(Following, shown.upto, flight.call.revision + 1)
         /\ stream.state = "open" =>
              Reaches(Following, shown.upto, flight.call.revision + 1, live)

LEMMA EmptyFollows ==
  ASSUME NEW n, NEW r PROVE Chained(<<>>, n, r)
  BY DEF Chained

LEMMA TransportInitWhole == TransportInit => Buffered /\ Whole
<1> SUFFICES ASSUME TransportInit PROVE Buffered /\ Whole OBVIOUS
<1>1. barrier = <<>> /\ wire = <<>> /\ unacknowledged = <<>> /\ ~At("replay") /\ ~At("patch")
      /\ stream.state = "closed" /\ ~shown.gap
  BY DEF TransportInit, At, Idle, NoStream
<1>2. Coming = <<>> BY <1>1, EmptyConcat, ConstantTypes DEF Coming
<1> QED BY <1>1, <1>2, EmptyFollows DEF Buffered, Barred, Whole, UpToDate, Adoptable

LEMMA StreamUsed ==
  ASSUME Shape, stream.state = "open" \/ wire # <<>>
  PROVE Used(stream.id) /\ stream.id \in Ids /\ stream.id = subscription.id
        /\ stream.state = "open" /\ subscription # NoSubscription
  BY ConstantTypes DEF Shape, Named, TransportTypeOK, Used

\* A step that leaves buffers, wire and revisions alone.
Untouched ==
  /\ UNCHANGED <<barrier, unacknowledged, wire, shown, live, subscription, stream, ready>>
  /\ \A i \in Ids : Used(i) => server'[i].revision = server[i].revision
  /\ \/ /\ flight'.pc = flight.pc /\ flight'.call = flight.call
        /\ At("patch") /\ flight'.reply = "ok" => flight.reply = "ok"
     \/ /\ flight.pc \notin {"patch", "replay"} /\ flight'.pc # "replay"
        /\ flight'.pc = "patch" => flight'.reply = "sent"

LEMMA UntouchedWhole ==
  ASSUME Shape, Buffered, Whole, Untouched PROVE Buffered' /\ Whole'
<1>1. stream.state = "open" \/ wire # <<>> => server'[stream.id].revision = server[stream.id].revision
  BY StreamUsed DEF Untouched
<1>2. At("patch") => server'[flight.call.id].revision = server[flight.call.id].revision
  BY DEF Untouched, Shape, Called, Used
<1>3. DOMAIN unacknowledged # {} => flight.pc \in {"patch", "replay"}
  BY DEF Buffered, At
<1>4. DOMAIN wire # {} => wire # <<>> OBVIOUS
<1>5. Buffered'
  <2>1. (\A i \in DOMAIN wire : wire[i].revision <= server[stream.id].revision)'
    <3>1. wire' = wire /\ stream' = stream BY DEF Untouched
    <3>2. CASE wire = <<>>
      <4>1. DOMAIN wire' = {} BY <3>1, <3>2
      <4> QED BY <4>1
    <3>3. CASE wire # <<>> BY <3>1, <3>3, <1>1 DEF Buffered
    <3> QED BY <3>2, <3>3
  <2>2. Barred' BY DEF Buffered, Barred, Untouched
  <2>3. (\A i \in DOMAIN unacknowledged :
           \/ At("replay") /\ unacknowledged[i].revision = subscription.revision
           \/ /\ At("patch") /\ stream.id = flight.call.id
              /\ unacknowledged[i].revision = flight.call.revision + 1
              /\ unacknowledged[i].revision <= server[flight.call.id].revision)'
    <3>1. UNCHANGED <<unacknowledged, subscription, stream>> BY DEF Untouched
    <3>2. CASE flight.pc \notin {"patch", "replay"}
      <4>1. DOMAIN unacknowledged = {} BY <3>2, <1>3
      <4> QED BY <3>1, <4>1
    <3>3. CASE flight'.pc = flight.pc /\ flight'.call = flight.call
      BY <3>1, <3>3, <1>2 DEF Buffered, At
    <3> QED BY <3>2, <3>3 DEF Untouched
  <2> QED BY <2>1, <2>2, <2>3 DEF Buffered
<1>6. Coming' = Coming /\ Following' = Following
  BY DEF Coming, Following, Untouched, At
<1>7. (Adoptable' => Adoptable /\ flight'.call = flight.call) /\ (UpToDate' => UpToDate)
  BY <1>1 DEF Adoptable, UpToDate, Untouched, At
<1>8. Whole' BY <1>6, <1>7 DEF Whole, Untouched
<1> QED BY <1>5, <1>8

LEMMA ChangeWhole ==
  ASSUME Shape, Buffered, Whole, NEW c \in SUBSET Sources, Change(c) PROVE Buffered' /\ Whole'
<1>1. Untouched BY RequestSyncTyped DEF Untouched, Change, gateway, At, Shape
<1> QED BY <1>1, UntouchedWhole

LEMMA LoopWhole ==
  ASSUME Shape, Buffered, Whole, LoopBegin \/ LoopEnd PROVE Buffered' /\ Whole'
<1>1. flight'.pc \in {"claim", "none"}
  <2>1. Idle.pc = "none" BY DEF Idle
  <2> QED BY <2>1, ConstantTypes DEF LoopBegin, LoopEnd, FlightType
<1>2. Untouched BY <1>1 DEF Untouched, LoopBegin, LoopEnd, gateway, At
<1> QED BY <1>2, UntouchedWhole

LEMMA ClaimWhole ==
  ASSUME Shape, Buffered, Whole, ObserverClaimed \/ DeletedStale PROVE Buffered' /\ Whole'
<1>1. Mutate => flight'.reply = "sent" /\ flight'.pc \in {"create", "patch"} BY MutateTyped
<1>2. CASE ObserverClaimed /\ subscription = NoSubscription /\ pendingDelete # NoId
  <2>1. flight'.pc = "delete_stale"
    BY <1>2 DEF ObserverClaimed, Shape, TransportTypeOK, FlightType
  <2>2. Untouched BY <1>2, <2>1 DEF Untouched, ObserverClaimed, gateway, At
  <2> QED BY <2>2, UntouchedWhole
<1>3. CASE Mutate
  <2>1. Untouched BY <1>1, <1>3 DEF Untouched, ObserverClaimed, DeletedStale, gateway, At
  <2> QED BY <2>1, UntouchedWhole
<1> QED BY <1>2, <1>3 DEF ObserverClaimed, DeletedStale

LEMMA ServeWhole ==
  ASSUME Shape, Buffered, Whole, ServeClaim \/ ServeDelete \/ ServeCreate
  PROVE Buffered' /\ Whole'
<1>1. ~At("patch") /\ ~At("replay") /\ flight'.pc = flight.pc /\ flight'.call = flight.call
  BY ReplyTyped DEF ServeClaim, ServeDelete, ServeCreate, Shape, At
<1>2. UNCHANGED <<barrier, unacknowledged, wire, shown, live, subscription, stream, ready>>
  BY DEF ServeClaim, ServeDelete, ServeCreate, GatewayUnchanged, ClientWaits
<1>3. \A i \in Ids : Used(i) => server'[i].revision = server[i].revision
  <2>1. CASE ServeClaim BY <2>1 DEF ServeClaim
  <2>2. CASE ServeDelete
    BY <2>2 DEF ServeDelete, Shape, TransportTypeOK, ServerType
  <2>3. CASE ServeCreate BY <2>3, ServeCreateTyped DEF Used
  <2> QED BY <2>1, <2>2, <2>3
<1>4. Untouched BY <1>1, <1>2, <1>3 DEF Untouched, At
<1> QED BY <1>4, UntouchedWhole

LEMMA FaultWhole ==
  ASSUME Shape, Buffered, Whole, CallFails \/ StaleTimer \/ \E i \in Ids : Expire(i)
  PROVE Buffered' /\ Whole'
<1>1. CASE CallFails
  <2>1. Untouched BY <1>1, ReplyTyped DEF Untouched, CallFails, gateway, At, Shape
  <2> QED BY <2>1, UntouchedWhole
<1>2. CASE StaleTimer
  <2>1. Untouched BY <1>2 DEF Untouched, StaleTimer, gateway, At
  <2> QED BY <2>1, UntouchedWhole
<1>3. ASSUME NEW i \in Ids, Expire(i) PROVE Buffered' /\ Whole'
  <2>1. \A j \in Ids : server'[j].revision = server[j].revision
    BY <1>3 DEF Expire, Shape, TransportTypeOK, ServerType
  <2>2. Untouched BY <1>3, <2>1 DEF Untouched, Expire, client, At
  <2> QED BY <2>2, UntouchedWhole
<1> QED BY <1>1, <1>2, <1>3

-----------------------------------------------------------------------------
\* A step that leaves the stream, and with it the wire.
Cut ==
  /\ UNCHANGED <<barrier, shown, subscription, ready, unacknowledged, server, live>>
  /\ wire' = <<>> /\ stream'.state # "open"
  /\ flight'.pc # "replay" /\ (At("replay") => unacknowledged = <<>>)
  /\ \/ stream'.id = stream.id /\ flight' = flight
     \/ unacknowledged = <<>> /\ flight'.pc # "patch"

LEMMA CutWhole ==
  ASSUME Shape, Buffered, Whole, Cut PROVE Buffered' /\ Whole'
<1>1. /\ barrier \in Seq(EnvelopeType) /\ wire \in Seq(EnvelopeType)
      /\ unacknowledged \in Seq(EnvelopeType) /\ shown.upto \in Nat
  BY DEF Shape, TransportTypeOK, ShownType
<1>2. Coming = barrier \o wire
  BY <1>1, EmptyConcat DEF Coming, Cut
<1>3. Coming' = barrier
  BY <1>1, EmptyConcat DEF Coming, Cut, At
<1>4. Following' = unacknowledged
  BY <1>1, EmptyConcat DEF Following, Cut
<1>5. Chained(Coming, shown.upto, subscription.revision)
        => Chained(Coming', shown.upto, subscription.revision)
  BY <1>1, <1>2, <1>3, PrefixChained
<1>6. Chained(Following, shown.upto, flight.call.revision + 1)
        => Chained(Following', shown.upto, flight.call.revision + 1)
  BY <1>1, <1>4, PrefixChained DEF Following
<1>7. ~UpToDate' BY DEF UpToDate, Cut
<1>8. Adoptable' => \/ Adoptable /\ flight' = flight
                    \/ FALSE
  BY DEF Adoptable, Cut, At
<1>9. Whole' BY <1>5, <1>6, <1>7, <1>8 DEF Whole, Cut
<1>10. DOMAIN wire' = {} BY DEF Cut
<1>11. unacknowledged # <<>> => ~At("replay") /\ flight' = flight /\ stream'.id = stream.id
  BY DEF Cut, At
<1>12. unacknowledged = <<>> => DOMAIN unacknowledged = {} OBVIOUS
<1>13. Buffered'
  BY <1>10, <1>11, <1>12 DEF Buffered, Barred, Cut, At
<1> QED BY <1>9, <1>13

LEMMA LoopEmptyWhole ==
  ASSUME Shape, Buffered, Whole, LoopEmpty PROVE Buffered' /\ Whole'
<1>1. DOMAIN unacknowledged = {} BY DEF Buffered, LoopEmpty, At
<1>2. unacknowledged = <<>> BY <1>1 DEF Shape, TransportTypeOK
<1>3. flight'.pc = "delete_last"
  BY ConstantTypes DEF LoopEmpty, FlightType
<1>4. Cut BY <1>2, <1>3, ConstantTypes DEF Cut, LoopEmpty, ClosePhysical
<1> QED BY <1>4, CutWhole

LEMMA AdoptedWhole ==
  ASSUME Shape, Buffered, Whole, Adopted PROVE Buffered' /\ Whole'
<1>1. flight'.pc = "loop" BY IdleAt DEF Adopted
<1>2. CASE stream.id # subscription.id
  <2>1. stream'.state = "connecting" /\ wire' = <<>> BY <1>2 DEF Adopted
  <2>2. Cut BY <1>1, <2>1 DEF Cut, Adopted, At
  <2> QED BY <2>2, CutWhole
<1>3. CASE stream.id = subscription.id
  <2>1. UNCHANGED <<barrier, unacknowledged, wire, shown, live, subscription, stream, ready, server>>
    BY <1>3 DEF Adopted
  <2>2. unacknowledged = <<>> /\ DOMAIN unacknowledged = {} BY DEF Adopted
  <2>3. Coming' = Coming
    BY <1>1, <2>1, <2>2, EmptyConcat DEF Coming, At, Shape, TransportTypeOK
  <2>4. ~Adoptable' /\ (UpToDate' => UpToDate)
    BY <1>1, <2>1 DEF Adoptable, UpToDate, At
  <2>5. Whole' BY <2>1, <2>3, <2>4 DEF Whole
  <2>6. Buffered' BY <2>1, <2>2 DEF Buffered, Barred
  <2> QED BY <2>5, <2>6
<1> QED BY <1>2, <1>3

LEMMA StreamErrsWhole ==
  ASSUME Shape, Buffered, Whole, StreamErrs, Turn, stream.state # "closed"
  PROVE Buffered' /\ Whole'
<1>1. stream'.id = stream.id /\ stream'.state = "connecting"
  BY DEF StreamErrs, Shape, TransportTypeOK, StreamType
<1>2. Cut BY <1>1 DEF Cut, StreamErrs, StreamUnchanged, Turn, At
<1> QED BY <1>2, CutWhole

\* A step after which nothing is under way or waits.
LEMMA EmptyWhole ==
  ASSUME shown' = shown, Whole, barrier' = <<>>, wire' = <<>>, unacknowledged' = <<>>,
         stream'.state # "open", flight'.pc # "patch" \/ stream'.id = NoId,
         Shape'
  PROVE Buffered' /\ Whole'
<1>1. DOMAIN barrier' = {} /\ DOMAIN wire' = {} /\ DOMAIN unacknowledged' = {} OBVIOUS
<1>2. Coming' = <<>> BY EmptyConcat, ConstantTypes DEF Coming
<1>3. ~UpToDate' BY DEF UpToDate
<1>4. ~Adoptable'
  BY DEF Adoptable, At, Shape, Called, Used, NoId, Ids
<1>5. Whole' BY <1>2, <1>3, <1>4, EmptyFollows DEF Whole
<1>6. Buffered' BY <1>1 DEF Buffered, Barred
<1> QED BY <1>5, <1>6

LEMMA DeletedLastWhole ==
  ASSUME Shape, Buffered, Whole, DeletedLast PROVE Buffered' /\ Whole'
<1>1. stream = NoStream /\ wire = <<>> /\ stream.state = "closed"
  BY ConstantTypes DEF DeletedLast, Shape, Named, Called
<1>2. DOMAIN unacknowledged = {} BY DEF Buffered, DeletedLast, At
<1>3. unacknowledged = <<>> BY <1>2 DEF Shape, TransportTypeOK
<1>4. flight'.pc = "loop" BY IdleAt DEF DeletedLast
<1>5. UNCHANGED <<shown, stream, wire, unacknowledged>> /\ barrier' = <<>>
  BY DEF DeletedLast, gateway
<1> QED BY <1>1, <1>3, <1>4, <1>5, DeletedLastShape, EmptyWhole

LEMMA RecreateWhole ==
  ASSUME Shape, Buffered, Whole, Recreate PROVE Buffered' /\ Whole'
<1>1. UNCHANGED shown /\ barrier' = <<>> /\ wire' = <<>> /\ unacknowledged' = <<>>
      /\ stream' = NoStream
  BY DEF Recreate, ClosePhysical
<1> QED BY <1>1, ConstantTypes, RecreateShape, EmptyWhole

LEMMA SyncFailedWhole ==
  ASSUME Shape, Buffered, Whole, SyncFailed PROVE Buffered' /\ Whole'
<1>1. flight'.pc = "none" BY DEF SyncFailed, Idle
<1>2. ~At("replay") BY DEF SyncFailed, At
<1>3. UNCHANGED <<barrier, wire, shown, live, subscription, stream, ready, server>>
      /\ unacknowledged' = <<>>
  BY DEF SyncFailed, gateway
<1>4. Coming' = Coming BY <1>1, <1>2, <1>3 DEF Coming, At
<1>5. ~Adoptable' /\ (UpToDate' => UpToDate)
  BY <1>1, <1>3 DEF Adoptable, UpToDate, At
<1>6. Whole' BY <1>3, <1>4, <1>5 DEF Whole
<1>7. DOMAIN unacknowledged' = {} BY <1>3
<1>8. Buffered' BY <1>3, <1>7 DEF Buffered, Barred
<1> QED BY <1>6, <1>8

\* Only a full buffer loses an envelope, and that is remembered.
LEMMA ConsumedLost ==
  ASSUME shown \in ShownType, barrier \in Seq(EnvelopeType), NEW e \in EnvelopeType, NEW kept,
         Consume(e, kept)
  PROVE shown.lost => shown'.lost
<1>1. <<e>> \in Seq(EnvelopeType) OBVIOUS
<1>2. LoseOne => shown'.lost BY DEF LoseOne, ShownType
<1>3. \A r : Deliver(barrier, r) \/ Deliver(<<e>>, r) => shown'.lost = shown.lost
  BY <1>1, DeliverTyped
<1> QED BY <1>2, <1>3 DEF Consume, ConsumeLater, ConsumeCurrent

LEMMA ConsumedBarred ==
  ASSUME BufferTypes, Barred, subscription \in SubscriptionType, UNCHANGED subscription,
         NEW e \in EnvelopeType, NEW kept, Consume(e, kept)
  PROVE Barred'
<1>1. e.revision \in Nat /\ subscription.revision \in Nat /\ barrier \in Seq(EnvelopeType)
  BY DEF BufferTypes, SubscriptionType, EnvelopeType
<1>2. CASE UNCHANGED <<barrier, ready>>
  BY <1>2 DEF Barred
<1>3. CASE barrier' = <<>>
  <2>1. DOMAIN barrier' = {} BY <1>3
  <2> QED BY <1>3, <2>1 DEF Barred
<1>4. CASE /\ barrier' = Append(barrier, e) /\ ready' = ready /\ e.kind = "live"
           /\ e.revision = subscription.revision /\ ready # e.revision
  BY <1>1, <1>4, AppendAt DEF Barred
<1> QED BY <1>1, <1>2, <1>3, <1>4 DEF Consume, ConsumeLater, ConsumeCurrent

-----------------------------------------------------------------------------
LEMMA ConcatTyped ==
  ASSUME Shape
  PROVE /\ barrier \in Seq(EnvelopeType) /\ unacknowledged \in Seq(EnvelopeType)
        /\ wire \in Seq(EnvelopeType) /\ Following \in Seq(EnvelopeType)
        /\ Coming \in Seq(EnvelopeType)
        /\ shown \in ShownType /\ shown.upto \in Nat /\ live \in Nat
        /\ subscription.revision \in Nat /\ flight.call.revision \in Nat
  BY ConcatAt DEF Shape, TransportTypeOK, Following, Coming, ShownType, SubscriptionType, FlightType

\* The answer makes the next revision the current one.
LEMMA AcknowledgedWhole ==
  ASSUME Shape, Buffered, Whole, Acknowledged PROVE Buffered' /\ Whole'
<1>1. /\ barrier' = <<>> /\ ready' = 0 /\ unacknowledged' = unacknowledged /\ flight'.pc = "replay"
      /\ UNCHANGED <<shown, stream, wire, server, live>>
      /\ subscription'.revision = server[subscription'.id].revision
  BY AcknowledgedTyped DEF Acknowledged, RanAhead, gateway
<1>2. Coming' = Following
  BY <1>1, ConcatTyped, EmptyConcat DEF Coming, Following, At
<1>3. ~Adoptable' BY <1>1 DEF Adoptable, At
<1>4. CASE At("patch") /\ stream.id = flight.call.id
  <2>1. Adoptable BY <1>4 DEF Adoptable, Acknowledged
  <2>2. subscription'.revision = flight.call.revision + 1
    BY <1>1, <1>4, AcknowledgedTyped DEF Acknowledged, Shape, Called
  <2>3. Whole' BY <1>1, <1>2, <1>3, <2>1, <2>2 DEF Whole, UpToDate
  <2>4. Buffered' BY <1>1, <1>4, <2>2, AcknowledgedTyped DEF Buffered, Barred, At
  <2> QED BY <2>3, <2>4
<1>5. CASE ~(At("patch") /\ stream.id = flight.call.id)
  <2>1. DOMAIN unacknowledged = {} BY <1>5 DEF Buffered, Acknowledged, Mutating, At
  <2>2. unacknowledged = <<>> BY <2>1, ConcatTyped
  <2>3. stream.id = NoId
    BY <1>5, ConstantTypes DEF Acknowledged, Mutating, At, Shape, Called, Named
  <2>4. stream.state # "open" /\ wire = <<>>
    BY <2>3 DEF Shape, Named, TransportTypeOK
  <2> QED BY <1>1, <2>2, <2>3, <2>4, AcknowledgedShape, EmptyWhole
<1> QED BY <1>4, <1>5

LEMMA ReplayWhole ==
  ASSUME Shape, Buffered, Whole, Replay PROVE Buffered' /\ Whole'
<1> DEFINE Q == Following
           kept == Tail(unacknowledged)
           r == subscription.revision
<1>1. /\ Q # <<>> /\ Head(Q) = Head(unacknowledged) /\ Tail(Q) = kept \o wire
      /\ Q \in Seq(EnvelopeType) /\ kept \in Seq(EnvelopeType) /\ Len(kept) <= BufferLimit
      /\ Head(unacknowledged) = unacknowledged[1] /\ 1 \in DOMAIN unacknowledged
      /\ \A i \in DOMAIN kept : i + 1 \in DOMAIN unacknowledged /\ kept[i] = unacknowledged[i + 1]
  <2>1. unacknowledged # <<>> /\ Len(unacknowledged) <= BufferLimit
    BY DEF Replay, Shape, TransportTypeOK
  <2>2. /\ kept \in Seq(EnvelopeType) /\ Len(kept) = Len(unacknowledged) - 1
        /\ \A i \in 1 .. Len(unacknowledged) - 1 : kept[i] = unacknowledged[i + 1]
        /\ Head(unacknowledged) = unacknowledged[1] /\ Len(unacknowledged) > 0
    BY <2>1, ConcatTyped, TailAt
  <2>3. Q # <<>> /\ Head(Q) = Head(unacknowledged) /\ Tail(Q) = kept \o wire
    BY <2>1, ConcatTyped, ConcatHead DEF Following
  <2>4. DOMAIN kept = 1 .. Len(unacknowledged) - 1 /\ DOMAIN unacknowledged = 1 .. Len(unacknowledged)
        /\ Len(unacknowledged) \in Nat
    BY <2>2, ConcatTyped
  <2>5. Len(kept) <= BufferLimit BY <2>1, <2>2, <2>4, TransportAssumption
  <2>6. \A i \in DOMAIN kept : i + 1 \in DOMAIN unacknowledged /\ kept[i] = unacknowledged[i + 1]
    BY <2>2, <2>4
  <2>7. 1 \in DOMAIN unacknowledged BY <2>2, <2>4
  <2> QED BY <2>2, <2>3, <2>5, <2>6, <2>7, ConcatTyped
<1>2. At("replay") /\ ~At("patch") /\ Coming = barrier \o Q
  BY DEF Replay, At, Coming, Following
<1>3. \A i \in DOMAIN unacknowledged : unacknowledged[i].revision = r
  BY <1>2 DEF Buffered
<1>4. Consume(Head(Q), kept) /\ subscription \in SubscriptionType /\ UNCHANGED subscription
      /\ BufferTypes /\ Barred
  BY <1>1 DEF Replay, Shape, TransportTypeOK, BufferTypes, Buffered
<1>5. unacknowledged' = kept /\ ConsumeCurrent(Head(Q))
  BY <1>1, <1>3, <1>4, ConcatTyped DEF Consume
<1>6. /\ UNCHANGED <<flight, stream, server, live, wire>> /\ subscription' = subscription
      /\ flight'.pc = flight.pc
  BY DEF Replay, gateway
<1>7. Barred'
  BY <1>1, <1>4, <1>6, ConsumedBarred
<1>8. Buffered'
  <2>1. \A i \in DOMAIN unacknowledged' : unacknowledged'[i].revision = r
    BY <1>1, <1>3, <1>5
  <2> QED BY <1>2, <1>6, <1>7, <2>1 DEF Buffered, At
<1>9. Coming' = barrier' \o Tail(Q)
  BY <1>1, <1>2, <1>5, <1>6 DEF Coming, At
<1>10. ~Adoptable' /\ (UpToDate' <=> UpToDate)
  BY <1>2, <1>6 DEF Adoptable, UpToDate, At
<1>11. shown.lost => shown'.lost
  BY <1>1, <1>4, ConsumedLost, ConcatTyped
<1>12. Whole'
  <2>1. CASE shown'.lost BY <2>1 DEF Whole
  <2>2. CASE ~shown'.lost
    <3>1. ~shown.lost /\ ~shown.gap /\ Chained(barrier \o Q, shown.upto, r)
          /\ (UpToDate => Reaches(barrier \o Q, shown.upto, r, live))
      BY <1>2, <1>11, <2>2 DEF Whole
    <3>2. /\ ~shown'.gap /\ Chained(barrier' \o Tail(Q), shown'.upto, r)
          /\ Reaches(barrier \o Q, shown.upto, r, live)
               => Reaches(barrier' \o Tail(Q), shown'.upto, r, live)
      BY <1>1, <1>4, <2>2, <3>1, ConsumedWhole, ConcatTyped
    <3> QED BY <1>6, <1>9, <1>10, <3>1, <3>2 DEF Whole
  <2> QED BY <2>1, <2>2
<1> QED BY <1>8, <1>12

LEMMA HandleLiveEventWhole ==
  ASSUME Shape, Buffered, Whole, HandleLiveEvent PROVE Buffered' /\ Whole'
<1> DEFINE e == Head(wire)
           r == subscription.revision
           kept == unacknowledged
<1>1. /\ wire # <<>> /\ e \in EnvelopeType /\ Tail(wire) \in Seq(EnvelopeType) /\ e = wire[1]
      /\ 1 \in DOMAIN wire /\ Len(kept) <= BufferLimit /\ e.revision \in Nat
      /\ \A i \in DOMAIN Tail(wire) : i + 1 \in DOMAIN wire /\ Tail(wire)[i] = wire[i + 1]
  <2>1. wire # <<>> /\ wire \in Seq(EnvelopeType) BY ConcatTyped DEF HandleLiveEvent
  <2>2. Len(kept) <= BufferLimit BY DEF Shape, TransportTypeOK
  <2>3. /\ e = wire[1] /\ 1 \in DOMAIN wire /\ e \in EnvelopeType BY <2>1
  <2>4. e.revision \in Nat BY <2>3 DEF EnvelopeType
  <2> QED BY <2>1, <2>2, <2>3, <2>4, TailAt
<1>2. ~At("replay") /\ Coming = barrier \o wire /\ stream.state = "open"
  BY DEF HandleLiveEvent, Turn, Coming
<1>3. Consume(e, kept) /\ subscription \in SubscriptionType /\ UNCHANGED subscription
      /\ BufferTypes /\ Barred
  BY DEF HandleLiveEvent, StreamUnchanged, Shape, TransportTypeOK, BufferTypes, Buffered
<1>4. UNCHANGED <<flight, stream, server, live, subscription>> /\ wire' = Tail(wire)
      /\ flight'.pc = flight.pc
  BY DEF HandleLiveEvent, StreamUnchanged
<1>5. Barred' BY <1>1, <1>3, <1>4, ConcatTyped, ConsumedBarred
<1>6. stream.id = subscription.id /\ subscription # NoSubscription
  BY <1>2, StreamUsed
\* What runs ahead is kept if it is of the revision about to come.
<1>7. CASE unacknowledged' = Append(kept, e) /\ Early(e) /\ e.revision > r /\ UNCHANGED <<shown, barrier>>
  <2>1. At("patch") /\ subscription = flight.call /\ e.revision = flight.call.revision + 1
        /\ stream.id = flight.call.id
    BY <1>6, <1>7 DEF Early, Mutating, At, Shape, Called
  <2>2. e.revision <= server[flight.call.id].revision
    BY <1>1, <2>1 DEF Buffered
  <2>3. Following' = Following
    BY <1>1, <1>4, <1>7, ConcatTyped, Moved DEF Following
  <2>4. Coming' = barrier \o Tail(wire) BY <1>2, <1>4, <1>7 DEF Coming, At
  <2>5. ~Counts(e, r) BY <1>7, ConcatTyped, <1>1 DEF Counts
  <2>6. shown.upto <= shown.upto BY ConcatTyped
  <2>7. /\ Chained(barrier \o wire, shown.upto, r) => Chained(barrier \o Tail(wire), shown.upto, r)
        /\ Reaches(barrier \o wire, shown.upto, r, live)
             => Reaches(barrier \o Tail(wire), shown.upto, r, live)
    BY <1>1, <2>5, <2>6, ConcatTyped, Consumed
  <2>8. (Adoptable' <=> Adoptable) /\ (UpToDate' <=> UpToDate)
    BY <1>4 DEF Adoptable, UpToDate, At
  <2>9. Whole'
    BY <1>2, <1>4, <1>7, <2>3, <2>4, <2>7, <2>8 DEF Whole
  <2>10. \A i \in DOMAIN unacknowledged' :
            /\ unacknowledged'[i].revision = flight.call.revision + 1
            /\ unacknowledged'[i].revision <= server[flight.call.id].revision
    <3>1. \A i \in DOMAIN kept : /\ kept[i].revision = flight.call.revision + 1
                                 /\ kept[i].revision <= server[flight.call.id].revision
      BY <1>2, <2>1 DEF Buffered
    <3> QED BY <1>1, <1>7, <2>1, <2>2, <3>1, ConcatTyped, AppendAt
  <2>11. (\A i \in DOMAIN wire : wire[i].revision <= server[stream.id].revision)'
    BY <1>1, <1>4 DEF Buffered
  <2>12. Buffered' BY <1>4, <1>5, <2>1, <2>10, <2>11 DEF Buffered, At
  <2> QED BY <2>9, <2>12
<1>8. CASE unacknowledged' = kept /\ (e.revision > r => shown'.lost \/ ~Early(e))
  <2>1. (\A i \in DOMAIN wire : wire[i].revision <= server[stream.id].revision)'
    BY <1>1, <1>4 DEF Buffered
  <2>2. Buffered' BY <1>4, <1>5, <1>8, <2>1 DEF Buffered, At
  <2>3. Coming' = barrier' \o Tail(wire) /\ Following' = kept \o Tail(wire)
    BY <1>2, <1>4, <1>8 DEF Coming, Following, At
  <2>4. shown.lost => shown'.lost
    BY <1>1, <1>3, ConsumedLost, ConcatTyped
  <2>5. (Adoptable' <=> Adoptable) /\ (UpToDate' <=> UpToDate)
    BY <1>4 DEF Adoptable, UpToDate, At
  <2>6. ASSUME ~shown'.lost PROVE Whole'
    <3>1. ~shown.lost /\ ~shown.gap /\ Chained(barrier \o wire, shown.upto, r)
          /\ (UpToDate => Reaches(barrier \o wire, shown.upto, r, live))
      BY <1>2, <2>4, <2>6 DEF Whole
    <3>2. /\ ~shown'.gap /\ shown.upto <= shown'.upto
          /\ Chained(barrier' \o Tail(wire), shown'.upto, r)
          /\ Reaches(barrier \o wire, shown.upto, r, live)
               => Reaches(barrier' \o Tail(wire), shown'.upto, r, live)
      BY <1>1, <1>3, <2>6, <3>1, ConsumedWhole, ConcatTyped
    <3>3. ASSUME Adoptable
          PROVE /\ Chained(kept \o Tail(wire), shown'.upto, flight.call.revision + 1)
                /\ Reaches(kept \o Tail(wire), shown'.upto, flight.call.revision + 1, live)
      <4>1. /\ Chained(kept \o wire, shown.upto, flight.call.revision + 1)
            /\ Reaches(kept \o wire, shown.upto, flight.call.revision + 1, live)
        BY <1>2, <3>1, <3>3 DEF Whole, Following
      <4>2. subscription = flight.call
        BY <1>6, <3>3 DEF Adoptable, Shape, Called
      <4>3. ~Counts(e, flight.call.revision + 1)
        BY <1>1, <1>8, <2>6, <3>3, <4>2, ConcatTyped
        DEF Counts, Early, Mutating, Adoptable, At
      <4>4. shown'.upto \in Nat
        BY <1>1, <1>3, ConcatTyped, ConsumeTyped DEF BufferTypes, ShownType
      <4> QED BY <1>1, <3>2, <4>1, <4>3, <4>4, ConcatTyped, Consumed
    <3> QED BY <1>4, <2>3, <2>5, <3>1, <3>2, <3>3 DEF Whole
  <2> QED BY <2>2, <2>6 DEF Whole
<1>9. \/ unacknowledged' = Append(kept, e) /\ Early(e) /\ e.revision > r /\ UNCHANGED <<shown, barrier>>
      \/ unacknowledged' = kept /\ (e.revision > r => shown'.lost \/ ~Early(e))
  <2>1. LoseOne => shown'.lost BY ConcatTyped DEF LoseOne, ShownType
  <2> QED BY <1>1, <1>3, <2>1, ConcatTyped DEF Consume, ConsumeLater
<1> QED BY <1>7, <1>8, <1>9

LEMMA StreamOpensWhole ==
  ASSUME Shape, Buffered, Whole, StreamOpens PROVE Buffered' /\ Whole'
<1> DEFINE b == Baseline(stream.id)
<1>1. stream'.state = "open" /\ stream'.id = stream.id /\ stream.state # "open" /\ stream.id \in Ids
  BY DEF StreamOpens, Shape, TransportTypeOK, StreamType
<1>2. b \in EnvelopeType /\ b.kind = "baseline" /\ b.number = live
      /\ b.revision = server[stream.id].revision
  BY <1>1 DEF Baseline, Shape, TransportTypeOK, ServerType, EnvelopeType
<1> HIDE DEF b
<1>3. wire = <<>> /\ wire' = <<b>> BY <1>1 DEF StreamOpens, Shape, Named, b
<1>4. UNCHANGED <<barrier, unacknowledged, shown, live, subscription, ready, server, flight>>
  BY DEF StreamOpens, StreamUnchanged
<1>5. ~At("replay") BY DEF StreamOpens, Turn
<1>6. <<b>> = Append(<<>>, b) /\ <<>> \in Seq(EnvelopeType) BY <1>2
<1>7. Coming = barrier /\ Coming' = Append(barrier, b)
  BY <1>2, <1>3, <1>4, <1>5, <1>6, ConcatTyped, EmptyConcat, Assoc DEF Coming, At
<1>8. Following = unacknowledged /\ Following' = Append(unacknowledged, b)
  BY <1>2, <1>3, <1>4, <1>6, ConcatTyped, EmptyConcat, Assoc DEF Following
<1>9. Adoptable' <=> Adoptable BY <1>1, <1>4 DEF Adoptable, At
<1>10. \A r : Chained(barrier, shown.upto, r) => Chained(Append(barrier, b), shown.upto, r)
  BY <1>2, ConcatTyped, ChainAppended
<1>11. \A r : Chained(unacknowledged, shown.upto, r) => Chained(Append(unacknowledged, b), shown.upto, r)
  BY <1>2, ConcatTyped, ChainAppended
<1>12. UpToDate' => Reaches(Append(barrier, b), shown.upto, subscription.revision, live)
  <2>1. UpToDate' => Counts(b, subscription.revision) /\ live <= b.number
    BY <1>1, <1>2, <1>4, ConcatTyped DEF UpToDate, Counts
  <2> QED BY <2>1, <1>2, ConcatTyped, ReachesAppended
<1>13. Adoptable => Reaches(Append(unacknowledged, b), shown.upto, flight.call.revision + 1, live)
  <2>1. Adoptable => Counts(b, flight.call.revision + 1) /\ live <= b.number
    BY <1>2, ConcatTyped DEF Adoptable, Counts, Shape, Called
  <2> QED BY <2>1, <1>2, ConcatTyped, ReachesAppended
<1>14. Whole'
  BY <1>4, <1>7, <1>8, <1>9, <1>10, <1>11, <1>12, <1>13 DEF Whole
<1>15. (\A i \in DOMAIN wire : wire[i].revision <= server[stream.id].revision)'
  <2>1. DOMAIN <<b>> = {1} /\ <<b>>[1] = b OBVIOUS
  <2>2. server[stream.id].revision \in Nat BY <1>1 DEF Shape, TransportTypeOK, ServerType
  <2> QED BY <1>1, <1>2, <1>3, <1>4, <2>1, <2>2
<1>16. Buffered' BY <1>1, <1>4, <1>15 DEF Buffered, Barred, At
<1> QED BY <1>14, <1>16

\* The gateway puts one more envelope on the wire.
LEMMA SentWhole ==
  ASSUME Shape, Buffered, Whole, stream.state = "open", NEW e \in EnvelopeType,
         wire' = Append(wire, e), e.revision = server[stream.id].revision,
         UNCHANGED <<client, server>>, live' \in Nat,
         \/ e.kind # "live" /\ live' = live
         \/ e.kind = "live" /\ e.number = live + 1 /\ live' = live + 1
  PROVE Buffered' /\ Whole'
<1>1. stream.id \in Ids /\ server[stream.id].revision \in Nat /\ e.number \in Nat
  BY StreamUsed DEF Shape, TransportTypeOK, ServerType, EnvelopeType
<1>2. UNCHANGED <<barrier, unacknowledged, shown, subscription, ready, server, flight, stream>>
  BY DEF client
<1>3. Following' = Append(Following, e)
  BY <1>2, ConcatTyped, Assoc DEF Following
<1>4. Coming' = Append(Coming, e)
  <2>1. CASE At("replay")
    <3>1. Coming = barrier \o Following /\ Coming' = barrier \o Following'
      BY <1>2, <2>1 DEF Coming, Following, At
    <3>2. barrier \in Seq(EnvelopeType) /\ Following \in Seq(EnvelopeType) BY ConcatTyped
    <3> QED BY <1>3, <3>1, <3>2, Assoc
  <2>2. CASE ~At("replay")
    <3>1. Coming = barrier \o wire /\ Coming' = barrier \o Append(wire, e)
      BY <1>2, <2>2 DEF Coming, At
    <3>2. barrier \in Seq(EnvelopeType) /\ wire \in Seq(EnvelopeType) BY ConcatTyped
    <3> QED BY <3>1, <3>2, Assoc
  <2> QED BY <2>1, <2>2
<1>5. (Adoptable' <=> Adoptable) /\ (UpToDate' <=> UpToDate)
  BY <1>2 DEF Adoptable, UpToDate, At
<1>6. ASSUME NEW s \in Seq(EnvelopeType), NEW r, Chained(s, shown.upto, r),
             e.revision = r => Reaches(s, shown.upto, r, live)
      PROVE /\ Chained(Append(s, e), shown.upto, r)
            /\ e.revision = r => Reaches(Append(s, e), shown.upto, r, live')
  <2>1. e.kind = "live" => e.number - 1 = live
    <3>1. CASE e.kind # "live" BY <3>1
    <3>2. CASE e.kind = "live" /\ e.number = live + 1
      <4>1. live \in Nat BY ConcatTyped
      <4> QED BY <3>2, <4>1
    <3> QED BY <3>1, <3>2
  <2>2. Chained(Append(s, e), shown.upto, r) BY <1>6, <2>1, ConcatTyped, ChainAppended
  <2>3. ASSUME e.revision = r PROVE Reaches(Append(s, e), shown.upto, r, live')
    <3>1. CASE e.kind = "live"
      <4>1. Counts(e, r) BY <2>3, <3>1 DEF Counts
      <4>2. live' <= e.number BY <1>1, <3>1
      <4> QED BY <4>1, <4>2, ReachesAppended
    <3>2. CASE e.kind # "live"
      BY <1>6, <2>3, <3>2, ReachesAppended
    <3> QED BY <3>1, <3>2
  <2> QED BY <2>2, <2>3
<1>7. ASSUME ~shown.lost
      PROVE /\ ~shown.gap /\ Chained(Coming, shown.upto, subscription.revision)
            /\ UpToDate => Reaches(Coming, shown.upto, subscription.revision, live)
            /\ Adoptable => /\ Chained(Following, shown.upto, flight.call.revision + 1)
                            /\ Reaches(Following, shown.upto, flight.call.revision + 1, live)
  BY <1>7 DEF Whole
<1>8. ASSUME ~shown.lost
      PROVE /\ Chained(Append(Coming, e), shown.upto, subscription.revision)
            /\ UpToDate => Reaches(Append(Coming, e), shown.upto, subscription.revision, live')
  BY <1>6, <1>7, <1>8, ConcatTyped DEF UpToDate
<1>9. ASSUME ~shown.lost, Adoptable
      PROVE /\ Chained(Append(Following, e), shown.upto, flight.call.revision + 1)
            /\ Reaches(Append(Following, e), shown.upto, flight.call.revision + 1, live')
  <2>1. e.revision = flight.call.revision + 1
    BY <1>9 DEF Adoptable, Shape, Called
  <2> QED BY <1>6, <1>7, <1>9, <2>1, ConcatTyped
<1>10. Whole'
  BY <1>2, <1>3, <1>4, <1>5, <1>7, <1>8, <1>9 DEF Whole
<1>11. (\A i \in DOMAIN wire : wire[i].revision <= server[stream.id].revision)'
  <2>1. wire \in Seq(EnvelopeType) BY ConcatTyped
  <2>2. \A i \in DOMAIN wire : wire[i].revision <= server[stream.id].revision
    BY Zenon DEF Buffered
  <2>3. /\ DOMAIN wire' = 1 .. Len(wire) + 1 /\ wire'[Len(wire) + 1] = e
        /\ \A i \in 1 .. Len(wire) : wire'[i] = wire[i]
        /\ DOMAIN wire = 1 .. Len(wire) /\ Len(wire) \in Nat
    BY <2>1, AppendAt
  <2>4. \A i \in DOMAIN wire' : i \in DOMAIN wire \/ i = Len(wire) + 1 BY <2>3
  <2>5. \A i \in DOMAIN wire' : wire'[i].revision <= server[stream.id].revision
    BY <1>1, <2>2, <2>3, <2>4
  <2> QED BY <1>2, <2>5
<1>12. Buffered' BY <1>2, <1>11 DEF Buffered, Barred, At
<1> QED BY <1>10, <1>12

LEMMA GatewaySendsWhole ==
  ASSUME Shape, Buffered, Whole, Announce \/ Publish \/ Resync PROVE Buffered' /\ Whole'
<1>1. UNCHANGED <<client, server>> BY DEF Announce, Publish, Resync, SendUnchanged
<1>2. ASSUME NEW kind \in {"ready", "live", "resync"}, NEW number \in Nat, stream.state = "open"
      PROVE [kind |-> kind, revision |-> server[stream.id].revision, number |-> number]
              \in EnvelopeType
  <2>1. server[stream.id].revision \in Nat
    BY <1>2, StreamUsed DEF Shape, TransportTypeOK, ServerType
  <2> QED BY <2>1 DEF EnvelopeType
<1>3. CASE Announce \/ Resync
  <2>1. PICK kind \in {"ready", "resync"} : Send(kind, live) /\ live' = live /\ stream.state = "open"
    BY <1>3 DEF Announce, Resync
  <2>2. PICK e \in EnvelopeType :
          wire' = Append(wire, e) /\ e.kind = kind /\ e.revision = server[stream.id].revision
    BY <1>2, <2>1, ConcatTyped DEF Send
  <2> QED BY <1>1, <2>1, <2>2, SentWhole, ConcatTyped
<1>4. CASE Publish /\ stream.state = "open"
  <2>1. Send("live", live + 1) /\ live' = live + 1 /\ live + 1 \in Nat
    BY <1>4, ConcatTyped DEF Publish
  <2>2. PICK e \in EnvelopeType :
          /\ wire' = Append(wire, e) /\ e.kind = "live" /\ e.revision = server[stream.id].revision
          /\ e.number = live + 1
    BY <1>2, <1>4, <2>1 DEF Send
  <2> QED BY <1>1, <1>4, <2>1, <2>2, SentWhole
<1>5. CASE Publish /\ stream.state # "open"
  <2>1. UNCHANGED <<wire, client, server>> BY <1>1, <1>5 DEF Publish
  <2>2. UNCHANGED <<barrier, unacknowledged, shown, subscription, ready, server, flight, stream, wire>>
    BY <2>1 DEF client
  <2>3. Coming' = Coming /\ Following' = Following BY <2>2 DEF Coming, Following, At
  <2>4. ~UpToDate' /\ (Adoptable' <=> Adoptable) BY <1>5, <2>2 DEF UpToDate, Adoptable, At
  <2>5. Whole' BY <1>5, <2>2, <2>3, <2>4 DEF Whole
  <2>6. Buffered' BY <2>2 DEF Buffered, Barred, At
  <2> QED BY <2>5, <2>6
<1> QED BY <1>3, <1>4, <1>5

\* The gateway makes the next revision; its baseline comes first.
LEMMA ServePatchWhole ==
  ASSUME Shape, Buffered, Whole, ServePatch PROVE Buffered' /\ Whole'
<1> DEFINE id == flight.call.id
           r == flight.call.revision + 1
<1>1. /\ At("patch") /\ flight.reply = "sent" /\ id \in Ids /\ ~At("replay")
      /\ subscription \in {flight.call, NoSubscription} /\ flight.call.revision \in Nat
      /\ flight'.pc = "patch" /\ flight'.call = flight.call
      /\ UNCHANGED <<barrier, unacknowledged, shown, subscription, ready, stream, live>>
  BY ServePatchTyped, ConcatTyped DEF ServePatch, GatewayUnchanged, ClientWaits, At, Shape, Called, Used
<1>2. CASE flight'.reply = "failed"
  <2>1. UNCHANGED <<server, wire>> BY <1>2, ServePatchTyped
  <2>2. Untouched BY <1>1, <1>2, <2>1 DEF Untouched, At
  <2> QED BY <2>2, UntouchedWhole
<1>3. CASE flight'.reply = "ok"
  <2>1. /\ server[id].revision = flight.call.revision /\ server'[id].revision = r
        /\ server[id].state = "live"
        /\ \A i \in Ids \ {id} : server'[i] = server[i]
    BY <1>3, ServePatchTyped
  <2>2. unacknowledged = <<>>
    <3>1. \A i \in DOMAIN unacknowledged : FALSE
      BY <1>1, <2>1 DEF Buffered
    <3>2. DOMAIN unacknowledged = {} BY <3>1
    <3> QED BY <3>2, ConcatTyped
  <2>3. stream.state = "open" => stream.id = id /\ subscription = flight.call
    BY <1>1, StreamUsed
  <2>4. PICK b \in EnvelopeType : b = [kind |-> "baseline", revision |-> r, number |-> live]
    <3>1. [kind |-> "baseline", revision |-> r, number |-> live] \in EnvelopeType
      BY <1>1, ConcatTyped DEF EnvelopeType
    <3> QED BY <3>1
  <2>5. b.kind = "baseline" /\ b.revision = r /\ b.number = live BY <2>4
  <2>6. wire' = IF stream.state = "open" THEN Append(wire, b) ELSE wire
    BY <2>1, <2>3, <2>4 DEF ServePatch
  <2>7. Following = wire /\ Following' = wire'
    BY <1>1, <2>2, <2>6, ConcatTyped, EmptyConcat, AppendAt DEF Following
  <2>8. Coming = barrier \o wire /\ Coming' = barrier \o wire'
    BY <1>1 DEF Coming, At
  <2>9. CASE stream.state = "open"
    <3>1. stream.id = id /\ subscription = flight.call BY <2>3, <2>9
    <3>2. \A i \in DOMAIN wire : wire[i].revision < r /\ wire[i].revision \in Nat
      BY <1>1, <2>1, <3>1, ConcatTyped, EnvelopeNumber DEF Buffered
    <3>3. Chained(wire, shown.upto, r) BY <3>2, <1>1 DEF Chained
    <3>4. Chained(Append(wire, b), shown.upto, r) BY <2>5, <3>3, ConcatTyped, ChainAppended
    <3>5. Reaches(Append(wire, b), shown.upto, r, live)
      BY <2>5, ConcatTyped, ReachesAppended DEF Counts
    <3>6. Coming' = Append(Coming, b) BY <2>6, <2>8, <2>9, ConcatTyped, Assoc
    <3>7. Chained(Coming, shown.upto, subscription.revision)
            => Chained(Append(Coming, b), shown.upto, subscription.revision)
      BY <2>5, ConcatTyped, ChainAppended
    <3>8. ~UpToDate'
      BY <1>1, <2>1, <3>1 DEF UpToDate
    <3>9. Whole' BY <1>1, <2>6, <2>7, <2>9, <3>4, <3>5, <3>6, <3>7, <3>8 DEF Whole
    <3>10. (\A i \in DOMAIN wire : wire[i].revision <= server[stream.id].revision)'
      <4>1. wire \in Seq(EnvelopeType) /\ wire' = Append(wire, b) BY <2>6, <2>9, ConcatTyped
      <4>2. /\ DOMAIN wire' = 1 .. Len(wire) + 1 /\ wire'[Len(wire) + 1] = b
            /\ \A i \in 1 .. Len(wire) : wire'[i] = wire[i]
            /\ DOMAIN wire = 1 .. Len(wire) /\ Len(wire) \in Nat
        BY <4>1, AppendAt
      <4>3. server'[stream'.id].revision = r /\ r \in Nat BY <1>1, <2>1, <3>1, ConcatTyped
      <4>4. \A i \in DOMAIN wire' : i \in DOMAIN wire \/ i = Len(wire) + 1 BY <4>2
      <4>5. \A i \in DOMAIN wire' : wire'[i].revision <= r
        BY <2>5, <3>2, <4>2, <4>3, <4>4
      <4> QED BY <4>3, <4>5
    <3>11. DOMAIN unacknowledged' = {} BY <1>1, <2>2
    <3> QED BY <1>1, <3>9, <3>10, <3>11 DEF Buffered, Barred
  <2>10. CASE stream.state # "open"
    <3>1. wire = <<>> /\ wire' = <<>> BY <2>6, <2>10 DEF Shape, Named
    <3>2. Coming' = Coming /\ Following' = <<>> BY <2>7, <2>8, <3>1
    <3>3. ~UpToDate' BY <1>1, <2>10 DEF UpToDate
    <3>4. Whole' BY <1>1, <2>10, <3>2, <3>3, EmptyFollows DEF Whole
    <3>5. DOMAIN unacknowledged' = {} /\ DOMAIN wire' = {} BY <1>1, <2>2, <3>1
    <3> QED BY <1>1, <3>4, <3>5 DEF Buffered, Barred
  <2> QED BY <2>9, <2>10
<1> QED BY <1>2, <1>3, ServePatchTyped

\* A repeated patch gives up the claim that nothing is missing.
LEMMA ServePatchAgainWhole ==
  ASSUME Shape, Buffered, Whole, ServePatchAgain PROVE Buffered' /\ Whole'
<1>1. shown'.lost BY DEF ServePatchAgain, LoseOne, Shape, TransportTypeOK, ShownType
<1>2. /\ UNCHANGED <<barrier, unacknowledged, wire, subscription, ready, stream, server>>
      /\ flight'.pc = flight.pc /\ flight'.call = flight.call
  BY ReplyTyped DEF ServePatchAgain, ClientWaits, Shape
<1>3. Buffered' BY <1>2 DEF Buffered, Barred, At
<1> QED BY <1>1, <1>3 DEF Whole

LEMMA StepWhole == Shape /\ Buffered /\ Whole /\ [TransportNext]_transportVars => Buffered' /\ Whole'
<1> SUFFICES ASSUME Shape, Buffered, Whole, [TransportNext]_transportVars
             PROVE Buffered' /\ Whole'
  OBVIOUS
<1>1. ASSUME NEW s \in Sources, OpenLiveSource(s) \/ CloseSource(s) PROVE Buffered' /\ Whole'
  <2>1. sources \cup {s} \in SUBSET Sources /\ sources \ {s} \in SUBSET Sources
    BY <1>1 DEF Shape, TransportTypeOK
  <2> QED BY <1>1, <2>1, ChangeWhole DEF OpenLiveSource, CloseSource
<1>2. ASSUME Synchronize PROVE Buffered' /\ Whole'
  BY <1>2, LoopEmptyWhole, LoopWhole, DeletedLastWhole, ClaimWhole, AcknowledgedWhole,
     ReplayWhole, AdoptedWhole, SyncFailedWhole DEF Synchronize
<1>3. ASSUME Timer PROVE Buffered' /\ Whole'
  BY <1>3, RecreateWhole, FaultWhole DEF Timer
<1>4. ASSUME Physical \/ StreamBreaks PROVE Buffered' /\ Whole'
  BY <1>4, StreamOpensWhole, StreamErrsWhole, HandleLiveEventWhole
  DEF Physical, StreamRefused, StreamBreaks
<1>5. ASSUME Serve PROVE Buffered' /\ Whole'
  BY <1>5, ServeWhole, ServePatchWhole, ServePatchAgainWhole DEF Serve
<1>6. CASE UNCHANGED transportVars
  <2>1. Untouched BY <1>6 DEF Untouched, transportVars, client, gateway
  <2> QED BY <2>1, UntouchedWhole
<1> QED
  BY <1>1, <1>2, <1>3, <1>4, <1>5, <1>6, FaultWhole, GatewaySendsWhole DEF TransportNext

\* No live event overtakes the one before it, whatever revisions, barriers,
\* overtaken answers and reconnects come together, unless a buffer of the client was
\* full or a patch was repeated under its key (consumeEnvelope, deliverEnvelope, synchronize).
THEOREM NothingIsSkipped == TransportSpec => []NoGap
<1>1. Whole => NoGap BY DEF Whole, NoGap
<1> QED
  BY <1>1, TransportInitShape, TransportInitWhole, TransportStepShape, StepWhole, PTL
  DEF TransportSpec
=============================================================================
