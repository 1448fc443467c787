--------------------------- MODULE ChatAttachment ---------------------------
(***************************************************************************)
(* stores/chatSessions.ts: how one session of the WebUI is attached to the *)
(* gateway, as a reader or as a writer with a lease.  Everything that      *)
(* attaches, writes, releases or detaches is queued on one lane            *)
(* (serializeAttachment) and makes its calls one after the other; a        *)
(* revocation of authorization, a close, the end of a turn and the UI do   *)
(* not wait for the lane.                                                  *)
(*                                                                         *)
(* The gateway is external: a call can be refused, or its answer lost, and *)
(* it can take presence and lease back.                                    *)
(***************************************************************************)
EXTENDS Integers, Sequences

CONSTANTS
  MaxLane,     \* bound: operations queued
  MaxUses,     \* bound: what the user does
  MaxFaults,   \* bound: calls that fail, losses at the gateway
  MaxRevokes   \* bound: revocations

ASSUME AttachmentAssumption == {MaxLane, MaxUses, MaxFaults, MaxRevokes} \subseteq Nat

VARIABLES
  role,        \* attachmentRole
  writable,
  blocked,     \* reconnectBlocked
  submitting,
  turn,        \* "none", "submitted" (pending) or "running"
  timer,       \* a presence heartbeat is scheduled
  lane,        \* attachmentFlights: queued operations, the first one running
  job,         \* where the running one is
  gateway,     \* the role and the lease the gateway has for it
  kept,        \* why a lease may outlive its use (history)
  taken,       \* the gateway took something back (history)
  uses, faults, revokes

state == <<role, writable, blocked, submitting, turn>>
bounds == <<uses, faults, revokes>>
vars == <<state, timer, lane, job, gateway, kept, taken, bounds>>

hasActivePrimaryTurn == turn # "none"

\* at: the call under way; tries: failed attempts; invalid: attachmentEpoch has
\* moved since it began; stale: authorization has changed since the call was
\* sent, so that client.ts refuses the answer.
Idle == [at |-> "idle", tries |-> 0, invalid |-> FALSE, stale |-> FALSE]

\* by: who asked for a writer mutation; keep: retainedWriter and the like, or
\* supplementing; old: submissionEpoch has moved.
Op(kind) == [kind |-> kind, by |-> "", keep |-> FALSE, old |-> FALSE]
Mutation(by, keep) == [kind |-> "write", by |-> by, keep |-> keep, old |-> FALSE]

Init ==
  /\ role = "detached" /\ turn = "none"
  /\ writable = FALSE /\ blocked = FALSE /\ submitting = FALSE /\ timer = FALSE
  /\ lane = <<>> /\ job = Idle
  /\ gateway = [role |-> "detached", lease |-> FALSE]
  /\ kept = {} /\ taken = FALSE /\ uses = 0 /\ faults = 0 /\ revokes = 0

-----------------------------------------------------------------------------
(* What does not wait for the lane. *)

Use ==
  /\ Len(lane) < MaxLane /\ uses < MaxUses /\ uses' = uses + 1
  /\ UNCHANGED <<job, gateway, taken, faults, revokes>>
Queue(op) == lane' = Append(lane, op)

\* open()
Open ==
  /\ Use /\ ~blocked /\ Queue(Op("reader"))
  /\ UNCHANGED <<state, timer, kept>>

\* send()
Send ==
  /\ Use /\ ~submitting
  /\ submitting' = TRUE
  /\ turn' = IF hasActivePrimaryTurn THEN turn ELSE "submitted"
  /\ Queue(Mutation("send", hasActivePrimaryTurn))
  /\ UNCHANGED <<role, writable, blocked, timer, kept>>

\* runSessionCommandMutation()
Command ==
  /\ Use
  /\ Queue(Mutation("command", (role = "writer" /\ writable) \/ hasActivePrimaryTurn))
  /\ UNCHANGED <<state, timer, kept>>

\* stop()
Stop ==
  /\ Use /\ hasActivePrimaryTurn
  /\ Queue(Mutation("stop", FALSE))
  /\ UNCHANGED <<state, timer, kept>>

\* attachSurface(), of the runtime page: a writer until it is given back.
Attach ==
  /\ Use /\ Queue(Op("surface"))
  /\ UNCHANGED <<state, timer, kept>>

\* detachSurface(), of the same page.
Detach ==
  /\ Use /\ Queue(Op("detach"))
  /\ UNCHANGED <<state, timer, kept>>

\* close()
Close ==
  /\ Use /\ writable' = FALSE
  /\ lane' = IF role = "detached" THEN lane ELSE Append(lane, Op("detach"))
  /\ UNCHANGED <<role, blocked, submitting, turn, timer, kept>>

\* A turn another surface started, and the end of a turn: releaseWriter().
TurnStarts ==
  /\ Use /\ ~blocked /\ turn = "none" /\ turn' = "running"
  /\ UNCHANGED <<role, writable, blocked, submitting, timer, lane, kept>>

TurnEnds ==
  /\ turn = "running" \/ (turn = "submitted" /\ job.at = "post" /\ lane[1].by = "send")
  /\ turn' = "none"
  /\ Len(lane) < MaxLane /\ Queue(Op("release"))
  /\ UNCHANGED <<role, writable, blocked, submitting, timer, job, gateway, kept, taken, bounds>>

\* clearSessionAuthorizationState(), always together with a new authorization
\* epoch of the client.
Revoke ==
  /\ revokes < MaxRevokes /\ revokes' = revokes + 1
  /\ role' = "detached" /\ writable' = FALSE /\ blocked' = TRUE
  /\ submitting' = FALSE /\ turn' = "none" /\ timer' = FALSE
  /\ lane' = [i \in DOMAIN lane |-> [lane[i] EXCEPT !.old = TRUE]]
  /\ job' = [job EXCEPT !.invalid = (job.at # "idle"), !.stale = (job.at # "idle")]
  /\ kept' = kept \cup {"revoked"}
  /\ UNCHANGED <<gateway, taken, uses, faults>>

\* login: another authorization epoch, then refreshAuthorization().
Refresh ==
  /\ blocked /\ blocked' = FALSE
  /\ Len(lane) < MaxLane /\ Queue(Op("reader"))
  /\ job' = [job EXCEPT !.stale = (job.at # "idle")]
  /\ UNCHANGED <<role, writable, submitting, turn, timer, gateway, kept, taken, bounds>>

\* The heartbeat's timer.
Beat ==
  /\ timer /\ timer' = FALSE
  /\ Len(lane) < MaxLane /\ Queue(Op("beat"))
  /\ UNCHANGED <<state, job, gateway, kept, taken, bounds>>

-----------------------------------------------------------------------------
(* The calls. *)

Releasing == {"release", "free", "undoRelease", "catchRelease"}
Detaching == {"leave", "undoDetach", "catchDetach"}

\* What the gateway does of a call.
Effect(call) ==
  CASE call \in {"reader", "fallback", "demote", "beatReader"} -> [gateway EXCEPT !.role = "reader"]
    [] call \in {"writer", "beatWriter"} -> [gateway EXCEPT !.role = "writer"]
    [] call = "acquire"   -> [gateway EXCEPT !.lease = TRUE]
    [] call \in Releasing -> [gateway EXCEPT !.lease = FALSE]
    [] call \in Detaching -> [gateway EXCEPT !.role = "detached"]
    [] call = "post"      -> gateway

\* A call is answered; good: client.ts returns the answer.
Answer(call, good) ==
  /\ job.at = call
  /\ \/ gateway' = Effect(call) /\ good = ~job.stale /\ UNCHANGED faults
     \/ /\ faults < MaxFaults /\ faults' = faults + 1 /\ ~good
        /\ gateway' \in {gateway, Effect(call)}
  /\ UNCHANGED <<uses, revokes>>

\* mutant of invalidated: the epoch is not compared.
invalidatedNow == blocked

invalidated == job.invalid \/ blocked

\* What is left of a lease: nothing, or the reason it is there.
Keep(why) == kept' = IF gateway'.lease THEN kept \cup why ELSE {}
Kept == Keep({})

Call(at) == job' = [job EXCEPT !.at = at, !.stale = FALSE] /\ UNCHANGED <<lane, submitting, turn>>
Retry(at) == job' = [job EXCEPT !.at = at, !.stale = FALSE, !.tries = @ + 1]
             /\ UNCHANGED <<lane, submitting, turn>>
Done == lane' = Tail(lane) /\ job' = Idle
Finish == Done /\ UNCHANGED <<submitting, turn>>
DoneThenRelease == lane' = Append(Tail(lane), Op("release")) /\ job' = Idle

\* The caller of a writer mutation goes on; accepted: attached, and the request
\* was answered.
Settled == submitting' = (submitting /\ lane[1].old)

Sent(accepted) ==
  /\ lane[1].by = "send" /\ Settled
  /\ IF accepted \/ lane[1].old \/ blocked \/ lane[1].keep
     THEN /\ Done
          /\ turn' = IF accepted /\ ~lane[1].old /\ ~lane[1].keep THEN "running" ELSE turn
     ELSE DoneThenRelease /\ turn' = "none"

\* mutant of Commanded: the lease is left to the next turn.
CommandedOnly == lane[1].by = "command" /\ UNCHANGED <<submitting, turn>> /\ Done

Commanded ==
  /\ lane[1].by = "command" /\ UNCHANGED <<submitting, turn>>
  /\ IF ~lane[1].keep /\ ~hasActivePrimaryTurn /\ role' = "writer" THEN DoneThenRelease ELSE Done

Stopped(accepted) ==
  /\ lane[1].by = "stop" /\ UNCHANGED <<submitting, turn>>
  /\ Done \/ (accepted /\ DoneThenRelease)

Return(accepted) ==
  \/ lane[1].kind = "surface" /\ Finish
  \/ lane[1].kind = "write" /\ (Sent(accepted) \/ Commanded \/ Stopped(accepted))

Begin(kind) ==
  /\ lane # <<>> /\ job.at = "idle" /\ lane[1].kind = kind
  /\ UNCHANGED <<blocked, gateway, bounds>>

Detached == role' = "detached" /\ writable' = FALSE
AsReader == role' = "reader" /\ writable' = FALSE /\ timer' = TRUE
Same == UNCHANGED <<role, writable, timer>>

-----------------------------------------------------------------------------
(* attachReader *)

ReaderBegins ==
  /\ Begin("reader") /\ Same /\ UNCHANGED <<kept, taken>>
  /\ IF role # "detached" THEN Finish ELSE Call("reader")

ReaderAnswered ==
  \E good \in BOOLEAN :
    /\ Answer("reader", good) /\ Kept /\ UNCHANGED <<blocked, taken>>
    /\ CASE good /\ invalidated  -> Call("undoDetach") /\ Same
         [] good /\ ~invalidated -> Finish /\ AsReader
         [] ~good /\ invalidated -> Finish /\ Same
         [] OTHER                -> Finish /\ Detached /\ UNCHANGED timer

-----------------------------------------------------------------------------
(* attachWriterLocked, and the mutation that follows it *)

\* mutant of WriterBegins: a mutation relies on the role that is cached.
WriterBeginsCached ==
  /\ Begin("surface") \/ Begin("write")
  /\ Same
  /\ IF role = "writer" /\ writable
     THEN IF lane[1].kind = "surface" THEN Finish /\ kept' = kept \cup {"asked"} /\ UNCHANGED taken
          ELSE Call("post") /\ UNCHANGED kept /\ taken' = FALSE
     ELSE Call("writer") /\ UNCHANGED kept /\ taken' = FALSE

\* forceServerReaffirmation: a mutation asks the gateway whatever is cached.
WriterBegins ==
  /\ Begin("surface") \/ Begin("write")
  /\ Same
  /\ IF lane[1].kind = "surface" /\ role = "writer" /\ writable
     THEN Finish /\ kept' = kept \cup {"asked"} /\ UNCHANGED taken
     ELSE Call("writer") /\ UNCHANGED kept /\ taken' = FALSE

WriterAnswered ==
  \E good \in BOOLEAN :
    /\ Answer("writer", good) /\ Keep(IF good THEN {} ELSE {"refused"}) /\ Same
    /\ UNCHANGED <<blocked, taken, lane, submitting, turn>>
    /\ job' = [job EXCEPT !.stale = FALSE,
                 !.at = CASE good /\ invalidated -> "undoRelease"
                          [] good /\ ~invalidated -> "acquire"
                          [] ~good /\ invalidated -> "refused"
                          [] OTHER               -> "fallback"]

LeaseAnswered ==
  \E good \in BOOLEAN :
    /\ Answer("acquire", good) /\ UNCHANGED <<blocked, taken>>
    /\ CASE ~good                -> Call("catchRelease") /\ Same /\ Kept
         [] good /\ invalidated  -> Call("undoRelease") /\ Same /\ Kept
         [] good /\ ~invalidated ->
              /\ role' = "writer" /\ writable' = TRUE /\ timer' = TRUE
              /\ kept' = IF lane[1].kind = "surface" THEN {"asked"} ELSE kept \cap {"asked"}
              /\ IF lane[1].kind = "write" THEN Call("post") ELSE Return(TRUE)

\* The request itself.
Posted ==
  \E good \in BOOLEAN :
    /\ Answer("post", good) /\ Same /\ UNCHANGED <<blocked, taken>>
    /\ Keep(IF lane[1].old THEN {"revoked"}
            ELSE IF lane[1].by = "command" /\ lane[1].keep /\ ~hasActivePrimaryTurn
                 THEN {"retained"} ELSE {})
    /\ Return(good)

\* Revoked while the first call failed: nothing more is called.
WriterRefused ==
  /\ job.at = "refused" /\ Same /\ Return(FALSE)
  /\ UNCHANGED <<blocked, gateway, kept, taken, bounds>>

\* The lease may have been acquired all the same; a failure is not looked at.
CatchReleased ==
  \E good \in BOOLEAN :
    /\ Answer("catchRelease", good) /\ Keep({"unheard"}) /\ Same /\ UNCHANGED <<blocked, taken>>
    /\ IF invalidated THEN Return(FALSE) ELSE Call("fallback")

FallbackAnswered ==
  \E good \in BOOLEAN :
    /\ Answer("fallback", good) /\ Kept /\ UNCHANGED <<blocked, taken>>
    /\ CASE ~good                -> Call("catchDetach") /\ Same
         [] good /\ invalidated  -> Call("undoRelease") /\ Same
         [] good /\ ~invalidated -> AsReader /\ Return(FALSE)

CatchDetached ==
  \E good \in BOOLEAN :
    /\ Answer("catchDetach", good) /\ Kept /\ UNCHANGED <<blocked, taken, timer>>
    /\ Detached /\ Return(FALSE)

\* compensateRevokedAttachment, and the detach that ends the others.
UndoReleased ==
  \E good \in BOOLEAN :
    /\ Answer("undoRelease", good) /\ Keep({"unheard"}) /\ Same /\ UNCHANGED <<blocked, taken>>
    /\ Call("undoDetach")

UndoDetached ==
  \E good \in BOOLEAN :
    /\ Answer("undoDetach", good) /\ Kept /\ Same /\ UNCHANGED <<blocked, taken>>
    /\ IF lane[1].kind \in {"surface", "write"} THEN Return(FALSE) ELSE Finish

-----------------------------------------------------------------------------
(* releaseWriter, detachSurface and the heartbeat *)

ReleaseBegins ==
  /\ Begin("release") /\ UNCHANGED <<role, timer, kept, taken>>
  /\ IF role = "writer" THEN Call("release") /\ UNCHANGED writable ELSE Finish /\ writable' = FALSE

\* mutant of ReleaseFails: the tab still looks writable.
ReleaseFailsWritable ==
  /\ UNCHANGED writable
  /\ IF job.tries < 2 THEN Retry("release") /\ Kept ELSE Finish /\ Keep({"gaveUp"})

\* Three attempts.
ReleaseFails ==
  IF job.tries < 2 THEN Retry("release") /\ UNCHANGED writable /\ Kept
  ELSE Finish /\ writable' = FALSE /\ Keep({"gaveUp"})

ReleaseAnswered ==
  \E good \in BOOLEAN :
    /\ Answer("release", good) /\ UNCHANGED <<blocked, taken, role, timer>>
    /\ CASE invalidated          -> Finish /\ UNCHANGED writable /\ Kept
         [] good /\ ~invalidated -> Call("demote") /\ UNCHANGED writable /\ Kept
         [] OTHER                -> ReleaseFails

DemoteAnswered ==
  \E good \in BOOLEAN :
    /\ Answer("demote", good) /\ UNCHANGED <<blocked, taken>>
    /\ CASE good /\ invalidated  -> Call("undoDetach") /\ Same /\ Kept
         [] good /\ ~invalidated -> Finish /\ AsReader /\ Kept
         [] ~good /\ invalidated -> Finish /\ Same /\ Kept
         [] OTHER                -> ReleaseFails /\ UNCHANGED <<role, timer>>

DetachBegins ==
  /\ Begin("detach") /\ writable' = FALSE /\ UNCHANGED <<role, timer, kept, taken>>
  /\ CASE role = "detached" -> Finish
       [] role = "writer"   -> Call("free")
       [] OTHER             -> Call("leave")

FreeAnswered ==
  \E good \in BOOLEAN :
    /\ Answer("free", good) /\ UNCHANGED <<blocked, taken, role, writable, timer>>
    /\ CASE good          -> Call("leave") /\ Kept
         [] ~good /\ job.tries < 2 -> Retry("free") /\ Kept
         [] OTHER         -> Finish /\ Keep({"gaveUp"})

LeaveAnswered ==
  \E good \in BOOLEAN :
    /\ Answer("leave", good) /\ Finish /\ Kept /\ UNCHANGED <<blocked, taken, writable>>
    /\ IF good THEN role' = "detached" /\ timer' = FALSE ELSE UNCHANGED <<role, timer>>

BeatBegins ==
  /\ Begin("beat") /\ Same /\ UNCHANGED <<kept, taken>>
  /\ IF blocked \/ role = "detached" THEN Finish
     ELSE Call(IF role = "writer" THEN "beatWriter" ELSE "beatReader")

BeatAnswered ==
  \E good \in BOOLEAN, call \in {"beatReader", "beatWriter"} :
    /\ Answer(call, good) /\ Finish /\ Kept /\ UNCHANGED <<blocked, taken, role, writable>>
    /\ timer' = (timer \/ good \/ (~blocked /\ role # "detached"))

\* Another document, or the end of a lease at the gateway.
Taken ==
  /\ faults < MaxFaults /\ faults' = faults + 1 /\ taken' = TRUE
  /\ gateway' \in [role : {"detached", "reader", "writer"}, lease : {FALSE}]
  /\ kept' = {}
  /\ UNCHANGED <<state, timer, lane, job, uses, revokes>>

Calls ==
  \/ ReaderBegins \/ ReaderAnswered \/ WriterBegins \/ WriterAnswered \/ LeaseAnswered
  \/ Posted \/ WriterRefused \/ CatchReleased \/ FallbackAnswered \/ CatchDetached
  \/ UndoReleased \/ UndoDetached \/ ReleaseBegins \/ ReleaseAnswered \/ DemoteAnswered
  \/ DetachBegins \/ FreeAnswered \/ LeaveAnswered \/ BeatBegins \/ BeatAnswered

Next ==
  \/ Open \/ Send \/ Command \/ Stop \/ Attach \/ Detach \/ Close
  \/ TurnStarts \/ TurnEnds \/ Revoke \/ Refresh \/ Beat \/ Taken \/ Calls

Spec == Init /\ [][Next]_vars

-----------------------------------------------------------------------------
Positions ==
  {"idle", "refused", "post", "reader", "fallback", "demote", "writer", "acquire",
   "beatReader", "beatWriter"} \cup Releasing \cup Detaching

\* Types, and what goes with them: a tab without authorization is detached and
\* has no heartbeat to come, and no call is made more than three times.
TypeOK ==
  /\ role \in {"detached", "reader", "writer"} /\ (writable => role = "writer")
  /\ turn \in {"none", "submitted", "running"}
  /\ blocked => role = "detached" /\ ~timer
  /\ job.at \in Positions /\ job.tries \in 0 .. 2 /\ (job.at # "idle" => lane # <<>>)
  /\ gateway \in [role : {"detached", "reader", "writer"}, lease : BOOLEAN]

\* A request is only under way, and a tab at rest only shows itself as writable,
\* while the gateway has this tab as a writer with a lease, unless it took them
\* back since: no demotion, detach, heartbeat or release of the same tab comes in
\* between, whichever of its calls fails or loses its answer.
AdmittedByLease ==
  (job.at = "post" \/ (lane = <<>> /\ writable)) /\ ~taken =>
    gateway = [role |-> "writer", lease |-> TRUE]

\* A lease at rest belongs to a turn, unless a person asked for it ("asked"), a
\* command counted on the one before ("retained"), it was revoked ("revoked"),
\* its answer or its release was refused or lost ("refused", "unheard"), or every
\* attempt to release it failed ("gaveUp").
IdleHoldsNoLease == lane = <<>> /\ turn = "none" /\ gateway.lease => kept # {}

\* An operation that was under way when authorization was revoked changes
\* nothing of what was attached since.
RevokedIsFenced ==
  [][job.invalid => role' \in {role, "detached"} /\ (writable' => writable)]_vars

=============================================================================
