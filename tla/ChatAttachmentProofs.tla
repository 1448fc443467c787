------------------------ MODULE ChatAttachmentProofs ------------------------
(***************************************************************************)
(* For any operations queued, uses, faults and revocations: an operation   *)
(* that was under way when authorization was revoked attaches nothing any  *)
(* more; a request is only sent with the role and the lease; and no lease  *)
(* is left without a turn, a release that is queued, or a reason.          *)
(***************************************************************************)
EXTENDS ChatAttachment, TLAPS

Jobs == [at : Positions, tries : Nat, invalid : BOOLEAN, stale : BOOLEAN]

\* The epoch is only compared by an operation under way: the first step of an
\* operation looks at the role without comparing, so that it has to find a job
\* that no revocation has seen.
Fenced == job \in Jobs /\ (job.invalid => job.at # "idle")

\* What a step may do to what was attached since.
Keeps == role' \in {role, "detached"} /\ (writable' => writable)

-----------------------------------------------------------------------------
LEMMA PlacesKnown ==
  Positions = {"idle", "refused", "post", "reader", "fallback", "demote", "writer", "acquire",
               "beatReader", "beatWriter", "release", "free", "undoRelease", "catchRelease",
               "leave", "undoDetach", "catchDetach"}
  BY DEF Positions, Releasing, Detaching

LEMMA IdleFenced == Fenced /\ job' = Idle => Fenced'
  BY PlacesKnown DEF Fenced, Jobs, Idle

LEMMA DoneFenced ==
  ASSUME Fenced, Finish \/ Done \/ DoneThenRelease
  PROVE  Fenced'
  BY IdleFenced DEF Finish, Done, DoneThenRelease

LEMMA CallFenced ==
  ASSUME Fenced, NEW at \in Positions \ {"idle"}, Call(at) \/ Retry(at)
  PROVE  Fenced'
<1>1. CASE Call(at)
  <2>1. job' = [job EXCEPT !.at = at, !.stale = FALSE]
    BY <1>1 DEF Call
  <2>2. job' \in Jobs /\ job'.at = at
    BY <2>1 DEF Fenced, Jobs
  <2> QED BY <2>2 DEF Fenced
<1>2. CASE Retry(at)
  <2>1. job.tries \in Nat /\ job.invalid \in BOOLEAN
    BY DEF Fenced, Jobs
  <2>2. job' = [at |-> at, tries |-> job.tries + 1, invalid |-> job.invalid, stale |-> FALSE]
    BY <1>2 DEF Retry, Fenced, Jobs
  <2>3. job' \in Jobs
    BY <2>1, <2>2 DEF Jobs
  <2> QED BY <2>2, <2>3 DEF Fenced
<1> QED BY <1>1, <1>2

LEMMA ReturnFenced ==
  ASSUME Fenced, NEW accepted \in BOOLEAN, Return(accepted)
  PROVE  Fenced'
<1>1. CASE Sent(accepted)
  BY <1>1, DoneFenced DEF Sent
<1>2. CASE Commanded
  BY <1>2, DoneFenced DEF Commanded
<1>3. CASE Stopped(accepted)
  BY <1>3, DoneFenced DEF Stopped
<1> QED BY <1>1, <1>2, <1>3, DoneFenced DEF Return

LEMMA ReleaseFailsFenced == ASSUME Fenced, ReleaseFails PROVE Fenced'
  BY DoneFenced, CallFenced, PlacesKnown DEF ReleaseFails

\* What begins, begins with a job that no revocation has seen.
LEMMA BeginsFresh ==
  ASSUME Fenced, NEW kind, Begin(kind)
  PROVE  ~job.invalid
  BY DEF Fenced, Jobs, Begin

-----------------------------------------------------------------------------
(* Every action keeps Fenced, and what was attached since a revocation. *)

LEMMA UseKept ==
  ASSUME Fenced,
         Open \/ Send \/ Command \/ Stop \/ Attach \/ Detach \/ Close \/ TurnStarts
         \/ TurnEnds \/ Beat \/ Taken
  PROVE  Fenced' /\ Keeps
<1>1. UNCHANGED job
  BY DEF Open, Send, Command, Stop, Attach, Detach, Close, TurnStarts, TurnEnds, Beat, Taken, Use
<1>2. UNCHANGED role /\ (writable' = writable \/ writable' = FALSE)
  BY DEF Open, Send, Command, Stop, Attach, Detach, Close, TurnStarts, TurnEnds, Beat, Taken,
     state
<1> QED BY <1>1, <1>2 DEF Fenced, Keeps

LEMMA AuthorizationKept ==
  ASSUME Fenced, Revoke \/ Refresh
  PROVE  Fenced' /\ Keeps
<1>1. CASE Revoke
  BY <1>1 DEF Revoke, Fenced, Jobs, Keeps
<1>2. CASE Refresh
  BY <1>2 DEF Refresh, Fenced, Jobs, Keeps
<1> QED BY <1>1, <1>2

LEMMA BeginKept ==
  ASSUME Fenced, ReaderBegins \/ WriterBegins \/ ReleaseBegins \/ DetachBegins \/ BeatBegins
  PROVE  Fenced' /\ ~job.invalid
<1>1. ~job.invalid
  BY BeginsFresh DEF ReaderBegins, WriterBegins, ReleaseBegins, DetachBegins, BeatBegins
<1>2. ASSUME ReaderBegins PROVE Fenced'
  <2>1. Finish \/ Call("reader")
    BY <1>2 DEF ReaderBegins
  <2> QED BY <2>1, DoneFenced, CallFenced, PlacesKnown
<1>3. ASSUME WriterBegins PROVE Fenced'
  <2>1. Finish \/ Call("writer")
    BY <1>3 DEF WriterBegins
  <2> QED BY <2>1, DoneFenced, CallFenced, PlacesKnown
<1>4. ASSUME ReleaseBegins PROVE Fenced'
  <2>1. Finish \/ Call("release")
    BY <1>4 DEF ReleaseBegins
  <2> QED BY <2>1, DoneFenced, CallFenced, PlacesKnown
<1>5. ASSUME DetachBegins PROVE Fenced'
  <2>1. Finish \/ Call("free") \/ Call("leave")
    BY <1>5 DEF DetachBegins
  <2> QED BY <2>1, DoneFenced, CallFenced, PlacesKnown
<1>6. ASSUME BeatBegins PROVE Fenced'
  <2>1. Finish \/ Call("beatWriter") \/ Call("beatReader")
    BY <1>6 DEF BeatBegins
  <2> QED BY <2>1, DoneFenced, CallFenced, PlacesKnown
<1> QED BY <1>1, <1>2, <1>3, <1>4, <1>5, <1>6

\* The answers after which nothing is attached, whatever the epoch.
LEMMA PlainAnswersKept ==
  ASSUME Fenced,
         WriterAnswered \/ Posted \/ WriterRefused \/ CatchDetached \/ UndoReleased
         \/ UndoDetached \/ FreeAnswered \/ LeaveAnswered \/ BeatAnswered
  PROVE  Fenced' /\ Keeps
<1>1. Keeps
  <2>1. Same \/ Detached \/ UNCHANGED <<role, writable>> \/ (role' = "detached" /\ UNCHANGED writable)
    BY DEF WriterAnswered, Posted, WriterRefused, CatchDetached, UndoReleased, UndoDetached,
       FreeAnswered, LeaveAnswered, BeatAnswered
  <2> QED BY <2>1 DEF Same, Detached, Keeps
<1>2. ASSUME WriterAnswered PROVE Fenced'
  <2> DEFINE then(good) == CASE good /\ invalidated -> "undoRelease"
                             [] good /\ ~invalidated -> "acquire"
                             [] ~good /\ invalidated -> "refused"
                             [] OTHER               -> "fallback"
  <2>1. \A good : then(good) \in {"undoRelease", "acquire", "refused", "fallback"}
    OBVIOUS
  <2>2. \E good \in BOOLEAN : job' = [job EXCEPT !.stale = FALSE, !.at = then(good)]
    BY <1>2 DEF WriterAnswered
  <2> HIDE DEF then
  <2>3. PICK at \in {"undoRelease", "acquire", "refused", "fallback"} :
          job' = [job EXCEPT !.stale = FALSE, !.at = at]
    BY <2>1, <2>2
  <2>4. job' \in Jobs /\ job'.at = at
    BY <2>3, PlacesKnown DEF Fenced, Jobs
  <2> QED BY <2>4 DEF Fenced
<1>3. ASSUME Posted PROVE Fenced'
  BY <1>3, ReturnFenced DEF Posted
<1>4. ASSUME WriterRefused PROVE Fenced'
  BY <1>4, ReturnFenced DEF WriterRefused
<1>5. ASSUME CatchDetached PROVE Fenced'
  BY <1>5, ReturnFenced DEF CatchDetached
<1>6. ASSUME UndoReleased PROVE Fenced'
  <2>1. Call("undoDetach")
    BY <1>6 DEF UndoReleased
  <2> QED BY <2>1, CallFenced, PlacesKnown
<1>7. ASSUME UndoDetached PROVE Fenced'
  BY <1>7, ReturnFenced, DoneFenced DEF UndoDetached
<1>8. ASSUME FreeAnswered PROVE Fenced'
  <2>1. Finish \/ Call("leave") \/ Retry("free")
    BY <1>8 DEF FreeAnswered
  <2> QED BY <2>1, DoneFenced, CallFenced, PlacesKnown
<1>9. ASSUME LeaveAnswered PROVE Fenced'
  BY <1>9, DoneFenced DEF LeaveAnswered
<1>10. ASSUME BeatAnswered PROVE Fenced'
  BY <1>10, DoneFenced DEF BeatAnswered
<1> QED BY <1>1, <1>2, <1>3, <1>4, <1>5, <1>6, <1>7, <1>8, <1>9, <1>10

\* The answers that attach, or go on: each compares the epoch first.
LEMMA ComparedAnswersKept ==
  ASSUME Fenced,
         ReaderAnswered \/ LeaseAnswered \/ CatchReleased \/ FallbackAnswered
         \/ ReleaseAnswered \/ DemoteAnswered
  PROVE  Fenced' /\ (job.invalid => Keeps)
<1>1. ASSUME ReaderAnswered PROVE Fenced' /\ (job.invalid => Keeps)
  <2>1. Finish \/ Call("undoDetach")
    BY <1>1 DEF ReaderAnswered
  <2>2. invalidated => Same
    BY <1>1 DEF ReaderAnswered
  <2> QED BY <2>1, <2>2, DoneFenced, CallFenced, PlacesKnown DEF invalidated, Same, Keeps
<1>2. ASSUME LeaseAnswered PROVE Fenced' /\ (job.invalid => Keeps)
  <2>1. Call("catchRelease") \/ Call("undoRelease") \/ Call("post") \/ Return(TRUE)
    BY <1>2 DEF LeaseAnswered
  <2>2. invalidated => Same
    BY <1>2 DEF LeaseAnswered
  <2>3. Fenced'
    BY <2>1, ReturnFenced, CallFenced, PlacesKnown
  <2>4. job.invalid => Keeps
    BY <2>2 DEF invalidated, Same, Keeps
  <2> QED BY <2>3, <2>4
<1>3. ASSUME CatchReleased PROVE Fenced' /\ (job.invalid => Keeps)
  <2>1. Same /\ (Return(FALSE) \/ Call("fallback"))
    BY <1>3 DEF CatchReleased
  <2>2. Fenced'
    BY <2>1, ReturnFenced, CallFenced, PlacesKnown
  <2>3. Keeps
    BY <2>1 DEF Same, Keeps
  <2> QED BY <2>2, <2>3
<1>4. ASSUME FallbackAnswered PROVE Fenced' /\ (job.invalid => Keeps)
  <2>1. Call("catchDetach") \/ Call("undoRelease") \/ Return(FALSE)
    BY <1>4 DEF FallbackAnswered
  <2>2. invalidated => Same
    BY <1>4 DEF FallbackAnswered
  <2>3. Fenced'
    BY <2>1, ReturnFenced, CallFenced, PlacesKnown
  <2>4. job.invalid => Keeps
    BY <2>2 DEF invalidated, Same, Keeps
  <2> QED BY <2>3, <2>4
<1>5. ASSUME ReleaseAnswered PROVE Fenced' /\ (job.invalid => Keeps)
  <2>1. Finish \/ Call("demote") \/ ReleaseFails
    BY <1>5 DEF ReleaseAnswered
  <2>2. UNCHANGED role /\ (invalidated => UNCHANGED writable)
    BY <1>5 DEF ReleaseAnswered
  <2> QED BY <2>1, <2>2, ReleaseFailsFenced, DoneFenced, CallFenced, PlacesKnown
          DEF invalidated, Keeps
<1>6. ASSUME DemoteAnswered PROVE Fenced' /\ (job.invalid => Keeps)
  <2>1. Finish \/ Call("undoDetach") \/ ReleaseFails
    BY <1>6 DEF DemoteAnswered
  <2>2. invalidated => Same
    BY <1>6 DEF DemoteAnswered
  <2> QED BY <2>1, <2>2, ReleaseFailsFenced, DoneFenced, CallFenced, PlacesKnown
          DEF invalidated, Same, Keeps
<1> QED BY <1>1, <1>2, <1>3, <1>4, <1>5, <1>6

-----------------------------------------------------------------------------
LEMMA InitFenced == Init => Fenced
  BY PlacesKnown DEF Init, Fenced, Jobs, Idle

LEMMA StepFenced == Fenced /\ [Next]_vars => Fenced' /\ (job.invalid => Keeps)
<1> SUFFICES ASSUME Fenced, [Next]_vars PROVE Fenced' /\ (job.invalid => Keeps)
  OBVIOUS
<1>1. CASE UNCHANGED vars
  BY <1>1 DEF vars, state, Fenced, Keeps
<1>2. CASE Calls
  BY <1>2, BeginKept, PlainAnswersKept, ComparedAnswersKept DEF Calls
<1>3. CASE Next /\ ~Calls
  BY <1>3, UseKept, AuthorizationKept DEF Next
<1> QED BY <1>1, <1>2, <1>3

\* However a revocation meets the calls of an operation, the operation ends
\* with the session no more attached, and no more writable, than it found it:
\* attachmentEpoch is compared after every call that could attach.
THEOREM NothingAttachesRevoked == Spec => RevokedIsFenced
<1>1. Fenced /\ [Next]_vars =>
        [job.invalid => role' \in {role, "detached"} /\ (writable' => writable)]_vars
  BY StepFenced DEF Keeps
<1>2. Fenced /\ [Next]_vars => Fenced'
  BY StepFenced
<1> QED BY <1>1, <1>2, InitFenced, PTL DEF Spec, RevokedIsFenced

-----------------------------------------------------------------------------
(* The lease.  What has to hold of the lane, of what the tab has cached and *)
(* of what the gateway has, wherever the running operation is.              *)

Kinds == {"reader", "write", "surface", "release", "detach", "beat"}
Askers == {"", "send", "command", "stop"}
Ops == [kind : Kinds, by : Askers, keep : BOOLEAN, old : BOOLEAN]
Gateways == [role : {"detached", "reader", "writer"}, lease : BOOLEAN]
Writer == [role |-> "writer", lease |-> TRUE]

Typed ==
  /\ Fenced
  /\ lane \in Seq(Ops)
  /\ gateway \in Gateways
  /\ job.at # "idle" => lane # <<>>

\* Calls that only a tab that is not writable has under way.
Unwritable == {"reader", "free", "leave", "refused", "undoRelease", "undoDetach", "beatReader"}

Cached ==
  /\ writable => role = "writer"
  /\ blocked \/ job.invalid => role = "detached"
  /\ job.at \in Unwritable => ~writable

\* AdmittedByLease, from the moment the gateway has confirmed the writer.
Admitted ==
  /\ job.at = "acquire" /\ ~taken => gateway.role = "writer"
  /\ (job.at = "post" \/ (writable /\ job.at \in {"idle", "beatWriter"})) /\ ~taken =>
       gateway = Writer

\* A lease that none of the reasons explains.
Unaccounted == gateway.lease /\ kept = {}

\* A turn is there to release it, or an operation queued from one place on.
Frees(from) == \E i \in from .. Len(lane) : lane[i].kind \in {"release", "detach"}
Owned(from) == turn # "none" \/ Frees(from)

Acquiring == {"acquire", "catchRelease", "undoRelease"}
Accounting == {"reader", "refused", "fallback", "demote", "leave", "catchDetach", "undoDetach"}
Beats == {"beatReader", "beatWriter"}

\* What relies on the turn that was there when it was queued: that turn is still
\* there, or its end has queued a release behind.
Relies(op) == ~op.old /\ (op.by = "stop" \/ (op.by = "send" /\ op.keep))
Promised == \A i \in 1 .. Len(lane) : Relies(lane[i]) => Owned(i + 1)

Leased ==
  /\ job.at = "post" => lane[1].kind = "write" /\ (blocked => lane[1].old)
  /\ Unaccounted => job.at \notin Accounting
  /\ Unaccounted /\ job.at \notin Acquiring => role = "writer"
  /\ Unaccounted /\ job.at = "idle" => Owned(1)
  /\ Unaccounted /\ job.at \in Beats => Owned(2)

Accounted == Typed /\ Cached /\ Admitted /\ Leased /\ Promised

-----------------------------------------------------------------------------
(* The lane *)

\* What a step does to it, besides Queue.
Dropped == lane' = Tail(lane)
FollowedUp == lane' = Append(Tail(lane), Op("release"))
Marked == lane' = [i \in DOMAIN lane |-> [lane[i] EXCEPT !.old = TRUE]]

LEMMA LaneFacts ==
  ASSUME lane \in Seq(Ops)
  PROVE  /\ Len(lane) \in Nat
         /\ lane # <<>> <=> Len(lane) > 0
         /\ \A i \in 1 .. Len(lane) : lane[i] \in Ops
  OBVIOUS

LEMMA LaneAppended ==
  ASSUME lane \in Seq(Ops), NEW op \in Ops, Queue(op)
  PROVE  /\ lane' \in Seq(Ops) /\ lane' # <<>>
         /\ Len(lane') = Len(lane) + 1
         /\ \A i \in 1 .. Len(lane) : lane'[i] = lane[i]
         /\ lane'[Len(lane) + 1] = op
  BY DEF Queue

LEMMA LaneDone ==
  ASSUME lane \in Seq(Ops), lane # <<>>, Dropped
  PROVE  /\ lane' \in Seq(Ops)
         /\ Len(lane') = Len(lane) - 1
         /\ \A i \in 1 .. Len(lane) - 1 : lane'[i] = lane[i + 1]
  BY DEF Dropped

LEMMA OpKnown == \A kind \in Kinds : Op(kind) \in Ops /\ Op(kind).kind = kind /\ Op(kind).by = ""
  BY DEF Op, Ops, Kinds, Askers

LEMMA ReleaseKnown ==
  Op("release") \in Ops /\ Op("release").kind = "release" /\ Op("release").by = ""
  BY OpKnown DEF Kinds

LEMMA MutationKnown ==
  \A by \in Askers, keep \in BOOLEAN :
     Mutation(by, keep) \in Ops /\ Mutation(by, keep).by = by /\ Mutation(by, keep).keep = keep
  BY DEF Mutation, Ops, Kinds, Askers

LEMMA LaneDoneThenRelease ==
  ASSUME lane \in Seq(Ops), lane # <<>>, FollowedUp
  PROVE  /\ lane' \in Seq(Ops) /\ lane' # <<>>
         /\ Len(lane') = Len(lane)
         /\ \A i \in 1 .. Len(lane) - 1 : lane'[i] = lane[i + 1]
         /\ lane'[Len(lane)] = Op("release")
<1> DEFINE rest == Tail(lane)
<1>1. rest \in Seq(Ops) /\ Len(rest) = Len(lane) - 1
  OBVIOUS
<1>2. \A i \in 1 .. Len(lane) - 1 : rest[i] = lane[i + 1]
  OBVIOUS
<1>3. lane' = Append(rest, Op("release")) /\ Op("release") \in Ops
  BY ReleaseKnown DEF FollowedUp
<1>4. Len(lane) \in Nat /\ Len(lane) > 0
  OBVIOUS
<1> HIDE DEF rest
<1> QED BY <1>1, <1>2, <1>3, <1>4

LEMMA LaneMapped ==
  ASSUME NEW n \in Nat, NEW f \in [1 .. n -> Ops]
  PROVE  f \in Seq(Ops) /\ Len(f) = n
  OBVIOUS

LEMMA LaneMarked ==
  ASSUME lane \in Seq(Ops), Marked
  PROVE  /\ lane' \in Seq(Ops) /\ Len(lane') = Len(lane)
         /\ \A i \in 1 .. Len(lane) : lane'[i] = [lane[i] EXCEPT !.old = TRUE]
<1>1. \A op \in Ops : [op EXCEPT !.old = TRUE] \in Ops
  BY DEF Ops
<1>2. DOMAIN lane = 1 .. Len(lane) /\ Len(lane) \in Nat /\ \A i \in 1 .. Len(lane) : lane[i] \in Ops
  OBVIOUS
<1> DEFINE marked(op) == [op EXCEPT !.old = TRUE]
<1>3. \A op \in Ops : marked(op) \in Ops
  BY <1>1
<1>4. lane' = [i \in 1 .. Len(lane) |-> marked(lane[i])]
  BY <1>2 DEF Marked
<1> HIDE DEF marked
<1>5. lane' \in [1 .. Len(lane) -> Ops] /\ \A i \in 1 .. Len(lane) : lane'[i] = marked(lane[i])
  BY <1>2, <1>3, <1>4
<1> QED BY <1>2, <1>5, LaneMapped DEF marked

\* Behind what is queued, a turn or a release stays.
LEMMA OwnedAppended ==
  ASSUME lane \in Seq(Ops), NEW op \in Ops, Queue(op),
         NEW from \in 1 .. Len(lane) + 1,
         turn' # "none" \/ op.kind = "release" \/ (turn = "none" /\ Owned(from))
  PROVE  Owned(from)'
<1>1. CASE turn' # "none"
  BY <1>1 DEF Owned
<1>2. CASE op.kind = "release"
  BY <1>2, LaneAppended, LaneFacts DEF Owned, Frees
<1>3. CASE turn = "none" /\ Owned(from)
  <2>1. PICK i \in from .. Len(lane) : lane[i].kind \in {"release", "detach"}
    BY <1>3 DEF Owned, Frees
  <2>2. i \in from .. Len(lane') /\ lane'[i] = lane[i]
    BY <2>1, LaneAppended, LaneFacts
  <2> QED BY <2>1, <2>2 DEF Owned, Frees
<1> QED BY <1>1, <1>2, <1>3

\* What is queued relies on no turn, or there is one.
Backed(op) ==
  \/ turn' # "none"
  \/ op.kind = "release" /\ op.by = ""
  \/ turn = "none" /\ op.by \notin {"send", "stop"}

LEMMA PromisedAppended ==
  ASSUME lane \in Seq(Ops), Promised, NEW op \in Ops, Queue(op), Backed(op)
  PROVE  Promised'
<1>1. CASE turn' # "none"
  BY <1>1 DEF Owned, Promised
<1>2. CASE turn' = "none"
  <2>1. ~Relies(op)
    BY <1>2 DEF Relies, Backed
  <2>2. Len(lane) \in Nat /\ Len(lane') = Len(lane) + 1
    BY LaneAppended, LaneFacts
  <2>3. lane'[Len(lane) + 1] = op
    BY LaneAppended
  <2>4. \A i \in 1 .. Len(lane) : lane'[i] = lane[i]
    BY LaneAppended
  <2>5. op.kind = "release" \/ turn = "none"
    BY <1>2 DEF Backed
  <2>6. ASSUME NEW i \in 1 .. Len(lane'), Relies(lane'[i]) PROVE Owned(i + 1)'
    <3>1. i # Len(lane) + 1
      BY <2>1, <2>3, <2>6
    <3>2. i \in 1 .. Len(lane) /\ i + 1 \in 1 .. Len(lane) + 1
      BY <2>2, <3>1
    <3>3. Owned(i + 1)
      BY <2>4, <2>6, <3>2 DEF Promised
    <3> QED BY <2>5, <3>2, <3>3, OwnedAppended
  <2> QED BY <2>6 DEF Promised, Relies
<1> QED BY <1>1, <1>2

LEMMA OwnedDone ==
  ASSUME lane \in Seq(Ops), lane # <<>>, Dropped, NEW from \in Nat, from >= 1,
         turn' # "none" \/ (turn' = turn /\ Owned(from + 1))
  PROVE  Owned(from)'
<1>1. CASE turn' # "none"
  BY <1>1 DEF Owned
<1>2. CASE turn' = turn /\ turn = "none" /\ Owned(from + 1)
  <2>1. PICK i \in from + 1 .. Len(lane) : lane[i].kind \in {"release", "detach"}
    BY <1>2 DEF Owned, Frees
  <2>2. i - 1 \in from .. Len(lane') /\ lane'[i - 1] = lane[i]
    BY <2>1, LaneDone, LaneFacts
  <2> QED BY <2>1, <2>2 DEF Owned, Frees
<1> QED BY <1>1, <1>2

LEMMA PromisedDone ==
  ASSUME lane \in Seq(Ops), lane # <<>>, Promised, Dropped,
         turn' # "none" \/ turn' = turn
  PROVE  Promised'
<1> SUFFICES ASSUME NEW i \in 1 .. Len(lane'), Relies(lane'[i]) PROVE Owned(i + 1)'
  BY DEF Promised, Relies
<1>1. i + 1 \in 1 .. Len(lane) /\ lane'[i] = lane[i + 1] /\ i + 1 \in Nat /\ i + 1 >= 1
  BY LaneDone, LaneFacts
<1>2. Owned(i + 1 + 1)
  BY <1>1 DEF Promised
<1> QED BY <1>1, <1>2, OwnedDone

LEMMA PromisedDoneThenRelease ==
  ASSUME lane \in Seq(Ops), lane # <<>>, FollowedUp
  PROVE  Promised' /\ Owned(1)'
<1>1. Len(lane) \in Nat /\ Len(lane) >= 1 /\ Len(lane') = Len(lane)
  BY LaneDoneThenRelease, LaneFacts
<1>2. lane'[Len(lane)] = Op("release")
  BY LaneDoneThenRelease
<1>3. lane'[Len(lane)].kind = "release" /\ ~Relies(lane'[Len(lane)])
  BY <1>2, ReleaseKnown DEF Relies
<1>4. \A from \in 1 .. Len(lane) : Owned(from)'
  BY <1>1, <1>3 DEF Owned, Frees
<1>5. ASSUME NEW i \in 1 .. Len(lane'), Relies(lane'[i]) PROVE Owned(i + 1)'
  <2>1. i # Len(lane)
    BY <1>3, <1>5
  <2>2. i + 1 \in 1 .. Len(lane)
    BY <1>1, <2>1
  <2> QED BY <1>4, <2>2
<1>6. Owned(1)'
  BY <1>1, <1>4
<1> QED BY <1>5, <1>6 DEF Promised, Relies

LEMMA PromisedMarked ==
  ASSUME lane \in Seq(Ops), Marked
  PROVE  Promised'
<1>1. \A op \in Ops : ~Relies([op EXCEPT !.old = TRUE])
  BY DEF Relies, Ops
<1>2. \A i \in 1 .. Len(lane') : ~Relies(lane'[i])
  BY <1>1, LaneMarked, LaneFacts
<1> QED BY <1>2 DEF Promised, Relies

LEMMA PromisedSame ==
  ASSUME Promised, UNCHANGED lane, turn' # "none" \/ turn' = turn
  PROVE  Promised' /\ (Owned(1) => Owned(1)') /\ (Owned(2) => Owned(2)')
  BY DEF Promised, Relies, Owned, Frees

-----------------------------------------------------------------------------
(* What a call may do to the gateway *)

LEMMA EffectsKnown ==
  ASSUME gateway \in Gateways
  PROVE  /\ Effect("post") = gateway
         /\ \A call \in Positions \ {"idle", "refused"} : Effect(call) \in Gateways
         /\ \A call \in Releasing : ~Effect(call).lease
         /\ \A call \in Detaching \cup Beats \cup {"reader", "fallback", "demote", "writer"} :
              Effect(call).lease = gateway.lease
         /\ Effect("writer").role = "writer" /\ Effect("beatWriter").role = "writer"
         /\ Effect("acquire").role = gateway.role /\ Effect("acquire").lease
<1>1. PICK r \in {"detached", "reader", "writer"}, l \in BOOLEAN : gateway = [role |-> r, lease |-> l]
  BY DEF Gateways
<1>2. ASSUME NEW call \in {"reader", "fallback", "demote", "beatReader"}
      PROVE  Effect(call) = [role |-> "reader", lease |-> l]
  <2>1. Effect(call) = [gateway EXCEPT !.role = "reader"]
    BY DEF Effect, Releasing, Detaching
  <2> QED BY <1>1, <2>1
<1>3. ASSUME NEW call \in {"writer", "beatWriter"}
      PROVE  Effect(call) = [role |-> "writer", lease |-> l]
  <2>1. Effect(call) = [gateway EXCEPT !.role = "writer"]
    BY DEF Effect, Releasing, Detaching
  <2> QED BY <1>1, <2>1
<1>4. Effect("acquire") = [role |-> r, lease |-> TRUE]
  <2>1. Effect("acquire") = [gateway EXCEPT !.lease = TRUE]
    BY DEF Effect, Releasing, Detaching
  <2> QED BY <1>1, <2>1
<1>5. ASSUME NEW call \in Releasing PROVE Effect(call) = [role |-> r, lease |-> FALSE]
  <2>1. Effect(call) = [gateway EXCEPT !.lease = FALSE]
    BY DEF Effect, Releasing, Detaching
  <2> QED BY <1>1, <2>1
<1>6. ASSUME NEW call \in Detaching PROVE Effect(call) = [role |-> "detached", lease |-> l]
  <2>1. Effect(call) = [gateway EXCEPT !.role = "detached"]
    BY DEF Effect, Releasing, Detaching
  <2> QED BY <1>1, <2>1
<1>7. Effect("post") = gateway
  BY DEF Effect, Detaching, Releasing
<1>8. ASSUME NEW call \in Positions \ {"idle", "refused"} PROVE Effect(call) \in Gateways
  <2>1. \/ call \in {"reader", "fallback", "demote", "beatReader"} \/ call \in {"writer", "beatWriter"}
        \/ call = "acquire" \/ call \in Releasing \/ call \in Detaching \/ call = "post"
    BY DEF Positions
  <2>2. CASE call = "post"
    BY <1>7, <2>2
  <2>3. CASE call # "post"
    <3>1. \E x \in {"detached", "reader", "writer"}, y \in BOOLEAN : Effect(call) = [role |-> x, lease |-> y]
      BY <1>2, <1>3, <1>4, <1>5, <1>6, <2>1, <2>3
    <3> QED BY <3>1 DEF Gateways
  <2> QED BY <2>2, <2>3
<1>9. \A call \in Detaching \cup Beats \cup {"reader", "fallback", "demote", "writer"} :
        Effect(call).lease = gateway.lease
  BY <1>1, <1>2, <1>3, <1>6 DEF Beats
<1> QED BY <1>1, <1>3, <1>4, <1>5, <1>7, <1>8, <1>9

LEMMA Answered ==
  ASSUME Typed, NEW call \in Positions \ {"idle", "refused"}, NEW good \in BOOLEAN,
         Answer(call, good)
  PROVE  /\ job.at = call /\ lane # <<>>
         /\ gateway' \in {gateway, Effect(call)}
         /\ gateway' \in Gateways
         /\ good => gateway' = Effect(call)
  BY EffectsKnown DEF Typed, Answer

\* Only an acquired lease is one more than there was.
LEMMA NoLeaseAdded ==
  ASSUME Typed, NEW call \in Positions \ {"idle", "refused", "acquire"}, NEW good \in BOOLEAN,
         Answer(call, good), gateway'.lease
  PROVE  gateway.lease
<1>1. CASE call \in Releasing \/ call = "post"
  BY <1>1, Answered, EffectsKnown DEF Typed
<1>2. CASE call \in Detaching \cup Beats \cup {"reader", "fallback", "demote", "writer"}
  BY <1>2, Answered, EffectsKnown DEF Typed
<1>3. call \in Releasing \/ call = "post"
      \/ call \in Detaching \cup Beats \cup {"reader", "fallback", "demote", "writer"}
  BY DEF Positions, Beats
<1> QED BY <1>1, <1>2, <1>3

\* What is kept of a lease that is there afterwards.
LEMMA KeepKnown ==
  \A why : Keep(why) /\ Unaccounted' => kept = {} /\ why = {} /\ gateway'.lease
  BY DEF Keep, Unaccounted

-----------------------------------------------------------------------------
(* How an operation goes on, and how it ends *)

\* What the tab and the gateway are left with when nothing runs.
Rests ==
  /\ gateway' \in Gateways
  /\ writable' => role' = "writer"
  /\ blocked' = blocked /\ (blocked => role' = "detached")
  /\ writable' /\ ~taken' => gateway' = Writer
  /\ Unaccounted' => role' = "writer"

LEMMA AtIdle ==
  ASSUME Fenced', job' = Idle, lane' \in Seq(Ops), Rests, Promised', Unaccounted' => Owned(1)'
  PROVE  Accounted'
<1>1. job'.at = "idle" /\ job'.invalid = FALSE
  BY DEF Idle
<1> QED BY <1>1 DEF Accounted, Typed, Cached, Admitted, Leased, Rests, Unwritable, Acquiring,
           Accounting, Beats

LEMMA Ends ==
  ASSUME Accounted, lane # <<>>, job' = Idle, Rests,
         \/ Dropped /\ (turn' # "none" \/ turn' = turn) /\ (Unaccounted' => turn' # "none" \/ Owned(2))
         \/ FollowedUp
  PROVE  Accounted'
<1>1. lane \in Seq(Ops) /\ Promised /\ Fenced
  BY DEF Accounted, Typed
<1>2. Fenced'
  BY <1>1, IdleFenced
<1>3. CASE Dropped /\ (turn' # "none" \/ turn' = turn) /\ (Unaccounted' => turn' # "none" \/ Owned(2))
  <2>1. lane' \in Seq(Ops) /\ Promised'
    BY <1>1, <1>3, LaneDone, PromisedDone
  <2>2. ASSUME Unaccounted' PROVE Owned(1)'
    <3>1. turn' # "none" \/ (turn' = turn /\ Owned(1 + 1))
      BY <1>3, <2>2
    <3> QED BY <1>1, <1>3, <3>1, OwnedDone
  <2> QED BY <1>2, <2>1, <2>2, AtIdle
<1>4. CASE FollowedUp
  <2>1. lane' \in Seq(Ops) /\ Promised' /\ Owned(1)'
    BY <1>1, <1>4, LaneDoneThenRelease, PromisedDoneThenRelease
  <2> QED BY <1>2, <2>1, AtIdle
<1> QED BY <1>3, <1>4

LEMMA FinishEnds ==
  ASSUME Accounted, lane # <<>>, Finish, Rests, Unaccounted' => Owned(2)
  PROVE  Accounted'
<1>1. job' = Idle /\ Dropped /\ turn' = turn
  BY DEF Finish, Done, Dropped
<1> QED BY <1>1, Ends

\* The caller of a writer mutation goes on, when no lease is left unaccounted.
LEMMA ReturnEnds ==
  ASSUME Accounted, lane # <<>>, NEW accepted \in BOOLEAN, Return(accepted), Rests, ~Unaccounted'
  PROVE  Accounted'
<1>1. job' = Idle /\ (FollowedUp \/ (Dropped /\ (turn' # "none" \/ turn' = turn)))
  <2>1. CASE Finish
    BY <2>1 DEF Finish, Done, Dropped
  <2>2. CASE Sent(accepted)
    BY <2>2 DEF Sent, Done, DoneThenRelease, Dropped, FollowedUp
  <2>3. CASE Commanded
    BY <2>3 DEF Commanded, Done, DoneThenRelease, Dropped, FollowedUp
  <2>4. CASE Stopped(accepted)
    BY <2>4 DEF Stopped, Done, DoneThenRelease, Dropped, FollowedUp
  <2> QED BY <2>1, <2>2, <2>3, <2>4 DEF Return
<1> QED BY <1>1, Ends

\* What has to hold of the next call.
Reaches(at) ==
  /\ gateway' \in Gateways
  /\ writable' => role' = "writer"
  /\ blocked' = blocked /\ (blocked \/ job.invalid => role' = "detached")
  /\ at \in Unwritable => ~writable'
  /\ at = "acquire" /\ ~taken' => gateway'.role = "writer"
  /\ at = "post" => lane[1].kind = "write" /\ ~blocked
  /\ (at = "post" \/ (at = "beatWriter" /\ writable')) /\ ~taken' => gateway' = Writer
  /\ Unaccounted' => /\ at \notin Accounting
                     /\ at \notin Acquiring => role' = "writer"
                     /\ at \in Beats => Owned(2)

LEMMA CallReaches ==
  ASSUME Accounted, lane # <<>>, NEW at \in Positions \ {"idle"}, Call(at) \/ Retry(at), Reaches(at)
  PROVE  Accounted'
<1>1. Fenced'
  BY CallFenced DEF Accounted, Typed
<1>2. job'.at = at /\ job'.invalid = job.invalid
  BY DEF Call, Retry, Accounted, Typed, Fenced, Jobs
<1>3. UNCHANGED <<lane, turn>>
  BY DEF Call, Retry
<1>4. Promised' /\ (Owned(2) => Owned(2)')
  BY <1>3, PromisedSame DEF Accounted
<1>5. Typed'
  BY <1>1, <1>2, <1>3 DEF Typed, Accounted, Reaches
<1>6. Cached' /\ Admitted'
  BY <1>2 DEF Cached, Admitted, Reaches
<1>7. Leased'
  BY <1>2, <1>3, <1>4 DEF Leased, Reaches
<1> QED BY <1>4, <1>5, <1>6, <1>7 DEF Accounted

-----------------------------------------------------------------------------
(* What does not wait for the lane *)

\* Something is queued, and what is attached stays.
LEMMA QueueAccounted ==
  ASSUME Accounted, NEW op \in Ops, Queue(op), Backed(op),
         turn' # "none" \/ turn' = turn \/ op.kind = "release",
         Fenced', job'.at = job.at, job'.invalid = job.invalid,
         UNCHANGED <<role, gateway, taken, kept>>,
         blocked' => blocked, writable' => writable
  PROVE  Accounted'
<1>1. lane \in Seq(Ops) /\ Promised
  BY DEF Accounted, Typed
<1>2. lane' \in Seq(Ops) /\ lane' # <<>> /\ Promised'
  BY <1>1, LaneAppended, PromisedAppended
<1>3. lane # <<>> => lane'[1] = lane[1]
  BY <1>1, LaneAppended, LaneFacts
<1>4. ASSUME NEW from \in {1, 2}, from <= Len(lane) + 1, Owned(from) PROVE Owned(from)'
  <2>1. from \in 1 .. Len(lane) + 1
    BY <1>1, <1>4, LaneFacts
  <2>2. turn' # "none" \/ op.kind = "release" \/ (turn = "none" /\ Owned(from))
    BY <1>4
  <2> QED BY <1>1, <2>1, <2>2, OwnedAppended
<1>5. Typed'
  BY <1>2 DEF Accounted, Typed
<1>6. Cached' /\ Admitted'
  BY DEF Accounted, Cached, Admitted
<1>7. Leased'
  <2>1. Unaccounted' <=> Unaccounted
    BY DEF Unaccounted
  <2>2. (Unaccounted /\ job.at = "idle" => Owned(1)) /\ (Unaccounted /\ job.at \in Beats => Owned(2))
    BY DEF Accounted, Leased
  <2>3. Len(lane) \in Nat /\ (job.at \in Beats => Len(lane) > 0)
    BY <1>1, LaneFacts DEF Accounted, Typed, Beats
  <2>4. Unaccounted' /\ job'.at = "idle" => Owned(1)'
    BY <1>4, <2>1, <2>2, <2>3
  <2>5. Unaccounted' /\ job'.at \in Beats => Owned(2)'
    BY <1>4, <2>1, <2>2, <2>3
  <2>6. job'.at = "post" => lane'[1].kind = "write" /\ (blocked' => lane'[1].old)
    BY <1>3 DEF Accounted, Typed, Leased
  <2>7. Unaccounted' => job'.at \notin Accounting /\ (job'.at \notin Acquiring => role' = "writer")
    BY <2>1 DEF Accounted, Leased
  <2> QED BY <2>4, <2>5, <2>6, <2>7 DEF Leased
<1> QED BY <1>2, <1>5, <1>6, <1>7 DEF Accounted

\* The lane is left alone.
LEMMA StayAccounted ==
  ASSUME Accounted, UNCHANGED <<role, blocked, lane, job, gateway, taken, kept>>,
         turn' # "none" \/ turn' = turn, writable' => writable
  PROVE  Accounted'
<1>1. Promised' /\ (Owned(1) => Owned(1)') /\ (Owned(2) => Owned(2)')
  BY PromisedSame DEF Accounted
<1>2. Typed' /\ Cached' /\ Admitted'
  BY DEF Accounted, Typed, Fenced, Cached, Admitted
<1>3. Leased'
  BY <1>1 DEF Accounted, Leased, Unaccounted
<1> QED BY <1>1, <1>2, <1>3 DEF Accounted

LEMMA UseAccounted ==
  ASSUME Accounted,
         Open \/ Send \/ Command \/ Stop \/ Attach \/ Detach \/ Close \/ TurnStarts
  PROVE  Accounted'
<1>1. /\ UNCHANGED <<job, gateway, taken, role, blocked, kept>>
      /\ writable' = writable \/ writable' = FALSE
  BY DEF Open, Send, Command, Stop, Attach, Detach, Close, TurnStarts, Use, state
<1>2. Fenced' /\ job'.at = job.at /\ job'.invalid = job.invalid /\ writable' \in {writable, FALSE}
  BY <1>1 DEF Accounted, Typed, Fenced
<1>3. ASSUME NEW kind \in Kinds, Queue(Op(kind)), turn' = turn PROVE Accounted'
  <2>1. PICK op \in Ops : op = Op(kind) /\ op.by = ""
    BY OpKnown
  <2>2. Backed(op)
    BY <1>3, <2>1 DEF Backed
  <2>3. turn' # "none" \/ turn' = turn \/ op.kind = "release"
    BY <1>3
  <2>4. Queue(op)
    BY <1>3, <2>1
  <2> QED BY <1>1, <1>2, <2>2, <2>3, <2>4, QueueAccounted
<1>4. ASSUME NEW by \in Askers, NEW keep \in BOOLEAN, Queue(Mutation(by, keep)),
             turn' # "none" \/ (turn' = turn /\ by = "command")
      PROVE  Accounted'
  <2>1. Mutation(by, keep) \in Ops /\ Mutation(by, keep).by = by
    BY MutationKnown
  <2>2. Backed(Mutation(by, keep))
    BY <1>4, <2>1 DEF Backed
  <2>3. turn' # "none" \/ turn' = turn \/ Mutation(by, keep).kind = "release"
    BY <1>4
  <2> QED BY <1>1, <1>2, <1>4, <2>1, <2>2, <2>3, QueueAccounted
<1>5. CASE Open
  BY <1>3, <1>5 DEF Open, state, Kinds
<1>6. CASE Send
  <2>1. turn' # "none" /\ Queue(Mutation("send", hasActivePrimaryTurn))
    BY <1>6 DEF Send, hasActivePrimaryTurn
  <2> QED BY <1>4, <2>1 DEF hasActivePrimaryTurn, Askers
<1>7. CASE Command
  <2> DEFINE keep == (role = "writer" /\ writable) \/ hasActivePrimaryTurn
  <2>1. turn' = turn /\ Queue(Mutation("command", keep))
    BY <1>7 DEF Command, state
  <2>2. keep \in BOOLEAN
    OBVIOUS
  <2> HIDE DEF keep
  <2>3. PICK k \in BOOLEAN : Queue(Mutation("command", k))
    BY <2>1, <2>2
  <2> QED BY <1>4, <2>1, <2>3 DEF Askers
<1>8. CASE Stop
  BY <1>4, <1>8 DEF Stop, state, Askers, hasActivePrimaryTurn
<1>9. CASE Attach
  BY <1>3, <1>9 DEF Attach, state, Kinds
<1>10. CASE Detach
  BY <1>3, <1>10 DEF Detach, state, Kinds
<1>11. CASE Close
  <2>1. turn' = turn /\ (lane' = lane \/ Queue(Op("detach")))
    BY <1>11 DEF Close, Queue
  <2>2. CASE lane' = lane
    BY <1>1, <2>1, <2>2, StayAccounted
  <2> QED BY <1>3, <2>1, <2>2 DEF Kinds
<1>12. CASE TurnStarts
  <2>1. lane' = lane /\ turn' # "none"
    BY <1>12 DEF TurnStarts
  <2> QED BY <1>1, <2>1, StayAccounted
<1> QED BY <1>5, <1>6, <1>7, <1>8, <1>9, <1>10, <1>11, <1>12

LEMMA EventAccounted ==
  ASSUME Accounted, TurnEnds \/ Refresh \/ Beat
  PROVE  Accounted'
<1>1. CASE TurnEnds
  <2>1. /\ Queue(Op("release")) /\ UNCHANGED <<role, gateway, taken, kept, job, blocked, writable>>
    BY <1>1 DEF TurnEnds
  <2>2. Fenced'
    BY <2>1 DEF Accounted, Typed, Fenced
  <2>3. Backed(Op("release"))
    BY ReleaseKnown DEF Backed
  <2> QED BY <2>1, <2>2, <2>3, ReleaseKnown, QueueAccounted
<1>2. CASE Refresh
  <2>1. /\ Queue(Op("reader")) /\ UNCHANGED <<role, gateway, taken, kept, writable, turn>>
        /\ blocked' = FALSE /\ job' = [job EXCEPT !.stale = (job.at # "idle")]
    BY <1>2 DEF Refresh
  <2>2. Fenced' /\ job'.at = job.at /\ job'.invalid = job.invalid
    BY <2>1 DEF Accounted, Typed, Fenced, Jobs
  <2>3. Op("reader") \in Ops /\ Backed(Op("reader"))
    BY <2>1, OpKnown DEF Backed, Kinds
  <2> QED BY <2>1, <2>2, <2>3, QueueAccounted
<1>3. CASE Beat
  <2>1. /\ Queue(Op("beat")) /\ UNCHANGED <<role, gateway, taken, kept, job, blocked, writable, turn>>
    BY <1>3 DEF Beat, state
  <2>2. Fenced'
    BY <2>1 DEF Accounted, Typed, Fenced
  <2>3. Op("beat") \in Ops /\ Backed(Op("beat"))
    BY <2>1, OpKnown DEF Backed, Kinds
  <2> QED BY <2>1, <2>2, <2>3, QueueAccounted
<1> QED BY <1>1, <1>2, <1>3

LEMMA RevokeAccounted ==
  ASSUME Accounted, Revoke
  PROVE  Accounted'
<1>1. lane \in Seq(Ops) /\ Marked
  BY DEF Accounted, Typed, Revoke, Marked
<1>2. lane' \in Seq(Ops) /\ Len(lane') = Len(lane) /\ Promised'
  BY <1>1, LaneMarked, PromisedMarked
<1>3. Fenced' /\ job'.at = job.at
  BY AuthorizationKept DEF Revoke, Accounted, Typed, Fenced, Jobs
<1>4. lane # <<>> => lane' # <<>> /\ lane'[1].kind = lane[1].kind /\ lane'[1].old
  <2>1. \A op \in Ops : [op EXCEPT !.old = TRUE].kind = op.kind /\ [op EXCEPT !.old = TRUE].old
    BY DEF Ops
  <2>2. lane # <<>> => Len(lane) > 0 /\ lane[1] \in Ops /\ lane'[1] = [lane[1] EXCEPT !.old = TRUE]
    BY <1>1, LaneMarked, LaneFacts
  <2>3. lane # <<>> => lane' # <<>>
    BY <1>1, <1>2, LaneFacts
  <2> QED BY <2>1, <2>2, <2>3
<1>5. ~Unaccounted' /\ ~writable' /\ role' = "detached" /\ UNCHANGED <<gateway, taken>>
  BY DEF Revoke, Unaccounted
<1>6. Typed' /\ Cached' /\ Admitted'
  BY <1>2, <1>3, <1>4, <1>5 DEF Accounted, Typed, Cached, Admitted
<1>7. Leased'
  BY <1>3, <1>4, <1>5 DEF Accounted, Typed, Leased
<1> QED BY <1>2, <1>6, <1>7 DEF Accounted

LEMMA TakenAccounted ==
  ASSUME Accounted, Taken
  PROVE  Accounted'
<1>1. /\ UNCHANGED <<role, writable, blocked, turn, lane, job>> /\ taken'
      /\ gateway' \in Gateways /\ ~gateway'.lease
  BY DEF Taken, state, Gateways
<1>2. Promised'
  BY <1>1, PromisedSame DEF Accounted
<1>3. Typed' /\ Cached' /\ Admitted' /\ Leased'
  BY <1>1 DEF Accounted, Typed, Fenced, Cached, Admitted, Leased, Unaccounted
<1> QED BY <1>2, <1>3 DEF Accounted

-----------------------------------------------------------------------------
(* What begins *)

\* What is behind the first operation, unless that one releases.
LEMMA OwnedBehind ==
  ASSUME Owned(1), lane[1].kind \notin {"release", "detach"}
  PROVE  Owned(2)
<1>1. CASE turn # "none"
  BY <1>1 DEF Owned
<1>2. CASE Frees(1)
  <2>1. PICK i \in 1 .. Len(lane) : lane[i].kind \in {"release", "detach"}
    BY <1>2 DEF Frees
  <2>2. i # 1
    BY <2>1
  <2>3. i \in 2 .. Len(lane)
    BY <2>2
  <2> QED BY <2>1, <2>3 DEF Owned, Frees
<1> QED BY <1>1, <1>2 DEF Owned

LEMMA Begun ==
  ASSUME Accounted, NEW kind, Begin(kind)
  PROVE  /\ lane # <<>> /\ job.at = "idle" /\ ~job.invalid
         /\ UNCHANGED <<gateway, blocked>> /\ gateway \in Gateways
         /\ writable => role = "writer"
         /\ blocked => role = "detached"
         /\ writable /\ ~taken => gateway = Writer
         /\ Unaccounted => role = "writer"
         /\ Unaccounted /\ kind \notin {"release", "detach"} => Owned(2)
<1>1. lane # <<>> /\ job.at = "idle" /\ lane[1].kind = kind /\ UNCHANGED <<gateway, blocked>>
  BY DEF Begin
<1>2. ~job.invalid
  BY BeginsFresh DEF Accounted, Typed
<1>3. Unaccounted => role = "writer" /\ Owned(1)
  BY <1>1 DEF Accounted, Leased, Acquiring
<1> QED BY <1>1, <1>2, <1>3, OwnedBehind DEF Accounted, Typed, Cached, Admitted

LEMMA BeginAccounted ==
  ASSUME Accounted, ReaderBegins \/ WriterBegins \/ ReleaseBegins \/ DetachBegins \/ BeatBegins
  PROVE  Accounted'
<1>1. CASE ReaderBegins
  <2>1. Begin("reader") /\ UNCHANGED <<role, writable, kept, taken>>
    BY <1>1 DEF ReaderBegins, Same
  <2>2. (role # "detached" /\ Finish) \/ (role = "detached" /\ Call("reader"))
    BY <1>1 DEF ReaderBegins
  <2>3. Unaccounted' <=> Unaccounted
    BY <2>1, Begun DEF Unaccounted
  <2>4. CASE role # "detached" /\ Finish
    <3>1. Rests
      BY <2>1, <2>3, Begun DEF Rests
    <3> QED BY <2>1, <2>3, <2>4, <3>1, Begun, FinishEnds
  <2>5. CASE role = "detached" /\ Call("reader")
    <3>1. Reaches("reader")
      BY <2>1, <2>3, <2>5, Begun DEF Reaches, Accounting
    <3> QED BY <2>1, <2>5, <3>1, Begun, CallReaches, PlacesKnown
  <2> QED BY <2>2, <2>4, <2>5
<1>2. CASE WriterBegins
  <2>1. PICK kind \in {"surface", "write"} : Begin(kind)
    BY <1>2 DEF WriterBegins
  <2>2. UNCHANGED <<role, writable>>
    BY <1>2 DEF WriterBegins, Same
  <2>3. CASE Finish /\ kept' = kept \cup {"asked"} /\ UNCHANGED taken
    <3>1. ~Unaccounted'
      BY <2>3 DEF Unaccounted
    <3>2. Rests
      BY <2>1, <2>2, <2>3, <3>1, Begun DEF Rests
    <3> QED BY <2>1, <2>3, <3>1, <3>2, Begun, FinishEnds
  <2>4. CASE Call("writer") /\ UNCHANGED kept /\ taken' = FALSE
    <3>1. Unaccounted' <=> Unaccounted
      BY <2>1, <2>4, Begun DEF Unaccounted
    <3>2. Reaches("writer")
      BY <2>1, <2>2, <2>4, <3>1, Begun DEF Reaches, Accounting, Unwritable, Beats
    <3> QED BY <2>1, <2>4, <3>2, Begun, CallReaches, PlacesKnown
  <2> QED BY <1>2, <2>3, <2>4 DEF WriterBegins
<1>3. CASE ReleaseBegins
  <2>1. Begin("release") /\ UNCHANGED <<role, kept, taken>>
    BY <1>3 DEF ReleaseBegins
  <2>2. \/ role = "writer" /\ Call("release") /\ UNCHANGED writable
        \/ role # "writer" /\ Finish /\ writable' = FALSE
    BY <1>3 DEF ReleaseBegins
  <2>3. Unaccounted' <=> Unaccounted
    BY <2>1, Begun DEF Unaccounted
  <2>4. CASE role # "writer" /\ Finish /\ writable' = FALSE
    <3>1. ~Unaccounted' /\ Rests
      BY <2>1, <2>3, <2>4, Begun DEF Rests
    <3> QED BY <2>1, <2>4, <3>1, Begun, FinishEnds
  <2>5. CASE role = "writer" /\ Call("release") /\ UNCHANGED writable
    <3>1. Reaches("release")
      BY <2>1, <2>3, <2>5, Begun DEF Reaches, Accounting, Unwritable, Beats
    <3> QED BY <2>1, <2>5, <3>1, Begun, CallReaches, PlacesKnown
  <2> QED BY <2>2, <2>4, <2>5
<1>4. CASE DetachBegins
  <2>1. Begin("detach") /\ UNCHANGED <<role, kept, taken>> /\ writable' = FALSE
    BY <1>4 DEF DetachBegins
  <2>2. \/ role = "detached" /\ Finish
        \/ role = "writer" /\ Call("free")
        \/ role \notin {"detached", "writer"} /\ Call("leave")
    BY <1>4 DEF DetachBegins
  <2>3. Unaccounted' <=> Unaccounted
    BY <2>1, Begun DEF Unaccounted
  <2>4. CASE role = "detached" /\ Finish
    <3>1. ~Unaccounted' /\ Rests
      BY <2>1, <2>3, <2>4, Begun DEF Rests
    <3> QED BY <2>1, <2>4, <3>1, Begun, FinishEnds
  <2>5. CASE role = "writer" /\ Call("free")
    <3>1. Reaches("free")
      BY <2>1, <2>3, <2>5, Begun DEF Reaches, Accounting, Unwritable, Beats
    <3> QED BY <2>1, <2>5, <3>1, Begun, CallReaches, PlacesKnown
  <2>6. CASE role \notin {"detached", "writer"} /\ Call("leave")
    <3>1. Reaches("leave")
      BY <2>1, <2>3, <2>6, Begun DEF Reaches, Accounting, Unwritable, Beats
    <3> QED BY <2>1, <2>6, <3>1, Begun, CallReaches, PlacesKnown
  <2> QED BY <2>2, <2>4, <2>5, <2>6
<1>5. CASE BeatBegins
  <2>1. Begin("beat") /\ UNCHANGED <<role, writable, kept, taken>>
    BY <1>5 DEF BeatBegins, Same
  <2>2. \/ Finish
        \/ role = "writer" /\ ~blocked /\ Call("beatWriter")
        \/ role # "writer" /\ ~blocked /\ Call("beatReader")
    BY <1>5 DEF BeatBegins
  <2>3. Unaccounted' <=> Unaccounted
    BY <2>1, Begun DEF Unaccounted
  <2>4. CASE Finish
    <3>1. Rests
      BY <2>1, <2>3, Begun DEF Rests
    <3> QED BY <2>1, <2>3, <2>4, <3>1, Begun, FinishEnds
  <2>5. CASE role = "writer" /\ ~blocked /\ Call("beatWriter")
    <3>1. Reaches("beatWriter")
      BY <2>1, <2>3, <2>5, Begun DEF Reaches, Accounting, Unwritable, Beats
    <3> QED BY <2>1, <2>5, <3>1, Begun, CallReaches, PlacesKnown
  <2>6. CASE role # "writer" /\ ~blocked /\ Call("beatReader")
    <3>1. Reaches("beatReader")
      BY <2>1, <2>3, <2>6, Begun DEF Reaches, Accounting, Unwritable, Beats
    <3> QED BY <2>1, <2>6, <3>1, Begun, CallReaches, PlacesKnown
  <2> QED BY <2>2, <2>4, <2>5, <2>6
<1> QED BY <1>1, <1>2, <1>3, <1>4, <1>5

-----------------------------------------------------------------------------
(* What is answered *)

LEMMA AnsweredAccounted ==
  ASSUME Accounted, NEW call \in Positions \ {"idle", "refused"}, NEW good \in BOOLEAN,
         Answer(call, good)
  PROVE  /\ job.at = call /\ lane # <<>>
         /\ gateway' \in Gateways /\ gateway' \in {gateway, Effect(call)}
         /\ good => gateway' = Effect(call)
         /\ writable => role = "writer"
         /\ invalidated => role = "detached" /\ ~writable
         /\ ~invalidated => ~blocked /\ ~job.invalid
         /\ call \in Unwritable => ~writable
  BY Answered DEF Accounted, Cached, invalidated

\* Where no lease is left unaccounted, none is after a call that acquires none.
LEMMA StillAccounted ==
  ASSUME Accounted, NEW call \in Accounting \ {"refused"}, NEW good \in BOOLEAN,
         Answer(call, good), Kept
  PROVE  ~Unaccounted'
<1>1. call \in Positions \ {"idle", "refused", "acquire"}
  BY PlacesKnown DEF Accounting
<1>2. job.at = call /\ ~Unaccounted
  BY <1>1, Answered DEF Accounted, Leased
<1>3. Unaccounted' => gateway'.lease /\ kept = {}
  BY KeepKnown DEF Kept
<1> QED BY <1>1, <1>2, <1>3, NoLeaseAdded DEF Accounted, Unaccounted

LEMMA KeptForAReason ==
  ASSUME NEW why, why # {}, Keep(why)
  PROVE  ~Unaccounted'
  BY KeepKnown

LEMMA ReaderAnsweredAccounted == Accounted /\ ReaderAnswered => Accounted'
<1> SUFFICES ASSUME Accounted, NEW good \in BOOLEAN, Answer("reader", good), Kept,
                    UNCHANGED <<blocked, taken>>,
                    \/ good /\ invalidated /\ Call("undoDetach") /\ Same
                    \/ good /\ ~invalidated /\ Finish /\ AsReader
                    \/ ~good /\ invalidated /\ Finish /\ Same
                    \/ ~good /\ ~invalidated /\ Finish /\ Detached
             PROVE  Accounted'
  BY DEF ReaderAnswered
<1>1. /\ lane # <<>> /\ ~writable /\ gateway' \in Gateways
      /\ invalidated => role = "detached"
      /\ ~invalidated => ~blocked
  BY AnsweredAccounted, PlacesKnown DEF Unwritable
<1>2. ~Unaccounted'
  BY StillAccounted DEF Accounting
<1>3. CASE Call("undoDetach") /\ Same /\ invalidated
  <2>1. Reaches("undoDetach")
    BY <1>1, <1>2, <1>3 DEF Reaches, Same
  <2> QED BY <1>1, <1>3, <2>1, CallReaches, PlacesKnown
<1>4. CASE Finish
  <2>1. Rests
    BY <1>1, <1>2 DEF Rests, Same, AsReader, Detached
  <2> QED BY <1>1, <1>2, <1>4, <2>1, FinishEnds
<1> QED BY <1>3, <1>4

LEMMA WriterAnsweredAccounted == Accounted /\ WriterAnswered => Accounted'
<1> SUFFICES ASSUME Accounted, WriterAnswered PROVE Accounted'
  OBVIOUS
<1> DEFINE then(good) == CASE good /\ invalidated -> "undoRelease"
                           [] good /\ ~invalidated -> "acquire"
                           [] ~good /\ invalidated -> "refused"
                           [] OTHER               -> "fallback"
<1>1. PICK good \in BOOLEAN :
        /\ Answer("writer", good) /\ Keep(IF good THEN {} ELSE {"refused"})
        /\ UNCHANGED <<role, writable, blocked, taken, lane, submitting, turn>>
        /\ job' = [job EXCEPT !.stale = FALSE, !.at = then(good)]
  BY DEF WriterAnswered, Same
<1>2. PICK at \in {"undoRelease", "acquire", "refused", "fallback"} :
        /\ at = then(good)
        /\ at = "undoRelease" => good /\ invalidated
        /\ at = "acquire" => good /\ ~invalidated
        /\ at = "refused" => ~good /\ invalidated
        /\ at = "fallback" => ~good /\ ~invalidated
  OBVIOUS
<1> HIDE DEF then
<1>3. Call(at)
  <2>1. job' = [job EXCEPT !.at = at, !.stale = FALSE]
    BY <1>1, <1>2 DEF Accounted, Typed, Fenced, Jobs
  <2> QED BY <1>1, <2>1 DEF Call
<1>4. /\ lane # <<>> /\ gateway' \in Gateways /\ (writable => role = "writer")
      /\ invalidated => role = "detached" /\ ~writable
      /\ ~invalidated => ~blocked /\ ~job.invalid
      /\ job.at = "writer"
  BY <1>1, AnsweredAccounted, PlacesKnown
<1>5. good => gateway'.role = "writer"
  BY <1>1, AnsweredAccounted, PlacesKnown, EffectsKnown DEF Accounted, Typed
<1>6. Unaccounted' => good /\ role = "writer"
  <2>1. SUFFICES ASSUME Unaccounted' PROVE good /\ role = "writer"
    OBVIOUS
  <2>2. kept = {} /\ gateway'.lease /\ good
    BY <1>1, <2>1, KeepKnown
  <2>3. gateway.lease
    BY <1>1, <2>2, NoLeaseAdded, PlacesKnown DEF Accounted
  <2> QED BY <1>4, <2>2, <2>3 DEF Accounted, Leased, Unaccounted, Acquiring
<1>7. Reaches(at)
  BY <1>1, <1>2, <1>4, <1>5, <1>6 DEF Reaches, Unwritable, Accounting, Acquiring, Beats, invalidated
<1> QED BY <1>3, <1>4, <1>7, CallReaches, PlacesKnown

LEMMA LeaseAnsweredAccounted == Accounted /\ LeaseAnswered => Accounted'
<1> SUFFICES ASSUME Accounted, LeaseAnswered PROVE Accounted'
  OBVIOUS
<1>1. PICK good \in BOOLEAN :
        /\ Answer("acquire", good) /\ UNCHANGED <<blocked, taken>>
        /\ \/ ~good /\ Call("catchRelease") /\ Same
           \/ good /\ invalidated /\ Call("undoRelease") /\ Same
           \/ /\ good /\ ~invalidated
              /\ role' = "writer" /\ writable' = TRUE
              /\ kept' = IF lane[1].kind = "surface" THEN {"asked"} ELSE kept \cap {"asked"}
              /\ IF lane[1].kind = "write" THEN Call("post") ELSE Return(TRUE)
  BY DEF LeaseAnswered
<1>2. /\ lane # <<>> /\ gateway' \in Gateways /\ (writable => role = "writer")
      /\ invalidated => role = "detached" /\ ~writable
      /\ ~invalidated => ~blocked /\ ~job.invalid
      /\ job.at = "acquire"
  BY <1>1, AnsweredAccounted, PlacesKnown
<1>3. CASE Call("catchRelease") /\ Same
  <2>1. blocked \/ job.invalid => role = "detached"
    BY DEF Accounted, Cached
  <2>2. Reaches("catchRelease")
    BY <1>1, <1>2, <1>3, <2>1 DEF Reaches, Same, Unwritable, Accounting, Acquiring, Beats
  <2> QED BY <1>2, <1>3, <2>2, CallReaches, PlacesKnown
<1>4. CASE invalidated /\ Call("undoRelease") /\ Same
  <2>1. Reaches("undoRelease")
    BY <1>1, <1>2, <1>4 DEF Reaches, Same, Unwritable, Accounting, Acquiring, Beats
  <2> QED BY <1>2, <1>4, <2>1, CallReaches, PlacesKnown
<1>5. CASE /\ good /\ ~invalidated /\ role' = "writer" /\ writable' = TRUE
           /\ kept' = IF lane[1].kind = "surface" THEN {"asked"} ELSE kept \cap {"asked"}
           /\ IF lane[1].kind = "write" THEN Call("post") ELSE Return(TRUE)
  <2>1. ~taken' => gateway' = Writer
    <3>1. gateway' = Effect("acquire") /\ (~taken' => gateway.role = "writer")
      BY <1>1, <1>2, <1>5, AnsweredAccounted, PlacesKnown DEF Accounted, Admitted
    <3>2. gateway'.lease /\ gateway'.role = gateway.role
      BY <3>1, EffectsKnown DEF Accounted, Typed
    <3> QED BY <1>2, <3>1, <3>2 DEF Gateways, Writer
  <2>2. CASE lane[1].kind = "write"
    <3>1. Reaches("post")
      BY <1>1, <1>2, <1>5, <2>1, <2>2 DEF Reaches, Unwritable, Accounting, Acquiring, Beats
    <3> QED BY <1>2, <1>5, <2>2, <3>1, CallReaches, PlacesKnown
  <2>3. CASE lane[1].kind # "write"
    <3>1. Return(TRUE) /\ lane[1].kind = "surface"
      BY <1>5, <2>3 DEF Return
    <3>2. ~Unaccounted'
      BY <1>5, <3>1 DEF Unaccounted
    <3>3. Rests
      BY <1>1, <1>2, <1>5, <2>1, <3>2 DEF Rests
    <3> QED BY <1>2, <3>1, <3>2, <3>3, ReturnEnds
  <2> QED BY <2>2, <2>3
<1> QED BY <1>1, <1>3, <1>4, <1>5

\* A request that is answered leaves its lease to its turn, to a release that is
\* queued, or says why not.
LEMMA PostedAccounted == Accounted /\ Posted => Accounted'
<1> SUFFICES ASSUME Accounted, NEW good \in BOOLEAN, Answer("post", good),
                    UNCHANGED <<role, writable, blocked, taken>>,
                    Keep(IF lane[1].old THEN {"revoked"}
                         ELSE IF lane[1].by = "command" /\ lane[1].keep /\ ~hasActivePrimaryTurn
                              THEN {"retained"} ELSE {}),
                    Return(good)
             PROVE  Accounted'
  BY DEF Posted, Same
<1>1. /\ job.at = "post" /\ lane # <<>> /\ gateway' \in Gateways /\ (writable => role = "writer")
      /\ gateway' \in {gateway, Effect("post")}
  BY AnsweredAccounted, PlacesKnown
<1>2. gateway' = gateway
  BY <1>1, EffectsKnown DEF Accounted, Typed
<1>3. /\ lane[1].kind = "write" /\ (blocked => lane[1].old)
      /\ Unaccounted => role = "writer"
      /\ ~taken => gateway = Writer
      /\ blocked => role = "detached"
  BY <1>1 DEF Accounted, Leased, Admitted, Cached, Acquiring
<1>4. Unaccounted' => Unaccounted /\ ~lane[1].old
                      /\ ~(lane[1].by = "command" /\ lane[1].keep /\ ~hasActivePrimaryTurn)
  BY <1>2, KeepKnown DEF Unaccounted
<1>5. Rests
  BY <1>1, <1>2, <1>3, <1>4 DEF Rests
<1>6. CASE ~Unaccounted'
  BY <1>1, <1>5, <1>6, ReturnEnds
<1>7. CASE Unaccounted'
  <2>1. ~lane[1].old /\ ~blocked /\ role' = "writer"
    BY <1>3, <1>4, <1>7
  <2>2. Relies(lane[1]) => Owned(2)
    <3>1. 1 \in 1 .. Len(lane)
      BY <1>1, LaneFacts DEF Accounted, Typed
    <3>2. Relies(lane[1]) => Owned(1 + 1)
      BY <3>1 DEF Accounted, Promised
    <3> QED BY <3>2
  <2>3. CASE Sent(good)
    <3>1. CASE DoneThenRelease
      BY <1>1, <1>5, <3>1, Ends DEF DoneThenRelease, FollowedUp
    <3>2. CASE Done /\ lane[1].keep
      <4>1. Relies(lane[1]) /\ turn' = turn
        BY <2>1, <2>3, <3>2 DEF Relies, Sent
      <4> QED BY <1>1, <1>5, <2>2, <3>2, <4>1, Ends DEF Done, Dropped
    <3>3. CASE Done /\ ~lane[1].keep /\ good
      <4>1. turn' # "none"
        BY <2>1, <2>3, <3>3 DEF Sent
      <4> QED BY <1>1, <1>5, <3>3, <4>1, Ends DEF Done, Dropped
    <3>4. DoneThenRelease \/ (Done /\ (good \/ lane[1].keep))
      BY <2>1, <2>3 DEF Sent
    <3> QED BY <3>1, <3>2, <3>3, <3>4
  <2>4. CASE Commanded
    <3>1. CASE DoneThenRelease
      BY <1>1, <1>5, <3>1, Ends DEF DoneThenRelease, FollowedUp
    <3>2. CASE ~DoneThenRelease
      <4>1. Done /\ turn' = turn /\ lane[1].by = "command" /\ (lane[1].keep \/ hasActivePrimaryTurn)
        BY <2>1, <2>4, <3>2 DEF Commanded
      <4>2. turn' # "none"
        BY <1>4, <1>7, <4>1 DEF hasActivePrimaryTurn
      <4> QED BY <1>1, <1>5, <4>1, <4>2, Ends DEF Done, Dropped
    <3> QED BY <3>1, <3>2
  <2>5. CASE Stopped(good)
    <3>1. CASE DoneThenRelease
      BY <1>1, <1>5, <3>1, Ends DEF DoneThenRelease, FollowedUp
    <3>2. CASE Done
      <4>1. Relies(lane[1]) /\ turn' = turn
        BY <2>1, <2>5 DEF Relies, Stopped
      <4> QED BY <1>1, <1>5, <2>2, <3>2, <4>1, Ends DEF Done, Dropped
    <3> QED BY <2>5, <3>1, <3>2 DEF Stopped
  <2> QED BY <1>3, <2>3, <2>4, <2>5 DEF Return
<1> QED BY <1>6, <1>7

LEMMA WriterRefusedAccounted == Accounted /\ WriterRefused => Accounted'
<1> SUFFICES ASSUME Accounted, WriterRefused PROVE Accounted'
  OBVIOUS
<1>1. job.at = "refused" /\ UNCHANGED <<role, writable, blocked, gateway, kept, taken>> /\ Return(FALSE)
  BY DEF WriterRefused, Same
<1>2. lane # <<>> /\ ~writable /\ ~Unaccounted' /\ Rests
  BY <1>1 DEF Accounted, Typed, Cached, Leased, Unaccounted, Unwritable, Accounting, Rests
<1> QED BY <1>1, <1>2, ReturnEnds

LEMMA FallbackAccounted == Accounted /\ (CatchReleased \/ FallbackAnswered \/ CatchDetached) => Accounted'
<1> SUFFICES ASSUME Accounted, CatchReleased \/ FallbackAnswered \/ CatchDetached PROVE Accounted'
  OBVIOUS
<1>1. blocked \/ job.invalid => role = "detached"
  BY DEF Accounted, Cached
<1>2. CASE CatchReleased
  <2>1. PICK good \in BOOLEAN :
          /\ Answer("catchRelease", good) /\ Keep({"unheard"})
          /\ UNCHANGED <<role, writable, blocked, taken>>
          /\ (invalidated /\ Return(FALSE)) \/ (~invalidated /\ Call("fallback"))
    BY <1>2 DEF CatchReleased, Same
  <2>2. /\ lane # <<>> /\ gateway' \in Gateways /\ (writable => role = "writer")
        /\ invalidated => role = "detached" /\ ~writable
    BY <2>1, AnsweredAccounted, PlacesKnown
  <2>3. ~Unaccounted'
    BY <2>1, KeptForAReason
  <2>4. CASE invalidated /\ Return(FALSE)
    <3>1. Rests
      BY <1>1, <2>1, <2>2, <2>3, <2>4 DEF Rests
    <3> QED BY <2>2, <2>3, <2>4, <3>1, ReturnEnds
  <2>5. CASE ~invalidated /\ Call("fallback")
    <3>1. Reaches("fallback")
      BY <1>1, <2>1, <2>2, <2>3 DEF Reaches, Unwritable
    <3> QED BY <2>2, <2>5, <3>1, CallReaches, PlacesKnown
  <2> QED BY <2>1, <2>4, <2>5
<1>3. CASE FallbackAnswered
  <2>1. PICK good \in BOOLEAN :
          /\ Answer("fallback", good) /\ Kept /\ UNCHANGED <<blocked, taken>>
          /\ \/ Call("catchDetach") /\ Same
             \/ invalidated /\ Call("undoRelease") /\ Same
             \/ ~invalidated /\ AsReader /\ Return(FALSE)
    BY <1>3 DEF FallbackAnswered
  <2>2. /\ lane # <<>> /\ gateway' \in Gateways /\ (writable => role = "writer")
        /\ invalidated => role = "detached" /\ ~writable
        /\ ~invalidated => ~blocked
    BY <2>1, AnsweredAccounted, PlacesKnown
  <2>3. ~Unaccounted'
    BY <2>1, StillAccounted DEF Accounting
  <2>4. CASE Call("catchDetach") /\ Same
    <3>1. Reaches("catchDetach")
      BY <1>1, <2>1, <2>2, <2>3, <2>4 DEF Reaches, Unwritable, Same
    <3> QED BY <2>2, <2>4, <3>1, CallReaches, PlacesKnown
  <2>5. CASE invalidated /\ Call("undoRelease") /\ Same
    <3>1. Reaches("undoRelease")
      BY <1>1, <2>1, <2>2, <2>3, <2>5 DEF Reaches, Same
    <3> QED BY <2>2, <2>5, <3>1, CallReaches, PlacesKnown
  <2>6. CASE ~invalidated /\ AsReader /\ Return(FALSE)
    <3>1. Rests
      BY <2>1, <2>2, <2>3, <2>6 DEF Rests, AsReader
    <3> QED BY <2>2, <2>3, <2>6, <3>1, ReturnEnds
  <2> QED BY <2>1, <2>4, <2>5, <2>6
<1>4. CASE CatchDetached
  <2>1. PICK good \in BOOLEAN :
          /\ Answer("catchDetach", good) /\ Kept /\ UNCHANGED <<blocked, taken>>
          /\ Detached /\ Return(FALSE)
    BY <1>4 DEF CatchDetached
  <2>2. lane # <<>> /\ gateway' \in Gateways
    BY <2>1, AnsweredAccounted, PlacesKnown
  <2>3. ~Unaccounted'
    BY <2>1, StillAccounted DEF Accounting
  <2>4. Rests
    BY <2>1, <2>2, <2>3 DEF Rests, Detached
  <2> QED BY <2>1, <2>2, <2>3, <2>4, ReturnEnds
<1> QED BY <1>2, <1>3, <1>4

LEMMA UndoAccounted == Accounted /\ (UndoReleased \/ UndoDetached) => Accounted'
<1> SUFFICES ASSUME Accounted, UndoReleased \/ UndoDetached PROVE Accounted'
  OBVIOUS
<1>1. blocked \/ job.invalid => role = "detached"
  BY DEF Accounted, Cached
<1>2. CASE UndoReleased
  <2>1. PICK good \in BOOLEAN :
          /\ Answer("undoRelease", good) /\ Keep({"unheard"})
          /\ UNCHANGED <<role, writable, blocked, taken>> /\ Call("undoDetach")
    BY <1>2 DEF UndoReleased, Same
  <2>2. lane # <<>> /\ gateway' \in Gateways /\ ~writable
    BY <2>1, AnsweredAccounted, PlacesKnown DEF Unwritable
  <2>3. ~Unaccounted'
    BY <2>1, KeptForAReason
  <2>4. Reaches("undoDetach")
    BY <1>1, <2>1, <2>2, <2>3 DEF Reaches
  <2> QED BY <2>1, <2>2, <2>4, CallReaches, PlacesKnown
<1>3. CASE UndoDetached
  <2>1. PICK good \in BOOLEAN :
          /\ Answer("undoDetach", good) /\ Kept
          /\ UNCHANGED <<role, writable, blocked, taken>> /\ (Return(FALSE) \/ Finish)
    BY <1>3 DEF UndoDetached, Same
  <2>2. lane # <<>> /\ gateway' \in Gateways /\ ~writable
    BY <2>1, AnsweredAccounted, PlacesKnown DEF Unwritable
  <2>3. ~Unaccounted'
    BY <2>1, StillAccounted DEF Accounting
  <2>4. Rests
    BY <1>1, <2>1, <2>2, <2>3 DEF Rests
  <2> QED BY <2>1, <2>2, <2>3, <2>4, ReturnEnds, FinishEnds
<1> QED BY <1>2, <1>3

\* An attempt that failed, while the epoch holds.
LEMMA ReleaseFailsAccounted ==
  ASSUME Accounted, lane # <<>>, ~invalidated, gateway' \in Gateways, ReleaseFails,
         UNCHANGED <<role, blocked, taken>>,
         Kept /\ Unaccounted' => role = "writer"
  PROVE  Accounted'
<1>1. ~blocked /\ ~job.invalid /\ (writable => role = "writer")
  BY DEF Accounted, Cached, invalidated
<1>2. CASE Retry("release") /\ UNCHANGED writable /\ Kept
  <2>1. Reaches("release")
    BY <1>1, <1>2 DEF Reaches, Unwritable, Accounting, Acquiring, Beats
  <2> QED BY <1>2, <2>1, CallReaches, PlacesKnown
<1>3. CASE Finish /\ writable' = FALSE /\ Keep({"gaveUp"})
  <2>1. ~Unaccounted'
    BY <1>3, KeptForAReason
  <2>2. Rests
    BY <1>1, <1>3, <2>1 DEF Rests
  <2> QED BY <1>3, <2>1, <2>2, FinishEnds
<1> QED BY <1>2, <1>3 DEF ReleaseFails

LEMMA ReleaseAccounted == Accounted /\ (ReleaseAnswered \/ DemoteAnswered) => Accounted'
<1> SUFFICES ASSUME Accounted, ReleaseAnswered \/ DemoteAnswered PROVE Accounted'
  OBVIOUS
<1>1. blocked \/ job.invalid => role = "detached"
  BY DEF Accounted, Cached
<1>2. CASE ReleaseAnswered
  <2>1. PICK good \in BOOLEAN :
          /\ Answer("release", good) /\ UNCHANGED <<role, blocked, taken>>
          /\ \/ invalidated /\ Finish /\ UNCHANGED writable /\ Kept
             \/ good /\ ~invalidated /\ Call("demote") /\ UNCHANGED writable /\ Kept
             \/ ~good /\ ~invalidated /\ ReleaseFails
    BY <1>2 DEF ReleaseAnswered
  <2>2. /\ job.at = "release" /\ lane # <<>> /\ gateway' \in Gateways /\ (writable => role = "writer")
        /\ invalidated => role = "detached" /\ ~writable
        /\ good => gateway' = Effect("release")
    BY <2>1, AnsweredAccounted, PlacesKnown
  <2>3. Unaccounted => role = "writer"
    BY <2>2 DEF Accounted, Leased, Acquiring
  <2>4. Kept /\ Unaccounted' => role = "writer"
    <3>1. Kept /\ Unaccounted' => kept = {} /\ gateway'.lease
      BY KeepKnown DEF Kept
    <3>2. gateway'.lease => gateway.lease
      BY <2>1, NoLeaseAdded, PlacesKnown DEF Accounted
    <3> QED BY <2>3, <3>1, <3>2 DEF Unaccounted
  <2>5. CASE invalidated /\ Finish /\ UNCHANGED writable /\ Kept
    <3>1. ~Unaccounted' /\ ~writable
      BY <2>2, <2>4, <2>5
    <3>2. Rests
      BY <1>1, <2>1, <2>2, <2>5, <3>1 DEF Rests
    <3> QED BY <2>2, <2>5, <3>1, <3>2, FinishEnds
  <2>6. CASE good /\ ~invalidated /\ Call("demote") /\ UNCHANGED writable /\ Kept
    <3>1. ~gateway'.lease
      BY <2>2, <2>6, EffectsKnown DEF Accounted, Typed, Releasing
    <3>2. ~Unaccounted'
      BY <3>1 DEF Unaccounted
    <3>3. Reaches("demote")
      BY <1>1, <2>1, <2>2, <2>6, <3>2 DEF Reaches, Unwritable
    <3> QED BY <2>2, <2>6, <3>3, CallReaches, PlacesKnown
  <2>7. CASE ~invalidated /\ ReleaseFails
    BY <2>1, <2>2, <2>4, <2>7, ReleaseFailsAccounted
  <2> QED BY <2>1, <2>5, <2>6, <2>7
<1>3. CASE DemoteAnswered
  <2>1. PICK good \in BOOLEAN :
          /\ Answer("demote", good) /\ UNCHANGED <<blocked, taken>>
          /\ \/ invalidated /\ Call("undoDetach") /\ Same /\ Kept
             \/ ~invalidated /\ Finish /\ AsReader /\ Kept
             \/ invalidated /\ Finish /\ Same /\ Kept
             \/ ~invalidated /\ ReleaseFails /\ UNCHANGED <<role, timer>>
    BY <1>3 DEF DemoteAnswered
  <2>2. /\ lane # <<>> /\ gateway' \in Gateways
        /\ invalidated => role = "detached" /\ ~writable
        /\ ~invalidated => ~blocked
    BY <2>1, AnsweredAccounted, PlacesKnown
  <2>3. Kept => ~Unaccounted'
    BY <2>1, StillAccounted DEF Accounting
  <2>4. CASE invalidated /\ Call("undoDetach") /\ Same /\ Kept
    <3>1. Reaches("undoDetach")
      BY <1>1, <2>1, <2>2, <2>3, <2>4 DEF Reaches, Same
    <3> QED BY <2>2, <2>4, <3>1, CallReaches, PlacesKnown
  <2>5. CASE ~invalidated /\ Finish /\ AsReader /\ Kept
    <3>1. Rests
      BY <2>1, <2>2, <2>3, <2>5 DEF Rests, AsReader
    <3> QED BY <2>2, <2>3, <2>5, <3>1, FinishEnds
  <2>6. CASE invalidated /\ Finish /\ Same /\ Kept
    <3>1. Rests
      BY <1>1, <2>1, <2>2, <2>3, <2>6 DEF Rests, Same
    <3> QED BY <2>2, <2>3, <2>6, <3>1, FinishEnds
  <2>7. CASE ~invalidated /\ ReleaseFails /\ UNCHANGED <<role, timer>>
    BY <2>1, <2>2, <2>3, <2>7, ReleaseFailsAccounted
  <2> QED BY <2>1, <2>4, <2>5, <2>6, <2>7
<1> QED BY <1>2, <1>3

LEMMA DetachAccounted == Accounted /\ (FreeAnswered \/ LeaveAnswered) => Accounted'
<1> SUFFICES ASSUME Accounted, FreeAnswered \/ LeaveAnswered PROVE Accounted'
  OBVIOUS
<1>1. blocked \/ job.invalid => role = "detached"
  BY DEF Accounted, Cached
<1>2. CASE FreeAnswered
  <2>1. PICK good \in BOOLEAN :
          /\ Answer("free", good) /\ UNCHANGED <<role, writable, blocked, taken>>
          /\ \/ good /\ Call("leave") /\ Kept
             \/ Retry("free") /\ Kept
             \/ Finish /\ Keep({"gaveUp"})
    BY <1>2 DEF FreeAnswered
  <2>2. /\ job.at = "free" /\ lane # <<>> /\ gateway' \in Gateways /\ ~writable
        /\ good => gateway' = Effect("free")
    BY <2>1, AnsweredAccounted, PlacesKnown DEF Unwritable
  <2>3. CASE good /\ Call("leave") /\ Kept
    <3>1. ~gateway'.lease
      BY <2>2, <2>3, EffectsKnown DEF Accounted, Typed, Releasing
    <3>2. ~Unaccounted'
      BY <3>1 DEF Unaccounted
    <3>3. Reaches("leave")
      BY <1>1, <2>1, <2>2, <3>2 DEF Reaches
    <3> QED BY <2>2, <2>3, <3>3, CallReaches, PlacesKnown
  <2>4. CASE Retry("free") /\ Kept
    <3>1. Unaccounted' => kept = {} /\ gateway'.lease
      BY <2>4, KeepKnown DEF Kept
    <3>2. gateway'.lease => gateway.lease
      BY <2>1, NoLeaseAdded, PlacesKnown DEF Accounted
    <3>3. Unaccounted' => role = "writer"
      BY <2>2, <3>1, <3>2 DEF Accounted, Leased, Acquiring, Unaccounted
    <3>4. Reaches("free")
      BY <1>1, <2>1, <2>2, <3>3 DEF Reaches, Accounting, Beats
    <3> QED BY <2>2, <2>4, <3>4, CallReaches, PlacesKnown
  <2>5. CASE Finish /\ Keep({"gaveUp"})
    <3>1. ~Unaccounted'
      BY <2>5, KeptForAReason
    <3>2. Rests
      BY <1>1, <2>1, <2>2, <3>1 DEF Rests
    <3> QED BY <2>2, <2>5, <3>1, <3>2, FinishEnds
  <2> QED BY <2>1, <2>3, <2>4, <2>5
<1>3. CASE LeaveAnswered
  <2>1. PICK good \in BOOLEAN :
          /\ Answer("leave", good) /\ Finish /\ Kept /\ UNCHANGED <<blocked, taken, writable>>
          /\ role' \in {role, "detached"}
    BY <1>3 DEF LeaveAnswered
  <2>2. lane # <<>> /\ gateway' \in Gateways /\ ~writable
    BY <2>1, AnsweredAccounted, PlacesKnown DEF Unwritable
  <2>3. ~Unaccounted'
    BY <2>1, StillAccounted DEF Accounting
  <2>4. Rests
    BY <1>1, <2>1, <2>2, <2>3 DEF Rests
  <2> QED BY <2>1, <2>2, <2>3, <2>4, FinishEnds
<1> QED BY <1>2, <1>3

\* A heartbeat never demotes a writer, and reads nothing into a lost answer.
LEMMA BeatAccounted == Accounted /\ BeatAnswered => Accounted'
<1> SUFFICES ASSUME Accounted, BeatAnswered PROVE Accounted'
  OBVIOUS
<1>1. PICK good \in BOOLEAN, call \in Beats :
        /\ Answer(call, good) /\ Finish /\ Kept /\ UNCHANGED <<blocked, taken, role, writable>>
  BY DEF BeatAnswered, Beats
<1>2. /\ job.at = call /\ lane # <<>> /\ gateway' \in Gateways
      /\ gateway' \in {gateway, Effect(call)}
      /\ writable => role = "writer"
      /\ call = "beatReader" => ~writable
  BY <1>1, AnsweredAccounted, PlacesKnown DEF Beats, Unwritable
<1>3. Unaccounted' => role = "writer" /\ Owned(2)
  <2>1. Unaccounted' => kept = {} /\ gateway'.lease
    BY <1>1, KeepKnown DEF Kept
  <2>2. gateway'.lease => gateway.lease
    BY <1>1, NoLeaseAdded, PlacesKnown DEF Accounted, Beats
  <2> QED BY <1>2, <2>1, <2>2 DEF Accounted, Leased, Acquiring, Unaccounted, Beats
<1>4. writable' /\ ~taken' => gateway' = Writer
  <2> SUFFICES ASSUME writable, ~taken PROVE gateway' = Writer
    BY <1>1
  <2>1. call = "beatWriter" /\ gateway = Writer
    BY <1>2 DEF Accounted, Admitted, Beats
  <2>2. Effect(call).role = "writer" /\ Effect(call).lease /\ Effect(call) \in Gateways
    BY <2>1, EffectsKnown, PlacesKnown DEF Accounted, Typed, Writer, Beats
  <2>3. Effect(call) = Writer
    BY <2>2 DEF Gateways, Writer
  <2> QED BY <1>2, <2>1, <2>3
<1>5. blocked => role = "detached"
  BY DEF Accounted, Cached
<1>6. Rests
  BY <1>1, <1>2, <1>3, <1>4, <1>5 DEF Rests
<1> QED BY <1>1, <1>2, <1>3, <1>6, FinishEnds

-----------------------------------------------------------------------------
LEMMA InitAccounted == Init => Accounted
<1> SUFFICES ASSUME Init PROVE Accounted
  OBVIOUS
<1>1. Fenced /\ job.at = "idle" /\ job.invalid = FALSE
  BY InitFenced DEF Init, Idle
<1>2. lane = <<>> /\ lane \in Seq(Ops) /\ Len(lane) = 0
  BY DEF Init
<1>3. gateway \in Gateways /\ ~gateway.lease
  BY DEF Init, Gateways
<1>4. Promised
  BY <1>2 DEF Promised
<1>5. Typed /\ Cached /\ Admitted /\ Leased
  BY <1>1, <1>2, <1>3 DEF Init, Typed, Cached, Admitted, Leased, Unaccounted, Unwritable
<1> QED BY <1>4, <1>5 DEF Accounted

LEMMA StepAccounted == Accounted /\ [Next]_vars => Accounted'
<1> SUFFICES ASSUME Accounted, [Next]_vars PROVE Accounted'
  OBVIOUS
<1>1. CASE UNCHANGED vars
  BY <1>1, StayAccounted DEF vars, state
<1>2. CASE Calls
  BY <1>2, BeginAccounted, ReaderAnsweredAccounted, WriterAnsweredAccounted,
     LeaseAnsweredAccounted, PostedAccounted, WriterRefusedAccounted, FallbackAccounted,
     UndoAccounted, ReleaseAccounted, DetachAccounted, BeatAccounted
  DEF Calls
<1>3. CASE Next /\ ~Calls
  BY <1>3, UseAccounted, EventAccounted, RevokeAccounted, TakenAccounted DEF Next
<1> QED BY <1>1, <1>2, <1>3

LEMMA AlwaysAccounted == Spec => []Accounted
  BY InitAccounted, StepAccounted, PTL DEF Spec

\* Whatever is queued on the lane, whichever calls fail or lose their answer and
\* whenever authorization is revoked: attachWriterLocked has had the role and
\* the lease confirmed before the request is sent, and releaseWriter,
\* detachSurface and the heartbeat leave no tab writable without them.
THEOREM WritersAreAdmitted == Spec => []AdmittedByLease
<1>1. Accounted => AdmittedByLease
  BY DEF Accounted, Typed, Admitted, AdmittedByLease, Writer
<1> QED BY <1>1, AlwaysAccounted, PTL

\* sendMessage, runSessionCommandMutation, stop and the end of a turn between
\* them queue the release of every lease that an operation leaves behind, or the
\* operation ends with a reason for it: nothing is lost between the turn that
\* ends while a request is under way and the request that is refused.
THEOREM LeasesAreReleased == Spec => []IdleHoldsNoLease
<1>1. Accounted => IdleHoldsNoLease
  <2> SUFFICES ASSUME Accounted, lane = <<>>, turn = "none", gateway.lease PROVE kept # {}
    BY DEF IdleHoldsNoLease
  <2>1. job.at = "idle" /\ Len(lane) = 0
    BY DEF Accounted, Typed
  <2>2. ~Owned(1)
    BY <2>1 DEF Owned, Frees
  <2> QED BY <2>1, <2>2 DEF Accounted, Leased, Unaccounted
<1> QED BY <1>1, AlwaysAccounted, PTL

-----------------------------------------------------------------------------
(* The heartbeat and the attempts *)

Roles == {"detached", "reader", "writer"}
Turns == {"none", "submitted", "running"}

\* A tab without authorization has no heartbeat scheduled, and the answer to one
\* that is under way will not be taken for good.
Silenced ==
  /\ blocked => ~timer
  /\ blocked /\ job.at \in Beats => job.stale

Counted == role \in Roles /\ turn \in Turns /\ job.tries \in 0 .. 2

Rested == Accounted /\ Silenced /\ Counted

\* What an operation does next: it ends, or calls, three times at most.
Onward ==
  \/ job' = Idle
  \/ job'.at \notin Beats /\ job'.tries \in 0 .. 2

LEMMA CallOnward ==
  ASSUME Rested, NEW at \in Positions \ Beats, Call(at) \/ (job.tries < 2 /\ Retry(at))
  PROVE  Onward
<1>1. job \in Jobs /\ job.tries \in 0 .. 2
  BY DEF Rested, Accounted, Typed, Fenced, Counted
<1>2. CASE Call(at)
  <2>1. job' = [job EXCEPT !.at = at, !.stale = FALSE]
    BY <1>2 DEF Call
  <2>2. job'.at = at /\ job'.tries = job.tries
    BY <1>1, <2>1 DEF Jobs
  <2> QED BY <1>1, <2>2 DEF Onward
<1>3. CASE job.tries < 2 /\ Retry(at)
  <2>1. job' = [job EXCEPT !.at = at, !.stale = FALSE, !.tries = job.tries + 1]
    BY <1>3 DEF Retry
  <2>2. job'.at = at /\ job'.tries = job.tries + 1
    BY <1>1, <2>1 DEF Jobs
  <2> QED BY <1>1, <1>3, <2>2 DEF Onward
<1> QED BY <1>2, <1>3

LEMMA ReturnOnward ==
  ASSUME NEW accepted, Return(accepted)
  PROVE  Onward /\ (turn \in Turns => turn' \in Turns)
<1>1. CASE Finish
  BY <1>1 DEF Finish, Done, Onward
<1>2. CASE Sent(accepted)
  BY <1>2 DEF Sent, Done, DoneThenRelease, Onward, Turns
<1>3. CASE Commanded
  BY <1>3 DEF Commanded, Done, DoneThenRelease, Onward
<1>4. CASE Stopped(accepted)
  BY <1>4 DEF Stopped, Done, DoneThenRelease, Onward
<1> QED BY <1>1, <1>2, <1>3, <1>4 DEF Return

LEMMA FinishOnward == Finish => Onward /\ UNCHANGED turn
  BY DEF Finish, Done, Onward

\* A step of an operation that is not a heartbeat.
LEMMA OnwardRested ==
  ASSUME Rested, Accounted', Onward, UNCHANGED blocked, role' \in Roles, turn' \in Turns,
         timer' = timer \/ timer' = FALSE \/ ~blocked
  PROVE  Rested'
<1>1. job'.at \notin Beats /\ job'.tries \in 0 .. 2
  BY DEF Onward, Idle, Beats
<1> QED BY <1>1 DEF Rested, Silenced, Counted

\* What does not wait for the lane.
LEMMA EventRested ==
  ASSUME Rested, Accounted', Next, ~Calls
  PROVE  Rested'
<1> USE DEF Rested, Silenced, Counted
<1>1. CASE Open \/ Send \/ Command \/ Stop \/ Attach \/ Detach \/ Close \/ TurnStarts \/ TurnEnds
  <2>1. UNCHANGED <<role, blocked, timer, job>>
    BY <1>1 DEF Open, Send, Command, Stop, Attach, Detach, Close, TurnStarts, TurnEnds, Use, state
  <2>2. turn' \in {turn, "none", "submitted", "running"}
    BY <1>1 DEF Open, Send, Command, Stop, Attach, Detach, Close, TurnStarts, TurnEnds, Use, state
  <2> QED BY <2>1, <2>2 DEF Turns
<1>2. CASE Revoke
  <2>1. job' = [job EXCEPT !.invalid = (job.at # "idle"), !.stale = (job.at # "idle")]
    BY <1>2 DEF Revoke
  <2>2. job'.at = job.at /\ job'.tries = job.tries /\ job'.stale = (job.at # "idle")
    BY <2>1 DEF Accounted, Typed, Fenced, Jobs
  <2> QED BY <1>2, <2>2 DEF Revoke, Roles, Turns, Beats
<1>3. CASE Refresh
  <2>1. job' = [job EXCEPT !.stale = (job.at # "idle")]
    BY <1>3 DEF Refresh
  <2>2. job'.tries = job.tries
    BY <2>1 DEF Accounted, Typed, Fenced, Jobs
  <2> QED BY <1>3, <2>2 DEF Refresh
<1>4. CASE Beat \/ Taken
  <2>1. UNCHANGED <<role, turn, blocked, job>> /\ (timer' = timer \/ timer' = FALSE)
    BY <1>4 DEF Beat, Taken, state
  <2> QED BY <2>1
<1> QED BY <1>1, <1>2, <1>3, <1>4 DEF Next

LEMMA BeginRested ==
  ASSUME Rested, Accounted',
         ReaderBegins \/ WriterBegins \/ ReleaseBegins \/ DetachBegins \/ BeatBegins
  PROVE  Rested'
<1>0. /\ UNCHANGED <<blocked, role, timer>> /\ role \in Roles /\ turn \in Turns
  BY DEF ReaderBegins, WriterBegins, ReleaseBegins, DetachBegins, BeatBegins, Begin, Same,
         Rested, Counted
<1>1. ASSUME ReaderBegins \/ WriterBegins \/ ReleaseBegins \/ DetachBegins PROVE Rested'
  <2>1. \/ Finish
        \/ \E at \in {"reader", "writer", "release", "free", "leave"} : Call(at)
    BY <1>1 DEF ReaderBegins, WriterBegins, ReleaseBegins, DetachBegins
  <2>2. {"reader", "writer", "release", "free", "leave"} \subseteq Positions \ Beats
    BY PlacesKnown DEF Beats
  <2>3. Onward /\ UNCHANGED turn
    <3>1. CASE Finish
      BY <3>1, FinishOnward
    <3>2. ASSUME NEW at \in Positions \ Beats, Call(at) PROVE Onward /\ UNCHANGED turn
      BY <3>2, CallOnward DEF Call
    <3> QED BY <2>1, <2>2, <3>1, <3>2
  <2> QED BY <1>0, <2>3, OnwardRested
<1>2. ASSUME BeatBegins PROVE Rested'
  <2>1. CASE Finish
    <3>1. Onward /\ UNCHANGED turn
      BY <2>1, FinishOnward
    <3> QED BY <1>0, <3>1, OnwardRested
  <2>2. CASE ~blocked /\ \E at \in Beats : Call(at)
    <3>1. PICK at \in Beats : Call(at)
      BY <2>2
    <3>2. job' = [job EXCEPT !.at = at, !.stale = FALSE] /\ UNCHANGED turn
      BY <3>1 DEF Call
    <3>3. job'.tries = job.tries
      BY <3>2 DEF Rested, Accounted, Typed, Fenced, Jobs
    <3> QED BY <1>0, <2>2, <3>2, <3>3 DEF Rested, Silenced, Counted
  <2> QED BY <1>2, <2>1, <2>2 DEF BeatBegins, Beats
<1> QED BY <1>1, <1>2

\* A heartbeat whose tab has lost its authorization schedules no other.
LEMMA BeatRested ==
  ASSUME Rested, Accounted', BeatAnswered
  PROVE  Rested'
<1>1. PICK good \in BOOLEAN, call \in Beats :
        /\ Answer(call, good) /\ Finish /\ UNCHANGED <<blocked, taken, role, writable>>
        /\ timer' = (timer \/ good \/ (~blocked /\ role # "detached"))
  BY DEF BeatAnswered, Beats
<1>2. job.at \in Beats /\ (good => ~job.stale)
  BY <1>1 DEF Answer
<1>3. blocked => timer' = FALSE
  BY <1>1, <1>2 DEF Rested, Silenced
<1>4. Onward /\ UNCHANGED turn
  BY <1>1, FinishOnward
<1> QED BY <1>1, <1>3, <1>4, OnwardRested DEF Rested, Counted

\* The other answers.
LEMMA AnswersRested ==
  ASSUME Rested, Accounted', Calls,
         ~(ReaderBegins \/ WriterBegins \/ ReleaseBegins \/ DetachBegins \/ BeatBegins \/ BeatAnswered)
  PROVE  Rested'
<1>1. /\ UNCHANGED blocked
      /\ role' \in {role, "detached", "reader", "writer"}
      /\ timer' = timer \/ timer' = FALSE \/ ~blocked
  BY DEF Calls, ReaderAnswered, WriterAnswered, LeaseAnswered, Posted, WriterRefused,
         CatchReleased, FallbackAnswered, CatchDetached, UndoReleased, UndoDetached,
         ReleaseAnswered, ReleaseFails, DemoteAnswered, FreeAnswered, LeaveAnswered,
         Same, AsReader, Detached, invalidated
<1>2. WriterAnswered \/ (\E accepted : Return(accepted)) \/ Finish
      \/ \E at \in {"undoDetach", "catchRelease", "undoRelease", "post", "fallback",
                    "catchDetach", "demote", "leave", "release", "free"} :
           Call(at) \/ (job.tries < 2 /\ Retry(at))
  BY DEF Calls, ReaderAnswered, LeaseAnswered, Posted, WriterRefused, CatchReleased,
         FallbackAnswered, CatchDetached, UndoReleased, UndoDetached, ReleaseAnswered,
         ReleaseFails, DemoteAnswered, FreeAnswered, LeaveAnswered
<1>3. turn \in Turns
  BY DEF Rested, Counted
<1>4. Onward /\ turn' \in Turns
  <2>1. CASE WriterAnswered
    <3>1. PICK at \in {"undoRelease", "acquire", "refused", "fallback"} :
            job' = [job EXCEPT !.stale = FALSE, !.at = at] /\ UNCHANGED turn
      BY <2>1 DEF WriterAnswered
    <3>2. job'.at = at /\ job'.tries = job.tries
      BY <3>1 DEF Rested, Accounted, Typed, Fenced, Jobs
    <3> QED BY <1>3, <3>1, <3>2 DEF Onward, Rested, Counted, Beats
  <2>2. CASE \E accepted : Return(accepted)
    BY <1>3, <2>2, ReturnOnward
  <2>3. CASE Finish
    BY <1>3, <2>3, FinishOnward
  <2>4. ASSUME NEW at \in {"undoDetach", "catchRelease", "undoRelease", "post", "fallback",
                           "catchDetach", "demote", "leave", "release", "free"},
               Call(at) \/ (job.tries < 2 /\ Retry(at))
        PROVE  Onward /\ turn' \in Turns
    <3>1. at \in Positions \ Beats
      BY PlacesKnown DEF Beats
    <3>2. UNCHANGED turn
      BY <2>4 DEF Call, Retry
    <3> QED BY <1>3, <2>4, <3>1, <3>2, CallOnward
  <2> QED BY <1>2, <2>1, <2>2, <2>3, <2>4
<1>5. role' \in Roles
  BY <1>1 DEF Rested, Counted, Roles
<1> QED BY <1>1, <1>4, <1>5, OnwardRested

\* A tab that lost its authorization is detached and schedules no heartbeat,
\* whatever is answered late (clearSessionAuthorizationState,
\* schedulePresenceHeartbeat), and no release is tried more than three times.
THEOREM AttachmentTypes == Spec => []TypeOK
<1>1. Init => Rested
  BY InitAccounted DEF Init, Rested, Silenced, Counted, Idle, Roles, Turns
<1>2. Rested /\ [Next]_vars => Rested'
  <2> SUFFICES ASSUME Rested, [Next]_vars PROVE Rested'
    OBVIOUS
  <2>1. Accounted'
    BY StepAccounted DEF Rested
  <2>2. CASE UNCHANGED vars
    BY <2>1, <2>2 DEF vars, state, Rested, Silenced, Counted
  <2> QED BY <2>1, <2>2, EventRested, BeginRested, BeatRested, AnswersRested DEF Calls
<1>3. Rested => TypeOK
  BY DEF Rested, Accounted, Typed, Cached, Silenced, Counted, Roles, Turns, Fenced, Jobs,
         Gateways, TypeOK
<1> QED BY <1>1, <1>2, <1>3, PTL DEF Spec

=============================================================================
