------------------------- MODULE SourceIncremental -------------------------
(***************************************************************************)
(* source_sidecar.rs with the reads of source_db.rs behind the managed     *)
(* server: incremental reads of one resource.  A request takes a permit,   *)
(* waits for the resource's lane, reads one page of what lies above its    *)
(* watermark, and is answered in chunks of which the last one carries the  *)
(* next watermark.                                                         *)
(*                                                                         *)
(* The gateway is external.  It owns the watermark: it sends the one it    *)
(* has and, once it holds the whole answer, commits rows and watermark     *)
(* together if nobody has committed meanwhile (the revision).  A row is    *)
(* known by the time of its last change, the column that is read by        *)
(* (updated_at_field, cursor_field).  Writers are not restricted: a change *)
(* may be late, have the time of another one, or fall into a window that   *)
(* is being paged.                                                         *)
(*                                                                         *)
(* Left out: the strategy without such a column (offset, which the code    *)
(* itself calls degraded), columns whose values have no text, and rows     *)
(* too long for a chunk.                                                   *)
(***************************************************************************)
EXTENDS Integers, Sequences, FiniteSets, SequencesExt

CONSTANTS
  Rows,         \* rows of the resource
  Requests,     \* requests the gateway may have under way
  Text,         \* order of the values' texts, which max_string_field compares
  Limit,        \* rows of a page
  ChunkRows,    \* SOURCE_STREAM_MAX_ROWS (128)
  MaxInFlight,  \* MAX_IN_FLIGHT (256)
  Start,        \* tables there may be at first
  MaxTime,      \* bound: times at which rows change
  MaxChanges,   \* bound: changes
  MaxTogether,  \* bound: rows of one change
  MaxFaults     \* bound: reads that fail or take too long, broken connections

Times == 1 .. MaxTime

ASSUME SourceAssumption ==
  /\ IsFiniteSet(Rows) /\ IsFiniteSet(Requests)
  /\ Text \in [Times -> Nat]
  /\ {Limit, ChunkRows, MaxInFlight} \subseteq Nat \ {0}
  /\ {MaxTime, MaxChanges, MaxTogether, MaxFaults} \subseteq Nat
  /\ Start \subseteq [Rows -> 0 .. MaxTime]

VARIABLES
  table,      \* when each row last changed; 0: it is not there
  changes,    \* how many there were
  watermark,  \* the gateway's: high_watermark or cursor (0: None) and offset
  taken,      \* which change of each row the gateway has committed last
  exposed,    \* history, for Covered: rows that writers put out of reach
  run,        \* the requests
  lane,       \* the requests at the resource's lane; the first one holds it
  permits,    \* in_flight: permits left
  faults

data == <<table, changes>>
gateway == <<watermark, taken>>
sourceVars == <<data, exposed, gateway, run, lane, permits, faults>>

Watermarks == [value : 0 .. MaxTime, offset : 0 .. Cardinality(Rows)]
NoWatermark == [value |-> 0, offset |-> 0]
Idle == [phase |-> "idle", before |-> NoWatermark, after |-> NoWatermark,
         current |-> FALSE, rest |-> <<>>, got |-> {}]

(***************************************************************************)
(* What a page is                                                          *)
(***************************************************************************)
\* WHERE field > value, or every row when there is no value.
Window(value) == {r \in Rows : table[r] > value}

\* ORDER BY field ASC says nothing about rows of the same time.
Orders(S) ==
  {s \in SetToSeqs(S) : \A i, j \in DOMAIN s : i < j => table[s[i]] <= table[s[j]]}

\* mutant of Truncated: a full page is taken for one that was cut off.
FullPage(rows, before) == Len(rows) >= before.offset + Limit
\* `offset` rows are skipped; what is fetched is one row more than the limit if
\* there are more.
Truncated(rows, before) == Len(rows) > before.offset + Limit

Page(rows, before) ==
  LET length == IF Truncated(rows, before) THEN Limit ELSE Len(rows) - before.offset
  IN [i \in 1 .. length |-> <<rows[before.offset + i], table[rows[before.offset + i]]>>]

\* max_string_field, the greatest text; the value before if there is no row.
LastValue(page, before, value) ==
  IF page = <<>> THEN value = before.value
  ELSE \E last \in DOMAIN page :
         /\ value = page[last][2]
         /\ \A i \in DOMAIN page : Text[page[i][2]] <= Text[value]

\* watermark_after_batch: pages of a window move the offset, the last one
\* the value.
WatermarkAfter(page, truncated, before, after) ==
  IF truncated
  THEN after = [before EXCEPT !.offset = @ + Len(page)]
  ELSE LastValue(page, before, after.value) /\ after.offset = 0

(***************************************************************************)
(* What a watermark has behind it                                          *)
(***************************************************************************)
\* The rows at or below the value, and as many of the next ones as the offset
\* skips; rows of the same time are skipped together or not at all.
Passed(tab, w, r) ==
  \/ tab[r] \in 1 .. w.value
  \/ /\ tab[r] > w.value
     /\ Cardinality({x \in Rows : tab[x] > w.value /\ tab[x] <= tab[r]}) <= w.offset

\* The watermarks that are committed or may be next.
InUse == {watermark} \cup {run[q].after : q \in {x \in Requests : run[x].current}}

\* A change puts a row out of reach if the row, by it, comes to lie behind a
\* watermark: it is written there, or the ones before it become fewer.
Hidden(tab, S) ==
  {r \in Rows : \E w \in InUse :
     Passed(tab, w, r) /\ (r \in S \/ ~Passed(table, w, r))}

\* Rows of one time on both sides of the offset: the next query may give them in
\* another order.
Torn(before) ==
  LET window == Window(before.value) IN
  {r \in window :
     /\ Cardinality({x \in window : table[x] < table[r]}) < before.offset
     /\ Cardinality({x \in window : table[x] <= table[r]}) > before.offset}

(***************************************************************************)
(* A request                                                               *)
(***************************************************************************)
\* "sent": the last chunk is out; "closing": an error or nothing but the end of
\* the stream is left to send.
HoldsPermit(q) == run[q].phase \in {"queued", "streaming", "sent", "closing"}

\* mutant of LeaveLane: what is dropped keeps its place.
KeepPlace(q) == UNCHANGED lane
LeaveLane(q) ==
  \/ q \notin ToSet(lane) /\ UNCHANGED lane
  \/ \E i \in DOMAIN lane : lane[i] = q /\ lane' = RemoveAt(lane, i)
PermitBack(q) == permits' = IF HoldsPermit(q) THEN permits + 1 ELSE permits

\* The handler's future or the response stream is dropped: the place at the
\* lane and the permit go with it.
Leave(q) ==
  /\ run' = [run EXCEPT ![q] = Idle]
  /\ LeaveLane(q)
  /\ PermitBack(q)

\* handle_request, dispatch_frame and run_incremental_source up to the lane.
\* Without a permit the answer is edge_overloaded and nothing changes.
Accept(q) ==
  /\ run[q].phase = "idle"
  /\ permits > 0
  /\ permits' = permits - 1
  /\ lane' = Append(lane, q)
  /\ run' = [run EXCEPT ![q] =
               [Idle EXCEPT !.phase = "queued", !.before = watermark, !.current = TRUE]]
  /\ UNCHANGED <<data, exposed, gateway, faults>>

HoldsLane(q) == lane # <<>> /\ Head(lane) = q

\* The rest of run_incremental_source; the guard of the lane goes with it.
ReadBatch(q) ==
  /\ HoldsLane(q)
  /\ LET before == run[q].before IN
     \E rows \in Orders(Window(before.value)), after \in Watermarks :
       LET page == Page(rows, before) IN
       /\ WatermarkAfter(page, Truncated(rows, before), before, after)
       /\ run' = [run EXCEPT ![q].phase = "streaming", ![q].rest = page, ![q].after = after]
  /\ exposed' = IF run[q].current THEN exposed \cup Torn(run[q].before) ELSE exposed
  /\ lane' = Tail(lane)
  /\ UNCHANGED <<data, gateway, permits, faults>>

Fault == faults < MaxFaults /\ faults' = faults + 1

\* The database answers with an error: a stream of one frame, with the permit.
ReadFails(q) ==
  /\ Fault
  /\ HoldsLane(q)
  /\ run' = [run EXCEPT ![q] = [Idle EXCEPT !.phase = "closing"]]
  /\ lane' = Tail(lane)
  /\ UNCHANGED <<data, exposed, gateway, permits>>

\* 30 s for the lane and the read together.
Timeout(q) ==
  /\ Fault
  /\ run[q].phase = "queued"
  /\ Leave(q)
  /\ UNCHANGED <<data, exposed, gateway>>

\* The connection breaks, or the gateway gives up: before the answer, within
\* it, or with the whole answer in hand and nothing committed.
Cut(q) ==
  /\ Fault
  /\ run[q].phase # "idle"
  /\ Leave(q)
  /\ UNCHANGED <<data, exposed, gateway>>

\* mutant of FinalChunk: every chunk carries the watermark.
AnyChunk(rest) == TRUE
FinalChunk(rest) == rest = <<>>

\* source_incremental_frame_stream: up to ChunkRows rows, fewer when they are
\* long.
SendChunk(q) ==
  /\ run[q].phase = "streaming"
  /\ \E n \in 0 .. ChunkRows :
       /\ n <= Len(run[q].rest)
       /\ n = 0 => run[q].rest = <<>>
       /\ LET rest == SubSeq(run[q].rest, n + 1, Len(run[q].rest)) IN
          /\ run' = [run EXCEPT ![q].rest = rest,
                       ![q].got = @ \cup ToSet(SubSeq(run[q].rest, 1, n)),
                       ![q].phase = IF FinalChunk(rest) THEN "sent" ELSE "streaming"]
  /\ UNCHANGED <<data, exposed, gateway, lane, permits, faults>>

\* One poll later there is no frame left: the stream gives its permit back,
\* whether or not the gateway has committed by then.
EndStream(q) ==
  /\ run[q].phase \in {"sent", "closing"}
  /\ run' = [run EXCEPT ![q] =
       IF run[q].phase = "sent" THEN [run[q] EXCEPT !.phase = "delivered"] ELSE Idle]
  /\ permits' = permits + 1
  /\ UNCHANGED <<data, exposed, gateway, lane, faults>>

(***************************************************************************)
(* The gateway and the writers of the resource                             *)
(***************************************************************************)
\* A commit raises the revision: what was asked for before it is refused.
Done(q) == IF HoldsPermit(q) THEN [Idle EXCEPT !.phase = "closing"] ELSE Idle
Commit(q) ==
  /\ run[q].phase \in {"sent", "delivered"}
  /\ IF run[q].current
     THEN /\ watermark' = run[q].after
          /\ taken' = [r \in Rows |->
               IF \E t \in Times : <<r, t>> \in run[q].got
               THEN CHOOSE t \in Times : <<r, t>> \in run[q].got
               ELSE taken[r]]
          /\ run' = [x \in Requests |->
               IF x = q THEN Done(q) ELSE [run[x] EXCEPT !.current = FALSE]]
     ELSE UNCHANGED gateway /\ run' = [run EXCEPT ![q] = Done(q)]
  /\ UNCHANGED <<data, exposed, lane, permits, faults>>

\* A writer's transaction: rows get the time t, which may be late or one that
\* others have, or are removed (0).
Write(S, t) ==
  /\ changes < MaxChanges
  /\ Cardinality(S) \in 1 .. MaxTogether /\ \A r \in S : table[r] # t
  /\ changes' = changes + 1
  /\ table' = [r \in Rows |-> IF r \in S THEN t ELSE table[r]]
  /\ exposed' = (exposed \ S) \cup Hidden(table', S)
  /\ UNCHANGED <<gateway, run, lane, permits, faults>>

(***************************************************************************)
(* Specification                                                           *)
(***************************************************************************)
SourceInit ==
  /\ table \in Start
  /\ changes = 0
  /\ exposed = {}
  /\ watermark = NoWatermark
  /\ taken = [r \in Rows |-> 0]
  /\ run = [q \in Requests |-> Idle]
  /\ lane = <<>>
  /\ permits = MaxInFlight
  /\ faults = 0

Work(q) == Accept(q) \/ ReadBatch(q) \/ SendChunk(q) \/ EndStream(q) \/ Commit(q)

SourceNext ==
  \/ \E q \in Requests : Work(q) \/ ReadFails(q) \/ Timeout(q) \/ Cut(q)
  \/ \E S \in SUBSET Rows, t \in 0 .. MaxTime : Write(S, t)

SourceSpec == SourceInit /\ [][SourceNext]_sourceVars

\* The gateway asks again and again and commits what it gets; the lane is
\* first come, first served, and a read that neither fails nor times out ends.
FairSource == SourceSpec /\ \A q \in Requests : WF_sourceVars(Work(q))

(***************************************************************************)
(* Properties                                                              *)
(***************************************************************************)
RequestType ==
  [phase : {"idle", "queued", "streaming", "sent", "closing", "delivered"},
   before : Watermarks, after : Watermarks, current : BOOLEAN,
   rest : Seq(Rows \X Times), got : SUBSET (Rows \X Times)]

\* Every variable has its type; there are never more permits than the server
\* was given (managed_server.rs, in_flight).
SourceTypeOK ==
  /\ table \in [Rows -> 0 .. MaxTime]
  /\ changes \in 0 .. MaxChanges
  /\ exposed \in SUBSET Rows
  /\ watermark \in Watermarks
  /\ taken \in [Rows -> 0 .. MaxTime]
  /\ run \in [Requests -> RequestType]
  /\ lane \in Seq(Requests)
  /\ permits \in 0 .. MaxInFlight
  /\ faults \in 0 .. MaxFaults

\* Whatever no read will ask for again has been committed, except the rows that
\* writers put out of reach: the rows at or below the committed value, although
\* that is the maximum of the last page's texts only, chunks are lost and requests
\* overtake each other, and the rows the offset of a half-read window skips,
\* although rows are added, moved and removed meanwhile (watermark_after_batch,
\* source_incremental_frame_stream, read_postgres_batch).  The exceptions are
\* what the code does lose: a row written at or below a watermark, a row that
\* others, leaving a half-read window, move under its offset, and rows of one
\* time that a page ends between.
Covered ==
  \A r \in Rows \ exposed : Passed(table, watermark, r) => taken[r] = table[r]

\* When no request is being served every permit is back and the lane is free,
\* however the requests ended (OwnedSemaphorePermit in frame_stream_response,
\* the lane's guard).
NothingLeaks ==
  (\A q \in Requests : ~HoldsPermit(q)) => permits = MaxInFlight /\ lane = <<>>

\* Once the writers have stopped, the value reaches their last change and no
\* window stays open; with Covered, everything has been committed.
CatchesUp ==
  <>[](watermark.offset = 0 /\ \A r \in Rows : table[r] <= watermark.value)

=============================================================================
