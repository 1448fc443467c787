---------------------------- MODULE IframeBridge ----------------------------
(***************************************************************************)
(* apps/iframeBridge.ts: the host's side of the channel to an APP's frame. *)
(* The APP asks for calls of its API; the host fetches and posts detail,   *)
(* headers, data and an end.  Data is posted against credit the APP        *)
(* grants.  A 401 or 403 ends the authorization of the connection; a frame *)
(* that loads again gets a new port.                                       *)
(*                                                                         *)
(* JavaScript runs to completion and an abort rejects a pending fetch or   *)
(* read at once: one action is a message, a timer or an answer with every  *)
(* continuation it wakes.                                                  *)
(***************************************************************************)
EXTENDS Integers, Sequences, FiniteSets, SequencesExt

CONSTANTS
  Ids,          \* request identifiers of the APP
  MaxFlights,   \* bound: requests the host accepts
  MaxPorts,     \* bound: times the frame loads
  MaxActive,    \* requests at once (16)
  Window,       \* identifiers remembered against replay (2048)
  MaxChunk,     \* bound: bytes in a chunk
  MaxChunks,    \* bound: chunks in a body
  MaxCredit     \* bound: credit of a request

ASSUME BridgeAssumption ==
  /\ {MaxFlights, MaxPorts} \subseteq Nat
  /\ {MaxActive, Window, MaxChunk, MaxChunks, MaxCredit} \subseteq Nat \ {0}

VARIABLES
  port,         \* which load of the frame `port` belongs to; 0: null
  ports,        \* loads so far
  disposed,
  valid,        \* authorizationValid
  detail,       \* detailPromise
  replay,       \* requestReplayOrder
  requests,     \* the map from identifier to request; 0: none
  flights       \* every request accepted so far

vars == <<port, ports, disposed, valid, detail, replay, requests, flights>>

Slots == DOMAIN flights
Terminal == {"end", "error"}
Running(f) == f.at # "done"
Over(f) == \E k \in DOMAIN f.log : f.log[k] \in Terminal
Owned(i) == requests[flights[i].id] = i

Init ==
  /\ port = 0 /\ ports = 0 /\ disposed = FALSE /\ valid = TRUE
  /\ detail = "none"
  /\ replay = <<>>
  /\ requests = [id \in Ids |-> 0]
  /\ flights = <<>>

-----------------------------------------------------------------------------
(* What happens to one request. *)

\* The catch block: the error is posted unless the bridge is disposed or the
\* authorization is gone (tell).
Fail(f, tell) ==
  [f EXCEPT !.at = "done", !.log = IF tell THEN Append(@, "error") ELSE @]

\* controller.abort() and the waiters woken: a fetch or a read rejects; a
\* wait for credit ends, before the first read without a word, later with a
\* read that rejects, or finds the body complete and is silent too.
Stop(f, tell) ==
  LET g == [f EXCEPT !.aborted = TRUE] IN
  CASE f.at \in {"fetch", "read"} -> Fail(g, tell)
    [] f.at = "post" /\ ~f.last   -> Fail(g, tell)
    [] f.at = "post" /\ f.last    -> Fail(g, FALSE)
    [] f.at = "first"             -> Fail(g, FALSE)
    [] OTHER                      -> g

\* The loop over the body, run as far as credit and data go.
Pump(f) ==
  LET n    == IF f.credit < f.chunk THEN f.credit ELSE f.chunk
      rest == f.chunk - n
  IN  [f EXCEPT !.credit = @ - n, !.sent = @ + n, !.chunk = rest,
                !.at = IF rest > 0 THEN "post" ELSE IF f.last THEN "done" ELSE "read",
                !.log = IF rest = 0 /\ f.last THEN Append(@, "end") ELSE @]

\* `fs` with the finally block of those that ended: it deletes by identifier.
Settle(fs) ==
  /\ flights' = fs
  /\ requests' = [id \in Ids |->
       IF \E i \in Slots : fs[i].id = id /\ Running(flights[i]) /\ ~Running(fs[i])
       THEN 0 ELSE requests[id]]

\* detailPromise resolves: whoever waits goes on, aborted or not.
WithDetail(f, tell) ==
  IF f.aborted THEN Fail(f, tell)
  ELSE [f EXCEPT !.at = "fetch", !.log = Append(@, "detail")]

\* mutant of StopAll: the requests are stopped, the detail is not.
StopAllButDetail(word, tell) ==
  [i \in Slots |->
     LET f == [flights[i] EXCEPT !.log = IF Owned(i) THEN @ \o word ELSE @]
     IN  IF Owned(i) THEN Stop(f, tell) ELSE f]

\* Every request of the map is stopped; those that wait for the detail, which
\* is aborted too, fail with it.  `word` is posted to each first.
StopAll(word, tell) ==
  [i \in Slots |->
     LET f == [flights[i] EXCEPT !.log = IF Owned(i) THEN @ \o word ELSE @]
         g == IF Owned(i) THEN Stop(f, tell) ELSE f
     IN  IF g.at = "detail" /\ detail = "loading" THEN Fail(g, tell) ELSE g]

-----------------------------------------------------------------------------
\* The frame loads (again): everything of the connection before is dropped.
\* What the dropped requests still say goes to the new port.
Connect ==
  /\ ~disposed /\ ports < MaxPorts
  /\ flights' = StopAll(<<>>, TRUE)
  /\ requests' = [id \in Ids |-> 0]
  /\ ports' = ports + 1 /\ port' = ports + 1
  /\ valid' = TRUE /\ detail' = "none" /\ replay' = <<>>
  /\ UNCHANGED disposed

Dispose ==
  /\ ~disposed
  /\ disposed' = TRUE /\ port' = 0
  /\ flights' = StopAll(<<>>, FALSE)
  /\ requests' = [id \in Ids |-> 0]
  /\ UNCHANGED <<ports, valid, detail, replay>>

\* mutant of Invalidate: the catch blocks still see a valid authorization.
InvalidateLate ==
  /\ valid' = FALSE /\ detail' = "none"
  /\ Settle(StopAll(<<"error">>, TRUE))

\* mutant of Invalidate: the requests are told and left running.
TellOnly ==
  /\ valid' = FALSE /\ detail' = "none"
  /\ Settle([i \in Slots |-> IF Owned(i) THEN [flights[i] EXCEPT !.log = Append(@, "error")]
                             ELSE flights[i]])

\* invalidateAuthorization: told to every request, which are then stopped.
Invalidate ==
  /\ valid' = FALSE /\ detail' = "none"
  /\ Settle(StopAll(<<"error">>, FALSE))

Remember(id) ==
  LET order == Append(replay, id)
  IN  IF Len(order) > Window THEN Tail(order) ELSE order

Flight(id, expired) ==
  [id |-> id, port |-> port, at |-> "detail", credit |-> 0, chunk |-> 0, chunks |-> 0,
   last |-> FALSE, sent |-> 0, aborted |-> expired, log |-> <<>>]

\* A request of the APP.  The first three are answered with an error and
\* leave no request behind: no authorization, an identifier used before,
\* too many requests or one that is not well-formed.
Request(id, expired) ==
  /\ port # 0
  /\ \/ ~valid /\ UNCHANGED <<replay, requests, flights, detail>>
     \/ valid /\ id \in ToSet(replay) /\ UNCHANGED <<replay, requests, flights, detail>>
     \/ /\ valid /\ id \notin ToSet(replay)
        /\ replay' = Remember(id)
        /\ UNCHANGED <<requests, flights, detail>>
     \/ /\ valid /\ id \notin ToSet(replay)
        /\ Cardinality({x \in Ids : requests[x] # 0}) < MaxActive
        /\ Len(flights) < MaxFlights
        /\ replay' = Remember(id)
        /\ LET f == IF detail = "ready" THEN WithDetail(Flight(id, expired), TRUE)
                    ELSE Flight(id, expired)
           IN  /\ flights' = Append(flights, f)
               /\ requests' = [requests EXCEPT ![id] =
                                 IF Running(f) THEN Len(flights) + 1 ELSE 0]
        /\ detail' = IF detail = "none" THEN "loading" ELSE detail
  /\ UNCHANGED <<port, ports, disposed, valid>>

Cancel(id) ==
  /\ port # 0 /\ requests[id] # 0
  /\ Settle([flights EXCEPT ![requests[id]] = Stop(@, valid)])
  /\ UNCHANGED <<port, ports, disposed, valid, detail, replay>>

\* mutant of Granted: the waiters are not woken.
GrantedUnnoticed(f, n) == [f EXCEPT !.credit = @ + n]

\* A wait for credit ends; the first one then reads.
Granted(f, n) ==
  LET g == [f EXCEPT !.credit = @ + n] IN
  CASE f.at \in {"first", "post"} /\ f.aborted -> Stop(g, valid)
    [] f.at = "first" /\ ~f.aborted -> [g EXCEPT !.at = "read"]
    [] f.at = "post" /\ ~f.aborted  -> Pump(g)
    [] OTHER                        -> g

Credit(id, n) ==
  /\ port # 0 /\ requests[id] # 0
  /\ flights[requests[id]].credit + n <= MaxCredit
  /\ Settle([flights EXCEPT ![requests[id]] = Granted(@, n)])
  /\ UNCHANGED <<port, ports, disposed, valid, detail, replay>>

\* The timer only aborts: a wait for credit, or for the detail, goes on.
Expired(f) ==
  IF f.at \in {"fetch", "read"} THEN Stop(f, valid) ELSE [f EXCEPT !.aborted = TRUE]

Deadline(i) ==
  /\ Running(flights[i]) /\ ~flights[i].aborted
  /\ Settle([flights EXCEPT ![i] = Expired(@)])
  /\ UNCHANGED <<port, ports, disposed, valid, detail, replay>>

\* The answer to the shared request for the APP's detail.
DetailAnswer ==
  /\ detail = "loading"
  /\ \/ /\ detail' = "ready" /\ UNCHANGED valid
        /\ Settle([i \in Slots |-> IF flights[i].at = "detail"
                                   THEN WithDetail(flights[i], TRUE) ELSE flights[i]])
     \/ /\ detail' = "none" /\ UNCHANGED valid
        /\ Settle([i \in Slots |-> IF flights[i].at = "detail"
                                   THEN Fail(flights[i], TRUE) ELSE flights[i]])
     \/ Invalidate
  /\ UNCHANGED <<port, ports, disposed, replay>>

\* A body is read only once there is credit.
WithBody(f) ==
  [f EXCEPT !.at = IF f.credit > 0 THEN "read" ELSE "first", !.log = Append(@, "headers")]

\* The answer to a request's fetch.
Answer(i) ==
  /\ flights[i].at = "fetch"
  /\ \/ Invalidate
     \/ /\ \/ Settle([flights EXCEPT ![i] = Fail(@, TRUE)])
           \/ Settle([flights EXCEPT ![i].at = "done", ![i].log = @ \o <<"headers", "end">>])
           \/ Settle([flights EXCEPT ![i] = WithBody(@)])
        /\ UNCHANGED <<valid, detail>>
  /\ UNCHANGED <<port, ports, disposed, replay>>

WithChunk(f, n, last) == [f EXCEPT !.chunk = n, !.last = last, !.chunks = @ + 1]

\* A read returns a chunk (the last one or not), the end, or fails.
Read(i) ==
  /\ flights[i].at = "read"
  /\ \/ \E n \in 1 .. MaxChunk, last \in BOOLEAN :
          /\ flights[i].chunks < MaxChunks
          /\ Settle([flights EXCEPT ![i] = Pump(WithChunk(@, n, last))])
     \/ Settle([flights EXCEPT ![i].at = "done", ![i].log = Append(@, "end")])
     \/ Settle([flights EXCEPT ![i] = Fail(@, TRUE)])
  /\ UNCHANGED <<port, ports, disposed, valid, detail, replay>>

Next ==
  \/ Connect \/ Dispose \/ DetailAnswer
  \/ \E id \in Ids : \/ \E expired \in BOOLEAN : Request(id, expired)
                     \/ Cancel(id)
                     \/ \E n \in 1 .. MaxCredit : Credit(id, n)
  \/ \E i \in Slots : Deadline(i) \/ Answer(i) \/ Read(i)

Spec == Init /\ [][Next]_vars

\* The gateway answers what it is asked, and timers fire.
AnswerFairness ==
  /\ WF_vars(DetailAnswer)
  /\ \A i \in 1 .. MaxFlights : WF_vars(i \in Slots /\ (Answer(i) \/ Read(i)))
\* The APP grants credit to a request that waits for it.
CreditFairness ==
  \A id \in Ids : WF_vars(/\ requests[id] # 0
                          /\ flights[requests[id]].at \in {"first", "post"}
                          /\ \E n \in 1 .. MaxCredit : Credit(id, n))

FairSpec == Spec /\ AnswerFairness /\ CreditFairness

-----------------------------------------------------------------------------
\* Types and capacities: a request waits for credit only while it has none, and
\* what it holds of a chunk is never less than nothing.
TypeOK ==
  /\ port \in 0 .. ports /\ ports \in 0 .. MaxPorts
  /\ disposed \in BOOLEAN /\ valid \in BOOLEAN
  /\ detail \in {"none", "loading", "ready"}
  /\ replay \in Seq(Ids) /\ Len(replay) <= Window
  /\ requests \in [Ids -> 0 .. Len(flights)]
  /\ \A i \in Slots :
       /\ flights[i].at \in {"detail", "fetch", "first", "read", "post", "done"}
       /\ flights[i].credit \in 0 .. MaxCredit /\ flights[i].chunk \in 0 .. MaxChunk
       /\ flights[i].at \in {"first", "post"} => flights[i].credit = 0

\* The APP hears one end or one error for a request and nothing after it,
\* whatever cancels, deadlines, revocations and reloads come together.
AnsweredOnce ==
  [][\A i \in Slots :
       IF Over(flights[i])
       THEN flights'[i].log = flights[i].log /\ flights'[i].sent = flights[i].sent
       ELSE Cardinality({k \in DOMAIN flights'[i].log : flights'[i].log[k] \in Terminal}) <= 1]_vars

\* Once a 401 or 403 has ended the authorization, by whichever call, no
\* request of the connection gets detail, headers, data or an end any more.
RevokedIsSilent ==
  [][~valid' => \A i \in Slots :
       /\ flights'[i].log \in {flights[i].log, Append(flights[i].log, "error")}
       /\ flights'[i].sent = flights[i].sent]_vars

\* Nothing of an earlier load of the frame, or of a disposed bridge, runs on:
\* not even a request whose detail is still being fetched.
ReplacedIsOver == \A i \in Slots : Running(flights[i]) => flights[i].port = port

\* With a gateway that answers and an APP that grants credit, every request
\* ends and its slot is free again.
EveryRequestEnds ==
  \A i \in 1 .. MaxFlights : (i \in Slots) ~> (i \in Slots /\ ~Running(flights[i]))
=============================================================================
