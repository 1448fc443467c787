------------------------- MODULE IframeBridgeProofs -------------------------
(***************************************************************************)
(* Requests end with their connection, and are answered once: for any      *)
(* requests, loads, credit and chunks, as long as no identifier leaves the *)
(* window against replay.                                                  *)
(***************************************************************************)
EXTENDS IframeBridge, FiniteSetTheorems, TLAPS

\* What the code takes for granted: `requests` has one place for an
\* identifier, and only the window keeps it from being taken twice.
NeverForgotten == IsFiniteSet(Ids) /\ Cardinality(Ids) <= Window

Words == {"detail", "headers", "end", "error"}
Places == {"detail", "fetch", "first", "read", "post", "done"}
Flights ==
  [id : Ids, port : Nat, at : Places, credit : Int, chunk : Int, chunks : Int,
   last : BOOLEAN, sent : Int, aborted : BOOLEAN, log : Seq(Words)]

Unanswered(log) == \A k \in DOMAIN log : log[k] \notin Terminal
Once(log) == \A j, k \in DOMAIN log : log[j] \in Terminal /\ log[k] \in Terminal => j = k
Answered(f) == (Running(f) => Unanswered(f.log)) /\ Once(f.log)

Distinct(s) == \A j, k \in DOMAIN s : s[j] = s[k] => j = k

Typed ==
  /\ port \in Nat /\ ports \in Nat /\ disposed \in BOOLEAN /\ valid \in BOOLEAN
  /\ detail \in {"none", "loading", "ready"}
  /\ replay \in Seq(Ids) /\ Distinct(replay)
  /\ requests \in [Ids -> Nat]
  /\ flights \in Seq(Flights)

\* The map leads to requests that run, and to every one of them.
Mapped ==
  \A id \in Ids : requests[id] # 0 =>
    requests[id] \in Slots /\ flights[requests[id]].id = id /\ Running(flights[requests[id]])

\* What runs belongs to this connection and its authorization; it waits for
\* the detail only while somebody fetches it.
Alive(f) ==
  /\ f.id \in ToSet(replay) /\ f.port = port /\ valid
  /\ f.at = "detail" => detail = "loading"

Belonging == \A i \in Slots : Running(flights[i]) => Owned(i) /\ Alive(flights[i])

BridgeInv ==
  /\ Typed /\ Mapped /\ Belonging
  /\ \A i \in Slots : Answered(flights[i])

\* What may become of a request: it does not start again, and what has ended
\* says nothing more.
Moves(f, g) ==
  /\ g \in Flights /\ g.id = f.id /\ g.port = f.port
  /\ Running(g) => Running(f)
  /\ ~Running(f) => g.log = f.log /\ g.sent = f.sent
  /\ Answered(g)

-----------------------------------------------------------------------------
(* Logs *)

LEMMA AppendLog ==
  ASSUME NEW log \in Seq(Words), NEW w \in Words, Unanswered(log)
  PROVE  /\ Append(log, w) \in Seq(Words) /\ Once(Append(log, w)) /\ Once(log)
         /\ w \notin Terminal => Unanswered(Append(log, w))
<1> DEFINE new == Append(log, w)
<1>1. new \in Seq(Words) /\ Len(new) = Len(log) + 1 /\ Len(log) \in Nat
  OBVIOUS
<1>2. DOMAIN new = 1 .. Len(log) + 1 /\ DOMAIN log = 1 .. Len(log)
  BY <1>1
<1>3. \A k \in 1 .. Len(log) : new[k] = log[k]
  OBVIOUS
<1>4. new[Len(log) + 1] = w
  OBVIOUS
<1> HIDE DEF new
<1>5. \A k \in DOMAIN new : (k \in DOMAIN log /\ new[k] = log[k]) \/ k = Len(log) + 1
  BY <1>1, <1>2, <1>3
<1>6. Once(new) /\ Once(log)
  BY <1>5 DEF Once, Unanswered
<1>7. w \notin Terminal => Unanswered(new)
  BY <1>4, <1>5 DEF Unanswered
<1> QED BY <1>1, <1>6, <1>7 DEF new

\* Two words are two appended ones.
LEMMA TwoWords ==
  ASSUME NEW log \in Seq(Words)
  PROVE  /\ log \o <<"headers", "end">> = Append(Append(log, "headers"), "end")
         /\ log \o <<"error">> = Append(log, "error") /\ log \o <<>> = log
  BY DEF Words

LEMMA EmptyLog == <<>> \in Seq(Words) /\ Unanswered(<<>>) /\ Once(<<>>)
  BY DEF Unanswered, Once

-----------------------------------------------------------------------------
(* The window *)

LEMMA Remembered ==
  ASSUME NeverForgotten, NEW s \in Seq(Ids), Distinct(s), NEW id \in Ids, id \notin ToSet(s)
  PROVE  /\ Append(s, id) \in Seq(Ids) /\ Distinct(Append(s, id))
         /\ ToSet(Append(s, id)) = ToSet(s) \cup {id} /\ Len(Append(s, id)) <= Window
<1> DEFINE t == Append(s, id)
<1>1. /\ t \in Seq(Ids) /\ Len(t) = Len(s) + 1 /\ Len(s) \in Nat
      /\ DOMAIN t = 1 .. Len(s) + 1 /\ DOMAIN s = 1 .. Len(s)
  OBVIOUS
<1>2. (\A k \in 1 .. Len(s) : t[k] = s[k]) /\ t[Len(s) + 1] = id
  OBVIOUS
<1> HIDE DEF t
<1>3. \A k \in DOMAIN t : (k \in DOMAIN s /\ t[k] = s[k]) \/ (k = Len(s) + 1 /\ t[k] = id)
  BY <1>1, <1>2
<1>4. \A k \in DOMAIN s : s[k] # id
  BY DEF ToSet
<1>5. Distinct(t)
  BY <1>3, <1>4 DEF Distinct
<1>6. ToSet(t) = ToSet(s) \cup {id}
  <2>1. ToSet(t) \subseteq ToSet(s) \cup {id}
    BY <1>3 DEF ToSet
  <2>2. \A k \in DOMAIN s : k \in DOMAIN t /\ t[k] = s[k]
    BY <1>1, <1>2
  <2>3. Len(s) + 1 \in DOMAIN t
    BY <1>1
  <2>4. ToSet(s) \cup {id} \subseteq ToSet(t)
    BY <1>2, <2>2, <2>3 DEF ToSet
  <2> QED BY <2>1, <2>4
<1>7. Len(t) <= Window
  <2>1. Len(t) \in Nat /\ 1 .. Len(t) = DOMAIN t /\ t \in [1 .. Len(t) -> Ids]
    BY <1>1
  <2>2. IsFiniteSet(1 .. Len(t)) /\ Cardinality(1 .. Len(t)) = Len(t)
    <3>1. 1 \in Int /\ Len(t) \in Int
      BY <2>1
    <3>2. IsFiniteSet(1 .. Len(t)) /\ Cardinality(1 .. Len(t)) = IF 1 > Len(t) THEN 0 ELSE Len(t) - 1 + 1
      BY <3>1, FS_Interval
    <3> QED BY <2>1, <3>2
  <2>3. Cardinality(Ids) \in Nat
    BY FS_CardinalityType DEF NeverForgotten
  <2>4. ~(Cardinality(1 .. Len(t)) > Cardinality(Ids))
    BY <1>5, <2>1, <2>2, FS_PigeonHole DEF Distinct, NeverForgotten
  <2> QED BY <2>1, <2>2, <2>3, <2>4, BridgeAssumption DEF NeverForgotten
<1> QED BY <1>1, <1>5, <1>6, <1>7 DEF t

-----------------------------------------------------------------------------
(* One request *)

\* Nothing of a request but what it says, and where it is.
Alike(f, g) == g \in Flights /\ g.id = f.id /\ g.port = f.port /\ g.sent = f.sent

LEMMA FailEffect ==
  ASSUME NEW f \in Flights, NEW tell \in BOOLEAN
  PROVE  /\ Alike(f, Fail(f, tell)) /\ ~Running(Fail(f, tell))
         /\ Fail(f, tell).log = IF tell THEN Append(f.log, "error") ELSE f.log
<1> DEFINE log == IF tell THEN Append(f.log, "error") ELSE f.log
<1>1. f.log \in Seq(Words) /\ "error" \in Words /\ "done" \in Places
  BY DEF Flights, Words, Places
<1>2. log \in Seq(Words)
  BY <1>1
<1>3. Fail(f, tell) = [f EXCEPT !.at = "done", !.log = log]
  BY DEF Fail
<1> HIDE DEF log
<1> QED BY <1>1, <1>2, <1>3 DEF Alike, Running, Flights, log

\* A stop ends whatever has begun to fetch.
LEMMA StopEffect ==
  ASSUME NEW f \in Flights, NEW tell \in BOOLEAN
  PROVE  /\ Alike(f, Stop(f, tell))
         /\ f.at \in {"detail", "done"} => Stop(f, tell).at = f.at /\ Stop(f, tell).log = f.log
         /\ f.at \notin {"detail", "done"} =>
              /\ ~Running(Stop(f, tell))
              /\ \/ Stop(f, tell).log = f.log
                 \/ tell /\ Stop(f, tell).log = Append(f.log, "error")
<1> DEFINE g == [f EXCEPT !.aborted = TRUE]
<1>1. g \in Flights /\ Alike(f, g) /\ g.at = f.at /\ g.log = f.log
  BY DEF Flights, Alike
<1>2. \/ f.at \notin {"detail", "done"} /\ Stop(f, tell) = Fail(g, tell)
      \/ f.at \notin {"detail", "done"} /\ Stop(f, tell) = Fail(g, FALSE)
      \/ f.at \in {"detail", "done"} /\ Stop(f, tell) = g
  <2>1. f.at \in Places
    BY DEF Flights
  <2> HIDE DEF g
  <2>2. Stop(f, tell) = CASE f.at \in {"fetch", "read"} -> Fail(g, tell)
                          [] f.at = "post" /\ ~f.last   -> Fail(g, tell)
                          [] f.at = "post" /\ f.last    -> Fail(g, FALSE)
                          [] f.at = "first"             -> Fail(g, FALSE)
                          [] OTHER                      -> g
    BY DEF Stop, g
  <2>3. CASE f.at \in {"fetch", "read"}
    BY <2>2, <2>3
  <2>4. CASE f.at = "first"
    BY <2>2, <2>4
  <2>5. CASE f.at = "post" /\ f.last
    BY <2>2, <2>5
  <2>6. CASE f.at = "post" /\ ~f.last
    BY <2>2, <2>6
  <2>7. CASE f.at \in {"detail", "done"}
    BY <2>2, <2>7
  <2> QED BY <2>1, <2>3, <2>4, <2>5, <2>6, <2>7 DEF Places
<1> HIDE DEF g
<1>3. \A t \in BOOLEAN : /\ Alike(g, Fail(g, t)) /\ ~Running(Fail(g, t))
                         /\ Fail(g, t).log = IF t THEN Append(g.log, "error") ELSE g.log
  BY <1>1, FailEffect
<1>4. \A t \in BOOLEAN : Alike(f, Fail(g, t))
  BY <1>1, <1>3 DEF Alike
<1> QED BY <1>1, <1>2, <1>3, <1>4

\* A request that says one word more, its last one when it ends.
LEMMA GoMoves ==
  ASSUME NEW f \in Flights, Answered(f), Running(f),
         NEW g \in Flights, g.id = f.id, g.port = f.port,
         \/ g.log = f.log
         \/ \E w \in Words : g.log = Append(f.log, w) /\ (Running(g) => w \notin Terminal)
  PROVE  Moves(f, g)
<1>1. f.log \in Seq(Words) /\ Unanswered(f.log) /\ Once(f.log)
  BY DEF Flights, Answered
<1>2. Answered(g)
  <2>1. CASE g.log = f.log
    BY <1>1, <2>1 DEF Answered
  <2>2. CASE \E w \in Words : g.log = Append(f.log, w) /\ (Running(g) => w \notin Terminal)
    BY <1>1, <2>2, AppendLog DEF Answered
  <2> QED BY <2>1, <2>2
<1> QED BY <1>2 DEF Moves

LEMMA EndMoves ==
  ASSUME NEW f \in Flights, Answered(f), Running(f), NEW g, Alike(f, g), ~Running(g),
         g.log = f.log \/ \E w \in Words : g.log = Append(f.log, w)
  PROVE  Moves(f, g)
  BY GoMoves DEF Alike

LEMMA MovesOn ==
  ASSUME NEW f, NEW g, NEW h, Moves(f, g), Moves(g, h)
  PROVE  Moves(f, h)
  BY DEF Moves

\* What does not touch its place or its log.
LEMMA SameMoves ==
  ASSUME NEW f \in Flights, Answered(f), NEW g \in Flights, Alike(f, g), g.at = f.at, g.log = f.log
  PROVE  Moves(f, g)
  BY DEF Alike, Moves, Answered, Running

LEMMA StopMoves ==
  ASSUME NEW f \in Flights, Answered(f), NEW tell \in BOOLEAN
  PROVE  /\ Moves(f, Stop(f, tell))
         /\ Stop(f, tell).at = "detail" => f.at = "detail"
<1> DEFINE g == Stop(f, tell)
<1>1. Alike(f, g)
  BY StopEffect
<1>2. CASE f.at \in {"detail", "done"}
  <2>1. g.at = f.at /\ g.log = f.log
    BY <1>2, StopEffect
  <2> HIDE DEF g
  <2>2. Moves(f, g) /\ (g.at = "detail" => f.at = "detail")
    BY <1>1, <2>1 DEF Alike, Moves, Answered, Running
  <2> QED BY <2>2 DEF g
<1>3. CASE f.at \notin {"detail", "done"}
  <2>1. ~Running(g) /\ (g.log = f.log \/ g.log = Append(f.log, "error"))
    BY <1>3, StopEffect
  <2> HIDE DEF g
  <2>2. Running(f) /\ "error" \in Words
    BY <1>3 DEF Running, Words
  <2>3. Moves(f, g) /\ (g.at = "detail" => f.at = "detail")
    BY <1>1, <2>1, <2>2, EndMoves DEF Running
  <2> QED BY <2>3 DEF g
<1> QED BY <1>2, <1>3

LEMMA FailMoves ==
  ASSUME NEW f \in Flights, Answered(f), Running(f), NEW tell \in BOOLEAN
  PROVE  Moves(f, Fail(f, tell)) /\ Fail(f, tell).at # "detail"
<1>1. Alike(f, Fail(f, tell)) /\ ~Running(Fail(f, tell))
  BY FailEffect
<1>2. Fail(f, tell).log = f.log \/ Fail(f, tell).log = Append(f.log, "error")
  BY FailEffect
<1> QED BY <1>1, <1>2, EndMoves DEF Running, Words

LEMMA DetailMoves ==
  ASSUME NEW f \in Flights, Answered(f), Running(f), NEW tell \in BOOLEAN
  PROVE  Moves(f, WithDetail(f, tell)) /\ WithDetail(f, tell).at # "detail"
<1>1. CASE f.aborted
  BY <1>1, FailMoves DEF WithDetail
<1>2. CASE ~f.aborted
  <2> DEFINE g == [f EXCEPT !.at = "fetch", !.log = Append(@, "detail")]
  <2>1. f.log \in Seq(Words) /\ "detail" \in Words /\ "fetch" \in Places
    BY DEF Flights, Words, Places
  <2>2. Append(f.log, "detail") \in Seq(Words)
    BY <2>1
  <2>3. /\ g \in Flights /\ g.id = f.id /\ g.port = f.port /\ g.at = "fetch"
        /\ g.log = Append(f.log, "detail")
    BY <2>1, <2>2 DEF Flights
  <2>4. WithDetail(f, tell) = g
    BY <1>2 DEF WithDetail
  <2> HIDE DEF g
  <2>5. Moves(f, g)
    BY <2>1, <2>3, GoMoves DEF Terminal
  <2> QED BY <2>3, <2>4, <2>5
<1> QED BY <1>1, <1>2

LEMMA PumpMoves ==
  ASSUME NEW f \in Flights, Answered(f), Running(f)
  PROVE  Moves(f, Pump(f)) /\ Pump(f).at # "detail"
<1> DEFINE n    == IF f.credit < f.chunk THEN f.credit ELSE f.chunk
           rest == f.chunk - n
           at   == IF rest > 0 THEN "post" ELSE IF f.last THEN "done" ELSE "read"
           log  == IF rest = 0 /\ f.last THEN Append(f.log, "end") ELSE f.log
           g    == [f EXCEPT !.credit = f.credit - n, !.sent = f.sent + n, !.chunk = rest,
                             !.at = at, !.log = log]
<1>1. Pump(f) = g
  BY DEF Pump
<1>2. f.credit \in Int /\ f.chunk \in Int /\ f.sent \in Int /\ f.log \in Seq(Words)
  BY DEF Flights
<1>3. n \in Int /\ rest \in Int /\ at \in Places \ {"detail"}
  BY <1>2 DEF Places
<1>4. log \in Seq(Words) /\ "end" \in Words
  BY <1>2 DEF Words
<1>5. log = f.log \/ (log = Append(f.log, "end") /\ at = "done")
  BY <1>3
<1> HIDE DEF n, rest, at, log
<1>6. f.credit - n \in Int /\ f.sent + n \in Int
  BY <1>2, <1>3
<1>7. g \in Flights /\ g.id = f.id /\ g.port = f.port /\ g.at = at /\ g.log = log
  BY <1>3, <1>4, <1>6 DEF Flights
<1> HIDE DEF g
<1>8. Moves(f, g)
  BY <1>4, <1>5, <1>7, GoMoves DEF Running
<1> QED BY <1>1, <1>3, <1>7, <1>8

LEMMA GrantedMoves ==
  ASSUME NEW f \in Flights, Answered(f), NEW n \in Int, valid \in BOOLEAN
  PROVE  /\ Moves(f, Granted(f, n))
         /\ Granted(f, n).at = "detail" => f.at = "detail"
<1> DEFINE g == [f EXCEPT !.credit = @ + n]
           h == [g EXCEPT !.at = "read"]
<1>1. f.credit + n \in Int /\ "read" \in Places
  BY DEF Flights, Places
<1>2. g \in Flights /\ Alike(f, g) /\ g.at = f.at /\ g.log = f.log
  BY <1>1 DEF Flights, Alike
<1>3. Granted(f, n) = CASE f.at \in {"first", "post"} /\ f.aborted -> Stop(g, valid)
                        [] f.at = "first" /\ ~f.aborted -> h
                        [] f.at = "post" /\ ~f.aborted  -> Pump(g)
                        [] OTHER                        -> g
  BY DEF Granted
<1>4. h \in Flights /\ h.id = g.id /\ h.port = g.port /\ h.at = "read" /\ h.log = g.log
  <2> HIDE DEF g
  <2> QED BY <1>1, <1>2 DEF Flights
<1> HIDE DEF g, h
<1>5. Moves(f, g) /\ Answered(g)
  BY <1>2, SameMoves DEF Moves
<1>6. CASE f.at \in {"first", "post"} /\ f.aborted
  <2>1. Granted(f, n) = Stop(g, valid)
    BY <1>3, <1>6
  <2> QED BY <1>2, <1>5, <2>1, StopMoves, MovesOn
<1>7. CASE f.at = "first" /\ ~f.aborted
  <2>1. Granted(f, n) = h
    BY <1>3, <1>7
  <2>2. Moves(g, h)
    BY <1>2, <1>4, <1>5, <1>7, GoMoves DEF Running
  <2> QED BY <1>4, <1>5, <2>1, <2>2, MovesOn
<1>8. CASE f.at = "post" /\ ~f.aborted
  <2>1. Granted(f, n) = Pump(g)
    BY <1>3, <1>8
  <2>2. Running(g)
    BY <1>2, <1>8 DEF Running
  <2> QED BY <1>2, <1>5, <2>1, <2>2, PumpMoves, MovesOn
<1>9. CASE f.at \notin {"first", "post"}
  <2>1. Granted(f, n) = g
    BY <1>3, <1>9
  <2> QED BY <1>2, <1>5, <2>1
<1> QED BY <1>6, <1>7, <1>8, <1>9

LEMMA ExpiredMoves ==
  ASSUME NEW f \in Flights, Answered(f), valid \in BOOLEAN
  PROVE  Moves(f, Expired(f)) /\ (Expired(f).at = "detail" => f.at = "detail")
<1>1. CASE f.at \in {"fetch", "read"}
  BY <1>1, StopMoves DEF Expired
<1>2. CASE f.at \notin {"fetch", "read"}
  <2> DEFINE g == [f EXCEPT !.aborted = TRUE]
  <2>1. g \in Flights /\ Alike(f, g) /\ g.at = f.at /\ g.log = f.log
    BY DEF Flights, Alike
  <2>2. Expired(f) = g
    BY <1>2 DEF Expired
  <2> HIDE DEF g
  <2> QED BY <2>1, <2>2, SameMoves
<1> QED BY <1>1, <1>2

\* The three ways a fetch ends with an answer, and the end of a body.
LEMMA AnswerMoves ==
  ASSUME NEW f \in Flights, Answered(f), Running(f)
  PROVE  /\ LET g == [f EXCEPT !.at = "done", !.log = @ \o <<"headers", "end">>]
            IN  Moves(f, g) /\ g.at # "detail"
         /\ Moves(f, WithBody(f)) /\ WithBody(f).at # "detail"
         /\ LET g == [f EXCEPT !.at = "done", !.log = Append(@, "end")]
            IN  Moves(f, g) /\ g.at # "detail"
<1> DEFINE told == Append(f.log, "headers")
           at == IF f.credit > 0 THEN "read" ELSE "first"
           g1 == [f EXCEPT !.log = told]
           g2 == [g1 EXCEPT !.at = "done", !.log = Append(told, "end")]
           g3 == [f EXCEPT !.at = at, !.log = told]
           g4 == [f EXCEPT !.at = "done", !.log = Append(f.log, "end")]
<1>1. f.log \in Seq(Words) /\ Words = {"detail", "headers", "end", "error"}
  BY DEF Flights, Words
<1>2. told \in Seq(Words) /\ Append(told, "end") \in Seq(Words) /\ Append(f.log, "end") \in Seq(Words)
  BY <1>1
<1>3. at \in {"read", "first"}
  OBVIOUS
<1>4. [f EXCEPT !.at = "done", !.log = @ \o <<"headers", "end">>] = g2
  BY <1>1, TwoWords DEF Flights
<1>5. WithBody(f) = g3 /\ [f EXCEPT !.at = "done", !.log = Append(@, "end")] = g4
  BY DEF WithBody
<1> HIDE DEF told, at
<1>6. g1 \in Flights /\ g1.id = f.id /\ g1.port = f.port /\ g1.at = f.at /\ g1.log = told
  BY <1>2 DEF Flights
<1>7. /\ g2 \in Flights /\ g2.id = g1.id /\ g2.port = g1.port /\ g2.at = "done"
      /\ g2.log = Append(g1.log, "end")
  <2> HIDE DEF g1
  <2> QED BY <1>2, <1>6 DEF Flights, Places
<1>8. g3 \in Flights /\ g3.id = f.id /\ g3.port = f.port /\ g3.at = at /\ g3.log = told
  BY <1>2, <1>3 DEF Flights, Places
<1>9. /\ g4 \in Flights /\ g4.id = f.id /\ g4.port = f.port /\ g4.at = "done"
      /\ g4.log = Append(f.log, "end")
  BY <1>2 DEF Flights, Places
<1> HIDE DEF g1, g2, g3, g4
<1>10. Moves(f, g1) /\ Running(g1)
  BY <1>1, <1>6, GoMoves DEF Running, Terminal, told
<1>11. Moves(g1, g2)
  BY <1>1, <1>6, <1>7, <1>10, GoMoves DEF Moves, Running
<1>12. Moves(f, g3)
  BY <1>1, <1>8, GoMoves DEF Terminal, told
<1>13. Moves(f, g4)
  BY <1>1, <1>9, GoMoves DEF Running
<1> QED BY <1>3, <1>4, <1>5, <1>7, <1>8, <1>9, <1>10, <1>11, <1>12, <1>13, MovesOn

LEMMA ChunkMoves ==
  ASSUME NEW f \in Flights, Answered(f), Running(f), NEW n \in Int, NEW last \in BOOLEAN
  PROVE  Moves(f, Pump(WithChunk(f, n, last))) /\ Pump(WithChunk(f, n, last)).at # "detail"
<1> DEFINE g == WithChunk(f, n, last)
<1>1. g \in Flights /\ Alike(f, g) /\ g.at = f.at /\ g.log = f.log
  <2>1. f.chunks + 1 \in Int
    BY DEF Flights
  <2>2. g = [f EXCEPT !.chunk = n, !.last = last, !.chunks = f.chunks + 1]
    BY DEF WithChunk
  <2> QED BY <2>1, <2>2 DEF Flights, Alike
<1> HIDE DEF g
<1>2. Moves(f, g) /\ Answered(g) /\ Running(g)
  BY <1>1, SameMoves DEF Moves, Running
<1>3. Moves(g, Pump(g)) /\ Pump(g).at # "detail"
  BY <1>1, <1>2, PumpMoves
<1> QED BY <1>2, <1>3, MovesOn DEF g

-----------------------------------------------------------------------------
(* All requests *)

\* A step moves each request, and no further than that.
Told == \A i \in Slots : Moves(flights[i], flights'[i])

\* The finally blocks free exactly the places of those that ended.
LEMMA SettleInv ==
  ASSUME BridgeInv, NEW fs, fs \in Seq(Flights), Len(fs) = Len(flights), Settle(fs),
         \A i \in Slots : Moves(flights[i], fs[i]),
         \A i \in Slots : fs[i].at = "detail" => detail' = "loading",
         valid' \/ \A i \in Slots : ~Running(fs[i]),
         valid' \in BOOLEAN, detail' \in {"none", "loading", "ready"},
         UNCHANGED <<port, ports, disposed, replay>>
  PROVE  BridgeInv' /\ Told
<1>1. flights' = fs /\ DOMAIN fs = Slots /\ Slots' = Slots
  BY DEF Settle, Slots, BridgeInv, Typed
<1>2. \A i \in Slots : flights[i] \in Flights /\ fs[i] \in Flights /\ fs[i].id = flights[i].id
                      /\ fs[i].id \in Ids
  <2>1. \A i \in Slots : flights[i] \in Flights
    BY DEF BridgeInv, Typed, Slots
  <2> QED BY <2>1 DEF Moves, Flights
<1>3. \A id \in Ids :
        requests'[id] = IF \E i \in Slots : fs[i].id = id /\ Running(flights[i]) /\ ~Running(fs[i])
                        THEN 0 ELSE requests[id]
  BY DEF Settle
<1>4. requests' \in [Ids -> Nat]
  BY DEF Settle, BridgeInv, Typed
<1>5. Typed'
  BY <1>1, <1>4 DEF BridgeInv, Typed
<1>6. Mapped'
  <2> SUFFICES ASSUME NEW id \in Ids, requests'[id] # 0
               PROVE  requests'[id] \in Slots /\ fs[requests'[id]].id = id /\ Running(fs[requests'[id]])
    BY <1>1 DEF Mapped
  <2>1. requests'[id] = requests[id]
    BY <1>3
  <2>2. requests[id] \in Slots /\ flights[requests[id]].id = id /\ Running(flights[requests[id]])
    BY <2>1 DEF BridgeInv, Mapped
  <2>3. fs[requests[id]].id = id
    BY <1>2, <2>2
  <2>4. Running(fs[requests[id]])
    BY <1>3, <2>2, <2>3
  <2> QED BY <2>1, <2>2, <2>3, <2>4
<1>7. Belonging'
  <2> SUFFICES ASSUME NEW i \in Slots, Running(fs[i])
               PROVE  /\ requests'[fs[i].id] = i
                      /\ fs[i].id \in ToSet(replay) /\ fs[i].port = port /\ valid'
                      /\ fs[i].at = "detail" => detail' = "loading"
    BY <1>1 DEF Belonging, Owned, Alive
  <2>1. Running(flights[i]) /\ fs[i].id = flights[i].id /\ fs[i].port = flights[i].port
    BY DEF Moves
  <2>2. requests[fs[i].id] = i /\ fs[i].id \in ToSet(replay) /\ fs[i].port = port
    BY <2>1 DEF BridgeInv, Belonging, Owned, Alive
  <2>3. ASSUME NEW j \in Slots, fs[j].id = fs[i].id, Running(flights[j]) PROVE j = i
    <3>1. requests[flights[j].id] = j
      BY <2>3 DEF BridgeInv, Belonging, Owned
    <3> QED BY <1>2, <2>2, <2>3, <3>1
  <2>4. requests'[fs[i].id] = i
    BY <1>2, <1>3, <2>2, <2>3
  <2> QED BY <2>2, <2>4
<1>8. \A i \in Slots : Answered(fs[i])
  BY DEF Moves
<1>9. Told
  BY <1>1 DEF Told
<1> QED BY <1>1, <1>5, <1>6, <1>7, <1>8, <1>9 DEF BridgeInv

\* One request moves and the others stay.
LEMMA OneSettles ==
  ASSUME BridgeInv, NEW i \in Slots, NEW g, Moves(flights[i], g),
         g.at = "detail" => flights[i].at = "detail",
         Settle([flights EXCEPT ![i] = g]),
         UNCHANGED <<port, ports, disposed, valid, detail, replay>>
  PROVE  BridgeInv' /\ Told
<1> DEFINE fs == [flights EXCEPT ![i] = g]
<1>1. flights \in Seq(Flights) /\ g \in Flights /\ Slots = 1 .. Len(flights)
  BY DEF BridgeInv, Typed, Moves, Slots
<1>2. fs \in Seq(Flights) /\ Len(fs) = Len(flights)
  BY <1>1
<1>3. \A j \in Slots : fs[j] = IF j = i THEN g ELSE flights[j]
  BY <1>1
<1> HIDE DEF fs
<1>4. \A j \in Slots : flights[j] \in Flights /\ Answered(flights[j])
  BY <1>1 DEF BridgeInv
<1>5. \A j \in Slots : Moves(flights[j], flights[j])
  BY <1>4 DEF Moves
<1>6. \A j \in Slots : Moves(flights[j], fs[j])
  BY <1>3, <1>5
<1>7. \A j \in Slots : Running(flights[j]) => valid /\ (flights[j].at = "detail" => detail = "loading")
  BY DEF BridgeInv, Belonging, Alive
<1>8. \A j \in Slots : fs[j].at = "detail" => detail' = "loading"
  BY <1>3, <1>7 DEF Running
<1>9. valid' \/ \A j \in Slots : ~Running(fs[j])
  BY <1>6, <1>7 DEF Moves
<1>10. valid' \in BOOLEAN /\ detail' \in {"none", "loading", "ready"}
  BY DEF BridgeInv, Typed
<1> QED BY <1>2, <1>6, <1>8, <1>9, <1>10, SettleInv DEF fs

LEMMA FlightTyped ==
  ASSUME BridgeInv, NEW i \in Slots
  PROVE  /\ i \in 1 .. Len(flights) /\ i # 0
         /\ flights[i] \in Flights /\ Answered(flights[i])
         /\ flights[i].id \in Ids /\ flights[i].log \in Seq(Words)
<1>1. flights \in Seq(Flights)
  BY DEF BridgeInv, Typed
<1>2. Slots = 1 .. Len(flights) /\ Len(flights) \in Nat
  BY <1>1 DEF Slots
<1>3. i # 0 /\ flights[i] \in Flights
  BY <1>1, <1>2
<1>4. flights[i].id \in Ids /\ flights[i].log \in Seq(Words)
  BY <1>3 DEF Flights
<1> QED BY <1>2, <1>3, <1>4 DEF BridgeInv

\* The map has exactly the requests that run.
LEMMA OwnedRuns ==
  ASSUME BridgeInv, NEW i \in Slots
  PROVE  Owned(i) <=> Running(flights[i])
<1> QED BY FlightTyped DEF BridgeInv, Mapped, Belonging, Owned

\* A connection that is given up ends whatever runs, and each of those is told
\* once at most.
LEMMA StopAllEnds ==
  ASSUME BridgeInv, NEW word \in {<<>>, <<"error">>}, NEW tell \in BOOLEAN,
         word = <<>> \/ ~tell
  PROVE  /\ StopAll(word, tell) \in Seq(Flights) /\ Len(StopAll(word, tell)) = Len(flights)
         /\ \A i \in Slots :
              /\ Moves(flights[i], StopAll(word, tell)[i])
              /\ ~Running(StopAll(word, tell)[i])
              /\ StopAll(word, tell)[i].sent = flights[i].sent
              /\ StopAll(word, tell)[i].log \in {flights[i].log, Append(flights[i].log, "error")}
<1>1. ASSUME NEW i \in Slots
      PROVE  LET h == StopAll(word, tell)[i] IN
             /\ Moves(flights[i], h) /\ ~Running(h) /\ h.sent = flights[i].sent
             /\ h.log \in {flights[i].log, Append(flights[i].log, "error")}
  <2> DEFINE f == flights[i]
             f1 == [f EXCEPT !.log = IF Owned(i) THEN @ \o word ELSE @]
             g == IF Owned(i) THEN Stop(f1, tell) ELSE f1
             h == IF g.at = "detail" /\ detail = "loading" THEN Fail(g, tell) ELSE g
  <2>1. StopAll(word, tell)[i] = h
    BY DEF StopAll
  <2>2. f \in Flights /\ Answered(f) /\ f.log \in Seq(Words)
    BY FlightTyped
  <2>3. CASE ~Owned(i)
    <3>1. f1 = f /\ g = f1
      BY <2>2, <2>3 DEF Flights
    <3>2. ~Running(f)
      BY <2>3, OwnedRuns
    <3>3. h = f
      BY <3>1, <3>2 DEF Running
    <3> HIDE DEF f, h
    <3>4. Moves(f, h)
      BY <2>2, <3>3 DEF Moves
    <3> QED BY <2>1, <3>2, <3>3, <3>4 DEF f
  <2>4. CASE Owned(i)
    <3>1. Running(f) /\ (f.at = "detail" => detail = "loading")
      BY <2>4, OwnedRuns DEF BridgeInv, Belonging, Alive
    <3>2. f.log \o word \in {f.log, Append(f.log, "error")} /\ (word = <<>> => f.log \o word = f.log)
      BY <2>2, TwoWords
    <3>3. f.log \o word \in Seq(Words)
      <4>1. Append(f.log, "error") \in Seq(Words)
        BY <2>2 DEF Words
      <4> QED BY <2>2, <3>2, <4>1
    <3>4. f1 \in Flights /\ Alike(f, f1) /\ f1.at = f.at /\ f1.log = f.log \o word
      <4>1. f1 = [f EXCEPT !.log = f.log \o word]
        BY <2>4
      <4> HIDE DEF f, f1
      <4> QED BY <2>2, <3>3, <4>1 DEF Flights, Alike
    <3>5. g = Stop(f1, tell)
      BY <2>4
    <3> HIDE DEF f, f1, g
    <3>6. /\ Alike(f1, g)
          /\ f1.at \in {"detail", "done"} => g.at = f1.at /\ g.log = f1.log
          /\ f1.at \notin {"detail", "done"} =>
               ~Running(g) /\ (g.log = f1.log \/ (tell /\ g.log = Append(f1.log, "error")))
      BY <3>4, <3>5, StopEffect
    <3>7. CASE f.at = "detail"
      <4>1. h = Fail(g, tell) /\ g.log = f1.log /\ g \in Flights
        BY <3>1, <3>4, <3>6, <3>7 DEF Alike
      <4>2. /\ Alike(g, h) /\ ~Running(h)
            /\ h.log = IF tell THEN Append(g.log, "error") ELSE g.log
        BY <4>1, FailEffect
      <4> HIDE DEF h
      <4>3. Alike(f, h) /\ h.log \in {f.log, Append(f.log, "error")}
        BY <3>2, <3>4, <3>6, <4>1, <4>2 DEF Alike
      <4>4. Moves(f, h)
        BY <2>2, <3>1, <4>2, <4>3, EndMoves DEF Words
      <4> QED BY <2>1, <4>2, <4>3, <4>4 DEF Alike, f
    <3>8. CASE f.at # "detail"
      <4>1. f1.at \notin {"detail", "done"}
        BY <3>1, <3>4, <3>8 DEF Running
      <4>2. ~Running(g) /\ (g.log = f1.log \/ (tell /\ g.log = Append(f1.log, "error")))
        BY <3>6, <4>1
      <4>3. h = g
        BY <4>2 DEF Running
      <4> HIDE DEF h
      <4>4. Alike(f, h) /\ h.log \in {f.log, Append(f.log, "error")}
        BY <3>2, <3>4, <3>6, <4>2, <4>3 DEF Alike
      <4>5. Moves(f, h)
        BY <2>2, <3>1, <4>2, <4>3, <4>4, EndMoves DEF Words
      <4> QED BY <2>1, <4>2, <4>3, <4>4, <4>5 DEF Alike, f
    <3> QED BY <3>7, <3>8
  <2> QED BY <2>3, <2>4
<1>2. \A i \in Slots : StopAll(word, tell)[i] \in Flights
  BY <1>1 DEF Moves
<1>3. Slots = 1 .. Len(flights) /\ Len(flights) \in Nat
  BY DEF Slots, BridgeInv, Typed
<1>4. DOMAIN StopAll(word, tell) = Slots /\ StopAll(word, tell) = [i \in Slots |-> StopAll(word, tell)[i]]
  BY DEF StopAll
<1>5. StopAll(word, tell) \in Seq(Flights) /\ Len(StopAll(word, tell)) = Len(flights)
  <2> DEFINE fs == StopAll(word, tell)
  <2>1. fs \in [1 .. Len(flights) -> Flights]
    BY <1>2, <1>3, <1>4
  <2> HIDE DEF fs
  <2> QED BY <1>3, <2>1 DEF fs
<1> QED BY <1>1, <1>5

-----------------------------------------------------------------------------
(* The steps *)

\* Without an authorization nothing is said but that.
Silent ==
  ~valid' => \A i \in Slots :
    /\ flights'[i].log \in {flights[i].log, Append(flights[i].log, "error")}
    /\ flights'[i].sent = flights[i].sent

Step == BridgeInv' /\ Told /\ Silent

LEMMA SameSilent == ASSUME BridgeInv, Told, valid' \/ UNCHANGED valid PROVE Silent
<1>1. ~valid => \A i \in Slots : ~Running(flights[i])
  BY DEF BridgeInv, Belonging, Alive
<1> QED BY <1>1 DEF Told, Moves, Silent

LEMMA NothingWindow == <<>> \in Seq(Ids) /\ Distinct(<<>>)
  BY DEF Distinct

\* connect() and dispose() empty the map themselves.
LEMMA AbandonedStep ==
  ASSUME BridgeInv, NEW tell \in BOOLEAN, flights' = StopAll(<<>>, tell),
         requests' = [id \in Ids |-> 0], port' \in Nat, ports' \in Nat, disposed' \in BOOLEAN,
         valid' \in BOOLEAN, valid' \/ UNCHANGED valid,
         detail' \in {"none", "loading", "ready"}, replay' \in {replay, <<>>}
  PROVE  Step
<1>1. /\ flights' \in Seq(Flights) /\ Len(flights') = Len(flights)
      /\ \A i \in Slots : Moves(flights[i], flights'[i]) /\ ~Running(flights'[i])
  BY StopAllEnds
<1>2. Slots' = Slots
  BY <1>1 DEF Slots, BridgeInv, Typed
<1>3. requests' \in [Ids -> Nat] /\ \A id \in Ids : requests'[id] = 0
  OBVIOUS
<1>4. Typed'
  BY <1>1, <1>3, NothingWindow DEF BridgeInv, Typed
<1>5. Mapped' /\ Belonging'
  BY <1>1, <1>2, <1>3 DEF Mapped, Belonging
<1>6. \A i \in Slots : Answered(flights'[i])
  BY <1>1 DEF Moves
<1>7. Told
  BY <1>1 DEF Told
<1> QED BY <1>2, <1>4, <1>5, <1>6, <1>7, SameSilent DEF Step, BridgeInv

LEMMA ConnectStep == ASSUME BridgeInv, Connect PROVE Step
<1>1. ports' \in Nat /\ port' \in Nat
  BY DEF Connect, BridgeInv, Typed
<1> QED BY <1>1, AbandonedStep DEF Connect, BridgeInv, Typed

LEMMA DisposeStep == ASSUME BridgeInv, Dispose PROVE Step
<1>1. ports' \in Nat /\ port' \in Nat
  BY DEF Dispose, BridgeInv, Typed
<1> QED BY <1>1, AbandonedStep DEF Dispose, BridgeInv, Typed

LEMMA InvalidateStep ==
  ASSUME BridgeInv, Invalidate, UNCHANGED <<port, ports, disposed, replay>>
  PROVE  Step
<1> DEFINE fs == StopAll(<<"error">>, FALSE)
<1>1. /\ fs \in Seq(Flights) /\ Len(fs) = Len(flights)
      /\ \A i \in Slots : /\ Moves(flights[i], fs[i]) /\ ~Running(fs[i])
                          /\ fs[i].sent = flights[i].sent
                          /\ fs[i].log \in {flights[i].log, Append(flights[i].log, "error")}
  BY StopAllEnds
<1>2. Settle(fs) /\ valid' = FALSE /\ detail' = "none"
  BY DEF Invalidate
<1> HIDE DEF fs
<1>3. \A i \in Slots : fs[i].at = "detail" => detail' = "loading"
  BY <1>1 DEF Running
<1>4. BridgeInv' /\ Told
  BY <1>1, <1>2, <1>3, SettleInv
<1>5. Silent
  BY <1>1, <1>2 DEF Silent, Settle
<1> QED BY <1>4, <1>5 DEF Step

\* One request moves.
LEMMA OneStep ==
  ASSUME BridgeInv, NEW i \in Slots, NEW g, Moves(flights[i], g),
         g.at = "detail" => flights[i].at = "detail",
         Settle([flights EXCEPT ![i] = g]),
         UNCHANGED <<port, ports, disposed, valid, detail, replay>>
  PROVE  Step
  BY OneSettles, SameSilent DEF Step

LEMMA CancelStep == ASSUME BridgeInv, NEW id \in Ids, Cancel(id) PROVE Step
<1> DEFINE i == requests[id]
           g == Stop(flights[i], valid)
<1>1. i \in Slots /\ Settle([flights EXCEPT ![i] = g])
  BY DEF Cancel, BridgeInv, Mapped
<1>2. valid \in BOOLEAN
  BY DEF BridgeInv, Typed
<1>3. Moves(flights[i], g) /\ (g.at = "detail" => flights[i].at = "detail")
  <2> HIDE DEF i
  <2> QED BY <1>1, <1>2, FlightTyped, StopMoves
<1> HIDE DEF i, g
<1> QED BY <1>1, <1>3, OneStep DEF Cancel

LEMMA CreditStep == ASSUME BridgeInv, NEW id \in Ids, NEW n \in Int, Credit(id, n) PROVE Step
<1> DEFINE i == requests[id]
           g == Granted(flights[i], n)
<1>1. i \in Slots /\ Settle([flights EXCEPT ![i] = g])
  BY DEF Credit, BridgeInv, Mapped
<1>2. valid \in BOOLEAN
  BY DEF BridgeInv, Typed
<1>3. Moves(flights[i], g) /\ (g.at = "detail" => flights[i].at = "detail")
  <2> HIDE DEF i
  <2> QED BY <1>1, <1>2, FlightTyped, GrantedMoves
<1> HIDE DEF i, g
<1> QED BY <1>1, <1>3, OneStep DEF Credit

LEMMA DeadlineStep == ASSUME BridgeInv, NEW i \in Slots, Deadline(i) PROVE Step
<1>1. valid \in BOOLEAN
  BY DEF BridgeInv, Typed
<1>2. /\ Moves(flights[i], Expired(flights[i]))
      /\ Expired(flights[i]).at = "detail" => flights[i].at = "detail"
  BY <1>1, FlightTyped, ExpiredMoves
<1> QED BY <1>2, OneStep DEF Deadline

\* Everybody who waits for the detail goes on, and nobody else does.
LEMMA WaitersStep ==
  ASSUME BridgeInv, NEW fs, DOMAIN fs = Slots, fs = [i \in Slots |-> fs[i]],
         UNCHANGED valid, detail' \in {"none", "ready"}, UNCHANGED <<port, ports, disposed, replay>>,
         \A i \in Slots : flights[i].at = "detail" =>
           Moves(flights[i], fs[i]) /\ fs[i].at # "detail",
         \A i \in Slots : flights[i].at # "detail" => fs[i] = flights[i],
         Settle(fs)
  PROVE  Step
<1>1. \A i \in Slots : Moves(flights[i], fs[i]) /\ fs[i].at # "detail"
  <2> SUFFICES ASSUME NEW i \in Slots PROVE Moves(flights[i], fs[i]) /\ fs[i].at # "detail"
    OBVIOUS
  <2>1. flights[i] \in Flights /\ Answered(flights[i])
    BY FlightTyped
  <2>2. CASE flights[i].at = "detail"
    BY <2>2
  <2>3. CASE flights[i].at # "detail"
    BY <2>1, <2>3 DEF Moves
  <2> QED BY <2>2, <2>3
<1>2. Slots = 1 .. Len(flights) /\ Len(flights) \in Nat /\ \A i \in Slots : fs[i] \in Flights
  BY <1>1 DEF Slots, BridgeInv, Typed, Moves
<1>3. fs \in [1 .. Len(flights) -> Flights]
  BY <1>2
<1>4. fs \in Seq(Flights) /\ Len(fs) = Len(flights)
  BY <1>2, <1>3
<1>5. valid' \/ \A i \in Slots : ~Running(fs[i])
  BY <1>1 DEF BridgeInv, Belonging, Alive, Moves
<1>6. BridgeInv' /\ Told
  BY <1>1, <1>4, <1>5, SettleInv DEF BridgeInv, Typed
<1> QED BY <1>6, SameSilent DEF Step

\* The shared answer moves everybody who waits for it.
LEMMA DetailStep == ASSUME BridgeInv, DetailAnswer PROVE Step
<1> DEFINE given == [i \in Slots |-> IF flights[i].at = "detail"
                                     THEN WithDetail(flights[i], TRUE) ELSE flights[i]]
           lost  == [i \in Slots |-> IF flights[i].at = "detail"
                                     THEN Fail(flights[i], TRUE) ELSE flights[i]]
<1>1. CASE Invalidate
  BY <1>1, InvalidateStep DEF DetailAnswer
<1>2. \A i \in Slots : flights[i] \in Flights /\ Answered(flights[i])
  BY FlightTyped
<1>3. CASE detail' = "ready" /\ UNCHANGED valid /\ Settle(given)
  <2>1. DOMAIN given = Slots /\ given = [i \in Slots |-> given[i]]
    OBVIOUS
  <2>2. \A i \in Slots : flights[i].at = "detail" =>
          Moves(flights[i], given[i]) /\ given[i].at # "detail"
    BY <1>2, DetailMoves DEF Running
  <2>3. \A i \in Slots : flights[i].at # "detail" => given[i] = flights[i]
    OBVIOUS
  <2> HIDE DEF given
  <2> QED BY <1>3, <2>1, <2>2, <2>3, WaitersStep DEF DetailAnswer
<1>4. CASE detail' = "none" /\ UNCHANGED valid /\ Settle(lost)
  <2>1. DOMAIN lost = Slots /\ lost = [i \in Slots |-> lost[i]]
    OBVIOUS
  <2>2. \A i \in Slots : flights[i].at = "detail" =>
          Moves(flights[i], lost[i]) /\ lost[i].at # "detail"
    BY <1>2, FailMoves DEF Running
  <2>3. \A i \in Slots : flights[i].at # "detail" => lost[i] = flights[i]
    OBVIOUS
  <2> HIDE DEF lost
  <2> QED BY <1>4, <2>1, <2>2, <2>3, WaitersStep DEF DetailAnswer
<1> QED BY <1>1, <1>3, <1>4 DEF DetailAnswer

LEMMA AnswerStep == ASSUME BridgeInv, NEW i \in Slots, Answer(i) PROVE Step
<1> DEFINE f == flights[i]
           g == [f EXCEPT !.at = "done", !.log = @ \o <<"headers", "end">>]
<1>1. f \in Flights /\ Answered(f) /\ Running(f) /\ flights \in Seq(Flights)
  BY FlightTyped DEF Answer, Running, BridgeInv, Typed
<1>2. CASE Invalidate
  BY <1>2, InvalidateStep DEF Answer
<1>3. CASE Settle([flights EXCEPT ![i] = Fail(f, TRUE)]) /\ UNCHANGED <<valid, detail>>
  <2>1. Moves(f, Fail(f, TRUE)) /\ Fail(f, TRUE).at # "detail"
    BY <1>1, FailMoves
  <2> QED BY <1>3, <2>1, OneStep DEF Answer
<1>4. CASE Settle([flights EXCEPT ![i] = g]) /\ UNCHANGED <<valid, detail>>
  <2>1. Moves(f, g) /\ g.at # "detail"
    BY <1>1, AnswerMoves
  <2> HIDE DEF g
  <2> QED BY <1>4, <2>1, OneStep DEF Answer
<1>5. CASE Settle([flights EXCEPT ![i] = WithBody(f)]) /\ UNCHANGED <<valid, detail>>
  <2>1. Moves(f, WithBody(f)) /\ WithBody(f).at # "detail"
    BY <1>1, AnswerMoves
  <2> QED BY <1>5, <2>1, OneStep DEF Answer
<1>6. [flights EXCEPT ![i].at = "done", ![i].log = @ \o <<"headers", "end">>]
      = [flights EXCEPT ![i] = g]
  BY <1>1 DEF Slots
<1> QED BY <1>2, <1>3, <1>4, <1>5, <1>6 DEF Answer

LEMMA ReadStep == ASSUME BridgeInv, NEW i \in Slots, Read(i) PROVE Step
<1> DEFINE f == flights[i]
           g == [f EXCEPT !.at = "done", !.log = Append(@, "end")]
<1>1. f \in Flights /\ Answered(f) /\ Running(f) /\ flights \in Seq(Flights)
  BY FlightTyped DEF Read, Running, BridgeInv, Typed
<1>2. ASSUME NEW n \in 1 .. MaxChunk, NEW last \in BOOLEAN,
             Settle([flights EXCEPT ![i] = Pump(WithChunk(f, n, last))])
      PROVE  Step
  <2>1. n \in Int
    BY BridgeAssumption
  <2>2. Moves(f, Pump(WithChunk(f, n, last))) /\ Pump(WithChunk(f, n, last)).at # "detail"
    BY <1>1, <2>1, ChunkMoves
  <2> QED BY <1>2, <2>2, OneStep DEF Read
<1>3. CASE Settle([flights EXCEPT ![i] = g])
  <2>1. Moves(f, g) /\ g.at # "detail"
    BY <1>1, AnswerMoves
  <2> HIDE DEF g
  <2> QED BY <1>3, <2>1, OneStep DEF Read
<1>4. CASE Settle([flights EXCEPT ![i] = Fail(f, TRUE)])
  <2>1. Moves(f, Fail(f, TRUE)) /\ Fail(f, TRUE).at # "detail"
    BY <1>1, FailMoves
  <2> QED BY <1>4, <2>1, OneStep DEF Read
<1>5. [flights EXCEPT ![i].at = "done", ![i].log = Append(@, "end")]
      = [flights EXCEPT ![i] = g]
  BY <1>1 DEF Slots
<1> QED BY <1>2, <1>3, <1>4, <1>5 DEF Read

\* A new request: what it is, whether it is let in at once or fails at once.
LEMMA NewFlight ==
  ASSUME BridgeInv, NEW id \in Ids, NEW expired \in BOOLEAN,
         NEW f, f = IF detail = "ready" THEN WithDetail(Flight(id, expired), TRUE)
                    ELSE Flight(id, expired)
  PROVE  /\ f \in Flights /\ f.id = id /\ f.port = port /\ Answered(f)
         /\ f.at = "detail" => detail # "ready"
<1> DEFINE new == Flight(id, expired)
<1>1. /\ new \in Flights /\ new.id = id /\ new.port = port /\ new.at = "detail"
      /\ new.log = <<>>
  BY EmptyLog DEF Flight, Flights, Places, BridgeInv, Typed
<1> HIDE DEF new
<1>2. Answered(new) /\ Running(new)
  BY <1>1, EmptyLog DEF Answered, Running
<1>3. Moves(new, WithDetail(new, TRUE)) /\ WithDetail(new, TRUE).at # "detail"
  BY <1>1, <1>2, DetailMoves
<1> QED BY <1>1, <1>2, <1>3 DEF Moves, new

\* It takes a place of the map that is free: its identifier is in the window
\* of no request that runs.
LEMMA AcceptedStep ==
  ASSUME NeverForgotten, BridgeInv, valid, NEW id \in Ids, id \notin ToSet(replay), NEW f,
         f \in Flights, f.id = id, f.port = port, Answered(f),
         f.at = "detail" => detail # "ready",
         replay' = Append(replay, id), flights' = Append(flights, f),
         requests' = [requests EXCEPT ![id] = IF Running(f) THEN Len(flights) + 1 ELSE 0],
         detail' = IF detail = "none" THEN "loading" ELSE detail,
         UNCHANGED <<port, ports, disposed, valid>>
  PROVE  Step
<1> DEFINE new == Len(flights) + 1
<1>1. flights \in Seq(Flights) /\ Len(flights) \in Nat /\ Slots = 1 .. Len(flights)
  BY DEF BridgeInv, Typed, Slots
<1>2. /\ flights' \in Seq(Flights) /\ Slots' = 1 .. new /\ flights'[new] = f
      /\ \A i \in Slots : flights'[i] = flights[i]
  BY <1>1 DEF Slots
<1>3. new \in Nat /\ new # 0 /\ new \notin Slots
  BY <1>1
<1> HIDE DEF new
<1>4. \A i \in Slots' : i \in Slots \/ i = new
  BY <1>1, <1>2 DEF new
<1>5. replay' \in Seq(Ids) /\ Distinct(replay') /\ ToSet(replay') = ToSet(replay) \cup {id}
  BY Remembered DEF BridgeInv, Typed
<1>6. requests' = [requests EXCEPT ![id] = IF Running(f) THEN new ELSE 0] /\ requests \in [Ids -> Nat]
  BY DEF new, BridgeInv, Typed
<1>7. requests' \in [Ids -> Nat]
  BY <1>3, <1>6
<1>8. Typed'
  BY <1>2, <1>5, <1>7 DEF BridgeInv, Typed
<1>9. Mapped'
  <2> SUFFICES ASSUME NEW x \in Ids, requests'[x] # 0
               PROVE  /\ requests'[x] \in Slots' /\ flights'[requests'[x]].id = x
                      /\ Running(flights'[requests'[x]])
    BY DEF Mapped
  <2>1. CASE x = id
    <3>1. requests'[x] = new /\ Running(f)
      BY <1>6, <2>1
    <3> QED BY <1>1, <1>2, <2>1, <3>1 DEF new
  <2>2. CASE x # id
    <3>1. requests'[x] = requests[x]
      BY <1>6, <2>2
    <3>2. requests[x] \in Slots /\ flights[requests[x]].id = x /\ Running(flights[requests[x]])
      BY <3>1 DEF BridgeInv, Mapped
    <3> QED BY <1>1, <1>2, <3>1, <3>2 DEF new
  <2> QED BY <2>1, <2>2
<1>10. Belonging'
  <2> SUFFICES ASSUME NEW i \in Slots', Running(flights'[i])
               PROVE  /\ requests'[flights'[i].id] = i /\ flights'[i].id \in ToSet(replay')
                      /\ flights'[i].port = port /\ valid
                      /\ flights'[i].at = "detail" => detail' = "loading"
    BY DEF Belonging, Owned, Alive
  <2>1. CASE i = new
    <3>1. flights'[i] = f /\ requests'[id] = new
      BY <1>2, <1>6, <2>1
    <3> QED BY <1>5, <2>1, <3>1 DEF BridgeInv, Typed
  <2>2. CASE i \in Slots
    <3>1. flights'[i] = flights[i]
      BY <1>2, <2>2
    <3>2. Running(flights[i]) /\ flights[i].id \in Ids
      BY <2>2, <3>1, FlightTyped
    <3>3. Owned(i) /\ Alive(flights[i])
      BY <2>2, <3>2 DEF BridgeInv, Belonging
    <3>4. requests[flights[i].id] = i /\ flights[i].id # id
      BY <3>3 DEF Owned, Alive
    <3>5. requests'[flights[i].id] = i
      BY <1>6, <3>2, <3>4
    <3> QED BY <1>5, <3>1, <3>3, <3>5 DEF Alive
  <2> QED BY <1>4, <2>1, <2>2
<1>11. \A i \in Slots' : Answered(flights'[i])
  BY <1>2, <1>4 DEF BridgeInv
<1>12. \A i \in Slots : flights[i] \in Flights /\ Answered(flights[i])
  BY FlightTyped
<1>13. Told
  BY <1>2, <1>12 DEF Told, Moves
<1> QED BY <1>8, <1>9, <1>10, <1>11, <1>13, SameSilent DEF Step, BridgeInv

\* Nothing but the window changes, or nothing at all.
LEMMA RefusedStep ==
  ASSUME BridgeInv, UNCHANGED <<port, ports, disposed, valid, detail, requests, flights>>,
         replay' \in Seq(Ids), Distinct(replay'), ToSet(replay) \subseteq ToSet(replay')
  PROVE  Step
<1>1. Typed' /\ Mapped'
  BY DEF BridgeInv, Typed, Mapped, Slots, Running
<1>2. Belonging'
  BY DEF BridgeInv, Belonging, Alive, Slots, Running, Owned
<1>3. \A i \in Slots' : Answered(flights'[i])
  BY DEF BridgeInv, Slots
<1>4. \A i \in Slots : flights[i] \in Flights /\ Answered(flights[i])
  BY FlightTyped
<1>5. Told
  BY <1>4 DEF Told, Moves
<1> QED BY <1>1, <1>2, <1>3, <1>5, SameSilent DEF Step, BridgeInv

LEMMA RequestStep ==
  ASSUME NeverForgotten, BridgeInv, NEW id \in Ids, NEW expired \in BOOLEAN, Request(id, expired)
  PROVE  Step
<1>1. CASE UNCHANGED <<replay, requests, flights, detail>>
  BY <1>1, RefusedStep DEF Request, BridgeInv, Typed
<1>2. ASSUME id \notin ToSet(replay)
      PROVE  /\ Remember(id) = Append(replay, id)
             /\ Append(replay, id) \in Seq(Ids) /\ Distinct(Append(replay, id))
             /\ ToSet(replay) \subseteq ToSet(Append(replay, id))
  <2>1. /\ Append(replay, id) \in Seq(Ids) /\ Distinct(Append(replay, id))
        /\ ToSet(Append(replay, id)) = ToSet(replay) \cup {id}
        /\ Len(Append(replay, id)) <= Window
    BY <1>2, Remembered DEF BridgeInv, Typed
  <2>2. ~(Len(Append(replay, id)) > Window)
    BY <2>1, BridgeAssumption
  <2> QED BY <2>1, <2>2 DEF Remember
<1>3. CASE /\ id \notin ToSet(replay)
           /\ replay' = Remember(id)
           /\ UNCHANGED <<requests, flights, detail>>
  BY <1>2, <1>3, RefusedStep DEF Request
<1> DEFINE f == IF detail = "ready" THEN WithDetail(Flight(id, expired), TRUE)
                ELSE Flight(id, expired)
<1>4. CASE /\ valid /\ id \notin ToSet(replay)
           /\ replay' = Remember(id)
           /\ flights' = Append(flights, f)
           /\ requests' = [requests EXCEPT ![id] = IF Running(f) THEN Len(flights) + 1 ELSE 0]
           /\ detail' = IF detail = "none" THEN "loading" ELSE detail
  <2>1. /\ f \in Flights /\ f.id = id /\ f.port = port /\ Answered(f)
        /\ f.at = "detail" => detail # "ready"
    <3>1. f = IF detail = "ready" THEN WithDetail(Flight(id, expired), TRUE)
              ELSE Flight(id, expired)
      OBVIOUS
    <3> HIDE DEF f
    <3> QED BY <3>1, NewFlight
  <2> HIDE DEF f
  <2> QED BY <1>2, <1>4, <2>1, AcceptedStep DEF Request
<1> QED BY <1>1, <1>3, <1>4 DEF Request

LEMMA InitInv == Init => BridgeInv
<1> SUFFICES ASSUME Init PROVE BridgeInv
  OBVIOUS
<1>1. Slots = {}
  BY DEF Init, Slots
<1>2. \A id \in Ids : requests[id] = 0
  BY DEF Init
<1>3. Mapped
  BY <1>2 DEF Mapped
<1>4. <<>> \in Seq(Ids) /\ <<>> \in Seq(Flights)
  OBVIOUS
<1>5. Typed
  BY <1>4, NothingWindow DEF Init, Typed
<1> QED BY <1>1, <1>3, <1>5 DEF BridgeInv, Belonging

LEMMA NextStep == ASSUME NeverForgotten, BridgeInv, [Next]_vars PROVE Step
<1>1. CASE Connect
  BY <1>1, ConnectStep
<1>2. CASE Dispose
  BY <1>2, DisposeStep
<1>3. CASE DetailAnswer
  BY <1>3, DetailStep
<1>4. ASSUME NEW id \in Ids, NEW expired \in BOOLEAN, Request(id, expired) PROVE Step
  BY <1>4, RequestStep
<1>5. ASSUME NEW id \in Ids, Cancel(id) PROVE Step
  BY <1>5, CancelStep
<1>6. ASSUME NEW id \in Ids, NEW n \in 1 .. MaxCredit, Credit(id, n) PROVE Step
  <2>1. n \in Int
    BY BridgeAssumption
  <2> QED BY <1>6, <2>1, CreditStep
<1>7. ASSUME NEW i \in Slots, Deadline(i) \/ Answer(i) \/ Read(i) PROVE Step
  BY <1>7, DeadlineStep, AnswerStep, ReadStep
<1>8. CASE UNCHANGED vars
  BY <1>8, RefusedStep DEF vars, BridgeInv, Typed
<1> QED BY <1>1, <1>2, <1>3, <1>4, <1>5, <1>6, <1>7, <1>8 DEF Next

-----------------------------------------------------------------------------
(* The theorems *)

\* The invariant holds, and every step of a behaviour is one of those above.
LEMMA BridgeHolds == ASSUME NeverForgotten PROVE Spec => []BridgeInv
<1>1. BridgeInv /\ [Next]_vars => BridgeInv'
  BY NextStep DEF Step
<1> QED BY <1>1, InitInv, PTL DEF Spec

\* No request of an earlier load of the frame, or of a disposed bridge, runs
\* on: iframeBridge.ts stops what is in the map, and everything that runs is.
THEOREM ReplacedEnds == ASSUME NeverForgotten PROVE Spec => []ReplacedIsOver
<1>1. BridgeInv => ReplacedIsOver
  BY DEF BridgeInv, Belonging, Alive, ReplacedIsOver
<1> QED BY <1>1, BridgeHolds, PTL

\* Once the authorization of a connection is gone, none of its requests is
\* given anything but the error that says so, whatever was on its way.
THEOREM SilentOnceRevoked == ASSUME NeverForgotten PROVE Spec => RevokedIsSilent
<1>1. BridgeInv /\ [Next]_vars =>
        [~valid' => \A i \in Slots :
           /\ flights'[i].log \in {flights[i].log, Append(flights[i].log, "error")}
           /\ flights'[i].sent = flights[i].sent]_vars
  BY NextStep DEF Step, Silent
<1> QED BY <1>1, BridgeHolds, PTL DEF Spec, RevokedIsSilent

LEMMA OneTerminal ==
  ASSUME NEW log \in Seq(Words), Once(log)
  PROVE  Cardinality({k \in DOMAIN log : log[k] \in Terminal}) <= 1
<1> DEFINE T == {k \in DOMAIN log : log[k] \in Terminal}
<1>1. \A j, k \in T : j = k
  BY DEF Once
<1> HIDE DEF T
<1>2. CASE T = {}
  <2>1. Cardinality(T) = 0
    BY <1>2, FS_EmptySet
  <2> QED BY <2>1 DEF T
<1>3. CASE T # {}
  <2>1. PICK k \in T : TRUE
    BY <1>3
  <2>2. T = {k}
    BY <1>1, <2>1
  <2>3. Cardinality(T) = 1
    BY <2>2, FS_Singleton
  <2> QED BY <2>3 DEF T
<1> QED BY <1>2, <1>3

\* The APP hears one end or one error for a request and nothing after it,
\* however cancels, deadlines, revocations and reloads come together.
THEOREM EndedOnce == ASSUME NeverForgotten PROVE Spec => AnsweredOnce
<1> DEFINE A == \A i \in Slots :
        IF Over(flights[i])
        THEN flights'[i].log = flights[i].log /\ flights'[i].sent = flights[i].sent
        ELSE Cardinality({k \in DOMAIN flights'[i].log : flights'[i].log[k] \in Terminal}) <= 1
<1>1. ASSUME BridgeInv, [Next]_vars PROVE A
  <2> SUFFICES ASSUME NEW i \in Slots
               PROVE  /\ Over(flights[i]) => /\ flights'[i].log = flights[i].log
                                             /\ flights'[i].sent = flights[i].sent
                      /\ Cardinality({k \in DOMAIN flights'[i].log : flights'[i].log[k] \in Terminal}) <= 1
    OBVIOUS
  <2>1. Moves(flights[i], flights'[i])
    BY <1>1, NextStep DEF Step, Told
  <2>2. Over(flights[i]) => ~Running(flights[i])
    BY <1>1, FlightTyped DEF Answered, Over, Unanswered
  <2>3. flights'[i].log \in Seq(Words) /\ Once(flights'[i].log)
    BY <2>1 DEF Moves, Answered, Flights
  <2> QED BY <2>1, <2>2, <2>3, OneTerminal DEF Moves
<1>2. BridgeInv /\ [Next]_vars => [A]_vars
  BY <1>1
<1> QED BY <1>2, BridgeHolds, PTL DEF Spec, AnsweredOnce

-----------------------------------------------------------------------------
(***************************************************************************)
(* Capacities: for any identifiers, and whatever the window forgets.       *)
(***************************************************************************)
Capped ==
  {f \in Flights : /\ f.credit \in 0 .. MaxCredit /\ f.chunk \in 0 .. MaxChunk
                   /\ f.at \in {"first", "post"} => f.credit = 0}

CapInv ==
  /\ port \in 0 .. ports /\ ports \in 0 .. MaxPorts
  /\ disposed \in BOOLEAN /\ valid \in BOOLEAN /\ detail \in {"none", "loading", "ready"}
  /\ replay \in Seq(Ids) /\ Len(replay) <= Window
  /\ flights \in Seq(Capped)
  /\ requests \in [Ids -> 0 .. Len(flights)]

\* What keeps its credit and its chunk, and does not come to wait.
LEMMA StaysCapped ==
  ASSUME NEW f \in Capped, NEW g \in Flights, g.credit = f.credit, g.chunk = f.chunk,
         g.at = f.at \/ g.at \notin {"first", "post"}
  PROVE  g \in Capped
  BY DEF Capped

LEMMA FailCapped ==
  ASSUME NEW f \in Capped, NEW tell \in BOOLEAN PROVE Fail(f, tell) \in Capped
<1>1. f \in Flights
  BY DEF Capped
<1>2. Fail(f, tell) \in Flights
  BY <1>1, FailEffect DEF Alike
<1>3. Fail(f, tell).credit = f.credit /\ Fail(f, tell).chunk = f.chunk /\ Fail(f, tell).at = "done"
  BY <1>1 DEF Fail, Flights
<1> QED BY <1>2, <1>3, StaysCapped

LEMMA AbortedCapped ==
  ASSUME NEW f \in Capped PROVE [f EXCEPT !.aborted = TRUE] \in Capped
<1> DEFINE g == [f EXCEPT !.aborted = TRUE]
<1>1. g \in Flights /\ g.credit = f.credit /\ g.chunk = f.chunk /\ g.at = f.at
  BY DEF Capped, Flights
<1> HIDE DEF g
<1>2. g \in Capped
  BY <1>1, StaysCapped
<1> QED BY <1>2 DEF g

LEMMA StopCapped ==
  ASSUME NEW f \in Capped, NEW tell \in BOOLEAN PROVE Stop(f, tell) \in Capped
<1> DEFINE g == [f EXCEPT !.aborted = TRUE]
<1>1. g \in Capped
  BY AbortedCapped
<1>2. Stop(f, tell) \in {g, Fail(g, tell), Fail(g, FALSE)}
  <2>1. f.at \in Places
    BY DEF Capped, Flights
  <2> HIDE DEF g
  <2> QED BY <2>1 DEF Stop, g, Places
<1> HIDE DEF g
<1>3. Fail(g, tell) \in Capped /\ Fail(g, FALSE) \in Capped
  BY <1>1, FailCapped
<1> QED BY <1>1, <1>2, <1>3

LEMMA DetailCapped ==
  ASSUME NEW f \in Capped, NEW tell \in BOOLEAN PROVE WithDetail(f, tell) \in Capped
<1>1. CASE f.aborted
  BY <1>1, FailCapped DEF WithDetail
<1>2. CASE ~f.aborted
  <2> DEFINE log == Append(f.log, "detail")
             g == [f EXCEPT !.at = "fetch", !.log = log]
  <2>1. log \in Seq(Words) /\ f \in Flights
    BY DEF Capped, Flights, Words
  <2> HIDE DEF log
  <2>2. g \in Flights /\ g.credit = f.credit /\ g.chunk = f.chunk /\ g.at = "fetch"
    BY <2>1 DEF Flights, Places
  <2>3. WithDetail(f, tell) = g
    BY <1>2 DEF WithDetail, log
  <2> HIDE DEF g
  <2> QED BY <2>2, <2>3, StaysCapped
<1> QED BY <1>1, <1>2

\* Credit and chunk go down together, and whoever waits on has used its credit.
LEMMA PumpCapped ==
  ASSUME NEW f \in Flights, f.credit \in 0 .. MaxCredit, f.chunk \in 0 .. MaxChunk
  PROVE  Pump(f) \in Capped
<1> DEFINE n    == IF f.credit < f.chunk THEN f.credit ELSE f.chunk
           rest == f.chunk - n
           at   == IF rest > 0 THEN "post" ELSE IF f.last THEN "done" ELSE "read"
           log  == IF rest = 0 /\ f.last THEN Append(f.log, "end") ELSE f.log
           g == [f EXCEPT !.credit = f.credit - n, !.sent = f.sent + n, !.chunk = rest,
                          !.at = at, !.log = log]
<1>1. /\ f.credit - n \in 0 .. MaxCredit /\ rest \in 0 .. MaxChunk
      /\ rest > 0 => f.credit - n = 0
      /\ n \in Int
  BY BridgeAssumption
<1>2. at \in {"post", "done", "read"} /\ (at = "post" => rest > 0)
  OBVIOUS
<1>3. log \in Seq(Words) /\ f.sent + n \in Int
  BY <1>1 DEF Flights, Words
<1>4. Pump(f) = g
  BY DEF Pump
<1> HIDE DEF n, rest, at, log
<1>5. /\ g.credit = f.credit - n /\ g.chunk = rest /\ g.at = at
  BY DEF Flights
<1>6. g \in Flights
  <2>1. rest \in Int /\ at \in Places /\ f.credit - n \in Int
    BY <1>1, <1>2, BridgeAssumption DEF Places
  <2> QED BY <1>3, <2>1 DEF Flights
<1> HIDE DEF g
<1> QED BY <1>1, <1>2, <1>4, <1>5, <1>6 DEF Capped

LEMMA GrantedCapped ==
  ASSUME NEW f \in Capped, NEW n \in Nat, f.credit + n <= MaxCredit, valid \in BOOLEAN
  PROVE  Granted(f, n) \in Capped
<1> DEFINE g == [f EXCEPT !.credit = f.credit + n]
           h == [g EXCEPT !.at = "read"]
<1>1. f \in Flights /\ f.credit \in 0 .. MaxCredit /\ f.chunk \in 0 .. MaxChunk
      /\ f.credit + n \in 0 .. MaxCredit /\ f.at \in Places
  BY BridgeAssumption DEF Capped, Flights
<1>2. /\ g \in Flights /\ g.credit \in 0 .. MaxCredit /\ g.chunk \in 0 .. MaxChunk
      /\ g.at = f.at /\ g.aborted = f.aborted
  BY <1>1 DEF Flights
<1>3. Pump(g) \in Capped
  BY <1>2, PumpCapped
<1>4. h \in Flights /\ h.credit = g.credit /\ h.chunk = g.chunk /\ h.at = "read"
  BY <1>1, <1>2 DEF Flights, Places
<1>5. h \in Capped
  BY <1>2, <1>4 DEF Capped
<1>6. f.at \notin {"first", "post"} => g \in Capped
  BY <1>2 DEF Capped
<1>7. f.at \in {"first", "post"} => Stop(g, valid) \in Capped
  <2> SUFFICES ASSUME f.at \in {"first", "post"} PROVE Stop(g, valid) \in Capped
    OBVIOUS
  <2> DEFINE k == [g EXCEPT !.aborted = TRUE]
  <2>1. /\ k \in Flights /\ k.credit = g.credit /\ k.chunk = g.chunk /\ k.at = g.at
    BY <1>2 DEF Flights
  <2>2. Stop(g, valid) \in {Fail(k, valid), Fail(k, FALSE)}
    BY <1>2 DEF Stop
  <2> HIDE DEF k
  <2>3. ASSUME NEW tell \in BOOLEAN PROVE Fail(k, tell) \in Capped
    <3>1. Fail(k, tell) \in Flights
      BY <2>1, FailEffect DEF Alike
    <3>2. /\ Fail(k, tell).credit = k.credit /\ Fail(k, tell).chunk = k.chunk
          /\ Fail(k, tell).at = "done"
      BY <2>1 DEF Fail, Flights
    <3> QED BY <1>2, <2>1, <3>1, <3>2 DEF Capped
  <2> QED BY <2>2, <2>3
<1>8. \/ f.at \in {"first", "post"} /\ Granted(f, n) = Stop(g, valid)
      \/ Granted(f, n) = h \/ Granted(f, n) = Pump(g)
      \/ f.at \notin {"first", "post"} /\ Granted(f, n) = g
  <2> HIDE DEF g
  <2>1. Granted(f, n) = CASE f.at \in {"first", "post"} /\ f.aborted -> Stop(g, valid)
                          [] f.at = "first" /\ ~f.aborted -> [g EXCEPT !.at = "read"]
                          [] f.at = "post" /\ ~f.aborted  -> Pump(g)
                          [] OTHER                        -> g
    BY DEF Granted, g
  <2>2. CASE f.at \in {"first", "post"} /\ f.aborted
    BY <2>1, <2>2
  <2>3. CASE f.at = "first" /\ ~f.aborted
    BY <2>1, <2>3
  <2>4. CASE f.at = "post" /\ ~f.aborted
    BY <2>1, <2>4
  <2>5. CASE f.at \notin {"first", "post"}
    BY <2>1, <2>5
  <2> QED BY <2>2, <2>3, <2>4, <2>5
<1> HIDE DEF g, h
<1> QED BY <1>3, <1>5, <1>6, <1>7, <1>8

LEMMA ExpiredCapped ==
  ASSUME NEW f \in Capped, valid \in BOOLEAN PROVE Expired(f) \in Capped
  BY StopCapped, AbortedCapped DEF Expired

LEMMA BodyCapped ==
  ASSUME NEW f \in Capped
  PROVE  /\ WithBody(f) \in Capped
         /\ [f EXCEPT !.at = "done", !.log = @ \o <<"headers", "end">>] \in Capped
         /\ [f EXCEPT !.at = "done", !.log = Append(@, "end")] \in Capped
<1>1. f \in Flights /\ f.log \in Seq(Words)
  BY DEF Capped, Flights
<1>2. /\ Append(f.log, "headers") \in Seq(Words) /\ Append(f.log, "end") \in Seq(Words)
      /\ f.log \o <<"headers", "end">> \in Seq(Words)
  <2>1. <<"headers", "end">> \in Seq(Words)
    BY DEF Words
  <2> QED BY <1>1, <2>1 DEF Words
<1>3. ASSUME NEW log \in Seq(Words), NEW at \in Places,
             at \in {"first", "post"} => f.credit = 0
      PROVE  [f EXCEPT !.at = at, !.log = log] \in Capped
  <2> DEFINE g == [f EXCEPT !.at = at, !.log = log]
  <2>1. g \in Flights /\ g.credit = f.credit /\ g.chunk = f.chunk /\ g.at = at
    BY <1>1 DEF Flights
  <2> HIDE DEF g
  <2>2. g \in Capped
    BY <1>3, <2>1 DEF Capped
  <2> QED BY <2>2 DEF g
<1>4. f.credit \in Nat /\ {"read", "first", "done"} \subseteq Places
  BY BridgeAssumption DEF Capped, Places
<1>5. WithBody(f) \in Capped
  <2> DEFINE at == IF f.credit > 0 THEN "read" ELSE "first"
  <2>1. at \in Places /\ (at \in {"first", "post"} => f.credit = 0)
    BY <1>4
  <2>2. WithBody(f) = [f EXCEPT !.at = at, !.log = Append(f.log, "headers")]
    BY DEF WithBody
  <2> HIDE DEF at
  <2> QED BY <1>2, <1>3, <2>1, <2>2
<1>6. [f EXCEPT !.at = "done", !.log = f.log \o <<"headers", "end">>] \in Capped
  BY <1>2, <1>3, <1>4
<1>7. [f EXCEPT !.at = "done", !.log = Append(f.log, "end")] \in Capped
  BY <1>2, <1>3, <1>4
<1> QED BY <1>5, <1>6, <1>7

LEMMA ChunkCapped ==
  ASSUME NEW f \in Capped, NEW n \in 1 .. MaxChunk, NEW last \in BOOLEAN
  PROVE  Pump(WithChunk(f, n, last)) \in Capped
<1> DEFINE g == WithChunk(f, n, last)
<1>1. f \in Flights /\ f.credit \in 0 .. MaxCredit /\ n \in 0 .. MaxChunk /\ n \in Int
  BY BridgeAssumption DEF Capped
<1>2. g \in Flights /\ g.credit = f.credit /\ g.chunk = n
  <2>1. f.chunks + 1 \in Int
    BY <1>1 DEF Flights
  <2> QED BY <1>1, <2>1 DEF WithChunk, Flights
<1> HIDE DEF g
<1>3. Pump(g) \in Capped
  BY <1>1, <1>2, PumpCapped
<1> QED BY <1>3 DEF g

-----------------------------------------------------------------------------
(* All requests *)

LEMMA CappedSlots ==
  ASSUME CapInv
  PROVE  /\ Slots = 1 .. Len(flights) /\ Len(flights) \in Nat
         /\ \A i \in Slots : flights[i] \in Capped
         /\ \A id \in Ids : requests[id] # 0 => requests[id] \in Slots
<1>1. Slots = 1 .. Len(flights) /\ Len(flights) \in Nat
  BY DEF CapInv, Slots
<1>2. \A i \in 1 .. Len(flights) : flights[i] \in Capped
  BY DEF CapInv
<1>3. \A id \in Ids : requests[id] \in 0 .. Len(flights)
  BY DEF CapInv
<1> QED BY <1>1, <1>2, <1>3

LEMMA MapCapped ==
  ASSUME CapInv, NEW fs, fs = [i \in Slots |-> fs[i]], \A i \in Slots : fs[i] \in Capped
  PROVE  fs \in Seq(Capped) /\ Len(fs) = Len(flights)
<1>1. fs \in [1 .. Len(flights) -> Capped] /\ Len(flights) \in Nat
  BY CappedSlots
<1> QED BY <1>1

LEMMA StopAllCapped ==
  ASSUME CapInv, NEW word \in {<<>>, <<"error">>}, NEW tell \in BOOLEAN
  PROVE  StopAll(word, tell) \in Seq(Capped) /\ Len(StopAll(word, tell)) = Len(flights)
<1> DEFINE f(i) == [flights[i] EXCEPT !.log = IF Owned(i) THEN @ \o word ELSE @]
           g(i) == IF Owned(i) THEN Stop(f(i), tell) ELSE f(i)
           h(i) == IF g(i).at = "detail" /\ detail = "loading" THEN Fail(g(i), tell) ELSE g(i)
<1>1. \A i \in Slots : f(i) \in Capped
  <2> SUFFICES ASSUME NEW i \in Slots PROVE f(i) \in Capped
    OBVIOUS
  <2> DEFINE log == IF Owned(i) THEN flights[i].log \o word ELSE flights[i].log
             new == [flights[i] EXCEPT !.log = log]
  <2>1. flights[i] \in Capped /\ flights[i] \in Flights
    BY CappedSlots DEF Capped
  <2>2. log \in Seq(Words)
    <3>1. flights[i].log \in Seq(Words)
      BY <2>1 DEF Flights
    <3>2. word \in Seq(Words)
      <4>1. "error" \in Words
        BY DEF Words
      <4>2. <<"error">> \in Seq(Words)
        BY <4>1
      <4>3. <<>> \in Seq(Words)
        OBVIOUS
      <4>4. word = <<>> \/ word = <<"error">>
        OBVIOUS
      <4> QED BY <4>2, <4>3, <4>4
    <3>3. flights[i].log \o word \in Seq(Words)
      BY <3>1, <3>2
    <3>4. log = flights[i].log \/ log = flights[i].log \o word
      OBVIOUS
    <3> HIDE DEF log
    <3> QED BY <3>1, <3>3, <3>4
  <2> HIDE DEF log
  <2>3. /\ new \in Flights /\ new.credit = flights[i].credit /\ new.chunk = flights[i].chunk
        /\ new.at = flights[i].at
    BY <2>1, <2>2 DEF Flights
  <2>4. f(i) = new
    BY DEF log
  <2> HIDE DEF new, f
  <2> QED BY <2>1, <2>3, <2>4, StaysCapped
<1> HIDE DEF f
<1>2. \A i \in Slots : g(i) \in Capped
  BY <1>1, StopCapped
<1> HIDE DEF g
<1>3. \A i \in Slots : h(i) \in Capped
  BY <1>2, FailCapped
<1>4. StopAll(word, tell) = [i \in Slots |-> h(i)]
  BY DEF StopAll, f, g
<1> HIDE DEF h
<1>5. \A i \in Slots : StopAll(word, tell)[i] = h(i)
  BY <1>4
<1> QED BY <1>3, <1>4, <1>5, MapCapped

LEMMA SettleCapped ==
  ASSUME CapInv, NEW fs \in Seq(Capped), Len(fs) = Len(flights), Settle(fs),
         valid' \in BOOLEAN, detail' \in {"none", "loading", "ready"},
         UNCHANGED <<port, ports, disposed, replay>>
  PROVE  CapInv'
<1>1. requests' \in [Ids -> 0 .. Len(flights)]
  BY DEF Settle, CapInv
<1> QED BY <1>1 DEF Settle, CapInv

LEMMA OneCapped ==
  ASSUME CapInv, NEW i \in Slots, NEW g \in Capped, Settle([flights EXCEPT ![i] = g]),
         valid' \in BOOLEAN, detail' \in {"none", "loading", "ready"},
         UNCHANGED <<port, ports, disposed, replay>>
  PROVE  CapInv'
<1>1. [flights EXCEPT ![i] = g] \in Seq(Capped) /\ Len([flights EXCEPT ![i] = g]) = Len(flights)
  BY CappedSlots DEF CapInv
<1> QED BY <1>1, SettleCapped

-----------------------------------------------------------------------------
LEMMA InvalidateCapped ==
  ASSUME CapInv, Invalidate, UNCHANGED <<port, ports, disposed, replay>> PROVE CapInv'
  BY StopAllCapped, SettleCapped DEF Invalidate

\* The frame is loaded again, or the bridge disposed of.
LEMMA AbandonedCapped ==
  ASSUME CapInv, Connect \/ Dispose PROVE CapInv'
<1>1. flights' \in Seq(Capped) /\ Len(flights') = Len(flights)
  BY StopAllCapped DEF Connect, Dispose
<1>2. requests' \in [Ids -> 0 .. Len(flights')]
  <2>1. 0 \in 0 .. Len(flights')
    BY <1>1, CappedSlots
  <2>2. requests' = [id \in Ids |-> 0]
    BY DEF Connect, Dispose
  <2> QED BY <2>1, <2>2
<1>3. port' \in 0 .. ports' /\ ports' \in 0 .. MaxPorts
  <2>1. port \in 0 .. ports /\ ports \in 0 .. MaxPorts /\ MaxPorts \in Nat
    BY BridgeAssumption DEF CapInv
  <2>2. \/ ports < MaxPorts /\ ports' = ports + 1 /\ port' = ports + 1
        \/ ports' = ports /\ port' = 0
    BY DEF Connect, Dispose
  <2> QED BY <2>1, <2>2
<1>4. replay' \in Seq(Ids) /\ Len(replay') <= Window
  <2>1. Len(<<>>) = 0 /\ 0 <= Window /\ <<>> \in Seq(Ids)
    BY BridgeAssumption
  <2> QED BY <2>1 DEF CapInv, Connect, Dispose
<1>5. /\ disposed' \in BOOLEAN /\ valid' \in BOOLEAN
      /\ detail' \in {"none", "loading", "ready"}
  BY DEF CapInv, Connect, Dispose
<1> QED BY <1>1, <1>2, <1>3, <1>4, <1>5 DEF CapInv

LEMMA RememberCapped ==
  ASSUME CapInv, NEW id \in Ids
  PROVE  Remember(id) \in Seq(Ids) /\ Len(Remember(id)) <= Window
<1> DEFINE order == Append(replay, id)
<1>1. /\ order \in Seq(Ids) /\ Len(order) = Len(replay) + 1 /\ Len(replay) \in Nat
      /\ Len(replay) <= Window /\ Window \in Nat
  BY BridgeAssumption DEF CapInv
<1>2. Remember(id) = IF Len(order) > Window THEN Tail(order) ELSE order
  BY DEF Remember
<1> HIDE DEF order
<1>3. order # <<>>
  BY <1>1
<1>4. Tail(order) \in Seq(Ids) /\ Len(Tail(order)) = Len(order) - 1
  BY <1>1, <1>3
<1> QED BY <1>1, <1>2, <1>4

LEMMA RequestCapped ==
  ASSUME CapInv, NEW id \in Ids, NEW expired \in BOOLEAN, Request(id, expired) PROVE CapInv'
<1>1. UNCHANGED <<port, ports, disposed, valid>>
  BY DEF Request
<1>2. replay' \in Seq(Ids) /\ Len(replay') <= Window
  BY RememberCapped DEF Request, CapInv
<1>3. detail' \in {"none", "loading", "ready"}
  BY DEF Request, CapInv
<1>4. CASE UNCHANGED <<requests, flights>>
  BY <1>1, <1>2, <1>3, <1>4 DEF CapInv
<1> DEFINE new == Flight(id, expired)
           f == IF detail = "ready" THEN WithDetail(new, TRUE) ELSE new
<1>5. CASE /\ flights' = Append(flights, f)
           /\ requests' = [requests EXCEPT ![id] = IF Running(f) THEN Len(flights) + 1 ELSE 0]
  <2>1. new \in Capped
    <3>1. <<>> \in Seq(Words) /\ port \in Nat
      BY BridgeAssumption DEF CapInv
    <3>2. new \in Flights /\ new.credit = 0 /\ new.chunk = 0
      BY <3>1 DEF Flight, Flights, Places
    <3> HIDE DEF new
    <3> QED BY <3>2, BridgeAssumption DEF Capped
  <2> HIDE DEF new
  <2>2. f \in Capped
    BY <2>1, DetailCapped
  <2> HIDE DEF f
  <2>3. /\ flights \in Seq(Capped) /\ requests \in [Ids -> 0 .. Len(flights)]
        /\ Len(flights) \in Nat
    BY DEF CapInv
  <2>4. flights' \in Seq(Capped) /\ Len(flights') = Len(flights) + 1
    BY <1>5, <2>2, <2>3
  <2>5. requests' \in [Ids -> 0 .. Len(flights) + 1]
    BY <1>5, <2>3
  <2> QED BY <1>1, <1>2, <1>3, <2>4, <2>5 DEF CapInv
<1> QED BY <1>4, <1>5 DEF Request

LEMMA DetailAnswerCapped == ASSUME CapInv, DetailAnswer PROVE CapInv'
<1> DEFINE given == [i \in Slots |-> IF flights[i].at = "detail"
                                     THEN WithDetail(flights[i], TRUE) ELSE flights[i]]
           lost  == [i \in Slots |-> IF flights[i].at = "detail"
                                     THEN Fail(flights[i], TRUE) ELSE flights[i]]
<1>1. /\ \A i \in Slots : given[i] \in Capped
      /\ \A i \in Slots : lost[i] \in Capped
  BY CappedSlots, DetailCapped, FailCapped
<1>2. given \in Seq(Capped) /\ Len(given) = Len(flights)
  BY <1>1, MapCapped
<1>3. lost \in Seq(Capped) /\ Len(lost) = Len(flights)
  BY <1>1, MapCapped
<1>4. valid \in BOOLEAN
  BY DEF CapInv
<1>5. CASE Invalidate
  BY <1>5, InvalidateCapped DEF DetailAnswer
<1>6. CASE detail' = "ready" /\ UNCHANGED valid /\ Settle(given)
  <2> HIDE DEF given, lost
  <2> QED BY <1>2, <1>4, <1>6, SettleCapped DEF DetailAnswer
<1>7. CASE detail' = "none" /\ UNCHANGED valid /\ Settle(lost)
  <2> HIDE DEF given, lost
  <2> QED BY <1>3, <1>4, <1>7, SettleCapped DEF DetailAnswer
<1> QED BY <1>5, <1>6, <1>7 DEF DetailAnswer

LEMMA GatewayCapped ==
  ASSUME CapInv, NEW i \in Slots, Deadline(i) \/ Answer(i) \/ Read(i) PROVE CapInv'
<1> DEFINE f == flights[i]
<1>1. /\ f \in Capped /\ valid \in BOOLEAN /\ detail \in {"none", "loading", "ready"}
      /\ flights \in Seq(Capped)
  BY CappedSlots DEF CapInv
<1>2. CASE Invalidate /\ UNCHANGED <<port, ports, disposed, replay>>
  BY <1>2, InvalidateCapped
<1>3. ASSUME NEW g \in Capped, Settle([flights EXCEPT ![i] = g]),
             UNCHANGED <<port, ports, disposed, valid, detail, replay>>
      PROVE  CapInv'
  BY <1>1, <1>3, OneCapped
<1>4. CASE Deadline(i)
  BY <1>1, <1>3, <1>4, ExpiredCapped DEF Deadline
<1>5. CASE Answer(i)
  <2>1. CASE Settle([flights EXCEPT ![i] = Fail(@, TRUE)]) /\ UNCHANGED <<valid, detail>>
    BY <1>1, <1>3, <1>5, <2>1, FailCapped DEF Answer
  <2>2. CASE /\ Settle([flights EXCEPT ![i].at = "done", ![i].log = @ \o <<"headers", "end">>])
             /\ UNCHANGED <<valid, detail>>
    <3>1. [flights EXCEPT ![i].at = "done", ![i].log = @ \o <<"headers", "end">>]
            = [flights EXCEPT ![i] = [f EXCEPT !.at = "done", !.log = @ \o <<"headers", "end">>]]
      BY <1>1
    <3> QED BY <1>1, <1>3, <1>5, <2>2, <3>1, BodyCapped DEF Answer
  <2>3. CASE Settle([flights EXCEPT ![i] = WithBody(@)]) /\ UNCHANGED <<valid, detail>>
    BY <1>1, <1>3, <1>5, <2>3, BodyCapped DEF Answer
  <2> QED BY <1>2, <1>5, <2>1, <2>2, <2>3 DEF Answer
<1>6. CASE Read(i)
  <2>1. ASSUME NEW n \in 1 .. MaxChunk, NEW last \in BOOLEAN,
               Settle([flights EXCEPT ![i] = Pump(WithChunk(@, n, last))])
        PROVE  CapInv'
    BY <1>1, <1>3, <1>6, <2>1, ChunkCapped DEF Read
  <2>2. CASE Settle([flights EXCEPT ![i].at = "done", ![i].log = Append(@, "end")])
    <3>1. [flights EXCEPT ![i].at = "done", ![i].log = Append(@, "end")]
            = [flights EXCEPT ![i] = [f EXCEPT !.at = "done", !.log = Append(@, "end")]]
      BY <1>1
    <3> QED BY <1>1, <1>3, <1>6, <2>2, <3>1, BodyCapped DEF Read
  <2>3. CASE Settle([flights EXCEPT ![i] = Fail(@, TRUE)])
    BY <1>1, <1>3, <1>6, <2>3, FailCapped DEF Read
  <2> QED BY <1>6, <2>1, <2>2, <2>3 DEF Read
<1> QED BY <1>4, <1>5, <1>6

LEMMA AppCapped ==
  ASSUME CapInv, NEW id \in Ids, Cancel(id) \/ \E n \in 1 .. MaxCredit : Credit(id, n)
  PROVE  CapInv'
<1> DEFINE i == requests[id]
<1>1. i \in Slots /\ flights[i] \in Capped
  BY CappedSlots DEF Cancel, Credit
<1>2. valid \in BOOLEAN /\ detail \in {"none", "loading", "ready"}
  BY DEF CapInv
<1>3. CASE Cancel(id)
  <2>1. Settle([flights EXCEPT ![i] = Stop(flights[i], valid)])
    BY <1>3 DEF Cancel
  <2> QED BY <1>1, <1>2, <1>3, <2>1, StopCapped, OneCapped DEF Cancel
<1>4. ASSUME NEW n \in 1 .. MaxCredit, Credit(id, n) PROVE CapInv'
  <2>1. /\ Settle([flights EXCEPT ![i] = Granted(flights[i], n)])
        /\ flights[i].credit + n <= MaxCredit /\ n \in Nat
    BY <1>4, BridgeAssumption DEF Credit
  <2>2. Granted(flights[i], n) \in Capped
    BY <1>1, <1>2, <2>1, GrantedCapped
  <2> QED BY <1>1, <1>2, <1>4, <2>1, <2>2, OneCapped DEF Credit
<1> QED BY <1>3, <1>4

\* No request waits for credit it has, none is given more than its bound, and the
\* window never outgrows its length, however connections, credit, deadlines and
\* revocations come together (waitForCredit, pump, rememberRequest).
THEOREM CapacitiesAreKept == Spec => []TypeOK
<1>1. Init => CapInv
  <2> SUFFICES ASSUME Init PROVE CapInv
    OBVIOUS
  <2>1. port \in 0 .. ports /\ ports \in 0 .. MaxPorts
    BY BridgeAssumption DEF Init
  <2>2. replay \in Seq(Ids) /\ Len(replay) <= Window
    BY BridgeAssumption DEF Init
  <2>3. flights \in Seq(Capped) /\ requests \in [Ids -> 0 .. Len(flights)]
    BY DEF Init
  <2> QED BY <2>1, <2>2, <2>3 DEF Init, CapInv
<1>2. CapInv /\ [Next]_vars => CapInv'
  <2> SUFFICES ASSUME CapInv, [Next]_vars PROVE CapInv'
    OBVIOUS
  <2>1. CASE UNCHANGED vars
    BY <2>1 DEF vars, CapInv
  <2> QED BY <2>1, AbandonedCapped, DetailAnswerCapped, RequestCapped, AppCapped, GatewayCapped
          DEF Next
<1>3. CapInv => TypeOK
  <2> SUFFICES ASSUME CapInv PROVE TypeOK
    OBVIOUS
  <2>1. \A i \in Slots : /\ flights[i].at \in Places
                         /\ flights[i].credit \in 0 .. MaxCredit /\ flights[i].chunk \in 0 .. MaxChunk
                         /\ flights[i].at \in {"first", "post"} => flights[i].credit = 0
    BY CappedSlots DEF Capped, Flights
  <2> QED BY <2>1 DEF CapInv, TypeOK, Places
<1> QED BY <1>1, <1>2, <1>3, PTL DEF Spec
=============================================================================
