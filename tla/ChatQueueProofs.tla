-------------------------- MODULE ChatQueueProofs --------------------------
(***************************************************************************)
(* The chat queue accounts for every event and for every guard, for any    *)
(* number of chats, events and callers and any depth of the queue, whether *)
(* or not callers are aborted and the drainer gives up.                    *)
(*                                                                         *)
(* The other adapter with a queue, WeChat's, hands on once what its cursor *)
(* has passed: for any messages, any window and any number of faults.      *)
(***************************************************************************)
EXTENDS ChatQueue, WechatIlink, FiniteSetTheorems, SequenceTheorems,
        WellFoundedInduction, TLAPS

-----------------------------------------------------------------------------
(***************************************************************************)
(* The inductive invariant.                                                *)
(***************************************************************************)
Typed ==
  /\ arrived \in 0 .. MaxEvents
  /\ chat \in [Events -> Chats]
  /\ call \in [Events -> Calls]
  /\ place \in [Events -> Places]
  /\ locked \subseteq Chats
  /\ pending \in Seq(Events)
  /\ scheduled \in BOOLEAN
  /\ drainers \subseteq Drainer

\* How far a caller has come says where its event is.
Phased ==
  \A e \in Events :
    /\ e > arrived => call[e] = "none" /\ place[e] = "none"
    /\ call[e] = "push" => place[e] = "caller"
    /\ call[e] = "process" <=> place[e] = "held"

\* A sequence without repetitions holds exactly the events of a place.
Lists(s, p) ==
  /\ IsInjective(s)
  /\ \A e \in Events : place[e] = p <=> e \in ToSet(s)

\* One drainer at most, with a batch only while it retries.
OneDrainer ==
  /\ \A d, f \in drainers : d = f
  /\ drainers # {} <=> scheduled
  /\ \A d \in drainers : d.pc # "retry" => d.todo = <<>> /\ d.kept = <<>>

Batched ==
  /\ \A e \in Events : place[e] = "drained" => drainers # {}
  /\ \A d \in drainers :
       /\ IsInjective(d.todo) /\ IsInjective(d.kept)
       /\ ToSet(d.todo) \cap ToSet(d.kept) = {}
       /\ \A e \in Events : place[e] = "drained" <=> e \in ToSet(d.todo) \cup ToSet(d.kept)

\* A chat is locked by the one event that owns its guard.
Owns(p) == p \in {"held", "locked", "leaked"}
Guarded ==
  /\ \A e, f \in Events : Owns(place[e]) /\ Owns(place[f]) /\ chat[e] = chat[f] => e = f
  /\ \A c \in Chats : c \in locked <=> \E e \in Events : chat[e] = c /\ Owns(place[e])

Inv == Typed /\ Phased /\ Lists(pending, "queued") /\ OneDrainer /\ Batched /\ Guarded
-----------------------------------------------------------------------------
(***************************************************************************)
(* Sequences without repetitions.                                          *)
(***************************************************************************)
\* Both notions by index.
LEMMA ByIndex ==
  ASSUME NEW S, NEW s \in Seq(S)
  PROVE  /\ \A x : x \in ToSet(s) <=> \E i \in 1 .. Len(s) : s[i] = x
         /\ IsInjective(s) <=> \A i, j \in 1 .. Len(s) : s[i] = s[j] => i = j
         /\ ToSet(s) \subseteq S
<1>1. DOMAIN s = 1 .. Len(s)
  OBVIOUS
<1>2. \A i \in 1 .. Len(s) : s[i] \in S
  OBVIOUS
<1>. QED  BY <1>1, <1>2 DEF ToSet, IsInjective

LEMMA EmptyList == IsInjective(<<>>) /\ ToSet(<<>>) = {}
BY DEF IsInjective, ToSet

LEMMA AppendList ==
  ASSUME NEW S, NEW s \in Seq(S), NEW e \in S
  PROVE  /\ Append(s, e) \in Seq(S)
         /\ ToSet(Append(s, e)) = ToSet(s) \cup {e}
         /\ IsInjective(s) /\ e \notin ToSet(s) => IsInjective(Append(s, e))
<1>. DEFINE t == Append(s, e)
<1>1. /\ t \in Seq(S) /\ Len(t) = Len(s) + 1 /\ Len(s) \in Nat
      /\ \A i \in 1 .. Len(t) : t[i] = IF i = Len(s) + 1 THEN e ELSE s[i]
  OBVIOUS
<1>. HIDE DEF t
<1>2. ASSUME NEW x PROVE x \in ToSet(t) <=> x \in ToSet(s) \cup {e}
  <2>1. x \in ToSet(t) => x \in ToSet(s) \/ x = e
    BY <1>1, ByIndex
  <2>2. ASSUME x \in ToSet(s) PROVE x \in ToSet(t)
    <3>1. PICK i \in 1 .. Len(s) : s[i] = x
      BY <2>2, ByIndex
    <3>2. i \in 1 .. Len(t) /\ t[i] = x
      BY <1>1, <3>1
    <3>. QED  BY <1>1, <3>2, ByIndex
  <2>3. e \in ToSet(t)
    <3>1. Len(t) \in 1 .. Len(t) /\ t[Len(t)] = e
      BY <1>1
    <3>. QED  BY <1>1, <3>1, ByIndex
  <2>. QED  BY <2>1, <2>2, <2>3
<1>3. IsInjective(s) /\ e \notin ToSet(s) => IsInjective(t)
  <2>. SUFFICES ASSUME IsInjective(s), e \notin ToSet(s),
                       NEW i \in 1 .. Len(t), NEW j \in 1 .. Len(t), t[i] = t[j]
                PROVE  i = j
    BY <1>1, ByIndex
  <2>1. \A k \in 1 .. Len(s) : s[k] # e
    BY ByIndex
  <2>2. \A k, l \in 1 .. Len(s) : s[k] = s[l] => k = l
    BY ByIndex
  <2>. QED  BY <1>1, <2>1, <2>2
<1>. QED  BY <1>1, <1>2, <1>3 DEF t

LEMMA TailList ==
  ASSUME NEW S, NEW s \in Seq(S), s # <<>>
  PROVE  /\ Head(s) \in S /\ Tail(s) \in Seq(S)
         /\ ToSet(s) = ToSet(Tail(s)) \cup {Head(s)}
         /\ IsInjective(s) => IsInjective(Tail(s)) /\ Head(s) \notin ToSet(Tail(s))
<1>. DEFINE t == Tail(s)
<1>1. /\ t \in Seq(S) /\ Len(s) \in Nat \ {0} /\ Len(t) = Len(s) - 1
      /\ Head(s) = s[1] /\ Head(s) \in S
      /\ \A i \in 1 .. Len(t) : t[i] = s[i + 1]
  OBVIOUS
<1>. HIDE DEF t
<1>2. ASSUME NEW x PROVE x \in ToSet(s) <=> x \in ToSet(t) \cup {Head(s)}
  <2>1. ASSUME x \in ToSet(s) PROVE x \in ToSet(t) \/ x = Head(s)
    <3>1. PICK i \in 1 .. Len(s) : s[i] = x
      BY <2>1, ByIndex
    <3>2. i # 1 => i - 1 \in 1 .. Len(t) /\ t[i - 1] = x
      BY <1>1, <3>1
    <3>. QED  BY <1>1, <3>1, <3>2, ByIndex
  <2>2. ASSUME x \in ToSet(t) PROVE x \in ToSet(s)
    <3>1. PICK i \in 1 .. Len(t) : t[i] = x
      BY <1>1, <2>2, ByIndex
    <3>2. i + 1 \in 1 .. Len(s) /\ s[i + 1] = x
      BY <1>1, <3>1
    <3>. QED  BY <3>2, ByIndex
  <2>3. Head(s) \in ToSet(s)
    <3>1. 1 \in 1 .. Len(s)
      BY <1>1
    <3>. QED  BY <1>1, <3>1, ByIndex
  <2>. QED  BY <2>1, <2>2, <2>3
<1>3. ASSUME IsInjective(s) PROVE IsInjective(t) /\ Head(s) \notin ToSet(t)
  <2>1. \A i, j \in 1 .. Len(s) : s[i] = s[j] => i = j
    BY <1>3, ByIndex
  <2>2. \A i, j \in 1 .. Len(t) : t[i] = t[j] => i = j
    <3>. TAKE i, j \in 1 .. Len(t)
    <3>1. i + 1 \in 1 .. Len(s) /\ j + 1 \in 1 .. Len(s)
      BY <1>1
    <3>. QED  BY <1>1, <2>1, <3>1
  <2>3. \A i \in 1 .. Len(t) : t[i] # Head(s)
    <3>. TAKE i \in 1 .. Len(t)
    <3>1. i + 1 \in 1 .. Len(s) /\ 1 \in 1 .. Len(s)
      BY <1>1
    <3>. QED  BY <1>1, <2>1, <3>1
  <2>. QED  BY <1>1, <2>2, <2>3, ByIndex
<1>. QED  BY <1>1, <1>2, <1>3 DEF t

LEMMA ConcatList ==
  ASSUME NEW S, NEW s \in Seq(S), NEW t \in Seq(S)
  PROVE  /\ s \o t \in Seq(S)
         /\ ToSet(s \o t) = ToSet(s) \cup ToSet(t)
         /\ IsInjective(s) /\ IsInjective(t) /\ ToSet(s) \cap ToSet(t) = {}
              => IsInjective(s \o t)
<1>. DEFINE u == s \o t
<1>1. /\ u \in Seq(S) /\ Len(u) = Len(s) + Len(t)
      /\ Len(s) \in Nat /\ Len(t) \in Nat
      /\ \A i \in 1 .. Len(u) : u[i] = IF i <= Len(s) THEN s[i] ELSE t[i - Len(s)]
  OBVIOUS
<1>. HIDE DEF u
<1>2. ASSUME NEW x PROVE x \in ToSet(u) <=> x \in ToSet(s) \cup ToSet(t)
  <2>1. ASSUME x \in ToSet(u) PROVE x \in ToSet(s) \/ x \in ToSet(t)
    <3>1. PICK i \in 1 .. Len(u) : u[i] = x
      BY <1>1, <2>1, ByIndex
    <3>2. CASE i <= Len(s)
      <4>1. i \in 1 .. Len(s) /\ s[i] = x
        BY <1>1, <3>1, <3>2
      <4>. QED  BY <4>1, ByIndex
    <3>3. CASE i > Len(s)
      <4>1. i - Len(s) \in 1 .. Len(t) /\ t[i - Len(s)] = x
        BY <1>1, <3>1, <3>3
      <4>. QED  BY <4>1, ByIndex
    <3>. QED  BY <1>1, <3>2, <3>3
  <2>2. ASSUME x \in ToSet(s) PROVE x \in ToSet(u)
    <3>1. PICK i \in 1 .. Len(s) : s[i] = x
      BY <2>2, ByIndex
    <3>2. i \in 1 .. Len(u) /\ u[i] = x
      BY <1>1, <3>1
    <3>. QED  BY <1>1, <3>2, ByIndex
  <2>3. ASSUME x \in ToSet(t) PROVE x \in ToSet(u)
    <3>1. PICK i \in 1 .. Len(t) : t[i] = x
      BY <2>3, ByIndex
    <3>2. /\ i + Len(s) \in 1 .. Len(u)
          /\ ~(i + Len(s) <= Len(s)) /\ (i + Len(s)) - Len(s) = i
      BY <1>1
    <3>3. u[i + Len(s)] = t[(i + Len(s)) - Len(s)]
      BY <1>1, <3>2
    <3>4. u[i + Len(s)] = x
      BY <3>1, <3>2, <3>3
    <3>. QED  BY <1>1, <3>2, <3>4, ByIndex
  <2>. QED  BY <2>1, <2>2, <2>3
<1>3. ASSUME IsInjective(s), IsInjective(t), ToSet(s) \cap ToSet(t) = {}
      PROVE  IsInjective(u)
  <2>. SUFFICES ASSUME NEW i \in 1 .. Len(u), NEW j \in 1 .. Len(u), u[i] = u[j]
                PROVE  i = j
    BY <1>1, ByIndex
  <2>1. \A k, l \in 1 .. Len(s) : s[k] = s[l] => k = l
    BY <1>3, ByIndex
  <2>2. \A k, l \in 1 .. Len(t) : t[k] = t[l] => k = l
    BY <1>3, ByIndex
  <2>3. \A k \in 1 .. Len(s), l \in 1 .. Len(t) : s[k] # t[l]
    BY <1>3, ByIndex
  <2>4. \A k \in 1 .. Len(u) :
          /\ k > Len(s) => k - Len(s) \in 1 .. Len(t) /\ u[k] = t[k - Len(s)]
          /\ k <= Len(s) => k \in 1 .. Len(s) /\ u[k] = s[k]
    BY <1>1
  <2>5. CASE i <= Len(s) /\ j <= Len(s)
    BY <2>1, <2>4, <2>5
  <2>6. CASE i > Len(s) /\ j > Len(s)
    <3>1. i - Len(s) = j - Len(s)
      BY <2>2, <2>4, <2>6
    <3>. QED  BY <1>1, <3>1
  <2>7. CASE i <= Len(s) /\ j > Len(s)
    BY <2>3, <2>4, <2>7
  <2>8. CASE i > Len(s) /\ j <= Len(s)
    BY <2>3, <2>4, <2>8
  <2>. QED  BY <1>1, <2>5, <2>6, <2>7, <2>8
<1>. QED  BY <1>1, <1>2, <1>3 DEF u

\* What is left of a sequence, by index.
LEMMA RemoveByIndex ==
  ASSUME NEW S, NEW s \in Seq(S), NEW i \in 1 .. Len(s)
  PROVE  LET t == RemoveAt(s, i) IN
         /\ t \in Seq(S) /\ Len(s) \in Nat /\ Len(t) = Len(s) - 1
         /\ \A k \in 1 .. Len(t) : t[k] = IF k < i THEN s[k] ELSE s[k + 1]
<1>. DEFINE t == RemoveAt(s, i)
<1>. DEFINE a == SubSeq(s, 1, i - 1)
            b == SubSeq(s, i + 1, Len(s))
<1>1. /\ a \in Seq(S) /\ Len(a) = i - 1
      /\ \A k \in 1 .. (i - 1) : a[k] = s[k]
  OBVIOUS
<1>2. /\ b \in Seq(S) /\ Len(b) = Len(s) - i /\ Len(s) \in Nat
      /\ \A k \in 1 .. (Len(s) - i) : b[k] = s[k + i]
  OBVIOUS
<1>3. t = a \o b
  BY DEF RemoveAt
<1>. HIDE DEF a, b, t
<1>4. /\ a \o b \in Seq(S) /\ Len(a \o b) = Len(a) + Len(b)
      /\ \A k \in 1 .. (Len(a) + Len(b)) :
           (a \o b)[k] = IF k <= Len(a) THEN a[k] ELSE b[k - Len(a)]
  BY <1>1, <1>2, ConcatProperties
<1>5. Len(t) = Len(s) - 1 /\ Len(a) + Len(b) = Len(s) - 1
  BY <1>1, <1>2, <1>3, <1>4
<1>6. \A k \in 1 .. Len(t) : k < i => t[k] = s[k]
  <2>. TAKE k \in 1 .. Len(t)
  <2>. HAVE k < i
  <2>1. k \in 1 .. (i - 1) /\ k <= Len(a) /\ k \in 1 .. (Len(a) + Len(b))
    BY <1>1, <1>5
  <2>. QED  BY <1>1, <1>3, <1>4, <2>1
<1>7. \A k \in 1 .. Len(t) : k >= i => t[k] = s[k + 1]
  <2>. TAKE k \in 1 .. Len(t)
  <2>. HAVE k >= i
  <2>1. /\ k - Len(a) \in 1 .. (Len(s) - i) /\ ~(k <= Len(a))
        /\ k \in 1 .. (Len(a) + Len(b)) /\ (k - Len(a)) + i = k + 1
    BY <1>1, <1>2, <1>5
  <2>2. t[k] = b[k - Len(a)]
    BY <1>3, <1>4, <2>1
  <2>3. b[k - Len(a)] = s[(k - Len(a)) + i]
    BY <1>2, <2>1
  <2>. QED  BY <2>1, <2>2, <2>3
<1>8. /\ t \in Seq(S) /\ Len(s) \in Nat /\ Len(t) = Len(s) - 1
      /\ \A k \in 1 .. Len(t) : t[k] = IF k < i THEN s[k] ELSE s[k + 1]
  BY <1>2, <1>3, <1>4, <1>5, <1>6, <1>7
<1>. QED  BY <1>8 DEF t

LEMMA RemoveList ==
  ASSUME NEW S, NEW s \in Seq(S), NEW i \in 1 .. Len(s), IsInjective(s)
  PROVE  /\ RemoveAt(s, i) \in Seq(S)
         /\ ToSet(RemoveAt(s, i)) = ToSet(s) \ {s[i]}
         /\ IsInjective(RemoveAt(s, i))
<1>. DEFINE t == RemoveAt(s, i)
<1>1. /\ t \in Seq(S) /\ Len(s) \in Nat /\ Len(t) = Len(s) - 1
      /\ \A k \in 1 .. Len(t) : t[k] = IF k < i THEN s[k] ELSE s[k + 1]
  BY RemoveByIndex
<1>. HIDE DEF t
<1>2. \A k, l \in 1 .. Len(s) : s[k] = s[l] => k = l
  BY ByIndex
<1>3. ASSUME NEW x PROVE x \in ToSet(t) <=> x \in ToSet(s) \ {s[i]}
  <2>1. ASSUME x \in ToSet(t) PROVE x \in ToSet(s) /\ x # s[i]
    <3>1. PICK k \in 1 .. Len(t) : t[k] = x
      BY <1>1, <2>1, ByIndex
    <3>2. PICK l \in 1 .. Len(s) : l # i /\ s[l] = x
      BY <1>1, <3>1
    <3>. QED  BY <1>2, <3>2, ByIndex
  <2>2. ASSUME x \in ToSet(s), x # s[i] PROVE x \in ToSet(t)
    <3>1. PICK l \in 1 .. Len(s) : s[l] = x
      BY <2>2, ByIndex
    <3>2. l < i => l \in 1 .. Len(t) /\ t[l] = x
      BY <1>1, <3>1
    <3>3. l > i => l - 1 \in 1 .. Len(t) /\ t[l - 1] = x
      BY <1>1, <3>1
    <3>4. l # i
      BY <2>2, <3>1
    <3>. QED  BY <1>1, <3>2, <3>3, <3>4, ByIndex
  <2>. QED  BY <2>1, <2>2
<1>4. IsInjective(t)
  <2>1. \A k, l \in 1 .. Len(t) : t[k] = t[l] => k = l
    <3>. TAKE k, l \in 1 .. Len(t)
    <3>1. {k, l, k + 1, l + 1} \subseteq 1 .. Len(s)
      BY <1>1
    <3>. QED  BY <1>1, <1>2, <3>1
  <2>. QED  BY <1>1, <2>1, ByIndex
<1>. QED  BY <1>1, <1>3, <1>4 DEF t
-----------------------------------------------------------------------------
(***************************************************************************)
(* What the actions have in common.                                        *)
(***************************************************************************)
\* An event moves between places that are not queues.
LEMMA QueuesKept ==
  ASSUME Inv, NEW e \in Events, NEW p \in Places,
         place' = [place EXCEPT ![e] = p],
         place[e] \notin {"queued", "drained"}, p \notin {"queued", "drained"},
         UNCHANGED <<pending, scheduled, drainers>>
  PROVE  Lists(pending, "queued")' /\ OneDrainer' /\ Batched'
<1>1. \A f \in Events : /\ place'[f] = "queued" <=> place[f] = "queued"
                        /\ place'[f] = "drained" <=> place[f] = "drained"
  BY DEF Inv, Typed
<1>2. Lists(pending, "queued")'
  BY <1>1 DEF Inv, Lists
<1>3. OneDrainer'
  BY DEF Inv, OneDrainer
<1>4. Batched'
  BY <1>1 DEF Inv, Batched
<1>. QED  BY <1>2, <1>3, <1>4

LEMMA GuardsKept ==
  ASSUME Inv, UNCHANGED <<chat, locked>>,
         \A f \in Events : Owns(place'[f]) <=> Owns(place[f])
  PROVE  Guarded'
BY DEF Inv, Guarded

LEMMA GuardTaken ==
  ASSUME Inv, NEW e \in Events, NEW p \in Places,
         place' = [place EXCEPT ![e] = p], Owns(p), chat' = chat,
         chat[e] \notin locked, locked' = locked \cup {chat[e]}
  PROVE  Guarded'
<1>1. \A f \in Events : Owns(place'[f]) <=> f = e \/ Owns(place[f])
  BY DEF Inv, Typed
<1>2. \A f \in Events : chat[f] = chat[e] => ~Owns(place[f])
  BY DEF Inv, Typed, Guarded
<1>. QED  BY <1>1, <1>2 DEF Inv, Guarded

LEMMA GuardDropped ==
  ASSUME Inv, NEW e \in Events, NEW p \in Places,
         place' = [place EXCEPT ![e] = p], Owns(place[e]), ~Owns(p), chat' = chat,
         locked' = locked \ {chat[e]}
  PROVE  Guarded'
<1>1. \A f \in Events : Owns(place'[f]) <=> f # e /\ Owns(place[f])
  BY DEF Inv, Typed
<1>2. \A f \in Events : chat[f] = chat[e] /\ Owns(place[f]) => f = e
  BY DEF Inv, Guarded
<1>. QED  BY <1>1, <1>2 DEF Inv, Guarded

\* A drainer that goes on is still the only one.
LEMMA DrainerAlone ==
  ASSUME Inv, NEW d \in drainers
  PROVE  /\ drainers = {d} /\ scheduled /\ d \in Drainer
         /\ \A rec : Becomes(d, rec) => drainers' = {rec}
BY DEF Inv, OneDrainer, Typed, Becomes

LEMMA InitInv == Init => Inv
<1>. SUFFICES ASSUME Init PROVE Inv
  OBVIOUS
<1>. USE QueueAssumption DEF Init
<1>1. Typed
  <2>1. arrived \in 0 .. MaxEvents /\ pending \in Seq(Events) /\ drainers \subseteq Drainer
    OBVIOUS
  <2>2. call \in [Events -> Calls] /\ place \in [Events -> Places]
    BY DEF Calls, Places
  <2>. QED  BY <2>1, <2>2 DEF Typed
<1>2. Phased
  BY DEF Phased
<1>3. Lists(pending, "queued")
  BY EmptyList DEF Lists
<1>4. OneDrainer /\ Batched
  BY DEF OneDrainer, Batched
<1>5. Guarded
  BY DEF Guarded, Owns
<1>. QED  BY <1>1, <1>2, <1>3, <1>4, <1>5 DEF Inv
-----------------------------------------------------------------------------
(***************************************************************************)
(* One lemma per action.                                                   *)
(***************************************************************************)
LEMMA TryProcessStep ==
  ASSUME Inv, TryProcess
  PROVE  Inv'
<1>. DEFINE e == arrived + 1
<1>1. /\ e \in Events /\ arrived' = e /\ arrived' \in 0 .. MaxEvents
      /\ call[e] = "none" /\ place[e] = "none"
  BY QueueAssumption DEF Inv, Typed, Phased, TryProcess, Events
<1>2. UNCHANGED <<chat, pending, scheduled, drainers>>
  BY DEF TryProcess
<1>3. CASE chat[e] \in locked
  <2>1. /\ call' = [call EXCEPT ![e] = "push"] /\ locked' = locked
        /\ place' = [place EXCEPT ![e] = "caller"]
    BY <1>3 DEF TryProcess, Advance, Move
  <2>2. Typed'
    BY <1>1, <1>2, <2>1 DEF Inv, Typed, Calls, Places
  <2>3. Phased'
    BY <1>1, <2>1 DEF Inv, Phased, Typed, Events
  <2>4. Lists(pending, "queued")' /\ OneDrainer' /\ Batched'
    BY <1>1, <1>2, <2>1, QueuesKept DEF Places
  <2>5. Guarded'
    BY <1>1, <1>2, <2>1, GuardsKept DEF Inv, Typed, Owns
  <2>. QED  BY <2>2, <2>3, <2>4, <2>5 DEF Inv
<1>4. CASE chat[e] \notin locked
  <2>1. /\ call' = [call EXCEPT ![e] = "process"] /\ locked' = locked \cup {chat[e]}
        /\ place' = [place EXCEPT ![e] = "held"]
    BY <1>4 DEF TryProcess, Advance, Move
  <2>2. Typed'
    BY <1>1, <1>2, <2>1 DEF Inv, Typed, Calls, Places
  <2>3. Phased'
    BY <1>1, <2>1 DEF Inv, Phased, Typed, Events
  <2>4. Lists(pending, "queued")' /\ OneDrainer' /\ Batched'
    BY <1>1, <1>2, <2>1, QueuesKept DEF Places
  <2>5. Guarded'
    BY <1>1, <1>2, <1>4, <2>1, GuardTaken DEF Owns, Places
  <2>. QED  BY <2>2, <2>3, <2>4, <2>5 DEF Inv
<1>. QED  BY <1>3, <1>4

LEMMA PushStep ==
  ASSUME Inv, NEW e \in Events, Push(e)
  PROVE  Inv'
<1>. DEFINE queue == Append(pending, e)
<1>1. /\ call[e] = "push" /\ place[e] = "caller" /\ e \notin ToSet(pending)
      /\ UNCHANGED <<arrived, chat, locked, scheduled, drainers>>
  BY DEF Inv, Phased, Lists, Push
<1>2. /\ queue \in Seq(Events) /\ IsInjective(queue) /\ queue # <<>>
      /\ ToSet(queue) = ToSet(pending) \cup {e}
  <2>1. pending \in Seq(Events) /\ IsInjective(pending)
    BY DEF Inv, Typed, Lists
  <2>2. queue # <<>>
    <3>1. Len(queue) = Len(pending) + 1 /\ Len(pending) \in Nat
      BY <2>1
    <3>2. Len(<<>>) = 0
      OBVIOUS
    <3>. QED  BY <3>1, <3>2
  <2>. QED  BY <1>1, <2>1, <2>2, AppendList
<1>3. \A f \in Events : place[f] = "queued" <=> f \in ToSet(pending)
  BY DEF Inv, Lists
<1>. HIDE DEF queue
<1>4. CASE Len(queue) > MaxQueueDepth
  <2>. DEFINE h == Head(queue)
  <2>1. /\ pending' = Tail(queue)
        /\ place' = [place EXCEPT ![e] = "queued", ![h] = "evicted"]
        /\ call' = [call EXCEPT ![e] = "returned"]
    BY <1>4 DEF Push, Advance, queue
  <2>2. /\ h \in Events /\ Tail(queue) \in Seq(Events)
        /\ IsInjective(Tail(queue)) /\ h \notin ToSet(Tail(queue))
        /\ ToSet(queue) = ToSet(Tail(queue)) \cup {h}
    BY <1>2, TailList
  <2>. HIDE DEF h
  <2>3. \A f \in Events :
          /\ f = h => place'[f] = "evicted"
          /\ f # h /\ f = e => place'[f] = "queued"
          /\ f # h /\ f # e => place'[f] = place[f]
    BY <2>1, <2>2 DEF Inv, Typed
  <2>4. h = e \/ place[h] = "queued"
    BY <1>2, <1>3, <2>2
  <2>5. Typed'
    BY <1>1, <2>1, <2>2 DEF Inv, Typed, Calls, Places
  <2>6. Phased'
    BY <1>1, <2>1, <2>3, <2>4 DEF Inv, Phased, Typed
  <2>7. Lists(pending, "queued")'
    BY <1>2, <1>3, <2>1, <2>2, <2>3 DEF Lists
  <2>8. \A f \in Events : place'[f] = "drained" <=> place[f] = "drained"
    BY <1>1, <2>3, <2>4
  <2>9. OneDrainer' /\ Batched'
    BY <1>1, <2>8 DEF Inv, OneDrainer, Batched
  <2>10. Guarded'
    BY <1>1, <2>3, <2>4, GuardsKept DEF Owns
  <2>. QED  BY <2>5, <2>6, <2>7, <2>9, <2>10 DEF Inv
<1>5. CASE ~(Len(queue) > MaxQueueDepth)
  <2>1. /\ pending' = queue
        /\ place' = [place EXCEPT ![e] = "queued"]
        /\ call' = [call EXCEPT ![e] = IF hasHandler THEN "schedule" ELSE "returned"]
    BY <1>5 DEF Push, Advance, Move, queue
  <2>2. \A f \in Events : place'[f] = IF f = e THEN "queued" ELSE place[f]
    BY <2>1 DEF Inv, Typed
  <2>3. Typed'
    BY <1>1, <1>2, <2>1 DEF Inv, Typed, Calls, Places
  <2>4. Phased'
    BY <1>1, <2>1, <2>2 DEF Inv, Phased, Typed
  <2>5. Lists(pending, "queued")'
    BY <1>2, <1>3, <2>1, <2>2 DEF Lists
  <2>6. OneDrainer' /\ Batched'
    BY <1>1, <2>2 DEF Inv, OneDrainer, Batched
  <2>7. Guarded'
    BY <1>1, <2>2, GuardsKept DEF Owns
  <2>. QED  BY <2>3, <2>4, <2>5, <2>6, <2>7 DEF Inv
<1>. QED  BY <1>4, <1>5

LEMMA ScheduleStep ==
  ASSUME Inv, NEW e \in Events, Schedule(e)
  PROVE  Inv'
<1>1. /\ call[e] = "schedule" /\ call' = [call EXCEPT ![e] = "returned"]
      /\ scheduled' = TRUE /\ UNCHANGED <<arrived, chat, place, locked, pending>>
      /\ drainers' = IF scheduled THEN drainers ELSE drainers \cup {NewDrainer}
  BY DEF Schedule, Advance, SpawnDrainer
<1>2. /\ NewDrainer \in Drainer /\ NewDrainer.pc = "sleep"
      /\ NewDrainer.todo = <<>> /\ NewDrainer.kept = <<>>
  BY DEF NewDrainer, Drainer
<1>3. ~scheduled => drainers = {} /\ drainers' = {NewDrainer}
  BY <1>1 DEF Inv, OneDrainer
<1>4. scheduled => drainers # {} /\ drainers' = drainers
  BY <1>1 DEF Inv, OneDrainer
<1>5. Typed'
  <2>1. drainers' \subseteq Drainer
    BY <1>2, <1>3, <1>4 DEF Inv, Typed
  <2>2. call' \in [Events -> Calls] /\ scheduled' \in BOOLEAN
    BY <1>1 DEF Inv, Typed, Calls
  <2>. QED  BY <1>1, <2>1, <2>2 DEF Inv, Typed
<1>6. Phased'
  BY <1>1 DEF Inv, Phased, Typed
<1>7. Lists(pending, "queued")'
  BY <1>1 DEF Inv, Lists
<1>8. OneDrainer'
  <2>1. CASE scheduled
    BY <1>1, <1>4, <2>1, Zenon DEF Inv, OneDrainer
  <2>2. CASE ~scheduled
    BY <1>1, <1>2, <1>3, <2>2, Zenon DEF OneDrainer
  <2>. QED  BY <2>1, <2>2
<1>9. Batched'
  <2>1. CASE scheduled
    BY <1>1, <1>4, <2>1, Zenon DEF Inv, Batched
  <2>2. CASE ~scheduled
    BY <1>1, <1>2, <1>3, <2>2, EmptyList DEF Inv, Batched
  <2>. QED  BY <2>1, <2>2
<1>10. Guarded'
  BY <1>1, GuardsKept
<1>. QED  BY <1>5, <1>6, <1>7, <1>8, <1>9, <1>10 DEF Inv

LEMMA ReleaseStep ==
  ASSUME Inv, NEW e \in Events, Release(e)
  PROVE  Inv'
<1>1. /\ call[e] = "process" /\ place[e] = "held"
      /\ call' = [call EXCEPT ![e] = IF hasHandler THEN "release" ELSE "returned"]
      /\ place' = [place EXCEPT ![e] = "done"] /\ locked' = locked \ {chat[e]}
      /\ UNCHANGED <<arrived, chat, pending, scheduled, drainers>>
  BY DEF Inv, Phased, Release, Advance, Move
<1>2. Typed'
  BY <1>1 DEF Inv, Typed, Calls, Places
<1>3. Phased'
  BY <1>1 DEF Inv, Phased, Typed
<1>4. Lists(pending, "queued")' /\ OneDrainer' /\ Batched'
  BY <1>1, QueuesKept DEF Places
<1>5. Guarded'
  BY <1>1, GuardDropped DEF Owns, Places
<1>. QED  BY <1>2, <1>3, <1>4, <1>5 DEF Inv

LEMMA HandedIndex ==
  ASSUME NEW e \in Events
  PROVE  SelectInSeq(pending, LAMBDA f : chat[f] = chat[e]) \in {0} \cup 1 .. Len(pending)
<1>. DEFINE i == SelectInSeq(pending, LAMBDA f : chat[f] = chat[e])
<1>. DEFINE I == {j \in 1 .. Len(pending) : chat[pending[j]] = chat[e]}
<1>1. i = IF I # {} THEN Min(I) ELSE 0
  BY DEF SelectInSeq
<1>2. ASSUME I # {} PROVE Min(I) \in I
  <2>1. \E x \in I : \A y \in I : x <= y
    <3>. HIDE DEF I
    <3>1. I \subseteq Nat
      BY DEF I
    <3>2. PICK x \in I : \A y \in I : ~(<<y, x>> \in OpToRel(<, Nat))
      BY <1>2, <3>1, NatLessThanWellFounded, WFMin
    <3>3. \A y \in I : ~(y < x)
      BY <3>1, <3>2 DEF OpToRel
    <3>. QED  BY <3>1, <3>3
  <2>. QED  BY <2>1 DEF Min
<1>. QED  BY <1>1, <1>2

LEMMA HandNextStep ==
  ASSUME Inv, NEW e \in Events, HandNext(e)
  PROVE  Inv'
<1>. DEFINE i == SelectInSeq(pending, LAMBDA f : chat[f] = chat[e])
<1>1. /\ call[e] = "release" /\ call' = [call EXCEPT ![e] = "returned"]
      /\ UNCHANGED <<arrived, chat, locked, scheduled, drainers>>
      /\ i = 0 => UNCHANGED <<pending, place>>
      /\ i # 0 => /\ pending' = RemoveAt(pending, i)
                  /\ place' = [place EXCEPT ![pending[i]] = "loose"]
  BY DEF HandNext, Advance, Move
<1>2. i = 0 \/ i \in 1 .. Len(pending)
  BY HandedIndex
<1>. HIDE DEF i
<1>3. CASE i = 0
  <2>1. Typed'
    BY <1>1, <1>3 DEF Inv, Typed, Calls
  <2>2. Phased'
    BY <1>1, <1>3 DEF Inv, Phased, Typed
  <2>3. Lists(pending, "queued")' /\ OneDrainer' /\ Batched'
    BY <1>1, <1>3 DEF Inv, Lists, OneDrainer, Batched
  <2>4. Guarded'
    BY <1>1, <1>3, GuardsKept
  <2>. QED  BY <2>1, <2>2, <2>3, <2>4 DEF Inv
<1>4. CASE i \in 1 .. Len(pending)
  <2>. DEFINE n == pending[i]
  <2>1. /\ pending' = RemoveAt(pending, i) /\ place' = [place EXCEPT ![n] = "loose"]
        /\ n \in Events /\ n \in ToSet(pending)
    <3>1. n \in Events /\ i # 0
      BY <1>4 DEF Inv, Typed
    <3>2. n \in ToSet(pending)
      BY <1>4, ByIndex DEF Inv, Typed
    <3>. QED  BY <1>1, <3>1, <3>2
  <2>2. /\ pending' \in Seq(Events) /\ IsInjective(pending')
        /\ ToSet(pending') = ToSet(pending) \ {n}
    BY <1>4, <2>1, RemoveList DEF Inv, Typed, Lists
  <2>3. place[n] = "queued" /\ \A f \in Events : place[f] = "queued" <=> f \in ToSet(pending)
    BY <2>1 DEF Inv, Lists
  <2>. HIDE DEF n
  <2>4. \A f \in Events : place'[f] = IF f = n THEN "loose" ELSE place[f]
    BY <2>1 DEF Inv, Typed
  <2>5. Typed'
    BY <1>1, <2>1, <2>2 DEF Inv, Typed, Calls, Places
  <2>6. Phased'
    BY <1>1, <2>3, <2>4 DEF Inv, Phased, Typed
  <2>7. Lists(pending, "queued")'
    BY <2>2, <2>3, <2>4 DEF Lists
  <2>8. OneDrainer' /\ Batched'
    BY <1>1, <2>3, <2>4 DEF Inv, OneDrainer, Batched
  <2>9. Guarded'
    BY <1>1, <2>3, <2>4, GuardsKept DEF Owns
  <2>. QED  BY <2>5, <2>6, <2>7, <2>8, <2>9 DEF Inv
<1>. QED  BY <1>2, <1>3, <1>4

LEMMA AbortStep ==
  ASSUME Inv, NEW e \in Events, Abort(e)
  PROVE  Inv'
<1>. DEFINE p == CASE call[e] = "push" -> "aborted"
                   [] call[e] = "process" -> "leaked"
                   [] call[e] = "release" -> place[e]
<1>1. /\ call[e] \in {"push", "process", "release"}
      /\ call' = [call EXCEPT ![e] = "returned"]
      /\ place' = [place EXCEPT ![e] = p]
      /\ UNCHANGED <<arrived, chat, locked, pending, scheduled, drainers>>
  BY DEF Abort, Advance, Move
<1>2. /\ call[e] = "push" => p = "aborted" /\ place[e] = "caller"
      /\ call[e] = "process" => p = "leaked" /\ place[e] = "held"
      /\ call[e] = "release" => p = place[e] /\ place[e] # "held"
      /\ p \in Places
  BY <1>1 DEF Inv, Phased, Typed, Places
<1>. HIDE DEF p
<1>3. \A f \in Events : place'[f] = IF f = e THEN p ELSE place[f]
  BY <1>1 DEF Inv, Typed
<1>4. \A f \in Events :
        /\ place'[f] = "queued" <=> place[f] = "queued"
        /\ place'[f] = "drained" <=> place[f] = "drained"
        /\ Owns(place'[f]) <=> Owns(place[f])
  BY <1>1, <1>2, <1>3 DEF Owns
<1>5. Typed'
  BY <1>1, <1>2 DEF Inv, Typed, Calls
<1>6. Phased'
  BY <1>1, <1>2, <1>3 DEF Inv, Phased, Typed
<1>7. Lists(pending, "queued")' /\ OneDrainer' /\ Batched'
  BY <1>1, <1>4 DEF Inv, Lists, OneDrainer, Batched
<1>8. Guarded'
  BY <1>1, <1>4, GuardsKept
<1>. QED  BY <1>5, <1>6, <1>7, <1>8 DEF Inv

\* The drainer takes the whole queue, sleeps on when there is none.
LEMMA DrainerPollStep ==
  ASSUME Inv, NEW d \in drainers, DrainerPoll(d)
  PROVE  Inv'
<1>1. /\ d.pc = "sleep" /\ d.todo = <<>> /\ d.kept = <<>>
      /\ drainers = {d} /\ scheduled /\ d \in Drainer
      /\ UNCHANGED <<arrived, chat, call, locked, scheduled>>
  BY DrainerAlone DEF DrainerPoll, Inv, OneDrainer
<1>2. \A e \in Events : place[e] # "drained"
  BY <1>1, EmptyList DEF Inv, Batched
<1>3. CASE pending = <<>>
  <2>. DEFINE rec == [d EXCEPT !.stale = TRUE]
  <2>1. drainers' = {rec} /\ UNCHANGED <<pending, place>>
    BY <1>3, DrainerAlone DEF DrainerPoll
  <2>2. rec \in Drainer /\ rec.todo = <<>> /\ rec.kept = <<>> /\ rec.pc = "sleep"
    BY <1>1 DEF Drainer
  <2>. HIDE DEF rec
  <2>3. Typed'
    BY <1>1, <2>1, <2>2 DEF Inv, Typed
  <2>4. Phased' /\ Lists(pending, "queued")'
    BY <1>1, <2>1 DEF Inv, Phased, Lists
  <2>5. OneDrainer'
    BY <1>1, <2>1, <2>2 DEF OneDrainer
  <2>6. Batched'
    BY <1>2, <2>1, <2>2, EmptyList DEF Batched
  <2>7. Guarded'
    BY <1>1, <2>1, GuardsKept
  <2>. QED  BY <2>3, <2>4, <2>5, <2>6, <2>7 DEF Inv
<1>4. CASE pending # <<>>
  <2>. DEFINE rec == [d EXCEPT !.pc = "retry", !.todo = pending]
  <2>1. /\ drainers' = {rec} /\ pending' = <<>>
        /\ place' = [e \in Events |->
                       IF e \in ToSet(pending) THEN "drained" ELSE place[e]]
    BY <1>4, DrainerAlone DEF DrainerPoll
  <2>2. rec \in Drainer /\ rec.todo = pending /\ rec.kept = <<>> /\ rec.pc = "retry"
    BY <1>1 DEF Drainer, Inv, Typed
  <2>. HIDE DEF rec
  <2>3. /\ IsInjective(pending)
        /\ \A e \in Events : place[e] = "queued" <=> e \in ToSet(pending)
    BY DEF Inv, Lists
  <2>4. Typed'
    <3>1. place' \in [Events -> Places] /\ pending' \in Seq(Events)
      BY <2>1 DEF Inv, Typed, Places
    <3>. QED  BY <1>1, <2>1, <2>2, <3>1 DEF Inv, Typed
  <2>5. Phased'
    BY <1>1, <2>1, <2>3 DEF Inv, Phased
  <2>6. Lists(pending, "queued")'
    BY <2>1, <2>3, EmptyList DEF Lists
  <2>7. OneDrainer'
    BY <1>1, <2>1, <2>2 DEF OneDrainer
  <2>8. Batched'
    BY <1>2, <2>1, <2>2, <2>3, EmptyList DEF Batched
  <2>9. Guarded'
    BY <1>1, <2>1, <2>3, GuardsKept DEF Owns
  <2>. QED  BY <2>4, <2>5, <2>6, <2>7, <2>8, <2>9 DEF Inv
<1>. QED  BY <1>3, <1>4

\* One event leaves the batch under its chat's guard, or is put aside.
LEMMA DrainerRetryStep ==
  ASSUME Inv, NEW d \in drainers, DrainerRetry(d)
  PROVE  Inv'
<1>. DEFINE e == Head(d.todo)
            rest == [d EXCEPT !.todo = Tail(d.todo)]
<1>1. /\ d.pc = "retry" /\ d.todo # <<>> /\ drainers = {d} /\ scheduled
      /\ d.todo \in Seq(Events) /\ d.kept \in Seq(Events) /\ d \in Drainer
      /\ UNCHANGED <<arrived, chat, call, pending, scheduled>>
  BY DrainerAlone DEF DrainerRetry, Drainer
<1>2. /\ IsInjective(d.todo) /\ IsInjective(d.kept)
      /\ ToSet(d.todo) \cap ToSet(d.kept) = {}
      /\ \A f \in Events : place[f] = "drained" <=> f \in ToSet(d.todo) \cup ToSet(d.kept)
  BY DEF Inv, Batched
<1>3. /\ e \in Events /\ Tail(d.todo) \in Seq(Events)
      /\ ToSet(d.todo) = ToSet(Tail(d.todo)) \cup {e}
      /\ IsInjective(Tail(d.todo)) /\ e \notin ToSet(Tail(d.todo))
  BY <1>1, <1>2, TailList
<1>4. place[e] = "drained" /\ e \notin ToSet(d.kept)
  BY <1>2, <1>3
<1>5. CASE chat[e] \in locked
  <2>. DEFINE rec == [rest EXCEPT !.kept = Append(d.kept, e)]
  <2>1. drainers' = {rec} /\ UNCHANGED <<locked, place>>
    BY <1>5, DrainerAlone DEF DrainerRetry
  <2>2. /\ Append(d.kept, e) \in Seq(Events) /\ IsInjective(Append(d.kept, e))
        /\ ToSet(Append(d.kept, e)) = ToSet(d.kept) \cup {e}
    BY <1>1, <1>2, <1>3, <1>4, AppendList
  <2>3. /\ rec \in Drainer /\ rec.pc = "retry" /\ rec.todo = Tail(d.todo)
        /\ rec.kept = Append(d.kept, e)
    BY <1>1, <1>3, <2>2 DEF Drainer
  <2>. HIDE DEF rec
  <2>4. Typed'
    BY <1>1, <2>1, <2>3 DEF Inv, Typed
  <2>5. Phased' /\ Lists(pending, "queued")'
    BY <1>1, <2>1 DEF Inv, Phased, Lists
  <2>6. OneDrainer'
    BY <1>1, <2>1, <2>3 DEF OneDrainer
  <2>7. Batched'
    <3>1. ToSet(rec.todo) \cup ToSet(rec.kept) = ToSet(d.todo) \cup ToSet(d.kept)
      BY <1>3, <2>2, <2>3
    <3>2. ToSet(rec.todo) \cap ToSet(rec.kept) = {}
      BY <1>2, <1>3, <2>2, <2>3
    <3>. QED  BY <1>2, <1>3, <2>1, <2>2, <2>3, <3>1, <3>2 DEF Batched
  <2>8. Guarded'
    BY <1>1, <2>1, GuardsKept
  <2>. QED  BY <2>4, <2>5, <2>6, <2>7, <2>8 DEF Inv
<1>6. CASE chat[e] \notin locked
  <2>. DEFINE rec == [rest EXCEPT !.any = TRUE]
  <2>1. /\ drainers' = {rec} /\ locked' = locked \cup {chat[e]}
        /\ place' = [place EXCEPT ![e] = "locked"]
    BY <1>6, DrainerAlone DEF DrainerRetry, Move
  <2>2. /\ rec \in Drainer /\ rec.pc = "retry" /\ rec.todo = Tail(d.todo)
        /\ rec.kept = d.kept
    BY <1>1, <1>3 DEF Drainer
  <2>. HIDE DEF rec, e
  <2>3. \A f \in Events : place'[f] = IF f = e THEN "locked" ELSE place[f]
    BY <2>1 DEF Inv, Typed
  <2>4. Typed'
    BY <1>1, <1>3, <2>1, <2>2 DEF Inv, Typed, Places
  <2>5. Phased' /\ Lists(pending, "queued")'
    BY <1>1, <1>4, <2>3 DEF Inv, Phased, Lists
  <2>6. OneDrainer'
    BY <1>1, <2>1, <2>2 DEF OneDrainer
  <2>7. Batched'
    <3>1. \A f \in Events : place'[f] = "drained"
                              <=> f \in ToSet(Tail(d.todo)) \cup ToSet(d.kept)
      BY <1>2, <1>3, <1>4, <2>3
    <3>2. ToSet(Tail(d.todo)) \cap ToSet(d.kept) = {}
      BY <1>2, <1>3
    <3>. QED  BY <1>2, <1>3, <2>1, <2>2, <3>1, <3>2 DEF Batched
  <2>8. Guarded'
    BY <1>1, <1>3, <1>6, <2>1, GuardTaken DEF Owns, Places
  <2>. QED  BY <2>4, <2>5, <2>6, <2>7, <2>8 DEF Inv
<1>. QED  BY <1>5, <1>6

\* What was put aside returns in front of the queue.
LEMMA DrainerKeepStep ==
  ASSUME Inv, NEW d \in drainers, DrainerKeep(d)
  PROVE  Inv'
<1>. DEFINE rec == [NewDrainer EXCEPT !.stale = ~d.any]
<1>1. /\ d.todo = <<>> /\ drainers' = {rec} /\ scheduled
      /\ pending' = d.kept \o pending
      /\ place' = [e \in Events |-> IF e \in ToSet(d.kept) THEN "queued" ELSE place[e]]
      /\ UNCHANGED <<arrived, chat, call, locked, scheduled>>
  BY DrainerAlone DEF DrainerKeep, KeepInFront
<1>2. /\ pending \in Seq(Events) /\ d.kept \in Seq(Events)
      /\ IsInjective(pending) /\ IsInjective(d.kept)
      /\ \A e \in Events : place[e] = "queued" <=> e \in ToSet(pending)
      /\ \A e \in Events : place[e] = "drained" <=> e \in ToSet(d.kept)
  <2>1. d \in Drainer
    BY DrainerAlone
  <2>. QED  BY <1>1, <2>1, EmptyList DEF Inv, Typed, Lists, Batched, Drainer
<1>3. ToSet(d.kept) \cap ToSet(pending) = {}
  BY <1>2, ByIndex
<1>4. /\ pending' \in Seq(Events) /\ IsInjective(pending')
      /\ ToSet(pending') = ToSet(d.kept) \cup ToSet(pending)
  BY <1>1, <1>2, <1>3, ConcatList
<1>5. rec \in Drainer /\ rec.pc = "sleep" /\ rec.todo = <<>> /\ rec.kept = <<>>
  <2>1. d.any \in BOOLEAN
    BY DrainerAlone DEF Drainer
  <2>2. PICK b \in BOOLEAN : b = ~d.any
    BY <2>1
  <2>3. rec = [NewDrainer EXCEPT !.stale = b]
    BY <2>2
  <2>4. NewDrainer \in Drainer /\ NewDrainer.pc = "sleep"
        /\ NewDrainer.todo = <<>> /\ NewDrainer.kept = <<>>
    BY DEF NewDrainer, Drainer
  <2>. HIDE DEF rec
  <2>. QED  BY <2>3, <2>4 DEF Drainer
<1>. HIDE DEF rec
<1>6. Typed'
  <2>1. place' \in [Events -> Places]
    BY <1>1 DEF Inv, Typed, Places
  <2>. QED  BY <1>1, <1>4, <1>5, <2>1 DEF Inv, Typed
<1>7. Phased'
  BY <1>1, <1>2 DEF Inv, Phased
<1>8. Lists(pending, "queued")'
  BY <1>1, <1>2, <1>4 DEF Lists
<1>9. OneDrainer'
  BY <1>1, <1>5 DEF OneDrainer
<1>10. Batched'
  BY <1>1, <1>2, <1>5, EmptyList DEF Batched
<1>11. Guarded'
  BY <1>1, <1>2, GuardsKept DEF Owns
<1>. QED  BY <1>6, <1>7, <1>8, <1>9, <1>10, <1>11 DEF Inv

LEMMA DrainerExpireStep ==
  ASSUME Inv, NEW d \in drainers, DrainerExpire(d)
  PROVE  Inv'
<1>. DEFINE rec == [d EXCEPT !.pc = "stopping"]
<1>1. /\ d.pc = "sleep" /\ d.todo = <<>> /\ d.kept = <<>> /\ scheduled
      /\ d \in Drainer /\ drainers' = {rec} /\ drainers = {d}
      /\ UNCHANGED <<arrived, chat, call, place, locked, pending, scheduled>>
  BY DrainerAlone DEF DrainerExpire, Inv, OneDrainer
<1>2. rec \in Drainer /\ rec.todo = <<>> /\ rec.kept = <<>>
  BY <1>1 DEF Drainer
<1>. HIDE DEF rec
<1>3. Typed' /\ Phased' /\ Lists(pending, "queued")'
  BY <1>1, <1>2 DEF Inv, Typed, Phased, Lists
<1>4. OneDrainer'
  BY <1>1, <1>2 DEF OneDrainer
<1>5. Batched'
  BY <1>1, <1>2, EmptyList DEF Inv, Batched
<1>6. Guarded'
  BY <1>1, GuardsKept
<1>. QED  BY <1>3, <1>4, <1>5, <1>6 DEF Inv

\* A drainer that stops leaves no batch behind.
LEMMA DrainerStopStep ==
  ASSUME Inv, NEW d \in drainers, DrainerStop(d)
  PROVE  Inv'
<1>1. /\ d.todo = <<>> /\ d.kept = <<>> /\ drainers' = {} /\ ~scheduled'
      /\ scheduled' \in BOOLEAN
      /\ UNCHANGED <<arrived, chat, call, place, locked, pending>>
  BY DrainerAlone DEF DrainerStop, Inv, OneDrainer
<1>2. \A e \in Events : place[e] # "drained"
  BY <1>1, EmptyList DEF Inv, Batched
<1>3. Typed' /\ Phased' /\ Lists(pending, "queued")'
  BY <1>1 DEF Inv, Typed, Phased, Lists
<1>4. OneDrainer' /\ Batched'
  BY <1>1, <1>2 DEF OneDrainer, Batched
<1>5. Guarded'
  BY <1>1, GuardsKept
<1>. QED  BY <1>3, <1>4, <1>5 DEF Inv

LEMMA HandlerDoneStep ==
  ASSUME Inv, NEW e \in Events, HandlerDone(e)
  PROVE  Inv'
<1>1. /\ place[e] = "locked" /\ place' = [place EXCEPT ![e] = "done"]
      /\ locked' = locked \ {chat[e]}
      /\ UNCHANGED <<arrived, chat, call, pending, scheduled, drainers>>
  BY DEF HandlerDone, Move, DropGuard
<1>2. Typed'
  BY <1>1 DEF Inv, Typed, Places
<1>3. Phased'
  BY <1>1 DEF Inv, Phased, Typed
<1>4. Lists(pending, "queued")' /\ OneDrainer' /\ Batched'
  BY <1>1, QueuesKept DEF Places
<1>5. Guarded'
  BY <1>1, GuardDropped DEF Owns, Places
<1>. QED  BY <1>2, <1>3, <1>4, <1>5 DEF Inv

LEMMA LooseDoneStep ==
  ASSUME Inv, NEW e \in Events, LooseDone(e)
  PROVE  Inv'
<1>1. /\ place[e] = "loose" /\ place' = [place EXCEPT ![e] = "done"]
      /\ UNCHANGED <<arrived, chat, call, locked, pending, scheduled, drainers>>
  BY DEF LooseDone, Move, LeaveGuard
<1>2. Typed'
  BY <1>1 DEF Inv, Typed, Places
<1>3. Phased'
  BY <1>1 DEF Inv, Phased, Typed
<1>4. Lists(pending, "queued")' /\ OneDrainer' /\ Batched'
  BY <1>1, QueuesKept DEF Places
<1>5. Guarded'
  BY <1>1, GuardsKept DEF Inv, Typed, Owns
<1>. QED  BY <1>2, <1>3, <1>4, <1>5 DEF Inv

LEMMA StepInv == Inv /\ [Next]_vars => Inv'
<1>. SUFFICES ASSUME Inv, [Next]_vars PROVE Inv'
  OBVIOUS
<1>1. CASE TryProcess
  BY <1>1, TryProcessStep
<1>2. ASSUME NEW e \in Events, CallerStep(e) \/ Abort(e) \/ HandlerStep(e)
      PROVE  Inv'
  BY <1>2, PushStep, ScheduleStep, ReleaseStep, HandNextStep, AbortStep,
     HandlerDoneStep, LooseDoneStep DEF CallerStep, HandlerStep
<1>3. CASE DrainerStep
  BY <1>3, DrainerPollStep, DrainerRetryStep, DrainerKeepStep, DrainerStopStep
     DEF DrainerStep
<1>4. ASSUME NEW d \in drainers, DrainerExpire(d) PROVE Inv'
  BY <1>4, DrainerExpireStep
<1>5. CASE UNCHANGED vars
  BY <1>5 DEF vars, Inv, Typed, Phased, Lists, OneDrainer, Batched, Guarded
<1>. QED  BY <1>1, <1>2, <1>3, <1>4, <1>5 DEF Next

\* Wherever an event waits, wherever a guard is held: the places of the events
\* say so (try_process, release, the drainer and its handlers).
THEOREM Invariance == Spec => []Inv
<1>1. Init => Inv
  BY InitInv
<1>2. Inv /\ [Next]_vars => Inv'
  BY StepInv
<1>. QED  BY <1>1, <1>2, PTL DEF Spec

\* Every event that waits is listed once and in one list only; Accounted is
\* stated with sets, Inv event by event.
THEOREM AccountedForAll == Spec => []Accounted
<1>1. ASSUME Inv PROVE Accounted
  <2>1. IsInjective(pending)
    BY <1>1 DEF Inv, Lists
  <2>2. \A d \in drainers : IsInjective(d.todo \o d.kept)
    <3>. TAKE d \in drainers
    <3>1. d.todo \in Seq(Events) /\ d.kept \in Seq(Events)
      BY <1>1 DEF Inv, Typed, Drainer
    <3>. QED  BY <1>1, <3>1, ConcatList DEF Inv, Batched
  <2>3. {e \in Events : place[e] = "queued"} = ToSet(pending)
    <3>1. ToSet(pending) \subseteq Events
      BY <1>1, ByIndex DEF Inv, Typed
    <3>. QED  BY <1>1, <3>1 DEF Inv, Lists
  <2>4. {e \in Events : place[e] = "drained"} = InBatch
    <3>1. \A d \in drainers : ToSet(d.todo) \cup ToSet(d.kept) \subseteq Events
      <4>. TAKE d \in drainers
      <4>1. d.todo \in Seq(Events) /\ d.kept \in Seq(Events)
        BY <1>1 DEF Inv, Typed, Drainer
      <4>. QED  BY <4>1, ByIndex
    <3>2. \A e \in Events : place[e] = "drained"
             <=> \E d \in drainers : e \in ToSet(d.todo) \cup ToSet(d.kept)
      BY <1>1 DEF Inv, Batched
    <3>3. \A x : x \in InBatch
             <=> \E d \in drainers : x \in ToSet(d.todo) \cup ToSet(d.kept)
      BY DEF InBatch
    <3>. QED  BY <3>1, <3>2, <3>3
  <2>. QED  BY <2>1, <2>2, <2>3, <2>4 DEF Accounted
<1>. QED  BY <1>1, Invariance, PTL

LEMMA AtMostOne ==
  ASSUME NEW S, \A x, y \in S : x = y
  PROVE  Cardinality(S) <= 1
<1>1. CASE S = {}
  BY <1>1, FS_EmptySet
<1>2. ASSUME NEW x \in S PROVE Cardinality(S) <= 1
  <2>1. S = {x}
    OBVIOUS
  <2>. QED  BY <2>1, FS_Singleton
<1>. QED  BY <1>1, <1>2

\* A chat is locked exactly while one event of it is processed under the guard,
\* or for good once the guard's owner was aborted.
THEOREM GuardHeldByOne == Spec => []HeldByOne
<1>1. ASSUME Inv PROVE HeldByOne
  <2>1. ASSUME NEW c \in Chats PROVE Cardinality(Holders(c)) <= 1
    <3>1. \A e, f \in Holders(c) : e = f
      BY <1>1 DEF Inv, Guarded, Owns, Holders
    <3>. QED  BY <3>1, AtMostOne
  <2>2. \A c \in Chats : c \in locked <=> Holders(c) # {} \/ Leaked(c)
    BY <1>1 DEF Inv, Guarded, Owns, Holders, Leaked
  <2>3. \A c \in Chats : Leaked(c) => Holders(c) = {}
    BY <1>1 DEF Inv, Guarded, Owns, Holders, Leaked
  <2>. QED  BY <2>1, <2>2, <2>3 DEF HeldByOne
<1>. QED  BY <1>1, Invariance, PTL

\* Whether there is a handler never changes.
LEMMA HandlerStays == [Next]_vars => UNCHANGED hasHandler
<1>. SUFFICES ASSUME [Next]_vars PROVE UNCHANGED hasHandler
  OBVIOUS
<1>1. CASE TryProcess
  BY <1>1 DEF TryProcess
<1>2. ASSUME NEW e \in Events, CallerStep(e) \/ Abort(e) \/ HandlerStep(e)
      PROVE  UNCHANGED hasHandler
  BY <1>2 DEF CallerStep, HandlerStep, Push, Schedule, Release, HandNext, Abort,
     HandlerDone, LooseDone
<1>3. ASSUME NEW d \in drainers,
             DrainerPoll(d) \/ DrainerRetry(d) \/ DrainerKeep(d) \/ DrainerStop(d) \/ DrainerExpire(d)
      PROVE  UNCHANGED hasHandler
  BY <1>3 DEF DrainerPoll, DrainerRetry, DrainerKeep, DrainerStop, DrainerExpire
<1>4. CASE UNCHANGED vars
  BY <1>4 DEF vars
<1>. QED  BY <1>1, <1>2, <1>3, <1>4 DEF Next, DrainerStep

\* Every variable keeps its type, and drain_scheduled is set exactly while the
\* one drainer task runs: two separate stores never leave two of them.
THEOREM QueueTypeOK == Spec => []TypeOK
<1>0. ASSUME Inv, hasHandler \in BOOLEAN PROVE TypeOK
  <2>1. Cardinality(drainers) = IF scheduled THEN 1 ELSE 0
    <3>1. CASE scheduled
      <4>1. PICK d \in drainers : drainers = {d}
        BY <1>0, <3>1 DEF Inv, OneDrainer
      <4>. QED  BY <3>1, <4>1, FS_Singleton
    <3>2. CASE ~scheduled
      BY <1>0, <3>2, FS_EmptySet DEF Inv, OneDrainer
    <3>. QED  BY <3>1, <3>2
  <2>. QED  BY <1>0, <2>1 DEF Inv, Typed, TypeOK
<1>1. Init => hasHandler \in BOOLEAN
  BY DEF Init
<1>2. hasHandler \in BOOLEAN /\ [Next]_vars => (hasHandler \in BOOLEAN)'
  BY HandlerStays
<1>. QED  BY <1>0, <1>1, <1>2, Invariance, PTL DEF Spec
-----------------------------------------------------------------------------
(***************************************************************************)
(* Who waits before whom.                                                  *)
(***************************************************************************)
LEMMA BeforeByIndex ==
  ASSUME NEW S, NEW s \in Seq(S), NEW x, NEW y
  PROVE  /\ Before(s, x, y) <=> \E i, j \in 1 .. Len(s) : i < j /\ s[i] = x /\ s[j] = y
         /\ Before(s, x, y) => x \in ToSet(s) /\ y \in ToSet(s)
         /\ IsInjective(s) => ~(Before(s, x, y) /\ Before(s, y, x))
<1>1. DOMAIN s = 1 .. Len(s)
  OBVIOUS
<1>2. Before(s, x, y) <=> \E i, j \in 1 .. Len(s) : i < j /\ s[i] = x /\ s[j] = y
  BY <1>1 DEF Before
<1>3. IsInjective(s) <=> \A i, j \in 1 .. Len(s) : s[i] = s[j] => i = j
  BY ByIndex
<1>4. ASSUME Before(s, x, y), Before(s, y, x), IsInjective(s) PROVE FALSE
  <2>1. PICK i, j \in 1 .. Len(s) : i < j /\ s[i] = x /\ s[j] = y
    BY <1>2, <1>4
  <2>2. PICK k, l \in 1 .. Len(s) : k < l /\ s[k] = y /\ s[l] = x
    BY <1>1, <1>4 DEF Before
  <2>3. i = l /\ j = k
    BY <1>3, <1>4, <2>1, <2>2
  <2>. QED  BY <2>1, <2>2, <2>3
<1>. QED  BY <1>2, <1>4, ByIndex

LEMMA EmptyBefore == ASSUME NEW x, NEW y PROVE ~Before(<<>>, x, y)
BY DEF Before

LEMMA ConcatBefore ==
  ASSUME NEW S, NEW s \in Seq(S), NEW t \in Seq(S), NEW x, NEW y
  PROVE  Before(s \o t, x, y) <=>
           \/ Before(s, x, y) \/ Before(t, x, y)
           \/ x \in ToSet(s) /\ y \in ToSet(t)
<1>. DEFINE u == s \o t
<1>1. /\ u \in Seq(S) /\ Len(u) = Len(s) + Len(t)
      /\ Len(s) \in Nat /\ Len(t) \in Nat
      /\ \A i \in 1 .. Len(u) : u[i] = IF i <= Len(s) THEN s[i] ELSE t[i - Len(s)]
  OBVIOUS
<1>. HIDE DEF u
<1>2. \A i \in 1 .. Len(s) : i \in 1 .. Len(u) /\ u[i] = s[i]
  BY <1>1
<1>3. \A i \in 1 .. Len(t) : i + Len(s) \in 1 .. Len(u) /\ u[i + Len(s)] = t[i]
  <2>. TAKE i \in 1 .. Len(t)
  <2>1. /\ i + Len(s) \in 1 .. Len(u) /\ ~(i + Len(s) <= Len(s))
        /\ (i + Len(s)) - Len(s) = i
    BY <1>1
  <2>2. u[i + Len(s)] = t[(i + Len(s)) - Len(s)]
    BY <1>1, <2>1
  <2>. QED  BY <2>1, <2>2
<1>4. \A i \in 1 .. Len(u) : i > Len(s) => i - Len(s) \in 1 .. Len(t) /\ u[i] = t[i - Len(s)]
  BY <1>1
<1>5. Before(u, x, y) => Before(s, x, y) \/ Before(t, x, y) \/ (x \in ToSet(s) /\ y \in ToSet(t))
  <2>. SUFFICES ASSUME Before(u, x, y), ~(x \in ToSet(s) /\ y \in ToSet(t))
                PROVE  Before(s, x, y) \/ Before(t, x, y)
    OBVIOUS
  <2>1. PICK i, j \in 1 .. Len(u) : i < j /\ u[i] = x /\ u[j] = y
    BY <1>1, BeforeByIndex
  <2>2. CASE j <= Len(s)
    <3>1. i \in 1 .. Len(s) /\ j \in 1 .. Len(s) /\ s[i] = x /\ s[j] = y
      BY <1>1, <1>2, <2>1, <2>2
    <3>. QED  BY <2>1, <3>1, BeforeByIndex
  <2>3. CASE i > Len(s)
    <3>1. /\ i - Len(s) \in 1 .. Len(t) /\ j - Len(s) \in 1 .. Len(t)
          /\ t[i - Len(s)] = x /\ t[j - Len(s)] = y /\ i - Len(s) < j - Len(s)
      BY <1>1, <1>4, <2>1, <2>3
    <3>. QED  BY <3>1, BeforeByIndex
  <2>4. CASE i <= Len(s) /\ j > Len(s)
    <3>1. i \in 1 .. Len(s) /\ s[i] = x
      BY <1>1, <1>2, <2>1, <2>4
    <3>2. j - Len(s) \in 1 .. Len(t) /\ t[j - Len(s)] = y
      BY <1>4, <2>1, <2>4
    <3>. QED  BY <3>1, <3>2, ByIndex
  <2>. QED  BY <1>1, <2>1, <2>2, <2>3, <2>4
<1>6. Before(s, x, y) => Before(u, x, y)
  <2>1. ASSUME NEW i \in 1 .. Len(s), NEW j \in 1 .. Len(s), i < j, s[i] = x, s[j] = y
        PROVE  Before(u, x, y)
    BY <1>1, <1>2, <2>1, BeforeByIndex
  <2>. QED  BY <2>1, BeforeByIndex
<1>7. Before(t, x, y) => Before(u, x, y)
  <2>1. ASSUME NEW i \in 1 .. Len(t), NEW j \in 1 .. Len(t), i < j, t[i] = x, t[j] = y
        PROVE  Before(u, x, y)
    <3>1. i + Len(s) < j + Len(s)
      BY <1>1, <2>1
    <3>2. /\ i + Len(s) \in 1 .. Len(u) /\ u[i + Len(s)] = x
          /\ j + Len(s) \in 1 .. Len(u) /\ u[j + Len(s)] = y
      BY <1>3, <2>1
    <3>. QED  BY <1>1, <3>1, <3>2, BeforeByIndex
  <2>. QED  BY <2>1, BeforeByIndex
<1>8. x \in ToSet(s) /\ y \in ToSet(t) => Before(u, x, y)
  <2>1. ASSUME NEW i \in 1 .. Len(s), NEW j \in 1 .. Len(t), s[i] = x, t[j] = y
        PROVE  Before(u, x, y)
    <3>1. i < j + Len(s)
      BY <1>1
    <3>. QED  BY <1>1, <1>2, <1>3, <2>1, <3>1, BeforeByIndex
  <2>. QED  BY <2>1, ByIndex
<1>. QED  BY <1>5, <1>6, <1>7, <1>8 DEF u

LEMMA AppendBefore ==
  ASSUME NEW S, NEW s \in Seq(S), NEW e \in S, NEW x, NEW y
  PROVE  Before(Append(s, e), x, y) <=> Before(s, x, y) \/ (x \in ToSet(s) /\ y = e)
<1>. DEFINE t == <<e>>
<1>1. /\ Append(s, e) = s \o t /\ t \in Seq(S) /\ Len(t) = 1
      /\ t[1] = e
  OBVIOUS
<1>. HIDE DEF t
<1>2. \A i \in 1 .. Len(t) : i = 1
  BY <1>1
<1>3. ToSet(t) = {e}
  BY <1>1, <1>2, ByIndex
<1>4. ~Before(t, x, y)
  BY <1>1, <1>2, BeforeByIndex
<1>5. Before(s \o t, x, y) <=> Before(s, x, y) \/ (x \in ToSet(s) /\ y = e)
  BY <1>1, <1>3, <1>4, ConcatBefore
<1>. QED  BY <1>1, <1>5

LEMMA TailBefore ==
  ASSUME NEW S, NEW s \in Seq(S), s # <<>>, NEW x, NEW y
  PROVE  Before(s, x, y) <=> Before(Tail(s), x, y) \/ (x = Head(s) /\ y \in ToSet(Tail(s)))
<1>. DEFINE h == <<Head(s)>>
            t == Tail(s)
<1>1. /\ s = h \o t /\ t \in Seq(S) /\ h \in Seq(S) /\ Len(h) = 1
      /\ h[1] = Head(s)
  OBVIOUS
<1>. HIDE DEF h, t
<1>2. \A i \in 1 .. Len(h) : i = 1
  BY <1>1
<1>3. ToSet(h) = {Head(s)}
  BY <1>1, <1>2, ByIndex
<1>4. ~Before(h, x, y)
  BY <1>1, <1>2, BeforeByIndex
<1>5. Before(h \o t, x, y) <=> Before(t, x, y) \/ (x = Head(s) /\ y \in ToSet(t))
  BY <1>1, <1>3, <1>4, ConcatBefore
<1>. QED  BY <1>1, <1>5 DEF t

LEMMA RemoveBefore ==
  ASSUME NEW S, NEW s \in Seq(S), NEW i \in 1 .. Len(s), IsInjective(s),
         NEW x \in ToSet(RemoveAt(s, i)), NEW y \in ToSet(RemoveAt(s, i)), Before(s, x, y)
  PROVE  Before(RemoveAt(s, i), x, y)
<1>. DEFINE t == RemoveAt(s, i)
<1>1. /\ t \in Seq(S) /\ Len(s) \in Nat /\ Len(t) = Len(s) - 1
      /\ \A k \in 1 .. Len(t) : t[k] = IF k < i THEN s[k] ELSE s[k + 1]
  BY RemoveByIndex
<1>2. x # s[i] /\ y # s[i]
  BY RemoveList
<1>. HIDE DEF t
<1>3. PICK k, l \in 1 .. Len(s) : k < l /\ s[k] = x /\ s[l] = y
  BY BeforeByIndex
<1>4. k # i /\ l # i
  BY <1>2, <1>3
<1>. DEFINE At(n) == IF n < i THEN n ELSE n - 1
<1>5. ASSUME NEW n \in 1 .. Len(s), n # i
      PROVE  At(n) \in 1 .. Len(t) /\ t[At(n)] = s[n]
  <2>1. CASE n < i
    <3>1. n \in 1 .. Len(t)
      BY <1>1, <2>1
    <3>. QED  BY <1>1, <2>1, <3>1
  <2>2. CASE n > i
    <3>1. n - 1 \in 1 .. Len(t) /\ ~(n - 1 < i) /\ (n - 1) + 1 = n
      BY <1>1, <2>2
    <3>2. t[n - 1] = s[n]
      BY <1>1, <3>1
    <3>. QED  BY <2>2, <3>1, <3>2
  <2>. QED  BY <1>5, <2>1, <2>2
<1>6. At(k) < At(l)
  BY <1>1, <1>3, <1>4
<1>. HIDE DEF At
<1>7. Before(t, x, y)
  <2>1. /\ At(k) \in 1 .. Len(t) /\ t[At(k)] = x
        /\ At(l) \in 1 .. Len(t) /\ t[At(l)] = y
    BY <1>3, <1>4, <1>5
  <2>. QED  BY <1>1, <1>6, <2>1, BeforeByIndex
<1>. QED  BY <1>7 DEF t

\* First come, first served, of two lists one after the other.
Ordered(s, t) ==
  \A e \in ToSet(s) \cap ToSet(t), f \in ToSet(t) :
    Before(s, e, f) \/ f \notin ToSet(s) => Before(t, e, f)

LEMMA SameOrdered ==
  ASSUME NEW s, NEW t, ToSet(t) = ToSet(s), \A x, y : Before(t, x, y) <=> Before(s, x, y)
  PROVE  Ordered(s, t)
BY DEF Ordered

LEMMA AppendOrdered ==
  ASSUME NEW S, NEW s \in Seq(S), NEW e \in S
  PROVE  Ordered(s, Append(s, e))
BY AppendList, AppendBefore DEF Ordered

LEMMA TailOrdered ==
  ASSUME NEW S, NEW s \in Seq(S), s # <<>>, IsInjective(s)
  PROVE  Ordered(s, Tail(s))
BY TailList, TailBefore DEF Ordered

LEMMA RemoveOrdered ==
  ASSUME NEW S, NEW s \in Seq(S), NEW i \in 1 .. Len(s), IsInjective(s)
  PROVE  Ordered(s, RemoveAt(s, i))
BY RemoveList, RemoveBefore DEF Ordered

\* One more and perhaps one less.
LEMMA PushOrdered ==
  ASSUME NEW S, NEW s \in Seq(S), NEW e \in S, IsInjective(s), e \notin ToSet(s)
  PROVE  Ordered(s, Tail(Append(s, e)))
<1>. DEFINE t == Append(s, e)
<1>1. /\ t \in Seq(S) /\ IsInjective(t) /\ ToSet(t) = ToSet(s) \cup {e}
      /\ Ordered(s, t)
  BY AppendList, AppendOrdered
<1>2. t # <<>>
  BY <1>1, EmptyList
<1>. HIDE DEF t
<1>3. Ordered(t, Tail(t)) /\ ToSet(Tail(t)) \subseteq ToSet(t)
  BY <1>1, <1>2, TailOrdered, TailList
<1>4. Ordered(s, Tail(t))
  BY <1>1, <1>3 DEF Ordered
<1>. QED  BY <1>4 DEF t

\* The same behind a batch.
LEMMA BehindOrdered ==
  ASSUME NEW S, NEW a \in Seq(S), NEW s \in Seq(S), NEW t \in Seq(S), Ordered(s, t),
         ToSet(a) \cap ToSet(s) = {}, ToSet(a) \cap ToSet(t) = {}
  PROVE  Ordered(a \o s, a \o t)
<1>1. \A x, y : /\ Before(a, x, y) => x \in ToSet(a) /\ y \in ToSet(a)
                /\ Before(s, x, y) => x \in ToSet(s) /\ y \in ToSet(s)
  BY BeforeByIndex
<1>2. \A x, y : /\ Before(a \o s, x, y) <=> \/ Before(a, x, y) \/ Before(s, x, y)
                                            \/ x \in ToSet(a) /\ y \in ToSet(s)
                /\ Before(a \o t, x, y) <=> \/ Before(a, x, y) \/ Before(t, x, y)
                                            \/ x \in ToSet(a) /\ y \in ToSet(t)
  BY ConcatBefore
<1>3. ToSet(a \o s) = ToSet(a) \cup ToSet(s) /\ ToSet(a \o t) = ToSet(a) \cup ToSet(t)
  BY ConcatList
<1>4. ASSUME NEW e \in ToSet(a \o s) \cap ToSet(a \o t), NEW f \in ToSet(a \o t),
             Before(a \o s, e, f) \/ f \notin ToSet(a \o s)
      PROVE  Before(a \o t, e, f)
  <2>1. CASE e \in ToSet(a) /\ f \in ToSet(a)
    BY <1>1, <1>2, <1>3, <1>4, <2>1
  <2>2. CASE e \in ToSet(a) /\ f \notin ToSet(a)
    BY <1>2, <1>3, <1>4, <2>2
  <2>3. CASE e \notin ToSet(a) /\ f \in ToSet(a)
    BY <1>1, <1>2, <1>3, <1>4, <2>3
  <2>4. CASE e \notin ToSet(a) /\ f \notin ToSet(a)
    <3>1. e \in ToSet(s) \cap ToSet(t) /\ f \in ToSet(t)
      BY <1>3, <1>4, <2>4
    <3>2. Before(s, e, f) \/ f \notin ToSet(s)
      BY <1>1, <1>2, <1>3, <1>4, <2>4
    <3>3. Before(t, e, f)
      BY <3>1, <3>2 DEF Ordered
    <3>. QED  BY <1>2, <3>3
  <2>. QED  BY <2>1, <2>2, <2>3, <2>4
<1>. QED  BY <1>4 DEF Ordered

\* Where the events wait, with a drainer and without.
LEMMA WaitingThere ==
  ASSUME Inv
  PROVE  /\ drainers = {} => Waiting = pending
         /\ \A d \in drainers : Waiting = d.kept \o d.todo \o pending
<1>1. drainers = {} => Waiting = pending
  BY DEF Waiting
<1>2. ASSUME NEW d \in drainers PROVE Waiting = d.kept \o d.todo \o pending
  <2>1. drainers = {d} /\ drainers # {}
    BY DrainerAlone
  <2>2. (CHOOSE f \in drainers : TRUE) = d
    BY <2>1
  <2>. QED  BY <2>1, <2>2 DEF Waiting
<1>. QED  BY <1>1, <1>2

LEMMA WaitingThen ==
  ASSUME NEW rec, drainers' = {rec}
  PROVE  Waiting' = rec.kept \o rec.todo \o pending'
<1>1. drainers' # {} /\ (CHOOSE f \in drainers' : TRUE) = rec
  OBVIOUS
<1>. QED  BY <1>1 DEF Waiting

\* Three lists one after the other.
LEMMA ThreeBefore ==
  ASSUME NEW S, NEW k \in Seq(S), NEW q \in Seq(S), NEW p \in Seq(S)
  PROVE  /\ k \o q \o p \in Seq(S)
         /\ ToSet(k \o q \o p) = ToSet(k) \cup ToSet(q) \cup ToSet(p)
         /\ \A x, y : Before(k \o q \o p, x, y) <=>
              \/ Before(k, x, y) \/ Before(q, x, y) \/ Before(p, x, y)
              \/ x \in ToSet(k) /\ y \in ToSet(q) \cup ToSet(p)
              \/ x \in ToSet(q) /\ y \in ToSet(p)
<1>. DEFINE a == k \o q
            b == a \o p
<1>1. a \in Seq(S) /\ ToSet(a) = ToSet(k) \cup ToSet(q)
  BY ConcatList
<1>2. \A x, y : Before(a, x, y) <=>
        Before(k, x, y) \/ Before(q, x, y) \/ (x \in ToSet(k) /\ y \in ToSet(q))
  BY ConcatBefore
<1>. HIDE DEF a
<1>3. b \in Seq(S) /\ ToSet(b) = ToSet(a) \cup ToSet(p)
  BY <1>1, ConcatList
<1>4. \A x, y : Before(b, x, y) <=>
        Before(a, x, y) \/ Before(p, x, y) \/ (x \in ToSet(a) /\ y \in ToSet(p))
  BY <1>1, ConcatBefore
<1>. HIDE DEF b
<1>5. \A x, y : Before(b, x, y) <=>
        \/ Before(k, x, y) \/ Before(q, x, y) \/ Before(p, x, y)
        \/ x \in ToSet(k) /\ y \in ToSet(q) \cup ToSet(p)
        \/ x \in ToSet(q) /\ y \in ToSet(p)
  BY <1>1, <1>2, <1>4
<1>6. ToSet(b) = ToSet(k) \cup ToSet(q) \cup ToSet(p)
  BY <1>1, <1>3
<1>. QED  BY <1>3, <1>5, <1>6 DEF a, b

LEMMA NothingBefore ==
  ASSUME NEW S
  PROVE  <<>> \in Seq(S) /\ ToSet(<<>>) = {} /\ \A x, y : ~Before(<<>>, x, y)
<1>1. <<>> \in Seq(S)
  OBVIOUS
<1>. QED  BY <1>1, EmptyList, EmptyBefore

\* The batch of the drainer, and what Inv says of it.
LEMMA BatchKnown ==
  ASSUME Inv, NEW d \in drainers
  PROVE  /\ d.kept \in Seq(Events) /\ d.todo \in Seq(Events)
         /\ IsInjective(d.kept) /\ IsInjective(d.todo)
         /\ ToSet(d.kept) \cap ToSet(d.todo) = {}
         /\ (ToSet(d.kept) \cup ToSet(d.todo)) \cap ToSet(pending) = {}
<1>1. d \in Drainer
  BY DEF Inv, Typed
<1>2. d.kept \in Seq(Events) /\ d.todo \in Seq(Events)
  BY <1>1 DEF Drainer
<1>3. IsInjective(d.kept) /\ IsInjective(d.todo) /\ ToSet(d.kept) \cap ToSet(d.todo) = {}
  BY DEF Inv, Batched
<1>4. /\ \A e \in Events : place[e] = "drained" <=> e \in ToSet(d.todo) \cup ToSet(d.kept)
      /\ \A e \in Events : place[e] = "queued" <=> e \in ToSet(pending)
  BY DEF Inv, Batched, Lists
<1>5. ToSet(pending) \subseteq Events
  BY ByIndex DEF Inv, Typed
<1>6. (ToSet(d.kept) \cup ToSet(d.todo)) \cap ToSet(pending) = {}
  BY <1>4, <1>5
<1>. QED  BY <1>2, <1>3, <1>6

\* The queue changes behind the drainer's back.
LEMMA QueueOrdered ==
  ASSUME Inv, UNCHANGED drainers, NEW p \in Seq(Events), pending' = p, Ordered(pending, p),
         \A d \in drainers : (ToSet(d.kept) \cup ToSet(d.todo)) \cap ToSet(p) = {}
  PROVE  Ordered(Waiting, Waiting')
<1>1. CASE drainers = {}
  <2>1. Waiting = pending /\ Waiting' = p
    BY <1>1 DEF Waiting
  <2>. QED  BY <2>1
<1>2. ASSUME NEW d \in drainers PROVE Ordered(Waiting, Waiting')
  <2>. DEFINE a == d.kept \o d.todo
  <2>1. drainers' = {d}
    BY DrainerAlone
  <2>2. Waiting = a \o pending /\ Waiting' = a \o p
    BY <2>1, WaitingThere, WaitingThen
  <2>3. a \in Seq(Events) /\ ToSet(a) = ToSet(d.kept) \cup ToSet(d.todo)
    BY BatchKnown, ConcatList
  <2>4. ToSet(a) \cap ToSet(pending) = {} /\ ToSet(a) \cap ToSet(p) = {}
    BY <2>3, BatchKnown
  <2>5. pending \in Seq(Events)
    BY DEF Inv, Typed
  <2>. HIDE DEF a
  <2>. QED  BY <2>2, <2>3, <2>4, <2>5, BehindOrdered
<1>. QED  BY <1>1, <1>2

\* The drainer moves events between its batch and the queue, and keeps the order.
LEMMA BatchOrdered ==
  ASSUME Inv, NEW d \in drainers, NEW rec, drainers' = {rec},
         rec.kept \in Seq(Events), rec.todo \in Seq(Events), pending' \in Seq(Events),
         ToSet(rec.kept) \cup ToSet(rec.todo) \cup ToSet(pending')
           = ToSet(d.kept) \cup ToSet(d.todo) \cup ToSet(pending),
         \A x, y :
           LET B(k, q, p) == \/ Before(k, x, y) \/ Before(q, x, y) \/ Before(p, x, y)
                             \/ x \in ToSet(k) /\ y \in ToSet(q) \cup ToSet(p)
                             \/ x \in ToSet(q) /\ y \in ToSet(p)
           IN B(rec.kept, rec.todo, pending') <=> B(d.kept, d.todo, pending)
  PROVE  Ordered(Waiting, Waiting')
<1>. DEFINE s == d.kept \o d.todo \o pending
            t == rec.kept \o rec.todo \o pending'
<1>1. Waiting = s /\ Waiting' = t
  BY WaitingThere, WaitingThen
<1>2. pending \in Seq(Events)
  BY DEF Inv, Typed
<1>3. ToSet(s) = ToSet(d.kept) \cup ToSet(d.todo) \cup ToSet(pending)
  BY <1>2, BatchKnown, ThreeBefore
<1>4. ToSet(t) = ToSet(rec.kept) \cup ToSet(rec.todo) \cup ToSet(pending')
  BY ThreeBefore
<1>5. \A x, y : Before(t, x, y) <=> Before(s, x, y)
  <2>. TAKE x, y
  <2>1. Before(s, x, y) <=>
          \/ Before(d.kept, x, y) \/ Before(d.todo, x, y) \/ Before(pending, x, y)
          \/ x \in ToSet(d.kept) /\ y \in ToSet(d.todo) \cup ToSet(pending)
          \/ x \in ToSet(d.todo) /\ y \in ToSet(pending)
    BY <1>2, BatchKnown, ThreeBefore
  <2>2. Before(t, x, y) <=>
          \/ Before(rec.kept, x, y) \/ Before(rec.todo, x, y) \/ Before(pending', x, y)
          \/ x \in ToSet(rec.kept) /\ y \in ToSet(rec.todo) \cup ToSet(pending')
          \/ x \in ToSet(rec.todo) /\ y \in ToSet(pending')
    BY ThreeBefore
  <2>. QED  BY <2>1, <2>2
<1>. HIDE DEF s, t
<1>. QED  BY <1>1, <1>3, <1>4, <1>5, SameOrdered
-----------------------------------------------------------------------------
LEMMA PushKeepsOrder ==
  ASSUME Inv, NEW e \in Events, Push(e)
  PROVE  Ordered(Waiting, Waiting')
<1>. DEFINE q == Append(pending, e)
<1>1. /\ place[e] = "caller" /\ UNCHANGED drainers
      /\ pending' = q \/ pending' = Tail(q)
  BY DEF Inv, Phased, Push
<1>2. /\ pending \in Seq(Events) /\ IsInjective(pending)
      /\ \A f \in Events : place[f] = "queued" <=> f \in ToSet(pending)
  BY DEF Inv, Typed, Lists
<1>3. /\ q \in Seq(Events) /\ ToSet(q) = ToSet(pending) \cup {e}
      /\ Ordered(pending, q) /\ Ordered(pending, Tail(q))
  BY <1>1, <1>2, AppendList, AppendOrdered, PushOrdered
<1>. HIDE DEF q
<1>4. Tail(q) \in Seq(Events) /\ ToSet(Tail(q)) \subseteq ToSet(q)
  <2>1. q # <<>>
    BY <1>3, EmptyList
  <2>. QED  BY <1>3, <2>1, TailList
<1>5. \A d \in drainers : (ToSet(d.kept) \cup ToSet(d.todo)) \cap ToSet(q) = {}
  <2>1. \A d \in drainers : e \notin ToSet(d.kept) \cup ToSet(d.todo)
    BY <1>1 DEF Inv, Batched
  <2>. QED  BY <1>3, <2>1, BatchKnown
<1>6. \A d \in drainers : (ToSet(d.kept) \cup ToSet(d.todo)) \cap ToSet(Tail(q)) = {}
  BY <1>4, <1>5
<1>7. CASE pending' = q
  BY <1>1, <1>3, <1>5, <1>7, QueueOrdered
<1>8. CASE pending' = Tail(q)
  BY <1>1, <1>3, <1>4, <1>6, <1>8, QueueOrdered
<1>. QED  BY <1>1, <1>7, <1>8

LEMMA HandNextKeepsOrder ==
  ASSUME Inv, NEW e \in Events, HandNext(e)
  PROVE  Ordered(Waiting, Waiting') \/ UNCHANGED <<pending, drainers>>
<1>. DEFINE i == SelectInSeq(pending, LAMBDA f : chat[f] = chat[e])
<1>1. UNCHANGED drainers /\ (pending' = pending \/ pending' = RemoveAt(pending, i))
  BY DEF HandNext
<1>2. pending' # pending => i \in 1 .. Len(pending)
  BY HandedIndex DEF HandNext
<1>. HIDE DEF i
<1>3. CASE i \in 1 .. Len(pending) /\ pending' = RemoveAt(pending, i)
  <2>1. pending \in Seq(Events) /\ IsInjective(pending)
    BY DEF Inv, Typed, Lists
  <2>2. /\ RemoveAt(pending, i) \in Seq(Events)
        /\ ToSet(RemoveAt(pending, i)) \subseteq ToSet(pending)
        /\ Ordered(pending, RemoveAt(pending, i))
    BY <1>3, <2>1, RemoveList, RemoveOrdered
  <2>3. \A d \in drainers :
          (ToSet(d.kept) \cup ToSet(d.todo)) \cap ToSet(RemoveAt(pending, i)) = {}
    BY <2>2, BatchKnown
  <2>. QED  BY <1>1, <1>3, <2>2, <2>3, QueueOrdered
<1>. QED  BY <1>1, <1>2, <1>3

LEMMA ScheduleKeepsOrder ==
  ASSUME Inv, NEW e \in Events, Schedule(e)
  PROVE  Ordered(Waiting, Waiting') \/ UNCHANGED <<pending, drainers>>
<1>1. /\ UNCHANGED pending /\ pending \in Seq(Events)
      /\ drainers' = IF scheduled THEN drainers ELSE drainers \cup {NewDrainer}
  BY DEF Schedule, SpawnDrainer, Inv, Typed
<1>2. CASE scheduled
  BY <1>1, <1>2
<1>3. CASE ~scheduled
  <2>1. drainers = {} /\ drainers' = {NewDrainer}
    BY <1>1, <1>3 DEF Inv, OneDrainer
  <2>2. NewDrainer.kept = <<>> /\ NewDrainer.todo = <<>>
    BY DEF NewDrainer
  <2>3. Waiting = pending /\ Waiting' = <<>> \o <<>> \o pending
    BY <1>1, <2>1, <2>2, WaitingThere, WaitingThen
  <2>4. Ordered(pending, <<>> \o <<>> \o pending)
    BY <1>1, NothingBefore, ThreeBefore, SameOrdered
  <2>. QED  BY <2>3, <2>4
<1>. QED  BY <1>2, <1>3

LEMMA PollKeepsOrder ==
  ASSUME Inv, NEW d \in drainers, DrainerPoll(d)
  PROVE  Ordered(Waiting, Waiting')
<1>1. /\ d.todo = <<>> /\ d.kept = <<>> /\ d \in Drainer /\ pending \in Seq(Events)
  BY DrainerAlone DEF DrainerPoll, Inv, OneDrainer, Typed
<1>2. CASE pending = <<>>
  <2>. DEFINE rec == [d EXCEPT !.stale = TRUE]
  <2>1. drainers' = {rec} /\ pending' = pending
    BY <1>2, DrainerAlone DEF DrainerPoll
  <2>2. rec.todo = <<>> /\ rec.kept = <<>>
    BY <1>1 DEF Drainer
  <2>. HIDE DEF rec
  <2>. QED  BY <1>1, <2>1, <2>2, NothingBefore, BatchOrdered
<1>3. CASE pending # <<>>
  <2>. DEFINE rec == [d EXCEPT !.pc = "retry", !.todo = pending]
  <2>1. drainers' = {rec} /\ pending' = <<>>
    BY <1>3, DrainerAlone DEF DrainerPoll
  <2>2. rec.todo = pending /\ rec.kept = <<>>
    BY <1>1 DEF Drainer
  <2>. HIDE DEF rec
  <2>. QED  BY <1>1, <2>1, <2>2, NothingBefore, BatchOrdered
<1>. QED  BY <1>2, <1>3

LEMMA KeepKeepsOrder ==
  ASSUME Inv, NEW d \in drainers, DrainerKeep(d)
  PROVE  Ordered(Waiting, Waiting')
<1>. DEFINE rec == [NewDrainer EXCEPT !.stale = ~d.any]
<1>1. /\ d.todo = <<>> /\ drainers' = {rec} /\ pending' = d.kept \o pending
      /\ pending \in Seq(Events) /\ d.kept \in Seq(Events)
  BY DrainerAlone, BatchKnown DEF DrainerKeep, KeepInFront, Inv, Typed
<1>2. rec.todo = <<>> /\ rec.kept = <<>>
  BY DEF NewDrainer
<1>. HIDE DEF rec
<1>3. /\ pending' \in Seq(Events) /\ ToSet(pending') = ToSet(d.kept) \cup ToSet(pending)
      /\ \A x, y : Before(pending', x, y) <=>
           \/ Before(d.kept, x, y) \/ Before(pending, x, y)
           \/ x \in ToSet(d.kept) /\ y \in ToSet(pending)
  BY <1>1, ConcatList, ConcatBefore
<1>. QED  BY <1>1, <1>2, <1>3, NothingBefore, BatchOrdered

LEMMA StopKeepsOrder ==
  ASSUME Inv, NEW d \in drainers, DrainerStop(d)
  PROVE  Ordered(Waiting, Waiting')
<1>1. /\ d.todo = <<>> /\ d.kept = <<>> /\ drainers' = {} /\ pending' = pending
      /\ pending \in Seq(Events)
  BY DrainerAlone DEF DrainerStop, Inv, OneDrainer, Typed
<1>2. Waiting = <<>> \o <<>> \o pending /\ Waiting' = pending
  BY <1>1, WaitingThere DEF Waiting
<1>3. Ordered(<<>> \o <<>> \o pending, pending)
  BY <1>1, NothingBefore, ThreeBefore, SameOrdered
<1>. QED  BY <1>2, <1>3

LEMMA ExpireKeepsOrder ==
  ASSUME Inv, NEW d \in drainers, DrainerExpire(d)
  PROVE  Ordered(Waiting, Waiting')
<1>. DEFINE rec == [d EXCEPT !.pc = "stopping"]
<1>1. d \in Drainer /\ drainers' = {rec} /\ pending' = pending /\ pending \in Seq(Events)
  BY DrainerAlone DEF DrainerExpire, Inv, Typed
<1>2. rec.todo = d.todo /\ rec.kept = d.kept
  BY <1>1 DEF Drainer
<1>. HIDE DEF rec
<1>. QED  BY <1>1, <1>2, BatchKnown, BatchOrdered

\* The first of the batch goes to the end of what is kept, or to a handler.
LEMMA RetryKeepsOrder ==
  ASSUME Inv, NEW d \in drainers, DrainerRetry(d)
  PROVE  Ordered(Waiting, Waiting')
<1>. DEFINE e == Head(d.todo)
            q == Tail(d.todo)
            rest == [d EXCEPT !.todo = q]
<1>1. /\ d.todo # <<>> /\ d \in Drainer /\ pending' = pending /\ pending \in Seq(Events)
  BY DrainerAlone DEF DrainerRetry, Inv, Typed
<1>2. /\ e \in Events /\ q \in Seq(Events) /\ ToSet(d.todo) = ToSet(q) \cup {e}
      /\ e \notin ToSet(q)
      /\ \A x, y : Before(d.todo, x, y) <=> Before(q, x, y) \/ (x = e /\ y \in ToSet(q))
  BY <1>1, BatchKnown, TailList, TailBefore
<1>3. /\ d.kept \in Seq(Events) /\ d.todo \in Seq(Events)
      /\ ToSet(d.kept) \cap ToSet(d.todo) = {}
      /\ (ToSet(d.kept) \cup ToSet(d.todo)) \cap ToSet(pending) = {}
  BY BatchKnown
<1>4. CASE chat[e] \in locked
  <2>. DEFINE rec == [rest EXCEPT !.kept = Append(d.kept, e)]
  <2>1. drainers' = {rec}
    BY <1>4, DrainerAlone DEF DrainerRetry
  <2>2. rec.todo = q /\ rec.kept = Append(d.kept, e)
    BY <1>1 DEF Drainer
  <2>3. /\ Append(d.kept, e) \in Seq(Events)
        /\ ToSet(Append(d.kept, e)) = ToSet(d.kept) \cup {e}
        /\ \A x, y : Before(Append(d.kept, e), x, y)
                       <=> Before(d.kept, x, y) \/ (x \in ToSet(d.kept) /\ y = e)
    BY <1>2, <1>3, AppendList, AppendBefore
  <2>. HIDE DEF rec, e, q
  <2>4. ToSet(rec.kept) \cup ToSet(rec.todo) \cup ToSet(pending')
          = ToSet(d.kept) \cup ToSet(d.todo) \cup ToSet(pending)
    BY <1>1, <1>2, <2>2, <2>3
  <2>5. \A x, y :
          LET B(k, l, p) == \/ Before(k, x, y) \/ Before(l, x, y) \/ Before(p, x, y)
                            \/ x \in ToSet(k) /\ y \in ToSet(l) \cup ToSet(p)
                            \/ x \in ToSet(l) /\ y \in ToSet(p)
          IN B(rec.kept, rec.todo, pending') <=> B(d.kept, d.todo, pending)
    BY <1>1, <1>2, <2>2, <2>3
  <2>. QED  BY <1>1, <1>2, <2>1, <2>2, <2>3, <2>4, <2>5, BatchOrdered
<1>5. CASE chat[e] \notin locked
  <2>. DEFINE rec == [rest EXCEPT !.any = TRUE]
  <2>1. drainers' = {rec}
    BY <1>5, DrainerAlone DEF DrainerRetry
  <2>2. rec.todo = q /\ rec.kept = d.kept
    BY <1>1 DEF Drainer
  <2>. HIDE DEF rec, e, q
  <2>3. Waiting = d.kept \o d.todo \o pending /\ Waiting' = d.kept \o q \o pending
    BY <1>1, <2>1, <2>2, WaitingThere, WaitingThen
  <2>4. Ordered(d.kept \o d.todo \o pending, d.kept \o q \o pending)
    <3>. DEFINE s == d.kept \o d.todo \o pending
                t == d.kept \o q \o pending
    <3>1. /\ ToSet(s) = ToSet(d.kept) \cup ToSet(d.todo) \cup ToSet(pending)
          /\ \A x, y : Before(s, x, y) <=>
               \/ Before(d.kept, x, y) \/ Before(d.todo, x, y) \/ Before(pending, x, y)
               \/ x \in ToSet(d.kept) /\ y \in ToSet(d.todo) \cup ToSet(pending)
               \/ x \in ToSet(d.todo) /\ y \in ToSet(pending)
      BY <1>1, <1>3, ThreeBefore
    <3>2. /\ ToSet(t) = ToSet(d.kept) \cup ToSet(q) \cup ToSet(pending)
          /\ \A x, y : Before(t, x, y) <=>
               \/ Before(d.kept, x, y) \/ Before(q, x, y) \/ Before(pending, x, y)
               \/ x \in ToSet(d.kept) /\ y \in ToSet(q) \cup ToSet(pending)
               \/ x \in ToSet(q) /\ y \in ToSet(pending)
      BY <1>1, <1>2, <1>3, ThreeBefore
    <3>. HIDE DEF s, t
    <3>3. e \notin ToSet(t) /\ ToSet(t) \subseteq ToSet(s)
      BY <1>2, <1>3, <3>1, <3>2
    <3>4. \A x, y \in ToSet(t) : Before(s, x, y) => Before(t, x, y)
      BY <1>2, <3>1, <3>2, <3>3
    <3>5. Ordered(s, t)
      BY <3>3, <3>4 DEF Ordered
    <3>. QED  BY <3>5 DEF s, t
  <2>. QED  BY <2>3, <2>4
<1>. QED  BY <1>4, <1>5

\* Waiting is first come, first served: spawn_drainer takes the queue from the
\* front, retries it from the front and puts what is still busy back in front, so
\* that neither a busy chat nor an eviction lets a later event overtake.
THEOREM WaitingInOrder == Spec => OrderKept
<1>1. ASSUME Inv, Next PROVE Ordered(Waiting, Waiting') \/ UNCHANGED <<pending, drainers>>
  <2>1. CASE TryProcess
    BY <2>1 DEF TryProcess
  <2>2. ASSUME NEW e \in Events, CallerStep(e) \/ Abort(e) \/ HandlerStep(e)
        PROVE  Ordered(Waiting, Waiting') \/ UNCHANGED <<pending, drainers>>
    <3>1. CASE Push(e)
      BY <1>1, <3>1, PushKeepsOrder
    <3>2. CASE Schedule(e)
      BY <1>1, <3>2, ScheduleKeepsOrder
    <3>3. CASE HandNext(e)
      BY <1>1, <3>3, HandNextKeepsOrder
    <3>4. CASE Release(e) \/ Abort(e) \/ HandlerStep(e)
      BY <3>4 DEF Release, Abort, HandlerStep, HandlerDone, LooseDone
    <3>. QED  BY <2>2, <3>1, <3>2, <3>3, <3>4 DEF CallerStep
  <2>3. CASE DrainerStep
    BY <1>1, <2>3, PollKeepsOrder, RetryKeepsOrder, KeepKeepsOrder, StopKeepsOrder
    DEF DrainerStep
  <2>4. ASSUME NEW d \in drainers, DrainerExpire(d) PROVE Ordered(Waiting, Waiting')
    BY <1>1, <2>4, ExpireKeepsOrder
  <2>. QED  BY <1>1, <2>1, <2>2, <2>3, <2>4 DEF Next
<1>2. ASSUME Inv, [Next]_vars
      PROVE  [\A e \in ToSet(Waiting) \cap ToSet(Waiting'), f \in ToSet(Waiting') :
                Before(Waiting, e, f) \/ f \notin ToSet(Waiting) =>
                  Before(Waiting', e, f)]_<<pending, drainers>>
  <2>1. CASE Next
    BY <1>1, <1>2, <2>1 DEF Ordered
  <2>2. CASE UNCHANGED vars
    BY <2>2 DEF vars
  <2>. QED  BY <1>2, <2>1, <2>2
<1>. QED  BY <1>2, Invariance, PTL DEF Spec, OrderKept

-----------------------------------------------------------------------------
(***************************************************************************)
(* What the WeChat adapter has fetched, it hands on once.                  *)
(***************************************************************************)

\* Messages this adapter has looked at.
Known == ToSet(seen) \cup forgotten

\* Nothing is known of a message the cursor has not passed, and what is on its
\* way has its cursor in the file.
Fetched ==
  /\ Known \cup ToSet(pendingMessages) \cup ToSet(batch) \cup handed \subseteq 1 .. cursor
  /\ hand <= cursor
  /\ qr => /\ ToSet(pendingMessages) \cup ToSet(batch) \cup handed \subseteq 1 .. saved
           /\ hand <= saved

\* What is queued was looked at; what is there twice, or was handed on already,
\* had left the window by then.
Once ==
  /\ ToSet(pendingMessages) \cup ({hand} \ {0}) \subseteq Known
  /\ \A m \in ToSet(batch) : m \in Known \/ m \notin handed
  /\ \A m \in ToSet(pendingMessages) : m \in handed \/ m = hand => m \in forgotten
  /\ hand \in handed => hand \in forgotten
  /\ \A i, j \in DOMAIN pendingMessages :
       i # j /\ pendingMessages[i] = pendingMessages[j] => pendingMessages[i] \in forgotten

IlinkInv == IlinkTypeOK /\ Fetched /\ Once

-----------------------------------------------------------------------------
LEMMA Numbers == MaxMsgs \in Nat /\ Msgs = 1 .. MaxMsgs
<1>1. Sender \in Seq(Users \cup {Self})
  BY WechatAssumption
<1>. QED  BY <1>1 DEF MaxMsgs, Msgs

\* The window keeps its length, gains the message, and loses at most one.
LEMMA WindowMoves ==
  ASSUME IlinkTypeOK, NEW m \in Msgs
  PROVE  /\ Window(m) \in Seq(Msgs) /\ Len(Window(m)) <= WindowSize
         /\ ToSet(Window(m)) \subseteq ToSet(seen) \cup {m}
         /\ m \in ToSet(Window(m))
<1>1. seen \in Seq(Msgs) /\ Len(seen) <= WindowSize /\ WindowSize \in Nat \ {0}
  BY WechatAssumption DEF IlinkTypeOK
<1>2. CASE Len(seen) >= WindowSize
  <2>1. seen # <<>>
    BY <1>1, <1>2
  <2>2. /\ Tail(seen) \in Seq(Msgs) /\ ToSet(Tail(seen)) \subseteq ToSet(seen)
        /\ Len(Tail(seen)) = Len(seen) - 1
    BY <1>1, <2>1, TailList
  <2>3. /\ Append(Tail(seen), m) \in Seq(Msgs)
        /\ ToSet(Append(Tail(seen), m)) = ToSet(Tail(seen)) \cup {m}
    <3>. DEFINE rest == Tail(seen)
    <3>1. rest \in Seq(Msgs)
      BY <2>2
    <3>. HIDE DEF rest
    <3>2. /\ Append(rest, m) \in Seq(Msgs)
          /\ ToSet(Append(rest, m)) = ToSet(rest) \cup {m}
      BY <3>1, AppendList
    <3>. QED  BY <3>2 DEF rest
  <2>4. Len(Append(Tail(seen), m)) = Len(seen)
    BY <1>1, <2>2
  <2>. QED  BY <1>1, <1>2, <2>2, <2>3, <2>4 DEF Window
<1>3. CASE ~(Len(seen) >= WindowSize)
  <2>1. /\ Append(seen, m) \in Seq(Msgs) /\ ToSet(Append(seen, m)) = ToSet(seen) \cup {m}
    BY <1>1, AppendList
  <2>2. Len(Append(seen, m)) = Len(seen) + 1 /\ Len(seen) \in Nat
    BY <1>1
  <2>3. Len(seen) + 1 <= WindowSize
    BY <1>1, <1>3, <2>2
  <2>. QED  BY <1>3, <2>1, <2>2, <2>3 DEF Window
<1>. QED  BY <1>2, <1>3

\* The answer of a poll: one that comes again, perhaps, and the next ones.
LEMMA AnswerTypes ==
  ASSUME IlinkTypeOK, NEW n \in 0 .. MaxMsgs, cursor + n <= sent, NEW again \in Repeats
  PROVE  LET new == [k \in 1 .. n |-> cursor + k] IN
         /\ again \o new \in Seq(Msgs)
         /\ ToSet(again \o new) = ToSet(again) \cup (cursor + 1) .. (cursor + n)
         /\ ToSet(again) \subseteq Known
         /\ cursor + n \in 0 .. sent
<1>. DEFINE new == [k \in 1 .. n |-> cursor + k]
<1>1. /\ sent \in 0 .. MaxMsgs /\ cursor \in 0 .. sent /\ MaxMsgs \in Nat /\ n \in Nat
      /\ seen \in Seq(Msgs) /\ forgotten \subseteq Msgs
  BY Numbers DEF IlinkTypeOK
<1>2. new \in Seq(Msgs) /\ Len(new) = n /\ \A k \in 1 .. n : new[k] = cursor + k
  <2>1. \A k \in 1 .. n : cursor + k \in Msgs
    BY <1>1, Numbers
  <2>. QED  BY <1>1, <2>1
<1>. HIDE DEF new
<1>3. ASSUME NEW x PROVE x \in ToSet(new) <=> x \in (cursor + 1) .. (cursor + n)
  <2>1. ASSUME x \in ToSet(new) PROVE x \in (cursor + 1) .. (cursor + n)
    <3>1. PICK k \in 1 .. Len(new) : new[k] = x
      BY <1>2, <2>1, ByIndex
    <3>. QED  BY <1>1, <1>2, <3>1
  <2>2. ASSUME x \in (cursor + 1) .. (cursor + n) PROVE x \in ToSet(new)
    <3>1. x - cursor \in 1 .. n /\ cursor + (x - cursor) = x
      BY <1>1, <2>2
    <3>. QED  BY <1>2, <3>1, ByIndex
  <2>. QED  BY <2>1, <2>2
<1>4. again \in Seq(Msgs) /\ ToSet(again) \subseteq Known
  <2>1. CASE again = <<>>
    BY <2>1, EmptyList
  <2>2. CASE \E m \in ToSet(seen) \cup forgotten : again = <<m>>
    <3>1. PICK m \in ToSet(seen) \cup forgotten : again = <<m>>
      BY <2>2
    <3>2. m \in Msgs
      BY <1>1, <3>1, ByIndex
    <3>3. again \in Seq(Msgs) /\ ToSet(again) = {m}
      <4>1. again \in Seq(Msgs) /\ Len(again) = 1 /\ again[1] = m
        BY <3>1, <3>2
      <4>2. \A x : x \in ToSet(again) <=> x = m
        BY <4>1, ByIndex
      <4>. QED  BY <4>1, <4>2
    <3>. QED  BY <3>1, <3>3 DEF Known
  <2>. QED  BY <2>1, <2>2 DEF Repeats
<1>5. /\ again \o new \in Seq(Msgs)
      /\ ToSet(again \o new) = ToSet(again) \cup ToSet(new)
  BY <1>2, <1>4, ConcatList
<1>6. cursor + n \in 0 .. sent
  BY <1>1
<1>. QED  BY <1>3, <1>4, <1>5, <1>6 DEF new

\* The first of what is queued, and the rest.
LEMMA QueueHead ==
  ASSUME NEW q \in Seq(Msgs), q # <<>>
  PROVE  /\ q[1] \in Msgs /\ Tail(q) \in Seq(Msgs)
         /\ ToSet(q) = ToSet(Tail(q)) \cup {q[1]}
<1>1. Head(q) = q[1]
  OBVIOUS
<1>. QED  BY <1>1, TailList

\* The types, in the parts that actions change.
Counted ==
  /\ sent \in 0 .. MaxMsgs /\ cursor \in 0 .. sent /\ qr \in BOOLEAN
  /\ saved \in 0 .. cursor /\ (~qr => saved = 0)
  /\ faults \in 0 .. MaxFaults
Linked ==
  /\ linked \in BOOLEAN /\ expired \in BOOLEAN
  /\ contexts \in [Users -> 0 .. MaxMsgs]
  /\ live \in BOOLEAN /\ connecting \in BOOLEAN /\ leaving \in {"no", "stopped", "gone"}
Queued ==
  /\ pendingMessages \in Seq(Msgs) /\ handed \subseteq Msgs
  /\ seen \in Seq(Msgs) /\ Len(seen) <= WindowSize /\ forgotten \subseteq Msgs
Received ==
  /\ step \in {"off", "head", "receive", "poll", "parse", "emit"}
  /\ hand \in 0 .. MaxMsgs /\ (hand # 0 <=> step = "emit")
  /\ batch \in Seq(Msgs) /\ (batch # <<>> => step = "parse")

LEMMA IlinkTypesStart == IlinkInit => IlinkTypeOK
<1>. SUFFICES ASSUME IlinkInit PROVE IlinkTypeOK
  OBVIOUS
<1>1. <<>> \in Seq(Msgs) /\ Len(<<>>) = 0
  OBVIOUS
<1>2. Counted
  BY Numbers, WechatAssumption DEF IlinkInit, Counted
<1>3. Linked
  <2>1. contexts \in [Users -> 0 .. MaxMsgs]
    BY Numbers DEF IlinkInit
  <2>. QED  BY <2>1 DEF IlinkInit, Linked
<1>4. Queued
  BY <1>1, WechatAssumption DEF IlinkInit, Queued
<1>5. Received
  BY <1>1, Numbers DEF IlinkInit, Received
<1>. QED  BY <1>2, <1>3, <1>4, <1>5 DEF IlinkTypeOK, Counted, Linked, Queued, Received

LEMMA IlinkTypesStep ==
  ASSUME IlinkTypeOK, [IlinkNext]_ilinkVars
  PROVE  IlinkTypeOK'
<1>. USE DEF IlinkTypeOK
<1>a. /\ MaxFaults \in Nat /\ WindowSize \in Nat \ {0} /\ MaxMsgs \in Nat
      /\ \A m \in Msgs : m \in 0 .. MaxMsgs /\ m # 0
      /\ \A m \in Msgs : Sender[m] \in Users \cup {Self}
  BY Numbers, WechatAssumption DEF MaxMsgs
<1>b. <<>> \in Seq(Msgs) /\ Len(<<>>) = 0 /\ [u \in Users |-> 0] \in [Users -> 0 .. MaxMsgs]
  BY Numbers
<1>. USE <1>a, <1>b
<1>1. ASSUME NEW ok \in BOOLEAN, Connect(ok) PROVE IlinkTypeOK'
  <2>t1. Counted'
    BY <1>1 DEF Connect, Fault, AdapterConnect, Counted
  <2>t2. Linked'
    BY <1>1 DEF Connect, AdapterConnect, Linked
  <2>t3. Queued'
    BY <1>1 DEF Connect, AdapterConnect, Queued
  <2>t4. Received'
    BY <1>1 DEF Connect, receiver, Received
  <2>. QED  BY <2>t1, <2>t2, <2>t3, <2>t4 DEF Counted, Linked, Queued, Received
<1>2. CASE StartReceiving
  <2>t1. Counted'
    BY <1>2 DEF StartReceiving, service, ilink, Counted
  <2>t2. Linked'
    BY <1>2 DEF StartReceiving, service, ilink, Linked
  <2>t3. Queued'
    BY <1>2 DEF StartReceiving, service, ilink, Queued
  <2>t4. Received'
    BY <1>2 DEF StartReceiving, service, ilink, Received
  <2>. QED  BY <2>t1, <2>t2, <2>t3, <2>t4 DEF Counted, Linked, Queued, Received
<1>3. CASE Disconnect
  <2>t1. Counted'
    BY <1>3 DEF Disconnect, Fault, LoopStopped, service, ilink, Counted
  <2>t2. Linked'
    BY <1>3 DEF Disconnect, Fault, LoopStopped, service, ilink, Linked
  <2>t3. Queued'
    BY <1>3 DEF Disconnect, Fault, LoopStopped, service, ilink, Queued
  <2>t4. Received'
    BY <1>3 DEF Disconnect, Fault, LoopStopped, service, ilink, Received
  <2>. QED  BY <2>t1, <2>t2, <2>t3, <2>t4 DEF Counted, Linked, Queued, Received
<1>4a. CASE AdapterDisconnect
  <2>t1. Counted'
    BY <1>4a DEF AdapterDisconnect, service, receiver, Counted
  <2>t2. Linked'
    BY <1>4a DEF AdapterDisconnect, service, receiver, Linked
  <2>t3. Queued'
    BY <1>4a DEF AdapterDisconnect, service, receiver, Queued
  <2>t4. Received'
    BY <1>4a DEF AdapterDisconnect, service, receiver, Received
  <2>. QED  BY <2>t1, <2>t2, <2>t3, <2>t4 DEF Counted, Linked, Queued, Received
<1>4. CASE Disconnected
  BY <1>4 DEF Disconnected, service, ilink, receiver
<1>5. CASE Restart
  <2>t1. Counted'
    BY <1>5 DEF Restart, Fault, LoopStopped, Counted
  <2>t2. Linked'
    BY <1>5 DEF Restart, Fault, LoopStopped, Linked
  <2>t3. Queued'
    BY <1>5 DEF Restart, Fault, LoopStopped, Queued
  <2>t4. Received'
    BY <1>5 DEF Restart, Fault, LoopStopped, Received
  <2>. QED  BY <2>t1, <2>t2, <2>t3, <2>t4 DEF Counted, Linked, Queued, Received
<1>6. CASE Write
  BY <1>6 DEF Write, ilink, receiver, runtime
<1>7. CASE TokenExpires
  BY <1>7 DEF TokenExpires, Fault, ilink, receiver, runtime
<1>8. CASE SeenExpires
  <2>1. /\ Tail(seen) \in Seq(Msgs) /\ Len(Tail(seen)) <= WindowSize /\ seen[1] \in Msgs
    BY <1>8 DEF SeenExpires
  <2>. QED  BY <1>8, <2>1 DEF SeenExpires, Fault, service, receiver, runtime
<1>9. CASE LoopHead
  BY <1>9 DEF LoopHead, LoopAt, service, ilink, runtime
<1>10. CASE Receive
  <2>1. CASE pendingMessages # <<>>
    BY <1>10, <2>1, QueueHead DEF Receive, LoopAt, service, runtime
  <2>2. CASE pendingMessages = <<>>
    BY <1>10, <2>2 DEF Receive, LoopAt, AdapterConnect, service, runtime, ilink
  <2>. QED  BY <2>1, <2>2
<1>11. CASE Parse
  <2>1. batch[1] \in Msgs /\ Tail(batch) \in Seq(Msgs)
    BY <1>11, QueueHead DEF Parse
  <2>2. CASE batch[1] \in ToSet(seen)
    BY <1>11, <2>1, <2>2 DEF Parse, LoopAt, service, runtime
  <2>3. CASE batch[1] \notin ToSet(seen)
    <3>a. /\ seen' = Window(batch[1])
          /\ forgotten' = forgotten \cup (ToSet(seen) \ ToSet(seen'))
      BY <1>11, <2>3 DEF Parse
    <3>b. ToSet(seen) \subseteq Msgs
      BY ByIndex
    <3>1. /\ seen' \in Seq(Msgs) /\ Len(seen') <= WindowSize
          /\ forgotten' \subseteq Msgs
      BY <2>1, <3>a, <3>b, WindowMoves
    <3>2. pendingMessages' \in Seq(Msgs) /\ contexts' \in [Users -> 0 .. MaxMsgs]
      <4>1. CASE Sender[batch[1]] = Self
        BY <1>11, <2>3, <4>1 DEF Parse
      <4>2. CASE Sender[batch[1]] # Self
        <5>1. /\ pendingMessages' = Append(pendingMessages, batch[1])
              /\ contexts' = [contexts EXCEPT ![Sender[batch[1]]] = batch[1]]
          BY <1>11, <2>3, <4>2 DEF Parse
        <5>2. batch[1] \in 0 .. MaxMsgs
          BY <2>1
        <5>3. Append(pendingMessages, batch[1]) \in Seq(Msgs)
          BY <2>1
        <5>. QED  BY <5>1, <5>2, <5>3
      <4>. QED  BY <4>1, <4>2
    <3>. QED  BY <1>11, <2>1, <3>1, <3>2 DEF Parse, LoopAt, service, runtime
  <2>. QED  BY <2>2, <2>3
<1>12. CASE Parsed
  <2>1. CASE pendingMessages # <<>>
    BY <1>12, <2>1, QueueHead DEF Parsed, LoopAt, service, runtime
  <2>2. CASE pendingMessages = <<>>
    BY <1>12, <2>2 DEF Parsed, LoopAt, service, runtime
  <2>. QED  BY <2>1, <2>2
<1>13. CASE Emit
  <2>1. hand \in Msgs
    BY <1>13, Numbers DEF Emit, LoopAt
  <2>2. Queued'
    BY <1>13, <2>1 DEF Emit, LoopAt, ilink, Queued
  <2>. QED
    BY <1>13, <2>2 DEF Emit, LoopAt, service, runtime, ilink, Queued
<1>14. ASSUME NEW n \in 0 .. MaxMsgs, NEW again \in Repeats, PollAnswered(n, again)
       PROVE  IlinkTypeOK'
  <2>1. cursor + n <= sent /\ batch' \in Seq(Msgs) /\ cursor' \in 0 .. sent
    BY <1>14, AnswerTypes DEF PollAnswered
  <2>2. cursor' >= cursor
    BY <1>14, <2>1 DEF PollAnswered
  <2>. HIDE DEF Repeats
  <2>3. faults' \in 0 .. MaxFaults
    BY <1>14 DEF PollAnswered, Fault
  <2>4. saved' \in 0 .. cursor' /\ (~qr => saved' = 0)
    BY <1>14, <2>1, <2>2 DEF PollAnswered, SaveCursor
  <2>5. /\ step' = "parse" /\ step = "poll"
        /\ UNCHANGED <<service, runtime, linked, contexts, pendingMessages, seen,
                       forgotten, hand, handed>>
    BY <1>14 DEF PollAnswered, LoopAt, service
  <2>. QED  BY <2>1, <2>3, <2>4, <2>5 DEF service, runtime
<1>15. ASSUME NEW n \in 0 .. MaxMsgs, SaveFails(n) PROVE IlinkTypeOK'
  BY <1>15 DEF SaveFails, LoopAt, Fault, service, runtime
<1>16. CASE PollFails
  BY <1>16 DEF PollFails, LoopAt, service, runtime, ilink
<1>17. CASE PollRefused
  BY <1>17 DEF PollRefused, service
<1>18. CASE UNCHANGED ilinkVars
  BY <1>18 DEF ilinkVars, service, ilink, receiver, runtime
<1>. QED
  BY <1>1, <1>2, <1>3, <1>4, <1>4a, <1>5, <1>6, <1>7, <1>8, <1>9, <1>10, <1>11, <1>12, <1>13,
     <1>14, <1>15, <1>16, <1>17, <1>18 DEF IlinkNext

-----------------------------------------------------------------------------
(* What the steps do to messages. *)

\* Nothing new comes, and something may be let go.
Drops ==
  /\ UNCHANGED <<qr, saved, seen, forgotten, handed>> /\ cursor' >= cursor
  /\ pendingMessages' \in {pendingMessages, <<>>} /\ batch' \in {batch, <<>>}
  /\ hand' \in {hand, 0}

\* The first of what is queued is returned.
Takes ==
  /\ hand = 0 /\ batch = <<>> /\ pendingMessages # <<>>
  /\ hand' = pendingMessages[1] /\ pendingMessages' = Tail(pendingMessages)
  /\ UNCHANGED <<qr, cursor, saved, seen, forgotten, handed, batch>>

\* An answer arrives.
Answers(n, again) ==
  /\ hand = 0 /\ batch = <<>> /\ cursor + n <= sent /\ cursor' = cursor + n
  /\ qr => saved' = cursor'
  /\ batch' = again \o [k \in 1 .. n |-> cursor + k]
  /\ UNCHANGED <<qr, seen, forgotten, handed, hand, pendingMessages>>

LEMMA MessageSteps ==
  ASSUME IlinkTypeOK, [IlinkNext]_ilinkVars
  PROVE  \/ Drops \/ Takes \/ Restart \/ SeenExpires \/ Parse \/ Emit
         \/ \E n \in 0 .. MaxMsgs, again \in Repeats : Answers(n, again)
<1>0. cursor \in Nat /\ MaxMsgs \in Nat /\ (hand # 0 <=> step = "emit")
      /\ (batch # <<>> => step = "parse")
  BY Numbers DEF IlinkTypeOK
<1>1. ASSUME NEW ok \in BOOLEAN, Connect(ok) PROVE Drops
  BY <1>0, <1>1 DEF Connect, AdapterConnect, service, receiver, Drops
<1>2. CASE StartReceiving
  BY <1>0, <1>2 DEF StartReceiving, service, ilink, Drops
<1>3. CASE Disconnect
  BY <1>0, <1>3 DEF Disconnect, LoopStopped, service, ilink, Drops
<1>4a. CASE AdapterDisconnect
  BY <1>0, <1>4a DEF AdapterDisconnect, service, receiver, Drops
<1>4. CASE Disconnected
  BY <1>0, <1>4 DEF Disconnected, service, ilink, receiver, Drops
<1>5. CASE Write
  BY <1>0, <1>5 DEF Write, ilink, receiver, runtime, Drops
<1>6. CASE TokenExpires
  BY <1>0, <1>6 DEF TokenExpires, ilink, receiver, runtime, Drops
<1>7. CASE LoopHead
  BY <1>0, <1>7 DEF LoopHead, LoopAt, service, ilink, Drops
<1>8. CASE Receive
  <2>1. CASE pendingMessages # <<>>
    BY <1>0, <1>8, <2>1 DEF Receive, LoopAt, service, Takes
  <2>2. CASE pendingMessages = <<>>
    <3>1. UNCHANGED <<qr, cursor, saved, pendingMessages, seen, forgotten>>
      BY <1>8, <2>2 DEF Receive, LoopAt, AdapterConnect, ilink
    <3>2. UNCHANGED <<hand, batch, handed>>
      BY <1>8, <2>2 DEF Receive
    <3>. QED  BY <1>0, <3>1, <3>2 DEF Drops
  <2>. QED  BY <2>1, <2>2
<1>9. CASE Parsed
  <2>1. CASE pendingMessages # <<>>
    BY <1>0, <1>9, <2>1 DEF Parsed, LoopAt, service, Takes
  <2>2. CASE pendingMessages = <<>>
    BY <1>0, <1>9, <2>2 DEF Parsed, LoopAt, service, Drops
  <2>. QED  BY <2>1, <2>2
<1>10. ASSUME NEW n \in 0 .. MaxMsgs, NEW again \in Repeats, PollAnswered(n, again)
       PROVE  Answers(n, again)
  BY <1>0, <1>10 DEF PollAnswered, LoopAt, SaveCursor, service, Answers
<1>11. ASSUME NEW n \in 0 .. MaxMsgs, SaveFails(n) PROVE Drops
  BY <1>0, <1>11 DEF SaveFails, LoopAt, service, Drops
<1>12. CASE PollFails
  BY <1>0, <1>12 DEF PollFails, LoopAt, service, ilink, Drops
<1>13. CASE PollRefused
  BY <1>0, <1>13 DEF PollRefused, service, Drops
<1>14. CASE UNCHANGED ilinkVars
  BY <1>0, <1>14 DEF ilinkVars, service, ilink, receiver, Drops
<1>. QED
  BY <1>1, <1>2, <1>3, <1>4, <1>4a, <1>5, <1>6, <1>7, <1>8, <1>9, <1>10, <1>11, <1>12,
     <1>13, <1>14 DEF IlinkNext

-----------------------------------------------------------------------------
(* The invariant. *)

LEMMA IlinkStart == IlinkInit => IlinkInv
<1>. SUFFICES ASSUME IlinkInit PROVE IlinkInv
  OBVIOUS
<1>1. /\ pendingMessages = <<>> /\ seen = <<>> /\ forgotten = {} /\ batch = <<>>
      /\ hand = 0 /\ handed = {} /\ cursor = 0 /\ saved = 0 /\ DOMAIN pendingMessages = {}
  BY DEF IlinkInit
<1>2. Fetched
  BY <1>1, EmptyList DEF Fetched, Known
<1>3. Once
  BY <1>1, EmptyList DEF Once, Known
<1>. QED  BY <1>2, <1>3, IlinkTypesStart DEF IlinkInv

LEMMA IlinkStep ==
  ASSUME IlinkInv, [IlinkNext]_ilinkVars
  PROVE  IlinkInv'
<1>0. IlinkTypeOK /\ IlinkTypeOK'
  BY IlinkTypesStep DEF IlinkInv
<1>t. /\ pendingMessages \in Seq(Msgs) /\ batch \in Seq(Msgs) /\ seen \in Seq(Msgs)
      /\ cursor \in Nat /\ saved \in Nat /\ saved <= cursor /\ hand \in Nat /\ MaxMsgs \in Nat
      /\ cursor' \in Nat /\ saved' \in Nat /\ saved' <= cursor'
  BY <1>0, Numbers DEF IlinkTypeOK
<1>f. Fetched /\ Once
  BY DEF IlinkInv
<1>1. CASE Drops
  <2>1. /\ ToSet(pendingMessages') \subseteq ToSet(pendingMessages)
        /\ ToSet(batch') \subseteq ToSet(batch)
    BY <1>1, EmptyList DEF Drops
  <2>2. Known' = Known
    BY <1>1 DEF Drops, Known
  <2>3. Fetched'
    BY <1>1, <1>t, <1>f, <2>1, <2>2 DEF Drops, Fetched
  <2>4. 0 \notin handed
    BY <1>f, <1>t DEF Fetched
  <2>5. \A i, j \in DOMAIN pendingMessages' :
          i # j /\ pendingMessages'[i] = pendingMessages'[j] => pendingMessages'[i] \in forgotten
    <3>1. CASE pendingMessages' = pendingMessages
      BY <1>f, <3>1 DEF Once
    <3>2. CASE pendingMessages' = <<>>
      BY <3>2
    <3>. QED  BY <1>1, <3>1, <3>2 DEF Drops
  <2>6. \A m \in ToSet(pendingMessages') : m # 0
    BY <2>1, <1>f, <1>t DEF Fetched
  <2>7. Once'
    BY <1>1, <1>f, <2>1, <2>2, <2>4, <2>5, <2>6 DEF Drops, Once
  <2>. QED  BY <1>0, <2>3, <2>7 DEF IlinkInv
<1>2. CASE Takes
  <2>1. /\ pendingMessages[1] = hand' /\ pendingMessages' = Tail(pendingMessages)
        /\ ToSet(pendingMessages) = ToSet(pendingMessages') \cup {hand'}
    BY <1>2, <1>t, QueueHead DEF Takes
  <2>2. Known' = Known
    BY <1>2 DEF Takes, Known
  <2>3. Fetched'
    BY <1>2, <1>t, <1>f, <2>1, <2>2 DEF Takes, Fetched
  <2>4. /\ Len(pendingMessages') = Len(pendingMessages) - 1 /\ Len(pendingMessages) \in Nat \ {0}
        /\ DOMAIN pendingMessages = 1 .. Len(pendingMessages)
        /\ DOMAIN pendingMessages' = 1 .. Len(pendingMessages')
        /\ \A i \in 1 .. Len(pendingMessages') : pendingMessages'[i] = pendingMessages[i + 1]
    BY <1>2, <1>t DEF Takes
  <2>5. \A i, j \in DOMAIN pendingMessages' :
          i # j /\ pendingMessages'[i] = pendingMessages'[j] => pendingMessages'[i] \in forgotten
    <3>. TAKE i, j \in DOMAIN pendingMessages'
    <3>1. i + 1 \in DOMAIN pendingMessages /\ j + 1 \in DOMAIN pendingMessages
      BY <2>4
    <3>. QED  BY <1>f, <2>4, <3>1 DEF Once
  <2>6. hand' \in ToSet(pendingMessages') => hand' \in forgotten
    <3>. SUFFICES ASSUME hand' \in ToSet(pendingMessages') PROVE hand' \in forgotten
      OBVIOUS
    <3>1. PICK i \in 1 .. Len(pendingMessages') : pendingMessages'[i] = hand'
      BY <2>4 DEF ToSet
    <3>2. /\ i + 1 \in DOMAIN pendingMessages /\ 1 \in DOMAIN pendingMessages /\ i + 1 # 1
          /\ pendingMessages[1] = pendingMessages[i + 1]
      BY <2>1, <2>4, <3>1
    <3>. QED  BY <1>f, <2>1, <3>2 DEF Once
  <2>7. Once'
    BY <1>2, <1>f, <2>1, <2>2, <2>5, <2>6 DEF Takes, Once
  <2>. QED  BY <1>0, <2>3, <2>7 DEF IlinkInv
<1>3. CASE Restart
  <2>1. /\ pendingMessages' = <<>> /\ seen' = <<>> /\ forgotten' = {} /\ batch' = <<>>
        /\ hand' = 0 /\ saved' = saved /\ qr' = qr
        /\ qr => cursor' = saved /\ handed' = handed
        /\ ~qr => handed' = {}
    BY <1>3 DEF Restart, LoopStopped, service
  <2>2. /\ ToSet(pendingMessages') = {} /\ ToSet(batch') = {} /\ Known' = {}
        /\ DOMAIN pendingMessages' = {}
    BY <2>1, EmptyList DEF Known
  <2>3. Fetched'
    BY <1>t, <1>f, <2>1, <2>2 DEF Fetched
  <2>4. 0 \notin handed'
    BY <1>f, <1>t, <2>1 DEF Fetched
  <2>5. Once'
    BY <2>1, <2>2, <2>4 DEF Once
  <2>. QED  BY <1>0, <2>3, <2>5 DEF IlinkInv
<1>4. CASE SeenExpires
  <2>1. /\ forgotten' = forgotten \cup {seen[1]} /\ ToSet(seen) = ToSet(seen') \cup {seen[1]}
        /\ UNCHANGED <<qr, cursor, saved, pendingMessages, batch, hand, handed>>
    BY <1>4, <1>t, QueueHead DEF SeenExpires, service, receiver
  <2>2. Known' = Known
    BY <2>1 DEF Known
  <2>3. Fetched' /\ Once'
    BY <1>f, <2>1, <2>2 DEF Fetched, Once
  <2>. QED  BY <1>0, <2>3 DEF IlinkInv
<1>5. CASE Parse
  <2>. DEFINE m == batch[1]
  <2>1. /\ m \in Msgs /\ batch' = Tail(batch) /\ ToSet(batch) = ToSet(batch') \cup {m}
        /\ UNCHANGED <<qr, cursor, saved, hand, handed>> /\ hand = 0
    BY <1>5, <1>t, <1>0, QueueHead DEF Parse, LoopAt, service, IlinkTypeOK
  <2>2. CASE m \in ToSet(seen)
    <3>1. UNCHANGED <<seen, forgotten, pendingMessages>>
      BY <1>5, <2>2 DEF Parse
    <3>2. Fetched' /\ Once'
      BY <1>f, <2>1, <3>1 DEF Fetched, Once, Known
    <3>. QED  BY <1>0, <3>2 DEF IlinkInv
  <2>3. CASE m \notin ToSet(seen)
    <3>1. /\ seen' = Window(m) /\ forgotten' = forgotten \cup (ToSet(seen) \ ToSet(seen'))
          /\ pendingMessages' = pendingMessages \/ pendingMessages' = Append(pendingMessages, m)
      BY <1>5, <2>3 DEF Parse
    <3>2. Known' = Known \cup {m} /\ forgotten \subseteq forgotten'
      BY <1>0, <2>1, <3>1, WindowMoves DEF Known
    <3>3. ToSet(pendingMessages') \subseteq ToSet(pendingMessages) \cup {m}
      <4>. HIDE DEF m
      <4>1. ToSet(Append(pendingMessages, m)) = ToSet(pendingMessages) \cup {m}
        BY <1>t, <2>1, AppendList
      <4>. QED  BY <3>1, <4>1
    <3>. HIDE DEF m
    <3>4. Fetched'
      BY <1>f, <2>1, <3>2, <3>3 DEF Fetched
    <3>5. m \in handed => m \in forgotten
      BY <1>f, <2>1, <2>3 DEF Once, Known
    <3>6. m \in ToSet(pendingMessages) => m \in forgotten
      BY <1>f, <2>3 DEF Once, Known
    <3>7. \A i, j \in DOMAIN pendingMessages' :
            i # j /\ pendingMessages'[i] = pendingMessages'[j] => pendingMessages'[i] \in forgotten'
      <4>1. CASE pendingMessages' = pendingMessages
        BY <1>f, <3>2, <4>1 DEF Once
      <4>2. CASE pendingMessages' = Append(pendingMessages, m)
        <5>. SUFFICES ASSUME NEW i \in DOMAIN pendingMessages', NEW j \in DOMAIN pendingMessages',
                             i # j, pendingMessages'[i] = pendingMessages'[j]
                      PROVE  pendingMessages'[i] \in forgotten
          BY <3>2
        <5>1. /\ DOMAIN pendingMessages' = 1 .. Len(pendingMessages) + 1
              /\ DOMAIN pendingMessages = 1 .. Len(pendingMessages)
              /\ Len(pendingMessages) \in Nat
              /\ \A k \in 1 .. Len(pendingMessages) : pendingMessages'[k] = pendingMessages[k]
              /\ pendingMessages'[Len(pendingMessages) + 1] = m
          BY <1>t, <2>1, <4>2
        <5>2. CASE i = Len(pendingMessages) + 1
          <6>1. j \in DOMAIN pendingMessages /\ pendingMessages[j] = m
            BY <5>1, <5>2
          <6>. QED  BY <3>6, <5>1, <5>2, <6>1 DEF ToSet
        <5>3. CASE j = Len(pendingMessages) + 1
          <6>1. i \in DOMAIN pendingMessages /\ pendingMessages[i] = m
            BY <5>1, <5>3
          <6>. QED  BY <3>6, <5>1, <5>3, <6>1 DEF ToSet
        <5>4. CASE i # Len(pendingMessages) + 1 /\ j # Len(pendingMessages) + 1
          <6>1. i \in DOMAIN pendingMessages /\ j \in DOMAIN pendingMessages
            BY <5>1, <5>4
          <6>. QED  BY <1>f, <5>1, <6>1 DEF Once
        <5>. QED  BY <5>2, <5>3, <5>4
      <4>. QED  BY <3>1, <4>1, <4>2
    <3>8. m # 0
      BY <2>1, Numbers
    <3>9. Once'
      BY <1>f, <2>1, <3>2, <3>3, <3>5, <3>7, <3>8 DEF Once
    <3>. QED  BY <1>0, <3>4, <3>9 DEF IlinkInv
  <2>. QED  BY <2>2, <2>3
<1>6. CASE Emit
  <2>1. /\ handed' = handed \cup {hand} /\ hand' = 0 /\ hand # 0 /\ batch = <<>>
        /\ UNCHANGED <<qr, cursor, saved, pendingMessages, seen, forgotten, batch>>
    BY <1>6, <1>0 DEF Emit, LoopAt, service, ilink, IlinkTypeOK
  <2>2. Known' = Known /\ ToSet(batch) = {}
    BY <2>1, EmptyList DEF Known
  <2>3. Fetched'
    BY <1>t, <1>f, <2>1, <2>2 DEF Fetched
  <2>4. 0 \notin handed' /\ 0 \notin ToSet(pendingMessages)
    BY <1>f, <1>t, <2>1 DEF Fetched
  <2>5. Once'
    BY <1>f, <2>1, <2>2, <2>4 DEF Once
  <2>. QED  BY <1>0, <2>3, <2>5 DEF IlinkInv
<1>7. ASSUME NEW n \in 0 .. MaxMsgs, NEW again \in Repeats, Answers(n, again)
      PROVE  IlinkInv'
  <2>1. /\ ToSet(batch') = ToSet(again) \cup (cursor + 1) .. (cursor + n)
        /\ ToSet(again) \subseteq Known
    BY <1>0, <1>7, AnswerTypes DEF Answers
  <2>2. /\ cursor' = cursor + n /\ n \in Nat /\ (qr => saved' = cursor') /\ hand = 0
        /\ UNCHANGED <<qr, seen, forgotten, handed, hand, pendingMessages>>
    BY <1>7, <1>t DEF Answers
  <2>3. Known' = Known
    BY <2>2 DEF Known
  <2>4. Fetched'
    BY <1>t, <1>f, <2>1, <2>2, <2>3 DEF Fetched
  <2>5. \A k \in (cursor + 1) .. (cursor + n) : k \notin handed
    BY <1>t, <1>f DEF Fetched
  <2>6. Once'
    BY <1>f, <2>1, <2>2, <2>3, <2>5 DEF Once
  <2>. QED  BY <1>0, <2>4, <2>6 DEF IlinkInv
<1>. QED  BY <1>0, <1>1, <1>2, <1>3, <1>4, <1>5, <1>6, <1>7, MessageSteps

LEMMA IlinkInvariant == IlinkSpec => []IlinkInv
<1>1. IlinkInv /\ [IlinkNext]_ilinkVars => IlinkInv'
  BY IlinkStep
<1>. QED  BY IlinkStart, <1>1, PTL DEF IlinkSpec

\* Whatever the WeChat service sends and whenever the adapter is connected,
\* stopped or replaced, its state has the types, the window its size, and the
\* cursor of the file is never ahead of the one in memory.
THEOREM IlinkTypes == IlinkSpec => []IlinkTypeOK
<1>1. IlinkInv => IlinkTypeOK
  BY DEF IlinkInv
<1>. QED  BY IlinkInvariant, <1>1, PTL

\* What is handed on has not been handed on since the cursor was last lost, or
\* its number had left the window of seen_ids.
THEOREM HandedOnOnce == IlinkSpec => HandedOnce
<1>1. IlinkInv => (hand \notin handed \/ hand \in forgotten)
  BY DEF IlinkInv, Once
<1>. QED  BY IlinkInvariant, <1>1, PTL DEF HandedOnce

-----------------------------------------------------------------------------
(* Nothing is dropped. *)

\* A step that takes nothing back from what was handed on can lose only what
\* was in flight, or what the cursor has just passed.
LEMMA LossIsInFlight ==
  ASSUME IlinkTypeOK, cursor' \in Nat, handed \subseteq handed'
  PROVE  Missing' \ Missing \subseteq InFlight \cup (cursor + 1) .. cursor'
<1>1. cursor \in Nat
  BY Numbers DEF IlinkTypeOK
<1>. QED  BY <1>1 DEF Missing

\* A step that keeps what is in flight of users in flight, or hands it on,
\* loses nothing.
LEMMA KeptIsNotLost ==
  ASSUME cursor' = cursor, handed \subseteq handed',
         \A m \in InFlight \ {0} : m \in InFlight' \cup handed' \/ Sender[m] = Self,
         cursor \in Nat
  PROVE  Missing' \subseteq Missing
BY DEF Missing

LEMMA NothingDroppedStep ==
  ASSUME IlinkInv, IlinkTypeOK', [IlinkNext]_ilinkVars
  PROVE  \/ Missing' \subseteq Missing
         \/ /\ faults' # faults \/ (connecting /\ ~connecting') \/ leaving' # leaving
            /\ Missing' \ Missing \subseteq InFlight \cup (cursor + 1) .. cursor'
<1>. DEFINE Loses == faults' # faults \/ (connecting /\ ~connecting') \/ leaving' # leaving
            Lost == Missing' \ Missing \subseteq InFlight \cup (cursor + 1) .. cursor'
<1>0. /\ IlinkTypeOK /\ cursor \in Nat /\ cursor' \in Nat /\ MaxMsgs \in Nat /\ faults \in Nat
      /\ saved \in Nat
      /\ pendingMessages \in Seq(Msgs) /\ batch \in Seq(Msgs) /\ seen \in Seq(Msgs)
      /\ (hand # 0 <=> step = "emit") /\ (batch # <<>> => step = "parse")
  <2>1. IlinkTypeOK
    BY DEF IlinkInv
  <2>2. cursor \in Nat /\ MaxMsgs \in Nat /\ faults \in Nat /\ saved \in Nat
    BY <2>1, Numbers DEF IlinkTypeOK
  <2>3. cursor' \in Nat
    BY Numbers DEF IlinkTypeOK
  <2>4. /\ pendingMessages \in Seq(Msgs) /\ batch \in Seq(Msgs) /\ seen \in Seq(Msgs)
        /\ (hand # 0 <=> step = "emit") /\ (batch # <<>> => step = "parse")
    BY <2>1 DEF IlinkTypeOK
  <2>. QED  BY <2>1, <2>2, <2>3, <2>4
<1>. SUFFICES Missing' \subseteq Missing \/ (Loses /\ Lost)
  OBVIOUS
<1>1. Fault => Loses
  BY <1>0 DEF Fault
<1>2. handed \subseteq handed' => Lost
  BY <1>0, LossIsInFlight
<1>. HIDE DEF Loses, Lost
<1>3. ASSUME UNCHANGED <<cursor, handed, pendingMessages, batch, seen, hand>>
      PROVE  Missing' \subseteq Missing
  BY <1>3 DEF Missing, InFlight
<1>4. ASSUME hand = 0, pendingMessages # <<>>, batch = <<>>, hand' = pendingMessages[1],
             pendingMessages' = Tail(pendingMessages),
             UNCHANGED <<cursor, handed, batch, seen>>
      PROVE  Missing' \subseteq Missing
  <2>1. ToSet(pendingMessages) = ToSet(pendingMessages') \cup {hand'}
    BY <1>0, <1>4, QueueHead
  <2>2. \A m \in InFlight \ {0} : m \in InFlight'
    BY <1>4, <2>1 DEF InFlight
  <2>. QED  BY <1>0, <1>4, <2>2, KeptIsNotLost
<1>5. ASSUME NEW ok \in BOOLEAN, Connect(ok) PROVE Missing' \subseteq Missing
  BY <1>3, <1>5 DEF Connect, AdapterConnect, receiver
<1>6. CASE StartReceiving
  <2>1. Loses
    BY <1>6 DEF StartReceiving, Loses
  <2>2. handed' = handed
    BY <1>6 DEF StartReceiving
  <2>. QED  BY <1>2, <2>1, <2>2
<1>7. CASE Disconnect
  BY <1>1, <1>2, <1>7 DEF Disconnect
<1>7a. CASE AdapterDisconnect
  <2>1. Loses
    BY <1>7a DEF AdapterDisconnect, Loses
  <2>2. handed' = handed
    BY <1>7a DEF AdapterDisconnect
  <2>. QED  BY <1>2, <2>1, <2>2
<1>8. CASE Disconnected
  BY <1>3, <1>8 DEF Disconnected, ilink, receiver
<1>9. CASE Restart
  <2>1. CASE qr
    BY <1>1, <1>2, <1>9, <2>1 DEF Restart
  <2>2. CASE ~qr
    <3>1. cursor' = 0
      BY <1>9, <2>2 DEF Restart
    <3>. QED  BY <3>1 DEF Missing
  <2>. QED  BY <2>1, <2>2
<1>10. CASE Write
  BY <1>3, <1>10 DEF Write, ilink, receiver
<1>11. CASE TokenExpires
  BY <1>3, <1>11 DEF TokenExpires, ilink, receiver
<1>12. CASE SeenExpires
  BY <1>1, <1>2, <1>12 DEF SeenExpires
<1>13. CASE LoopHead
  BY <1>3, <1>13 DEF LoopHead, ilink
<1>14. CASE Receive
  <2>1. CASE pendingMessages # <<>>
    BY <1>0, <1>4, <1>14, <2>1 DEF Receive, LoopAt
  <2>2. CASE pendingMessages = <<>>
    BY <1>3, <1>14, <2>2 DEF Receive, AdapterConnect, ilink
  <2>. QED  BY <2>1, <2>2
<1>15. CASE Parse
  <2>. DEFINE m == batch[1]
  <2>1. /\ m \in Msgs /\ ToSet(batch) = ToSet(batch') \cup {m}
        /\ UNCHANGED <<cursor, hand, handed>>
    BY <1>0, <1>15, QueueHead DEF Parse
  <2>2. CASE m \in ToSet(seen)
    <3>1. UNCHANGED <<seen, pendingMessages>>
      BY <1>15, <2>2 DEF Parse
    <3>2. InFlight' = InFlight
      BY <2>1, <2>2, <3>1 DEF InFlight
    <3>. QED  BY <2>1, <3>2 DEF Missing
  <2>3. CASE m \notin ToSet(seen)
    <3>1. ToSet(seen') \subseteq ToSet(seen) \cup {m}
      BY <1>0, <1>15, <2>1, <2>3, WindowMoves DEF Parse
    <3>2. \/ Sender[m] = Self /\ pendingMessages' = pendingMessages
          \/ pendingMessages' = Append(pendingMessages, m)
      BY <1>15, <2>3 DEF Parse
    <3>. HIDE DEF m
    <3>3. ToSet(Append(pendingMessages, m)) = ToSet(pendingMessages) \cup {m}
      BY <1>0, <2>1, AppendList
    <3>4. \A x \in InFlight \ {0} : x \in InFlight' \/ Sender[x] = Self
      <4>. TAKE x \in InFlight \ {0}
      <4>1. CASE x \in ToSet(pendingMessages) \/ x = hand
        BY <2>1, <3>2, <3>3, <4>1 DEF InFlight
      <4>2. CASE x = m
        BY <3>2, <3>3, <4>2 DEF InFlight
      <4>3. CASE x \in ToSet(batch) \ ToSet(seen) /\ x # m
        BY <2>1, <3>1, <4>3 DEF InFlight
      <4>. QED  BY <4>1, <4>2, <4>3 DEF InFlight
    <3>. QED  BY <1>0, <2>1, <3>4, KeptIsNotLost
  <2>. QED  BY <2>2, <2>3
<1>16. CASE Parsed
  <2>1. CASE pendingMessages # <<>>
    BY <1>0, <1>4, <1>16, <2>1 DEF Parsed, LoopAt
  <2>2. CASE pendingMessages = <<>>
    BY <1>3, <1>16, <2>2 DEF Parsed
  <2>. QED  BY <2>1, <2>2
<1>17. CASE Emit
  <2>1. /\ handed' = handed \cup {hand} /\ UNCHANGED <<cursor, pendingMessages, batch, seen>>
    BY <1>17 DEF Emit, ilink
  <2>2. \A m \in InFlight \ {0} : m \in InFlight' \cup handed'
    BY <2>1 DEF InFlight
  <2>. QED  BY <1>0, <2>1, <2>2, KeptIsNotLost
<1>18. ASSUME NEW n \in 0 .. MaxMsgs, NEW again \in Repeats, PollAnswered(n, again)
       PROVE  Missing' \subseteq Missing \/ (Loses /\ Lost)
  <2>1. CASE again # <<>>
    BY <1>1, <1>2, <1>18, <2>1 DEF PollAnswered
  <2>2. CASE again = <<>>
    <3>1. /\ ToSet(batch') = ToSet(again) \cup (cursor + 1) .. (cursor + n)
          /\ cursor' = cursor + n /\ n \in Nat /\ batch = <<>> /\ hand = 0
          /\ UNCHANGED <<handed, pendingMessages, seen, hand>>
      BY <1>0, <1>18, AnswerTypes DEF PollAnswered, LoopAt
    <3>2. \A x \in ToSet(seen) : x <= cursor
      BY <1>0 DEF IlinkInv, Fetched, Known
    <3>3. ASSUME NEW x \in Missing' PROVE x \in Missing
      <4>1. x \in 1 .. cursor' /\ Sender[x] # Self /\ x \notin handed /\ x \notin InFlight'
        BY <3>1 DEF Missing
      <4>2. x \notin (cursor + 1) .. (cursor + n)
        BY <1>0, <3>1, <3>2, <4>1 DEF InFlight
      <4>3. x \in 1 .. cursor
        BY <1>0, <3>1, <4>1, <4>2
      <4>4. x \notin InFlight
        BY <3>1, <4>1, EmptyList DEF InFlight
      <4>. QED  BY <4>1, <4>3, <4>4 DEF Missing
    <3>. QED  BY <3>3
  <2>. QED  BY <2>1, <2>2
<1>19. ASSUME NEW n \in 0 .. MaxMsgs, SaveFails(n) PROVE Loses /\ Lost
  BY <1>1, <1>2, <1>19 DEF SaveFails
<1>20. CASE PollFails
  BY <1>3, <1>20 DEF PollFails, ilink
<1>21. CASE PollRefused
  BY <1>3, <1>21 DEF PollRefused
<1>22. CASE UNCHANGED ilinkVars
  BY <1>3, <1>22 DEF ilinkVars, ilink, receiver
<1>. QED
  BY <1>5, <1>6, <1>7, <1>7a, <1>8, <1>9, <1>10, <1>11, <1>12, <1>13, <1>14, <1>15, <1>16,
     <1>17, <1>18, <1>19, <1>20, <1>21, <1>22 DEF IlinkNext

\* A message the cursor has passed goes on through window, queue and loop: what
\* becomes missing was in flight, or just answered, when the loop was stopped, the
\* adapter disconnected, a message came again or an operation failed.
THEOREM NothingIsDropped == IlinkSpec => NothingDropped
<1>1. IlinkInv => IlinkTypeOK
  BY DEF IlinkInv
<1>2. IlinkInv /\ IlinkTypeOK' /\ [IlinkNext]_ilinkVars =>
        \/ Missing' \subseteq Missing
        \/ /\ faults' # faults \/ (connecting /\ ~connecting') \/ leaving' # leaving
           /\ Missing' \ Missing \subseteq InFlight \cup (cursor + 1) .. cursor'
  BY NothingDroppedStep
<1>. QED  BY IlinkInvariant, <1>1, <1>2, PTL DEF NothingDropped, IlinkSpec
=============================================================================
