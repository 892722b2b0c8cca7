--------------------- MODULE ExtensionActivation_proofs ---------------------
(***************************************************************************)
(* Proofs about ExtensionActivation, for any finite set of extensions with *)
(* any dependencies and any activation events, through any number of       *)
(* installations, removals and crashes of the extension host.              *)
(***************************************************************************)
EXTENDS ExtensionActivation, FiniteSetTheorems, SequenceTheorems, WellFoundedInduction, TLAPS

(***************************************************************************)
(* The inductive invariant                                                 *)
(***************************************************************************)
Operation == [state : States, deps : SUBSET Extensions]

\* What goes over the connection.
DeltaMessage == [type : {"delta"}, registry : Registry]
Confirm(x) == [type |-> "confirm", extension |-> x]
HostMessage ==
  [type : {"event"}, event : Events] \cup DeltaMessage
    \cup [type : {"activate", "confirm"}, extension : Extensions]
Applied == [type |-> "applied"]
Will(x) == [type |-> "will", extension |-> x]
MainMessage == {Applied} \cup [type : {"will"}, extension : Extensions]

WellTyped ==
  /\ TypeOK
  /\ operations \in [Extensions -> Operation]
  /\ toHost \in Seq(HostMessage) /\ toMain \in Seq(MainMessage)
  /\ IsFiniteSet(requested)

\* An operation waits for all the dependencies its extension has, and has gone
\* on only when they had succeeded.
WaitsForAll(ops) ==
  \A x \in Extensions : ops[x].state = "waiting" => ops[x].deps = DependenciesOf(x)
InOrder(ops) ==
  \A x \in Extensions :
    ops[x].state \in {"asking", "activating", "ok"} =>
      \A d \in DependenciesOf(x) : ops[d].state = "ok"
Sound(ops) == ops \in [Extensions -> Operation] /\ WaitsForAll(ops) /\ InOrder(ops)

\* A queue has no message of the set M, or one at most.
Free(q, M) == \A i \in 1 .. Len(q) : q[i] \notin M
AtMostOne(q, M) == \A i, j \in 1 .. Len(q) : q[i] \in M /\ q[j] \in M => i = j

\* A delta is under way at one place at most, and only while the window waits.
OneDelta ==
  /\ AtMostOne(toHost, DeltaMessage) /\ AtMostOne(toMain, {Applied})
  /\ ~Free(toHost, DeltaMessage) =>
       adding # Idle /\ applying = Idle /\ Free(toMain, {Applied})
  /\ ~Free(toMain, {Applied}) => adding # Idle /\ applying = Idle
  /\ applying # Idle => adding # Idle

\* The question whether an extension may run, or the answer, is under way at
\* one place at most, and only while its operation waits for the answer.
OneQuestion ==
  \A x \in Extensions :
    /\ AtMostOne(toMain, {Will(x)}) /\ AtMostOne(toHost, {Confirm(x)})
    /\ ~Free(toMain, {Will(x)}) =>
         operations[x].state = "asking" /\ Free(toHost, {Confirm(x)})
    /\ ~Free(toHost, {Confirm(x)}) => operations[x].state = "asking" /\ x \in started

IInv == WellTyped /\ Sound(operations) /\ OneDelta /\ OneQuestion /\ RunningIsKnown

(***************************************************************************)
(* Sequences                                                               *)
(***************************************************************************)
LEMMA OrderOf ==
  ASSUME NEW S, IsFiniteSet(S)
  PROVE  /\ SetToSeq(S) \in [1 .. Cardinality(S) -> S]
         /\ Cardinality(S) \in Nat
         /\ DOMAIN SetToSeq(S) = 1 .. Cardinality(S)
         /\ \A i, j \in DOMAIN SetToSeq(S) : SetToSeq(S)[i] = SetToSeq(S)[j] => i = j
         /\ \A x \in S : \E i \in DOMAIN SetToSeq(S) : SetToSeq(S)[i] = x
<1>1. Cardinality(S) \in Nat /\ ExistsBijection(1 .. Cardinality(S), S)
  BY FS_CardinalityType
<1>2. PICK f \in [1 .. Cardinality(S) -> S] : IsInjective(f)
  BY <1>1 DEF ExistsBijection, Bijection, Injection
<1>3. SetToSeq(S) \in [1 .. Cardinality(S) -> S] /\ IsInjective(SetToSeq(S))
  BY <1>2 DEF SetToSeq
<1>4. \A x \in S : \E i \in 1 .. Cardinality(S) : SetToSeq(S)[i] = x
  <2> DEFINE n == Cardinality(S)
             g == SetToSeq(S)
  <2>1. IsFiniteSet(1 .. n) /\ Cardinality(1 .. n) = Cardinality(S)
    BY <1>1, FS_Interval
  <2>2. g \in Injection(1 .. n, S)
    BY <1>3 DEF Injection, IsInjective
  <2> HIDE DEF g, n
  <2>3. g \in Surjection(1 .. n, S)
    BY <2>1, <2>2, FS_Injection
  <2> QED BY <2>3 DEF Surjection, g, n
<1>5. DOMAIN SetToSeq(S) = 1 .. Cardinality(S)
  BY <1>3
<1> QED BY <1>1, <1>3, <1>4, <1>5 DEF IsInjective

LEMMA SequenceOf ==
  ASSUME NEW S, NEW n \in Nat, NEW f \in [1 .. n -> S]
  PROVE  f \in Seq(S) /\ Len(f) = n
<1>1. f \in Seq(S)
  BY SeqDef
<1> QED BY <1>1, LenProperties

\* The first message is taken from a queue.
LEMMA TailTokens ==
  ASSUME NEW T, NEW q \in Seq(T), q # <<>>, NEW M
  PROVE  /\ Head(q) \in T /\ Tail(q) \in Seq(T)
         /\ Free(q, M) => Free(Tail(q), M) /\ Head(q) \notin M
         /\ Head(q) \notin M /\ Free(Tail(q), M) => Free(q, M)
         /\ AtMostOne(q, M) => AtMostOne(Tail(q), M)
         /\ AtMostOne(q, M) /\ Head(q) \in M => Free(Tail(q), M) /\ ~Free(q, M)
<1>1. Len(q) \in Nat /\ Len(q) >= 1 /\ Tail(q) \in Seq(T) /\ Len(Tail(q)) = Len(q) - 1
  BY HeadTailProperties, EmptySeq, LenProperties
<1>2. Head(q) = q[1] /\ 1 \in 1 .. Len(q) /\ Head(q) \in T
  BY <1>1, HeadTailProperties
<1>3. \A i \in 1 .. Len(Tail(q)) : Tail(q)[i] = q[i + 1] /\ i + 1 \in 1 .. Len(q)
  BY <1>1, HeadTailProperties
<1>4. \A i \in 1 .. Len(q) : i = 1 \/ (i - 1 \in 1 .. Len(Tail(q)) /\ Tail(q)[i - 1] = q[i])
  BY <1>1, <1>3
<1>5. Free(q, M) => Free(Tail(q), M) /\ Head(q) \notin M
  BY <1>2, <1>3 DEF Free
<1>6. Head(q) \notin M /\ Free(Tail(q), M) => Free(q, M)
  BY <1>2, <1>4 DEF Free
<1>7. ASSUME AtMostOne(q, M), NEW i \in 1 .. Len(Tail(q)), NEW j \in 1 .. Len(Tail(q)),
             Tail(q)[i] \in M, Tail(q)[j] \in M
      PROVE  i = j
  <2>1. i + 1 = j + 1
    BY <1>7, <1>3 DEF AtMostOne
  <2> QED BY <2>1, <1>1
<1>8. ASSUME AtMostOne(q, M), Head(q) \in M, NEW i \in 1 .. Len(Tail(q)), Tail(q)[i] \in M
      PROVE  FALSE
  <2>1. i + 1 = 1
    BY <1>8, <1>2, <1>3 DEF AtMostOne
  <2> QED BY <2>1, <1>1
<1> QED BY <1>1, <1>2, <1>5, <1>6, <1>7, <1>8 DEF AtMostOne, Free

\* Messages are added to a queue.
LEMMA ConcatTokens ==
  ASSUME NEW T, NEW q \in Seq(T), NEW r \in Seq(T), NEW M
  PROVE  /\ q \o r \in Seq(T)
         /\ Free(q \o r, M) <=> Free(q, M) /\ Free(r, M)
         /\ AtMostOne(q, M) /\ AtMostOne(r, M) /\ (Free(q, M) \/ Free(r, M))
              => AtMostOne(q \o r, M)
<1> DEFINE w == q \o r
<1>1. w \in Seq(T) /\ Len(q) \in Nat /\ Len(r) \in Nat /\ Len(w) = Len(q) + Len(r)
  BY ConcatProperties, LenProperties
<1>2. \A i \in 1 .. Len(w) :
        \/ i \in 1 .. Len(q) /\ w[i] = q[i]
        \/ i - Len(q) \in 1 .. Len(r) /\ w[i] = r[i - Len(q)]
  BY <1>1, ConcatProperties
<1>3. \A i \in 1 .. Len(q) : i \in 1 .. Len(w) /\ w[i] = q[i]
  BY <1>1, ConcatProperties
<1>4. \A i \in 1 .. Len(r) : i + Len(q) \in 1 .. Len(w) /\ w[i + Len(q)] = r[i]
  BY <1>1, ConcatProperties
<1> HIDE DEF w
<1>5. Free(w, M) <=> Free(q, M) /\ Free(r, M)
  BY <1>2, <1>3, <1>4 DEF Free
<1>6. ASSUME AtMostOne(q, M), AtMostOne(r, M), Free(q, M) \/ Free(r, M),
             NEW i \in 1 .. Len(w), NEW j \in 1 .. Len(w), w[i] \in M, w[j] \in M
      PROVE  i = j
  <2>1. CASE Free(r, M)
    BY <2>1, <1>2, <1>6 DEF AtMostOne, Free
  <2>2. CASE Free(q, M)
    <3>1. i - Len(q) = j - Len(q)
      BY <2>2, <1>2, <1>6 DEF AtMostOne, Free
    <3> QED BY <3>1, <1>1
  <2> QED BY <1>6, <2>1, <2>2
<1> QED BY <1>1, <1>5, <1>6 DEF AtMostOne, w

LEMMA AppendTokens ==
  ASSUME NEW T, NEW q \in Seq(T), NEW m \in T, NEW M
  PROVE  /\ Append(q, m) \in Seq(T)
         /\ Free(Append(q, m), M) <=> Free(q, M) /\ m \notin M
         /\ AtMostOne(q, M) /\ (Free(q, M) \/ m \notin M) => AtMostOne(Append(q, m), M)
<1>1. <<m>> \in Seq(T) /\ Len(<<m>>) = 1 /\ <<m>>[1] = m
  OBVIOUS
<1>2. Append(q, m) = q \o <<m>>
  BY AppendIsConcat
<1>3. AtMostOne(<<m>>, M) /\ (Free(<<m>>, M) <=> m \notin M)
  <2>1. \A i \in 1 .. Len(<<m>>) : i = 1
    BY <1>1
  <2>2. 1 \in 1 .. Len(<<m>>)
    BY <1>1
  <2> QED BY <1>1, <2>1, <2>2 DEF AtMostOne, Free
<1>4. /\ q \o <<m>> \in Seq(T)
      /\ Free(q \o <<m>>, M) <=> Free(q, M) /\ Free(<<m>>, M)
      /\ AtMostOne(q, M) /\ AtMostOne(<<m>>, M) /\ (Free(q, M) \/ Free(<<m>>, M))
            => AtMostOne(q \o <<m>>, M)
  BY <1>1, ConcatTokens
<1> QED BY <1>2, <1>3, <1>4

LEMMA EmptyTokens ==
  ASSUME NEW M
  PROVE  Free(<<>>, M) /\ AtMostOne(<<>>, M)
BY DEF Free, AtMostOne

\* A question for each extension of a set.
LEMMA QuestionsFor ==
  ASSUME NEW S \in SUBSET Extensions, NEW q,
         q = [i \in DOMAIN SetToSeq(S) |-> [type |-> "will", extension |-> SetToSeq(S)[i]]]
  PROVE  /\ q \in Seq(MainMessage)
         /\ Free(q, {Applied})
         /\ \A x \in Extensions : AtMostOne(q, {Will(x)}) /\ (x \in S <=> ~Free(q, {Will(x)}))
<1> DEFINE s == SetToSeq(S)
           n == Cardinality(S)
<1>1. IsFiniteSet(S)
  BY ConstantsAssumption, FS_Subset
<1>2. /\ s \in [1 .. n -> S] /\ n \in Nat /\ DOMAIN s = 1 .. n
      /\ \A i, j \in 1 .. n : s[i] = s[j] => i = j
  BY <1>1, OrderOf
<1>3. \A x \in S : \E i \in 1 .. n : s[i] = x
  BY <1>1, OrderOf
<1> HIDE DEF s, n
<1>4. q = [i \in 1 .. n |-> [type |-> "will", extension |-> s[i]]]
  BY <1>2 DEF s
<1>5. \A i \in 1 .. n : /\ q[i] = [type |-> "will", extension |-> s[i]] /\ s[i] \in S
                        /\ q[i].extension = s[i] /\ q[i] \in MainMessage /\ q[i] # Applied
  BY <1>2, <1>4 DEF MainMessage, Applied
<1>6. q \in [1 .. n -> MainMessage]
  <2>1. q = [i \in 1 .. n |-> q[i]]
    BY <1>4
  <2> QED BY <2>1, <1>5
<1>7. q \in Seq(MainMessage) /\ Len(q) = n
  BY <1>2, <1>6, SequenceOf
<1>8. Free(q, {Applied})
  BY <1>5, <1>7 DEF Free
<1>9. ASSUME NEW x \in Extensions
      PROVE  AtMostOne(q, {Will(x)}) /\ (x \in S <=> ~Free(q, {Will(x)}))
  <2> DEFINE w == Will(x)
  <2>0. w.extension = x
    BY DEF Will
  <2> HIDE DEF w
  <2>1. \A i \in 1 .. n : q[i] = w => s[i] = x
    BY <1>5, <2>0
  <2>2. \A i, j \in 1 .. n : q[i] = w /\ q[j] = w => i = j
    BY <2>1, <1>2
  <2>3. x \notin S => \A i \in 1 .. n : q[i] # w
    BY <2>1, <1>5
  <2>4. ASSUME x \in S
        PROVE  \E i \in 1 .. n : q[i] = w
    <3>1. PICK i \in 1 .. n : s[i] = x
      BY <2>4, <1>3
    <3>2. q[i] = w
      BY <3>1, <1>5 DEF w, Will
    <3> QED BY <3>2
  <2>5. AtMostOne(q, {w})
    BY <2>2, <1>7 DEF AtMostOne
  <2>6. x \in S <=> ~Free(q, {w})
    BY <2>3, <2>4, <1>7 DEF Free
  <2> QED BY <2>5, <2>6 DEF w
<1> QED BY <1>7, <1>8, <1>9

\* Calls of $activate() and $activateByEvent().
LEMMA Requests ==
  ASSUME NEW S, IsFiniteSet(S), NEW q,
         \/ /\ S \subseteq Extensions
            /\ q = [i \in DOMAIN SetToSeq(S) |-> [type |-> "activate", extension |-> SetToSeq(S)[i]]]
         \/ /\ S \subseteq Events
            /\ q = [i \in DOMAIN SetToSeq(S) |-> [type |-> "event", event |-> SetToSeq(S)[i]]]
  PROVE  /\ q \in Seq(HostMessage)
         /\ Free(q, DeltaMessage) /\ AtMostOne(q, DeltaMessage)
         /\ \A x \in Extensions : Free(q, {Confirm(x)}) /\ AtMostOne(q, {Confirm(x)})
<1> DEFINE s == SetToSeq(S)
           n == Cardinality(S)
<1>1. s \in [1 .. n -> S] /\ n \in Nat /\ DOMAIN s = 1 .. n
  BY OrderOf
<1> HIDE DEF s, n
<1>2. /\ DOMAIN q = 1 .. n
      /\ q = [i \in 1 .. n |-> q[i]]
      /\ \A i \in 1 .. n : q[i] \in HostMessage /\ q[i].type \in {"activate", "event"}
  <2>1. CASE /\ S \subseteq Extensions
             /\ q = [i \in DOMAIN s |-> [type |-> "activate", extension |-> s[i]]]
    <3>1. \A i \in 1 .. n : s[i] \in Extensions /\ q[i] = [type |-> "activate", extension |-> s[i]]
      BY <2>1, <1>1
    <3> QED BY <3>1, <2>1, <1>1 DEF HostMessage
  <2>2. CASE /\ S \subseteq Events
             /\ q = [i \in DOMAIN s |-> [type |-> "event", event |-> s[i]]]
    <3>1. \A i \in 1 .. n : s[i] \in Events /\ q[i] = [type |-> "event", event |-> s[i]]
      BY <2>2, <1>1
    <3> QED BY <3>1, <2>2, <1>1 DEF HostMessage
  <2> QED BY <2>1, <2>2 DEF s
<1>3. q \in [1 .. n -> HostMessage]
  BY <1>2
<1>4. q \in Seq(HostMessage) /\ Len(q) = n
  BY <1>1, <1>3, SequenceOf
<1>5. \A i \in 1 .. n : q[i] \notin DeltaMessage /\ \A x \in Extensions : q[i] # Confirm(x)
  BY <1>2 DEF DeltaMessage, Confirm
<1> QED BY <1>4, <1>5 DEF Free, AtMostOne

(***************************************************************************)
(* Induction over the rounds in which operations go on                     *)
(***************************************************************************)
\* Every set of naturals that has a member has a smallest.
LEMMA Smallest ==
  ASSUME NEW T \in SUBSET Nat, T # {}
  PROVE  \E x \in T : \A y \in T : x <= y
<1> DEFINE R == {p \in Nat \X Nat : p[1] < p[2]}
<1>1. IsWellFoundedOn(R, Nat)
  BY NatLessThanWellFounded DEF OpToRel
<1> HIDE DEF R
<1>2. PICK x \in T : \A y \in T : ~ (<<y, x>> \in R)
  BY <1>1, WFMin
<1>3. \A y \in T : ~(y < x)
  BY <1>2 DEF R
<1> QED BY <1>2, <1>3

\* Induction over the naturals, for a set.
LEMMA InductionUpTo ==
  ASSUME NEW N \in Nat, NEW T, 0 \in T, \A n \in 0 .. N - 1 : n \in T => n + 1 \in T
  PROVE  0 .. N \subseteq T
<1> DEFINE Bad == {n \in 0 .. N : n \notin T}
<1> SUFFICES ASSUME Bad # {} PROVE FALSE
  OBVIOUS
<1>0. Bad \in SUBSET Nat
  OBVIOUS
<1> HIDE DEF Bad
<1>1. PICK m \in Bad : \A k \in Bad : m <= k
  BY <1>0, Smallest
<1> USE DEF Bad
<1>2. m \in 1 .. N /\ m \notin T
  BY <1>1
<1>3. m - 1 \in T /\ m - 1 \in 0 .. N - 1
  BY <1>1, <1>2
<1> QED BY <1>2, <1>3

Limit == Cardinality(Extensions)

LEMMA LimitIsNumber == Limit \in Nat
BY ConstantsAssumption, FS_CardinalityType DEF Limit

\* The operations after each round of Settled().
Round(ops) == [x \in Extensions |-> Woken(ops, x)]
Rounds(ops) ==
  CHOOSE f : f = [n \in 0 .. Cardinality(Extensions) |->
    IF n = 0 THEN ops ELSE LET before == f[n - 1] IN [x \in Extensions |-> Woken(before, x)]]

LEMMA RoundsExist ==
  ASSUME NEW ops
  PROVE  /\ Rounds(ops)[0] = ops
         /\ \A n \in 1 .. Limit : Rounds(ops)[n] = Round(Rounds(ops)[n - 1])
         /\ Settled(ops) = Rounds(ops)[Limit]
<1> DEFINE Table(g, m) == g = [n \in 0 .. m |-> IF n = 0 THEN ops ELSE Round(g[n - 1])]
           T == {m \in Nat : \E g : Table(g, m)}
<1>1. 0 \in T
  <2>1. Table([n \in 0 .. 0 |-> ops], 0)
    OBVIOUS
  <2> QED BY <2>1
<1>2. ASSUME NEW m \in Nat, m \in T
      PROVE  m + 1 \in T
  <2>1. PICK g : Table(g, m)
    BY <1>2
  <2> DEFINE h == [n \in 0 .. m + 1 |-> IF n = 0 THEN ops ELSE Round(g[n - 1])]
  <2>2. \A n \in 0 .. m : h[n] = g[n]
    BY <2>1
  <2>3. \A n \in 1 .. m + 1 : h[n] = Round(h[n - 1])
    <3> SUFFICES ASSUME NEW n \in 1 .. m + 1
                 PROVE  h[n] = Round(h[n - 1])
      OBVIOUS
    <3>1. n \in 0 .. m + 1 /\ n # 0 /\ n - 1 \in 0 .. m
      OBVIOUS
    <3>2. h[n] = Round(g[n - 1])
      BY <3>1
    <3>3. h[n - 1] = g[n - 1]
      BY <3>1, <2>2
    <3> QED BY <3>2, <3>3
  <2>4. h[0] = ops
    OBVIOUS
  <2>5. h = [n \in 0 .. m + 1 |-> h[n]]
    OBVIOUS
  <2> HIDE DEF h
  <2>6. Table(h, m + 1)
    <3>1. \A n \in 0 .. m + 1 : h[n] = IF n = 0 THEN ops ELSE Round(h[n - 1])
      BY <2>3, <2>4
    <3>2. [n \in 0 .. m + 1 |-> h[n]]
            = [n \in 0 .. m + 1 |-> IF n = 0 THEN ops ELSE Round(h[n - 1])]
      BY <3>1, Zenon
    <3> QED BY <3>2, <2>5, Zenon
  <2> QED BY <2>6
<1>3. Limit \in T
  <2> HIDE DEF T
  <2>1. 0 .. Limit \subseteq T
    BY <1>1, <1>2, LimitIsNumber, InductionUpTo
  <2> QED BY <2>1, LimitIsNumber
<1>4. PICK g : Table(g, Limit)
  BY <1>3
<1>5. Rounds(ops) = [n \in 0 .. Limit |-> IF n = 0 THEN ops ELSE Round(Rounds(ops)[n - 1])]
  BY <1>4, Zenon DEF Rounds, Round, Limit
<1>6. Settled(ops) = Rounds(ops)[Limit]
  BY Zenon DEF Settled, Rounds, Limit
<1> HIDE DEF Table, T
<1> QED BY <1>5, <1>6, LimitIsNumber

(***************************************************************************)
(* Operations                                                              *)
(***************************************************************************)
\* Operations that waited have asked or failed, the others are as they were.
OnlyWaitersMoved(old, new) ==
  \A x \in Extensions :
    new[x] = old[x] \/ (old[x].state = "waiting" /\ new[x].state \in {"asking", "failed"})

LEMMA RoundIsSound ==
  ASSUME NEW ops, Sound(ops)
  PROVE  Sound(Round(ops)) /\ OnlyWaitersMoved(ops, Round(ops))
<1> DEFINE new == Round(ops)
<1>1. ASSUME NEW x \in Extensions
      PROVE  /\ new[x] \in Operation
             /\ new[x] = ops[x] \/ (ops[x].state = "waiting" /\ new[x].state \in {"asking", "failed"})
             /\ new[x].state = "waiting" => new[x] = ops[x]
             /\ new[x].state = "asking" /\ new[x] # ops[x] =>
                  \A d \in ops[x].deps : ops[d].state = "ok"
  <2>1. ops[x] \in Operation /\ new[x] = Woken(ops, x)
    BY <1>1 DEF Sound, Round
  <2>2. \A s \in States : /\ [ops[x] EXCEPT !.state = s] \in Operation
                          /\ [ops[x] EXCEPT !.state = s].state = s
    BY <2>1 DEF Operation
  <2> QED BY <2>1, <2>2 DEF Woken, States
<1>2. new \in [Extensions -> Operation]
  BY <1>1 DEF Round
<1> HIDE DEF new
<1>3. WaitsForAll(new)
  BY <1>1 DEF Sound, WaitsForAll
<1>4. InOrder(new)
  <2> SUFFICES ASSUME NEW x \in Extensions, new[x].state \in {"asking", "activating", "ok"},
                      NEW d \in DependenciesOf(x)
               PROVE  new[d].state = "ok"
    BY DEF InOrder
  <2>1. d \in Extensions
    BY ConstantsAssumption DEF DependenciesOf, Range
  <2>2. ops[d].state = "ok"
    <3>1. CASE new[x] = ops[x]
      BY <3>1 DEF Sound, InOrder
    <3>2. CASE new[x] # ops[x]
      BY <3>2, <1>1 DEF Sound, WaitsForAll
    <3> QED BY <3>1, <3>2
  <2> QED BY <2>1, <2>2, <1>1
<1> QED BY <1>1, <1>2, <1>3, <1>4 DEF Sound, OnlyWaitersMoved, new

LEMMA SettledIsSound ==
  ASSUME NEW ops, Sound(ops)
  PROVE  Sound(Settled(ops)) /\ OnlyWaitersMoved(ops, Settled(ops))
<1> DEFINE R == Rounds(ops)
           T == {n \in Nat : n \in 0 .. Limit => Sound(R[n]) /\ OnlyWaitersMoved(ops, R[n])}
<1>1. 0 \in T
  BY RoundsExist DEF OnlyWaitersMoved
<1>2. ASSUME NEW n \in 0 .. Limit - 1, n \in T
      PROVE  n + 1 \in T
  <2>1. n \in 0 .. Limit /\ n + 1 \in 1 .. Limit /\ n + 1 \in Nat /\ (n + 1) - 1 = n
    BY LimitIsNumber
  <2>2. R[n + 1] = Round(R[n])
    BY <2>1, RoundsExist
  <2>3. Sound(R[n]) /\ OnlyWaitersMoved(ops, R[n])
    BY <2>1, <1>2
  <2> HIDE DEF R
  <2>4. Sound(R[n + 1]) /\ OnlyWaitersMoved(R[n], R[n + 1])
    BY <2>2, <2>3, RoundIsSound
  <2>5. OnlyWaitersMoved(ops, R[n + 1])
    BY <2>3, <2>4 DEF OnlyWaitersMoved
  <2> QED BY <2>1, <2>4, <2>5
<1>3. Limit \in T
  <2> HIDE DEF T
  <2>1. 0 .. Limit \subseteq T
    BY <1>1, <1>2, LimitIsNumber, InductionUpTo
  <2> QED BY <2>1, LimitIsNumber
<1> QED BY <1>3, LimitIsNumber, RoundsExist

\* Only extensions without an operation are requested.
Reached(S) ==
  CHOOSE f : f = [n \in 0 .. Cardinality(Extensions) |->
    IF n = 0 THEN {x \in S : operations[x].state = "none"}
    ELSE LET before == f[n - 1]
         IN before \cup {x \in UNION {KnownDependencies(x) : x \in before} :
                           operations[x].state = "none"}]

NewOf(Q) == {x \in Q : operations[x].state = "none"}
Grown(Q) == Q \cup NewOf(UNION {KnownDependencies(x) : x \in Q})

LEMMA ReachedExist ==
  ASSUME NEW S
  PROVE  /\ Reached(S)[0] = NewOf(S)
         /\ \A n \in 1 .. Limit : Reached(S)[n] = Grown(Reached(S)[n - 1])
         /\ WithDependencies(S) = Reached(S)[Limit]
<1> DEFINE Table(g, m) == g = [n \in 0 .. m |-> IF n = 0 THEN NewOf(S) ELSE Grown(g[n - 1])]
           T == {m \in Nat : \E g : Table(g, m)}
<1>1. 0 \in T
  <2> DEFINE g == [n \in 0 .. 0 |-> NewOf(S)]
  <2>1. Table(g, 0)
    OBVIOUS
  <2> HIDE DEF g, Table
  <2> QED BY <2>1
<1>2. ASSUME NEW m \in Nat, m \in T
      PROVE  m + 1 \in T
  <2>1. PICK g : Table(g, m)
    BY <1>2
  <2> DEFINE h == [n \in 0 .. m + 1 |-> IF n = 0 THEN NewOf(S) ELSE Grown(g[n - 1])]
  <2>2. \A n \in 0 .. m : h[n] = g[n]
    BY <2>1
  <2>3. \A n \in 1 .. m + 1 : h[n] = Grown(h[n - 1])
    <3> SUFFICES ASSUME NEW n \in 1 .. m + 1
                 PROVE  h[n] = Grown(h[n - 1])
      OBVIOUS
    <3>1. n \in 0 .. m + 1 /\ n # 0 /\ n - 1 \in 0 .. m
      OBVIOUS
    <3>2. h[n] = Grown(g[n - 1])
      BY <3>1
    <3>3. h[n - 1] = g[n - 1]
      BY <3>1, <2>2
    <3> QED BY <3>2, <3>3
  <2>4. h[0] = NewOf(S)
    OBVIOUS
  <2>5. h = [n \in 0 .. m + 1 |-> h[n]]
    OBVIOUS
  <2> HIDE DEF h
  <2>6. Table(h, m + 1)
    <3>1. \A n \in 0 .. m + 1 : h[n] = IF n = 0 THEN NewOf(S) ELSE Grown(h[n - 1])
      BY <2>3, <2>4
    <3>2. [n \in 0 .. m + 1 |-> h[n]]
            = [n \in 0 .. m + 1 |-> IF n = 0 THEN NewOf(S) ELSE Grown(h[n - 1])]
      BY <3>1, Zenon
    <3> QED BY <3>2, <2>5, Zenon
  <2> HIDE DEF Table
  <2> QED BY <2>6
<1>3. Limit \in T
  <2> HIDE DEF T
  <2>1. 0 .. Limit \subseteq T
    BY <1>1, <1>2, LimitIsNumber, InductionUpTo
  <2> QED BY <2>1, LimitIsNumber
<1>4. PICK g : Table(g, Limit)
  BY <1>3
<1> DEFINE R == Reached(S)
<1>5. Table(R, Limit)
  BY <1>4, Zenon DEF Reached, Limit, NewOf, Grown
<1>6. WithDependencies(S) = R[Limit]
  BY Zenon DEF WithDependencies, Reached, Limit
<1>7. R[0] = NewOf(S) /\ \A n \in 1 .. Limit : R[n] = Grown(R[n - 1])
  <2> HIDE DEF R
  <2> QED BY <1>5, LimitIsNumber
<1> QED BY <1>6, <1>7

LEMMA RequestedAreNew ==
  ASSUME NEW S, NEW x \in WithDependencies(S)
  PROVE  operations[x].state = "none"
<1> DEFINE R == Reached(S)
           U == {n \in Nat : n \in 0 .. Limit => R[n] \subseteq NewOf(R[n])}
<1>1. R[0] = NewOf(S) /\ \A n \in 1 .. Limit : R[n] = Grown(R[n - 1])
  BY ReachedExist
<1>2. WithDependencies(S) = R[Limit]
  BY ReachedExist
<1> HIDE DEF R
<1>3. 0 \in U
  BY <1>1 DEF NewOf
<1>4. ASSUME NEW n \in 0 .. Limit - 1, n \in U
      PROVE  n + 1 \in U
  <2>1. n \in 0 .. Limit /\ n + 1 \in 1 .. Limit /\ n + 1 \in Nat /\ (n + 1) - 1 = n
    BY LimitIsNumber
  <2>2. R[n + 1] = Grown(R[n])
    BY <2>1, <1>1
  <2>3. R[n] \subseteq NewOf(R[n])
    BY <2>1, <1>4
  <2>4. R[n + 1] \subseteq NewOf(R[n + 1])
    BY <2>2, <2>3 DEF Grown, NewOf
  <2> QED BY <2>1, <2>4
<1>5. Limit \in U
  <2> HIDE DEF U
  <2>1. 0 .. Limit \subseteq U
    BY <1>3, <1>4, LimitIsNumber, InductionUpTo
  <2> QED BY <2>1, LimitIsNumber
<1> QED BY <1>2, <1>5, LimitIsNumber DEF NewOf

LEMMA RequestedIsSound ==
  ASSUME NEW S, Sound(operations)
  PROVE  /\ Sound(Requested(S))
         /\ \A x \in Extensions :
              \/ Requested(S)[x] = operations[x]
              \/ /\ operations[x].state = "none"
                 /\ Requested(S)[x].state \in {"waiting", "failed"}
<1> DEFINE new == Requested(S)
<1>1. ASSUME NEW x \in Extensions
      PROVE  \/ new[x] = operations[x] /\ operations[x] \in Operation
             \/ /\ operations[x].state = "none" /\ new[x] \in Operation
                /\ new[x].state \in {"waiting", "failed"}
                /\ new[x].state = "waiting" => new[x].deps = DependenciesOf(x)
  <2>1. operations[x] \in Operation
    BY DEF Sound
  <2>2. DependenciesOf(x) \in SUBSET Extensions
    BY ConstantsAssumption DEF DependenciesOf, Range
  <2>3. CASE x \notin WithDependencies(S)
    BY <2>1, <2>3 DEF Requested
  <2>4. CASE x \in WithDependencies(S)
    <3>1. operations[x].state = "none"
      BY <2>4, RequestedAreNew
    <3>2. \/ new[x] = [NoOperation EXCEPT !.state = "failed"]
          \/ new[x] = [NoOperation EXCEPT !.state = "waiting", !.deps = DependenciesOf(x)]
      BY <2>4 DEF Requested, OperationDependencies
    <3>3. CASE new[x] = [NoOperation EXCEPT !.state = "failed"]
      BY <3>1, <3>3 DEF NoOperation, Operation, States
    <3>4. CASE new[x] = [NoOperation EXCEPT !.state = "waiting", !.deps = DependenciesOf(x)]
      BY <2>2, <3>1, <3>4 DEF NoOperation, Operation, States
    <3> QED BY <3>2, <3>3, <3>4
  <2> QED BY <2>3, <2>4
<1>2. new = [x \in Extensions |-> new[x]]
  BY DEF Requested
<1> HIDE DEF new
<1>3. new \in [Extensions -> Operation]
  BY <1>1, <1>2
<1>4. WaitsForAll(new)
  BY <1>1 DEF Sound, WaitsForAll
<1>5. InOrder(new)
  <2> SUFFICES ASSUME NEW x \in Extensions, new[x].state \in {"asking", "activating", "ok"},
                      NEW d \in DependenciesOf(x)
               PROVE  new[d].state = "ok"
    BY DEF InOrder
  <2>1. d \in Extensions
    BY ConstantsAssumption DEF DependenciesOf, Range
  <2>2. operations[d].state = "ok"
    BY <1>1 DEF Sound, InOrder
  <2> QED BY <2>1, <2>2, <1>1
<1>6. \A x \in Extensions :
        \/ new[x] = operations[x]
        \/ operations[x].state = "none" /\ new[x].state \in {"waiting", "failed"}
  BY <1>1
<1> QED BY <1>3, <1>4, <1>5, <1>6 DEF Sound, new

\* What Proceed() keeps: a question is added for those only that had none.
LEMMA ProceedKeeps ==
  ASSUME WellTyped, OneDelta, OneQuestion, NEW ops, Sound(ops), Proceed(ops),
         \A x \in Extensions : ops[x].state = "asking" <=> operations[x].state = "asking"
  PROVE  /\ Sound(operations')
         /\ toMain' \in Seq(MainMessage)
         /\ AtMostOne(toMain', {Applied})
         /\ Free(toMain', {Applied}) <=> Free(toMain, {Applied})
         /\ \A x \in Extensions :
              /\ AtMostOne(toMain', {Will(x)})
              /\ ~Free(toMain', {Will(x)}) =>
                    /\ operations'[x].state = "asking"
                    /\ ~Free(toMain, {Will(x)}) \/ operations[x].state # "asking"
              /\ ~Free(toMain, {Will(x)}) => ~Free(toMain', {Will(x)})
              /\ operations'[x].state = "asking" /\ operations[x].state # "asking" =>
                    ~Free(toMain', {Will(x)})
              /\ operations[x].state = "asking" => operations'[x].state = "asking"
              /\ operations'[x].state \in {"activating", "ok"} =>
                    ops[x].state \in {"activating", "ok"}
<1> DEFINE after == Settled(ops)
           A == {x \in Extensions : after[x].state = "asking" /\ operations[x].state # "asking"}
           q == [i \in DOMAIN SetToSeq(A) |-> [type |-> "will", extension |-> SetToSeq(A)[i]]]
<1>1. operations' = after /\ toMain' = toMain \o q
  BY DEF Proceed
<1>2. Sound(after) /\ OnlyWaitersMoved(ops, after)
  BY SettledIsSound
<1>3. A \in SUBSET Extensions
  OBVIOUS
<1> HIDE DEF after
<1>4. \A x \in Extensions : x \in A <=> after[x].state = "asking" /\ operations[x].state # "asking"
  OBVIOUS
<1> HIDE DEF A
<1>5. q \in Seq(MainMessage)
  BY <1>3, QuestionsFor
<1>6. Free(q, {Applied})
  BY <1>3, QuestionsFor
<1>7. \A x \in Extensions : AtMostOne(q, {Will(x)}) /\ (x \in A <=> ~Free(q, {Will(x)}))
  BY <1>3, QuestionsFor
<1> HIDE DEF q
<1>8. toMain \in Seq(MainMessage)
  BY DEF WellTyped
<1>9. /\ toMain' \in Seq(MainMessage)
      /\ AtMostOne(toMain', {Applied})
      /\ Free(toMain', {Applied}) <=> Free(toMain, {Applied})
  <2>1. AtMostOne(toMain, {Applied})
    BY DEF OneDelta
  <2>2. AtMostOne(q, {Applied})
    BY <1>6 DEF AtMostOne, Free
  <2> QED BY <1>1, <1>5, <1>6, <1>8, <2>1, <2>2, ConcatTokens
<1>10. ASSUME NEW x \in Extensions
       PROVE  /\ AtMostOne(toMain', {Will(x)})
              /\ ~Free(toMain', {Will(x)}) =>
                    /\ after[x].state = "asking"
                    /\ ~Free(toMain, {Will(x)}) \/ operations[x].state # "asking"
              /\ ~Free(toMain, {Will(x)}) => ~Free(toMain', {Will(x)})
              /\ after[x].state = "asking" /\ operations[x].state # "asking" =>
                    ~Free(toMain', {Will(x)})
              /\ operations[x].state = "asking" => after[x].state = "asking"
              /\ after[x].state \in {"activating", "ok"} => ops[x].state \in {"activating", "ok"}
  <2>1. /\ AtMostOne(toMain, {Will(x)})
        /\ ~Free(toMain, {Will(x)}) => operations[x].state = "asking"
    BY DEF OneQuestion
  <2>2. AtMostOne(q, {Will(x)}) /\ (x \in A <=> ~Free(q, {Will(x)}))
    BY <1>7
  <2>3. /\ operations[x].state = "asking" => after[x].state = "asking"
        /\ after[x].state \in {"activating", "ok"} => ops[x].state \in {"activating", "ok"}
    BY <1>2 DEF OnlyWaitersMoved
  <2>4. Free(toMain, {Will(x)}) \/ Free(q, {Will(x)})
    BY <2>1, <2>2, <1>4
  <2>5. /\ AtMostOne(toMain', {Will(x)})
        /\ Free(toMain', {Will(x)}) <=> Free(toMain, {Will(x)}) /\ Free(q, {Will(x)})
    BY <1>1, <1>5, <1>8, <2>1, <2>2, <2>4, ConcatTokens
  <2> QED BY <2>1, <2>2, <2>3, <2>5, <1>4
<1> QED BY <1>1, <1>2, <1>9, <1>10

(***************************************************************************)
(* The steps                                                               *)
(***************************************************************************)
LEMMA InitHolds ==
  ASSUME Init
  PROVE  IInv
<1>1. WellTyped
  <2>1. registry \in Registry
    BY ConstantsAssumption DEF Init, Registry, Absent
  <2>2. NoOperation \in Operation
    BY DEF NoOperation, Operation, States
  <2>3. operations \in [Extensions -> Operation]
    BY <2>2 DEF Init
  <2>4. \A x \in Extensions : operations[x].state \in States /\ operations[x].deps \subseteq Extensions
    BY <2>3 DEF Operation
  <2>5. IsFiniteSet(requested) /\ requested \in SUBSET Events /\ sent \in SUBSET requested
    BY FS_EmptySet DEF Init
  <2>6. crashes \in 0 .. MaxCrashes
    BY ConstantsAssumption DEF Init
  <2>7. awaited \in [Events -> (SUBSET Extensions) \cup {Idle}]
    BY DEF Init
  <2>8. queue \in Seq(Item) /\ toHost \in Seq(HostMessage) /\ toMain \in Seq(MainMessage)
    BY DEF Init
  <2>9. hostRegistry \in Registry /\ installs \in Registry /\ disk \in Registry
    BY <2>1 DEF Init
  <2>10. /\ draining \in BOOLEAN /\ running \in BOOLEAN
         /\ adding \in (SUBSET Extensions) \cup {Idle}
         /\ applying \in Registry \cup {Idle}
         /\ started \in SUBSET Extensions /\ alreadyActivated \in SUBSET Events
    BY DEF Init
  <2>11. TypeOK
    BY <2>1, <2>4, <2>5, <2>6, <2>7, <2>8, <2>9, <2>10 DEF TypeOK
  <2> QED BY <2>3, <2>5, <2>8, <2>11 DEF WellTyped
<1>2. \A x \in Extensions : operations[x].state = "none"
  BY DEF Init, NoOperation
<1>3. Sound(operations) /\ RunningIsKnown
  BY <1>1, <1>2 DEF WellTyped, Sound, WaitsForAll, InOrder, RunningIsKnown
<1>4. \A M : Free(toHost, M) /\ AtMostOne(toHost, M) /\ Free(toMain, M) /\ AtMostOne(toMain, M)
  BY EmptyTokens DEF Init
<1>5. OneDelta /\ OneQuestion
  BY <1>4 DEF Init, OneDelta, OneQuestion
<1> QED BY <1>1, <1>3, <1>5 DEF IInv

\* The window's own steps that touch neither the messages nor the host.
LEMMA QuietSteps ==
  ASSUME IInv, WellTyped',
         UNCHANGED <<adding, started, applying, operations, toMain>>,
         \A M : M = DeltaMessage \/ (\E x \in Extensions : M = {Confirm(x)}) =>
           /\ Free(toHost, M) => Free(toHost', M)
           /\ AtMostOne(toHost, M) => AtMostOne(toHost', M)
  PROVE  IInv'
<1>1. Sound(operations)' /\ RunningIsKnown'
  BY DEF IInv, Sound, WaitsForAll, InOrder, RunningIsKnown
<1>2. OneDelta'
  <2>1. /\ Free(toHost, DeltaMessage) => Free(toHost', DeltaMessage)
        /\ AtMostOne(toHost, DeltaMessage) => AtMostOne(toHost', DeltaMessage)
    OBVIOUS
  <2> QED BY <2>1 DEF IInv, OneDelta
<1>3. OneQuestion'
  <2> SUFFICES ASSUME NEW x \in Extensions
               PROVE  /\ AtMostOne(toMain', {Will(x)}) /\ AtMostOne(toHost', {Confirm(x)})
                      /\ ~Free(toMain', {Will(x)}) =>
                           operations'[x].state = "asking" /\ Free(toHost', {Confirm(x)})
                      /\ ~Free(toHost', {Confirm(x)}) =>
                           operations'[x].state = "asking" /\ x \in started'
    BY DEF OneQuestion
  <2>1. /\ Free(toHost, {Confirm(x)}) => Free(toHost', {Confirm(x)})
        /\ AtMostOne(toHost, {Confirm(x)}) => AtMostOne(toHost', {Confirm(x)})
    OBVIOUS
  <2> QED BY <2>1 DEF IInv, OneQuestion
<1> QED BY <1>1, <1>2, <1>3 DEF IInv

LEMMA RequestEventStep ==
  ASSUME IInv, NEW e \in Events, RequestEvent(e)
  PROVE  IInv'
<1> DEFINE m == [type |-> "event", event |-> e]
<1>1. m \in HostMessage /\ m \notin DeltaMessage /\ \A x \in Extensions : m # Confirm(x)
  BY DEF HostMessage, DeltaMessage, Confirm
<1>2. toHost \in Seq(HostMessage)
  BY DEF IInv, WellTyped
<1>3. toHost' = toHost \/ toHost' = Append(toHost, m)
  BY DEF RequestEvent, Send
<1> HIDE DEF m
<1>4. toHost' \in Seq(HostMessage)
  BY <1>1, <1>2, <1>3, AppendTokens
<1>5. ASSUME NEW M, M = DeltaMessage \/ \E x \in Extensions : M = {Confirm(x)}
      PROVE  /\ Free(toHost, M) => Free(toHost', M)
             /\ AtMostOne(toHost, M) => AtMostOne(toHost', M)
  <2>1. m \notin M
    BY <1>1, <1>5
  <2>2. CASE toHost' = toHost
    BY <2>2
  <2>3. CASE toHost' = Append(toHost, m)
    BY <2>1, <2>3, <1>1, <1>2, AppendTokens
  <2> QED BY <1>3, <2>2, <2>3
<1>6. IsFiniteSet(requested') /\ requested' \in SUBSET Events /\ sent' \in SUBSET requested'
  <2>1. IsFiniteSet(requested) /\ requested \in SUBSET Events /\ sent \in SUBSET requested
    BY DEF IInv, WellTyped, TypeOK
  <2>2. requested' = requested \cup {e} /\ (sent' = sent \/ sent' = sent \cup {e})
    BY DEF RequestEvent
  <2>3. IsFiniteSet(requested \cup {e})
    BY <2>1, FS_AddElement
  <2> QED BY <2>1, <2>2, <2>3
<1>7. WellTyped'
  BY <1>4, <1>6 DEF IInv, WellTyped, TypeOK, RequestEvent, hostVars, historyVars
<1> QED BY <1>5, <1>7, QuietSteps DEF RequestEvent, hostVars

LEMMA EnqueueStep ==
  ASSUME IInv, NEW x \in Extensions, NEW remove \in BOOLEAN, NEW add \in 0 .. MaxVersions,
         Enqueue(x, remove, add), installs' \in Registry
  PROVE  IInv'
<1>1. queue' \in Seq(Item)
  BY DEF Enqueue, IInv, WellTyped, TypeOK, Item
<1>2. disk' \in Registry
  BY DEF Enqueue, IInv, WellTyped, TypeOK, Registry
<1>3. WellTyped'
  BY <1>1, <1>2 DEF Enqueue, IInv, WellTyped, TypeOK, hostVars
<1> QED BY <1>3, QuietSteps DEF Enqueue, hostVars

LEMMA InstallStep ==
  ASSUME IInv, NEW x \in Extensions, Install(x) \/ Uninstall(x)
  PROVE  IInv'
<1>1. CASE Install(x)
  <2>1. installs' \in Registry /\ installs'[x] \in 0 .. MaxVersions
    <3>1. /\ installs \in [Extensions -> 0 .. MaxVersions] /\ installs[x] < MaxVersions
          /\ installs' = [installs EXCEPT ![x] = installs[x] + 1]
      BY <1>1 DEF Install, IInv, WellTyped, TypeOK, Registry
    <3>2. installs[x] \in 0 .. MaxVersions /\ MaxVersions \in Nat
      BY <3>1, ConstantsAssumption
    <3>3. installs[x] + 1 \in 0 .. MaxVersions
      BY <3>1, <3>2
    <3> QED BY <3>1, <3>3 DEF Registry
  <2>2. (disk[x] # Absent) \in BOOLEAN
    OBVIOUS
  <2>3. Enqueue(x, disk[x] # Absent, installs'[x])
    BY <1>1 DEF Install
  <2> QED BY <2>1, <2>2, <2>3, EnqueueStep
<1>2. CASE Uninstall(x)
  <2>1. installs' \in Registry /\ Absent \in 0 .. MaxVersions
    BY <1>2, ConstantsAssumption DEF Uninstall, IInv, WellTyped, TypeOK, Absent
  <2> QED BY <1>2, <2>1, EnqueueStep DEF Uninstall
<1> QED BY <1>1, <1>2

LEMMA EndDeltasStep ==
  ASSUME IInv, EndDeltas
  PROVE  IInv'
<1>1. WellTyped'
  BY DEF EndDeltas, IInv, WellTyped, TypeOK, hostVars, historyVars
<1> QED BY <1>1, QuietSteps DEF EndDeltas, hostVars

LEMMA BeginDeltaStep ==
  ASSUME IInv, BeginDelta
  PROVE  IInv'
<1> DEFINE x == Head(queue).extension
           removed == Head(queue).remove /\ CanRemove(x)
           added == Head(queue).add # Absent /\ (registry[x] = Absent \/ removed)
           m == [type |-> "delta", registry |-> registry']
<1>1. Head(queue) \in Item /\ queue' \in Seq(Item)
  BY HeadTailProperties, EmptySeq DEF BeginDelta, IInv, WellTyped, TypeOK
<1>2. x \in Extensions /\ Head(queue).add \in 0 .. MaxVersions
  BY <1>1 DEF Item
<1>3. \/ UNCHANGED <<registry, adding, toHost>>
      \/ /\ registry' = [registry EXCEPT ![x] = Head(queue).add]
         /\ \/ UNCHANGED <<adding, toHost>>
            \/ adding' \in {{x}, {}} /\ toHost' = Append(toHost, m)
  BY DEF BeginDelta, Send
<1> HIDE DEF x
<1>4. registry' \in Registry
  BY <1>2, <1>3 DEF IInv, WellTyped, TypeOK, Registry
<1>5. m \in HostMessage /\ m \in DeltaMessage /\ \A y \in Extensions : m # Confirm(y)
  BY <1>4 DEF HostMessage, DeltaMessage, Confirm
<1>6. adding = Idle /\ draining' = draining
      /\ UNCHANGED <<requested, sent, started, toMain, hostVars, historyVars>>
  BY DEF BeginDelta
<1>7. toHost \in Seq(HostMessage)
  BY DEF IInv, WellTyped
<1>8. CASE UNCHANGED <<adding, toHost>>
  <2>1. WellTyped'
    BY <1>1, <1>4, <1>6, <1>8 DEF IInv, WellTyped, TypeOK, hostVars, historyVars
  <2> QED BY <1>6, <1>8, <2>1, QuietSteps DEF hostVars
<1>9. CASE adding' \in {{x}, {}} /\ toHost' = Append(toHost, m)
  <2> HIDE DEF m
  <2>1. adding' \in SUBSET Extensions /\ adding' # Idle
    BY <1>2, <1>9, ConstantsAssumption
  <2>2. toHost' \in Seq(HostMessage)
    BY <1>5, <1>7, <1>9, AppendTokens
  <2>3. WellTyped'
    BY <1>1, <1>4, <1>6, <2>1, <2>2 DEF IInv, WellTyped, TypeOK, hostVars, historyVars
  <2>4. Sound(operations)' /\ RunningIsKnown'
    BY <1>6 DEF IInv, Sound, WaitsForAll, InOrder, RunningIsKnown, hostVars
  <2>5. Free(toHost, DeltaMessage) /\ Free(toMain, {Applied}) /\ applying = Idle
    BY <1>6 DEF IInv, OneDelta
  <2>6. AtMostOne(toHost', DeltaMessage)
    BY <1>5, <1>7, <1>9, <2>5, AppendTokens DEF IInv, OneDelta
  <2>7. OneDelta'
    BY <1>6, <2>1, <2>5, <2>6 DEF IInv, OneDelta, hostVars
  <2>8. ASSUME NEW y \in Extensions
        PROVE  /\ Free(toHost', {Confirm(y)}) <=> Free(toHost, {Confirm(y)})
               /\ AtMostOne(toHost, {Confirm(y)}) => AtMostOne(toHost', {Confirm(y)})
    BY <1>5, <1>7, <1>9, AppendTokens
  <2>9. OneQuestion'
    BY <1>6, <2>8 DEF IInv, OneQuestion, hostVars
  <2> QED BY <2>3, <2>4, <2>7, <2>9 DEF IInv
<1> QED BY <1>3, <1>6, <1>8, <1>9

LEMMA DeltaAppliedStep ==
  ASSUME IInv, DeltaApplied
  PROVE  IInv'
<1> DEFINE A == {x \in adding : ActivationNeeded(x)}
           q == [i \in DOMAIN SetToSeq(A) |-> [type |-> "activate", extension |-> SetToSeq(A)[i]]]
<1>1. /\ toMain \in Seq(MainMessage) /\ toMain # <<>> /\ Head(toMain) \in MainMessage
      /\ toMain' = Tail(toMain) /\ Head(toMain).type = "applied"
  BY HeadTailProperties, EmptySeq DEF DeltaApplied, Receive, IInv, WellTyped
<1>2. Head(toMain) = Applied /\ \A x \in Extensions : Head(toMain) # Will(x)
  BY <1>1 DEF MainMessage, Applied, Will
<1>3. /\ toMain' \in Seq(MainMessage)
      /\ Free(toMain', {Applied}) /\ ~Free(toMain, {Applied})
      /\ AtMostOne(toMain', {Applied})
  BY <1>1, <1>2, TailTokens DEF IInv, OneDelta
<1>4. adding # Idle /\ applying = Idle
  BY <1>3 DEF IInv, OneDelta
<1>5. A \subseteq Extensions /\ IsFiniteSet(A)
  <2>1. adding \in SUBSET Extensions
    BY <1>4 DEF IInv, WellTyped, TypeOK
  <2> QED BY <2>1, ConstantsAssumption, FS_Subset
<1>6. /\ toHost' = toHost \o q /\ adding' = Idle
      /\ UNCHANGED <<registry, queue, draining, requested, sent, started, hostVars, historyVars>>
  BY DEF DeltaApplied
<1> HIDE DEF A
<1>7. q \in Seq(HostMessage) /\ Free(q, DeltaMessage) /\ AtMostOne(q, DeltaMessage)
  BY <1>5, Requests
<1>8. \A x \in Extensions : Free(q, {Confirm(x)}) /\ AtMostOne(q, {Confirm(x)})
  BY <1>5, Requests
<1> HIDE DEF q
<1>9. toHost \in Seq(HostMessage)
  BY DEF IInv, WellTyped
<1>10. /\ toHost' \in Seq(HostMessage)
       /\ Free(toHost', DeltaMessage) <=> Free(toHost, DeltaMessage)
       /\ AtMostOne(toHost', DeltaMessage)
  BY <1>6, <1>7, <1>9, ConcatTokens DEF IInv, OneDelta
<1>11. WellTyped'
  BY <1>3, <1>6, <1>10 DEF IInv, WellTyped, TypeOK, hostVars, historyVars
<1>12. Sound(operations)' /\ RunningIsKnown'
  BY <1>6 DEF IInv, Sound, WaitsForAll, InOrder, RunningIsKnown, hostVars
<1>13. OneDelta'
  BY <1>3, <1>4, <1>6, <1>10 DEF IInv, OneDelta, hostVars
<1>14. OneQuestion'
  <2> SUFFICES ASSUME NEW x \in Extensions
               PROVE  /\ AtMostOne(toMain', {Will(x)}) /\ AtMostOne(toHost', {Confirm(x)})
                      /\ ~Free(toMain', {Will(x)}) =>
                           operations'[x].state = "asking" /\ Free(toHost', {Confirm(x)})
                      /\ ~Free(toHost', {Confirm(x)}) =>
                           operations'[x].state = "asking" /\ x \in started'
    BY DEF OneQuestion
  <2>1. /\ AtMostOne(toMain', {Will(x)})
        /\ Free(toMain, {Will(x)}) => Free(toMain', {Will(x)})
    BY <1>1, TailTokens DEF IInv, OneQuestion
  <2>2. /\ Free(toHost', {Confirm(x)}) <=> Free(toHost, {Confirm(x)})
        /\ AtMostOne(toHost', {Confirm(x)})
    BY <1>6, <1>7, <1>8, <1>9, ConcatTokens DEF IInv, OneQuestion
  <2> QED BY <1>6, <2>1, <2>2 DEF IInv, OneQuestion, hostVars
<1> QED BY <1>11, <1>12, <1>13, <1>14 DEF IInv

LEMMA WillActivateStep ==
  ASSUME IInv, WillActivate
  PROVE  IInv'
<1> DEFINE x == Head(toMain).extension
<1>1. /\ toMain \in Seq(MainMessage) /\ toMain # <<>> /\ Head(toMain) \in MainMessage
      /\ toMain' = Tail(toMain) /\ Head(toMain).type = "will"
  BY HeadTailProperties, EmptySeq DEF WillActivate, Receive, IInv, WellTyped
<1>2. x \in Extensions /\ Head(toMain) = Will(x) /\ Head(toMain) # Applied
  BY <1>1 DEF MainMessage, Applied, Will
<1>3. /\ started' = started \cup {x} /\ toHost' = Append(toHost, Confirm(x))
      /\ UNCHANGED <<registry, queue, draining, adding, requested, sent, hostVars, historyVars>>
  BY DEF WillActivate, Send, Confirm
<1> HIDE DEF x
<1>4. Confirm(x) \in HostMessage /\ Confirm(x) \notin DeltaMessage
  BY <1>2 DEF HostMessage, DeltaMessage, Confirm
<1>5. \A y \in Extensions : y # x => Confirm(x) # Confirm(y) /\ Will(x) # Will(y)
  <2>1. \A y \in Extensions : Confirm(y).extension = y /\ Will(y).extension = y
    BY DEF Confirm, Will
  <2> QED BY <1>2, <2>1
<1>6. toHost \in Seq(HostMessage)
  BY DEF IInv, WellTyped
<1>7. /\ toHost' \in Seq(HostMessage)
      /\ Free(toHost', DeltaMessage) <=> Free(toHost, DeltaMessage)
      /\ AtMostOne(toHost', DeltaMessage)
  BY <1>3, <1>4, <1>6, AppendTokens DEF IInv, OneDelta
<1>8. /\ toMain' \in Seq(MainMessage)
      /\ Free(toMain, {Applied}) <=> Free(toMain', {Applied})
      /\ AtMostOne(toMain', {Applied})
  BY <1>1, <1>2, TailTokens DEF IInv, OneDelta
<1>9. WellTyped'
  BY <1>2, <1>3, <1>7, <1>8 DEF IInv, WellTyped, TypeOK, hostVars, historyVars
<1>10. Sound(operations)' /\ RunningIsKnown'
  BY <1>3 DEF IInv, Sound, WaitsForAll, InOrder, RunningIsKnown, hostVars
<1>11. OneDelta'
  BY <1>3, <1>7, <1>8 DEF IInv, OneDelta, hostVars
<1>12. OneQuestion'
  <2> SUFFICES ASSUME NEW y \in Extensions
               PROVE  /\ AtMostOne(toMain', {Will(y)}) /\ AtMostOne(toHost', {Confirm(y)})
                      /\ ~Free(toMain', {Will(y)}) =>
                           operations'[y].state = "asking" /\ Free(toHost', {Confirm(y)})
                      /\ ~Free(toHost', {Confirm(y)}) =>
                           operations'[y].state = "asking" /\ y \in started'
    BY DEF OneQuestion
  <2>1. /\ AtMostOne(toMain, {Will(y)}) /\ AtMostOne(toHost, {Confirm(y)})
        /\ ~Free(toMain, {Will(y)}) =>
             operations[y].state = "asking" /\ Free(toHost, {Confirm(y)})
        /\ ~Free(toHost, {Confirm(y)}) => operations[y].state = "asking" /\ y \in started
    BY DEF IInv, OneQuestion
  <2>2. /\ AtMostOne(toMain', {Will(y)})
        /\ Free(toMain, {Will(y)}) => Free(toMain', {Will(y)})
    BY <1>1, <2>1, TailTokens
  <2>3. CASE y = x
    <3>1. Free(toMain', {Will(y)}) /\ ~Free(toMain, {Will(y)})
      BY <1>1, <1>2, <2>1, <2>3, TailTokens
    <3>2. AtMostOne(toHost', {Confirm(y)})
      BY <1>3, <1>4, <1>6, <2>1, <3>1, AppendTokens
    <3> QED BY <1>3, <2>1, <2>2, <2>3, <3>1, <3>2 DEF hostVars
  <2>4. CASE y # x
    <3>1. /\ Free(toHost', {Confirm(y)}) <=> Free(toHost, {Confirm(y)})
          /\ AtMostOne(toHost', {Confirm(y)})
      BY <1>3, <1>4, <1>5, <1>6, <2>1, <2>4, AppendTokens
    <3> QED BY <1>3, <2>1, <2>2, <3>1 DEF hostVars
  <2> QED BY <2>3, <2>4
<1> QED BY <1>9, <1>10, <1>11, <1>12 DEF IInv

LEMMA NoOperations ==
  ASSUME operations' = [x \in Extensions |-> NoOperation]
  PROVE  /\ Sound(operations') /\ RunningIsKnown'
         /\ \A x \in Extensions :
              operations'[x].state \in States /\ operations'[x].deps \subseteq Extensions
<1>1. NoOperation \in Operation
  BY DEF NoOperation, Operation, States
<1>2. operations' \in [Extensions -> Operation]
  BY <1>1
<1>3. \A x \in Extensions : operations'[x].state = "none"
  BY DEF NoOperation
<1> QED BY <1>2, <1>3 DEF Sound, WaitsForAll, InOrder, RunningIsKnown, Operation

LEMMA CrashStep ==
  ASSUME IInv, Crash
  PROVE  IInv'
<1>1. Sound(operations') /\ RunningIsKnown'
  BY NoOperations DEF Crash
<1>2. \A x \in Extensions :
        operations'[x].state \in States /\ operations'[x].deps \subseteq Extensions
  BY NoOperations DEF Crash
<1>3. NoExtensions \in Registry
  BY ConstantsAssumption DEF NoExtensions, Registry, Absent
<1>4. crashes' \in 0 .. MaxCrashes
  BY ConstantsAssumption DEF Crash, IInv, WellTyped, TypeOK
<1>5. awaited' \in [Events -> (SUBSET Extensions) \cup {Idle}]
  BY DEF Crash
<1>6. toHost' = <<>> /\ toMain' = <<>> /\ applying' = Idle /\ adding' = Idle
  BY DEF Crash
<1>7. draining' \in BOOLEAN
  BY DEF Crash, IInv, WellTyped, TypeOK
<1>8. WellTyped'
  <2>1. toHost' \in Seq(HostMessage) /\ toMain' \in Seq(MainMessage)
    BY <1>6
  <2>2. TypeOK'
    BY <1>2, <1>3, <1>4, <1>5, <1>6, <1>7 DEF Crash, IInv, WellTyped, TypeOK
  <2> QED BY <1>1, <2>1, <2>2 DEF Crash, IInv, WellTyped, Sound
<1>9. \A M : Free(toHost', M) /\ AtMostOne(toHost', M) /\ Free(toMain', M) /\ AtMostOne(toMain', M)
  BY <1>6, EmptyTokens
<1>10. OneDelta' /\ OneQuestion'
  BY <1>6, <1>9 DEF OneDelta, OneQuestion
<1>11. Sound(operations)'
  BY <1>1 DEF Sound, WaitsForAll, InOrder
<1> QED BY <1>1, <1>8, <1>10, <1>11 DEF IInv

LEMMA RestartStep ==
  ASSUME IInv, Restart
  PROVE  IInv'
<1> DEFINE A == {e \in requested : Interested(e, registry) # {}}
           q == [i \in DOMAIN SetToSeq(A) |-> [type |-> "event", event |-> SetToSeq(A)[i]]]
<1>1. A \subseteq Events /\ IsFiniteSet(A)
  <2>1. requested \in SUBSET Events /\ IsFiniteSet(requested)
    BY DEF IInv, WellTyped, TypeOK
  <2>2. A \subseteq requested
    OBVIOUS
  <2> HIDE DEF A
  <2> QED BY <2>1, <2>2, FS_Subset
<1>2. /\ toHost' = q /\ running' = TRUE /\ hostRegistry' = registry /\ sent' = requested
      /\ UNCHANGED <<registry, queue, draining, adding, requested, started, toMain,
                     applying, operations, awaited, alreadyActivated, historyVars>>
  BY DEF Restart
<1> HIDE DEF A
<1>3. q \in Seq(HostMessage) /\ Free(q, DeltaMessage) /\ AtMostOne(q, DeltaMessage)
  BY <1>1, Requests
<1>4. \A x \in Extensions : Free(q, {Confirm(x)}) /\ AtMostOne(q, {Confirm(x)})
  BY <1>1, Requests
<1> HIDE DEF q
<1>5. WellTyped'
  BY <1>2, <1>3 DEF IInv, WellTyped, TypeOK, historyVars
<1>6. \A M : M = DeltaMessage \/ (\E x \in Extensions : M = {Confirm(x)}) =>
        Free(toHost', M) /\ AtMostOne(toHost', M)
  BY <1>2, <1>3, <1>4
<1> QED BY <1>2, <1>5, <1>6, QuietSteps

(***************************************************************************)
(* The steps of the extension host                                         *)
(***************************************************************************)
\* A message that the host takes.
LEMMA Taken ==
  ASSUME IInv, NEW type, Handle(type)
  PROVE  /\ toHost \in Seq(HostMessage) /\ toHost # <<>>
         /\ Head(toHost) \in HostMessage /\ Head(toHost).type = type
         /\ toHost' = Tail(toHost) /\ toHost' \in Seq(HostMessage)
         /\ UNCHANGED <<mainVars, running, historyVars>>
BY TailTokens DEF Handle, IInv, WellTyped

LEMMA HandleDeltaStep ==
  ASSUME IInv, HandleDelta
  PROVE  IInv'
<1>0. Handle("delta")
  BY DEF HandleDelta
<1>1. /\ toHost \in Seq(HostMessage) /\ toHost # <<>>
      /\ Head(toHost) \in HostMessage /\ Head(toHost).type = "delta"
      /\ toHost' = Tail(toHost) /\ toHost' \in Seq(HostMessage)
      /\ UNCHANGED <<mainVars, running, historyVars>>
  BY <1>0, Taken
<1>2. /\ applying' = Head(toHost).registry
      /\ UNCHANGED <<toMain, hostRegistry, operations, awaited, alreadyActivated>>
  BY DEF HandleDelta
<1>3. /\ Head(toHost) \in DeltaMessage /\ Head(toHost).registry \in Registry
      /\ \A x \in Extensions : Head(toHost) # Confirm(x)
  BY <1>1 DEF HostMessage, DeltaMessage, Confirm
<1>4. WellTyped'
  BY <1>1, <1>2, <1>3 DEF IInv, WellTyped, TypeOK, mainVars, historyVars
<1>5. Sound(operations)' /\ RunningIsKnown'
  BY <1>1, <1>2 DEF IInv, Sound, WaitsForAll, InOrder, RunningIsKnown, mainVars
<1>6. Free(toHost', DeltaMessage) /\ ~Free(toHost, DeltaMessage)
  BY <1>1, <1>3, TailTokens DEF IInv, OneDelta
<1>7. AtMostOne(toHost', DeltaMessage)
  BY <1>6 DEF Free, AtMostOne
<1>8. adding # Idle /\ Free(toMain, {Applied}) /\ AtMostOne(toMain, {Applied})
  BY <1>6 DEF IInv, OneDelta
<1>9. OneDelta'
  BY <1>1, <1>2, <1>6, <1>7, <1>8 DEF OneDelta, mainVars
<1>10. OneQuestion'
  <2> SUFFICES ASSUME NEW x \in Extensions
               PROVE  /\ AtMostOne(toMain', {Will(x)}) /\ AtMostOne(toHost', {Confirm(x)})
                      /\ ~Free(toMain', {Will(x)}) =>
                           operations'[x].state = "asking" /\ Free(toHost', {Confirm(x)})
                      /\ ~Free(toHost', {Confirm(x)}) =>
                           operations'[x].state = "asking" /\ x \in started'
    BY DEF OneQuestion
  <2>1. /\ AtMostOne(toHost', {Confirm(x)})
        /\ Free(toHost, {Confirm(x)}) => Free(toHost', {Confirm(x)})
    BY <1>1, TailTokens DEF IInv, OneQuestion
  <2> QED BY <1>1, <1>2, <2>1 DEF IInv, OneQuestion, mainVars
<1> QED BY <1>4, <1>5, <1>9, <1>10 DEF IInv

LEMMA ApplyDeltaStep ==
  ASSUME IInv, ApplyDelta
  PROVE  IInv'
<1>1. /\ applying # Idle /\ hostRegistry' = applying /\ applying' = Idle
      /\ toMain' = Append(toMain, Applied)
      /\ UNCHANGED <<mainVars, toHost, running, operations, awaited, alreadyActivated, historyVars>>
  BY DEF ApplyDelta, Applied
<1>2. toMain \in Seq(MainMessage) /\ Applied \in MainMessage
      /\ \A x \in Extensions : Applied # Will(x)
  BY DEF IInv, WellTyped, MainMessage, Applied, Will
<1>3. adding # Idle /\ Free(toMain, {Applied}) /\ Free(toHost, DeltaMessage)
  BY <1>1 DEF IInv, OneDelta
<1>4. toMain' \in Seq(MainMessage) /\ AtMostOne(toMain', {Applied})
  BY <1>1, <1>2, <1>3, AppendTokens DEF IInv, OneDelta
<1>5. WellTyped'
  BY <1>1, <1>4 DEF IInv, WellTyped, TypeOK, mainVars, historyVars
<1>6. Sound(operations)' /\ RunningIsKnown'
  BY <1>1 DEF IInv, Sound, WaitsForAll, InOrder, RunningIsKnown, mainVars
<1>7. OneDelta'
  BY <1>1, <1>3, <1>4 DEF IInv, OneDelta, mainVars
<1>8. ASSUME NEW x \in Extensions
      PROVE  /\ AtMostOne(toMain, {Will(x)}) => AtMostOne(toMain', {Will(x)})
             /\ Free(toMain', {Will(x)}) <=> Free(toMain, {Will(x)})
  BY <1>1, <1>2, AppendTokens
<1>9. OneQuestion'
  BY <1>1, <1>8 DEF IInv, OneQuestion, mainVars
<1> QED BY <1>5, <1>6, <1>7, <1>9 DEF IInv

LEMMA HandleConfirmStep ==
  ASSUME IInv, HandleConfirm
  PROVE  IInv'
<1> DEFINE x == Head(toHost).extension
<1>0. Handle("confirm")
  BY DEF HandleConfirm
<1>1. /\ toHost \in Seq(HostMessage) /\ toHost # <<>>
      /\ Head(toHost) \in HostMessage /\ Head(toHost).type = "confirm"
      /\ toHost' = Tail(toHost) /\ toHost' \in Seq(HostMessage)
      /\ UNCHANGED <<mainVars, running, historyVars>>
  BY <1>0, Taken
<1>2. /\ operations' = [operations EXCEPT ![x].state = "activating"]
      /\ UNCHANGED <<toMain, hostRegistry, applying, awaited, alreadyActivated>>
  BY DEF HandleConfirm
<1>3. x \in Extensions /\ Head(toHost) = Confirm(x) /\ Head(toHost) \notin DeltaMessage
  BY <1>1 DEF HostMessage, DeltaMessage, Confirm
<1> HIDE DEF x
<1>4. Free(toHost', {Confirm(x)}) /\ ~Free(toHost, {Confirm(x)})
  BY <1>1, <1>3, TailTokens DEF IInv, OneQuestion
<1>5. operations[x].state = "asking" /\ x \in started /\ Free(toMain, {Will(x)})
  BY <1>3, <1>4 DEF IInv, OneQuestion
<1>6. /\ operations' \in [Extensions -> Operation]
      /\ operations'[x].state = "activating"
      /\ \A y \in Extensions : /\ y # x => operations'[y] = operations[y]
                               /\ operations[y] \in Operation /\ operations'[y] \in Operation
  <2>1. operations \in [Extensions -> Operation]
    BY DEF IInv, WellTyped
  <2>2. [operations[x] EXCEPT !.state = "activating"] \in Operation
        /\ [operations[x] EXCEPT !.state = "activating"].state = "activating"
    BY <1>3, <2>1 DEF Operation, States
  <2>3. operations' = [operations EXCEPT ![x] = [operations[x] EXCEPT !.state = "activating"]]
    BY <1>2, Zenon
  <2> QED BY <1>3, <2>1, <2>2, <2>3
<1>7. \A y \in Extensions : operations'[y].state \in States /\ operations'[y].deps \subseteq Extensions
  BY <1>6 DEF Operation
<1>8. WellTyped'
  BY <1>1, <1>2, <1>6, <1>7 DEF IInv, WellTyped, TypeOK, mainVars, historyVars
<1>9. Sound(operations') /\ RunningIsKnown'
  <2>1. \A y \in Extensions : DependenciesOf(y) \subseteq Extensions
    BY ConstantsAssumption DEF DependenciesOf, Range
  <2>2. WaitsForAll(operations')
    BY <1>6 DEF IInv, Sound, WaitsForAll
  <2>3. InOrder(operations')
    BY <1>5, <1>6, <2>1 DEF IInv, Sound, InOrder
  <2>4. RunningIsKnown'
    BY <1>1, <1>5, <1>6 DEF IInv, RunningIsKnown, mainVars
  <2> QED BY <1>6, <2>2, <2>3, <2>4 DEF Sound
<1>10. Sound(operations)'
  BY <1>9 DEF Sound, WaitsForAll, InOrder
<1>11. /\ Free(toHost', DeltaMessage) <=> Free(toHost, DeltaMessage)
       /\ AtMostOne(toHost', DeltaMessage)
  BY <1>1, <1>3, TailTokens DEF IInv, OneDelta
<1>12. OneDelta'
  BY <1>1, <1>2, <1>11 DEF IInv, OneDelta, mainVars
<1>13. OneQuestion'
  <2> SUFFICES ASSUME NEW y \in Extensions
               PROVE  /\ AtMostOne(toMain', {Will(y)}) /\ AtMostOne(toHost', {Confirm(y)})
                      /\ ~Free(toMain', {Will(y)}) =>
                           operations'[y].state = "asking" /\ Free(toHost', {Confirm(y)})
                      /\ ~Free(toHost', {Confirm(y)}) =>
                           operations'[y].state = "asking" /\ y \in started'
    BY DEF OneQuestion
  <2>1. /\ AtMostOne(toHost', {Confirm(y)})
        /\ Free(toHost, {Confirm(y)}) => Free(toHost', {Confirm(y)})
    BY <1>1, TailTokens DEF IInv, OneQuestion
  <2>2. CASE y = x
    BY <1>2, <1>4, <1>5, <2>1, <2>2 DEF IInv, OneQuestion
  <2>3. CASE y # x
    BY <1>1, <1>2, <1>6, <2>1, <2>3 DEF IInv, OneQuestion, mainVars
  <2> QED BY <2>2, <2>3
<1> QED BY <1>8, <1>9, <1>10, <1>12, <1>13 DEF IInv

LEMMA MarkIsTyped ==
  ASSUME IInv, NEW waits \in [Events -> (SUBSET Extensions) \cup {Idle}], Mark(waits)
  PROVE  /\ awaited' \in [Events -> (SUBSET Extensions) \cup {Idle}]
         /\ alreadyActivated' \in SUBSET Events
BY DEF Mark, IInv, WellTyped, TypeOK

\* The steps in which operations go on.  A message the host has taken is
\* neither a delta nor an answer.
LEMMA ProceedStep ==
  ASSUME IInv, NEW ops, Sound(ops), Proceed(ops),
         \A x \in Extensions : ops[x].state = "asking" <=> operations[x].state = "asking",
         \A x \in Extensions : ops[x].state \in {"activating", "ok"} =>
           operations[x].state \in {"activating", "ok"},
         UNCHANGED <<mainVars, running, hostRegistry, applying, historyVars>>,
         toHost' \in Seq(HostMessage),
         \A M : M = DeltaMessage \/ (\E x \in Extensions : M = {Confirm(x)}) =>
           /\ Free(toHost, M) => Free(toHost', M)
           /\ AtMostOne(toHost, M) => AtMostOne(toHost', M),
         awaited' \in [Events -> (SUBSET Extensions) \cup {Idle}],
         alreadyActivated' \in SUBSET Events
  PROVE  IInv'
<1>1. WellTyped /\ OneDelta /\ OneQuestion
  BY DEF IInv
<1>2. /\ Sound(operations')
      /\ toMain' \in Seq(MainMessage)
      /\ AtMostOne(toMain', {Applied})
      /\ Free(toMain', {Applied}) <=> Free(toMain, {Applied})
  BY <1>1, ProceedKeeps
<1>3. \A x \in Extensions :
        /\ AtMostOne(toMain', {Will(x)})
        /\ ~Free(toMain', {Will(x)}) =>
              /\ operations'[x].state = "asking"
              /\ ~Free(toMain, {Will(x)}) \/ operations[x].state # "asking"
        /\ operations[x].state = "asking" => operations'[x].state = "asking"
        /\ operations'[x].state \in {"activating", "ok"} => ops[x].state \in {"activating", "ok"}
  BY <1>1, ProceedKeeps
<1>4. \A x \in Extensions : operations'[x].state \in States /\ operations'[x].deps \subseteq Extensions
  BY <1>2 DEF Sound, Operation
<1>5. WellTyped'
  BY <1>2, <1>4 DEF IInv, WellTyped, TypeOK, Sound, mainVars, historyVars
<1>6. Sound(operations)'
  BY <1>2 DEF Sound, WaitsForAll, InOrder
<1>7. RunningIsKnown'
  BY <1>3 DEF IInv, RunningIsKnown, mainVars
<1>8. OneDelta'
  <2>1. /\ Free(toHost, DeltaMessage) => Free(toHost', DeltaMessage)
        /\ AtMostOne(toHost, DeltaMessage) => AtMostOne(toHost', DeltaMessage)
    OBVIOUS
  <2> QED BY <1>1, <1>2, <2>1 DEF OneDelta, mainVars
<1>9. OneQuestion'
  <2> SUFFICES ASSUME NEW x \in Extensions
               PROVE  /\ AtMostOne(toMain', {Will(x)}) /\ AtMostOne(toHost', {Confirm(x)})
                      /\ ~Free(toMain', {Will(x)}) =>
                           operations'[x].state = "asking" /\ Free(toHost', {Confirm(x)})
                      /\ ~Free(toHost', {Confirm(x)}) =>
                           operations'[x].state = "asking" /\ x \in started'
    BY DEF OneQuestion
  <2>1. /\ Free(toHost, {Confirm(x)}) => Free(toHost', {Confirm(x)})
        /\ AtMostOne(toHost, {Confirm(x)}) => AtMostOne(toHost', {Confirm(x)})
    OBVIOUS
  <2>2. /\ AtMostOne(toHost, {Confirm(x)})
        /\ ~Free(toMain, {Will(x)}) => Free(toHost, {Confirm(x)})
        /\ ~Free(toHost, {Confirm(x)}) => operations[x].state = "asking" /\ x \in started
    BY <1>1 DEF OneQuestion
  <2>3. started' = started
    BY DEF mainVars
  <2> QED BY <1>3, <2>1, <2>2, <2>3
<1> QED BY <1>5, <1>6, <1>7, <1>8, <1>9 DEF IInv

\* A request taken from the queue leaves deltas and answers as they were.
LEMMA RequestTaken ==
  ASSUME IInv, NEW type \in {"event", "activate"}, Handle(type)
  PROVE  \A M : M = DeltaMessage \/ (\E x \in Extensions : M = {Confirm(x)}) =>
           /\ Free(toHost, M) => Free(toHost', M)
           /\ AtMostOne(toHost, M) => AtMostOne(toHost', M)
<1>1. toHost \in Seq(HostMessage) /\ toHost # <<>> /\ toHost' = Tail(toHost)
  BY Taken
<1> QED BY <1>1, TailTokens

LEMMA HandleEventStep ==
  ASSUME IInv, HandleEvent
  PROVE  IInv'
<1> DEFINE e == Head(toHost).event
           S == Interested(e, hostRegistry)
<1>1. Handle("event") /\ hostRegistry' = hostRegistry /\ applying' = applying
  BY DEF HandleEvent
<1>2. /\ Head(toHost) \in HostMessage /\ Head(toHost).type = "event"
      /\ toHost' \in Seq(HostMessage)
      /\ UNCHANGED <<mainVars, running, historyVars>>
  BY <1>1, Taken
<1>3. e \in Events
  BY <1>2 DEF HostMessage, DeltaMessage
<1>4. \A M : M = DeltaMessage \/ (\E x \in Extensions : M = {Confirm(x)}) =>
        /\ Free(toHost, M) => Free(toHost', M)
        /\ AtMostOne(toHost, M) => AtMostOne(toHost', M)
  BY <1>1, RequestTaken
<1>5. CASE UNCHANGED <<toMain, operations, awaited, alreadyActivated>>
  <2>1. WellTyped'
    BY <1>1, <1>2, <1>5 DEF IInv, WellTyped, TypeOK, mainVars, historyVars
  <2>2. UNCHANGED <<adding, started, applying, operations, toMain>>
    BY <1>1, <1>2, <1>5 DEF mainVars
  <2> QED BY <1>4, <2>1, <2>2, QuietSteps
<1>6. CASE Proceed(Requested(S)) /\ Mark([awaited EXCEPT ![e] = S])
  <2>1. S \subseteq Extensions
    BY DEF Interested, Present
  <2> HIDE DEF e, S
  <2> DEFINE ops == Requested(S)
  <2>2. [awaited EXCEPT ![e] = S] \in [Events -> (SUBSET Extensions) \cup {Idle}]
    BY <1>3, <2>1 DEF IInv, WellTyped, TypeOK
  <2>3. /\ awaited' \in [Events -> (SUBSET Extensions) \cup {Idle}]
        /\ alreadyActivated' \in SUBSET Events
    BY <1>6, <2>2, MarkIsTyped
  <2>4. /\ Sound(ops)
        /\ \A x \in Extensions :
              \/ ops[x] = operations[x]
              \/ operations[x].state = "none" /\ ops[x].state \in {"waiting", "failed"}
    BY RequestedIsSound DEF IInv
  <2> HIDE DEF ops
  <2>5. \A x \in Extensions : ops[x].state = "asking" <=> operations[x].state = "asking"
    BY <2>4
  <2>6. \A x \in Extensions : ops[x].state \in {"activating", "ok"} =>
          operations[x].state \in {"activating", "ok"}
    BY <2>4
  <2>7. Proceed(ops)
    BY <1>6 DEF ops
  <2> QED BY <1>1, <1>2, <1>4, <2>3, <2>4, <2>5, <2>6, <2>7, ProceedStep
<1> QED BY <1>5, <1>6 DEF HandleEvent

LEMMA HandleActivateStep ==
  ASSUME IInv, HandleActivate
  PROVE  IInv'
<1> DEFINE ops == Requested({Head(toHost).extension} \cap Present(hostRegistry))
<1>1. /\ Handle("activate") /\ hostRegistry' = hostRegistry /\ applying' = applying
      /\ Proceed(ops) /\ Mark(awaited)
  BY DEF HandleActivate
<1>2. toHost' \in Seq(HostMessage) /\ UNCHANGED <<mainVars, running, historyVars>>
  BY <1>1, Taken
<1>3. \A M : M = DeltaMessage \/ (\E x \in Extensions : M = {Confirm(x)}) =>
        /\ Free(toHost, M) => Free(toHost', M)
        /\ AtMostOne(toHost, M) => AtMostOne(toHost', M)
  BY <1>1, RequestTaken
<1>4. /\ awaited' \in [Events -> (SUBSET Extensions) \cup {Idle}]
      /\ alreadyActivated' \in SUBSET Events
  <2>1. awaited \in [Events -> (SUBSET Extensions) \cup {Idle}]
    BY DEF IInv, WellTyped, TypeOK
  <2> QED BY <1>1, <2>1, MarkIsTyped
<1>5. /\ Sound(ops)
      /\ \A x \in Extensions :
            \/ ops[x] = operations[x]
            \/ operations[x].state = "none" /\ ops[x].state \in {"waiting", "failed"}
  BY RequestedIsSound DEF IInv
<1> HIDE DEF ops
<1>6. \A x \in Extensions : ops[x].state = "asking" <=> operations[x].state = "asking"
  BY <1>5
<1>7. \A x \in Extensions : ops[x].state \in {"activating", "ok"} =>
        operations[x].state \in {"activating", "ok"}
  BY <1>5
<1> QED BY <1>1, <1>2, <1>3, <1>4, <1>5, <1>6, <1>7, ProceedStep

\* An operation ends.
LEMMA FinishOps ==
  ASSUME WellTyped, Sound(operations), NEW x \in Extensions, Finish(x)
  PROVE  \E ops \in [Extensions -> Operation] :
            /\ ops[x].state \in {"ok", "failed"}
            /\ \A y \in Extensions : y # x => ops[y] = operations[y]
            /\ Sound(ops) /\ Proceed(ops)
<1>1. PICK result \in {"ok", "failed"} : Proceed([operations EXCEPT ![x].state = result])
  BY DEF Finish
<1> DEFINE ops == [operations EXCEPT ![x].state = result]
<1>2. operations[x].state = "activating"
  BY DEF Finish
<1>3. /\ ops \in [Extensions -> Operation]
      /\ ops[x].state \in {"ok", "failed"}
      /\ \A y \in Extensions : /\ y # x => ops[y] = operations[y]
                               /\ ops[y] \in Operation
  <2>1. operations \in [Extensions -> Operation]
    BY DEF WellTyped
  <2>2. [operations[x] EXCEPT !.state = result] \in Operation
        /\ [operations[x] EXCEPT !.state = result].state = result
    BY <2>1 DEF Operation, States
  <2>3. ops = [operations EXCEPT ![x] = [operations[x] EXCEPT !.state = result]]
    BY Zenon
  <2> QED BY <2>1, <2>2, <2>3
<1> HIDE DEF ops
<1>4. Sound(ops)
  <2>1. \A y \in Extensions : DependenciesOf(y) \subseteq Extensions
    BY ConstantsAssumption DEF DependenciesOf, Range
  <2>2. WaitsForAll(ops)
    BY <1>3 DEF Sound, WaitsForAll
  <2>3. InOrder(ops)
    <3> SUFFICES ASSUME NEW y \in Extensions, ops[y].state \in {"asking", "activating", "ok"},
                        NEW d \in DependenciesOf(y)
                 PROVE  ops[d].state = "ok"
      BY DEF InOrder
    <3>1. operations[y].state \in {"asking", "activating", "ok"}
      BY <1>2, <1>3
    <3>2. operations[d].state = "ok" /\ d \in Extensions
      BY <2>1, <3>1 DEF Sound, InOrder
    <3>3. d # x
      BY <1>2, <3>2
    <3> QED BY <1>3, <3>2, <3>3
  <2> QED BY <1>3, <2>2, <2>3 DEF Sound
<1>5. Proceed(ops)
  BY <1>1 DEF ops
<1> QED BY <1>3, <1>4, <1>5

LEMMA FinishStep ==
  ASSUME IInv, NEW x \in Extensions, Finish(x)
  PROVE  IInv'
<1>1. PICK ops \in [Extensions -> Operation] :
         /\ ops[x].state \in {"ok", "failed"}
         /\ \A y \in Extensions : y # x => ops[y] = operations[y]
         /\ Sound(ops) /\ Proceed(ops)
  BY FinishOps DEF IInv
<1>2. /\ operations[x].state = "activating" /\ Mark(awaited)
      /\ UNCHANGED <<mainVars, toHost, running, hostRegistry, applying, historyVars>>
  BY DEF Finish
<1>3. /\ awaited' \in [Events -> (SUBSET Extensions) \cup {Idle}]
      /\ alreadyActivated' \in SUBSET Events
  <2>1. awaited \in [Events -> (SUBSET Extensions) \cup {Idle}]
    BY DEF IInv, WellTyped, TypeOK
  <2> QED BY <1>2, <2>1, MarkIsTyped
<1>4. \A y \in Extensions : ops[y].state = "asking" <=> operations[y].state = "asking"
  BY <1>1, <1>2
<1>5. \A y \in Extensions : ops[y].state \in {"activating", "ok"} =>
        operations[y].state \in {"activating", "ok"}
  BY <1>1, <1>2
<1>6. toHost' \in Seq(HostMessage)
  BY <1>2 DEF IInv, WellTyped
<1>7. \A M : M = DeltaMessage \/ (\E y \in Extensions : M = {Confirm(y)}) =>
         /\ Free(toHost, M) => Free(toHost', M)
         /\ AtMostOne(toHost, M) => AtMostOne(toHost', M)
  BY <1>2
<1> QED BY <1>1, <1>2, <1>3, <1>4, <1>5, <1>6, <1>7, ProceedStep

(***************************************************************************)
(* The theorems                                                            *)
(***************************************************************************)
LEMMA Step ==
  ASSUME IInv, [Next]_vars
  PROVE  IInv'
<1>1. CASE UNCHANGED vars
  <2>1. WellTyped'
    BY <1>1 DEF IInv, WellTyped, TypeOK, vars, mainVars, hostVars, historyVars
  <2>2. UNCHANGED <<adding, started, applying, operations, toMain, toHost>>
    BY <1>1 DEF vars, mainVars, hostVars
  <2> QED BY <2>1, <2>2, QuietSteps
<1>2. CASE \E e \in Events : RequestEvent(e)
  BY <1>2, RequestEventStep
<1>3. CASE \E x \in Extensions : Install(x) \/ Uninstall(x)
  BY <1>3, InstallStep
<1>4. CASE Crash
  BY <1>4, CrashStep
<1>5. CASE MainSteps
  BY <1>5, BeginDeltaStep, EndDeltasStep, DeltaAppliedStep, WillActivateStep, RestartStep
     DEF MainSteps
<1>6. CASE HostSteps
  BY <1>6, HandleDeltaStep, ApplyDeltaStep, HandleEventStep, HandleActivateStep,
     HandleConfirmStep, FinishStep DEF HostSteps
<1> QED BY <1>1, <1>2, <1>3, <1>4, <1>5, <1>6 DEF Next

\* IInv is an inductive invariant.
THEOREM Invariance == Spec => []IInv
<1>1. Init => IInv
  BY InitHolds
<1>2. IInv /\ [Next]_vars => IInv'
  BY Step
<1> QED BY <1>1, <1>2, PTL DEF Spec

\* Registries, queues, operations and what is remembered have their types.
THEOREM TypeCorrect == Spec => []TypeOK
<1>1. IInv => TypeOK
  BY DEF IInv, WellTyped
<1> QED BY <1>1, Invariance, PTL DEF Spec

\* The code of an extension runs only after the code of all its dependencies
\* has been activated successfully, whichever requests created the operations
\* and however installations, removals and crashes come in between
\* (ExtensionsActivator, _waitForDepsThenActivate).
THEOREM DependenciesRunFirst == Spec => []DependenciesFirst
<1>1. IInv => DependenciesFirst
  BY DEF IInv, Sound, InOrder, DependenciesFirst
<1> QED BY <1>1, Invariance, PTL DEF Spec

\* While code of an extension runs the window knows that its activation has
\* started and will not remove it ($onWillActivateExtension, canRemoveExtension).
THEOREM WindowKnows == Spec => []RunningIsKnown
<1>1. IInv => RunningIsKnown
  BY DEF IInv
<1> QED BY <1>1, Invariance, PTL DEF Spec

(***************************************************************************)
(* Nothing hangs                                                           *)
(***************************************************************************)
\* States of an operation on its way to an end.
Busy == {"waiting", "asking", "activating"}

\* What an operation waits for has an operation itself, and one of them is on
\* its way to an end.
Known(ops) ==
  \A x \in Extensions : ops[x].state = "waiting" =>
    \A d \in DependenciesOf(x) : ops[d].state # "none"
Waits(ops) ==
  \A x \in Extensions : ops[x].state = "waiting" =>
    \E d \in DependenciesOf(x) : ops[d].state \in Busy

\* An operation that asks has its question or the answer under way.
Travels(x) == ~Free(toMain, {Will(x)}) \/ ~Free(toHost, {Confirm(x)})
Asked == \A x \in Extensions : operations[x].state = "asking" => Travels(x)

\* An event that is awaited has operations, one of them on its way to an end.
Awaiting ==
  \A e \in Events : awaited[e] # Idle =>
    /\ \A x \in awaited[e] : operations[x].state # "none"
    /\ \E x \in awaited[e] : operations[x].state \in Busy

\* Nothing is left of a host that crashed.
Stopped ==
  ~running =>
    /\ toHost = <<>> /\ toMain = <<>> /\ applying = Idle
    /\ \A x \in Extensions : operations[x].state = "none"

BInv == Known(operations) /\ Waits(operations) /\ Asked /\ Awaiting /\ Stopped

LEMMA DependenciesAreExtensions ==
  ASSUME NEW x \in Extensions
  PROVE  DependenciesOf(x) \in SUBSET Extensions /\ KnownDependencies(x) \in SUBSET Extensions
<1>1. Dependencies[x] \in Seq(Extensions)
  BY ConstantsAssumption
<1>2. \A j \in DOMAIN Dependencies[x] : Dependencies[x][j] \in Extensions
  BY <1>1
<1> QED BY <1>2 DEF DependenciesOf, Range, KnownDependencies

\* A growing chain of sets of extensions that grows no more once it has stood
\* still has stopped after as many steps as there are extensions.
LEMMA ChainStops ==
  ASSUME NEW F,
         \A n \in 0 .. Limit + 1 : F[n] \subseteq Extensions,
         \A n \in 0 .. Limit : F[n] \subseteq F[n + 1],
         \A n \in 0 .. Limit - 1 : F[n + 1] = F[n] => F[(n + 1) + 1] = F[n + 1]
  PROVE  F[Limit + 1] = F[Limit]
<1> DEFINE T == {n \in Nat : n \in 0 .. Limit => F[n + 1] = F[n] \/ Cardinality(F[n]) >= n}
<1>0. Limit \in Nat /\ IsFiniteSet(Extensions)
  BY LimitIsNumber, ConstantsAssumption
<1>1. ASSUME NEW n \in 0 .. Limit + 1
      PROVE  /\ IsFiniteSet(F[n]) /\ Cardinality(F[n]) \in Nat /\ Cardinality(F[n]) <= Limit
             /\ Limit = Cardinality(F[n]) => F[n] = Extensions
  <2>1. F[n] \in SUBSET Extensions
    BY <1>1
  <2>2. IsFiniteSet(F[n])
    BY <1>0, <2>1, FS_Subset
  <2>3. Cardinality(F[n]) \in Nat
    BY <2>2, FS_CardinalityType
  <2>4. /\ Cardinality(F[n]) <= Cardinality(Extensions)
        /\ Cardinality(Extensions) = Cardinality(F[n]) => Extensions = F[n]
    BY <1>0, <2>1, FS_Subset
  <2> QED BY <2>2, <2>3, <2>4 DEF Limit
<1>2. ASSUME NEW n \in 0 .. Limit, F[n + 1] # F[n]
      PROVE  Cardinality(F[n]) < Cardinality(F[n + 1])
  <2>1. n \in 0 .. Limit + 1 /\ n + 1 \in 0 .. Limit + 1
    BY <1>0
  <2>2. F[n] \in SUBSET F[n + 1] /\ IsFiniteSet(F[n + 1])
    BY <1>1, <2>1
  <2>3. /\ Cardinality(F[n]) <= Cardinality(F[n + 1])
        /\ Cardinality(F[n + 1]) = Cardinality(F[n]) => F[n + 1] = F[n]
    BY <2>2, FS_Subset
  <2>4. Cardinality(F[n]) \in Nat /\ Cardinality(F[n + 1]) \in Nat
    BY <1>1, <2>1
  <2> QED BY <1>2, <2>3, <2>4
<1>3. 0 \in T
  BY <1>0, <1>1
<1>4. ASSUME NEW n \in 0 .. Limit - 1, n \in T
      PROVE  n + 1 \in T
  <2>1. n \in 0 .. Limit /\ n + 1 \in 0 .. Limit /\ n + 1 \in Nat
    BY <1>0
  <2>2. F[n + 1] = F[n] \/ Cardinality(F[n]) >= n
    BY <1>4, <2>1
  <2>3. CASE F[n + 1] = F[n]
    <3>1. F[(n + 1) + 1] = F[n + 1]
      BY <2>3
    <3> QED BY <2>1, <3>1
  <2>4. CASE F[n + 1] # F[n]
    <3>1. Cardinality(F[n]) < Cardinality(F[n + 1])
      BY <1>2, <2>1, <2>4
    <3>2. Cardinality(F[n]) \in Nat /\ Cardinality(F[n + 1]) \in Nat
      BY <1>0, <1>1, <2>1
    <3>3. Cardinality(F[n + 1]) >= n + 1
      BY <2>1, <2>2, <2>4, <3>1, <3>2
    <3> QED BY <2>1, <3>3
  <2> QED BY <2>3, <2>4
<1>5. Limit \in T
  <2> HIDE DEF T
  <2>1. 0 .. Limit \subseteq T
    BY <1>0, <1>3, <1>4, InductionUpTo
  <2> QED BY <1>0, <2>1
<1>6. F[Limit + 1] = F[Limit] \/ Cardinality(F[Limit]) >= Limit
  BY <1>0, <1>5
<1>7. CASE Cardinality(F[Limit]) >= Limit
  <2>1. F[Limit] = Extensions
    BY <1>0, <1>1, <1>7
  <2>2. F[Limit] \subseteq F[Limit + 1] /\ F[Limit + 1] \subseteq Extensions
    BY <1>0
  <2> QED BY <2>1, <2>2
<1> QED BY <1>6, <1>7

\* After Settled() no operation can go on: the last round changes nothing.
LEMMA SettledIsStable ==
  ASSUME NEW ops, Sound(ops)
  PROVE  Round(Settled(ops)) = Settled(ops)
<1> DEFINE R == Rounds(ops)
           G == [n \in 0 .. Limit + 1 |-> IF n <= Limit THEN R[n] ELSE Round(R[Limit])]
           F == [n \in 0 .. Limit + 1 |-> {x \in Extensions : G[n][x].state # "waiting"}]
           T == {n \in Nat : n \in 0 .. Limit + 1 => Sound(G[n])}
<1>0. Limit \in Nat
  BY LimitIsNumber
<1>1. /\ R[0] = ops
      /\ \A n \in 1 .. Limit : R[n] = Round(R[n - 1])
      /\ Settled(ops) = R[Limit]
  BY RoundsExist
<1> HIDE DEF R
<1>2. G[0] = ops /\ G[Limit] = Settled(ops) /\ G[Limit + 1] = Round(Settled(ops))
  BY <1>0, <1>1
<1>3. ASSUME NEW n \in 0 .. Limit
      PROVE  G[n + 1] = Round(G[n])
  <2>1. n \in 0 .. Limit + 1 /\ n + 1 \in 0 .. Limit + 1 /\ n <= Limit /\ G[n] = R[n]
    BY <1>0
  <2>2. CASE n = Limit
    BY <1>1, <1>2, <2>1, <2>2
  <2>3. CASE n < Limit
    <3>1. n + 1 \in 1 .. Limit /\ (n + 1) - 1 = n /\ n + 1 <= Limit
      BY <1>0, <2>3
    <3>2. R[n + 1] = Round(R[n])
      BY <1>1, <3>1
    <3>3. G[n + 1] = R[n + 1]
      BY <2>1, <3>1
    <3> QED BY <2>1, <3>2, <3>3
  <2> QED BY <1>0, <2>1, <2>2, <2>3
<1>f. \A n \in 0 .. Limit + 1 : F[n] = {x \in Extensions : G[n][x].state # "waiting"}
  OBVIOUS
<1> HIDE DEF G, F
<1>4. 0 \in T
  BY <1>2
<1>5. ASSUME NEW n \in 0 .. (Limit + 1) - 1, n \in T
      PROVE  n + 1 \in T
  <2>1. n \in 0 .. Limit /\ n \in 0 .. Limit + 1 /\ n + 1 \in Nat
    BY <1>0
  <2>2. Sound(G[n])
    BY <1>5, <2>1
  <2>3. Sound(Round(G[n]))
    BY <2>2, RoundIsSound
  <2>4. Sound(G[n + 1])
    BY <1>3, <2>1, <2>3
  <2> QED BY <2>1, <2>4
<1>6. \A n \in 0 .. Limit + 1 : Sound(G[n])
  <2> HIDE DEF T
  <2>1. 0 .. Limit + 1 \subseteq T
    BY <1>0, <1>4, <1>5, InductionUpTo
  <2> USE DEF T
  <2> QED BY <2>1
<1> HIDE DEF T
<1>7. ASSUME NEW n \in 0 .. Limit
      PROVE  F[n] \subseteq F[n + 1] /\ (F[n + 1] = F[n] => G[n + 1] = G[n])
  <2>1. n \in 0 .. Limit + 1 /\ n + 1 \in 0 .. Limit + 1
    BY <1>0
  <2>2. Sound(G[n]) /\ Sound(G[n + 1])
    BY <1>6, <2>1
  <2>3. OnlyWaitersMoved(G[n], G[n + 1])
    BY <1>3, <2>2, RoundIsSound
  <2>4. /\ F[n] = {x \in Extensions : G[n][x].state # "waiting"}
        /\ F[n + 1] = {x \in Extensions : G[n + 1][x].state # "waiting"}
    BY <1>f, <2>1
  <2>5. F[n] \subseteq F[n + 1]
    BY <2>3, <2>4 DEF OnlyWaitersMoved
  <2>6. ASSUME F[n + 1] = F[n]
        PROVE  G[n + 1] = G[n]
    <3>1. \A x \in Extensions : G[n + 1][x] = G[n][x]
      BY <2>3, <2>4, <2>6 DEF OnlyWaitersMoved
    <3>2. G[n] \in [Extensions -> Operation] /\ G[n + 1] \in [Extensions -> Operation]
      BY <2>2 DEF Sound
    <3> QED BY <3>1, <3>2
  <2> QED BY <2>5, <2>6
<1>8. ASSUME NEW n \in 0 .. Limit - 1, F[n + 1] = F[n]
      PROVE  F[(n + 1) + 1] = F[n + 1]
  <2>1. /\ n \in 0 .. Limit /\ n + 1 \in 0 .. Limit
        /\ n + 1 \in 0 .. Limit + 1 /\ (n + 1) + 1 \in 0 .. Limit + 1
    BY <1>0
  <2>2. G[n + 1] = G[n]
    BY <1>7, <1>8, <2>1
  <2>3. G[n + 1] = Round(G[n]) /\ G[(n + 1) + 1] = Round(G[n + 1])
    BY <1>3, <2>1
  <2>4. G[(n + 1) + 1] = G[n + 1]
    BY <2>2, <2>3
  <2>5. /\ F[n + 1] = {x \in Extensions : G[n + 1][x].state # "waiting"}
        /\ F[(n + 1) + 1] = {x \in Extensions : G[(n + 1) + 1][x].state # "waiting"}
    BY <1>f, <2>1
  <2> QED BY <2>4, <2>5
<1>9. F[Limit + 1] = F[Limit]
  <2>1. \A n \in 0 .. Limit + 1 : F[n] \subseteq Extensions
    BY <1>f
  <2>2. \A n \in 0 .. Limit : F[n] \subseteq F[n + 1]
    BY <1>7
  <2>3. \A n \in 0 .. Limit - 1 : F[n + 1] = F[n] => F[(n + 1) + 1] = F[n + 1]
    BY <1>8
  <2> QED BY <2>1, <2>2, <2>3, ChainStops
<1> QED BY <1>0, <1>2, <1>7, <1>9

\* Then what still waits has something to wait for.
LEMMA SettledWaits ==
  ASSUME NEW ops, Sound(ops), Known(ops)
  PROVE  Known(Settled(ops)) /\ Waits(Settled(ops))
<1> DEFINE new == Settled(ops)
<1>1. Sound(new) /\ OnlyWaitersMoved(ops, new) /\ Round(new) = new
  BY SettledIsSound, SettledIsStable
<1> HIDE DEF new
<1>2. Known(new)
  <2> SUFFICES ASSUME NEW x \in Extensions, new[x].state = "waiting", NEW d \in DependenciesOf(x)
               PROVE  new[d].state # "none"
    BY DEF Known
  <2>1. d \in Extensions
    BY DependenciesAreExtensions
  <2>2. ops[x].state = "waiting"
    BY <1>1 DEF OnlyWaitersMoved
  <2>3. ops[d].state # "none"
    BY <2>2 DEF Known
  <2> QED BY <1>1, <2>1, <2>3 DEF OnlyWaitersMoved
<1>3. Waits(new)
  <2> SUFFICES ASSUME NEW x \in Extensions, new[x].state = "waiting"
               PROVE  \E d \in DependenciesOf(x) : new[d].state \in Busy
    BY DEF Waits
  <2>1. new[x].deps = DependenciesOf(x) /\ new[x] \in Operation
    BY <1>1 DEF Sound, WaitsForAll
  <2>2. Woken(new, x) = new[x]
    BY <1>1 DEF Round
  <2>3. \A s \in States : [new[x] EXCEPT !.state = s].state = s
    BY <2>1 DEF Operation
  <2>4. ~ \E d \in DependenciesOf(x) : new[d].state = "failed"
    BY <2>1, <2>2, <2>3 DEF Woken, States
  <2>5. ~ \A d \in DependenciesOf(x) : new[d].state = "ok"
    BY <2>1, <2>2, <2>3, <2>4 DEF Woken, States
  <2>6. PICK d \in DependenciesOf(x) : new[d].state # "ok"
    BY <2>5
  <2>7. d \in Extensions /\ new[d].state # "none" /\ new[d].state # "failed"
    BY <1>2, <2>4, DependenciesAreExtensions DEF Known
  <2>8. new[d].state \in States
    BY <1>1, <2>7 DEF Sound, Operation
  <2> QED BY <2>6, <2>7, <2>8 DEF States, Busy
<1> QED BY <1>2, <1>3 DEF new

\* What WithDependencies() comes by is closed under dependencies.
LEMMA ReachedIsClosed ==
  ASSUME NEW S \in SUBSET Extensions
  PROVE  /\ Grown(WithDependencies(S)) = WithDependencies(S)
         /\ NewOf(S) \subseteq WithDependencies(S)
<1> DEFINE R == Reached(S)
           F == [n \in 0 .. Limit + 1 |-> IF n <= Limit THEN R[n] ELSE Grown(R[Limit])]
           T == {n \in Nat : n \in 0 .. Limit + 1 => NewOf(S) \subseteq F[n] /\ F[n] \subseteq Extensions}
<1>0. Limit \in Nat
  BY LimitIsNumber
<1>1. /\ R[0] = NewOf(S)
      /\ \A n \in 1 .. Limit : R[n] = Grown(R[n - 1])
      /\ WithDependencies(S) = R[Limit]
  BY ReachedExist
<1> HIDE DEF R
<1>2. /\ F[0] = NewOf(S) /\ F[Limit] = WithDependencies(S)
      /\ F[Limit + 1] = Grown(WithDependencies(S))
  BY <1>0, <1>1
<1>3. ASSUME NEW n \in 0 .. Limit
      PROVE  F[n + 1] = Grown(F[n])
  <2>1. n \in 0 .. Limit + 1 /\ n + 1 \in 0 .. Limit + 1 /\ n <= Limit /\ F[n] = R[n]
    BY <1>0
  <2>2. CASE n = Limit
    BY <1>1, <1>2, <2>1, <2>2
  <2>3. CASE n < Limit
    <3>1. n + 1 \in 1 .. Limit /\ (n + 1) - 1 = n /\ n + 1 <= Limit
      BY <1>0, <2>3
    <3>2. R[n + 1] = Grown(R[n])
      BY <1>1, <3>1
    <3>3. F[n + 1] = R[n + 1]
      BY <2>1, <3>1
    <3> QED BY <2>1, <3>2, <3>3
  <2> QED BY <1>0, <2>1, <2>2, <2>3
<1> HIDE DEF F
<1>4. 0 \in T
  BY <1>2 DEF NewOf
<1>5. ASSUME NEW n \in 0 .. (Limit + 1) - 1, n \in T
      PROVE  n + 1 \in T
  <2>1. n \in 0 .. Limit /\ n \in 0 .. Limit + 1 /\ n + 1 \in Nat
    BY <1>0
  <2>2. NewOf(S) \subseteq F[n] /\ F[n] \subseteq Extensions
    BY <1>5, <2>1
  <2>3. \A x \in F[n] : KnownDependencies(x) \subseteq Extensions
    BY <2>2, DependenciesAreExtensions
  <2>4. NewOf(S) \subseteq Grown(F[n]) /\ Grown(F[n]) \subseteq Extensions
    BY <2>2, <2>3 DEF Grown, NewOf
  <2> QED BY <1>3, <2>1, <2>4
<1>6. \A n \in 0 .. Limit + 1 : NewOf(S) \subseteq F[n] /\ F[n] \subseteq Extensions
  <2> HIDE DEF T
  <2>1. 0 .. Limit + 1 \subseteq T
    BY <1>0, <1>4, <1>5, InductionUpTo
  <2> USE DEF T
  <2> QED BY <2>1
<1> HIDE DEF T
<1>7. F[Limit + 1] = F[Limit]
  <2>1. \A n \in 0 .. Limit + 1 : F[n] \subseteq Extensions
    BY <1>6
  <2>2. \A n \in 0 .. Limit : F[n] \subseteq F[n + 1]
    BY <1>3 DEF Grown
  <2>3. ASSUME NEW n \in 0 .. Limit - 1, F[n + 1] = F[n]
        PROVE  F[(n + 1) + 1] = F[n + 1]
    <3>1. n \in 0 .. Limit /\ n + 1 \in 0 .. Limit
      BY <1>0
    <3>2. F[n + 1] = Grown(F[n]) /\ F[(n + 1) + 1] = Grown(F[n + 1])
      BY <1>3, <3>1
    <3> QED BY <2>3, <3>2
  <2> QED BY <2>1, <2>2, <2>3, ChainStops
<1>8. NewOf(S) \subseteq F[Limit]
  BY <1>0, <1>6
<1> QED BY <1>2, <1>7, <1>8

\* A request leaves no operation that waits for an extension without one.
LEMMA RequestedIsKnown ==
  ASSUME NEW S \in SUBSET Extensions, Sound(operations), Known(operations)
  PROVE  /\ Known(Requested(S))
         /\ \A x \in S : Requested(S)[x].state # "none"
         /\ \A x \in Extensions : operations[x].state # "none" => Requested(S)[x].state # "none"
<1> DEFINE new == Requested(S)
           W == WithDependencies(S)
<1>1. Grown(W) = W /\ NewOf(S) \subseteq W
  BY ReachedIsClosed
<1>2. \A x \in Extensions :
        \/ new[x] = operations[x]
        \/ operations[x].state = "none" /\ new[x].state \in {"waiting", "failed"}
  BY RequestedIsSound
<1>3. \A x \in Extensions : x \notin W => new[x] = operations[x]
  BY DEF Requested
<1>4. ASSUME NEW x \in Extensions, x \in W
      PROVE  /\ new[x].state # "none"
             /\ new[x].state = "waiting" => KnownDependencies(x) = DependenciesOf(x)
  <2>1. CASE KnownDependencies(x) # DependenciesOf(x)
    <3>1. new[x] = [NoOperation EXCEPT !.state = "failed"]
      BY <1>4, <2>1 DEF Requested
    <3> QED BY <3>1, <2>1 DEF NoOperation
  <2>2. CASE KnownDependencies(x) = DependenciesOf(x)
    <3>1. new[x] = [NoOperation EXCEPT !.state = "waiting", !.deps = OperationDependencies(x)]
      BY <1>4, <2>2 DEF Requested
    <3> QED BY <3>1, <2>2 DEF NoOperation
  <2> QED BY <2>1, <2>2
<1> HIDE DEF new, W
<1>5. \A x \in Extensions : operations[x].state # "none" => new[x].state # "none"
  BY <1>2
<1>6. \A x \in S : new[x].state # "none"
  BY <1>1, <1>4, <1>5 DEF NewOf
<1>7. Known(new)
  <2> SUFFICES ASSUME NEW x \in Extensions, new[x].state = "waiting", NEW d \in DependenciesOf(x)
               PROVE  new[d].state # "none"
    BY DEF Known
  <2>1. d \in Extensions
    BY DependenciesAreExtensions
  <2>2. CASE x \in W
    <3>1. d \in KnownDependencies(x)
      BY <1>4, <2>2
    <3>2. CASE operations[d].state = "none"
      <4>1. d \in NewOf(UNION {KnownDependencies(y) : y \in W})
        BY <2>2, <3>1, <3>2 DEF NewOf
      <4>2. d \in W
        BY <1>1, <4>1 DEF Grown
      <4> QED BY <1>4, <2>1, <4>2
    <3>3. CASE operations[d].state # "none"
      BY <1>5, <2>1, <3>3
    <3> QED BY <3>2, <3>3
  <2>3. CASE x \notin W
    <3>1. operations[x].state = "waiting"
      BY <1>3, <2>3
    <3>2. operations[d].state # "none"
      BY <3>1 DEF Known
    <3> QED BY <1>5, <2>1, <3>2
  <2> QED BY <2>2, <2>3
<1> QED BY <1>5, <1>6, <1>7 DEF new

(***************************************************************************)
(* The steps, for BInv                                                     *)
(***************************************************************************)
\* The steps that change no operation and take no question or answer away.
LEMMA QuietServes ==
  ASSUME BInv, UNCHANGED <<operations, awaited>>, Stopped',
         \A x \in Extensions : Travels(x) => Travels(x)'
  PROVE  BInv'
<1>1. Known(operations)' /\ Waits(operations)'
  BY DEF BInv, Known, Waits
<1>2. Asked'
  BY DEF BInv, Asked
<1>3. Awaiting'
  BY DEF BInv, Awaiting
<1> QED BY <1>1, <1>2, <1>3 DEF BInv

\* A host that runs has not stopped.
LEMMA Runs ==
  ASSUME BInv, toHost # <<>> \/ toMain # <<>> \/ applying # Idle \/
               (\E x \in Extensions : operations[x].state # "none")
  PROVE  running
BY DEF BInv, Stopped

LEMMA RequestEventServes ==
  ASSUME IInv, BInv, NEW e \in Events, RequestEvent(e)
  PROVE  BInv'
<1> DEFINE m == [type |-> "event", event |-> e]
<1>1. m \in HostMessage /\ \A x \in Extensions : m # Confirm(x)
  BY DEF HostMessage, Confirm
<1>2. toHost \in Seq(HostMessage)
  BY DEF IInv, WellTyped
<1>3. /\ toHost' = toHost \/ (running /\ toHost' = Append(toHost, m))
      /\ UNCHANGED <<toMain, running, applying, operations, awaited>>
  BY DEF RequestEvent, Send, hostVars
<1> HIDE DEF m
<1>4. ASSUME NEW x \in Extensions
      PROVE  Travels(x) => Travels(x)'
  <2>1. toHost' = Append(toHost, m) => (Free(toHost', {Confirm(x)}) => Free(toHost, {Confirm(x)}))
    BY <1>1, <1>2, AppendTokens
  <2> QED BY <1>3, <2>1 DEF Travels
<1>5. Stopped'
  BY <1>3 DEF BInv, Stopped
<1> QED BY <1>3, <1>4, <1>5, QuietServes

\* The window's steps that leave messages and the host alone.
LEMMA UnseenServes ==
  ASSUME BInv, UNCHANGED <<toHost, toMain, hostVars>>
  PROVE  BInv'
<1>1. UNCHANGED <<running, applying, operations, awaited>>
  BY DEF hostVars
<1>2. Stopped'
  BY <1>1 DEF BInv, Stopped
<1>3. \A x \in Extensions : Travels(x) => Travels(x)'
  BY DEF Travels
<1> QED BY <1>1, <1>2, <1>3, QuietServes

LEMMA BeginDeltaServes ==
  ASSUME IInv, BInv, BeginDelta
  PROVE  BInv'
<1> DEFINE m == [type |-> "delta", registry |-> registry']
<1>1. /\ toHost' = toHost \/ (running /\ toHost' = Append(toHost, m))
      /\ UNCHANGED <<toMain, hostVars>>
  BY DEF BeginDelta, Send
<1>2. CASE toHost' = toHost
  BY <1>1, <1>2, UnseenServes
<1>3. CASE running /\ toHost' = Append(toHost, m)
  <2>1. toHost \in Seq(HostMessage)
    BY DEF IInv, WellTyped
  <2>2. m \in DeltaMessage /\ m \in HostMessage /\ \A x \in Extensions : m # Confirm(x)
    <3>1. toHost' \in Seq(HostMessage) /\ toHost' # <<>>
      BY <1>3, BeginDeltaStep, <2>1 DEF IInv, WellTyped
    <3>2. Len(toHost) \in Nat /\ Len(toHost') = Len(toHost) + 1 /\ toHost'[Len(toHost) + 1] = m
      BY <1>3, <2>1
    <3>3. m \in HostMessage
      BY <3>1, <3>2
    <3> QED BY <3>3 DEF HostMessage, DeltaMessage, Confirm
  <2> HIDE DEF m
  <2>3. ASSUME NEW x \in Extensions
        PROVE  Travels(x) => Travels(x)'
    <3>1. Free(toHost', {Confirm(x)}) => Free(toHost, {Confirm(x)})
      BY <1>3, <2>1, <2>2, AppendTokens
    <3> QED BY <1>1, <3>1 DEF Travels
  <2>4. Stopped'
    BY <1>1, <1>3 DEF Stopped, hostVars
  <2> QED BY <1>1, <2>3, <2>4, QuietServes DEF hostVars
<1> QED BY <1>1, <1>2, <1>3

LEMMA DeltaAppliedServes ==
  ASSUME IInv, BInv, DeltaApplied
  PROVE  BInv'
<1> DEFINE A == {x \in adding : ActivationNeeded(x)}
           q == [i \in DOMAIN SetToSeq(A) |-> [type |-> "activate", extension |-> SetToSeq(A)[i]]]
<1>1. /\ toMain \in Seq(MainMessage) /\ toMain # <<>> /\ Head(toMain) \in MainMessage
      /\ toMain' = Tail(toMain) /\ Head(toMain).type = "applied"
  BY HeadTailProperties, EmptySeq DEF DeltaApplied, Receive, IInv, WellTyped
<1>2. Head(toMain) = Applied /\ \A x \in Extensions : Head(toMain) # Will(x)
  BY <1>1 DEF MainMessage, Applied, Will
<1>3. ~Free(toMain, {Applied})
  BY <1>1, <1>2, TailTokens
<1>4. A \subseteq Extensions /\ IsFiniteSet(A)
  <2>1. adding # Idle
    BY <1>3 DEF IInv, OneDelta
  <2>2. adding \in SUBSET Extensions
    BY <2>1 DEF IInv, WellTyped, TypeOK
  <2> QED BY <2>2, ConstantsAssumption, FS_Subset
<1>5. toHost' = toHost \o q /\ UNCHANGED hostVars
  BY DEF DeltaApplied
<1> HIDE DEF A
<1>6. q \in Seq(HostMessage)
  BY <1>4, Requests
<1> HIDE DEF q
<1>7. toHost \in Seq(HostMessage)
  BY DEF IInv, WellTyped
<1>8. ASSUME NEW x \in Extensions
      PROVE  Travels(x) => Travels(x)'
  <2>1. Free(toMain', {Will(x)}) => Free(toMain, {Will(x)})
    BY <1>1, <1>2, TailTokens
  <2>2. Free(toHost', {Confirm(x)}) => Free(toHost, {Confirm(x)})
    BY <1>5, <1>6, <1>7, ConcatTokens
  <2> QED BY <2>1, <2>2 DEF Travels
<1>9. Stopped'
  BY <1>1, <1>5, Runs DEF Stopped, hostVars
<1> QED BY <1>5, <1>8, <1>9, QuietServes DEF hostVars

LEMMA WillActivateServes ==
  ASSUME IInv, BInv, WillActivate
  PROVE  BInv'
<1> DEFINE x == Head(toMain).extension
<1>1. /\ toMain \in Seq(MainMessage) /\ toMain # <<>> /\ Head(toMain) \in MainMessage
      /\ toMain' = Tail(toMain) /\ Head(toMain).type = "will"
  BY HeadTailProperties, EmptySeq DEF WillActivate, Receive, IInv, WellTyped
<1>2. x \in Extensions /\ Head(toMain) = Will(x)
  BY <1>1 DEF MainMessage, Applied, Will
<1>3. toHost' = Append(toHost, Confirm(x)) /\ UNCHANGED hostVars
  BY DEF WillActivate, Send, Confirm
<1> HIDE DEF x
<1>4. Confirm(x) \in HostMessage /\ toHost \in Seq(HostMessage)
  BY <1>2 DEF HostMessage, Confirm, IInv, WellTyped
<1>5. ASSUME NEW y \in Extensions
      PROVE  Travels(y) => Travels(y)'
  <2>1. Free(toHost', {Confirm(y)}) => Free(toHost, {Confirm(y)}) /\ Confirm(x) \notin {Confirm(y)}
    BY <1>3, <1>4, AppendTokens
  <2>2. CASE y = x
    BY <2>1, <2>2 DEF Travels
  <2>3. CASE y # x
    <3>1. Will(x).extension = x /\ Will(y).extension = y
      BY DEF Will
    <3>2. Head(toMain) \notin {Will(y)}
      BY <1>2, <2>3, <3>1
    <3>3. Free(toMain', {Will(y)}) => Free(toMain, {Will(y)})
      BY <1>1, <3>2, TailTokens
    <3> QED BY <2>1, <3>3 DEF Travels
  <2> QED BY <2>2, <2>3
<1>6. Stopped'
  BY <1>1, <1>3, Runs DEF Stopped, hostVars
<1> QED BY <1>3, <1>5, <1>6, QuietServes DEF hostVars

LEMMA CrashServes ==
  ASSUME Crash
  PROVE  BInv'
<1>1. /\ operations' = [x \in Extensions |-> NoOperation]
      /\ awaited' = [e \in Events |-> Idle]
      /\ toHost' = <<>> /\ toMain' = <<>> /\ applying' = Idle
  BY DEF Crash
<1>2. \A x \in Extensions : operations'[x].state = "none"
  BY <1>1 DEF NoOperation
<1>3. Known(operations)' /\ Waits(operations)' /\ Asked'
  BY <1>2 DEF Known, Waits, Asked
<1>4. Awaiting'
  BY <1>1 DEF Awaiting
<1>5. Stopped'
  BY <1>1, <1>2 DEF Stopped
<1> QED BY <1>3, <1>4, <1>5 DEF BInv

LEMMA RestartServes ==
  ASSUME BInv, Restart
  PROVE  BInv'
<1>1. ~running /\ running' = TRUE /\ UNCHANGED <<operations, awaited>>
  BY DEF Restart
<1>2. \A x \in Extensions : operations[x].state = "none"
  BY <1>1 DEF BInv, Stopped
<1>3. Known(operations)' /\ Waits(operations)' /\ Asked'
  BY <1>1, <1>2 DEF Known, Waits, Asked
<1>4. Awaiting'
  BY <1>1 DEF BInv, Awaiting
<1>5. Stopped'
  BY <1>1 DEF Stopped
<1> QED BY <1>3, <1>4, <1>5 DEF BInv

LEMMA HandleDeltaServes ==
  ASSUME IInv, BInv, HandleDelta
  PROVE  BInv'
<1>0. Handle("delta")
  BY DEF HandleDelta
<1>1. /\ toHost \in Seq(HostMessage) /\ toHost # <<>>
      /\ Head(toHost) \in HostMessage /\ Head(toHost).type = "delta"
      /\ toHost' = Tail(toHost) /\ running' = running
  BY <1>0, Taken
<1>2. UNCHANGED <<toMain, operations, awaited>>
  BY DEF HandleDelta
<1>3. ASSUME NEW x \in Extensions
      PROVE  Travels(x) => Travels(x)'
  <2>1. Head(toHost) \notin {Confirm(x)}
    BY <1>1 DEF Confirm
  <2>2. Free(toHost', {Confirm(x)}) => Free(toHost, {Confirm(x)})
    BY <1>1, <2>1, TailTokens
  <2> QED BY <1>2, <2>2 DEF Travels
<1>4. Stopped'
  BY <1>1, Runs DEF Stopped
<1> QED BY <1>2, <1>3, <1>4, QuietServes

LEMMA ApplyDeltaServes ==
  ASSUME IInv, BInv, ApplyDelta
  PROVE  BInv'
<1>1. /\ applying # Idle /\ toMain' = Append(toMain, Applied)
      /\ UNCHANGED <<toHost, running, operations, awaited>>
  BY DEF ApplyDelta, Applied
<1>2. toMain \in Seq(MainMessage) /\ Applied \in MainMessage
  BY DEF IInv, WellTyped, MainMessage
<1>3. ASSUME NEW x \in Extensions
      PROVE  Travels(x) => Travels(x)'
  <2>1. Free(toMain', {Will(x)}) => Free(toMain, {Will(x)})
    BY <1>1, <1>2, AppendTokens
  <2> QED BY <1>1, <2>1 DEF Travels
<1>4. Stopped'
  BY <1>1, Runs DEF Stopped
<1> QED BY <1>1, <1>3, <1>4, QuietServes

\* The host loads and runs the extension that asked.
LEMMA HandleConfirmServes ==
  ASSUME IInv, BInv, HandleConfirm
  PROVE  BInv'
<1> DEFINE x == Head(toHost).extension
<1>0. Handle("confirm")
  BY DEF HandleConfirm
<1>1. /\ toHost \in Seq(HostMessage) /\ toHost # <<>>
      /\ Head(toHost) \in HostMessage /\ Head(toHost).type = "confirm"
      /\ toHost' = Tail(toHost) /\ running' = running
  BY <1>0, Taken
<1>2. /\ operations' = [operations EXCEPT ![x].state = "activating"]
      /\ UNCHANGED <<toMain, awaited>>
  BY DEF HandleConfirm
<1>3. x \in Extensions /\ Head(toHost) = Confirm(x)
  BY <1>1 DEF HostMessage, DeltaMessage, Confirm
<1> HIDE DEF x
<1>4. ~Free(toHost, {Confirm(x)})
  BY <1>1, <1>3, TailTokens
<1>5. operations[x].state = "asking"
  BY <1>3, <1>4 DEF IInv, OneQuestion
<1>6. /\ operations'[x].state = "activating"
      /\ \A y \in Extensions : y # x => operations'[y] = operations[y]
  <2>1. operations \in [Extensions -> Operation]
    BY DEF IInv, WellTyped
  <2>2. [operations[x] EXCEPT !.state = "activating"].state = "activating"
    BY <1>3, <2>1 DEF Operation
  <2>3. operations' = [operations EXCEPT ![x] = [operations[x] EXCEPT !.state = "activating"]]
    BY <1>2, Zenon
  <2> QED BY <1>3, <2>1, <2>2, <2>3
<1>7. \A y \in Extensions :
        /\ operations'[y].state = "waiting" => operations[y].state = "waiting"
        /\ operations'[y].state = "asking" => operations[y].state = "asking" /\ y # x
        /\ operations[y].state # "none" => operations'[y].state # "none"
        /\ operations[y].state \in Busy => operations'[y].state \in Busy
  BY <1>5, <1>6 DEF Busy
<1>8. \A y \in Extensions : DependenciesOf(y) \subseteq Extensions
  BY DependenciesAreExtensions
<1>9. Known(operations')
  BY <1>7, <1>8 DEF BInv, Known
<1>10. Waits(operations')
  BY <1>7, <1>8 DEF BInv, Waits
<1>11. Asked'
  <2> SUFFICES ASSUME NEW y \in Extensions, operations'[y].state = "asking"
               PROVE  Travels(y)'
    BY DEF Asked
  <2>1. Travels(y) /\ y # x
    BY <1>7 DEF BInv, Asked
  <2>2. Confirm(x).extension = x /\ Confirm(y).extension = y
    BY DEF Confirm
  <2>3. Free(toHost', {Confirm(y)}) => Free(toHost, {Confirm(y)})
    BY <1>1, <1>3, <2>1, <2>2, TailTokens
  <2> QED BY <1>2, <2>1, <2>3 DEF Travels
<1>12. Awaiting'
  <2> SUFFICES ASSUME NEW e \in Events, awaited[e] # Idle
               PROVE  /\ \A y \in awaited[e] : operations'[y].state # "none"
                      /\ \E y \in awaited[e] : operations'[y].state \in Busy
    BY <1>2 DEF Awaiting
  <2>1. awaited[e] \subseteq Extensions
    BY DEF IInv, WellTyped, TypeOK
  <2> QED BY <1>7, <2>1 DEF BInv, Awaiting
<1>13. Stopped'
  BY <1>1, Runs DEF Stopped
<1>14. Known(operations)' /\ Waits(operations)'
  BY <1>9, <1>10 DEF Known, Waits
<1> QED BY <1>11, <1>12, <1>13, <1>14 DEF BInv

\* The steps in which operations go on.
LEMMA ProceedServes ==
  ASSUME IInv, BInv, NEW ops, Sound(ops), Known(ops), Proceed(ops),
         \A x \in Extensions : ops[x].state = "asking" <=> operations[x].state = "asking",
         \A x \in Extensions : Free(toHost', {Confirm(x)}) => Free(toHost, {Confirm(x)}),
         NEW waits \in [Events -> (SUBSET Extensions) \cup {Idle}], Mark(waits),
         \A e \in Events : waits[e] # Idle => \A x \in waits[e] : ops[x].state # "none",
         running'
  PROVE  BInv'
<1>1. operations' = Settled(ops)
  BY DEF Proceed
<1>2. Known(operations') /\ Waits(operations')
  BY <1>1, SettledWaits
<1>3. Sound(operations') /\ OnlyWaitersMoved(ops, operations')
  BY <1>1, SettledIsSound
<1>4. Asked'
  <2> SUFFICES ASSUME NEW x \in Extensions, operations'[x].state = "asking"
               PROVE  Travels(x)'
    BY DEF Asked
  <2>1. /\ ~Free(toMain, {Will(x)}) => ~Free(toMain', {Will(x)})
        /\ operations[x].state # "asking" => ~Free(toMain', {Will(x)})
    BY ProceedKeeps DEF IInv
  <2>2. operations[x].state = "asking" => Travels(x)
    BY DEF BInv, Asked
  <2> QED BY <2>1, <2>2 DEF Travels
<1>5. Awaiting'
  <2> SUFFICES ASSUME NEW e \in Events, awaited'[e] # Idle
               PROVE  /\ \A x \in awaited'[e] : operations'[x].state # "none"
                      /\ \E x \in awaited'[e] : operations'[x].state \in Busy
    BY DEF Awaiting
  <2>1. awaited'[e] = waits[e] /\ waits[e] # Idle /\ ~ \A x \in waits[e] : Ended(x)'
    BY DEF Mark
  <2>2. waits[e] \in SUBSET Extensions
    BY <2>1
  <2>3. \A x \in waits[e] : operations'[x].state # "none"
    BY <1>3, <2>1, <2>2 DEF OnlyWaitersMoved
  <2>4. PICK x \in waits[e] : ~(operations'[x].state \in {"ok", "failed"})
    BY <2>1 DEF Ended
  <2>5. operations'[x].state \in States
    BY <1>3, <2>2 DEF Sound, Operation
  <2>6. operations'[x].state \in Busy
    BY <2>3, <2>4, <2>5 DEF States, Busy
  <2> QED BY <2>1, <2>3, <2>6
<1>6. Stopped'
  BY DEF Stopped
<1>7. Known(operations)' /\ Waits(operations)'
  BY <1>2 DEF Known, Waits
<1> QED BY <1>4, <1>5, <1>6, <1>7 DEF BInv

\* A request that is taken leaves the answers.
LEMMA AnswersStay ==
  ASSUME IInv, NEW type \in {"event", "activate"}, Handle(type)
  PROVE  \A x \in Extensions : Free(toHost', {Confirm(x)}) => Free(toHost, {Confirm(x)})
<1>1. /\ toHost \in Seq(HostMessage) /\ toHost # <<>> /\ toHost' = Tail(toHost)
      /\ Head(toHost).type = type
  BY Taken
<1>2. \A x \in Extensions : Head(toHost) \notin {Confirm(x)}
  BY <1>1 DEF Confirm
<1> QED BY <1>1, <1>2, TailTokens

LEMMA HandleEventServes ==
  ASSUME IInv, BInv, HandleEvent
  PROVE  BInv'
<1> DEFINE e == Head(toHost).event
           S == Interested(e, hostRegistry)
<1>1. Handle("event") /\ applying' = applying
  BY DEF HandleEvent
<1>2. /\ toHost # <<>> /\ Head(toHost) \in HostMessage /\ Head(toHost).type = "event"
      /\ running' = running
  BY <1>1, Taken
<1>3. e \in Events /\ running'
  BY <1>2, Runs DEF HostMessage, DeltaMessage
<1>4. \A x \in Extensions : Free(toHost', {Confirm(x)}) => Free(toHost, {Confirm(x)})
  BY <1>1, AnswersStay
<1>5. CASE UNCHANGED <<toMain, operations, awaited, alreadyActivated>>
  <2>1. Stopped'
    BY <1>3 DEF Stopped
  <2>2. \A x \in Extensions : Travels(x) => Travels(x)'
    BY <1>4, <1>5 DEF Travels
  <2> QED BY <1>5, <2>1, <2>2, QuietServes
<1>6. CASE Proceed(Requested(S)) /\ Mark([awaited EXCEPT ![e] = S])
  <2>1. S \in SUBSET Extensions
    BY DEF Interested, Present
  <2> HIDE DEF e, S
  <2> DEFINE ops == Requested(S)
             waits == [awaited EXCEPT ![e] = S]
  <2>2. waits \in [Events -> (SUBSET Extensions) \cup {Idle}]
    BY <1>3, <2>1 DEF IInv, WellTyped, TypeOK
  <2>3. /\ Sound(ops)
        /\ \A x \in Extensions :
              \/ ops[x] = operations[x]
              \/ operations[x].state = "none" /\ ops[x].state \in {"waiting", "failed"}
    BY RequestedIsSound DEF IInv
  <2>4. Sound(operations) /\ Known(operations)
    BY DEF IInv, BInv
  <2>5. /\ Known(ops)
        /\ \A x \in S : ops[x].state # "none"
        /\ \A x \in Extensions : operations[x].state # "none" => ops[x].state # "none"
    BY <2>1, <2>4, RequestedIsKnown
  <2> HIDE DEF ops
  <2>6. \A x \in Extensions : ops[x].state = "asking" <=> operations[x].state = "asking"
    BY <2>3
  <2>7. ASSUME NEW d \in Events, waits[d] # Idle, NEW x \in waits[d]
        PROVE  ops[x].state # "none"
    <3>0. awaited \in [Events -> (SUBSET Extensions) \cup {Idle}]
      BY DEF IInv, WellTyped, TypeOK
    <3>1. CASE d = e
      BY <1>3, <2>5, <2>7, <3>0, <3>1
    <3>2. CASE d # e
      <4>1. waits[d] = awaited[d] /\ awaited[d] \in SUBSET Extensions
        BY <2>7, <3>0, <3>2
      <4>2. operations[x].state # "none" /\ x \in Extensions
        BY <2>7, <4>1 DEF BInv, Awaiting
      <4> QED BY <2>5, <4>2
    <3> QED BY <3>1, <3>2
  <2>8. Proceed(ops) /\ Mark(waits)
    BY <1>6 DEF ops
  <2> HIDE DEF waits
  <2> QED BY <1>3, <1>4, <2>2, <2>3, <2>5, <2>6, <2>7, <2>8, ProceedServes
<1> QED BY <1>5, <1>6 DEF HandleEvent

\* The operations of what is awaited, in the other steps.
LEMMA AwaitedHaveOperations ==
  ASSUME IInv, BInv, NEW ops,
         \A x \in Extensions : operations[x].state # "none" => ops[x].state # "none"
  PROVE  /\ awaited \in [Events -> (SUBSET Extensions) \cup {Idle}]
         /\ \A e \in Events : awaited[e] # Idle => \A x \in awaited[e] : ops[x].state # "none"
<1>1. awaited \in [Events -> (SUBSET Extensions) \cup {Idle}]
  BY DEF IInv, WellTyped, TypeOK
<1>2. ASSUME NEW e \in Events, awaited[e] # Idle, NEW x \in awaited[e]
      PROVE  ops[x].state # "none"
  <2>1. x \in Extensions
    BY <1>1, <1>2
  <2>2. operations[x].state # "none"
    BY <1>2 DEF BInv, Awaiting
  <2> QED BY <2>1, <2>2
<1> QED BY <1>1, <1>2

LEMMA HandleActivateServes ==
  ASSUME IInv, BInv, HandleActivate
  PROVE  BInv'
<1> DEFINE S == {Head(toHost).extension} \cap Present(hostRegistry)
           ops == Requested(S)
<1>1. Handle("activate") /\ Proceed(ops) /\ Mark(awaited)
  BY DEF HandleActivate
<1>2. running'
  BY <1>1, Taken, Runs
<1>3. \A x \in Extensions : Free(toHost', {Confirm(x)}) => Free(toHost, {Confirm(x)})
  BY <1>1, AnswersStay
<1>4. S \in SUBSET Extensions
  BY DEF Present
<1> HIDE DEF S
<1>5. /\ Sound(ops)
      /\ \A x \in Extensions :
            \/ ops[x] = operations[x]
            \/ operations[x].state = "none" /\ ops[x].state \in {"waiting", "failed"}
  BY RequestedIsSound DEF IInv
<1>6. /\ Known(ops)
      /\ \A x \in Extensions : operations[x].state # "none" => ops[x].state # "none"
  <2>1. Sound(operations) /\ Known(operations)
    BY DEF IInv, BInv
  <2> QED BY <1>4, <2>1, RequestedIsKnown
<1> HIDE DEF ops
<1>7. \A x \in Extensions : ops[x].state = "asking" <=> operations[x].state = "asking"
  BY <1>5
<1>8. /\ awaited \in [Events -> (SUBSET Extensions) \cup {Idle}]
      /\ \A e \in Events : awaited[e] # Idle => \A x \in awaited[e] : ops[x].state # "none"
  BY <1>6, AwaitedHaveOperations
<1> QED BY <1>1, <1>2, <1>3, <1>5, <1>6, <1>7, <1>8, ProceedServes

LEMMA FinishServes ==
  ASSUME IInv, BInv, NEW x \in Extensions, Finish(x)
  PROVE  BInv'
<1>1. PICK ops \in [Extensions -> Operation] :
         /\ ops[x].state \in {"ok", "failed"}
         /\ \A y \in Extensions : y # x => ops[y] = operations[y]
         /\ Sound(ops) /\ Proceed(ops)
  BY FinishOps DEF IInv
<1>2. /\ operations[x].state = "activating" /\ Mark(awaited)
      /\ UNCHANGED <<toHost, running>>
  BY DEF Finish
<1>3. running'
  BY <1>2, Runs
<1>4. \A y \in Extensions :
        /\ ops[y].state = "asking" <=> operations[y].state = "asking"
        /\ ops[y].state = "waiting" => operations[y].state = "waiting"
        /\ operations[y].state # "none" => ops[y].state # "none"
  BY <1>1, <1>2
<1>5. Known(ops)
  BY <1>4, DependenciesAreExtensions DEF BInv, Known
<1>6. /\ awaited \in [Events -> (SUBSET Extensions) \cup {Idle}]
      /\ \A e \in Events : awaited[e] # Idle => \A y \in awaited[e] : ops[y].state # "none"
  BY <1>4, AwaitedHaveOperations
<1>7. \A y \in Extensions : Free(toHost', {Confirm(y)}) => Free(toHost, {Confirm(y)})
  BY <1>2
<1> QED BY <1>1, <1>2, <1>3, <1>4, <1>5, <1>6, <1>7, ProceedServes

LEMMA InitServes ==
  ASSUME Init
  PROVE  BInv
<1>1. \A x \in Extensions : operations[x].state = "none"
  BY DEF Init, NoOperation
<1>2. Known(operations) /\ Waits(operations) /\ Asked
  BY <1>1 DEF Known, Waits, Asked
<1>3. Awaiting /\ Stopped
  BY DEF Init, Awaiting, Stopped
<1> QED BY <1>2, <1>3 DEF BInv

LEMMA StepServes ==
  ASSUME IInv, BInv, [Next]_vars
  PROVE  BInv'
<1>1. CASE UNCHANGED vars
  BY <1>1, UnseenServes DEF vars
<1>2. CASE \E e \in Events : RequestEvent(e)
  BY <1>2, RequestEventServes
<1>3. CASE \E x \in Extensions : Install(x) \/ Uninstall(x)
  BY <1>3, UnseenServes DEF Install, Uninstall, Enqueue
<1>4. CASE Crash
  BY <1>4, CrashServes
<1>5. CASE MainSteps
  <2>1. CASE EndDeltas
    BY <2>1, UnseenServes DEF EndDeltas
  <2> QED BY <1>5, <2>1, BeginDeltaServes, DeltaAppliedServes, WillActivateServes, RestartServes
         DEF MainSteps
<1>6. CASE HostSteps
  BY <1>6, HandleDeltaServes, ApplyDeltaServes, HandleEventServes, HandleActivateServes,
     HandleConfirmServes, FinishServes DEF HostSteps
<1> QED BY <1>1, <1>2, <1>3, <1>4, <1>5, <1>6 DEF Next

\* A queue that is not free of a message carries it.
LEMMA NotFreeCarries ==
  ASSUME NEW T, NEW q \in Seq(T), NEW x
  PROVE  /\ ~Free(q, {Will(x)}) => Carries(q, "will", x)
         /\ ~Free(q, {Confirm(x)}) => Carries(q, "confirm", x)
<1>1. DOMAIN q = 1 .. Len(q)
  BY LenProperties
<1>2. /\ Will(x).type = "will" /\ Will(x).extension = x
      /\ Confirm(x).type = "confirm" /\ Confirm(x).extension = x
  BY DEF Will, Confirm
<1> QED BY <1>1, <1>2 DEF Free, Carries

\* No activation hangs: an operation that waits has a dependency on its way to
\* an end, one that asks has its question or the answer under way, and an event
\* that is awaited has an extension that has not ended, for any dependencies,
\* whichever requests created the operations (_handleActivationRequest,
\* _waitForDepsThenActivate, activateByEvent).
THEOREM NoActivationHangs == Spec => []NoneHangs
<1>1. Init => BInv
  BY InitServes
<1>2. IInv /\ BInv /\ [Next]_vars => BInv'
  BY StepServes
<1>3. ASSUME IInv, BInv
      PROVE  NoneHangs
  <2>1. ASSUME NEW x \in Extensions, operations[x].state = "waiting"
        PROVE  DependenciesOf(x) \cap UnderWay # {}
    BY <1>3, <2>1, DependenciesAreExtensions DEF BInv, Waits, Busy, UnderWay
  <2>2. ASSUME NEW x \in Extensions, operations[x].state = "asking"
        PROVE  Carries(toMain, "will", x) \/ Carries(toHost, "confirm", x)
    <3>1. toMain \in Seq(MainMessage) /\ toHost \in Seq(HostMessage)
      BY <1>3 DEF IInv, WellTyped
    <3>2. Travels(x)
      BY <1>3, <2>2 DEF BInv, Asked
    <3> QED BY <3>1, <3>2, NotFreeCarries DEF Travels
  <2>3. ASSUME NEW e \in Events, awaited[e] # Idle
        PROVE  awaited[e] \cap UnderWay # {}
    <3>1. awaited[e] \subseteq Extensions
      BY <1>3, <2>3 DEF IInv, WellTyped, TypeOK
    <3> QED BY <1>3, <2>3, <3>1 DEF BInv, Awaiting, Busy, UnderWay
  <2> QED BY <2>1, <2>2, <2>3 DEF NoneHangs
<1> QED BY <1>1, <1>2, <1>3, Invariance, PTL DEF Spec

=============================================================================
