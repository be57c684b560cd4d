-------------------------- MODULE CloudCellsProofs --------------------------
(* CloudVariables implements CloudCells, but for its fairness: for every set  *)
(* of routes, every conversion and every size of the event queue, the queue   *)
(* is one first-in first-out backlog of assignments per route.                *)
EXTENDS CloudVariablesProofs, FiniteSetTheorems

-----------------------------------------------------------------------------
(* Ranks in a finite set of numbers.                                          *)

UpTo(S, i) == {j \in S : j <= i}
RankIn(S, i) == Cardinality(UpTo(S, i))

(* The rank is a bijection from the set to the numbers up to its size, and    *)
(* keeps the order.                                                           *)
LEMMA Ranks ==
    ASSUME NEW S \in SUBSET Nat, IsFiniteSet(S)
    PROVE  /\ Cardinality(S) \in Nat
           /\ \A i \in S : RankIn(S, i) \in 1..Cardinality(S)
           /\ \A i, j \in S : i < j => RankIn(S, i) < RankIn(S, j)
           /\ \A n \in 1..Cardinality(S) : \E i \in S : RankIn(S, i) = n
<1>1. Cardinality(S) \in Nat
  BY FS_CardinalityType
<1>2. ASSUME NEW i \in S
      PROVE  /\ UpTo(S, i) \in SUBSET S /\ IsFiniteSet(UpTo(S, i))
             /\ RankIn(S, i) \in 1..Cardinality(S)
  <2>1. UpTo(S, i) \in SUBSET S /\ i \in UpTo(S, i)
    BY DEF UpTo
  <2>2. IsFiniteSet(UpTo(S, i)) /\ RankIn(S, i) <= Cardinality(S)
    BY <2>1, FS_Subset DEF RankIn
  <2>3. RankIn(S, i) \in Nat
    BY <2>2, FS_CardinalityType DEF RankIn
  <2>4. RankIn(S, i) # 0
    BY <2>1, <2>2, FS_EmptySet DEF RankIn
  <2>. QED  BY <1>1, <2>1, <2>2, <2>3, <2>4
<1>3. ASSUME NEW i \in S, NEW j \in S, i < j
      PROVE  RankIn(S, i) < RankIn(S, j)
  <2>0. \A k \in S : k \in Nat
    OBVIOUS
  <2>1. UpTo(S, i) \in SUBSET UpTo(S, j) /\ j \in UpTo(S, j) /\ j \notin UpTo(S, i)
    <3>1. i \in Nat /\ j \in Nat
      OBVIOUS
    <3>2. j <= j /\ ~(j <= i)
      BY <1>3, <3>1
    <3>3. ASSUME NEW k \in UpTo(S, i) PROVE k \in S /\ k <= j
      <4>1. k \in S /\ k <= i
        BY <3>3 DEF UpTo
      <4>2. k \in Nat
        BY <2>0, <4>1
      <4>. QED  BY <1>3, <3>1, <4>1, <4>2
    <3>4. UpTo(S, i) \in SUBSET UpTo(S, j)
      BY <3>3 DEF UpTo
    <3>. QED  BY <3>2, <3>4 DEF UpTo
  <2>2. /\ RankIn(S, i) <= RankIn(S, j)
        /\ RankIn(S, j) = RankIn(S, i) => UpTo(S, j) = UpTo(S, i)
    BY <1>2, <2>1, FS_Subset DEF RankIn
  <2>3. RankIn(S, i) \in Nat /\ RankIn(S, j) \in Nat
    BY <1>1, <1>2
  <2>. QED  BY <2>1, <2>2, <2>3
<1>4. ASSUME NEW n \in 1..Cardinality(S) PROVE \E i \in S : RankIn(S, i) = n
  <2>. DEFINE T == 1..Cardinality(S)
  <2>. DEFINE f == [i \in S |-> RankIn(S, i)]
  <2>1. f \in [S -> T] /\ \A i \in S : f[i] = RankIn(S, i)
    BY <1>2
  <2>2. \A i, j \in S : f[i] = f[j] => i = j
    <3>. SUFFICES ASSUME NEW i \in S, NEW j \in S, i # j PROVE f[i] # f[j]
      OBVIOUS
    <3>1. RankIn(S, i) \in Nat /\ RankIn(S, j) \in Nat
      BY <1>1, <1>2
    <3>2. i < j \/ j < i
      OBVIOUS
    <3>. QED  BY <1>3, <2>1, <3>1, <3>2
  <2>3. f \in Injection(S, T)
    BY <2>1, <2>2 DEF Injection, IsInjective
  <2>4. IsFiniteSet(T) /\ Cardinality(T) = Cardinality(S)
    BY <1>1, FS_Interval
  <2>. HIDE DEF f, T
  <2>5. f \in Surjection(S, T)
    BY <2>3, <2>4, FS_Injection
  <2>. QED  BY <2>1, <2>5 DEF Surjection, T
<1>. QED  BY <1>1, <1>2, <1>3, <1>4

(* Moving every number of a set down by one moves its ranks along.            *)
LEMMA RanksMove ==
    ASSUME NEW S \in SUBSET (Nat \ {0}), IsFiniteSet(S), NEW T,
           T = {i - 1 : i \in S}
    PROVE  IsFiniteSet(T) /\ Cardinality(T) = Cardinality(S)
<1>. DEFINE f == [i \in S |-> i - 1]
<1>1. f \in Bijection(S, T)
  BY DEF Bijection, Injection, IsInjective, Surjection
<1>. HIDE DEF f
<1>. QED  BY <1>1, FS_Bijection DEF ExistsBijection

-----------------------------------------------------------------------------
(* The backlog of a route in any queue: the definitions of CloudVariables     *)
(* with the queue as a parameter, to speak of it before and after a step.     *)
Sets(q, r) == {i \in 1..Len(q) : q[i].kind = "set" /\ q[i].route = r}
PlaceIn(q, r, n) == CHOOSE i \in Sets(q, r) : RankIn(Sets(q, r), i) = n
Backlog(q, r) == [n \in 1..Cardinality(Sets(q, r)) |-> q[PlaceIn(q, r, n)].value]

LEMMA BacklogOfQueue ==
    ASSUME NEW r
    PROVE  BacklogOf(r) = Backlog(queue, r) /\ BacklogOf(r)' = Backlog(queue', r)
BY DEF BacklogOf, Place, Rank, SetEventsOf, Backlog, PlaceIn, RankIn, UpTo, Sets

LEMMA SetsFinite ==
    ASSUME NEW q \in Seq(Event), NEW r
    PROVE  Sets(q, r) \in SUBSET (Nat \ {0}) /\ IsFiniteSet(Sets(q, r))
<1>1. Len(q) \in Nat
  OBVIOUS
<1>2. IsFiniteSet(1..Len(q)) /\ Sets(q, r) \in SUBSET (1..Len(q))
  BY <1>1, FS_Interval DEF Sets
<1>. QED  BY <1>1, <1>2, FS_Subset

(* The backlog holds the value of every set event of the route at its rank.   *)
LEMMA BacklogHolds ==
    ASSUME NEW q \in Seq(Event), NEW r \in Routes
    PROVE  /\ Backlog(q, r) \in Seq(Values) /\ Len(Backlog(q, r)) = Cardinality(Sets(q, r))
           /\ \A i \in Sets(q, r) :
                RankIn(Sets(q, r), i) \in 1..Len(Backlog(q, r))
                /\ Backlog(q, r)[RankIn(Sets(q, r), i)] = q[i].value
           /\ \A n \in 1..Len(Backlog(q, r)) : \E i \in Sets(q, r) : RankIn(Sets(q, r), i) = n
<1>. DEFINE S == Sets(q, r)
<1>. DEFINE B == Backlog(q, r)
<1>1. /\ S \in SUBSET Nat /\ Cardinality(S) \in Nat
      /\ \A i \in S : RankIn(S, i) \in 1..Cardinality(S)
      /\ \A i, j \in S : i < j => RankIn(S, i) < RankIn(S, j)
      /\ \A n \in 1..Cardinality(S) : \E i \in S : RankIn(S, i) = n
  BY SetsFinite, Ranks
<1>2. \A i, j \in S : RankIn(S, i) = RankIn(S, j) => i = j
  <2>. SUFFICES ASSUME NEW i \in S, NEW j \in S, i # j PROVE RankIn(S, i) # RankIn(S, j)
    OBVIOUS
  <2>1. (i < j \/ j < i) /\ RankIn(S, i) \in Nat /\ RankIn(S, j) \in Nat
    BY <1>1
  <2>. QED  BY <1>1, <2>1
<1>3. \A i \in S : PlaceIn(q, r, RankIn(S, i)) = i
  <2>. SUFFICES ASSUME NEW i \in S PROVE PlaceIn(q, r, RankIn(S, i)) = i
    OBVIOUS
  <2>1. \A j \in S : RankIn(S, j) = RankIn(S, i) <=> j = i
    BY <1>2
  <2>. QED  BY <2>1 DEF PlaceIn
<1>4. \A i \in S : q[i].value \in Values
  BY ElementOfSeq, EventFields DEF Sets
<1>5. \A n \in 1..Cardinality(S) : q[PlaceIn(q, r, n)].value \in Values
  BY <1>1, <1>3, <1>4
<1>6. B \in [1..Cardinality(S) -> Values]
  BY <1>5 DEF Backlog
<1>7. B \in Seq(Values) /\ Len(B) = Cardinality(S)
  BY <1>1, <1>6
<1>8. \A i \in S : B[RankIn(S, i)] = q[i].value
  BY <1>1, <1>3 DEF Backlog
<1>. QED  BY <1>1, <1>7, <1>8

(* It is the only sequence that does.                                         *)
LEMMA BacklogIs ==
    ASSUME NEW q \in Seq(Event), NEW r \in Routes, NEW B \in Seq(Values),
           Len(B) = Cardinality(Sets(q, r)),
           \A i \in Sets(q, r) : B[RankIn(Sets(q, r), i)] = q[i].value
    PROVE  Backlog(q, r) = B
<1>1. Backlog(q, r) \in Seq(Values) /\ Len(Backlog(q, r)) = Len(B)
  BY BacklogHolds
<1>2. ASSUME NEW n \in 1..Len(Backlog(q, r)) PROVE Backlog(q, r)[n] = B[n]
  <2>1. PICK i \in Sets(q, r) : RankIn(Sets(q, r), i) = n
    BY BacklogHolds
  <2>. QED  BY <2>1, BacklogHolds
<1>. QED  BY <1>1, <1>2, SeqEqual

-----------------------------------------------------------------------------
(* What evQueue->call and the event thread do to the backlog of a route.      *)

(* A set event of the route adds its value at the end of the backlog; any     *)
(* other event leaves the backlog alone.                                      *)
LEMMA BacklogOfAppend ==
    ASSUME NEW q \in Seq(Event), NEW e \in Event, NEW r \in Routes
    PROVE  Backlog(Append(q, e), r) =
             IF e.kind = "set" /\ e.route = r
             THEN Append(Backlog(q, r), e.value) ELSE Backlog(q, r)
<1>. DEFINE q2 == Append(q, e)
<1>. DEFINE n == Len(q) + 1
<1>. DEFINE S == Sets(q, r)
<1>. DEFINE S2 == Sets(q2, r)
<1>1. /\ q2 \in Seq(Event) /\ Len(q) \in Nat /\ Len(q2) = n
      /\ q2[n] = e /\ \A i \in 1..Len(q) : q2[i] = q[i]
  BY AppendProperties
<1>. HIDE DEF q2
<1>2. S \in SUBSET (1..Len(q)) /\ IsFiniteSet(S) /\ n \notin S
  <2>1. S \in SUBSET (1..Len(q)) /\ IsFiniteSet(S)
    BY SetsFinite DEF Sets
  <2>2. n \notin 1..Len(q)
    BY <1>1
  <2>. QED  BY <2>1, <2>2
<1>3. CASE e.kind = "set" /\ e.route = r
  <2>1. S2 = S \cup {n}
    BY <1>1, <1>3 DEF Sets
  <2>. DEFINE B == Append(Backlog(q, r), e.value)
  <2>2. Cardinality(S2) = Cardinality(S) + 1
    BY <1>2, <2>1, FS_AddElement
  <2>3. /\ Backlog(q, r) \in Seq(Values) /\ Len(Backlog(q, r)) = Cardinality(S)
        /\ e.value \in Values
    BY <1>3, BacklogHolds, EventFields
  <2>4. /\ B \in Seq(Values) /\ Len(B) = Cardinality(S2)
        /\ B[Cardinality(S2)] = e.value
        /\ \A k \in 1..Cardinality(S) : B[k] = Backlog(q, r)[k]
    BY <2>2, <2>3, AppendProperties
  <2>. HIDE DEF B, n, S, S2
  <2>5. ASSUME NEW i \in S PROVE B[RankIn(S2, i)] = q2[i].value
    <3>1. UpTo(S2, i) = UpTo(S, i)
      <4>1. ~(n <= i)
        BY <1>1, <1>2 DEF n
      <4>. QED  BY <2>1, <4>1 DEF UpTo
    <3>2. RankIn(S2, i) \in 1..Cardinality(S) /\ Backlog(q, r)[RankIn(S2, i)] = q[i].value
      BY <2>3, <3>1, BacklogHolds DEF RankIn, S
    <3>. QED  BY <1>1, <1>2, <2>4, <3>2
  <2>6. B[RankIn(S2, n)] = q2[n].value
    <3>1. \A i \in S2 : i <= n
      BY <1>1, <1>2, <2>1 DEF n
    <3>2. UpTo(S2, n) = S2
      BY <3>1 DEF UpTo
    <3>. QED  BY <1>1, <2>4, <3>2 DEF RankIn
  <2>7. \A i \in S2 : B[RankIn(S2, i)] = q2[i].value
    BY <2>1, <2>5, <2>6
  <2>8. Backlog(q2, r) = B
    BY <1>1, <2>4, <2>7, BacklogIs DEF S2
  <2>. QED  BY <1>3, <2>8 DEF B, q2
<1>4. CASE ~(e.kind = "set" /\ e.route = r)
  <2>1. S2 = S
    BY <1>1, <1>4 DEF Sets
  <2>2. /\ Backlog(q, r) \in Seq(Values) /\ Len(Backlog(q, r)) = Cardinality(S)
        /\ \A i \in S : Backlog(q, r)[RankIn(S, i)] = q[i].value
    BY BacklogHolds
  <2>3. \A i \in S : q2[i].value = q[i].value
    BY <1>1, <1>2
  <2>. HIDE DEF S, S2, n
  <2>4. \A i \in S2 : Backlog(q, r)[RankIn(S2, i)] = q2[i].value
    BY <2>1, <2>2, <2>3
  <2>5. Backlog(q2, r) = Backlog(q, r)
    BY <1>1, <2>1, <2>2, <2>4, BacklogIs DEF S2
  <2>. QED  BY <1>4, <2>5 DEF q2
<1>. QED  BY <1>3, <1>4

(* Taking the oldest event takes the oldest value of its route, if it is a    *)
(* set event, and moves the others down without changing their order.         *)
LEMMA BacklogOfTail ==
    ASSUME NEW q \in Seq(Event), q # <<>>, NEW r \in Routes
    PROVE  IF q[1].kind = "set" /\ q[1].route = r
           THEN /\ Backlog(q, r) # <<>> /\ Head(Backlog(q, r)) = q[1].value
                /\ Backlog(Tail(q), r) = Tail(Backlog(q, r))
           ELSE Backlog(Tail(q), r) = Backlog(q, r)
<1>. DEFINE q2 == Tail(q)
<1>. DEFINE S == Sets(q, r)
<1>. DEFINE S2 == Sets(q2, r)
<1>1. /\ q2 \in Seq(Event) /\ Len(q) \in Nat \ {0} /\ Len(q2) = Len(q) - 1
      /\ \A i \in 1..Len(q2) : q2[i] = q[i + 1]
  BY HeadTailProperties
<1>. HIDE DEF q2
<1>2. S \in SUBSET (1..Len(q)) /\ S2 \in SUBSET (1..Len(q2)) /\ IsFiniteSet(S)
  BY SetsFinite DEF Sets
<1>3. \A i \in 1..Len(q2) : i \in S2 <=> i + 1 \in S
  BY <1>1 DEF Sets
<1>4. 1 \in S <=> q[1].kind = "set" /\ q[1].route = r
  BY <1>1 DEF Sets
<1>5. S2 = {i - 1 : i \in S \ {1}}
  <2>1. ASSUME NEW i \in S2 PROVE i + 1 \in S \ {1} /\ i = (i + 1) - 1
    BY <1>1, <1>2, <1>3
  <2>2. ASSUME NEW i \in S \ {1} PROVE i - 1 \in S2
    BY <1>1, <1>2, <1>3
  <2>. QED  BY <2>1, <2>2
<1>6. \A i \in S2 : UpTo(S2, i) = {j - 1 : j \in UpTo(S, i + 1) \ {1}}
  <2>. SUFFICES ASSUME NEW i \in S2
                PROVE  UpTo(S2, i) = {j - 1 : j \in UpTo(S, i + 1) \ {1}}
    OBVIOUS
  <2>0. i \in Nat
    BY <1>1, <1>2
  <2>1. ASSUME NEW k \in UpTo(S2, i) PROVE k + 1 \in UpTo(S, i + 1) \ {1} /\ k = (k + 1) - 1
    <3>1. k \in S2 /\ k <= i /\ k \in 1..Len(q2)
      BY <1>2 DEF UpTo
    <3>2. k + 1 \in S /\ k + 1 <= i + 1 /\ k + 1 # 1 /\ k = (k + 1) - 1
      BY <1>1, <1>3, <2>0, <3>1
    <3>. QED  BY <3>2 DEF UpTo
  <2>2. ASSUME NEW j \in UpTo(S, i + 1) \ {1} PROVE j - 1 \in UpTo(S2, i)
    <3>1. j \in S \ {1} /\ j <= i + 1 /\ j \in Nat
      BY <1>1, <1>2 DEF UpTo
    <3>2. j - 1 \in S2 /\ j - 1 <= i
      BY <1>5, <2>0, <3>1
    <3>. QED  BY <3>2 DEF UpTo
  <2>. QED  BY <2>1, <2>2
<1>7. ASSUME NEW X \in SUBSET S
      PROVE  /\ IsFiniteSet(X) /\ Cardinality(X) \in Nat
             /\ Cardinality({j - 1 : j \in X \ {1}}) =
                  IF 1 \in X THEN Cardinality(X) - 1 ELSE Cardinality(X)
  <2>1. IsFiniteSet(X) /\ IsFiniteSet(X \ {1}) /\ X \ {1} \in SUBSET (Nat \ {0})
    BY <1>1, <1>2, FS_Subset
  <2>2. Cardinality({j - 1 : j \in X \ {1}}) = Cardinality(X \ {1})
    BY <2>1, RanksMove
  <2>. QED  BY <2>1, <2>2, FS_CardinalityType, FS_RemoveElement
<1>8. /\ Cardinality(S) \in Nat
      /\ Cardinality(S2) = IF 1 \in S THEN Cardinality(S) - 1 ELSE Cardinality(S)
  BY <1>5, <1>7
<1>9. ASSUME NEW i \in S2
      PROVE  /\ i + 1 \in S /\ q2[i].value = q[i + 1].value
             /\ RankIn(S2, i) = IF 1 \in S THEN RankIn(S, i + 1) - 1 ELSE RankIn(S, i + 1)
  <2>1. i \in Nat /\ i + 1 \in S /\ q2[i].value = q[i + 1].value
    BY <1>1, <1>2, <1>3
  <2>2. UpTo(S, i + 1) \in SUBSET S /\ (1 \in UpTo(S, i + 1) <=> 1 \in S)
    BY <1>1, <1>2, <2>1 DEF UpTo
  <2>. QED  BY <1>6, <1>7, <2>1, <2>2 DEF RankIn
<1>10. /\ Backlog(q, r) \in Seq(Values) /\ Len(Backlog(q, r)) = Cardinality(S)
       /\ \A i \in S : RankIn(S, i) \in 1..Cardinality(S) /\ Backlog(q, r)[RankIn(S, i)] = q[i].value
  BY BacklogHolds
<1>. HIDE DEF S, S2
<1>11. CASE 1 \in S
  <2>. DEFINE B == Tail(Backlog(q, r))
  <2>1. RankIn(S, 1) = 1
    <3>1. \A i \in S : i <= 1 <=> i = 1
      BY <1>1, <1>2
    <3>2. UpTo(S, 1) = {1}
      BY <1>11, <3>1 DEF UpTo
    <3>. QED  BY <3>2, FS_Singleton DEF RankIn
  <2>2. Backlog(q, r)[1] = q[1].value /\ 1 \in 1..Cardinality(S)
    BY <1>10, <1>11, <2>1
  <2>3. Backlog(q, r) # <<>> /\ Head(Backlog(q, r)) = q[1].value
    BY <1>8, <1>10, <2>2
  <2>4. /\ B \in Seq(Values) /\ Len(B) = Cardinality(S2)
        /\ \A k \in 1..Len(B) : B[k] = Backlog(q, r)[k + 1]
    BY <1>8, <1>10, <1>11, <2>3, HeadTailProperties
  <2>. HIDE DEF B
  <2>5. ASSUME NEW i \in S2 PROVE B[RankIn(S2, i)] = q2[i].value
    <3>1. RankIn(S2, i) = RankIn(S, i + 1) - 1 /\ RankIn(S, i + 1) \in 1..Cardinality(S)
      BY <1>9, <1>10, <1>11
    <3>2. RankIn(S, i + 1) # 1
      <4>1. UpTo(S2, i) # {} /\ UpTo(S2, i) = {j - 1 : j \in UpTo(S, i + 1) \ {1}}
        BY <1>1, <1>2, <1>6 DEF UpTo
      <4>2. RankIn(S2, i) # 0
        <5>1. S2 \in SUBSET Nat /\ IsFiniteSet(S2)
          BY SetsFinite, <1>1 DEF S2
        <5>. QED  BY <5>1, Ranks
      <4>. QED  BY <3>1, <4>2
    <3>3. RankIn(S2, i) \in 1..Len(B) /\ RankIn(S2, i) + 1 = RankIn(S, i + 1)
      BY <1>8, <1>11, <2>4, <3>1, <3>2
    <3>. QED  BY <1>9, <1>10, <2>4, <3>3
  <2>6. Backlog(q2, r) = B
    BY <1>1, <2>4, <2>5, BacklogIs DEF S2
  <2>. QED  BY <1>4, <1>11, <2>3, <2>6 DEF B, q2
<1>12. CASE 1 \notin S
  <2>1. Cardinality(S2) = Cardinality(S)
    BY <1>8, <1>12
  <2>2. \A i \in S2 : Backlog(q, r)[RankIn(S2, i)] = q2[i].value
    BY <1>9, <1>10, <1>12
  <2>3. Backlog(q2, r) = Backlog(q, r)
    BY <1>1, <1>10, <2>1, <2>2, BacklogIs DEF S2
  <2>. QED  BY <1>4, <1>12, <2>3 DEF q2
<1>. QED  BY <1>11, <1>12

-----------------------------------------------------------------------------
(* The refinement, step by step.                                              *)

\* What the cells see of a state: the routes, the texts and the backlogs.
SeenBefore == /\ Cells!cells = <<[r \in Routes |-> r \in resources], value,
                                 [r \in Routes |-> Backlog(queue, r)]>>
SeenAfter == Cells!cells' = <<[r \in Routes |-> r \in resources'], value',
                              [r \in Routes |-> Backlog(queue', r)]>>

LEMMA Seen == SeenBefore /\ SeenAfter
BY BacklogOfQueue DEF SeenBefore, SeenAfter, Cells!cells

(* A step that changes no resource, no text and no backlog is a stutter.      *)
LEMMA Stutters ==
    ASSUME UNCHANGED <<resources, value>>, \A r \in Routes : Backlog(queue', r) = Backlog(queue, r)
    PROVE  UNCHANGED Cells!cells
BY Seen DEF SeenBefore, SeenAfter

(* set() of a variable is one assignment accepted by its cell, or nothing at  *)
(* all when the buffer of evQueue is full.                                    *)
LEMMA SetAccepts ==
    ASSUME TypeOK, NEW r \in Routes, NEW v \in Values, Set(r, v)
    PROVE  Cells!Accept(r, v) \/ UNCHANGED Cells!cells
<1>. DEFINE e == [kind |-> "set", route |-> r, value |-> v]
<1>1. /\ e \in Event /\ e.kind = "set" /\ e.route = r /\ e.value = v
      /\ Call(e) /\ UNCHANGED <<resources, value>> /\ queue \in Seq(Event)
  BY DEF Event, SetEvent, Set, objects, TypeOK
<1>. HIDE DEF e
<1>2. CASE HasRoom
  <2>1. queue' = Append(queue, e)
    BY <1>1, <1>2 DEF Call
  <2>2. \A s \in Routes : Backlog(queue', s) =
          IF s = r THEN Append(Backlog(queue, s), v) ELSE Backlog(queue, s)
    BY <1>1, <2>1, BacklogOfAppend
  <2>3. [s \in Routes |-> Backlog(queue', s)] =
          [[s \in Routes |-> Backlog(queue, s)] EXCEPT ![r] = Append(@, v)]
    BY <2>2
  <2>4. [s \in Routes |-> BacklogOf(s)] = [s \in Routes |-> Backlog(queue, s)]
    BY BacklogOfQueue
  <2>5. [s \in Routes |-> BacklogOf(s)]' = [s \in Routes |-> Backlog(queue', s)]
    BY BacklogOfQueue
  <2>. QED  BY <1>1, <2>3, <2>4, <2>5 DEF Cells!Accept
<1>3. CASE ~HasRoom
  BY <1>1, <1>3, Stutters DEF Call
<1>. QED  BY <1>2, <1>3

(* The event thread writing an assignment (internal_set_str) takes the oldest *)
(* one from the backlog of its route.                                         *)
LEMMA InternalSetFlushes ==
    ASSUME TypeOK, InternalSet
    PROVE  \E r \in Routes : Cells!Flush(r)
<1>. DEFINE r == Head(queue).route
<1>1. /\ queue \in Seq(Event) /\ queue # <<>> /\ queue' = Tail(queue)
      /\ Head(queue) = queue[1] /\ queue[1].kind = "set" /\ r \in Routes
      /\ UNCHANGED resources
  BY TailEffect, EventFields DEF InternalSet, TypeOK, objects
<1>2. /\ Backlog(queue, r) # <<>> /\ Head(Backlog(queue, r)) = Head(queue).value
      /\ Backlog(queue', r) = Tail(Backlog(queue, r))
      /\ \A s \in Routes : s # r => Backlog(queue', s) = Backlog(queue, s)
  BY <1>1, BacklogOfTail
<1>3. value' = IF r \in resources
               THEN [value EXCEPT ![r] = Format[Head(queue).value]] ELSE value
  BY DEF InternalSet
<1>. HIDE DEF r
<1>4. [s \in Routes |-> Backlog(queue', s)] =
        [[s \in Routes |-> Backlog(queue, s)] EXCEPT ![r] = Tail(@)]
  BY <1>1, <1>2
<1>5. [s \in Routes |-> BacklogOf(s)] = [s \in Routes |-> Backlog(queue, s)]
  BY BacklogOfQueue
<1>6. [s \in Routes |-> BacklogOf(s)]' = [s \in Routes |-> Backlog(queue', s)]
  BY BacklogOfQueue
<1>7. Cells!Flush(r)
  BY <1>1, <1>2, <1>3, <1>4, <1>5, <1>6 DEF Cells!Flush
<1>. QED  BY <1>1, <1>7

(* An update event, posted or taken, is in no backlog.                        *)
LEMMA UpdatesStutter ==
    ASSUME TypeOK, PostUpdate \/ RunUpdate
    PROVE  UNCHANGED Cells!cells
<1>1. queue \in Seq(Event) /\ UNCHANGED <<resources, value>>
  BY DEF PostUpdate, RunUpdate, objects, TypeOK
<1>2. CASE PostUpdate
  <2>. DEFINE e == [kind |-> "update", route |-> m2mThread.route, text |-> m2mThread.text]
  <2>1. e \in Event /\ e.kind # "set" /\ Call(e)
    BY <1>2, ThreadFields DEF PostUpdate, Event, UpdateEvent
  <2>. HIDE DEF e
  <2>2. queue' = Append(queue, e) \/ queue' = queue
    BY <2>1 DEF Call
  <2>. QED  BY <1>1, <2>1, <2>2, BacklogOfAppend, Stutters
<1>3. CASE RunUpdate
  <2>1. queue # <<>> /\ queue' = Tail(queue) /\ queue[1].kind # "set"
    BY <1>3, TailEffect DEF RunUpdate
  <2>. QED  BY <1>1, <2>1, BacklogOfTail, Stutters
<1>. QED  BY <1>2, <1>3

(* define_resource_internal gives the route its cell.                         *)
LEMMA DefinitionExposes ==
    ASSUME Protocol, NEW r \in Routes, NEW v \in Values, DefineInternal(r, v)
    PROVE  Cells!Expose(r, v)
<1>1. r \notin resources
  BY DEF Protocol, DefinitionOrder, DefineInternal, Idle
<1>2. resources' = resources \cup {r} /\ value' = [value EXCEPT ![r] = Format[v]] /\ UNCHANGED queue
  BY DEF DefineInternal
<1>3. \A s \in Routes : Backlog(queue', s) = Backlog(queue, s)
  BY <1>2
<1>4. [s \in Routes |-> BacklogOf(s)]' = [s \in Routes |-> BacklogOf(s)]
  BY <1>3, BacklogOfQueue
<1>5. [s \in Routes |-> s \in resources]' = [[s \in Routes |-> s \in resources] EXCEPT ![r] = TRUE]
  <2>1. ASSUME NEW s \in Routes
        PROVE  (s \in resources') = (IF s = r THEN TRUE ELSE s \in resources)
    <3>1. CASE s = r
      BY <1>2, <3>1
    <3>2. CASE s # r
      <4>1. s \in resources' <=> s \in resources
        BY <1>2, <3>2
      <4>. QED  BY <4>1, <3>2
    <3>. QED  BY <3>1, <3>2
  <2>2. [s \in Routes |-> s \in resources'] =
          [s \in Routes |-> IF s = r THEN TRUE ELSE s \in resources]
    BY <2>1
  <2>3. [[s \in Routes |-> s \in resources] EXCEPT ![r] = TRUE] =
          [s \in Routes |-> IF s = r THEN TRUE ELSE s \in resources]
    OBVIOUS
  <2>. QED  BY <2>2, <2>3
<1>. QED  BY <1>1, <1>2, <1>4, <1>5 DEF Cells!Expose

(* A PUT writes the cell of its route at once.                                *)
LEMMA PutWrites ==
    ASSUME NEW r \in Routes, NEW t \in PutTexts, CloudPut(r, t)
    PROVE  Cells!Put(r, t)
<1>1. r \in resources /\ value' = [value EXCEPT ![r] = t] /\ UNCHANGED <<resources, queue>>
  BY DEF CloudPut, objects
<1>2. [s \in Routes |-> BacklogOf(s)]' = [s \in Routes |-> BacklogOf(s)]
  BY <1>1, BacklogOfQueue
<1>3. [s \in Routes |-> s \in resources]' = [s \in Routes |-> s \in resources]
  BY <1>1
<1>. QED  BY <1>1, <1>2, <1>3 DEF Cells!Put

CellsStep == [Cells!Next]_(Cells!cells)

(* Every step of the main thread, the event thread or the thread of the       *)
(* device management client is a step of one cell, or leaves all alone.       *)
LEMMA StepsMap == Protocol /\ [Next]_vars => CellsStep
<1>. SUFFICES ASSUME Protocol, [Next]_vars PROVE CellsStep
  OBVIOUS
<1>0. TypeOK /\ PutTexts \subseteq Texts
  BY TextsAssumption DEF Protocol
<1>1. ASSUME UNCHANGED <<resources, value, queue>> PROVE CellsStep
  BY <1>1, Stutters DEF CellsStep
<1>2. ASSUME NEW r \in Routes, NEW v \in Values, DefineInternal(r, v) PROVE CellsStep
  BY <1>2, DefinitionExposes DEF CellsStep, Cells!Next
<1>3. CASE MainSet
  BY <1>0, <1>3, ThreadFields, SetAccepts DEF MainSet, CellsStep, Cells!Next
<1>4. CASE CallbackSet
  BY <1>0, <1>4, ThreadFields, SetAccepts DEF CallbackSet, CellsStep, Cells!Next
<1>5. CASE InternalSet
  BY <1>0, <1>5, InternalSetFlushes DEF CellsStep, Cells!Next
<1>6. CASE RunUpdate \/ PostUpdate
  BY <1>0, <1>6, UpdatesStutter DEF CellsStep
<1>7. ASSUME NEW r \in Routes, NEW t \in PutTexts, CloudPut(r, t) PROVE CellsStep
  BY <1>0, <1>7, PutWrites DEF CellsStep, Cells!Next
<1>8. ASSUME \/ \E r \in Routes : DefineRejected(r)
             \/ RegisterUpdateCallback
             \/ Setup
             \/ \E r \in Routes, v \in Values : MainAssign(r, v) \/ CallbackAssign(r, v)
             \/ ClearPendingValue
             \/ CallbackReturns
             \/ ResourceUpdated
             \/ UNCHANGED vars
      PROVE  UNCHANGED <<resources, value, queue>>
  BY <1>8 DEF DefineRejected, RegisterUpdateCallback, Setup, MainAssign, CallbackAssign,
              Remember, ClearPendingValue, CallbackReturns, ResourceUpdated, vars, objects
<1>. QED
  BY <1>1, <1>2, <1>3, <1>4, <1>5, <1>6, <1>7, <1>8
  DEF Next, MainStep, EventStep, M2MStep

(* Before the first definition no route has a resource or a backlog.          *)
LEMMA InitMaps == Init => Cells!Init
<1>. SUFFICES ASSUME Init PROVE Cells!Init
  OBVIOUS
<1>1. queue = <<>> /\ resources = {} /\ value = [r \in Routes |-> Empty]
  BY DEF Init
<1>2. ASSUME NEW r \in Routes PROVE BacklogOf(r) = <<>>
  <2>1. queue \in Seq(Event) /\ Sets(queue, r) = {}
    BY <1>1 DEF Sets
  <2>2. Backlog(queue, r) \in Seq(Values) /\ Len(Backlog(queue, r)) = 0
    BY <2>1, BacklogHolds, FS_EmptySet
  <2>. QED  BY <2>2, BacklogOfQueue
<1>3. [r \in Routes |-> BacklogOf(r)] = [r \in Routes |-> <<>>]
  BY <1>2
<1>4. ASSUME NEW r \in Routes PROVE (r \in resources) = FALSE
  BY <1>1
<1>5. [r \in Routes |-> r \in resources] = [r \in Routes |-> FALSE]
  BY <1>4
<1>. QED  BY <1>1, <1>3, <1>5 DEF Cells!Init

(* The threads, the queue and the two copies of every object implement the    *)
(* cells: whatever the routes, the conversions and the size of the queue, an  *)
(* accepted assignment is written once, in its order, to its own resource.    *)
THEOREM VariablesAreCells == Spec => ImplementsCellsSafely
BY InitMaps, ProtocolHolds, StepsMap, PTL
   DEF Spec, CellsStep, ImplementsCellsSafely, Cells!Safety
=============================================================================
