------------------------- MODULE AddResourceProofs -------------------------
(* What one call of add_resource does to the list of objects and to the       *)
(* function on paths it stands for, for every list, number and callback.      *)
EXTENDS AddResource, SequenceTheorems, TLAPS

Numbers == Nat \X Nat
Resources == UNION {[S -> Resource] : S \in SUBSET Numbers}
Object == [id : Nat, resources : Resources]

ListOfObjects == list \in Seq(Object)

-----------------------------------------------------------------------------
(* A new resource is one.                                                     *)
LEMMA NewResourceType ==
    ASSUME NEW call \in Call
    PROVE  /\ NewResource(call) \in Resource /\ Key(call) \in Numbers
           /\ Only(call) \in Resources /\ call.object \in Nat
<1>1. call.operations \in SUBSET Operations /\ call.callback \in {"none", "execute", "updated"}
  BY DEF Call
<1>2. /\ Handler(call) \in {"none", "execute", "updated"}
      /\ Handler(call) = "execute" => "POST" \in call.operations
      /\ Handler(call) = "updated" => "PUT" \in call.operations
  BY <1>1 DEF Handler
<1>3. NewResource(call) \in Resource
  BY <1>1, <1>2 DEF NewResource, Resource
<1>4. Key(call) \in Numbers /\ call.object \in Nat
  BY DEF Call, Key, Numbers
<1>5. Only(call) \in [{Key(call)} -> Resource] /\ {Key(call)} \in SUBSET Numbers
  BY <1>3, <1>4 DEF Only
<1>. QED  BY <1>3, <1>4, <1>5 DEF Resources

(* The new resource has the operations and the handler that are promised.     *)
LEMMA NewResourceIsPromised ==
    ASSUME NEW call \in Call
    PROVE  NewResource(call) = Promised(call)
<1>1. call.operations \in SUBSET Operations /\ call.callback \in {"none", "execute", "updated"}
  BY DEF Call
<1>2. (\E operation \in call.operations : <<call.callback, operation>> \in Fits)
        <=> \/ call.callback = "execute" /\ "POST" \in call.operations
            \/ call.callback = "updated" /\ "PUT" \in call.operations
  BY <1>1 DEF Fits
<1>. QED  BY <1>2 DEF NewResource, Handler, Promised

(* The object that is found is the one with its number.                       *)
LEMMA FirstIsIt ==
    ASSUME ListOfObjects, OneObjectPerNumber, NEW i \in 1..Len(list)
    PROVE  First(list[i].id) = i
<1>1. Found(list[i].id) = {i}
  BY DEF Found, OneObjectPerNumber
<1>. QED  BY <1>1 DEF First, ListOfObjects

LEMMA FoundIsFirst ==
    ASSUME ListOfObjects, OneObjectPerNumber, NEW id, Found(id) # {}
    PROVE  First(id) \in 1..Len(list) /\ list[First(id)].id = id
<1>1. PICK i \in 1..Len(list) : list[i].id = id
  BY DEF Found
<1>. QED  BY <1>1, FirstIsIt

-----------------------------------------------------------------------------
(* A call either appends an object with its one resource, or adds its         *)
(* resource to the object that has its number.                                *)
Appended(call) ==
    /\ list' \in Seq(Object) /\ Len(list') = Len(list) + 1
    /\ \A j \in 1..Len(list) : list'[j] = list[j]
    /\ list'[Len(list) + 1] = [id |-> call.object, resources |-> Only(call)]

With(call, resources) ==
    [k \in DOMAIN resources \cup {Key(call)} |->
        IF k = Key(call) THEN NewResource(call) ELSE resources[k]]

Extended(call, i) ==
    /\ list' \in Seq(Object) /\ Len(list') = Len(list)
    /\ \A j \in 1..Len(list) : j # i => list'[j] = list[j]
    /\ list'[i] = [id |-> call.object, resources |-> With(call, list[i].resources)]

LEMMA WithType ==
    ASSUME NEW call \in Call, NEW resources \in Resources
    PROVE  With(call, resources) \in Resources
<1>1. PICK S \in SUBSET Numbers : resources \in [S -> Resource]
  BY DEF Resources
<1>2. S \cup {Key(call)} \in SUBSET Numbers /\ DOMAIN resources = S
  BY <1>1, NewResourceType
<1>3. With(call, resources) \in [S \cup {Key(call)} -> Resource]
  BY <1>1, <1>2, NewResourceType DEF With
<1>. QED  BY <1>2, <1>3 DEF Resources

LEMMA AddShape ==
    ASSUME ListOfObjects, OneObjectPerNumber, NEW call \in Call, AddResource(call)
    PROVE  \/ Found(call.object) = {} /\ Appended(call)
           \/ \E i \in 1..Len(list) : list[i].id = call.object /\ Extended(call, i)
<1>1. CASE Found(call.object) = {}
  <2>. DEFINE new == [id |-> call.object, resources |-> Only(call)]
  <2>1. new \in Object
    BY NewResourceType DEF Object
  <2>2. list' = Append(list, new)
    BY <1>1 DEF AddResource
  <2>. HIDE DEF new
  <2>3. /\ list' \in Seq(Object) /\ Len(list') = Len(list) + 1
        /\ \A j \in 1..Len(list) : list'[j] = list[j]
        /\ list'[Len(list) + 1] = new
    BY <2>1, <2>2, AppendProperties DEF ListOfObjects
  <2>. QED  BY <1>1, <2>3 DEF Appended, new
<1>2. CASE Found(call.object) # {}
  <2>. DEFINE i == First(call.object)
  <2>. DEFINE new == [id |-> call.object, resources |-> With(call, list[i].resources)]
  <2>1. i \in 1..Len(list) /\ list[i].id = call.object
    BY <1>2, FoundIsFirst
  <2>2. list[i] \in Object
    BY <2>1, ElementOfSeq DEF ListOfObjects
  <2>3. new \in Object
    BY <2>2, NewResourceType, WithType DEF Object
  <2>4. list' = [list EXCEPT ![i] = new]
    <3>1. [list[i] EXCEPT !.resources = With(call, list[i].resources)] = new
      BY <2>1, <2>2 DEF Object
    <3>2. list' = [list EXCEPT ![i] = [list[i] EXCEPT !.resources = With(call, list[i].resources)]]
      BY <1>2 DEF AddResource, With
    <3>. QED  BY <3>1, <3>2
  <2>. HIDE DEF new, i
  <2>5. /\ list' \in Seq(Object) /\ Len(list') = Len(list)
        /\ \A j \in 1..Len(list) : list'[j] = IF j = i THEN new ELSE list[j]
    BY <2>1, <2>3, <2>4, ExceptSeq DEF ListOfObjects
  <2>6. list'[i] = [id |-> call.object, resources |-> With(call, list[i].resources)]
    BY <2>1, <2>5 DEF new
  <2>. QED  BY <2>1, <2>5, <2>6 DEF Extended
<1>. QED  BY <1>1, <1>2

-----------------------------------------------------------------------------
(* No call lists a number twice, and the list keeps its type.                 *)
LEMMA AddKeepsObjects ==
    ASSUME ListOfObjects, OneObjectPerNumber, NEW call \in Call, AddResource(call)
    PROVE  ListOfObjects' /\ OneObjectPerNumber'
<1>1. CASE Found(call.object) = {} /\ Appended(call)
  <2>1. \A j \in 1..Len(list) : list[j].id # call.object
    BY <1>1 DEF Found
  <2>2. Len(list) \in Nat /\ 1..Len(list') = 1..Len(list) \cup {Len(list) + 1}
    BY <1>1 DEF Appended, ListOfObjects
  <2>. QED  BY <1>1, <2>1, <2>2 DEF Appended, ListOfObjects, OneObjectPerNumber
<1>2. ASSUME NEW i \in 1..Len(list), list[i].id = call.object, Extended(call, i)
      PROVE  ListOfObjects' /\ OneObjectPerNumber'
  <2>1. \A j \in 1..Len(list) : list'[j].id = list[j].id
    BY <1>2 DEF Extended
  <2>. QED  BY <1>2, <2>1 DEF Extended, ListOfObjects, OneObjectPerNumber
<1>. QED  BY <1>1, <1>2, AddShape

(* The list of objects is what the type invariant says.                       *)
LEMMA ObjectsType == ListOfObjects => ListTypeOK
<1>. SUFFICES ASSUME ListOfObjects PROVE ListTypeOK
  OBVIOUS
<1>1. DOMAIN list = 1..Len(list)
  BY DEF ListOfObjects
<1>2. ASSUME NEW i \in 1..Len(list)
      PROVE  /\ list[i].id \in Nat /\ DOMAIN list[i].resources \subseteq Nat \X Nat
             /\ \A k \in DOMAIN list[i].resources : list[i].resources[k] \in Resource
  <2>1. list[i] \in Object
    BY ElementOfSeq DEF ListOfObjects
  <2>2. PICK S \in SUBSET Numbers : list[i].resources \in [S -> Resource]
    BY <2>1 DEF Object, Resources
  <2>. QED  BY <2>1, <2>2 DEF Object, Numbers
<1>. QED  BY <1>1, <1>2 DEF ListTypeOK

-----------------------------------------------------------------------------
(* The list as a function on paths, for any list: the definitions of the      *)
(* module with the list as a parameter, to speak of it before and after.      *)
UniqueNumbers(l) == \A i, j \in 1..Len(l) : l[i].id = l[j].id => i = j

FirstIn(l, id) ==
    CHOOSE i \in {j \in 1..Len(l) : l[j].id = id} :
        \A j \in {j \in 1..Len(l) : l[j].id = id} : i <= j

PathAt(l, i, k) == <<l[i].id, k[1], k[2]>>
PathsIn(l) == UNION {{PathAt(l, i, k) : k \in DOMAIN l[i].resources} : i \in 1..Len(l)}
At(l, path) == l[FirstIn(l, path[1])].resources[<<path[2], path[3]>>]

LEMMA TreeOfList ==
    /\ Tree = [path \in PathsIn(list) |-> At(list, path)]
    /\ Tree' = [path \in PathsIn(list') |-> At(list', path)]
BY DEF Tree, AllPaths, PathsOf, ResourceAt, First, Found, PathsIn, PathAt, At, FirstIn

(* A path leads to the object with its number and the resource with its key.  *)
LEMMA AtPath ==
    ASSUME NEW l \in Seq(Object), UniqueNumbers(l),
           NEW i \in 1..Len(l), NEW k \in DOMAIN l[i].resources
    PROVE  /\ k \in Numbers
           /\ PathAt(l, i, k) \in PathsIn(l)
           /\ At(l, PathAt(l, i, k)) = l[i].resources[k]
<1>1. k \in Numbers
  <2>1. l[i] \in Object
    BY ElementOfSeq
  <2>2. PICK S \in SUBSET Numbers : l[i].resources \in [S -> Resource]
    BY <2>1 DEF Object, Resources
  <2>. QED  BY <2>2
<1>2. FirstIn(l, l[i].id) = i
  <2>1. {j \in 1..Len(l) : l[j].id = l[i].id} = {i} /\ i <= i
    BY DEF UniqueNumbers
  <2>. QED  BY <2>1 DEF FirstIn
<1>3. PathAt(l, i, k) \in PathsIn(l)
  BY DEF PathsIn
<1>4. k = <<k[1], k[2]>>
  BY <1>1 DEF Numbers
<1>. QED  BY <1>1, <1>2, <1>3, <1>4 DEF At, PathAt

\* What every object has after the call, by its place: the object at n has the
\* new resource and those it had, the others are what they were.
Placed(call, n) ==
    /\ list'[n].id = call.object
    /\ Key(call) \in DOMAIN list'[n].resources
    /\ list'[n].resources[Key(call)] = NewResource(call)
    /\ \A k \in DOMAIN list'[n].resources : k # Key(call) =>
         /\ n \in 1..Len(list) /\ k \in DOMAIN list[n].resources
         /\ list'[n].resources[k] = list[n].resources[k]
    /\ n \in 1..Len(list) =>
         /\ list[n].id = call.object
         /\ \A k \in DOMAIN list[n].resources :
              k # Key(call) /\ k \in DOMAIN list'[n].resources
    /\ \A j \in 1..Len(list') : j # n => j \in 1..Len(list) /\ list'[j] = list[j]
    /\ \A j \in 1..Len(list) : j \in 1..Len(list')
    /\ \A j \in 1..Len(list) : list[j].id = call.object => j = n

LEMMA AddPlaces ==
    ASSUME ListOfObjects, OneObjectPerNumber, NEW call \in Call,
           ~Duplicate(call), AddResource(call)
    PROVE  \E n \in 1..Len(list') : Placed(call, n)
<1>1. CASE Found(call.object) = {} /\ Appended(call)
  <2>1. \A j \in 1..Len(list) : list[j].id # call.object
    BY <1>1 DEF Found
  <2>2. Len(list) \in Nat /\ Len(list') = Len(list) + 1
    BY <1>1 DEF Appended, ListOfObjects
  <2>3. /\ list'[Len(list) + 1].id = call.object
        /\ list'[Len(list) + 1].resources = Only(call)
    BY <1>1 DEF Appended
  <2>4. DOMAIN Only(call) = {Key(call)} /\ Only(call)[Key(call)] = NewResource(call)
    BY DEF Only
  <2>5. \A j \in 1..Len(list) : list'[j] = list[j]
    BY <1>1 DEF Appended
  <2>6. Placed(call, Len(list) + 1)
    BY <2>1, <2>2, <2>3, <2>4, <2>5 DEF Placed
  <2>. QED  BY <2>2, <2>6
<1>2. ASSUME NEW i \in 1..Len(list), list[i].id = call.object, Extended(call, i)
      PROVE  \E n \in 1..Len(list') : Placed(call, n)
  <2>1. Key(call) \notin DOMAIN list[i].resources
    BY <1>2, FirstIsIt DEF Duplicate, Found
  <2>2. /\ list'[i].id = call.object
        /\ list'[i].resources = With(call, list[i].resources)
        /\ Len(list') = Len(list)
    BY <1>2 DEF Extended
  <2>3. \A j \in 1..Len(list) : j # i => list'[j] = list[j]
    BY <1>2 DEF Extended
  <2>4. \A j \in 1..Len(list) : list[j].id = call.object => j = i
    BY <1>2 DEF OneObjectPerNumber
  <2>5. DOMAIN With(call, list[i].resources) = DOMAIN list[i].resources \cup {Key(call)}
    BY DEF With
  <2>6. \A k \in DOMAIN With(call, list[i].resources) :
          With(call, list[i].resources)[k] =
            IF k = Key(call) THEN NewResource(call) ELSE list[i].resources[k]
    BY DEF With
  <2>7. Placed(call, i)
    BY <1>2, <2>1, <2>2, <2>3, <2>4, <2>5, <2>6 DEF Placed
  <2>. QED  BY <2>2, <2>7
<1>. QED  BY <1>1, <1>2, AddShape

(* A call that is no duplicate adds its own path with its new resource, and   *)
(* leaves every other path what it was.                                       *)
LEMMA AddGrowsTree ==
    ASSUME ListOfObjects, OneObjectPerNumber, NEW call \in Call,
           ~Duplicate(call), AddResource(call)
    PROVE  /\ PathOf(call) \notin DOMAIN Tree
           /\ Tree' = [p \in DOMAIN Tree \cup {PathOf(call)} |->
                          IF p = PathOf(call) THEN NewResource(call) ELSE Tree[p]]
<1>. DEFINE P == PathOf(call)
<1>1. /\ list \in Seq(Object) /\ UniqueNumbers(list)
      /\ list' \in Seq(Object) /\ UniqueNumbers(list')
  BY AddKeepsObjects DEF ListOfObjects, OneObjectPerNumber, UniqueNumbers
<1>2. PICK n \in 1..Len(list') : Placed(call, n)
  BY AddPlaces
<1>3. PathAt(list', n, Key(call)) = P
  BY <1>2 DEF Placed, PathAt, PathOf, Key
<1>4. P \in PathsIn(list') /\ At(list', P) = NewResource(call)
  BY <1>1, <1>2, <1>3, AtPath DEF Placed
\* The paths of the list are those of the new list but P, with what they had.
<1>5. ASSUME NEW p \in PathsIn(list)
      PROVE  p # P /\ p \in PathsIn(list') /\ At(list', p) = At(list, p)
  <2>1. PICK i \in 1..Len(list) : \E k \in DOMAIN list[i].resources : p = PathAt(list, i, k)
    BY <1>5 DEF PathsIn
  <2>2. PICK k \in DOMAIN list[i].resources : p = PathAt(list, i, k)
    BY <2>1
  <2>3. k \in Numbers /\ At(list, p) = list[i].resources[k]
    BY <1>1, <2>2, AtPath
  <2>4. /\ i \in 1..Len(list') /\ list'[i].id = list[i].id
        /\ k \in DOMAIN list'[i].resources
        /\ list'[i].resources[k] = list[i].resources[k]
    <3>1. CASE i = n
      BY <1>2, <2>2, <3>1 DEF Placed
    <3>2. CASE i # n
      BY <1>2, <2>2, <3>2 DEF Placed
    <3>. QED  BY <3>1, <3>2
  <2>5. p = PathAt(list', i, k)
    BY <2>2, <2>4 DEF PathAt
  <2>6. p \in PathsIn(list') /\ At(list', p) = list'[i].resources[k]
    BY <1>1, <2>4, <2>5, AtPath
  <2>7. p # P
    <3>. SUFFICES ASSUME p = P PROVE FALSE
      OBVIOUS
    <3>1. list[i].id = call.object /\ k[1] = call.instance /\ k[2] = call.resource
      BY <2>2 DEF PathAt, PathOf
    <3>2. i = n /\ k = Key(call)
      BY <1>2, <2>2, <2>3, <3>1 DEF Placed, Numbers, Key
    <3>. QED  BY <1>2, <2>2, <3>2 DEF Placed
  <2>. QED  BY <2>3, <2>4, <2>6, <2>7
<1>6. ASSUME NEW p \in PathsIn(list'), p # P
      PROVE  p \in PathsIn(list)
  <2>1. PICK i \in 1..Len(list') : \E k \in DOMAIN list'[i].resources : p = PathAt(list', i, k)
    BY <1>6 DEF PathsIn
  <2>2. PICK k \in DOMAIN list'[i].resources : p = PathAt(list', i, k)
    BY <2>1
  <2>3. i = n => k # Key(call)
    BY <1>3, <1>6, <2>2
  <2>4. i \in 1..Len(list) /\ list[i].id = list'[i].id /\ k \in DOMAIN list[i].resources
    <3>1. CASE i = n
      BY <1>2, <2>2, <2>3, <3>1 DEF Placed
    <3>2. CASE i # n
      BY <1>2, <2>2, <3>2 DEF Placed
    <3>. QED  BY <3>1, <3>2
  <2>5. p = PathAt(list, i, k)
    BY <2>2, <2>4 DEF PathAt
  <2>. QED  BY <2>4, <2>5 DEF PathsIn
<1>7. PathsIn(list') = PathsIn(list) \cup {P}
  BY <1>4, <1>5, <1>6
<1>8. DOMAIN Tree = PathsIn(list) /\ \A p \in PathsIn(list) : Tree[p] = At(list, p)
  BY TreeOfList
<1>9. Tree' = [p \in PathsIn(list) \cup {P} |->
                 IF p = P THEN NewResource(call) ELSE Tree[p]]
  BY <1>4, <1>5, <1>7, <1>8, TreeOfList
<1>. QED  BY <1>5, <1>8, <1>9
=============================================================================
