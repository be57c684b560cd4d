------------------------- MODULE ResourceTreeProofs -------------------------
(* Safety of ResourceTree for every set of routes, whatever their spelling.   *)
EXTENDS ResourceTree, TLAPS

-----------------------------------------------------------------------------
(* The inductive invariant.                                                   *)

\* A resource lives in the one instance its object has.
LivesInItsObject ==
    \A route \in DOMAIN resources :
        /\ Accepted(route)
        /\ route[1] \in DOMAIN objectInstances
        /\ resources[route] = [object   |-> route[1],
                               instance |-> objectInstances[route[1]],
                               resource |-> route[3]]

\* The number of an instance comes from a route that was defined under it.
InstanceFromRoute ==
    \A o \in DOMAIN objectInstances :
        \E route \in DOMAIN resources :
            route[1] = o /\ Atoi[route[2]] = objectInstances[o]

\* The route whose definition is in progress has its resource, and every other
\* one has its handler.
HandlersFollow ==
    /\ app.at \in {"registering", "executing"} =>
         /\ app.route \in DOMAIN resources
         /\ DOMAIN resources = updateValues \cup executes \cup {app.route}
    /\ app = Idle => DOMAIN resources = updateValues \cup executes
    /\ client => app = Idle
    /\ published # {} => client /\ published = Taken

IInv == /\ TypeOK
        /\ LivesInItsObject
        /\ InstanceFromRoute
        /\ HandlersFollow
        /\ NoAliasing

-----------------------------------------------------------------------------
(* What an accepted route looks like.                                         *)
LEMMA AcceptedRoute ==
    ASSUME NEW route \in Routes, Accepted(route)
    PROVE  /\ Len(route) = 3 /\ route = <<route[1], route[2], route[3]>>
           /\ route[1] \in Piece /\ route[2] \in Digits /\ route[3] \in Piece
           /\ Atoi[route[2]] \in Nat
<1>1. route \in Seq(Piece) /\ Len(route) \in Nat
  BY RoutesAssumption
<1>2. Len(route) = 3 /\ route[2] \in Digits
  BY <1>1 DEF Accepted, parse_route
<1>3. route[1] \in Piece /\ route[3] \in Piece
  BY <1>1, <1>2
<1>4. route = <<route[1], route[2], route[3]>>
  BY <1>1, <1>2
<1>. QED  BY <1>2, <1>3, <1>4, DigitsAssumption

(* The address an accepted route gets is an address.                          *)
LEMMA AddressForType ==
    ASSUME TypeOK, NEW route \in Routes, Accepted(route)
    PROVE  AddressFor(route) \in Address /\ InstanceFor(route) \in Nat
<1>1. InstanceFor(route) \in Nat
  BY AcceptedRoute DEF InstanceFor, TypeOK
<1>. QED  BY <1>1, AcceptedRoute DEF AddressFor, Address

-----------------------------------------------------------------------------
(* Defining a resource keeps the invariant, whichever handler follows.        *)
LEMMA DefineStep ==
    ASSUME IInv, NEW route \in Routes, NEW next \in {"registering", "executing"},
           DefineInternal(route, next)
    PROVE  IInv'
<1>. USE DEF IInv
<1>1. /\ app = Idle /\ ~client /\ Accepted(route)
      /\ objectInstances' = Extend(objectInstances, route[1], InstanceFor(route))
      /\ UNCHANGED <<client, updateValues, executes, published>>
  BY DEF DefineInternal
<1>2. /\ AddressFor(route) \in Address /\ InstanceFor(route) \in Nat
      /\ route[1] \in Piece
  BY <1>1, AddressForType, AcceptedRoute
<1>3. /\ DOMAIN objectInstances' = DOMAIN objectInstances \cup {route[1]}
      /\ \A o \in DOMAIN objectInstances : objectInstances'[o] = objectInstances[o]
      /\ objectInstances'[route[1]] = InstanceFor(route)
  BY <1>1 DEF Extend, InstanceFor
<1>4. CASE AddressFor(route) \in Taken
  <2>1. app' = [at |-> "crashed"] /\ UNCHANGED resources
    BY <1>4 DEF DefineInternal
  <2>2. PICK other \in DOMAIN resources : resources[other] = AddressFor(route)
    BY <1>4 DEF Taken
  <2>3. route[1] \in DOMAIN objectInstances
    BY <2>2 DEF LivesInItsObject, AddressFor
  <2>4. TypeOK'
    BY <1>1, <1>2, <1>3, <2>1 DEF TypeOK
  <2>5. LivesInItsObject' /\ InstanceFromRoute'
    BY <1>3, <2>1, <2>3 DEF LivesInItsObject, InstanceFromRoute, Accepted
  <2>6. HandlersFollow'
    BY <1>1, <2>1 DEF HandlersFollow, Taken, Idle
  <2>. QED  BY <2>1, <2>4, <2>5, <2>6 DEF NoAliasing
<1>5. CASE AddressFor(route) \notin Taken
  <2>1. /\ app' = [at |-> next, route |-> route]
        /\ resources' = Extend(resources, route, AddressFor(route))
    BY <1>5 DEF DefineInternal
  <2>2. /\ DOMAIN resources' = DOMAIN resources \cup {route}
        /\ resources'[route] = AddressFor(route)
        /\ \A r \in DOMAIN resources \ {route} : resources'[r] = resources[r]
    BY <2>1 DEF Extend
  <2>3. route \notin DOMAIN resources
    <3>. SUFFICES ASSUME route \in DOMAIN resources PROVE FALSE
      OBVIOUS
    <3>1. AddressFor(route) = resources[route]
      BY DEF LivesInItsObject, AddressFor, InstanceFor
    <3>. QED  BY <1>5, <3>1 DEF Taken
  <2>4. TypeOK'
    BY <1>1, <1>2, <1>3, <2>1, <2>2 DEF TypeOK
  <2>5. LivesInItsObject'
    BY <1>1, <1>3, <2>2, <2>3 DEF LivesInItsObject, AddressFor, Accepted
  <2>6. InstanceFromRoute'
    <3>1. ASSUME NEW o \in DOMAIN objectInstances
          PROVE  \E r \in DOMAIN resources' : r[1] = o /\ Atoi[r[2]] = objectInstances'[o]
      BY <1>3, <2>2 DEF InstanceFromRoute
    <3>2. CASE route[1] \notin DOMAIN objectInstances
      BY <1>3, <2>2, <3>1, <3>2 DEF InstanceFromRoute, InstanceFor
    <3>3. CASE route[1] \in DOMAIN objectInstances
      BY <1>3, <3>1, <3>3 DEF InstanceFromRoute
    <3>. QED  BY <3>2, <3>3
  <2>7. HandlersFollow'
    BY <1>1, <2>1, <2>2 DEF HandlersFollow, Idle
  <2>8. NoAliasing'
    BY <1>5, <2>2 DEF NoAliasing, Taken
  <2>. QED  BY <2>4, <2>5, <2>6, <2>7, <2>8
<1>. QED  BY <1>4, <1>5

(* Every call of the application keeps the invariant.                         *)
LEMMA Step == IInv /\ [Next]_vars => IInv'
<1>. SUFFICES ASSUME IInv, [Next]_vars PROVE IInv'
  OBVIOUS
<1>. USE DEF IInv
<1>1. ASSUME NEW route \in Routes, DefineResource(route) PROVE IInv'
  BY <1>1, DefineStep DEF DefineResource
<1>2. ASSUME NEW route \in Routes, DefineFunction(route) PROVE IInv'
  BY <1>2, DefineStep DEF DefineFunction
<1>3. CASE RegisterUpdateCallback
  <2>1. TypeOK'
    BY <1>3 DEF RegisterUpdateCallback, TypeOK, HandlersFollow
  <2>2. HandlersFollow'
    BY <1>3 DEF RegisterUpdateCallback, HandlersFollow, Taken, Idle
  <2>3. LivesInItsObject' /\ InstanceFromRoute' /\ NoAliasing'
    BY <1>3 DEF RegisterUpdateCallback, LivesInItsObject, InstanceFromRoute, NoAliasing,
                Accepted
  <2>. QED  BY <2>1, <2>2, <2>3
<1>4. CASE SetExecuteFunction
  <2>1. TypeOK'
    BY <1>4 DEF SetExecuteFunction, TypeOK, HandlersFollow
  <2>2. HandlersFollow'
    BY <1>4 DEF SetExecuteFunction, HandlersFollow, Taken, Idle
  <2>3. LivesInItsObject' /\ InstanceFromRoute' /\ NoAliasing'
    BY <1>4 DEF SetExecuteFunction, LivesInItsObject, InstanceFromRoute, NoAliasing,
                Accepted
  <2>. QED  BY <2>1, <2>2, <2>3
<1>5. CASE SetupFails
  BY <1>5 DEF SetupFails, TypeOK, HandlersFollow, Taken, LivesInItsObject,
              InstanceFromRoute, NoAliasing, Accepted
<1>6. CASE Setup
  <2>1. TypeOK'
    BY <1>6 DEF Setup, TypeOK, Taken
  <2>2. HandlersFollow'
    BY <1>6 DEF Setup, HandlersFollow, Taken
  <2>3. LivesInItsObject' /\ InstanceFromRoute' /\ NoAliasing'
    BY <1>6 DEF Setup, LivesInItsObject, InstanceFromRoute, NoAliasing, Accepted
  <2>. QED  BY <2>1, <2>2, <2>3
<1>7. CASE UNCHANGED vars
  BY <1>7 DEF vars, TypeOK, HandlersFollow, Taken, LivesInItsObject, InstanceFromRoute,
              NoAliasing, Accepted
<1>. QED  BY <1>1, <1>2, <1>3, <1>4, <1>5, <1>6, <1>7 DEF Next

(* The invariant holds in every reachable state.                              *)
LEMMA Invariance == Spec => []IInv
<1>1. Init => IInv
  <2>1. Init => DOMAIN objectInstances = {} /\ DOMAIN resources = {}
    BY DEF Init
  <2>2. Init => TypeOK
    BY <2>1 DEF Init, TypeOK, Idle
  <2>3. Init => LivesInItsObject /\ InstanceFromRoute /\ NoAliasing
    BY <2>1 DEF LivesInItsObject, InstanceFromRoute, NoAliasing
  <2>4. Init => HandlersFollow
    BY <2>1 DEF Init, HandlersFollow, Idle
  <2>. QED  BY <2>2, <2>3, <2>4 DEF IInv
<1>. QED  BY <1>1, Step, PTL DEF Spec

-----------------------------------------------------------------------------
(* The types are kept.                                                        *)
THEOREM TypeCorrect == Spec => []TypeOK
BY Invariance, PTL DEF IInv

(* No two routes share a resource, however their instances are spelled.       *)
THEOREM NeverAliased == Spec => []NoAliasing
BY Invariance, PTL DEF IInv

(* An update never reaches the callback of a variable that lives elsewhere.   *)
THEOREM RightVariable == Spec => []UpdatesFindTheRightVariable
<1>1. IInv => UpdatesFindTheRightVariable
  <2>. SUFFICES ASSUME IInv, NEW route \in DOMAIN resources,
                       Path(resources[route]) \in updateValues
                PROVE  resources[Path(resources[route])] = resources[route]
    BY DEF UpdatesFindTheRightVariable
  <2>. DEFINE found == Path(resources[route])
  <2>1. found \in DOMAIN resources
    BY DEF IInv, TypeOK
  <2>2. found[1] = resources[route].object /\ found[3] = resources[route].resource
    BY DEF Path
  <2>3. /\ resources[found] = [object |-> found[1], instance |-> objectInstances[found[1]],
                               resource |-> found[3]]
        /\ resources[route] = [object |-> route[1], instance |-> objectInstances[route[1]],
                               resource |-> route[3]]
    BY <2>1 DEF IInv, LivesInItsObject
  <2>. QED  BY <2>2, <2>3
<1>. QED  BY <1>1, Invariance, PTL

(* What init hands over is all there will ever be, with its handlers.         *)
THEOREM CompletePublication == Spec => []PublicationIsComplete
<1>1. IInv => PublicationIsComplete
  BY DEF IInv, HandlersFollow, PublicationIsComplete
<1>. QED  BY <1>1, Invariance, PTL

(* The routes that are uniform within their object keep their path.           *)
THEOREM UniformRoutes == Spec => []UniformRoutesKeepTheirPath
<1>1. IInv => UniformRoutesKeepTheirPath
  <2>. SUFFICES ASSUME IInv, NEW route \in DOMAIN resources, SpelledAlike(route)
                PROVE  Path(resources[route]) = route
    BY DEF UniformRoutesKeepTheirPath
  <2>1. /\ route \in Routes /\ Accepted(route)
        /\ route[1] \in DOMAIN objectInstances
        /\ resources[route] = [object |-> route[1], instance |-> objectInstances[route[1]],
                               resource |-> route[3]]
    BY DEF IInv, TypeOK, LivesInItsObject
  <2>2. PICK other \in DOMAIN resources :
          other[1] = route[1] /\ Atoi[other[2]] = objectInstances[route[1]]
    BY <2>1 DEF IInv, InstanceFromRoute
  <2>3. Decimal[objectInstances[route[1]]] = route[2]
    BY <2>2 DEF SpelledAlike
  <2>. QED  BY <2>1, <2>3, AcceptedRoute DEF Path
<1>. QED  BY <1>1, Invariance, PTL

-----------------------------------------------------------------------------
(* The refinement of PathTree.  TreeOf is Tree with the resources as a        *)
(* parameter, to speak of it before and after a step.                         *)
TreeOf(res) == [address \in {res[route] : route \in DOMAIN res} |->
                  CHOOSE route \in DOMAIN res : res[route] = address]

LEMMA TreeOfResources == Tree = TreeOf(resources) /\ Tree' = TreeOf(resources')
BY DEF Tree, TreeOf, Taken

(* When no two routes share an address, the address leads back to its route.  *)
LEMMA OwnerIsTheRoute ==
    ASSUME NEW res, \A r1, r2 \in DOMAIN res : res[r1] = res[r2] => r1 = r2,
           NEW route \in DOMAIN res
    PROVE  res[route] \in DOMAIN TreeOf(res) /\ TreeOf(res)[res[route]] = route
<1>1. res[route] \in DOMAIN TreeOf(res)
  BY DEF TreeOf
<1>2. \A r \in DOMAIN res : res[r] = res[route] <=> r = route
  OBVIOUS
<1>. QED  BY <1>1, <1>2 DEF TreeOf

(* The address of an accepted route is one a resource can have: the number of *)
(* its instance was read from a route of the application.                     *)
LEMMA AddressIsAddressable ==
    ASSUME IInv, NEW route \in Routes, Accepted(route)
    PROVE  AddressFor(route) \in Addressable
<1>1. PICK p \in Digits : InstanceFor(route) = Atoi[p]
  <2>1. CASE route[1] \in DOMAIN objectInstances
    <3>1. PICK other \in DOMAIN resources :
            other[1] = route[1] /\ Atoi[other[2]] = objectInstances[route[1]]
      BY <2>1 DEF IInv, InstanceFromRoute
    <3>2. other[2] \in Digits
      BY DEF IInv, LivesInItsObject, Accepted
    <3>. QED  BY <2>1, <3>1, <3>2 DEF InstanceFor
  <2>2. CASE route[1] \notin DOMAIN objectInstances
    BY <2>2 DEF InstanceFor, Accepted
  <2>. QED  BY <2>1, <2>2
<1>. QED  BY <1>1 DEF AddressFor, Addressable

(* A definition adds the address of its route to the registry, or changes     *)
(* nothing there when the address is taken.                                   *)
LEMMA DefinitionGrows ==
    ASSUME IInv, IInv', NEW route \in Routes, NEW next, DefineInternal(route, next)
    PROVE  Registry!Next \/ UNCHANGED Tree
<1>. DEFINE new == AddressFor(route)
<1>1. Accepted(route) /\ new \in Addressable
  BY AddressIsAddressable DEF DefineInternal
<1>2. CASE new \in Taken
  <2>1. UNCHANGED resources
    BY <1>2 DEF DefineInternal
  <2>. QED  BY <2>1, TreeOfResources
<1>3. CASE new \notin Taken
  <2>1. resources' = Extend(resources, route, new)
    BY <1>3 DEF DefineInternal
  <2>. HIDE DEF new
  <2>2. route \notin DOMAIN resources
    <3>. SUFFICES ASSUME route \in DOMAIN resources PROVE FALSE
      OBVIOUS
    <3>1. new = resources[route]
      BY DEF IInv, LivesInItsObject, AddressFor, InstanceFor, new
    <3>. QED  BY <1>3, <3>1 DEF Taken
  <2>3. /\ DOMAIN resources' = DOMAIN resources \cup {route}
        /\ resources'[route] = new
        /\ \A r \in DOMAIN resources : resources'[r] = resources[r]
    BY <2>1, <2>2 DEF Extend
  <2>4. DOMAIN Tree = Taken /\ DOMAIN Tree' = Taken \cup {new}
    BY <2>3 DEF Tree, Taken
  <2>5. \A r1, r2 \in DOMAIN resources : resources[r1] = resources[r2] => r1 = r2
    BY DEF IInv, NoAliasing
  <2>6. \A r1, r2 \in DOMAIN resources' : resources'[r1] = resources'[r2] => r1 = r2
    BY DEF IInv, NoAliasing
  <2>7. Tree'[new] = route
    BY <2>3, <2>6, OwnerIsTheRoute, TreeOfResources
  <2>8. ASSUME NEW address \in Taken PROVE Tree'[address] = Tree[address]
    <3>1. PICK r \in DOMAIN resources : resources[r] = address
      BY DEF Taken
    <3>2. Tree[address] = r
      BY <2>5, <3>1, OwnerIsTheRoute, TreeOfResources
    <3>3. r \in DOMAIN resources' /\ resources'[r] = address
      BY <2>3, <3>1
    <3>4. Tree'[address] = r
      BY <2>6, <3>3, OwnerIsTheRoute, TreeOfResources
    <3>. QED  BY <3>2, <3>4
  <2>9. Tree' = [a \in DOMAIN Tree' |-> Tree'[a]]
    BY DEF Tree
  <2>10. Tree' = [a \in DOMAIN Tree \cup {new} |-> IF a = new THEN route ELSE Tree[a]]
    BY <1>3, <2>4, <2>7, <2>8, <2>9
  <2>11. Registry!Add(new, route)
    BY <1>3, <2>4, <2>10 DEF Registry!Add
  <2>. QED  BY <1>1, <2>11 DEF Registry!Next
<1>. QED  BY <1>2, <1>3

RegistryStep == [Registry!Next]_Tree

(* Every call of the application adds one address or none.                    *)
LEMMA StepGrows == IInv /\ IInv' /\ [Next]_vars => RegistryStep
<1>. SUFFICES ASSUME IInv, IInv', [Next]_vars PROVE RegistryStep
  OBVIOUS
<1>1. ASSUME NEW route \in Routes, DefineResource(route) \/ DefineFunction(route)
      PROVE  RegistryStep
  BY <1>1, DefinitionGrows DEF DefineResource, DefineFunction, RegistryStep
<1>2. ASSUME \/ RegisterUpdateCallback \/ SetExecuteFunction
             \/ SetupFails \/ Setup \/ UNCHANGED vars
      PROVE  RegistryStep
  <2>1. UNCHANGED resources
    BY <1>2 DEF RegisterUpdateCallback, SetExecuteFunction, SetupFails, Setup, vars
  <2>. QED  BY <2>1, TreeOfResources DEF RegistryStep
<1>. QED  BY <1>1, <1>2 DEF Next

(* The resources are a registry of addresses: until the device starts again   *)
(* none moves, goes away or passes to another route.                          *)
THEOREM ResourcesAreARegistry == Spec => ImplementsPathTree
<1>1. Init => Registry!Init
  <2>. SUFFICES ASSUME Init PROVE Registry!Init
    OBVIOUS
  <2>1. Taken = {}
    BY DEF Init, Taken
  <2>2. Tree = [address \in {} |-> CHOOSE route \in Routes : TRUE]
    BY <2>1 DEF Tree
  <2>. QED  BY <2>2 DEF Registry!Init
<1>. QED
  BY <1>1, Invariance, StepGrows, PTL
  DEF Spec, RegistryStep, ImplementsPathTree, Registry!Spec
=============================================================================
