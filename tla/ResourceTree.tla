---------------------------- MODULE ResourceTree ----------------------------
(* The tree of device management objects behind the routes of an application  *)
(* (define_resource_internal, define_function and the publication of the      *)
(* objects by init, in simple-cloud-client.h).  A route "led/0/value" is the  *)
(* sequence of the pieces between its slashes; the client library addresses a *)
(* resource by the names of its object and of itself and by the number of the *)
(* object instance that holds it.                                             *)
EXTENDS Naturals, Sequences, FiniteSets

CONSTANTS
    Routes,       \* the routes the application may define (sequences of pieces)
    Digits,       \* the pieces whose first character is a digit
    Atoi,         \* Atoi[p]: the number atoi reads at the start of a piece
    Decimal       \* Decimal[n]: the piece that spells the instance number n

Piece == UNION {{route[i] : i \in 1..Len(route)} : route \in Routes}

ASSUME RoutesAssumption == \A route \in Routes : route # <<>> /\ route \in Seq(Piece)
ASSUME DigitsAssumption == Atoi \in [Digits -> Nat]
ASSUME DecimalAssumption == \A p \in Digits : Atoi[p] \in DOMAIN Decimal

VARIABLES
    client,            \* TRUE once setup() has created the MbedCloudClient
    objectInstances,   \* objectInstances[o]: the number of the instance of object o
    resources,         \* resources[route]: where the M2MResource of route lives
    updateValues,      \* the routes registered for updates (variables)
    executes,          \* the routes that have an execute handler (functions)
    published,         \* the addresses handed over with client->add_objects
    app                \* where the application's call is

vars == <<client, objectInstances, resources, updateValues, executes, published, app>>

Idle == [at |-> "idle"]

\* The address of a resource, which uri_path() spells with Decimal.
Address == [object : Piece, instance : Nat, resource : Piece]

TypeOK ==
    /\ client \in BOOLEAN
    /\ DOMAIN objectInstances \subseteq Piece
    /\ \A o \in DOMAIN objectInstances : objectInstances[o] \in Nat
    /\ DOMAIN resources \subseteq Routes
    /\ \A route \in DOMAIN resources : resources[route] \in Address
    /\ updateValues \subseteq DOMAIN resources
    /\ executes \subseteq DOMAIN resources
    /\ \A address \in published : address \in Address
    /\ app \in {Idle, [at |-> "crashed"]}
                \cup [at : {"registering", "executing"}, route : Routes]

-----------------------------------------------------------------------------
\* split() only pushes pieces when it meets a slash.
parse_route(route) == IF Len(route) = 1 THEN <<>> ELSE route

Accepted(route) == /\ Len(parse_route(route)) = 3
                   /\ route[2] \in Digits

\* Slips of InstanceFor: new instances are all numbered 0; a route whose
\* resource exists already moves to another instance.
FirstInstanceFor(route) ==
    IF route[1] \in DOMAIN objectInstances THEN objectInstances[route[1]] ELSE 0

NextInstanceFor(route) ==
    IF route[1] \notin DOMAIN objectInstances THEN Atoi[route[2]]
    ELSE LET i == objectInstances[route[1]]
         IN  IF \E other \in DOMAIN resources :
                  resources[other] = [object |-> route[1], instance |-> i, resource |-> route[3]]
             THEN i + 1 ELSE i

\* The instance that receives the resource: the one of the object, if any.
InstanceFor(route) == IF route[1] \in DOMAIN objectInstances
                      THEN objectInstances[route[1]]
                      ELSE Atoi[route[2]]

AddressFor(route) ==
    [object |-> route[1], instance |-> InstanceFor(route), resource |-> route[3]]

Taken == {resources[route] : route \in DOMAIN resources}

Extend(f, x, y) == [z \in DOMAIN f \cup {x} |-> IF z = x THEN y ELSE f[z]]

\* Slips of DefineInternal: definitions after setup(); an existing resource is
\* used again; the result of the definition is true although there is none.
DefineAnytime(route, next) ==
    /\ app = Idle /\ Accepted(route) /\ AddressFor(route) \notin Taken
    /\ objectInstances' = Extend(objectInstances, route[1], InstanceFor(route))
    /\ resources' = Extend(resources, route, AddressFor(route))
    /\ app' = [at |-> next, route |-> route]
    /\ UNCHANGED <<client, updateValues, executes, published>>

DefineAgain(route, next) ==
    /\ app = Idle /\ ~client /\ Accepted(route)
    /\ objectInstances' = Extend(objectInstances, route[1], InstanceFor(route))
    /\ resources' = Extend(resources, route, AddressFor(route))
    /\ app' = [at |-> next, route |-> route]
    /\ UNCHANGED <<client, updateValues, executes, published>>

DefineNothing(route, next) ==
    /\ app = Idle /\ ~client /\ Accepted(route)
    /\ objectInstances' = Extend(objectInstances, route[1], InstanceFor(route))
    /\ resources' = IF AddressFor(route) \in Taken THEN resources
                    ELSE Extend(resources, route, AddressFor(route))
    /\ app' = [at |-> next, route |-> route]
    /\ UNCHANGED <<client, updateValues, executes, published>>

\* define_resource_internal.  create_dynamic_resource returns NULL when the
\* instance already has a resource of that name, and its caller uses the result.
\* After it, define_resource or define_function goes on at "next".
DefineInternal(route, next) ==
    /\ app = Idle
    /\ ~client /\ Accepted(route)
    /\ objectInstances' = Extend(objectInstances, route[1], InstanceFor(route))
    /\ IF AddressFor(route) \in Taken
       THEN /\ app' = [at |-> "crashed"]
            /\ UNCHANGED resources
       ELSE /\ app' = [at |-> next, route |-> route]
            /\ resources' = Extend(resources, route, AddressFor(route))
    /\ UNCHANGED <<client, updateValues, executes, published>>

DefineResource(route) == DefineInternal(route, "registering")
DefineFunction(route) == DefineInternal(route, "executing")

RegisterUpdateCallback ==
    /\ app.at = "registering"
    /\ updateValues' = updateValues \cup {app.route}
    /\ app' = Idle
    /\ UNCHANGED <<client, objectInstances, resources, executes, published>>

SetExecuteFunction ==
    /\ app.at = "executing"
    /\ executes' = executes \cup {app.route}
    /\ app' = Idle
    /\ UNCHANGED <<client, objectInstances, resources, updateValues, published>>

\* setup() creates the client, then init() may fail before it hands the objects
\* over (fcc_init, the developer flow, the verification of the credentials).
SetupFails ==
    /\ app = Idle /\ ~client
    /\ client' = TRUE
    /\ UNCHANGED <<objectInstances, resources, updateValues, executes, published, app>>

Setup ==
    /\ app = Idle /\ ~client
    /\ client' = TRUE
    /\ published' = Taken
    /\ UNCHANGED <<objectInstances, resources, updateValues, executes, app>>

-----------------------------------------------------------------------------
Init ==
    /\ client = FALSE
    /\ objectInstances = <<>>
    /\ resources = <<>>
    /\ updateValues = {}
    /\ executes = {}
    /\ published = {}
    /\ app = Idle

Next ==
    \/ \E route \in Routes : DefineResource(route) \/ DefineFunction(route)
    \/ RegisterUpdateCallback
    \/ SetExecuteFunction
    \/ SetupFails
    \/ Setup

Spec == Init /\ [][Next]_vars

-----------------------------------------------------------------------------
(* Properties.                                                                *)

\* The path under which the cloud sees the resource of a route (uri_path()).
Path(address) == <<address.object, Decimal[address.instance], address.resource>>

\* The routes of one object agree on its instance, and spell it as Decimal does.
SpelledAlike(route) ==
    /\ Decimal[Atoi[route[2]]] = route[2]
    /\ \A other \in DOMAIN resources : other[1] = route[1] => other[2] = route[2]

(* Two routes never share a resource ("@todo check if the resource exists     *)
(* yet" in define_resource_internal): an assignment to one variable is never  *)
(* visible under the route of another one.                                    *)
NoAliasing ==
    \A r1, r2 \in DOMAIN resources : resources[r1] = resources[r2] => r1 = r2

(* value_updated looks the variable up by the path of the resource that was   *)
(* written: whatever it finds is the variable that lives there, even when     *)
(* routes and paths have diverged.                                            *)
UpdatesFindTheRightVariable ==
    \A route \in DOMAIN resources :
        LET found == Path(resources[route])
        IN  found \in updateValues => resources[found] = resources[route]

(* Nothing is defined behind the back of the registration: the addresses      *)
(* handed over by init are all there are, each with its handler, for ever.    *)
PublicationIsComplete ==
    published # {} => /\ published = Taken
                      /\ DOMAIN resources = updateValues \cup executes

(* A route that spells its instance canonically and shares its object only    *)
(* with routes of that instance is exposed at its own path.                   *)
UniformRoutesKeepTheirPath ==
    \A route \in DOMAIN resources : SpelledAlike(route) => Path(resources[route]) = route

\* Where a resource of the application can live.
Addressable == {[object |-> route[1], instance |-> Atoi[p], resource |-> route[3]] :
                    route \in {r \in Routes : Accepted(r)}, p \in Digits}

\* The addresses there are, each with the route it was created for.
Tree == [address \in Taken |->
           CHOOSE route \in DOMAIN resources : resources[route] = address]

Registry == INSTANCE PathTree WITH
              tree      <- Tree,
              Paths     <- Addressable,
              Resources <- Routes

(* define_resource_internal creates one resource at a time, for one route, at *)
(* an address that was free: until the device starts again none moves, goes   *)
(* away or passes to another route, whatever the routes are.                  *)
ImplementsPathTree == Registry!Spec

-----------------------------------------------------------------------------
(* README.md: path is "the URL on which your variable is exposed": every      *)
(* route is the path of its resource.                                         *)
EveryRouteIsItsPath ==
    \A route \in DOMAIN resources : Path(resources[route]) = route
=============================================================================
