----------------------------- MODULE AddResource -----------------------------
(* The add_resource helpers of resource.cpp: find or create the object, the   *)
(* object instance and the resource with the given numbers.  A call is a      *)
(* record of its numbers, the operations it allows and the kind of callback   *)
(* it brings: "execute" for the overloads whose callback is told of a POST,   *)
(* "updated" for those whose callback gets the value of a PUT, else "none".   *)
(* Values are left out: the overloads for int and float only print theirs.    *)
EXTENDS Naturals, Sequences

CONSTANT Calls   \* the calls the application may make

Operations == {"GET", "PUT", "POST"}
Call == [object : Nat, instance : Nat, resource : Nat,
         operations : SUBSET Operations, callback : {"none", "execute", "updated"}]

ASSUME CallsAssumption == Calls \subseteq Call

VARIABLE list   \* the objects to register, each with its resources

Resource == {r \in [operations : SUBSET Operations, handler : {"none", "execute", "updated"}] :
                /\ r.handler = "execute" => "POST" \in r.operations
                /\ r.handler = "updated" => "PUT" \in r.operations}

ListTypeOK ==
    /\ DOMAIN list = 1..Len(list)
    /\ \A i \in 1..Len(list) :
        /\ list[i].id \in Nat
        /\ DOMAIN list[i].resources \subseteq Nat \X Nat
        /\ \A k \in DOMAIN list[i].resources : list[i].resources[k] \in Resource

\* What the comment of add_resource in resource.h promises of a call: the path
\* "object_id/instance_id/resource_id", the operations it allows, and its
\* callback if that is the kind the operations ask for, else none.
PathOf(call) == <<call.object, call.instance, call.resource>>

Fits == {<<"updated", "PUT">>, <<"execute", "POST">>}
Promised(call) ==
    [operations |-> call.operations,
     handler |-> IF \E operation \in call.operations : <<call.callback, operation>> \in Fits
                 THEN call.callback ELSE "none"]

-----------------------------------------------------------------------------
\* A slip: the number of the instance is not passed on.
KeyOfFirstInstance(call) == <<0, call.resource>>

\* The place of a resource in its object, by the numbers of the call.
Key(call) == <<call.instance, call.resource>>

\* The first object of the list with that number.
Found(id) == {i \in 1..Len(list) : list[i].id = id}
First(id) == CHOOSE i \in Found(id) : \A j \in Found(id) : i <= j

\* create_dynamic_resource returns NULL for a number the instance already has,
\* and every overload goes on to use the result.
Duplicate(call) ==
    /\ Found(call.object) # {}
    /\ Key(call) \in DOMAIN list[First(call.object)].resources

\* A slip: any callback of a function is attached.
AnyHandler(call) == call.callback

\* The callback is attached if the operations allow what it is for.
Handler(call) ==
    IF \/ call.callback = "execute" /\ "POST" \in call.operations
       \/ call.callback = "updated" /\ "PUT" \in call.operations
    THEN call.callback ELSE "none"

NewResource(call) == [operations |-> call.operations, handler |-> Handler(call)]
Only(call) == [k \in {Key(call)} |-> NewResource(call)]

\* A slip: an object that exists is not found.
AlwaysCreate(call) ==
    list' = Append(list, [id |-> call.object, resources |-> Only(call)])

\* add_resource for a call that is no duplicate.
AddResource(call) ==
    list' = IF Found(call.object) = {}
            THEN Append(list, [id |-> call.object, resources |-> Only(call)])
            ELSE [list EXCEPT ![First(call.object)].resources =
                     [k \in DOMAIN @ \cup {Key(call)} |->
                         IF k = Key(call) THEN NewResource(call) ELSE @[k]]]

-----------------------------------------------------------------------------
\* The list as a function on paths, for lists with one object per number.
PathsOf(i) == {<<list[i].id, k[1], k[2]>> : k \in DOMAIN list[i].resources}
AllPaths == UNION {PathsOf(i) : i \in 1..Len(list)}
ResourceAt(path) == list[First(path[1])].resources[<<path[2], path[3]>>]
Tree == [path \in AllPaths |-> ResourceAt(path)]

(* add_resource never lists two objects with one number, which the server     *)
(* would see as one, whatever the order in which objects, instances and       *)
(* resources are added.                                                       *)
OneObjectPerNumber ==
    \A i, j \in 1..Len(list) : list[i].id = list[j].id => i = j
=============================================================================
