------------------------ MODULE CloudVariablesProofs ------------------------
(* Safety of CloudVariables for every set of routes, every conversion and     *)
(* every size of the event queue.  Next is a disjunction of atomic steps of   *)
(* three threads; what makes the properties inductive is the protocol that    *)
(* ties the threads together, stated first.                                   *)
EXTENDS CloudVariables, SequenceTheorems, TLAPS

-----------------------------------------------------------------------------
(* The inductive invariant.                                                   *)

\* A route has a resource before it is registered, and is registered before
\* the application holds the object.
DefinitionOrder ==
    /\ updateValues \subseteq handles
    /\ \A r \in resources :
         \/ r \in updateValues
         \/ mainThread.at = "registering" /\ mainThread.route = r
    /\ mainThread.at = "registering" => mainThread.route \notin handles
    /\ \A r \in Routes : author[r] # "definition" => r \in resources

\* Assignments in progress and in the queue come from an object that the
\* application holds and whose returned copy remembers a value.
AssignedThroughHandle(r) == r \in handles /\ hasPendingValue["returned"][r]

QueuedRemembered ==
    \A i \in 1..Len(queue) : queue[i].kind = "set" => AssignedThroughHandle(queue[i].route)

AssignmentsRemembered ==
    /\ QueuedRemembered
    /\ mainThread.at = "assigning" => AssignedThroughHandle(mainThread.route)
    /\ evThread.at = "assigning" => AssignedThroughHandle(evThread.route)

ClearsRegistered == evThread.at = "clearing" => evThread.route \in updateValues

\* The value a single writer is about to post is the one it remembered.
WritersAgree ==
    /\ mainThread.at = "assigning" =>
         /\ "main" \in Writers[mainThread.route]
         /\ OneWriter(mainThread.route) => mainThread.value = pendingValue[mainThread.route]
    /\ evThread.at = "assigning" =>
         /\ "event" \in Writers[evThread.route]
         /\ OneWriter(evThread.route) => evThread.value = pendingValue[evThread.route]

Protocol == /\ TypeOK
            /\ DefinitionOrder
            /\ AssignmentsRemembered
            /\ ClearsRegistered
            /\ NoNullDereference

IInv == Protocol /\ WritersAgree /\ LastAssignmentWins

-----------------------------------------------------------------------------
(* The event queue.                                                           *)

(* evQueue->call keeps the events there are and adds at most the new one, at  *)
(* the end.                                                                   *)
LEMMA CallEffect ==
    ASSUME TypeOK, NEW e \in Event, Call(e)
    PROVE  /\ queue' \in Seq(Event)
           /\ Len(queue') <= QueueSize
           /\ \A i \in 1..Len(queue) : queue'[i] = queue[i]
           /\ HasRoom => Len(queue') = Len(queue) + 1 /\ queue'[Len(queue')] = e
           /\ ~HasRoom => queue' = queue
<1>. Len(queue) \in Nat /\ QueueSize \in Nat /\ queue \in Seq(Event)
  BY QueueSizeAssumption DEF TypeOK
<1>1. CASE HasRoom
  <2>. queue' = Append(queue, e)  BY <1>1 DEF Call
  <2>. QED  BY <1>1, AppendProperties DEF HasRoom
<1>2. CASE ~HasRoom
  BY <1>2 DEF Call, TypeOK
<1>. QED  BY <1>1, <1>2

(* The event thread takes the oldest event; the others move up by one place.  *)
LEMMA TailEffect ==
    ASSUME TypeOK, queue # <<>>, queue' = Tail(queue)
    PROVE  /\ queue' \in Seq(Event)
           /\ Len(queue) \in Nat \ {0}
           /\ Len(queue') = Len(queue) - 1
           /\ \A i \in 1..Len(queue') : queue'[i] = queue[i + 1]
           /\ Head(queue) = queue[1] /\ Head(queue) \in Event
<1>. queue \in Seq(Event)  BY DEF TypeOK
<1>1. Len(queue) \in Nat \ {0} /\ Head(queue) = queue[1]  OBVIOUS
<1>. QED  BY <1>1, HeadTailProperties

(* An event is a record of one of the two kinds.                              *)
LEMMA EventFields ==
    ASSUME NEW e \in Event
    PROVE  /\ e.route \in Routes
           /\ e.kind \in {"set", "update"}
           /\ e.kind = "set" => e.value \in Values
           /\ e.kind = "update" => e.text \in Texts
BY DEF Event, SetEvent, UpdateEvent

(* The fields each control point of the threads carries.                      *)
LEMMA ThreadFields ==
    ASSUME TypeOK
    PROVE  /\ mainThread.at = "registering" => mainThread.route \in Routes
           /\ mainThread.at = "assigning" =>
                mainThread.route \in Routes /\ mainThread.value \in Values
           /\ evThread.at \in {"clearing", "assigning", "callback"} => evThread.route \in Routes
           /\ evThread.at = "assigning" => evThread.value \in Values
           /\ m2mThread.at \in {"updated", "posting"} =>
                m2mThread.route \in Routes /\ m2mThread.put \in Texts
           /\ m2mThread.at = "posting" => m2mThread.text \in Texts
BY DEF TypeOK, MainState, EvState, M2MState, Idle, Assigning

-----------------------------------------------------------------------------
(* Type correctness.                                                          *)

(* Every state variable keeps its type, in particular the queue never holds   *)
(* more events than its buffer: every step of the three threads preserves it. *)
LEMMA TypeStep == TypeOK /\ [Next]_vars => TypeOK'
<1>. SUFFICES ASSUME TypeOK, [Next]_vars PROVE TypeOK'
  OBVIOUS
<1>. USE TextsAssumption, ConversionAssumption
<1>1. ASSUME NEW r \in Routes, NEW v \in Values, DefineInternal(r, v) PROVE TypeOK'
  BY <1>1 DEF DefineInternal, TypeOK, MainState
<1>2. ASSUME NEW r \in Routes, DefineRejected(r) PROVE TypeOK'
  BY <1>2 DEF DefineRejected, TypeOK
<1>3. CASE RegisterUpdateCallback
  BY <1>3, ThreadFields DEF RegisterUpdateCallback, TypeOK, MainState
<1>4. CASE Setup
  BY <1>4 DEF Setup, TypeOK
<1>5. ASSUME NEW r \in Routes, NEW v \in Values, MainAssign(r, v) PROVE TypeOK'
  BY <1>5 DEF MainAssign, Remember, objects, TypeOK, MainState, Assigning, Copies
<1>6. CASE MainSet
  <2>. DEFINE e == [kind |-> "set", route |-> mainThread.route, value |-> mainThread.value]
  <2>1. mainThread.route \in Routes /\ e \in Event /\ Call(e)
    BY <1>6, ThreadFields DEF MainSet, Set, Event, SetEvent
  <2>2. queue' \in Seq(Event) /\ Len(queue') <= QueueSize
    BY <2>1, CallEffect
  <2>. QED  BY <1>6, <2>1, <2>2 DEF MainSet, Set, objects, TypeOK, MainState, HasRoom
<1>7. CASE InternalSet
  <2>1. queue' \in Seq(Event) /\ Len(queue') <= QueueSize /\ Head(queue) \in Event
    BY <1>7, TailEffect, QueueSizeAssumption DEF InternalSet, TypeOK
  <2>2. Head(queue).route \in Routes /\ Head(queue).value \in Values
    BY <1>7, <2>1, EventFields DEF InternalSet
  <2>. DEFINE r == Head(queue).route
  <2>3. /\ value' \in [Routes -> Texts]
        /\ author' \in [Routes -> {"definition", "app", "cloud"}]
        /\ evThread' \in EvState
    <3>1. CASE r \in resources
      <4>1. Format[Head(queue).value] \in Texts
        BY <2>2
      <4>2. /\ value' = [value EXCEPT ![r] = Format[Head(queue).value]]
            /\ author' = [author EXCEPT ![r] = "app"]
            /\ evThread' = [at |-> "clearing", route |-> r]
        BY <1>7, <3>1 DEF InternalSet
      <4>. QED  BY <2>2, <4>1, <4>2 DEF TypeOK, EvState
    <3>2. CASE r \notin resources
      BY <1>7, <3>2 DEF InternalSet, TypeOK
    <3>. QED  BY <3>1, <3>2
  <2>. QED  BY <1>7, <2>1, <2>3 DEF InternalSet, objects, TypeOK
<1>8. CASE ClearPendingValue
  BY <1>8, ThreadFields DEF ClearPendingValue, objects, TypeOK, EvState, Copies
<1>9. CASE RunUpdate
  <2>1. queue' \in Seq(Event) /\ Len(queue') <= QueueSize /\ Head(queue) \in Event
    BY <1>9, TailEffect, QueueSizeAssumption DEF RunUpdate, TypeOK
  <2>2. Head(queue).route \in Routes /\ Head(queue).text \in Texts
    BY <1>9, <2>1, EventFields DEF RunUpdate
  <2>3. Parse[Head(queue).text] \in Values
    BY <2>2
  <2>. QED  BY <1>9, <2>1, <2>2, <2>3 DEF RunUpdate, objects, TypeOK, EvState
<1>10. CASE CallbackReturns
  BY <1>10 DEF CallbackReturns, objects, TypeOK, EvState
<1>11. ASSUME NEW r \in Routes, NEW v \in Values, CallbackAssign(r, v) PROVE TypeOK'
  BY <1>11 DEF CallbackAssign, Remember, objects, TypeOK, EvState, Assigning, Copies
<1>12. CASE CallbackSet
  <2>. DEFINE e == [kind |-> "set", route |-> evThread.route, value |-> evThread.value]
  <2>1. evThread.route \in Routes /\ e \in Event /\ Call(e)
    BY <1>12, ThreadFields DEF CallbackSet, Set, Event, SetEvent
  <2>2. queue' \in Seq(Event) /\ Len(queue') <= QueueSize
    BY <2>1, CallEffect
  <2>. QED  BY <1>12, <2>1, <2>2 DEF CallbackSet, Set, objects, TypeOK, EvState, HasRoom
<1>13. ASSUME NEW r \in Routes, NEW t \in PutTexts, CloudPut(r, t) PROVE TypeOK'
  BY <1>13 DEF CloudPut, objects, TypeOK, M2MState
<1>14. CASE ResourceUpdated
  <2>1. m2mThread.route \in Routes /\ m2mThread.put \in Texts
    BY <1>14, ThreadFields DEF ResourceUpdated
  <2>2. Get(m2mThread.route) \in Texts
    BY <2>1 DEF Get, TypeOK
  <2>3. Unquote[Get(m2mThread.route)] \in Texts
    BY <2>2
  <2>4. m2mThread' \in M2MState
    BY <1>14, <2>1, <2>3 DEF ResourceUpdated, M2MState
  <2>. QED  BY <1>14, <2>4 DEF ResourceUpdated, objects, TypeOK
<1>15. CASE PostUpdate
  <2>. DEFINE e == [kind |-> "update", route |-> m2mThread.route, text |-> m2mThread.text]
  <2>1. e \in Event /\ Call(e)
    BY <1>15, ThreadFields DEF PostUpdate, Event, UpdateEvent
  <2>2. queue' \in Seq(Event) /\ Len(queue') <= QueueSize
    BY <2>1, CallEffect
  <2>. QED  BY <1>15, <2>2 DEF PostUpdate, objects, TypeOK, M2MState
<1>16. CASE UNCHANGED vars
  BY <1>16 DEF vars, objects, TypeOK
<1>. QED
  BY <1>1, <1>2, <1>3, <1>4, <1>5, <1>6, <1>7, <1>8, <1>9, <1>10, <1>11, <1>12,
     <1>13, <1>14, <1>15, <1>16 DEF Next, MainStep, EventStep, M2MStep

(* The initial state is well typed.                                           *)
LEMMA InitTypeOK == Init => TypeOK
<1>. SUFFICES ASSUME Init PROVE TypeOK
  OBVIOUS
<1>1. Parse[Empty] \in Values
  BY TextsAssumption, ConversionAssumption
<1>2. queue \in Seq(Event) /\ Len(queue) <= QueueSize
  BY QueueSizeAssumption DEF Init
<1>. QED
  BY <1>1, <1>2, TextsAssumption DEF Init, TypeOK, MainState, EvState, M2MState, Copies

(* TypeOK holds in every reachable state.                                     *)
THEOREM TypeCorrect == Spec => []TypeOK
BY InitTypeOK, TypeStep, PTL DEF Spec

-----------------------------------------------------------------------------
(* The protocol between the threads, and what follows from it.                *)

(* Posting a set event for a variable the application holds keeps every       *)
(* queued assignment remembered (the second half of operator=).               *)
LEMMA SetRemembered ==
    ASSUME TypeOK, QueuedRemembered,
           NEW r \in Routes, NEW v \in Values, AssignedThroughHandle(r), Set(r, v)
    PROVE  QueuedRemembered'
<1>. DEFINE e == [kind |-> "set", route |-> r, value |-> v]
<1>1. e \in Event /\ Call(e) /\ UNCHANGED <<handles, hasPendingValue>>
  BY DEF Event, SetEvent, Set, objects
<1>2. Len(queue) \in Nat
  BY DEF TypeOK
<1>3. \A i \in 1..Len(queue') :
        queue'[i] = e \/ (i \in 1..Len(queue) /\ queue'[i] = queue[i])
  BY <1>1, <1>2, CallEffect
<1>. QED  BY <1>1, <1>3 DEF AssignedThroughHandle, QueuedRemembered

(* The same when an event leaves the queue.                                   *)
LEMMA TailRemembered ==
    ASSUME TypeOK, QueuedRemembered, queue # <<>>, queue' = Tail(queue),
           UNCHANGED <<handles, hasPendingValue>>
    PROVE  QueuedRemembered'
<1>1. \A i \in 1..Len(queue') : i + 1 \in 1..Len(queue) /\ queue'[i] = queue[i + 1]
  BY TailEffect
<1>. QED  BY <1>1 DEF AssignedThroughHandle, QueuedRemembered

(* Every step keeps the protocol: definition before registration before use,  *)
(* so that what the event thread clears is registered.                        *)
LEMMA ProtocolStep == Protocol /\ [Next]_vars => Protocol'
<1>. SUFFICES ASSUME Protocol, [Next]_vars PROVE Protocol'
  OBVIOUS
<1>. USE DEF NoNullDereference
<1>0. TypeOK /\ TypeOK'
  BY TypeStep DEF Protocol
<1>1. ASSUME NEW r \in Routes, NEW v \in Values, DefineInternal(r, v) PROVE Protocol'
  <2>1. r \notin updateValues
    BY <1>1 DEF Protocol, DefineInternal, DefinitionOrder
  <2>3. \A s \in resources' : s \in updateValues' \/ s = r
    BY <1>1 DEF Protocol, DefineInternal, DefinitionOrder, Idle
  <2>4. DefinitionOrder'
    BY <1>0, <1>1, <2>3 DEF Protocol, DefineInternal, DefinitionOrder
  <2>2. AssignmentsRemembered'
    BY <1>1 DEF Protocol, DefineInternal, AssignmentsRemembered, QueuedRemembered,
      AssignedThroughHandle
  <2>. QED  BY <1>0, <1>1, <2>4, <2>2 DEF Protocol, DefineInternal, ClearsRegistered
<1>2. ASSUME NEW r \in Routes, DefineRejected(r) PROVE Protocol'
  <2>1. DefinitionOrder'
    BY <1>2 DEF Protocol, DefineRejected, DefinitionOrder, Idle
  <2>2. AssignmentsRemembered'
    BY <1>2 DEF Protocol, DefineRejected, AssignmentsRemembered, QueuedRemembered,
      AssignedThroughHandle
  <2>. QED  BY <1>0, <1>2, <2>1, <2>2 DEF Protocol, DefineRejected, ClearsRegistered
<1>3. CASE RegisterUpdateCallback
  <2>1. DefinitionOrder'
    BY <1>3 DEF Protocol, RegisterUpdateCallback, DefinitionOrder, Idle
  <2>2. AssignmentsRemembered'
    BY <1>3 DEF Protocol, RegisterUpdateCallback, AssignmentsRemembered,
                QueuedRemembered, AssignedThroughHandle, Idle
  <2>. QED  BY <1>0, <1>3, <2>1, <2>2 DEF Protocol, RegisterUpdateCallback, ClearsRegistered
<1>4. CASE Setup
  BY <1>0, <1>4 DEF Protocol, Setup, DefinitionOrder, AssignmentsRemembered,
                    QueuedRemembered, AssignedThroughHandle, ClearsRegistered
<1>5. ASSUME NEW r \in Routes, NEW v \in Values, MainAssign(r, v) PROVE Protocol'
  <2>1. \A s \in handles : AssignedThroughHandle(s) => AssignedThroughHandle(s)'
    BY <1>0, <1>5 DEF MainAssign, Remember, objects, AssignedThroughHandle, TypeOK, Copies
  <2>2. AssignedThroughHandle(r)'
    BY <1>0, <1>5 DEF MainAssign, Remember, objects, AssignedThroughHandle, TypeOK, Copies
  <2>3. AssignmentsRemembered'
    BY <1>5, <2>1, <2>2
    DEF Protocol, MainAssign, Remember, AssignmentsRemembered, QueuedRemembered,
      AssignedThroughHandle
  <2>4. DefinitionOrder'
    BY <1>5 DEF Protocol, MainAssign, Remember, objects, DefinitionOrder, Idle
  <2>. QED
    BY <1>0, <1>5, <2>3, <2>4
    DEF Protocol, MainAssign, Remember, objects, ClearsRegistered
<1>6. CASE MainSet
  <2>1. /\ mainThread.route \in Routes /\ mainThread.value \in Values
        /\ AssignedThroughHandle(mainThread.route)
    BY <1>0, <1>6, ThreadFields DEF Protocol, MainSet, AssignmentsRemembered
  <2>2. AssignmentsRemembered'
    <3>1. Set(mainThread.route, mainThread.value) /\ mainThread' = Idle /\ UNCHANGED evThread
      BY <1>6 DEF MainSet
    <3>2. QueuedRemembered'
      BY <1>0, <2>1, <3>1, SetRemembered DEF Protocol, AssignmentsRemembered
    <3>. QED
      BY <3>1, <3>2
      DEF Protocol, Set, objects, AssignmentsRemembered, AssignedThroughHandle, Idle
  <2>3. DefinitionOrder'
    BY <1>6 DEF Protocol, MainSet, Set, objects, DefinitionOrder, Idle
  <2>. QED
    BY <1>0, <1>6, <2>2, <2>3 DEF Protocol, MainSet, Set, objects, ClearsRegistered
<1>7. CASE InternalSet
  <2>. DEFINE r == Head(queue).route
  <2>1. queue # <<>> /\ Head(queue).kind = "set" /\ queue' = Tail(queue)
    BY <1>7 DEF InternalSet
  <2>2. Head(queue) = queue[1] /\ 1 \in 1..Len(queue) /\ r \in Routes
    BY <1>0, <2>1, TailEffect, EventFields
  <2>3. r \in handles
    BY <2>1, <2>2 DEF Protocol, AssignmentsRemembered, QueuedRemembered,
      AssignedThroughHandle
  <2>4. r \in resources => r \in updateValues
    BY <2>3 DEF Protocol, DefinitionOrder
  <2>5. ClearsRegistered' /\ evThread'.at # "crashed"
    BY <1>7, <2>4 DEF InternalSet, ClearsRegistered, Protocol, objects, Idle
  <2>6. AssignmentsRemembered'
    <3>1. evThread'.at # "assigning"
      BY <1>7 DEF InternalSet, Idle
    <3>. QED
      BY <1>0, <1>7, <2>1, <3>1, TailRemembered
      DEF Protocol, InternalSet, objects, AssignmentsRemembered, QueuedRemembered,
      AssignedThroughHandle
  <2>7. DefinitionOrder'
    BY <1>0, <1>7 DEF Protocol, InternalSet, objects, DefinitionOrder, TypeOK
  <2>. QED  BY <1>0, <2>5, <2>6, <2>7 DEF Protocol
<1>8. CASE ClearPendingValue
  <2>1. evThread' = Idle /\ evThread.route \in updateValues
    BY <1>8 DEF Protocol, ClearPendingValue, ClearsRegistered
  <2>2. hasPendingValue'["returned"] = hasPendingValue["returned"]
    BY <1>0, <1>8 DEF ClearPendingValue, TypeOK, Copies
  <2>3. AssignmentsRemembered'
    BY <1>8, <2>1, <2>2 DEF Protocol, ClearPendingValue, objects, AssignmentsRemembered,
                      QueuedRemembered, AssignedThroughHandle, Idle
  <2>4. DefinitionOrder'
    BY <1>8 DEF Protocol, ClearPendingValue, objects, DefinitionOrder
  <2>. QED  BY <1>0, <2>1, <2>3, <2>4 DEF Protocol, ClearsRegistered, Idle
<1>9. CASE RunUpdate
  <2>1. queue # <<>> /\ queue' = Tail(queue)
    BY <1>9 DEF RunUpdate
  <2>2. evThread'.at \in {"idle", "callback"}
    BY <1>9 DEF RunUpdate, Idle
  <2>3. AssignmentsRemembered'
    BY <1>0, <1>9, <2>1, <2>2, TailRemembered
    DEF Protocol, RunUpdate, objects, AssignmentsRemembered, QueuedRemembered,
      AssignedThroughHandle
  <2>4. DefinitionOrder'
    BY <1>9 DEF Protocol, RunUpdate, objects, DefinitionOrder
  <2>. QED  BY <1>0, <2>2, <2>3, <2>4 DEF Protocol, ClearsRegistered
<1>10. CASE CallbackReturns
  BY <1>0, <1>10 DEF Protocol, CallbackReturns, objects, DefinitionOrder,
       AssignmentsRemembered, QueuedRemembered,
      AssignedThroughHandle, ClearsRegistered, Idle
<1>11. ASSUME NEW r \in Routes, NEW v \in Values, CallbackAssign(r, v) PROVE Protocol'
  <2>1. \A s \in handles : AssignedThroughHandle(s) => AssignedThroughHandle(s)'
    BY <1>0, <1>11 DEF CallbackAssign, Remember, objects, AssignedThroughHandle, TypeOK, Copies
  <2>2. AssignedThroughHandle(r)'
    BY <1>0, <1>11 DEF CallbackAssign, Remember, objects, AssignedThroughHandle, TypeOK, Copies
  <2>3. AssignmentsRemembered'
    BY <1>11, <2>1, <2>2
    DEF Protocol, CallbackAssign, Remember, AssignmentsRemembered, QueuedRemembered,
      AssignedThroughHandle
  <2>4. DefinitionOrder'
    BY <1>11 DEF Protocol, CallbackAssign, Remember, objects, DefinitionOrder
  <2>. QED
    BY <1>0, <1>11, <2>3, <2>4
    DEF Protocol, CallbackAssign, Remember, objects, ClearsRegistered
<1>12. CASE CallbackSet
  <2>1. /\ evThread.route \in Routes /\ evThread.value \in Values
        /\ AssignedThroughHandle(evThread.route)
    BY <1>0, <1>12, ThreadFields DEF Protocol, CallbackSet, AssignmentsRemembered
  <2>2. AssignmentsRemembered'
    <3>1. Set(evThread.route, evThread.value) /\ evThread' = Idle /\ UNCHANGED mainThread
      BY <1>12 DEF CallbackSet
    <3>2. QueuedRemembered'
      BY <1>0, <2>1, <3>1, SetRemembered DEF Protocol, AssignmentsRemembered
    <3>. QED
      BY <3>1, <3>2
      DEF Protocol, Set, objects, AssignmentsRemembered, AssignedThroughHandle, Idle
  <2>3. DefinitionOrder'
    BY <1>12 DEF Protocol, CallbackSet, Set, objects, DefinitionOrder
  <2>. QED
    BY <1>0, <1>12, <2>2, <2>3 DEF Protocol, CallbackSet, Set, objects, ClearsRegistered, Idle
<1>13. ASSUME NEW r \in Routes, NEW t \in PutTexts, CloudPut(r, t) PROVE Protocol'
  <2>1. DefinitionOrder'
    BY <1>0, <1>13 DEF Protocol, CloudPut, objects, DefinitionOrder, TypeOK
  <2>. QED
    BY <1>0, <1>13, <2>1 DEF Protocol, CloudPut, objects, AssignmentsRemembered,
                             QueuedRemembered, AssignedThroughHandle, ClearsRegistered
<1>14. CASE ResourceUpdated
  BY <1>0, <1>14 DEF Protocol, ResourceUpdated, objects, DefinitionOrder,
       AssignmentsRemembered, QueuedRemembered,
      AssignedThroughHandle, ClearsRegistered
<1>15. CASE PostUpdate
  <2>. DEFINE e == [kind |-> "update", route |-> m2mThread.route, text |-> m2mThread.text]
  <2>1. e \in Event /\ Call(e)
    BY <1>0, <1>15, ThreadFields DEF PostUpdate, Event, UpdateEvent
  <2>2. Len(queue) \in Nat
    BY <1>0 DEF TypeOK
  <2>3. \A i \in 1..Len(queue') :
          queue'[i] = e \/ (i \in 1..Len(queue) /\ queue'[i] = queue[i])
    BY <1>0, <2>1, <2>2, CallEffect
  <2>4. AssignmentsRemembered'
    BY <1>15, <2>3 DEF Protocol, PostUpdate, objects, AssignmentsRemembered,
                        QueuedRemembered, AssignedThroughHandle
  <2>5. DefinitionOrder'
    BY <1>15 DEF Protocol, PostUpdate, objects, DefinitionOrder
  <2>. QED  BY <1>0, <1>15, <2>4, <2>5 DEF Protocol, PostUpdate, objects, ClearsRegistered
<1>16. CASE UNCHANGED vars
  BY <1>0, <1>16 DEF vars, objects, Protocol, DefinitionOrder, AssignmentsRemembered,
                     QueuedRemembered, AssignedThroughHandle, ClearsRegistered
<1>. QED
  BY <1>1, <1>2, <1>3, <1>4, <1>5, <1>6, <1>7, <1>8, <1>9, <1>10, <1>11, <1>12,
     <1>13, <1>14, <1>15, <1>16 DEF Next, MainStep, EventStep, M2MStep

(* Nothing is defined, queued or in progress at first.                        *)
LEMMA InitProtocol == Init => Protocol
BY InitTypeOK DEF Init, Protocol, DefinitionOrder, AssignmentsRemembered, QueuedRemembered,
                  ClearsRegistered, NoNullDereference, Idle

(* The protocol holds in every reachable state.                               *)
LEMMA ProtocolHolds == Spec => []Protocol
BY InitProtocol, ProtocolStep, PTL DEF Spec

(* The event thread never dereferences the missing entry of updateValues in   *)
(* internal_set_str, whatever the threads do between define_resource_internal *)
(* and register_update_callback.                                              *)
THEOREM NeverNull == Spec => []NoNullDereference
BY ProtocolHolds, PTL DEF Protocol

(* While an assignment is queued the variable reads as what was assigned last *)
(* to it, for every interleaving of assignments, flushes and PUTs.            *)
THEOREM ReadsOwnWrites == Spec => []ReadYourWrites
<1>1. Protocol => ReadYourWrites
  BY DEF Protocol, AssignmentsRemembered, QueuedRemembered, AssignedThroughHandle,
         ReadYourWrites, SetEventsOf, Read
<1>. QED  BY <1>1, ProtocolHolds, PTL

-----------------------------------------------------------------------------
(* The last assignment wins.                                                  *)

\* Nothing LastAssignmentWinsFor(r) depends on changes, except maybe the queue.
Untouched(r) ==
    /\ UNCHANGED <<author[r], value[r], lost[r], pendingValue[r],
                   hasPendingValue["returned"][r]>>
    /\ Busy(r)' = Busy(r)

(* With r and its queued assignments untouched the property is kept.          *)
LEMMA KeepsLast ==
    ASSUME NEW r \in Routes, LastAssignmentWinsFor(r), Untouched(r), UNCHANGED queue
    PROVE  LastAssignmentWinsFor(r)'
<1>. UNCHANGED SetEventsOf(r)  BY DEF SetEventsOf
<1>. QED  BY DEF LastAssignmentWinsFor, Untouched

(* Posting an event that is not an assignment to r leaves those to r alone.   *)
LEMMA CallKeepsLast ==
    ASSUME TypeOK, NEW r \in Routes, LastAssignmentWinsFor(r), Untouched(r),
           NEW e \in Event, Call(e), e.kind = "set" => e.route # r
    PROVE  LastAssignmentWinsFor(r)'
<1>1. Len(queue) \in Nat
  BY DEF TypeOK
<1>2. /\ \A i \in 1..Len(queue) : i \in 1..Len(queue') /\ queue'[i] = queue[i]
      /\ \A i \in 1..Len(queue') : i \in 1..Len(queue) \/ queue'[i] = e
  BY <1>1, CallEffect
<1>3. SetEventsOf(r)' = SetEventsOf(r)
  BY <1>2 DEF SetEventsOf
<1>4. \A i \in SetEventsOf(r) : queue'[i] = queue[i]
  BY <1>2 DEF SetEventsOf
<1>. QED  BY <1>3, <1>4 DEF LastAssignmentWinsFor, Untouched

(* An assignment to r that the queue accepts is the newest one.               *)
LEMMA SetIsNewest ==
    ASSUME TypeOK, NEW r \in Routes, NEW v \in Values, Set(r, v),
           OneWriter(r) => v = pendingValue[r]
    PROVE  LastAssignmentWinsFor(r)'
<1>. DEFINE e == [kind |-> "set", route |-> r, value |-> v]
<1>1. e \in Event /\ Call(e) /\ UNCHANGED pendingValue /\ lost'[r] = ~HasRoom
  BY DEF Event, SetEvent, Set, TypeOK
<1>2. CASE HasRoom
  <2>1. Len(queue) \in Nat /\ Len(queue') = Len(queue) + 1 /\ queue'[Len(queue')] = e
    BY <1>1, <1>2, CallEffect DEF TypeOK
  <2>2. Len(queue') \in SetEventsOf(r)'
    BY <2>1 DEF SetEventsOf
  <2>3. \A i \in SetEventsOf(r)' : i \in 1..Len(queue')
    BY DEF SetEventsOf
  <2>4. \A i \in SetEventsOf(r)' :
          (\A j \in SetEventsOf(r)' : j <= i) => i = Len(queue')
    BY <2>1, <2>2, <2>3
  <2>. QED  BY <1>1, <2>1, <2>2, <2>4 DEF LastAssignmentWinsFor, OneWriter
<1>3. CASE ~HasRoom
  BY <1>1, <1>3 DEF LastAssignmentWinsFor
<1>. QED  BY <1>2, <1>3

(* When the oldest event leaves the queue, the assignments to r move up.      *)
LEMMA TailShifts ==
    ASSUME TypeOK, NEW r \in Routes, queue # <<>>, queue' = Tail(queue)
    PROVE  /\ \A i \in SetEventsOf(r)' : i + 1 \in SetEventsOf(r) /\ queue'[i] = queue[i + 1]
           /\ \A i \in SetEventsOf(r) : i # 1 => i - 1 \in SetEventsOf(r)'
           /\ \A i \in SetEventsOf(r) : i \in Nat \ {0}
<1>1. /\ Len(queue) \in Nat \ {0} /\ Len(queue') = Len(queue) - 1
      /\ \A i \in 1..Len(queue') : queue'[i] = queue[i + 1]
  BY TailEffect
<1>2. \A i \in SetEventsOf(r) : i # 1 => i - 1 \in 1..Len(queue') /\ queue'[i - 1] = queue[i]
  BY <1>1 DEF SetEventsOf
<1>. QED  BY <1>1, <1>2 DEF SetEventsOf

(* Taking an event that is not an assignment to r keeps the property.         *)
LEMMA TailKeepsLast ==
    ASSUME TypeOK, NEW r \in Routes, LastAssignmentWinsFor(r), Untouched(r),
           queue # <<>>, queue' = Tail(queue), 1 \notin SetEventsOf(r)
    PROVE  LastAssignmentWinsFor(r)'
<1>1. SetEventsOf(r)' = {} <=> SetEventsOf(r) = {}
  BY TailShifts
<1>2. ASSUME NEW i \in SetEventsOf(r)', \A j \in SetEventsOf(r)' : j <= i
      PROVE  i + 1 \in SetEventsOf(r) /\ \A j \in SetEventsOf(r) : j <= i + 1
  <2>1. i + 1 \in SetEventsOf(r) /\ i \in Nat
    BY TailShifts DEF SetEventsOf
  <2>2. ASSUME NEW j \in SetEventsOf(r) PROVE j <= i + 1
    <3>1. j \in Nat \ {0} /\ j - 1 \in SetEventsOf(r)'
      BY TailShifts
    <3>2. j - 1 <= i
      BY <1>2, <3>1
    <3>. QED  BY <2>1, <3>1, <3>2
  <2>. QED  BY <2>1, <2>2
<1>3. \A i \in SetEventsOf(r)' : queue'[i] = queue[i + 1]
  BY TailShifts
<1>. QED  BY <1>1, <1>2, <1>3 DEF LastAssignmentWinsFor, Untouched

(* Writing the oldest assignment, to r: either a newer one is still queued,   *)
(* or the resource now holds the value that r remembers.                      *)
LEMMA FlushKeepsLast ==
    ASSUME Protocol, NEW r \in Routes, LastAssignmentWinsFor(r), InternalSet,
           Head(queue).route = r
    PROVE  LastAssignmentWinsFor(r)'
<1>. USE DEF Protocol
<1>1. /\ queue # <<>> /\ queue' = Tail(queue) /\ Head(queue) = queue[1]
      /\ 1 \in SetEventsOf(r)
  BY TailEffect DEF InternalSet, SetEventsOf
<1>2. SUFFICES ASSUME OneWriter(r), ~Busy(r)', ~lost'[r], hasPendingValue'["returned"][r]
               PROVE  IF SetEventsOf(r)' = {}
                      THEN author'[r] = "app" => value'[r] = Format[pendingValue'[r]]
                      ELSE \A i \in SetEventsOf(r)' :
                             (\A j \in SetEventsOf(r)' : j <= i)
                               => queue'[i].value = pendingValue'[r]
  BY DEF LastAssignmentWinsFor
<1>3. ~Busy(r) /\ ~lost[r] /\ hasPendingValue["returned"][r] /\ UNCHANGED pendingValue
  BY <1>2 DEF InternalSet, Busy, objects, Idle
<1>4. \A i \in SetEventsOf(r) :
        (\A j \in SetEventsOf(r) : j <= i) => queue[i].value = pendingValue[r]
  BY <1>1, <1>2, <1>3 DEF LastAssignmentWinsFor
<1>5. CASE SetEventsOf(r)' = {}
  <2>1. \A j \in SetEventsOf(r) : j = 1
    BY <1>1, <1>5, TailShifts
  <2>2. Head(queue).value = pendingValue[r]
    BY <1>1, <1>4, <2>1
  <2>3. CASE r \in resources
    BY <1>3, <1>5, <2>2, <2>3 DEF InternalSet, TypeOK
  <2>4. CASE r \notin resources
    BY <1>5, <2>4 DEF InternalSet, DefinitionOrder
  <2>. QED  BY <2>3, <2>4
<1>6. CASE SetEventsOf(r)' # {}
  <2>1. ASSUME NEW i \in SetEventsOf(r)', \A j \in SetEventsOf(r)' : j <= i
        PROVE  queue'[i].value = pendingValue'[r]
    <3>1. i + 1 \in SetEventsOf(r) /\ queue'[i] = queue[i + 1] /\ i \in Nat
      BY <1>1, TailShifts DEF SetEventsOf
    <3>2. ASSUME NEW j \in SetEventsOf(r) PROVE j <= i + 1
      <4>1. CASE j = 1
        BY <3>1, <4>1
      <4>2. CASE j # 1
        <5>1. j \in Nat /\ j - 1 \in SetEventsOf(r)'
          BY <1>1, <4>2, TailShifts
        <5>. QED  BY <2>1, <3>1, <5>1
      <4>. QED  BY <4>1, <4>2
    <3>. QED  BY <1>3, <1>4, <3>1, <3>2
  <2>. QED  BY <1>6, <2>1
<1>. QED  BY <1>5, <1>6

(* An assignment in progress that is the only thread's carries the value the  *)
(* variable remembers: nobody else can have changed it.                       *)
LEMMA WritersStep == TypeOK /\ WritersAgree /\ [Next]_vars => WritersAgree'
<1>. SUFFICES ASSUME TypeOK, WritersAgree, [Next]_vars PROVE WritersAgree'
  OBVIOUS
<1>0. \A r \in Routes : Writers[r] \subseteq AppThreads
  BY WritersAssumption
<1>1. ASSUME NEW r \in Routes, NEW v \in Values, MainAssign(r, v) PROVE WritersAgree'
  <2>1. pendingValue'[r] = v /\ \A s \in Routes \ {r} : pendingValue'[s] = pendingValue[s]
    BY <1>1 DEF MainAssign, Remember, TypeOK
  <2>2. evThread.at = "assigning" => evThread.route # r \/ ~OneWriter(r)
    BY <1>0, <1>1 DEF MainAssign, WritersAgree, OneWriter, AppThreads
  <2>. QED
    BY <1>1, <2>1, <2>2, ThreadFields DEF MainAssign, WritersAgree
<1>2. ASSUME NEW r \in Routes, NEW v \in Values, CallbackAssign(r, v) PROVE WritersAgree'
  <2>1. pendingValue'[r] = v /\ \A s \in Routes \ {r} : pendingValue'[s] = pendingValue[s]
    BY <1>2 DEF CallbackAssign, Remember, TypeOK
  <2>2. mainThread.at = "assigning" => mainThread.route # r \/ ~OneWriter(r)
    BY <1>0, <1>2 DEF CallbackAssign, WritersAgree, OneWriter, AppThreads
  <2>. QED
    BY <1>2, <2>1, <2>2, ThreadFields DEF CallbackAssign, WritersAgree
<1>3. ASSUME UNCHANGED pendingValue,
             mainThread'.at = "assigning" => UNCHANGED mainThread,
             evThread'.at = "assigning" => UNCHANGED evThread
      PROVE  WritersAgree'
  BY <1>3 DEF WritersAgree
<1>4. CASE MainStep /\ ~\E r \in Routes, v \in Values : MainAssign(r, v)
  BY <1>3, <1>4 DEF MainStep, DefineInternal, DefineRejected, RegisterUpdateCallback,
                    Setup, MainSet, Set, Idle
<1>5. CASE EventStep /\ ~\E r \in Routes, v \in Values : CallbackAssign(r, v)
  BY <1>3, <1>5 DEF EventStep, InternalSet, ClearPendingValue, RunUpdate,
                    CallbackReturns, CallbackSet, Set, Idle
<1>6. CASE M2MStep
  BY <1>3, <1>6 DEF M2MStep, CloudPut, ResourceUpdated, PostUpdate
<1>7. CASE UNCHANGED vars
  BY <1>3, <1>7 DEF vars
<1>. QED  BY <1>1, <1>2, <1>4, <1>5, <1>6, <1>7 DEF Next

(* Every step keeps the last assignment to every variable s on its way.       *)
LEMMA LastAssignmentStep ==
    ASSUME Protocol, WritersAgree, [Next]_vars,
           NEW s \in Routes, LastAssignmentWinsFor(s)
    PROVE  LastAssignmentWinsFor(s)'
<1>. USE DEF Protocol
<1>1. ASSUME NEW r \in Routes, NEW v \in Values, DefineInternal(r, v)
      PROVE  LastAssignmentWinsFor(s)'
  <2>1. CASE s = r
    <3>1. r \notin resources
      BY <1>1 DEF DefineInternal, DefinitionOrder, Idle
    <3>2. author'[s] # "app" /\ SetEventsOf(s)' = {}
      BY <1>1, <2>1, <3>1 DEF DefineInternal, DefinitionOrder, AssignmentsRemembered,
           QueuedRemembered, AssignedThroughHandle, SetEventsOf
    <3>. QED  BY <3>2 DEF LastAssignmentWinsFor
  <2>2. CASE s # r
    BY <1>1, <2>2, KeepsLast DEF DefineInternal, Untouched, Busy, Idle, TypeOK
  <2>. QED  BY <2>1, <2>2
<1>2. ASSUME NEW r \in Routes, DefineRejected(r) PROVE LastAssignmentWinsFor(s)'
  BY <1>2, KeepsLast DEF DefineRejected, Untouched, Busy
<1>3. CASE RegisterUpdateCallback
  BY <1>3, KeepsLast DEF RegisterUpdateCallback, Untouched, Busy, Idle
<1>4. CASE Setup
  BY <1>4, KeepsLast DEF Setup, Untouched, Busy
<1>5. ASSUME NEW r \in Routes, NEW v \in Values, MainAssign(r, v)
      PROVE  LastAssignmentWinsFor(s)'
  <2>1. CASE s = r
    BY <1>5, <2>1 DEF MainAssign, LastAssignmentWinsFor, Busy
  <2>2. CASE s # r
    BY <1>5, <2>2, KeepsLast DEF MainAssign, Remember, Untouched, Busy, Idle, TypeOK, Copies
  <2>. QED  BY <2>1, <2>2
<1>6. CASE MainSet
  <2>. DEFINE r == mainThread.route
  <2>. DEFINE v == mainThread.value
  <2>1. r \in Routes /\ v \in Values /\ Set(r, v) /\ (OneWriter(r) => v = pendingValue[r])
    BY <1>6, ThreadFields DEF MainSet, WritersAgree
  <2>2. CASE s = r
    BY <2>1, <2>2, SetIsNewest
  <2>3. CASE s # r
    <3>1. Untouched(s)
      BY <1>6, <2>1, <2>3 DEF MainSet, Set, Untouched, Busy, Idle, TypeOK
    <3>. QED
      BY <2>1, <2>3, <3>1, CallKeepsLast DEF Set, Event, SetEvent
  <2>. QED  BY <2>2, <2>3
<1>7. CASE InternalSet
  <2>1. CASE Head(queue).route = s
    BY <1>7, <2>1, FlushKeepsLast
  <2>2. CASE Head(queue).route # s
    <3>1. queue # <<>> /\ queue' = Tail(queue) /\ 1 \notin SetEventsOf(s)
      BY <1>7, <2>2, TailEffect DEF InternalSet, SetEventsOf
    <3>2. Untouched(s)
      BY <1>7, <2>2 DEF InternalSet, objects, Untouched, Busy, Idle, TypeOK
    <3>. QED  BY <3>1, <3>2, TailKeepsLast
  <2>. QED  BY <2>1, <2>2
<1>8. CASE ClearPendingValue
  <2>1. hasPendingValue'["returned"] = hasPendingValue["returned"]
    BY <1>8 DEF ClearPendingValue, TypeOK, Copies
  <2>. QED  BY <1>8, <2>1, KeepsLast DEF ClearPendingValue, Untouched, Busy, Idle
<1>9. CASE RunUpdate
  <2>1. queue # <<>> /\ queue' = Tail(queue) /\ 1 \notin SetEventsOf(s)
    BY <1>9, TailEffect DEF RunUpdate, SetEventsOf
  <2>2. Untouched(s)
    BY <1>9 DEF RunUpdate, Untouched, Busy, Idle
  <2>. QED  BY <2>1, <2>2, TailKeepsLast
<1>10. CASE CallbackReturns
  BY <1>10, KeepsLast DEF CallbackReturns, Untouched, Busy, Idle
<1>11. ASSUME NEW r \in Routes, NEW v \in Values, CallbackAssign(r, v)
       PROVE  LastAssignmentWinsFor(s)'
  <2>1. CASE s = r
    BY <1>11, <2>1 DEF CallbackAssign, LastAssignmentWinsFor, Busy
  <2>2. CASE s # r
    BY <1>11, <2>2, KeepsLast
    DEF CallbackAssign, Remember, Untouched, Busy, TypeOK, Copies
  <2>. QED  BY <2>1, <2>2
<1>12. CASE CallbackSet
  <2>. DEFINE r == evThread.route
  <2>. DEFINE v == evThread.value
  <2>1. r \in Routes /\ v \in Values /\ Set(r, v) /\ (OneWriter(r) => v = pendingValue[r])
    BY <1>12, ThreadFields DEF CallbackSet, WritersAgree
  <2>2. CASE s = r
    BY <2>1, <2>2, SetIsNewest
  <2>3. CASE s # r
    <3>1. Untouched(s)
      BY <1>12, <2>1, <2>3 DEF CallbackSet, Set, Untouched, Busy, Idle, TypeOK
    <3>. QED
      BY <2>1, <2>3, <3>1, CallKeepsLast DEF Set, Event, SetEvent
  <2>. QED  BY <2>2, <2>3
<1>13. ASSUME NEW r \in Routes, NEW t \in PutTexts, CloudPut(r, t)
       PROVE  LastAssignmentWinsFor(s)'
  <2>1. CASE s = r
    <3>1. author'[s] = "cloud" /\ UNCHANGED <<queue, lost, hasPendingValue, pendingValue>>
      BY <1>13, <2>1 DEF CloudPut, TypeOK
    <3>2. Busy(s)' = Busy(s) /\ SetEventsOf(s)' = SetEventsOf(s)
      BY <1>13 DEF CloudPut, Busy, SetEventsOf
    <3>. QED  BY <3>1, <3>2 DEF LastAssignmentWinsFor
  <2>2. CASE s # r
    BY <1>13, <2>2, KeepsLast DEF CloudPut, Untouched, Busy, TypeOK
  <2>. QED  BY <2>1, <2>2
<1>14. CASE ResourceUpdated
  BY <1>14, KeepsLast DEF ResourceUpdated, Untouched, Busy
<1>15. CASE PostUpdate
  <2>. DEFINE e == [kind |-> "update", route |-> m2mThread.route, text |-> m2mThread.text]
  <2>1. e \in Event /\ Call(e) /\ e.kind # "set"
    BY <1>15, ThreadFields DEF PostUpdate, Event, UpdateEvent
  <2>2. Untouched(s)
    BY <1>15 DEF PostUpdate, Untouched, Busy
  <2>. QED  BY <2>1, <2>2, CallKeepsLast
<1>16. CASE UNCHANGED vars
  BY <1>16, KeepsLast DEF vars, Untouched, Busy
<1>. QED
  BY <1>1, <1>2, <1>3, <1>4, <1>5, <1>6, <1>7, <1>8, <1>9, <1>10, <1>11, <1>12,
     <1>13, <1>14, <1>15, <1>16 DEF Next, MainStep, EventStep, M2MStep

(* Assignments reach the resource in order and the last one wins, unless the  *)
(* queue dropped it or the cloud has written since.                           *)
THEOREM LastOneWins == Spec => []LastAssignmentWins
<1>1. Init => IInv
  <2>1. Init => WritersAgree
    BY DEF Init, WritersAgree, Idle
  <2>2. Init => LastAssignmentWins
    BY DEF Init, LastAssignmentWins, LastAssignmentWinsFor, Copies
  <2>. QED  BY <2>1, <2>2, InitProtocol DEF IInv
<1>2. IInv /\ [Next]_vars => IInv'
  <2>1. ASSUME IInv, [Next]_vars PROVE LastAssignmentWins'
    <3>. SUFFICES ASSUME NEW s \in Routes PROVE LastAssignmentWinsFor(s)'
      BY DEF LastAssignmentWins
    <3>. QED  BY <2>1, LastAssignmentStep DEF IInv, LastAssignmentWins
  <2>. QED  BY <2>1, ProtocolStep, WritersStep DEF IInv, Protocol
<1>3. IInv => LastAssignmentWins
  BY DEF IInv
<1>. QED  BY <1>1, <1>2, <1>3, PTL DEF Spec

-----------------------------------------------------------------------------
(* What a callback is told.                                                   *)

\* The text of a PUT stays in its resource until resource_updated reads it,
\* unless the application writes over it.
PutStillThere ==
    m2mThread.at = "updated" =>
        /\ m2mThread.route \in resources
        /\ author[m2mThread.route] = "app" \/ value[m2mThread.route] = m2mThread.put

(* Only internal_set_str gets between a PUT and its update.                   *)
LEMMA UpdateStep ==
    ASSUME Protocol, PutStillThere, UpdateIsThePutUnlessOvertaken, [Next]_vars
    PROVE  PutStillThere' /\ UpdateIsThePutUnlessOvertaken'
<1>. USE DEF Protocol, PutStillThere, UpdateIsThePutUnlessOvertaken
<1>1. ASSUME NEW r \in Routes, NEW v \in Values, DefineInternal(r, v)
      PROVE  PutStillThere' /\ UpdateIsThePutUnlessOvertaken'
  <2>1. r \notin resources
    BY <1>1 DEF DefineInternal, DefinitionOrder, Idle
  <2>. QED  BY <1>1, <2>1 DEF DefineInternal, TypeOK
<1>2. CASE InternalSet
  <2>. DEFINE r == Head(queue).route
  <2>1. r \in Routes
    BY <1>2, TailEffect, EventFields DEF InternalSet
  <2>2. UNCHANGED <<m2mThread, resources>>
    BY <1>2 DEF InternalSet, objects
  <2>3. CASE r \in resources
    <3>1. /\ author' = [author EXCEPT ![r] = "app"]
          /\ \A s \in Routes \ {r} : value'[s] = value[s]
      BY <1>2, <2>3 DEF InternalSet, TypeOK
    <3>2. author'[r] = "app" /\ \A s \in Routes : author'[s] \in {author[s], "app"}
      BY <2>1, <3>1 DEF TypeOK
    <3>. QED  BY <2>2, <3>1, <3>2, ThreadFields
  <2>4. CASE r \notin resources
    BY <1>2, <2>4 DEF InternalSet, objects
  <2>. QED  BY <2>3, <2>4
<1>3. ASSUME NEW r \in Routes, NEW t \in PutTexts, CloudPut(r, t)
      PROVE  PutStillThere' /\ UpdateIsThePutUnlessOvertaken'
  BY <1>3 DEF CloudPut, objects, TypeOK
<1>4. CASE ResourceUpdated
  BY <1>4, ThreadFields DEF ResourceUpdated, objects, Get, Idle
<1>5. CASE PostUpdate
  BY <1>5 DEF PostUpdate, Idle
<1>6. ASSUME UNCHANGED <<m2mThread, resources, author, value>>
      PROVE  PutStillThere' /\ UpdateIsThePutUnlessOvertaken'
  BY <1>6
<1>7. CASE MainStep /\ ~\E r \in Routes, v \in Values : DefineInternal(r, v)
  BY <1>6, <1>7 DEF MainStep, DefineRejected, RegisterUpdateCallback, Setup, MainAssign,
                    Remember, MainSet, Set, objects
<1>8. CASE EventStep /\ ~InternalSet
  BY <1>6, <1>8 DEF EventStep, ClearPendingValue, RunUpdate, CallbackReturns,
                    CallbackAssign, Remember, CallbackSet, Set, objects
<1>9. CASE UNCHANGED vars
  BY <1>6, <1>9 DEF vars, objects
<1>. QED
  BY <1>1, <1>2, <1>3, <1>4, <1>5, <1>7, <1>8, <1>9 DEF Next, M2MStep

(* The update resource_updated posts is the text of the PUT, unless an        *)
(* assignment of the application was written in between.                      *)
THEOREM UpdatesAreHonest == Spec => []UpdateIsThePutUnlessOvertaken
<1>. DEFINE Inv == PutStillThere /\ UpdateIsThePutUnlessOvertaken
<1>1. Init => Inv
  BY DEF Init, PutStillThere, UpdateIsThePutUnlessOvertaken, Idle
<1>2. Protocol /\ Inv /\ [Next]_vars => Inv'
  BY UpdateStep
<1>3. Inv => UpdateIsThePutUnlessOvertaken
  OBVIOUS
<1>. QED  BY <1>1, <1>2, <1>3, ProtocolHolds, PTL DEF Spec

-----------------------------------------------------------------------------
(* Where README.md is right.  QuiescentRead fails once the cloud has written  *)
(* a variable the application has assigned to; short of that a variable that  *)
(* one thread assigns to does show what its resource holds.                   *)
InSyncUntilPut ==
    Quiescent => \A r \in handles \cap resources :
        OneWriter(r) /\ ~lost[r] /\ author[r] # "cloud" => Read(r) = Parse[value[r]]

PendingHeld == \A r \in Routes : hasPendingValue["returned"][r] => r \in handles

\* An assignment that is neither on its way nor dropped has been written.
WrittenFor(r) ==
    r \in resources /\ hasPendingValue["returned"][r]
      /\ ~Busy(r) /\ ~lost[r] /\ SetEventsOf(r) = {} => author[r] # "definition"
Written == \A r \in Routes : WrittenFor(r)

(* Every step: only operator= makes the returned copy remember, and only of   *)
(* an object the application holds.                                           *)
LEMMA PendingHeldStep ==
    ASSUME TypeOK, PendingHeld, [Next]_vars
    PROVE  PendingHeld'
<1>1. ASSUME NEW r \in Routes, NEW v \in Values, MainAssign(r, v) \/ CallbackAssign(r, v)
      PROVE  PendingHeld'
  <2>1. /\ r \in handles /\ UNCHANGED handles
        /\ \A s \in Routes \ {r} : hasPendingValue'["returned"][s] = hasPendingValue["returned"][s]
    BY <1>1 DEF MainAssign, CallbackAssign, Remember, objects, TypeOK, Copies
  <2>. QED  BY <2>1 DEF PendingHeld
<1>2. CASE ClearPendingValue
  <2>1. hasPendingValue'["returned"] = hasPendingValue["returned"] /\ UNCHANGED handles
    BY <1>2 DEF ClearPendingValue, objects, TypeOK, Copies
  <2>. QED  BY <2>1 DEF PendingHeld
<1>3. ASSUME UNCHANGED hasPendingValue, handles \subseteq handles' PROVE PendingHeld'
  BY <1>3 DEF PendingHeld
<1>4. CASE MainStep /\ ~\E r \in Routes, v \in Values : MainAssign(r, v)
  BY <1>3, <1>4 DEF MainStep, DefineInternal, DefineRejected, RegisterUpdateCallback, Setup,
                    MainSet, Set, objects
<1>5. CASE InternalSet \/ RunUpdate \/ CallbackReturns \/ CallbackSet
  BY <1>3, <1>5 DEF InternalSet, RunUpdate, CallbackReturns, CallbackSet, Set, objects
<1>6. CASE M2MStep
  BY <1>3, <1>6 DEF M2MStep, CloudPut, ResourceUpdated, PostUpdate, objects
<1>7. CASE UNCHANGED vars
  BY <1>3, <1>7 DEF vars, objects
<1>. QED  BY <1>1, <1>2, <1>4, <1>5, <1>6, <1>7 DEF Next, EventStep

(* Posting leaves the assignments that are queued, and taking an event that   *)
(* is not one to r leaves those to r.                                         *)
LEMMA CallKeepsEvents ==
    ASSUME TypeOK, NEW e \in Event, Call(e), NEW r \in Routes, SetEventsOf(r)' = {}
    PROVE  SetEventsOf(r) = {}
<1>1. Len(queue) \in Nat
  BY DEF TypeOK
<1>2. \A i \in 1..Len(queue) : i \in 1..Len(queue') /\ queue'[i] = queue[i]
  BY <1>1, CallEffect
<1>. QED  BY <1>2 DEF SetEventsOf

LEMMA TailKeepsEvents ==
    ASSUME TypeOK, queue # <<>>, queue' = Tail(queue), NEW r \in Routes, 1 \notin SetEventsOf(r),
           SetEventsOf(r)' = {}
    PROVE  SetEventsOf(r) = {}
BY TailShifts

(* What keeps WrittenFor(r) when r is not concerned by the step.              *)
Aside(r) ==
    /\ UNCHANGED <<lost[r], hasPendingValue["returned"][r]>>
    /\ Busy(r)' = Busy(r)
    /\ r \in resources' => r \in resources
    /\ author'[r] = "definition" => author[r] = "definition"
    /\ SetEventsOf(r)' = {} => SetEventsOf(r) = {}

LEMMA KeepsWritten ==
    ASSUME NEW r \in Routes, WrittenFor(r), Aside(r)
    PROVE  WrittenFor(r)'
BY DEF WrittenFor, Aside

(* Posting an assignment: it is queued or lost.                               *)
LEMMA SetKeepsWritten ==
    ASSUME TypeOK, NEW s \in Routes, WrittenFor(s),
           NEW r \in Routes, NEW v \in Values, Set(r, v), s # r => Busy(s)' = Busy(s)
    PROVE  WrittenFor(s)'
<1>. DEFINE e == [kind |-> "set", route |-> r, value |-> v]
<1>1. e \in Event /\ Call(e)
  BY DEF Event, SetEvent, Set
<1>2. CASE s = r
  <2>1. CASE HasRoom
    <3>1. Len(queue) \in Nat /\ Len(queue') = Len(queue) + 1 /\ queue'[Len(queue')] = e
      BY <1>1, <2>1, CallEffect DEF TypeOK
    <3>2. Len(queue') \in SetEventsOf(r)'
      BY <3>1 DEF SetEventsOf
    <3>. QED  BY <1>2, <3>2 DEF WrittenFor
  <2>2. CASE ~HasRoom
    <3>1. lost'[r]
      BY <2>2 DEF Set, TypeOK
    <3>. QED  BY <1>2, <3>1 DEF WrittenFor
  <2>. QED  BY <2>1, <2>2
<1>3. CASE s # r
  <2>1. /\ UNCHANGED <<lost[s], hasPendingValue, resources, author>>
    BY <1>3 DEF Set, objects, TypeOK
  <2>. QED  BY <1>1, <1>3, <2>1, CallKeepsEvents, KeepsWritten DEF Aside
<1>. QED  BY <1>2, <1>3

LEMMA WrittenStep ==
    ASSUME Protocol, PendingHeld, [Next]_vars, NEW s \in Routes, WrittenFor(s)
    PROVE  WrittenFor(s)'
<1>. USE DEF Protocol
<1>0. UNCHANGED queue => SetEventsOf(s)' = SetEventsOf(s)
  BY DEF SetEventsOf
<1>1. ASSUME NEW r \in Routes, NEW v \in Values, DefineInternal(r, v) PROVE WrittenFor(s)'
  <2>1. CASE s = r
    <3>1. ~hasPendingValue'["returned"][s]
      BY <1>1, <2>1 DEF DefineInternal, PendingHeld
    <3>. QED  BY <3>1 DEF WrittenFor
  <2>2. CASE s # r
    <3>1. Aside(s)
      BY <1>0, <1>1, <2>2 DEF DefineInternal, Aside, Busy, Idle
    <3>. QED  BY <3>1, KeepsWritten
  <2>. QED  BY <2>1, <2>2
<1>2. CASE \/ \E r \in Routes : DefineRejected(r)
           \/ RegisterUpdateCallback \/ Setup \/ CallbackReturns \/ ResourceUpdated
  <2>1. Busy(s)' = Busy(s)
    BY <1>2 DEF DefineRejected, RegisterUpdateCallback, Setup, CallbackReturns, ResourceUpdated,
                Busy, Idle
  <2>2. UNCHANGED <<resources, hasPendingValue, lost, author, queue>>
    BY <1>2 DEF DefineRejected, RegisterUpdateCallback, Setup, CallbackReturns, ResourceUpdated,
                objects
  <2>. QED  BY <1>0, <2>1, <2>2, KeepsWritten DEF Aside
<1>3. ASSUME NEW r \in Routes, NEW v \in Values, MainAssign(r, v) \/ CallbackAssign(r, v)
      PROVE  WrittenFor(s)'
  <2>1. CASE s = r
    BY <1>3, <2>1 DEF MainAssign, CallbackAssign, WrittenFor, Busy
  <2>2. CASE s # r
    <3>1. UNCHANGED <<resources, lost, author, queue>>
      BY <1>3 DEF MainAssign, CallbackAssign, Remember, objects
    <3>2. hasPendingValue'["returned"][s] = hasPendingValue["returned"][s]
      BY <1>3, <2>2 DEF MainAssign, CallbackAssign, Remember, TypeOK, Copies
    <3>3. Busy(s)' = Busy(s)
      BY <1>3, <2>2 DEF MainAssign, CallbackAssign, Busy, Idle
    <3>. QED  BY <1>0, <3>1, <3>2, <3>3, KeepsWritten DEF Aside
  <2>. QED  BY <2>1, <2>2
<1>4. CASE MainSet
  <2>1. /\ mainThread.route \in Routes /\ mainThread.value \in Values
        /\ Set(mainThread.route, mainThread.value)
        /\ s # mainThread.route => Busy(s)' = Busy(s)
    BY <1>4, ThreadFields DEF MainSet, Busy, Idle
  <2>. QED  BY <2>1, SetKeepsWritten
<1>5. CASE CallbackSet
  <2>1. /\ evThread.route \in Routes /\ evThread.value \in Values
        /\ Set(evThread.route, evThread.value)
        /\ s # evThread.route => Busy(s)' = Busy(s)
    BY <1>5, ThreadFields DEF CallbackSet, Busy, Idle
  <2>. QED  BY <2>1, SetKeepsWritten
<1>6. CASE InternalSet
  <2>1. UNCHANGED <<resources, hasPendingValue, lost>> /\ queue # <<>> /\ queue' = Tail(queue)
    BY <1>6 DEF InternalSet, objects
  <2>2. CASE Head(queue).route = s
    BY <1>6, <2>1, <2>2 DEF InternalSet, WrittenFor, TypeOK
  <2>3. CASE Head(queue).route # s
    <3>1. 1 \notin SetEventsOf(s)
      BY <2>1, <2>3, TailEffect DEF SetEventsOf
    <3>2. Busy(s)' = Busy(s) /\ author'[s] = author[s]
      BY <1>6, <2>3 DEF InternalSet, Busy, Idle, TypeOK
    <3>. QED  BY <2>1, <3>1, <3>2, TailKeepsEvents, KeepsWritten DEF Aside
  <2>. QED  BY <2>2, <2>3
<1>7. CASE RunUpdate
  <2>1. /\ UNCHANGED <<resources, hasPendingValue, lost, author>>
        /\ queue # <<>> /\ queue' = Tail(queue)
    BY <1>7 DEF RunUpdate, objects
  <2>2. 1 \notin SetEventsOf(s)
    BY <1>7, TailEffect DEF RunUpdate, SetEventsOf
  <2>3. Busy(s)' = Busy(s)
    BY <1>7 DEF RunUpdate, Busy, Idle
  <2>. QED  BY <2>1, <2>2, <2>3, TailKeepsEvents, KeepsWritten DEF Aside
<1>8. CASE ClearPendingValue
  <2>1. hasPendingValue'["returned"] = hasPendingValue["returned"]
    BY <1>8 DEF ClearPendingValue, TypeOK, Copies
  <2>2. UNCHANGED <<resources, lost, author, queue>> /\ Busy(s)' = Busy(s)
    BY <1>8 DEF ClearPendingValue, objects, Busy, Idle
  <2>. QED  BY <1>0, <2>1, <2>2, KeepsWritten DEF Aside
<1>9. ASSUME NEW r \in Routes, NEW t \in PutTexts, CloudPut(r, t) PROVE WrittenFor(s)'
  <2>1. UNCHANGED <<resources, hasPendingValue, lost, queue>> /\ Busy(s)' = Busy(s)
    BY <1>9 DEF CloudPut, objects, Busy
  <2>2. author'[s] = "definition" => author[s] = "definition"
    BY <1>9 DEF CloudPut, TypeOK
  <2>. QED  BY <1>0, <2>1, <2>2, KeepsWritten DEF Aside
<1>10. CASE PostUpdate
  <2>. DEFINE e == [kind |-> "update", route |-> m2mThread.route, text |-> m2mThread.text]
  <2>1. e \in Event /\ Call(e)
    BY <1>10, ThreadFields DEF PostUpdate, Event, UpdateEvent
  <2>2. UNCHANGED <<resources, hasPendingValue, lost, author>> /\ Busy(s)' = Busy(s)
    BY <1>10 DEF PostUpdate, objects, Busy
  <2>. QED  BY <2>1, <2>2, CallKeepsEvents, KeepsWritten DEF Aside
<1>11. CASE UNCHANGED vars
  BY <1>0, <1>11, KeepsWritten DEF vars, objects, Aside, Busy
<1>. QED
  BY <1>1, <1>2, <1>3, <1>4, <1>5, <1>6, <1>7, <1>8, <1>9, <1>10, <1>11
  DEF Next, MainStep, EventStep, M2MStep

(* If a value survives its text, as an int and a string do, what the          *)
(* application reads at rest is what the resource holds until the cloud       *)
(* writes it (operator=, internal_set_str, the conversion operators).         *)
THEOREM SyncedUntilPut ==
    ASSUME \A v \in Values : Parse[Format[v]] = v
    PROVE  Spec => []InSyncUntilPut
<1>. DEFINE WInv == PendingHeld /\ Written
<1>1. Init => WInv
  BY DEF Init, PendingHeld, Written, WrittenFor, Copies
<1>2. Protocol /\ WInv /\ [Next]_vars => WInv'
  BY PendingHeldStep, WrittenStep DEF Protocol, Written
<1>3. Protocol /\ Written /\ LastAssignmentWins => InSyncUntilPut
  <2>. SUFFICES ASSUME Protocol, Written, LastAssignmentWins, Quiescent,
                       NEW r \in handles \cap resources,
                       OneWriter(r), ~lost[r], author[r] # "cloud"
                PROVE  Read(r) = Parse[value[r]]
    BY DEF InSyncUntilPut
  <2>1. r \in Routes /\ SetEventsOf(r) = {} /\ ~Busy(r)
    BY DEF Quiescent, Protocol, TypeOK, SetEventsOf, Busy, Idle
  <2>2. CASE hasPendingValue["returned"][r]
    <3>1. author[r] = "app"
      BY <2>1, <2>2 DEF Written, WrittenFor, Protocol, TypeOK
    <3>2. value[r] = Format[pendingValue[r]]
      BY <2>1, <2>2, <3>1 DEF LastAssignmentWins, LastAssignmentWinsFor
    <3>3. pendingValue[r] \in Values
      BY <2>1 DEF Protocol, TypeOK
    <3>. QED  BY <2>2, <3>2, <3>3 DEF Read
  <2>3. CASE ~hasPendingValue["returned"][r]
    BY <2>3 DEF Read, Get
  <2>. QED  BY <2>2, <2>3
<1>. QED  BY <1>1, <1>2, <1>3, ProtocolHolds, LastOneWins, PTL DEF Spec
=============================================================================
