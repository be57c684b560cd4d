--------------------------- MODULE LifetimeProofs ---------------------------
(* Safety of Lifetime for every size of the queue.                            *)
EXTENDS Lifetime, TLAPS

-----------------------------------------------------------------------------
(* The inductive invariant.                                                   *)

\* Only a client that created one has a thread; before the constructor nothing
\* has happened.
ThreadOfTheOwner ==
    /\ owns <=> evThread = "thread"
    /\ object = "none" => ~owns /\ faults = {} /\ evQueue = "alive"

\* The queue is deleted by a destructor that finds something in evThread.
DeletedByDestructor ==
    /\ evQueue = "deleted" <=> object \in {"deleting", "dead"} /\ evThread # "null"
    /\ object = "deleting" => evThread # "null"

\* What a client cannot have done, by what it has in evThread.
Blameless ==
    /\ evThread = "null" => faults \subseteq {"event", "callback"}
    /\ owns => "event" \notin faults

IInv == /\ TypeOK
        /\ ThreadOfTheOwner
        /\ DeletedByDestructor
        /\ Blameless
        /\ ThreadDiesWithItsObject

-----------------------------------------------------------------------------
(* A queue keeps its bound when an event is posted, dispatched or posted      *)
(* again.                                                                     *)
LEMMA CallKeepsType ==
    ASSUME queue \in Seq(Event), Len(queue) <= QueueSize, NEW e \in Event, Call(e)
    PROVE  queue' \in Seq(Event) /\ Len(queue') <= QueueSize
BY QueueSizeAssumption DEF Call

LEMMA DispatchKeepsType ==
    ASSUME queue \in Seq(Event), Len(queue) <= QueueSize, queue # <<>>,
           queue' = Tail(queue) \/ queue' = Append(Tail(queue), Head(queue))
    PROVE  queue' \in Seq(Event) /\ Len(queue') <= QueueSize
<1>1. /\ Tail(queue) \in Seq(Event) /\ Head(queue) \in Event
      /\ Len(queue) \in Nat \ {0} /\ Len(Tail(queue)) = Len(queue) - 1
  OBVIOUS
<1>2. /\ Append(Tail(queue), Head(queue)) \in Seq(Event)
      /\ Len(Append(Tail(queue), Head(queue))) = Len(Tail(queue)) + 1
  BY <1>1
<1>. QED  BY <1>1, <1>2, QueueSizeAssumption

-----------------------------------------------------------------------------
(* Every step keeps the invariant.                                            *)
LEMMA Step == IInv /\ [Next]_vars => IInv'
<1>. SUFFICES ASSUME IInv, [Next]_vars PROVE IInv'
  OBVIOUS
<1>. USE DEF IInv, TypeOK, ThreadOfTheOwner, DeletedByDestructor, Blameless,
             ThreadDiesWithItsObject
<1>1. CASE ConstructOwning
  BY <1>1 DEF ConstructOwning
<1>2. CASE ConstructBorrowing
  BY <1>2 DEF ConstructBorrowing
<1>3. ASSUME NEW e \in Event, Post(e) PROVE IInv'
  BY <1>3, CallKeepsType DEF Post
<1>4. CASE Setup
  <2>1. "keep_alive" \in Event
    BY DEF Event, BoundToClient
  <2>. QED  BY <1>4, <2>1, CallKeepsType DEF Setup
<1>5. CASE Dispatch
  <2>1. queue' \in Seq(Event) /\ Len(queue') <= QueueSize
    BY <1>5, DispatchKeepsType DEF Dispatch
  <2>2. faults' = faults \/ (faults' = faults \cup {"event"} /\ object = "dead")
    BY <1>5 DEF Dispatch
  <2>3. object = "dead" => evThread = "null" \/ ~owns
    BY <1>5 DEF Dispatch
  <2>. QED  BY <1>5, <2>1, <2>2, <2>3 DEF Dispatch
<1>6. CASE DispatchDeleted
  BY <1>6 DEF DispatchDeleted
<1>7. CASE ClientCallback
  <2>1. faults' = faults \/ (faults' = faults \cup {"callback"} /\ object = "dead")
    BY <1>7 DEF ClientCallback
  <2>. QED  BY <1>7, <2>1 DEF ClientCallback
<1>8. CASE Destroy
  <2>1. CASE evThread = "null"
    BY <1>8, <2>1 DEF Destroy
  <2>2. CASE evThread # "null"
    BY <1>8, <2>2 DEF Destroy
  <2>. QED  BY <2>1, <2>2
<1>9. CASE DeleteThread
  <2>1. CASE evThread = "thread"
    BY <1>9, <2>1 DEF DeleteThread
  <2>2. CASE evThread # "thread"
    <3>1. faults' = faults \cup {"delete"} /\ object' = "dead" /\ ~owns /\ evThread # "null"
      BY <1>9, <2>2 DEF DeleteThread
    <3>. QED  BY <1>9, <2>2, <3>1 DEF DeleteThread
  <2>. QED  BY <2>1, <2>2
<1>10. CASE UNCHANGED vars
  BY <1>10 DEF vars
<1>. QED
  BY <1>1, <1>2, <1>3, <1>4, <1>5, <1>6, <1>7, <1>8, <1>9, <1>10 DEF Next

LEMMA Invariance == Spec => []IInv
<1>1. Init => IInv
  <2>. SUFFICES ASSUME Init PROVE IInv
    OBVIOUS
  <2>1. queue \in Seq(Event) /\ Len(queue) <= QueueSize
    BY QueueSizeAssumption DEF Init
  <2>2. evThread \in {"null", "garbage"} /\ ~owns /\ object = "none"
    BY DEF Init
  <2>3. TypeOK
    BY <2>1, <2>2 DEF Init, TypeOK
  <2>. QED
    BY <2>2, <2>3 DEF Init, IInv, ThreadOfTheOwner, DeletedByDestructor, Blameless,
                      ThreadDiesWithItsObject
<1>. QED  BY <1>1, Step, PTL DEF Spec

-----------------------------------------------------------------------------
(* The types are kept, and the queue its bound.                               *)
THEOREM TypeCorrect == Spec => []TypeOK
BY Invariance, PTL DEF IInv

(* A client's own thread is gone when its destructor has returned.            *)
THEOREM ThreadDies == Spec => []ThreadDiesWithItsObject
BY Invariance, PTL DEF IInv

(* No event of a client's own queue runs on the deleted client.               *)
THEOREM OwnedEventsDie == Spec => []OwnedEventsDieWithTheObject
<1>1. IInv => OwnedEventsDieWithTheObject
  BY DEF IInv, Blameless, OwnedEventsDieWithTheObject
<1>. QED  BY <1>1, Invariance, PTL

(* A borrower in zeroed memory never deletes the queue of the application.    *)
THEOREM ZeroedBorrower == Spec => []ZeroedBorrowerKeepsTheQueue
<1>1. IInv => ZeroedBorrowerKeepsTheQueue
  BY DEF IInv, TypeOK, DeletedByDestructor, Blameless, ZeroedBorrowerKeepsTheQueue
<1>. QED  BY <1>1, Invariance, PTL
=============================================================================
