------------------------------ MODULE Lifetime ------------------------------
(* The life of one client object and of the event queue it works with: the    *)
(* two constructors of SimpleMbedClientBase, its destructor, the events that  *)
(* are bound to the object and the thread that dispatches them.  A client     *)
(* creates its own queue and thread, or borrows a queue that the application  *)
(* dispatches.  An object with static storage starts zeroed and lives for     *)
(* ever; any other has in its members, until they are assigned, what the      *)
(* memory held before.                                                        *)
EXTENDS Naturals, Sequences

CONSTANT QueueSize   \* how many events fit in the buffer of the queue

ASSUME QueueSizeAssumption == QueueSize \in Nat \ {0}

VARIABLES
    storage,      \* "static" or "automatic"
    object,       \* the client object
    owns,         \* whether it created its queue
    evThread,     \* the member: "null", "thread" or "garbage"
    evQueue,      \* whether the queue exists, or has been deleted
    dispatching,  \* whether a thread dispatches the queue
    queue,        \* the events, oldest first
    connected,    \* whether setup() has given its callbacks to the cloud client
    faults        \* what has been done to deleted or wild memory

vars == <<storage, object, owns, evThread, evQueue, dispatching, queue, connected, faults>>

\* internal_set_* and keep_alive are bound to the client object, update to a
\* variable on the heap, "own" events are the application's.
BoundToClient == {"set", "keep_alive"}
Event == BoundToClient \cup {"update", "own"}

TypeOK ==
    /\ storage \in {"static", "automatic"}
    /\ object \in {"none", "alive", "deleting", "dead"}
    /\ owns \in BOOLEAN
    /\ evThread \in {"null", "thread", "garbage"}
    /\ evQueue \in {"alive", "deleted"}
    /\ dispatching \in BOOLEAN
    /\ queue \in Seq(Event) /\ Len(queue) <= QueueSize
    /\ connected \in BOOLEAN
    /\ faults \subseteq {"queue", "event", "callback", "delete"}

-----------------------------------------------------------------------------
\* SimpleMbedClientBase(bool): a new queue and a new thread that dispatches it.
ConstructOwning ==
    /\ object = "none"
    /\ object' = "alive" /\ owns' = TRUE /\ evThread' = "thread"
    /\ UNCHANGED <<storage, evQueue, dispatching, queue, connected, faults>>

\* SimpleMbedClientBase(EventQueue*, bool) does not assign evThread.
ConstructBorrowing ==
    /\ object = "none"
    /\ object' = "alive" /\ owns' = FALSE
    /\ UNCHANGED <<storage, evThread, evQueue, dispatching, queue, connected, faults>>

CallUnbounded(e) == queue' = Append(queue, e)   \* a slip
Call(e) == queue' = IF Len(queue) < QueueSize THEN Append(queue, e) ELSE queue

\* set(), resource_updated, and the application through eventQueue().
Post(e) ==
    /\ object = "alive" /\ e # "keep_alive"
    /\ Call(e)
    /\ UNCHANGED <<storage, object, owns, evThread, evQueue, dispatching, connected, faults>>

\* setup(): callbacks bound to this, and the keep-alive ticker.
Setup ==
    /\ object = "alive" /\ ~connected
    /\ connected' = TRUE
    /\ Call("keep_alive")
    /\ UNCHANGED <<storage, object, owns, evThread, evQueue, dispatching, faults>>

\* The dispatcher takes an event; the periodic one stays in the queue.
Dispatch ==
    /\ dispatching /\ evQueue = "alive" /\ queue # <<>>
    /\ queue' = IF Head(queue) = "keep_alive" THEN Append(Tail(queue), Head(queue))
                ELSE Tail(queue)
    /\ faults' = IF Head(queue) \in BoundToClient /\ object = "dead"
                 THEN faults \cup {"event"} ELSE faults
    /\ UNCHANGED <<storage, object, owns, evThread, evQueue, dispatching, connected>>

DispatchDeleted ==
    /\ dispatching /\ evQueue = "deleted"
    /\ faults' = faults \cup {"queue"}
    /\ UNCHANGED <<storage, object, owns, evThread, evQueue, dispatching, queue, connected>>

\* The cloud client, which nobody closes or deletes, calls back.
ClientCallback ==
    /\ connected
    /\ faults' = IF object = "dead" THEN faults \cup {"callback"} ELSE faults
    /\ UNCHANGED <<storage, object, owns, evThread, evQueue, dispatching, queue, connected>>

\* Slips of the destructor: it leaves its queue alone; it deletes any queue.
DestroyNothing ==
    /\ storage = "automatic" /\ object = "alive"
    /\ object' = "dead"
    /\ UNCHANGED <<storage, owns, evThread, evQueue, dispatching, queue, connected, faults>>

DestroyAnyQueue ==
    /\ storage = "automatic" /\ object = "alive"
    /\ object' = "deleting" /\ evQueue' = "deleted"
    /\ UNCHANGED <<storage, owns, evThread, dispatching, queue, connected, faults>>

\* ~SimpleMbedClientBase, up to the deletion of the queue.
Destroy ==
    /\ storage = "automatic" /\ object = "alive"
    /\ IF evThread # "null"
       THEN object' = "deleting" /\ evQueue' = "deleted"
       ELSE object' = "dead" /\ UNCHANGED evQueue
    /\ UNCHANGED <<storage, owns, evThread, dispatching, queue, connected, faults>>

\* A slip: the thread goes on.
DeleteOnlyTheObject ==
    /\ object = "deleting"
    /\ object' = "dead"
    /\ UNCHANGED <<storage, owns, evThread, evQueue, dispatching, queue, connected, faults>>

\* delete evThread terminates the thread, or deletes what is none.
DeleteThread ==
    /\ object = "deleting"
    /\ object' = "dead"
    /\ IF evThread = "thread"
       THEN dispatching' = FALSE /\ UNCHANGED faults
       ELSE faults' = faults \cup {"delete"} /\ UNCHANGED dispatching
    /\ UNCHANGED <<storage, owns, evThread, evQueue, queue, connected>>

-----------------------------------------------------------------------------
Init ==
    /\ storage \in {"static", "automatic"}
    /\ evThread \in IF storage = "static" THEN {"null"} ELSE {"null", "garbage"}
    /\ object = "none" /\ owns = FALSE
    /\ evQueue = "alive" /\ dispatching = TRUE
    /\ queue = <<>> /\ connected = FALSE /\ faults = {}

Next ==
    \/ ConstructOwning \/ ConstructBorrowing
    \/ \E e \in Event : Post(e)
    \/ Setup
    \/ Dispatch \/ DispatchDeleted \/ ClientCallback
    \/ Destroy \/ DeleteThread

Spec == Init /\ [][Next]_vars

-----------------------------------------------------------------------------
(* Properties.                                                                *)

(* When the destructor of a client with its own queue has returned, no thread *)
(* is left that dispatches the deleted queue.                                 *)
ThreadDiesWithItsObject == object = "dead" /\ owns => ~dispatching

(* internal_set_* and keep_alive run on a deleted client only from a queue    *)
(* the client had borrowed: those of its own queue are deleted with it.       *)
OwnedEventsDieWithTheObject == "event" \in faults => ~owns

(* "if no evThread then evQueue is not owned by us": a borrower whose memory  *)
(* was zeroed leaves the queue to the application, and deletes nothing.       *)
ZeroedBorrowerKeepsTheQueue ==
    ~owns /\ evThread = "null" => evQueue = "alive" /\ faults \subseteq {"event", "callback"}

-----------------------------------------------------------------------------
(* The comment of the destructor, without the condition: the queue of the     *)
(* application is never deleted by a client that borrowed it.                 *)
BorrowedQueueSurvives == ~owns => evQueue = "alive"
=============================================================================
