--------------------------- MODULE CloudVariables ---------------------------
(* The variables of simple-cloud-client.h: objects that look like ordinary    *)
(* C++ variables and whose value is kept in a resource of the device          *)
(* management client.  Three threads touch them:                              *)
(*   - the application's main thread defines variables, calls setup(), and    *)
(*     assigns to and reads from the objects define_resource returned;        *)
(*   - the event thread (evThread, dispatching evQueue) writes the assigned   *)
(*     values to the resources and runs the onUpdate callbacks, which may     *)
(*     themselves assign to a variable;                                       *)
(*   - the thread of the device management client stores the value of a PUT   *)
(*     request and calls value_updated.                                       *)
(* The queue is lossy: evQueue->call allocates the event from a fixed buffer  *)
(* and returns 0 when it is full, and no caller looks at the result.          *)
EXTENDS Naturals, Sequences, FiniteSets

CONSTANTS
    Routes,       \* the routes the application defines, each of them once
    BadRoutes,    \* those define_resource_internal rejects (not o/i/r)
    Watched,      \* those defined with an onUpdate callback
    Writers,      \* Writers[r]: the application threads that assign to r
    Values,       \* what a variable holds (an int, a float or a string)
    Texts,        \* what a resource holds
    PutTexts,     \* what the cloud PUTs
    Format,       \* Format[v]: the text of v (sprintf %d, %g or the identity)
    Parse,        \* Parse[t]: the value of a text (atoi, atof or the identity)
    Unquote,      \* Unquote[t]: t without the quotes the portal adds
    Empty,        \* the empty text, what get() returns for an unknown route
    QueueSize     \* how many events fit in the buffer of evQueue

AppThreads == {"main", "event"}

ASSUME RoutesAssumption == BadRoutes \subseteq Routes /\ Watched \subseteq Routes
ASSUME WritersAssumption == Writers \in [Routes -> SUBSET AppThreads]
ASSUME TextsAssumption == Empty \in Texts /\ PutTexts \subseteq Texts
ASSUME ConversionAssumption ==
    /\ Format \in [Values -> Texts]
    /\ Parse \in [Texts -> Values]
    /\ Unquote \in [Texts -> Texts]
ASSUME QueueSizeAssumption == QueueSize \in Nat \ {0}

VARIABLES
    client,           \* TRUE once setup() has created the MbedCloudClient
    resources,        \* the routes that have an M2MResource
    value,            \* value[r]: the text held by the resource of r
    updateValues,     \* the routes whose heap object is registered
    handles,          \* the routes whose object was returned to the application
    hasPendingValue,  \* per copy of the object: the flag of the same name
    pendingValue,     \* pendingValue[r]: that field of the returned object
    queue,            \* the events of evQueue, oldest first
    mainThread,       \* where the main thread is
    evThread,         \* where the event thread is
    m2mThread,        \* where the thread of the device management client is
    author,           \* history: who wrote the text of r last
    lost              \* history: whether the last assignment to r was dropped

objects == <<client, resources, updateValues, handles>>
vars == <<objects, value, hasPendingValue, pendingValue, queue,
          mainThread, evThread, m2mThread, author, lost>>

-----------------------------------------------------------------------------
(* define_resource allocates an object, registers it in updateValues and      *)
(* returns it by value: from then on there are two copies of every variable.  *)
Copies == {"registered", "returned"}

Idle == [at |-> "idle"]
SetEvent == [kind : {"set"}, route : Routes, value : Values]
UpdateEvent == [kind : {"update"}, route : Routes, text : Texts]
Event == SetEvent \cup UpdateEvent
Assigning == [at : {"assigning"}, route : Routes, value : Values]

MainState == {Idle} \cup Assigning \cup [at : {"registering"}, route : Routes]
EvState == {Idle} \cup Assigning
             \cup [at : {"clearing"}, route : Routes]
             \cup [at : {"callback"}, route : Routes, value : Values]
             \cup {[at |-> "crashed"]}
M2MState == {Idle} \cup [at : {"updated"}, route : Routes, put : Texts]
              \cup [at : {"posting"}, route : Routes, put : Texts, text : Texts]

TypeOK ==
    /\ client \in BOOLEAN
    /\ resources \in SUBSET Routes
    /\ value \in [Routes -> Texts]
    /\ updateValues \in SUBSET Routes
    /\ handles \in SUBSET Routes
    /\ hasPendingValue \in [Copies -> [Routes -> BOOLEAN]]
    /\ pendingValue \in [Routes -> Values]
    /\ queue \in Seq(Event) /\ Len(queue) <= QueueSize
    /\ mainThread \in MainState
    /\ evThread \in EvState
    /\ m2mThread \in M2MState
    /\ author \in [Routes -> {"definition", "app", "cloud"}]
    /\ lost \in [Routes -> BOOLEAN]

-----------------------------------------------------------------------------
HasRoom == Len(queue) < QueueSize

\* Slips of Call: no bound, newest first, dropping the oldest event when full.
CallUnbounded(e) == queue' = Append(queue, e)
CallFirst(e) == queue' = IF HasRoom THEN <<e>> \o queue ELSE queue
CallDropsOldest(e) == queue' = Append(IF HasRoom THEN queue ELSE Tail(queue), e)

\* evQueue->call: appends the event, or drops it without a word.
Call(e) == queue' = IF HasRoom THEN Append(queue, e) ELSE queue

Get(r) == IF r \in resources THEN value[r] ELSE Empty

\* What the application reads from the variable r (the conversion operators).
Read(r) ==
    IF hasPendingValue["returned"][r] THEN pendingValue[r] ELSE Parse[Get(r)]

-----------------------------------------------------------------------------
(* The main thread: definitions, setup, assignments.                          *)

\* define_resource, up to the return of define_resource_internal.
DefineInternal(r, v) ==
    /\ mainThread = Idle
    /\ r \notin handles
    /\ ~client /\ r \notin BadRoutes
    /\ resources' = resources \cup {r}
    /\ value' = [value EXCEPT ![r] = Format[v]]
    /\ mainThread' = [at |-> "registering", route |-> r]
    /\ UNCHANGED <<client, updateValues, handles, hasPendingValue, pendingValue,
                   queue, evThread, m2mThread, author, lost>>

\* define_resource when define_resource_internal returned false: the caller
\* gets an object all the same, which stands for no resource.
DefineRejected(r) ==
    /\ mainThread = Idle
    /\ r \notin handles
    /\ client \/ r \in BadRoutes
    /\ handles' = handles \cup {r}
    /\ UNCHANGED <<client, resources, updateValues, value, hasPendingValue,
                   pendingValue, queue, mainThread, evThread, m2mThread, author, lost>>

\* A slip: the object is returned, and never registered.
ReturnUnregistered ==
    /\ mainThread.at = "registering"
    /\ handles' = handles \cup {mainThread.route}
    /\ mainThread' = Idle
    /\ UNCHANGED <<client, resources, updateValues, value, hasPendingValue,
                   pendingValue, queue, evThread, m2mThread, author, lost>>

\* The rest of define_resource: registers the heap object, returns its copy.
RegisterUpdateCallback ==
    /\ mainThread.at = "registering"
    /\ updateValues' = updateValues \cup {mainThread.route}
    /\ handles' = handles \cup {mainThread.route}
    /\ mainThread' = Idle
    /\ UNCHANGED <<client, resources, value, hasPendingValue, pendingValue,
                   queue, evThread, m2mThread, author, lost>>

Setup ==
    /\ mainThread = Idle
    /\ ~client
    /\ client' = TRUE
    /\ UNCHANGED <<resources, updateValues, handles, value, hasPendingValue,
                   pendingValue, queue, mainThread, evThread, m2mThread, author, lost>>

\* operator=, first half: the returned object remembers the value.
Remember(r, v) ==
    /\ r \in handles
    /\ pendingValue' = [pendingValue EXCEPT ![r] = v]
    /\ hasPendingValue' = [hasPendingValue EXCEPT !["returned"][r] = TRUE]
    /\ UNCHANGED <<objects, value, queue, m2mThread, author, lost>>

\* operator=, second half: set() posts the event that will write the resource.
Set(r, v) ==
    /\ Call([kind |-> "set", route |-> r, value |-> v])
    /\ lost' = [lost EXCEPT ![r] = ~HasRoom]
    /\ UNCHANGED <<objects, value, hasPendingValue, pendingValue, m2mThread, author>>

MainAssign(r, v) ==
    /\ mainThread = Idle
    /\ "main" \in Writers[r]
    /\ Remember(r, v)
    /\ mainThread' = [at |-> "assigning", route |-> r, value |-> v]
    /\ UNCHANGED evThread

MainSet ==
    /\ mainThread.at = "assigning"
    /\ Set(mainThread.route, mainThread.value)
    /\ mainThread' = Idle
    /\ UNCHANGED evThread

-----------------------------------------------------------------------------
(* The event thread: one event at a time, oldest first.                       *)

\* A slip: writes what the object remembers now, not the value of the event.
InternalSetFromObject ==
    /\ evThread = Idle
    /\ queue # <<>> /\ Head(queue).kind = "set"
    /\ queue' = Tail(queue)
    /\ LET r == Head(queue).route
       IN  IF r \in resources
           THEN /\ value' = [value EXCEPT ![r] = Format[pendingValue[r]]]
                /\ author' = [author EXCEPT ![r] = "app"]
                /\ evThread' = [at |-> "clearing", route |-> r]
           ELSE UNCHANGED <<value, author, evThread>>
    /\ UNCHANGED <<objects, hasPendingValue, pendingValue, mainThread, m2mThread, lost>>

\* internal_set_str up to the write of the resource (set_value/clear_value).
InternalSet ==
    /\ evThread = Idle
    /\ queue # <<>> /\ Head(queue).kind = "set"
    /\ queue' = Tail(queue)
    /\ LET r == Head(queue).route
       IN  IF r \in resources
           THEN /\ value' = [value EXCEPT ![r] = Format[Head(queue).value]]
                /\ author' = [author EXCEPT ![r] = "app"]
                /\ evThread' = [at |-> "clearing", route |-> r]
           ELSE UNCHANGED <<value, author, evThread>>
    /\ UNCHANGED <<objects, hasPendingValue, pendingValue, mainThread, m2mThread, lost>>

\* A slip: the flag of the returned copy is cleared too.
ClearBothCopies ==
    /\ evThread.at = "clearing"
    /\ hasPendingValue' = [c \in Copies |-> [hasPendingValue[c] EXCEPT ![evThread.route] = FALSE]]
    /\ evThread' = Idle
    /\ UNCHANGED <<objects, value, pendingValue, queue, mainThread, m2mThread, author, lost>>

\* The last statement of internal_set_str: it clears the flag of the object
\* found in updateValues, and dereferences NULL when there is none.
ClearPendingValue ==
    /\ evThread.at = "clearing"
    /\ IF evThread.route \in updateValues
       THEN /\ hasPendingValue' =
                 [hasPendingValue EXCEPT !["registered"][evThread.route] = FALSE]
            /\ evThread' = Idle
       ELSE /\ evThread' = [at |-> "crashed"]
            /\ UNCHANGED hasPendingValue
    /\ UNCHANGED <<objects, value, pendingValue, queue, mainThread, m2mThread, author, lost>>

\* A slip: no callback for a variable that remembers an assignment.
RunUpdateUnlessPending ==
    /\ evThread = Idle
    /\ queue # <<>> /\ Head(queue).kind = "update"
    /\ queue' = Tail(queue)
    /\ LET e == Head(queue)
       IN  evThread' = IF e.route \in Watched /\ ~hasPendingValue["returned"][e.route]
                       THEN [at |-> "callback", route |-> e.route, value |-> Parse[e.text]]
                       ELSE Idle
    /\ UNCHANGED <<objects, value, hasPendingValue, pendingValue, mainThread,
                   m2mThread, author, lost>>

\* SimpleResource*::update: converts the text and runs the callback, if any.
RunUpdate ==
    /\ evThread = Idle
    /\ queue # <<>> /\ Head(queue).kind = "update"
    /\ queue' = Tail(queue)
    /\ LET e == Head(queue)
       IN  evThread' = IF e.route \in Watched
                       THEN [at |-> "callback", route |-> e.route, value |-> Parse[e.text]]
                       ELSE Idle
    /\ UNCHANGED <<objects, value, hasPendingValue, pendingValue, mainThread,
                   m2mThread, author, lost>>

CallbackReturns ==
    /\ evThread.at = "callback"
    /\ evThread' = Idle
    /\ UNCHANGED <<objects, value, hasPendingValue, pendingValue, queue,
                   mainThread, m2mThread, author, lost>>

\* A callback assigns to a variable, at most once, as its last statement.
CallbackAssign(r, v) ==
    /\ evThread.at = "callback"
    /\ "event" \in Writers[r]
    /\ Remember(r, v)
    /\ evThread' = [at |-> "assigning", route |-> r, value |-> v]
    /\ UNCHANGED mainThread

CallbackSet ==
    /\ evThread.at = "assigning"
    /\ Set(evThread.route, evThread.value)
    /\ evThread' = Idle
    /\ UNCHANGED mainThread

-----------------------------------------------------------------------------
(* The thread of the device management client.                                *)

\* A PUT request: the client library stores the text, then calls value_updated,
\* whose uri_path() is taken for the route here: when the two differ, what the
\* lookup finds is a question to ResourceTree.
CloudPut(r, t) ==
    /\ m2mThread = Idle
    /\ client /\ r \in resources
    /\ value' = [value EXCEPT ![r] = t]
    /\ author' = [author EXCEPT ![r] = "cloud"]
    /\ m2mThread' = [at |-> "updated", route |-> r, put |-> t]
    /\ UNCHANGED <<objects, hasPendingValue, pendingValue, queue, mainThread, evThread, lost>>

\* A slip: posts what the variable reads as.
ResourceUpdatedFromObject ==
    /\ m2mThread.at = "updated"
    /\ m2mThread' =
         IF m2mThread.route \in updateValues
         THEN [at |-> "posting", route |-> m2mThread.route, put |-> m2mThread.put,
               text |-> Format[Read(m2mThread.route)]]
         ELSE Idle
    /\ UNCHANGED <<objects, value, hasPendingValue, pendingValue, queue,
                   mainThread, evThread, author, lost>>

\* resource_updated: reads the resource again, strips the quotes.
ResourceUpdated ==
    /\ m2mThread.at = "updated"
    /\ m2mThread' =
         IF m2mThread.route \in updateValues
         THEN [at |-> "posting", route |-> m2mThread.route, put |-> m2mThread.put,
               text |-> Unquote[Get(m2mThread.route)]]
         ELSE Idle
    /\ UNCHANGED <<objects, value, hasPendingValue, pendingValue, queue,
                   mainThread, evThread, author, lost>>

\* The last statement of resource_updated posts the update to the event thread.
PostUpdate ==
    /\ m2mThread.at = "posting"
    /\ Call([kind |-> "update", route |-> m2mThread.route, text |-> m2mThread.text])
    /\ m2mThread' = Idle
    /\ UNCHANGED <<objects, value, hasPendingValue, pendingValue, mainThread,
                   evThread, author, lost>>

-----------------------------------------------------------------------------
Init ==
    /\ client = FALSE
    /\ resources = {}
    /\ value = [r \in Routes |-> Empty]
    /\ updateValues = {}
    /\ handles = {}
    /\ hasPendingValue = [c \in Copies |-> [r \in Routes |-> FALSE]]
    /\ pendingValue = [r \in Routes |-> Parse[Empty]]
    /\ queue = <<>>
    /\ mainThread = Idle
    /\ evThread = Idle
    /\ m2mThread = Idle
    /\ author = [r \in Routes |-> "definition"]
    /\ lost = [r \in Routes |-> FALSE]

MainStep ==
    \/ \E r \in Routes, v \in Values : DefineInternal(r, v)
    \/ \E r \in Routes : DefineRejected(r)
    \/ RegisterUpdateCallback
    \/ Setup
    \/ \E r \in Routes, v \in Values : MainAssign(r, v)
    \/ MainSet

EventStep ==
    \/ InternalSet
    \/ ClearPendingValue
    \/ RunUpdate
    \/ CallbackReturns
    \/ \E r \in Routes, v \in Values : CallbackAssign(r, v)
    \/ CallbackSet

M2MStep ==
    \/ \E r \in Routes, t \in PutTexts : CloudPut(r, t)
    \/ ResourceUpdated
    \/ PostUpdate

Next == MainStep \/ EventStep \/ M2MStep

\* A thread that has work goes on: dispatch_forever on the event thread, the
\* call stack of value_updated on the other one.  The application is never
\* obliged to assign, the cloud never to PUT.
Fairness == WF_vars(EventStep) /\ WF_vars(ResourceUpdated) /\ WF_vars(PostUpdate)

Spec == Init /\ [][Next]_vars
FairSpec == Spec /\ Fairness

-----------------------------------------------------------------------------
(* Properties.                                                                *)

SetEventsOf(r) == {i \in 1..Len(queue) : queue[i].kind = "set" /\ queue[i].route = r}
Busy(r) == \/ mainThread.at = "assigning" /\ mainThread.route = r
           \/ evThread.at = "assigning" /\ evThread.route = r
OneWriter(r) == Writers[r] # AppThreads

(* The event thread never dereferences the NULL that updateValues[route]      *)
(* yields for a route nobody registered (internal_set_str): the application   *)
(* can only post a set event through an object that is registered by then.    *)
NoNullDereference == evThread.at # "crashed"

(* "SimpleResource* buffers the value, so when using it through operators     *)
(* you'll get the right value back": while an assignment is still in the      *)
(* queue the variable reads as the value assigned last, even when an older    *)
(* assignment is being written or the cloud has written the resource.         *)
ReadYourWrites == \A r \in Routes : SetEventsOf(r) # {} => Read(r) = pendingValue[r]

(* Assignments reach the resource in order, so the last one wins: the newest  *)
(* queued one carries the value the variable remembers, and once none is left *)
(* the resource holds that value unless the cloud has overwritten it.  Only   *)
(* for a variable one thread assigns to, and if the queue took the last one.  *)
LastAssignmentWinsFor(r) ==
    OneWriter(r) /\ ~Busy(r) /\ ~lost[r] /\ hasPendingValue["returned"][r] =>
        IF SetEventsOf(r) = {}
        THEN author[r] = "app" => value[r] = Format[pendingValue[r]]
        ELSE \A i \in SetEventsOf(r) :
               (\A j \in SetEventsOf(r) : j <= i) => queue[i].value = pendingValue[r]

LastAssignmentWins == \A r \in Routes : LastAssignmentWinsFor(r)

(* resource_updated reads the resource again after the PUT was stored, and     *)
(* the event thread may write it in between: what the callback will get is    *)
(* the text of the PUT, unless an assignment of the application overtook it.  *)
UpdateIsThePutUnlessOvertaken ==
    m2mThread.at = "posting" =>
        m2mThread.text = Unquote[m2mThread.put] \/ author[m2mThread.route] = "app"

(* Every queued assignment to a defined variable is eventually written to its *)
(* resource: the event thread is never stuck behind a callback or an update.  *)
AssignmentsReachTheResource ==
    \A r \in Routes, v \in Values :
        (\E i \in 1..Len(queue) : queue[i] = [kind |-> "set", route |-> r, value |-> v])
            /\ r \in resources
        ~> value[r] = Format[v] /\ author[r] = "app"

(* Every queued update of a watched variable eventually runs its callback,    *)
(* with the value that was posted.                                            *)
UpdatesReachTheCallback ==
    \A r \in Watched, t \in Texts :
        (\E i \in 1..Len(queue) : queue[i] = [kind |-> "update", route |-> r, text |-> t])
        ~> evThread = [at |-> "callback", route |-> r, value |-> Parse[t]]

(* What the threads, the queue and the two copies of each object implement:   *)
(* one cell per route whose backlog is the set events of that route.          *)
Rank(r, i) == Cardinality({j \in SetEventsOf(r) : j <= i})
Place(r, n) == CHOOSE i \in SetEventsOf(r) : Rank(r, i) = n
BacklogOf(r) == [n \in 1..Cardinality(SetEventsOf(r)) |-> queue[Place(r, n)].value]

Cells == INSTANCE CloudCells WITH
           exposed <- [r \in Routes |-> r \in resources],
           cell    <- value,
           backlog <- [r \in Routes |-> BacklogOf(r)]

(* Every step of the three threads is a step of the cells or leaves them      *)
(* alone: an accepted assignment is written once, in its order, to its own    *)
(* resource (set, internal_set_str), and only a PUT writes anything else.     *)
ImplementsCellsSafely == Cells!Safety

(* In addition no accepted assignment waits for ever in the event queue.      *)
ImplementsCells == Cells!Spec

-----------------------------------------------------------------------------
(* Statements of the documentation that the code does not keep.               *)

Quiescent == queue = <<>> /\ mainThread = Idle /\ evThread = Idle /\ m2mThread = Idle

(* README.md: a variable "automatically syncs its value": when no event is    *)
(* queued and no thread is inside the library, what the application reads     *)
(* is what the resource holds.                                                *)
QuiescentRead ==
    Quiescent => \A r \in handles \cap resources : ~lost[r] => Read(r) = Parse[value[r]]

(* README.md: the callback is "called whenever the value of the variable is   *)
(* changed from the cloud": a PUT to a watched variable is followed by it.    *)
CallbackFollowsPut ==
    \A r \in Watched :
        m2mThread.at = "updated" /\ m2mThread.route = r
        ~> evThread.at = "callback" /\ evThread.route = r
=============================================================================
