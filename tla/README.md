# A verification of Simple Cloud Client

TLA+ models of [simple-cloud-client](../src/README.md), checked with TLC on
small instances and, for the parts that matter most, proved with TLAPS for
every instance.

## The system

The library wraps the device management client of mbed OS (`MbedCloudClient`,
not in this repository). An application *defines* variables and functions
under routes such as `led/0/value`, calls `setup()`, and from then on assigns
to and reads from the objects it was given, while the cloud reads, writes and
invokes the resources behind them. Three threads meet:

| thread | what it runs |
| --- | --- |
| main | definitions, `setup()`, assignments, reads |
| event (`evThread`) | `evQueue->dispatch_forever`: `internal_set_*`, `SimpleResource*::update` with the application's callbacks, `keep_alive` |
| client | the device management client: stores PUTs, calls `value_updated`, `client_registered`, the update handlers |

They share the maps `resources`, `objectInstances`, `updateValues`, the
objects' `pendingValue`/`hasPendingValue`, and the event queue, whose buffer
is fixed: `EventQueue::call` returns 0 when it is full. There are no locks.

### Inventory

| component | state | operations | interacts by | hard behaviour | correct when |
| --- | --- | --- | --- | --- | --- |
| Cloud variables (`simple-cloud-client.h` 134-139, 357-384, 430-527, 613-915) | `resources`, `updateValues`, the two copies of each object, `evQueue` | `define_resource`, `operator=`, conversions, `set`, `get`, `internal_set_*`, `value_updated`, `resource_updated`, `update` | events, callbacks, shared maps | three threads, a lossy queue, copies of one object | assignments are written in order, once; reads see one's own writes; updates carry what the cloud wrote |
| Resource tree (305-355, 386-469, 213-236) | `objects`, `objectInstances`, `resources` | `define_resource_internal`, `define_function`, `parse_route`, publication in `init` | the client library's objects | routes that share an object, odd spellings, duplicates, definition against setup | no two routes share a resource, a route is the path of its resource, the registration lists everything |
| Session (176-303, 529-595) | `client`, the registration callbacks, the credentials in storage | `setup`, `init`, `client_registered`, `client_unregistered`, `keep_alive`, `reset_storage`, `start_developer_flow` | callbacks from the client thread, storage | failing steps, restarts, callbacks set too late | connects with verified credentials only, announces registrations, survives a failed start |
| Lifetime (143-164) | `evQueue`, `evThread` | constructors, destructor | the event thread | deletion while dispatching, a borrowed queue | nothing runs on a deleted object |
| SimpleM2MClient (`simplem2mclient.h`) | `_registered`, `_register_called`, `_registered_cb` | `init`, `call_register`, `close`, `client_registered`, `client_unregistered`, `factory_reset`, `unregister` | callbacks, storage, restart | answers that come before the call returns | the flags follow the session, credentials are erased after it ends |
| add_resource (`resource.cpp`) | the object list | three overloads of `add_resource` | the client library's objects | existing objects, instances, resources | found or created once, the right callback attached |
| Update UI (`update_ui_example.cpp`) | `_client`, the spinner | `update_authorize`, `update_progress` | callbacks from the client | 32-bit arithmetic, order of requests | every request answered, the percentage is one |
| Diagnostics, root of trust stub, configuration headers | none that others use | | | | not modelled |

## Modules

| module | models |
| --- | --- |
| `CloudVariables` | the variables, the queue and the three threads |
| `CloudCells` | what they promise: one cell per route with a first-in first-out backlog of assignments |
| `MCCloudVariables` | values of the constants for TLC |
| `CloudVariablesProofs` | theorems about `CloudVariables` |
| `CloudCellsProofs` | that `CloudVariables` implements the safety part of `CloudCells` |
| `ResourceTree` | routes, objects, instances, resources and the publication |
| `MCResourceTree` | routes for TLC |
| `ResourceTreeProofs` | theorems about `ResourceTree`, with the refinement of `PathTree` |
| `Provisioning` | the start of a device that both clients share: storage, credentials, verification |
| `UpdateAuthorization` | requests of the update client and the handlers that grant them |
| `Session`, `MCSession` | `SimpleMbedClient`: `setup`/`init`, the session, the callbacks, restarts; extends the two above |
| `SessionProofs` | theorems about `Session` |
| `Lifetime` | constructors, destructor, owned and borrowed queue |
| `LifetimeProofs` | theorems about `Lifetime` |
| `AddResource` | the `add_resource` helpers on the list of objects |
| `PathTree` | a registry: a function on paths that only grows, one path at a time; `ResourceTree` implements it, and each call of `add_resource` is one of its steps |
| `AddResourceProofs` | lemmas about what one call of `add_resource` does |
| `SimpleM2MClient`, `MCSimpleM2MClient` | the thin client; composes `Provisioning`, `UpdateAuthorization` and `AddResource` |
| `SimpleM2MClientProofs` | theorems about `SimpleM2MClient`, with what the calls of `add_resource` leave behind |
| `UpdateProgress`, `MCUpdateProgress` | the progress bar |
| `UpdateProgressProofs` | theorems about `UpdateProgress` |

Some modules hold, next to an operator or action, a variant of it under a
comment that begins "A slip": a plausible mistake in that piece of code. No
specification uses a slip; put in the place of its neighbour it breaks a
property, which shows that the property says something about the code.

### CloudVariables

One model stands for the three classes `SimpleResourceString`, `Int` and
`Float`: they differ in how a value becomes a text and back, which are the
constants `Format` (`sprintf`), `Parse` (`atoi`, `atof`) and `Unquote` (the
quotes the portal adds). Nothing is assumed about them but their types: in
particular `Parse` need not undo `Format`, as it does not for `%g`.

| state | code |
| --- | --- |
| `client` | `client != NULL`, set by `setup()` before `init` |
| `resources`, `value` | the map `resources` and the text of each `M2MResource` |
| `updateValues` | the map of that name |
| `handles` | the objects `define_resource` has returned |
| `hasPendingValue`, `pendingValue` | the fields; `define_resource` registers a heap object and returns a *copy*, so there are two flags per variable |
| `queue` | `evQueue`: `set` events (`internal_set_*`) and `update` events |
| `mainThread`, `evThread`, `m2mThread` | where each thread is between two of its steps |
| `author`, `lost` | history only: who wrote a resource last, whether the queue dropped the last assignment |

Each thread step is an action: `DefineInternal` and `RegisterUpdateCallback`
are the two halves of `define_resource` (with `DefineRejected` when
`define_resource_internal` returns false); `MainAssign`/`MainSet` and
`CallbackAssign`/`CallbackSet` are the two halves of `operator=`, on the main
thread and inside a callback; `InternalSet`/`ClearPendingValue` are
`internal_set_str` before and after the write of the resource;
`CloudPut`/`ResourceUpdated`/`PostUpdate` are the store of a PUT by the client
library and `resource_updated` around its second read. `Call` is
`EventQueue::call`, which drops the event when `QueueSize` events wait; the
periodic `keep_alive` occupies one place of the real buffer, so `QueueSize` is
what is left, and does nothing to the variables.

Reads are state functions (`Read`). A route is defined once and one access to
a map, a resource or a field is atomic: the data races of the unlocked maps
are outside the model. `setup()` is here only the end of the definitions, and
a PUT finds its variable by the route: that `value_updated` looks it up by the
path of the resource, which may be another one, is modelled in `ResourceTree`.

`Cells` reads this state as `CloudCells`: a cell is the text of the resource,
and the backlog of a route is made of the `set` events of that route in the
queue, numbered by their rank among them (`Rank`, `Place`, `BacklogOf`).

### ResourceTree

A route is the sequence of the pieces between its slashes. `Digits`, `Atoi`
and `Decimal` say which pieces pass the test on their first character, what
`atoi` reads and how the client library prints an instance number in a path.
`DefineInternal` is `define_resource_internal`: it creates the object and its
one instance when the object name is new, otherwise takes the instance there
is; `create_dynamic_resource` returns NULL for a name that exists and the code
uses it, which is the state `crashed`. A rejected definition changes nothing.
`Setup` hands the addresses over (`client->add_objects`), `SetupFails` stands
for the returns of `init` before that.

`Registry` reads the resources as `PathTree`: `Tree` maps every address taken
to the route it was created for. `ImplementsPathTree` is `PathTree`'s
specification: addresses are added one by one and none ever goes away.

### Provisioning and UpdateAuthorization

The two clients start a device with nearly the same statements, so `FccInit`,
`ResetStorage`, `RmFirmwareImages`, `DeveloperFlow` and `VerifyConfigured` are
written once. `build` is the set of preprocessor flags (`RESET_STORAGE`,
`RESET_FIRMWARE`, developer mode), chosen once for a device; `stage` is the
statement the main thread has reached; `credentials` abstracts the items of
the storage to none, some or all of them. `faulty` says whether calls may
still fail and power may still be lost; it turns `FALSE` once (`Heal`), from
when on liveness is asked for. A deletion or a developer flow that fails or is
interrupted leaves any prefix of its work (`HalfDeleted`, `HalfStored`); the
code ignores a failed deletion and takes an item that exists for success.

`UpdateAuthorization` has the static `_client` (`uiClient`), the handlers set
on the cloud client, and the update, which waits in a request when a handler
is set and takes the step at once when there is none. `update_authorize` with
`_client` NULL is the state `crashed`.

### Session

| state | code |
| --- | --- |
| `stage` | the statement of `main`, `setup` or `init` the main thread is at; `app` before `setup`, `up` after it, `failed` after `false` was returned |
| `client` | `client != NULL`, which makes a second `setup` return at once |
| `registeredCallback`, `unregisteredCallback` | the members of that name are set |
| `session`, `notice` | the cloud client: its session and the callback it is about to make |
| `endpoint` | the static endpoint of `client_registered` has been fetched |
| `announced` | history: the last notice reached a callback |

`Connect` is `client->setup`, after which the client thread runs: `Register`,
`Reconnect`, `Unregister`, `RequestUpdate` may come between any two of the
remaining statements of `init`, one action each. `Reset` and `PowerLoss` lose
everything but the storage. `client` is `FALSE` at boot because the model's
client object has static storage, as in the example applications.

### Lifetime

One object, in zeroed or in used memory, built by either constructor; what
`evThread` holds before a constructor assigns it is chosen by `Init`. The
destructor is two actions, `Destroy` and `DeleteThread`, with the dispatcher
between them. `queue` holds the kinds of events; `faults` records what ran on
deleted memory.

### AddResource and PathTree

A call is its three numbers, the operations and the kind of callback. The
search of the list, the creation of object, instance and resource and the
attachment of the callback are `AddResource`; a duplicate makes
`create_dynamic_resource` return NULL, which the code uses (`Duplicate`, and
`crashed` in `SimpleM2MClient`). `Tree` is the list read as a function on
paths. `PathOf` and `Promised` are not read from the code but from the comment
of `add_resource` in `resource.h`: the path of a call, its operations, and its
callback if it is of the kind they ask for. `EveryCallAddsItsPath` compares the
two: a call that returns is the step of `PathTree` that adds `PathOf` of that
call with what is `Promised` to it, and nothing but a call and a restart
changes `Tree`.

### SimpleM2MClient

| state | code |
| --- | --- |
| `stage` | the statement of `init`, `add_objects` or `call_register` |
| `_registered`, `_register_called`, `_registered_cb` | the members |
| `list` | the object list that `add_resource` fills |
| `session`, `notice` | the cloud client; `resetting` is `factory_reset` between `close` and `kcm_factory_reset` |
| `crashed` | an empty `Callback` or a NULL resource was used |
| `early`, `wiped` | history: a session ended while `call_register` was running; a factory reset failed in this boot |

An application that polls `is_register_called()` calls `call_register` again
(`CallRegister` at `up`), and one whose call returned `false` (`refused`) may
call it again too. `on_registered` may be called at any time. The server executes "unregister" and "factory_reset"
only if `add_resource` attached their handlers (`Executable`).

### UpdateProgress

`Percent` is line 83 with the wrap of its product at `Word` and of its result
at `Byte`; `Spin` is the loop over the 50 cells, of which only the cell after
the full ones changes anything; `old_max` and `counter` are the static
variables. The update client reports every fragment (`Receive`) and may break
off a download for another one (`Start`).

## What TLC checks

| run | expects | shows |
| --- | --- | --- |
| `cloud_variables` | pass | two variables, one assigned by the main thread and one by the callback of the other, two values, quoted and unquoted PUTs, a queue of two events: `ReadYourWrites`, `LastAssignmentWins`, `UpdateIsThePutUnlessOvertaken`, `NoNullDereference` in every interleaving, each step one of `CloudCells` or a stutter (660 000 states) |
| `cloud_variables_live` | pass | a variable both threads assign to, and a rejected one: queued assignments and updates are dispatched, and the system implements `CloudCells` with its fairness: no accepted assignment waits for ever |
| `stale_read` | violation of `QuiescentRead` | with nothing in progress the application reads its own last assignment, not what the cloud wrote since |
| `lost_callback` | violation of `CallbackFollowsPut` | a PUT that meets a full queue never runs its callback |
| `resource_tree` | pass | twelve routes, well and badly formed, defined in every order as variables or functions: resources are not shared, updates are not misdirected, the publication is complete, and the resources grow as `PathTree` says (5 706 states) |
| `tree_path` | violation of `EveryRouteIsItsPath` | `led/1/value` after `led/0/blink` is exposed at `led/0/value` |
| `session` | pass | every build without `RESET_FIRMWARE`, any call failing, power lost at any statement: no session without complete credentials, no update request before `_client` is set, failures that last until a restart; registration, announcements and answers that come in the end (5 014 states) |
| `early_registration` | violation of `RegisteredAppKnows` | the registration overtakes `on_registered`, which README.md calls after `setup()` |
| `lifetime` | pass | both constructors, static, zeroed and used memory, destruction at any moment, a queue of two events (585 states) |
| `borrowed_queue` | violation of `BorrowedQueueSurvives` | a borrower in used memory deletes the application's queue |
| `simple_m2m_client` | pass | the thin client with three resources of the application, one of them by mistake the path of "unregister", failing factory resets, `call_register` refused and repeated, callbacks that overtake it: the flags, the credentials, registration in the end, the path and handler of every call, the two resources of `add_objects` in every session (103 576 states) |
| `update_progress` | pass | four downloads after one another in any order, complete or broken off (131 405 states) |

Bounds. Nothing is cut off by a constraint: `QueueSize` bounds the queue as
the real buffer does, and all other state is finite. Two places are enough for
an assignment to wait behind another one or behind an update while a third is
being dispatched, and for the queue to drop. In `lost_callback` the queue has
one place, which shortens the counterexample; a longer queue needs more
assignments to fill. Two values tell new from old; the text `'1'` stands for a
quoted 1, which `atoi` reads as 0. A callback assigns at most once, as its last statement.
`session` and `simple_m2m_client` bound nothing: one device has finitely many
states, and restarts are unlimited. In `simple_m2m_client` the two reset flags
are equal, since the removal of the firmware touches no credentials and only
adds a call that may fail. Three calls of `add_resource`
give a new object, a new instance of one that exists, and a path that exists.
`update_progress` scales `uint32_t` to 21 bits, so that images whose size
times 100 wraps are small enough to enumerate, and keeps `uint8_t`; one image
takes more than 256 reports for one cell, so that the counter wraps. The
theorems about the same module hold for the real widths.
`resource_tree` stops when everything is defined or setup is over, and
`lifetime` when the object is dead and its queue gone, so deadlock is not
checked there; the other runs check it.

Fairness. `FairSpec` assumes that the event thread goes on while it has an
event (`dispatch_forever`, and callbacks return) and that the client library
finishes the call of `value_updated` it has begun. The application need never
assign and the cloud need never PUT.

`FairSpec` of `Session` and of `SimpleM2MClient` assumes that `main` goes on
(it boots, calls `setup()` or `add_objects` and `call_register`, and these
reach their next statement), that the network answers a connection attempt,
and that a callback that is due is made. Nobody need set a callback, start an
update, press reset, cut the power, or call a refused `call_register` again. Failures are not assumed away by
fairness: they end when `faulty` turns `FALSE`, which need not happen, and
`BootsConnect` speaks only of starts after it, and only of a device that
`CanProvision`: a start that broke off may have left some of the credentials,
which the developer flow takes for all of them and the verification refuses,
for ever unless the build resets the storage.

## What is proved

`CloudVariablesProofs`, for every set of routes, every conversion and every
queue size:

- `TypeCorrect`, `NeverNull`, `ReadsOwnWrites`, `LastOneWins`,
  `UpdatesAreHonest`: the five invariants of the run `cloud_variables`;
- `SyncedUntilPut`, for conversions that undo each other: what is left of the
  promise that `stale_read` refutes.

None of them is inductive alone. `Protocol` ties the threads together: a
route is in `resources` before `updateValues` and there before the application
holds the object (`DefinitionOrder`); every assignment in the queue or in
progress comes from an object the application holds and whose returned copy
remembers a value (`AssignmentsRemembered`); what the event thread is about to
clear is registered (`ClearsRegistered`). `NeverNull` and `ReadsOwnWrites`
follow. `LastOneWins` needs in addition that an assignment in progress by the
only writer carries the remembered value (`WritersAgree`), and lemmas on how
the places of the assignments to one route move when an event is appended
(`CallKeepsLast`, `SetIsNewest`) or taken (`TailKeepsLast`, `FlushKeepsLast`).
`UpdatesAreHonest` rests on `PutStillThere`. `SyncedUntilPut` assumes that a
value survives its text (`Parse[Format[v]] = v`, so of an int and of a string,
not of every float): at rest, a variable that one thread assigns to, whose
last assignment the queue took and which the cloud has not written since,
reads as its resource. Besides `LastOneWins` it needs that only an object the
application holds remembers a value (`PendingHeld`) and that what was assigned
and is neither under way nor dropped has been written (`Written`).

`CloudCellsProofs`, from the same `Protocol`: `VariablesAreCells`, the
refinement of the safety part of `CloudCells`. `Ranks` says that the ranks in a
finite set of `n` numbers are exactly `1..n`, in their order; hence a backlog
holds every `set` event of its route once, at its rank (`BacklogHolds`), and is
determined by that (`BacklogIs`). Then an event that is appended extends its
own backlog at the end and no other (`BacklogOfAppend`), one that is taken
shortens its own at the front (`BacklogOfTail`), and every action is one step
of the cells or none: `SetAccepts`, `InternalSetFlushes`, `DefinitionExposes`,
`PutWrites`, and for the rest `UpdatesStutter` and `Stutters`.

`ResourceTreeProofs`, for every set of routes and every spelling: `TypeCorrect`,
`NeverAliased`, `RightVariable`, `CompletePublication`, `UniformRoutes`. The
invariant says that a resource lives in the one instance of its object
(`LivesInItsObject`), that the number of the instance comes from a route that
is defined (`InstanceFromRoute`), and that every route but the one in progress
has its handler (`HandlersFollow`). `ResourcesAreARegistry` proves that the
resources implement `PathTree`: since no two routes share an address, an
address has one route (`OwnerIsTheRoute`), and a definition that does not crash
adds one free address (`DefinitionGrows`) while nothing else changes any.

`SessionProofs`, for every set of builds: `TypeCorrect`, `Provisioned`,
`ClientForRequests`, and the action property `FailureLasts`. The invariant
says that nothing comes from the network before the connection is started,
that a verified start has complete credentials until the boot ends, and that
`_client` is set before the handler is: then every request that waits was
asked after both. `CarefulAppKnows` is the other side of the run
`early_registration`: of an application that sets its callback before it calls
`setup()` (`CarefulSpec`), `RegisteredAppKnows` does hold, through every
reconnection and restart, since a client implies a callback and a notice of an
end implies the end of the session.

`LifetimeProofs`, for every queue size: `TypeCorrect`, `ThreadDies`,
`OwnedEventsDie`, `ZeroedBorrower`. What `evThread` holds follows from the
constructor (`"thread"` exactly for an owner), the destructor's branch from
that, and an owned queue is deleted from `Destroy` on.

`SimpleM2MClientProofs`, for every set of builds and of calls:
`TypeCorrect`, `Provisioned`, `ClientForRequests`, `RegisteredFollows`,
`RegisteredCalled`, `CallableAgain`, `OneObject`, `CallsAddTheirPaths`,
`ServerResets`. The flags are inductive only together with `NoticeFits` (a callback that is due fits the session) and
`SilentUntilStarted` (the application calls again only after the end of a
session), and with what `FlagsFollow` says of the moment between the return of
`setup()` and the assignment of `_register_called`. `VerifiedStays` carries
the verification over to every later `call_register` of the boot.

`CallsAddTheirPaths` proves `EveryCallAddsItsPath` for every sequence of calls.
It rests on `AddGrowsTree` of `AddResourceProofs`: a call that is no duplicate
changes one place of the list (`AddPlaces`), that place is the only one with its
number (`FirstIsIt`, `OneObjectPerNumber`), so exactly one path is new
(`AtPath`) and all others lead where they led; and what it leads to is what the
comment says (`NewResourceIsPromised`). `ServerResets` follows: from the moment
a call of `add_objects` has returned its path is there with its handler
(`ReturnedLeaves`, `ResetResources`), through every later stage of the boot.

`CarefulNeverCrashes` says what an application must do for the thin client
never to use a NULL (`Careful`): set its callback before `add_objects`, and
add no path twice, nor one of the two that `add_objects` adds. Then no callback
is empty when it is made (`CallbackInTime`), and the paths of `add_objects` are
free when their turn comes (`ReservedAreFree`).

`UpdateProgressProofs`, for all widths, images and fragments: `TypeCorrect`,
`ExactPercent`, `FullAtTheEnd`, `AlwaysTurns`. They rest on lemmas
about integer division and its remainder and on the width of
the counter being a multiple of four. `FullAtTheEnd` needs no bound on the
image: a product that wraps only gets smaller.

The assumptions are the `ASSUME`s of the modules, which TLC evaluates on
every run: types of the conversions, at least one place in the queue, routes
that are non-empty sequences (`CloudVariables`, `ResourceTree`); builds are
sets of the three flags, without `RESET_FIRMWARE` for `Session`, whose `init`
has no such branch (`BuildsAssumption`, `FirmwareAssumption`); calls have
natural numbers and known operations (`CallsAssumption`); a queue has room for
one event (`QueueSizeAssumption`); a byte holds 100 and is a multiple of four,
a word is wider than it, an image is not empty and its size fits in a word
(`WidthAssumption`, `DownloadsAssumption`).

`Careful`, `CallbackFirst` and the premise of `SyncedUntilPut` are conditions
on the application and on the conversions. They stand in the theorems that need
them and restrict no other; the runs and the other theorems do without them.

Only model-checked: the liveness properties (`AssignmentsReachTheResource`,
`UpdatesReachTheCallback`, `BootsConnect` of both clients,
`NoticesAreAnnounced`, `RequestsAreAnswered`), which are beyond the prover,
and of `ImplementsCells` the fairness, that no accepted assignment waits for
ever; its steps are `VariablesAreCells`. Every safety invariant, every action
property and the steps of every refinement of the passing runs are proved.

## What the runs found

1. The object an application holds is a copy of the registered one, and only
   the registered one is cleared: after the first local assignment it never
   shows a PUT again (`stale_read`). The obvious repair, clearing the returned
   object too, breaks `ReadYourWrites` when two assignments are queued. What
   does hold is `SyncedUntilPut`.
2. `evQueue->call` is never checked: updates (`lost_callback`) and assignments
   (the history variable `lost`) disappear when the queue is full.
3. Instances are found by object name alone, so two instance numbers under one
   object end up in one instance, under the wrong path (`tree_path`).
4. `setup()` starts the connection before it returns, and README.md registers
   its callback after `setup()`: the callback may never be called
   (`early_registration`). Set before `setup()`, it knows (`CarefulAppKnows`).
5. The constructor that borrows a queue does not assign `evThread`, by which
   the destructor decides whether the queue is its own: outside static storage
   it may delete the application's queue (`borrowed_queue`); in zeroed memory
   it leaves it alone (`ZeroedBorrower`).

Seen in the models, with nothing in the repository that says otherwise:

- The destructor deletes the queue before the thread that dispatches it
  (fault `"queue"` of `Lifetime` is reachable), and never closes the cloud
  client, whose callbacks are bound to the object (fault `"callback"`).
- An unregistration that comes before `call_register` has set
  `_register_called` is overwritten: the flag stays `TRUE` without a session,
  and an application that polls it never calls again (`early`).
- After a factory reset that failed half way, `call_register` connects without
  verifying the credentials (`wiped`).
- `client_registered` of the thin client calls the callback only when it
  fetches the endpoint, once per boot, and calls an empty `Callback` when none
  is set (`crashed`); `CarefulNeverCrashes` says how to avoid it.
- The percentage wraps for images of more than 42 MB.
- Credentials that a broken developer flow left incomplete are never repaired
  unless the build resets the storage.

## Plan

What is left:

1. Composition of `Session` with `CloudVariables` (no PUT before a session,
   variables across a restart) and with `ResourceTree` (a failed start hands
   nothing over). Today both take from the session only that definitions end
   with `setup()`.
2. `Lifetime` together with the writes of `CloudVariables`, for a client
   destroyed with assignments in its queue.

## Not modelled

- The internals of the device management client, the factory configurator and
  the storage: they appear as the calls the code makes and the answers it
  handles.
- `keep_alive` in UDP builds: in the configured TCP mode
  (`mbed_cloud_client_user_config.h`) it does nothing, so it is only an event
  that takes a place in a queue.
- Debug output, the `error` functions that print, the display of the
  application shield, the values of resources in `resource.cpp`.
- Heap diagnostics (`memory_tests.cpp`) and the root of trust stub
  (`pal_plat_rot_insecure.cpp`), which keep no state others use.
- The configuration headers: preprocessor constants, of which those that
  change the start of a device are the constant `Builds`.
- Data races of the unlocked maps and strings, below the level of one access.
- `set()` called directly on the route of a function, which no document shows.
- The memory the code allocates and never frees (`get`, the callback copies).
