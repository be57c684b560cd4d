--------------------------- MODULE SimpleM2MClient ---------------------------
(* One device that runs an application on SimpleM2MClient, the thinner of the *)
(* two clients: the application calls init, adds its resources, add_objects   *)
(* and call_register, and follows the session through the two flags.  The     *)
(* server may execute the resources "unregister" and "factory_reset".         *)
EXTENDS Provisioning, UpdateAuthorization, AddResource

VARIABLES
    _registered,        \* what is_client_registered() returns
    _register_called,   \* what is_register_called() returns
    _registered_cb,     \* whether on_registered was called
    endpoint,           \* whether the static endpoint has been fetched
    session,            \* the session of the cloud client
    notice,             \* what its thread is about to do
    crashed,            \* whether a NULL has been used
    early,              \* history: unregistered while call_register was running
    wiped               \* history: factory_reset has failed in this boot

provisioning == <<build, faulty, credentials, stage>>
updating == <<uiClient, handlers, update>>
flags == <<_registered, _register_called, _registered_cb, endpoint>>
history == <<early, wiped>>
vars == <<provisioning, updating, list, flags, session, notice, crashed, history>>

Stages == {"off", "add_factory_reset", "published", "connect", "refused",
           "called", "ui", "authorize", "progress", "up"} \cup InitStages

ControlTypeOK ==
    /\ build \in Builds /\ faulty \in BOOLEAN
    /\ credentials \in Contents /\ stage \in Stages
    /\ UpdateTypeOK
    /\ _registered \in BOOLEAN /\ _register_called \in BOOLEAN
    /\ _registered_cb \in BOOLEAN /\ endpoint \in BOOLEAN
    /\ session \in {"closed", "connecting", "registered", "closing"}
    /\ notice \in {"none", "registered", "unregistered", "resetting"}
    /\ crashed \in BOOLEAN /\ early \in BOOLEAN /\ wiped \in BOOLEAN

TypeOK == ControlTypeOK /\ ListTypeOK

-----------------------------------------------------------------------------
(* The main thread.                                                           *)

Boot ==
    /\ stage = "off" /\ stage' = "fcc_init"
    /\ UNCHANGED <<build, faulty, credentials, updating, list, flags, session,
                   notice, crashed, history>>

\* init(), which returns 0 at "ready" and 1 at "failed".
InitClient ==
    /\ FccInit \/ ResetStorage \/ RmFirmwareImages \/ DeveloperFlow \/ VerifyConfigured
    /\ UNCHANGED <<updating, list, flags, session, notice, crashed, history>>

\* on_registered may be called at any time, also by another thread.
OnRegistered ==
    /\ stage # "off"
    /\ _registered_cb' = TRUE
    /\ UNCHANGED <<provisioning, updating, list, _registered, _register_called,
                   endpoint, session, notice, crashed, history>>

\* A slip of Add: what is there already is left as it is and counts as added.
AddUnlessThere(call, from, to) ==
    /\ stage = from /\ stage' = to
    /\ IF Duplicate(call) THEN UNCHANGED list ELSE AddResource(call)
    /\ UNCHANGED <<build, faulty, credentials, updating, flags, session, notice, crashed, history>>

\* A call of add_resource at stage "from", after which the caller is at "to".
Add(call, from, to) ==
    /\ stage = from
    /\ IF Duplicate(call)
       THEN crashed' = TRUE /\ UNCHANGED <<list, stage>>
       ELSE AddResource(call) /\ stage' = to /\ UNCHANGED crashed
    /\ UNCHANGED <<build, faulty, credentials, updating, flags, session, notice, history>>

AppAdd == \E call \in Calls : Add(call, "ready", "ready")

Executed(number) ==
    [object |-> 5000, instance |-> 0, resource |-> number,
     operations |-> {"POST"}, callback |-> "execute"]

\* add_objects: "unregister" and "factory_reset", then the whole list is handed
\* over; the application calls it when it has added its own resources.
AddObjects ==
    \/ Add(Executed(1), "ready", "add_factory_reset")
    \/ Add(Executed(2), "add_factory_reset", "published")

\* call_register; an application that polls is_register_called() calls it again,
\* one that looks at the result may call again after FALSE.
CallRegister ==
    /\ stage \in {"published", "refused"} \/ (stage = "up" /\ ~_register_called)
    /\ stage' = "connect"
    /\ UNCHANGED <<build, faulty, credentials, updating, list, flags, session,
                   notice, crashed, history>>

\* _cloud_client.setup starts the connection, or fails: call_register returns
\* FALSE, "refused", and counts as called.
Connect ==
    /\ stage = "connect"
    /\ \/ stage' = "called" /\ session' = "connecting" /\ UNCHANGED _register_called
       \/ faulty /\ stage' = "refused" /\ _register_called' = TRUE /\ UNCHANGED session
    /\ UNCHANGED <<build, faulty, credentials, updating, list, _registered,
                   _registered_cb, endpoint, notice, crashed, history>>

\* A slip: nobody sets the flag.
SetupReturnsUncounted ==
    /\ stage = "called" /\ stage' = "ui"
    /\ UNCHANGED <<build, faulty, credentials, updating, list, flags, session,
                   notice, crashed, history>>

\* The flag is set when setup has returned.
SetupReturns ==
    /\ stage = "called" /\ stage' = "ui"
    /\ _register_called' = TRUE
    /\ UNCHANGED <<build, faulty, credentials, updating, list, _registered,
                   _registered_cb, endpoint, session, notice, crashed, history>>

\* A slip: the handlers are set before the client they grant requests through.
AuthorizeHandlerFirst ==
    /\ stage = "ui" /\ stage' = "authorize" /\ SetHandler("authorize")
    /\ UNCHANGED <<build, faulty, credentials, list, flags, session, notice,
                   crashed, history>>

SetUiClient ==
    /\ stage = "ui" /\ stage' = "authorize" /\ UpdateUiSetCloudClient
    /\ UNCHANGED <<build, faulty, credentials, list, flags, session, notice,
                   crashed, history>>

SetHandlers ==
    /\ \/ stage = "authorize" /\ stage' = "progress" /\ SetHandler("authorize")
       \/ stage = "progress" /\ stage' = "up" /\ SetHandler("progress")
    /\ UNCHANGED <<build, faulty, credentials, list, flags, session, notice,
                   crashed, history>>

MainStep ==
    Boot \/ InitClient \/ OnRegistered \/ AppAdd \/ AddObjects \/ CallRegister
    \/ Connect \/ SetupReturns \/ SetUiClient \/ SetHandlers

-----------------------------------------------------------------------------
(* The thread of the cloud client.                                            *)

ClientIdle == notice = "none" /\ update \notin Requests \cup {"crashed"}

Register ==
    /\ ClientIdle /\ session = "connecting"
    /\ session' = "registered" /\ notice' = "registered"
    /\ UNCHANGED <<provisioning, updating, list, flags, crashed, history>>

Reconnect ==
    /\ ClientIdle /\ faulty /\ session = "registered"
    /\ session' = "connecting"
    /\ UNCHANGED <<provisioning, updating, list, flags, notice, crashed, history>>

\* The server ends the registration, or answers close().
Unregister ==
    /\ ClientIdle /\ session \in {"registered", "closing"}
    /\ session' = "closed" /\ notice' = "unregistered"
    /\ UNCHANGED <<provisioning, updating, list, flags, crashed, history>>

\* client_registered: the callback is called, unchecked, when the endpoint is
\* there for the first time.
ClientRegistered ==
    /\ notice = "registered" /\ notice' = "none"
    /\ _registered' = TRUE
    /\ endpoint' \in IF faulty THEN {endpoint, TRUE} ELSE {TRUE}
    /\ crashed' = (endpoint' /\ ~endpoint /\ ~_registered_cb)
    /\ UNCHANGED <<provisioning, updating, list, _register_called, _registered_cb,
                   session, history>>

\* Slips of client_unregistered: one of the two flags is left as it was.
UnregisteredKeepsRegistered ==
    /\ notice = "unregistered" /\ notice' = "none"
    /\ _register_called' = FALSE
    /\ early' = (stage = "called")
    /\ UNCHANGED <<provisioning, updating, list, _registered, _registered_cb,
                   endpoint, session, crashed, wiped>>

UnregisteredKeepsCalled ==
    /\ notice = "unregistered" /\ notice' = "none"
    /\ _registered' = FALSE
    /\ early' = (stage = "called")
    /\ UNCHANGED <<provisioning, updating, list, _register_called, _registered_cb,
                   endpoint, session, crashed, wiped>>

ClientUnregistered ==
    /\ notice = "unregistered" /\ notice' = "none"
    /\ _registered' = FALSE /\ _register_called' = FALSE
    /\ early' = (stage = "called")
    /\ UNCHANGED <<provisioning, updating, list, _registered_cb, endpoint,
                   session, crashed, wiped>>

\* The server executes a resource whose handler add_resource has attached.
Executable(number) ==
    /\ ClientIdle /\ session = "registered"
    /\ ResourceAt(<<5000, 0, number>>).handler = "execute"

\* close() asks for the end of the session and returns.
Close == session' = "closing"

UnregisterExecuted ==
    /\ Executable(1)
    /\ Close
    /\ UNCHANGED <<provisioning, updating, list, flags, notice, crashed, history>>

FactoryReset ==
    /\ Executable(2)
    /\ Close /\ notice' = "resetting"
    /\ UNCHANGED <<provisioning, updating, list, flags, crashed, history>>

RequestUpdate ==
    /\ ClientIdle /\ session = "registered"
    /\ AskDownload \/ AskInstall
    /\ UNCHANGED <<provisioning, list, flags, session, notice, crashed, history>>

Authorize ==
    /\ UpdateAuthorize
    /\ UNCHANGED <<provisioning, list, flags, session, notice, crashed, history>>

\* kcm_factory_reset fails: that is printed, and the device goes on.
FactoryResetFails ==
    /\ notice = "resetting" /\ notice' = "none"
    /\ faulty /\ credentials' \in HalfDeleted
    /\ wiped' = TRUE
    /\ UNCHANGED <<build, faulty, stage, updating, list, flags, session, crashed, early>>

-----------------------------------------------------------------------------
(* Restarts.  Only the storage survives.                                      *)

Restart ==
    /\ stage' = "off" /\ list' = <<>>
    /\ _registered' = FALSE /\ _register_called' = FALSE
    /\ _registered_cb' = FALSE /\ endpoint' = FALSE
    /\ session' = "closed" /\ notice' = "none" /\ crashed' = FALSE
    /\ early' = FALSE /\ wiped' = FALSE
    /\ UpdateReset
    /\ UNCHANGED <<build, faulty>>

\* The rest of factory_reset: the storage returns to its factory state, with or
\* without credentials, and NVIC_SystemReset restarts the device.
FactoryResetDone ==
    /\ notice = "resetting"
    /\ credentials' \in {"none", credentials}
    /\ Restart

\* The firmware is installed, or somebody presses reset on a device that has
\* failed or has no session.
Reset ==
    /\ \/ update = "installing" \/ stage \in {"failed", "refused"} \/ crashed
       \/ stage = "up" /\ session = "closed"
    /\ Restart
    /\ UNCHANGED credentials

PowerLoss ==
    /\ faulty /\ stage # "off"
    /\ credentials' \in IF notice = "resetting" THEN HalfDeleted ELSE Interrupted
    /\ Restart

Outside ==
    /\ Inject \/ Heal
    /\ UNCHANGED <<updating, list, flags, session, notice, crashed, history>>

-----------------------------------------------------------------------------
Init ==
    /\ build \in Builds /\ faulty = TRUE
    /\ credentials \in {"none", "complete"}
    /\ stage = "off" /\ list = <<>>
    /\ UpdateInit
    /\ _registered = FALSE /\ _register_called = FALSE
    /\ _registered_cb = FALSE /\ endpoint = FALSE
    /\ session = "closed" /\ notice = "none"
    /\ crashed = FALSE /\ early = FALSE /\ wiped = FALSE

Answer == ClientRegistered \/ ClientUnregistered \/ Authorize
          \/ FactoryResetFails \/ FactoryResetDone
ClientStep == Register \/ Reconnect \/ Unregister \/ UnregisterExecuted
              \/ FactoryReset \/ RequestUpdate \/ Answer

Running == ~crashed /\ (MainStep \/ ClientStep)

Next == Running \/ Reset \/ PowerLoss \/ Outside

\* The application goes on until the device is registered, the network
\* answers, callbacks that are due are made.  After a call_register that was
\* refused nobody need call it again.
Fairness ==
    /\ WF_vars(Running /\ Boot) /\ WF_vars(Running /\ InitClient)
    /\ WF_vars(Running /\ AddObjects) /\ WF_vars(Running /\ CallRegister /\ stage # "refused")
    /\ WF_vars(Running /\ Connect)
    /\ WF_vars(Running /\ Register) /\ WF_vars(Running /\ Answer)

Spec == Init /\ [][Next]_vars
FairSpec == Spec /\ Fairness

-----------------------------------------------------------------------------
(* Properties.                                                                *)

(* A session is opened with credentials that are all there, unless a factory  *)
(* reset failed in this boot: call_register does not verify them again.       *)
ConnectsProvisioned ==
    session \in {"connecting", "registered"} /\ ~wiped => credentials = "complete"

(* update_authorize never runs before call_register has stored the client,    *)
(* although the connection is started first.                                  *)
AuthorizeHasClient == update # "crashed"

(* When no callback is under way is_client_registered() tells the truth: TRUE *)
(* in a session, FALSE after its end.                                         *)
RegisteredFollowsSession ==
    notice = "none" /\ ~crashed =>
        /\ session = "registered" => _registered
        /\ session = "closed" => ~_registered

(* Once call_register has returned, a registered client counts as called:     *)
(* callbacks that come before it returns do not upset the flags.              *)
RegisteredOnlyIfCalled == stage = "up" /\ _registered => _register_called

(* After the end of a session is_register_called() lets the application call  *)
(* call_register again, unless the end came before the call had set the flag. *)
CallableAfterTheEnd ==
    stage = "up" /\ session = "closed" /\ notice = "none" /\ _register_called => early

(* Once nothing fails any more, a device that can be provisioned registers    *)
(* after its next start, also after a factory reset has emptied its storage,  *)
(* unless the application has added a resource twice.                         *)
BootsConnect ==
    stage = "off" /\ ~faulty /\ CanProvision ~> session = "registered" \/ crashed

(* A device in session can be unregistered and reset by the server, whatever   *)
(* paths the application has added before add_objects: "unregister" and        *)
(* "factory_reset" are at the paths its comments name, with their handlers.    *)
ServerCanReset ==
    session = "registered" =>
        \A number \in {1, 2} :
            /\ <<5000, 0, number>> \in DOMAIN Tree
            /\ Tree[<<5000, 0, number>>].handler = "execute"

Registry == INSTANCE PathTree WITH
              tree <- Tree, Resources <- Resource, Paths <- Nat \X Nat \X Nat

\* The calls of the application and of add_objects, and one that has returned.
AllCalls == Calls \cup {Executed(1), Executed(2)}
Returned(call) == ~crashed' /\ \/ Add(call, "ready", "ready")
                               \/ Add(call, "ready", "add_factory_reset")
                               \/ Add(call, "add_factory_reset", "published")

CallAddsItsPath ==
    \A call \in AllCalls : Returned(call) => Registry!Add(PathOf(call), Promised(call))

OnlyCallsAdd ==
    Tree' # Tree => \/ \E call \in AllCalls : Returned(call)
                    \/ stage' = "off" /\ DOMAIN Tree' = {}

(* Objects, instances and resources are found or created one by one, but each *)
(* call adds what resource.h promises: the path of its own numbers, which was *)
(* free, with its operations and its callback if they ask for it, and changes *)
(* no other path.  Nothing but a call, and a restart, changes what is there.  *)
EveryCallAddsItsPath == [][CallAddsItsPath /\ OnlyCallsAdd]_vars
=============================================================================
