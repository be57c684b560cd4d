----------------------- MODULE SimpleM2MClientProofs -----------------------
(* Safety of SimpleM2MClient for every set of builds and every set of calls   *)
(* the application may make, and what the calls of add_resource leave behind. *)
EXTENDS SimpleM2MClient, AddResourceProofs

-----------------------------------------------------------------------------
(* The inductive invariant.                                                   *)

AfterSetup == {"ui", "authorize", "progress", "up"}   \* setup() has returned
Started == AfterSetup \cup {"called"}                 \* the connection is started

\* The end of a session, when its callback has run.
Over == session = "closed" /\ notice = "none"

\* The application calls again only after the end, so that nothing comes from
\* the network before the connection is started.
SilentUntilStarted == stage \notin Started => Over

\* A callback that is due fits the session it comes from.
NoticeFits ==
    /\ notice = "registered" => session = "registered"
    /\ notice = "unregistered" => session = "closed"
    /\ notice = "resetting" => session = "closing"

\* The flags, whichever callback has overtaken call_register.
FlagsFollow ==
    /\ session = "registered" /\ notice = "none" => _registered
    /\ Over => ~_registered
    /\ stage \in AfterSetup /\ ~_register_called => Over
    /\ stage \in AfterSetup /\ Over /\ _register_called => early
    /\ stage = "called" /\ Over => early

\* What the verification has found stays until a factory reset fails.
VerifiedStays ==
    stage \in Started \cup {"ready", "add_factory_reset", "published", "connect", "refused"}
      => credentials = "complete" \/ wiped

ClientBeforeHandler ==
    stage \in {"authorize", "progress", "up"} \/ "authorize" \in handlers
      \/ update \in Requests => uiClient

Control == /\ SilentUntilStarted
           /\ NoticeFits
           /\ FlagsFollow
           /\ VerifiedStays
           /\ ClientBeforeHandler
           /\ AuthorizeHasClient

Objects == ListOfObjects /\ OneObjectPerNumber

IInv == ControlTypeOK /\ Control /\ Objects

-----------------------------------------------------------------------------
(* init() keeps the types and ends "ready" with complete credentials only.    *)
LEMMA ProvisionKeeps ==
    ASSUME ControlTypeOK,
           FccInit \/ ResetStorage \/ RmFirmwareImages \/ DeveloperFlow \/ VerifyConfigured
    PROVE  /\ build' = build /\ faulty' = faulty /\ credentials' \in Contents
           /\ stage \in InitStages \ {"ready", "failed"}
           /\ stage' \in {"reset", "firmware", "developer", "verify", "ready", "failed"}
           /\ stage' = "ready" => credentials' = "complete"
<1>1. /\ AfterFirmware \in {"developer", "verify"}
      /\ AfterReset \in {"firmware", "developer", "verify"}
      /\ AfterInit \in {"reset", "firmware", "developer", "verify"}
  BY DEF AfterInit, AfterReset, AfterFirmware
<1>2. CASE FccInit
  BY <1>1, <1>2 DEF FccInit, ControlTypeOK, InitStages
<1>3. CASE ResetStorage
  BY <1>1, <1>3 DEF ResetStorage, HalfDeleted, ControlTypeOK, InitStages, Contents
<1>4. CASE RmFirmwareImages
  BY <1>1, <1>4 DEF RmFirmwareImages, ControlTypeOK, InitStages
<1>5. CASE DeveloperFlow
  BY <1>5 DEF DeveloperFlow, HalfStored, ControlTypeOK, InitStages, Contents
<1>6. CASE VerifyConfigured
  BY <1>6 DEF VerifyConfigured, ControlTypeOK, InitStages
<1>. QED  BY <1>2, <1>3, <1>4, <1>5, <1>6

(* A restart leads to a state that keeps the invariant.                       *)
LEMMA RestartKeeps ==
    ASSUME ControlTypeOK, Restart, credentials' \in Contents
    PROVE  IInv'
<1>1. ControlTypeOK' /\ Control'
  BY DEF Restart, UpdateReset, ControlTypeOK, UpdateTypeOK, Control, SilentUntilStarted, NoticeFits,
         FlagsFollow, VerifiedStays, ClientBeforeHandler, AuthorizeHasClient, Started, AfterSetup,
         Over, Stages, InitStages, Handlers, Requests
<1>2. list' = <<>>
  BY DEF Restart
<1>3. Objects'
  BY <1>2, EmptySeq DEF Objects, ListOfObjects, OneObjectPerNumber
<1>. QED  BY <1>1, <1>3 DEF IInv

(* The calls of add_resource: those of the application and of add_objects.    *)
LEMMA ExecutedIsCall == Executed(1) \in Call /\ Executed(2) \in Call
BY DEF Executed, Call, Operations

LEMMA AddKeeps ==
    ASSUME IInv, NEW call \in Call, NEW to \in {"ready", "add_factory_reset", "published"},
           NEW from \in {"ready", "add_factory_reset"}, Add(call, from, to)
    PROVE  IInv'
<1>1. Objects'
  <2>1. CASE list' = list
    BY <2>1 DEF IInv, Objects, ListOfObjects, OneObjectPerNumber
  <2>2. CASE AddResource(call)
    BY <2>2, AddKeepsObjects DEF IInv, Objects
  <2>. QED  BY <2>1, <2>2 DEF Add
<1>2. /\ UNCHANGED <<build, faulty, credentials, updating, flags, session, notice, history>>
      /\ stage = from /\ (stage' = stage \/ stage' = to)
      /\ crashed' = TRUE \/ crashed' = crashed
  BY DEF Add
<1>3. ControlTypeOK'
  <2>1. crashed' \in BOOLEAN
    BY <1>2 DEF IInv, ControlTypeOK
  <2>2. stage' \in Stages
    BY <1>2 DEF IInv, ControlTypeOK, Stages, InitStages
  <2>. QED  BY <1>2, <2>1, <2>2 DEF IInv, ControlTypeOK, UpdateTypeOK, updating, flags, history
<1>4. Control'
  BY <1>2 DEF IInv, Control, SilentUntilStarted, NoticeFits, FlagsFollow, VerifiedStays,
       ClientBeforeHandler, AuthorizeHasClient, Started, AfterSetup, Over, updating, flags, history
<1>. QED  BY <1>1, <1>3, <1>4 DEF IInv

-----------------------------------------------------------------------------
(* What leaves the list alone.                                                *)
LEMMA SameList == Objects /\ UNCHANGED list => Objects'
BY DEF Objects, ListOfObjects, OneObjectPerNumber

(* The steps of the main thread.                                              *)
LEMMA MainKeeps == ASSUME IInv, MainStep PROVE IInv'
<1>. USE DEF IInv
<1>1. CASE Boot
  <2>1. ControlTypeOK'
    BY <1>1 DEF Boot, Stages, InitStages, ControlTypeOK, UpdateTypeOK, provisioning, updating, flags, history
  <2>2. Control'
    BY <1>1 DEF Boot, Control, SilentUntilStarted, NoticeFits, FlagsFollow, VerifiedStays, ClientBeforeHandler,
         AuthorizeHasClient, Started, AfterSetup, Over, provisioning, updating, flags, history
  <2>3. UNCHANGED list
    BY <1>1 DEF Boot, provisioning
  <2>. QED  BY <2>1, <2>2, <2>3, SameList DEF IInv
<1>2. CASE OnRegistered
  <2>1. ControlTypeOK'
    BY <1>2 DEF OnRegistered, Stages, InitStages, ControlTypeOK, UpdateTypeOK, provisioning, updating, flags, history
  <2>2. Control'
    BY <1>2 DEF OnRegistered, Control, SilentUntilStarted, NoticeFits, FlagsFollow, VerifiedStays, ClientBeforeHandler,
         AuthorizeHasClient, Started, AfterSetup, Over, provisioning, updating, flags, history
  <2>3. UNCHANGED list
    BY <1>2 DEF OnRegistered, provisioning
  <2>. QED  BY <2>1, <2>2, <2>3, SameList DEF IInv
<1>3. CASE CallRegister
  <2>1. ControlTypeOK'
    BY <1>3 DEF CallRegister, Stages, InitStages, ControlTypeOK, UpdateTypeOK, provisioning, updating, flags, history
  <2>2. Control'
    BY <1>3 DEF CallRegister, Control, SilentUntilStarted, NoticeFits, FlagsFollow, VerifiedStays, ClientBeforeHandler,
         AuthorizeHasClient, Started, AfterSetup, Over, provisioning, updating, flags, history
  <2>3. UNCHANGED list
    BY <1>3 DEF CallRegister, provisioning
  <2>. QED  BY <2>1, <2>2, <2>3, SameList DEF IInv
<1>4. CASE Connect
  <2>1. ControlTypeOK'
    <3>1. stage' \in Stages
      BY <1>4 DEF Connect, Stages, InitStages
    <3>2. session' \in {"closed", "connecting", "registered", "closing"}
      BY <1>4 DEF Connect, ControlTypeOK
    <3>3. _register_called' \in BOOLEAN
      BY <1>4 DEF Connect, ControlTypeOK
    <3>4. UNCHANGED <<build, faulty, credentials, uiClient, handlers, update, _registered, _registered_cb,
                     endpoint, notice, crashed, early, wiped>>
      BY <1>4 DEF Connect, provisioning, updating, flags, history
    <3>. QED  BY <3>1, <3>2, <3>3, <3>4 DEF ControlTypeOK, UpdateTypeOK
  <2>2. Control'
    BY <1>4 DEF Connect, Control, SilentUntilStarted, NoticeFits, FlagsFollow, VerifiedStays, ClientBeforeHandler,
         AuthorizeHasClient, Started, AfterSetup, Over, provisioning, updating, flags, history
  <2>3. UNCHANGED list
    BY <1>4 DEF Connect, provisioning
  <2>. QED  BY <2>1, <2>2, <2>3, SameList DEF IInv
<1>5. CASE SetupReturns
  <2>1. ControlTypeOK'
    BY <1>5 DEF SetupReturns, Stages, InitStages, ControlTypeOK, UpdateTypeOK, provisioning, updating, flags, history
  <2>2. Control'
    BY <1>5 DEF SetupReturns, Control, SilentUntilStarted, NoticeFits, FlagsFollow, VerifiedStays, ClientBeforeHandler,
         AuthorizeHasClient, Started, AfterSetup, Over, provisioning, updating, flags, history
  <2>3. UNCHANGED list
    BY <1>5 DEF SetupReturns, provisioning
  <2>. QED  BY <2>1, <2>2, <2>3, SameList DEF IInv
<1>6. CASE SetUiClient
  <2>1. ControlTypeOK'
    BY <1>6 DEF SetUiClient, UpdateUiSetCloudClient, Stages, InitStages, ControlTypeOK, UpdateTypeOK, provisioning, updating, flags, history
  <2>2. Control'
    BY <1>6 DEF SetUiClient, UpdateUiSetCloudClient, Control, SilentUntilStarted, NoticeFits, FlagsFollow, VerifiedStays, ClientBeforeHandler,
         AuthorizeHasClient, Started, AfterSetup, Over, provisioning, updating, flags, history
  <2>3. UNCHANGED list
    BY <1>6 DEF SetUiClient, UpdateUiSetCloudClient, provisioning
  <2>. QED  BY <2>1, <2>2, <2>3, SameList DEF IInv
<1>7. CASE SetHandlers
  <2>1. ControlTypeOK'
    <3>1. stage' \in Stages
      BY <1>7 DEF SetHandlers, SetHandler, Handlers, Stages
    <3>2. handlers' \subseteq Handlers
      BY <1>7 DEF SetHandlers, SetHandler, Handlers, ControlTypeOK, UpdateTypeOK
    <3>3. UNCHANGED <<build, faulty, credentials, uiClient, update, _registered, _register_called,
                     _registered_cb, endpoint, session, notice, crashed, early, wiped>>
      BY <1>7 DEF SetHandlers, SetHandler, Handlers, provisioning, updating, flags, history
    <3>. QED  BY <3>1, <3>2, <3>3 DEF ControlTypeOK, UpdateTypeOK
  <2>2. Control'
    BY <1>7 DEF SetHandlers, SetHandler, Handlers, Control, SilentUntilStarted, NoticeFits, FlagsFollow, VerifiedStays, ClientBeforeHandler,
         AuthorizeHasClient, Started, AfterSetup, Over, provisioning, updating, flags, history
  <2>3. UNCHANGED list
    BY <1>7 DEF SetHandlers, SetHandler, Handlers, provisioning
  <2>. QED  BY <2>1, <2>2, <2>3, SameList DEF IInv
<1>8. CASE InitClient
  <2>1. /\ build' = build /\ faulty' = faulty /\ credentials' \in Contents
        /\ stage \in InitStages \ {"ready", "failed"}
        /\ stage' \in {"reset", "firmware", "developer", "verify", "ready", "failed"}
        /\ stage' = "ready" => credentials' = "complete"
        /\ UNCHANGED <<updating, list, flags, session, notice, crashed, history>>
    BY <1>8, ProvisionKeeps DEF InitClient
  <2>2. ControlTypeOK'
    BY <2>1 DEF Stages, InitStages, ControlTypeOK, UpdateTypeOK, updating, flags, history
  <2>3. Control'
    BY <2>1 DEF InitStages, Control, SilentUntilStarted, NoticeFits, FlagsFollow, VerifiedStays,
         ClientBeforeHandler, AuthorizeHasClient, Started, AfterSetup, Over, updating, flags, history
  <2>. QED  BY <2>1, <2>2, <2>3, SameList
<1>9. CASE AppAdd
  BY <1>9, AddKeeps, CallsAssumption DEF AppAdd
<1>10. CASE AddObjects
  BY <1>10, AddKeeps, ExecutedIsCall DEF AddObjects
<1>. QED
  BY <1>1, <1>2, <1>3, <1>4, <1>5, <1>6, <1>7, <1>8, <1>9, <1>10 DEF MainStep

(* The steps of the client thread, but for the restart it may make.           *)
LEMMA ClientKeeps == ASSUME IInv, ~crashed, ClientStep PROVE IInv'
<1>. USE DEF IInv
<1>1. CASE Register
  <2>1. ControlTypeOK'
    BY <1>1 DEF Register, ClientIdle, Stages, InitStages, ControlTypeOK, UpdateTypeOK, provisioning, updating, flags, history
  <2>2. Control'
    BY <1>1 DEF Register, ClientIdle, Control, SilentUntilStarted, NoticeFits, FlagsFollow, VerifiedStays, ClientBeforeHandler,
         AuthorizeHasClient, Started, AfterSetup, Over, provisioning, updating, flags, history
  <2>3. UNCHANGED list
    BY <1>1 DEF Register, ClientIdle, provisioning
  <2>. QED  BY <2>1, <2>2, <2>3, SameList DEF IInv
<1>2. CASE Reconnect
  <2>1. ControlTypeOK'
    BY <1>2 DEF Reconnect, ClientIdle, Stages, InitStages, ControlTypeOK, UpdateTypeOK, provisioning, updating, flags, history
  <2>2. Control'
    BY <1>2 DEF Reconnect, ClientIdle, Control, SilentUntilStarted, NoticeFits, FlagsFollow, VerifiedStays, ClientBeforeHandler,
         AuthorizeHasClient, Started, AfterSetup, Over, provisioning, updating, flags, history
  <2>3. UNCHANGED list
    BY <1>2 DEF Reconnect, ClientIdle, provisioning
  <2>. QED  BY <2>1, <2>2, <2>3, SameList DEF IInv
<1>3. CASE Unregister
  <2>1. ControlTypeOK'
    BY <1>3 DEF Unregister, ClientIdle, Stages, InitStages, ControlTypeOK, UpdateTypeOK, provisioning, updating, flags, history
  <2>2. Control'
    BY <1>3 DEF Unregister, ClientIdle, Control, SilentUntilStarted, NoticeFits, FlagsFollow, VerifiedStays, ClientBeforeHandler,
         AuthorizeHasClient, Started, AfterSetup, Over, provisioning, updating, flags, history
  <2>3. UNCHANGED list
    BY <1>3 DEF Unregister, ClientIdle, provisioning
  <2>. QED  BY <2>1, <2>2, <2>3, SameList DEF IInv
<1>4. CASE UnregisterExecuted
  <2>1. ControlTypeOK'
    BY <1>4 DEF UnregisterExecuted, Executable, ClientIdle, Close, Stages, InitStages, ControlTypeOK, UpdateTypeOK, provisioning, updating, flags, history
  <2>2. Control'
    BY <1>4 DEF UnregisterExecuted, Executable, ClientIdle, Close, Control, SilentUntilStarted, NoticeFits, FlagsFollow, VerifiedStays, ClientBeforeHandler,
         AuthorizeHasClient, Started, AfterSetup, Over, provisioning, updating, flags, history
  <2>3. UNCHANGED list
    BY <1>4 DEF UnregisterExecuted, Executable, ClientIdle, Close, provisioning
  <2>. QED  BY <2>1, <2>2, <2>3, SameList DEF IInv
<1>5. CASE FactoryReset
  <2>1. ControlTypeOK'
    BY <1>5 DEF FactoryReset, Executable, ClientIdle, Close, Stages, InitStages, ControlTypeOK, UpdateTypeOK, provisioning, updating, flags, history
  <2>2. Control'
    BY <1>5 DEF FactoryReset, Executable, ClientIdle, Close, Control, SilentUntilStarted, NoticeFits, FlagsFollow, VerifiedStays, ClientBeforeHandler,
         AuthorizeHasClient, Started, AfterSetup, Over, provisioning, updating, flags, history
  <2>3. UNCHANGED list
    BY <1>5 DEF FactoryReset, Executable, ClientIdle, Close, provisioning
  <2>. QED  BY <2>1, <2>2, <2>3, SameList DEF IInv
<1>6. CASE RequestUpdate
  <2>1. ControlTypeOK'
    BY <1>6 DEF RequestUpdate, ClientIdle, AskDownload, AskInstall, Ask, Requests, Grants, Stages, InitStages, ControlTypeOK, UpdateTypeOK, provisioning, updating, flags, history
  <2>2. Control'
    BY <1>6 DEF RequestUpdate, ClientIdle, AskDownload, AskInstall, Ask, Requests, Grants, Control, SilentUntilStarted, NoticeFits, FlagsFollow, VerifiedStays, ClientBeforeHandler,
         AuthorizeHasClient, Started, AfterSetup, Over, provisioning, updating, flags, history
  <2>3. UNCHANGED list
    BY <1>6 DEF RequestUpdate, ClientIdle, AskDownload, AskInstall, Ask, Requests, Grants, provisioning
  <2>. QED  BY <2>1, <2>2, <2>3, SameList DEF IInv
<1>7. CASE ClientRegistered
  <2>1. ControlTypeOK'
    <3>1. endpoint' \in BOOLEAN /\ _registered' \in BOOLEAN
      BY <1>7 DEF ClientRegistered, ControlTypeOK
    <3>2. crashed' \in BOOLEAN /\ notice' = "none"
      BY <1>7 DEF ClientRegistered
    <3>3. UNCHANGED <<build, faulty, credentials, stage, uiClient, handlers, update, _register_called,
                     _registered_cb, session, early, wiped>>
      BY <1>7 DEF ClientRegistered, provisioning, updating, flags, history
    <3>. QED  BY <3>1, <3>2, <3>3 DEF ControlTypeOK, UpdateTypeOK
  <2>2. Control'
    BY <1>7 DEF ClientRegistered, Control, SilentUntilStarted, NoticeFits, FlagsFollow, VerifiedStays, ClientBeforeHandler,
         AuthorizeHasClient, Started, AfterSetup, Over, provisioning, updating, flags, history
  <2>3. UNCHANGED list
    BY <1>7 DEF ClientRegistered, provisioning
  <2>. QED  BY <2>1, <2>2, <2>3, SameList DEF IInv
<1>8. CASE ClientUnregistered
  <2>1. ControlTypeOK'
    <3>1. early' \in BOOLEAN /\ notice' = "none"
      BY <1>8 DEF ClientUnregistered
    <3>2. _registered' \in BOOLEAN /\ _register_called' \in BOOLEAN
      BY <1>8 DEF ClientUnregistered
    <3>3. UNCHANGED <<build, faulty, credentials, stage, uiClient, handlers, update, _registered_cb,
                     endpoint, session, crashed, wiped>>
      BY <1>8 DEF ClientUnregistered, provisioning, updating, flags, history
    <3>. QED  BY <3>1, <3>2, <3>3 DEF ControlTypeOK, UpdateTypeOK
  <2>2. Control'
    BY <1>8 DEF ClientUnregistered, Control, SilentUntilStarted, NoticeFits, FlagsFollow, VerifiedStays, ClientBeforeHandler,
         AuthorizeHasClient, Started, AfterSetup, Over, provisioning, updating, flags, history
  <2>3. UNCHANGED list
    BY <1>8 DEF ClientUnregistered, provisioning
  <2>. QED  BY <2>1, <2>2, <2>3, SameList DEF IInv
<1>9. CASE Authorize
  <2>1. ControlTypeOK'
    BY <1>9 DEF Authorize, UpdateAuthorize, GrantOf, Requests, Grants, Stages, InitStages, ControlTypeOK, UpdateTypeOK, provisioning, updating, flags, history
  <2>2. Control'
    BY <1>9 DEF Authorize, UpdateAuthorize, GrantOf, Requests, Grants, Control, SilentUntilStarted, NoticeFits, FlagsFollow, VerifiedStays, ClientBeforeHandler,
         AuthorizeHasClient, Started, AfterSetup, Over, provisioning, updating, flags, history
  <2>3. UNCHANGED list
    BY <1>9 DEF Authorize, UpdateAuthorize, GrantOf, Requests, Grants, provisioning
  <2>. QED  BY <2>1, <2>2, <2>3, SameList DEF IInv
<1>10. CASE FactoryResetFails
  <2>1. ControlTypeOK'
    BY <1>10 DEF FactoryResetFails, HalfDeleted, Contents, Stages, InitStages, ControlTypeOK, UpdateTypeOK, provisioning, updating, flags, history
  <2>2. Control'
    BY <1>10 DEF FactoryResetFails, HalfDeleted, Contents, Control, SilentUntilStarted, NoticeFits, FlagsFollow, VerifiedStays, ClientBeforeHandler,
         AuthorizeHasClient, Started, AfterSetup, Over, provisioning, updating, flags, history
  <2>3. UNCHANGED list
    BY <1>10 DEF FactoryResetFails, HalfDeleted, Contents, provisioning
  <2>. QED  BY <2>1, <2>2, <2>3, SameList DEF IInv
<1>11. CASE FactoryResetDone
  <2>1. Restart /\ credentials' \in Contents
    BY <1>11 DEF FactoryResetDone, ControlTypeOK, Contents
  <2>. QED  BY <2>1, RestartKeeps
<1>. QED
  BY <1>1, <1>2, <1>3, <1>4, <1>5, <1>6, <1>7, <1>8, <1>9, <1>10, <1>11 DEF ClientStep, Answer

(* Every step keeps the invariant.                                            *)
LEMMA Step == IInv /\ [Next]_vars => IInv'
<1>. SUFFICES ASSUME IInv, [Next]_vars PROVE IInv'
  OBVIOUS
<1>1. CASE Running
  BY <1>1, MainKeeps, ClientKeeps DEF Running
<1>2. CASE Reset
  <2>1. Restart /\ credentials' \in Contents
    BY <1>2 DEF Reset, IInv, ControlTypeOK
  <2>. QED  BY <2>1, RestartKeeps DEF IInv
<1>3. CASE PowerLoss
  <2>1. Restart /\ credentials' \in Contents
    BY <1>3 DEF PowerLoss, HalfDeleted, HalfStored, Interrupted, IInv, ControlTypeOK, Contents
  <2>. QED  BY <2>1, RestartKeeps DEF IInv
<1>4. CASE Outside
  <2>. USE DEF IInv
  <2>1. ControlTypeOK'
    <3>1. credentials' \in Contents
      BY <1>4 DEF Outside, Inject, Heal, ControlTypeOK, Contents
    <3>2. faulty' \in BOOLEAN
      BY <1>4 DEF Outside, Inject, Heal, ControlTypeOK
    <3>3. UNCHANGED <<build, stage, uiClient, handlers, update, _registered, _register_called,
                     _registered_cb, endpoint, session, notice, crashed, early, wiped>>
      BY <1>4 DEF Outside, Inject, Heal, provisioning, updating, flags, history
    <3>. QED  BY <3>1, <3>2, <3>3 DEF ControlTypeOK, UpdateTypeOK
  <2>2. Control'
    BY <1>4 DEF Outside, Inject, Heal, Control, SilentUntilStarted, NoticeFits, FlagsFollow, VerifiedStays, ClientBeforeHandler,
         AuthorizeHasClient, Started, AfterSetup, Over, provisioning, updating, flags, history
  <2>. QED  BY <1>4, <2>1, <2>2, SameList DEF Outside
<1>5. CASE UNCHANGED vars
  <2>1. ControlTypeOK' /\ Control'
    BY <1>5 DEF vars, IInv, ControlTypeOK, UpdateTypeOK, provisioning, updating, flags, history,
         Control, SilentUntilStarted, NoticeFits, FlagsFollow, VerifiedStays, ClientBeforeHandler,
         AuthorizeHasClient, Started, AfterSetup, Over
  <2>. QED  BY <1>5, <2>1, SameList DEF vars, IInv
<1>. QED  BY <1>1, <1>2, <1>3, <1>4, <1>5 DEF Next

LEMMA Start == Init => IInv
<1>. SUFFICES ASSUME Init PROVE IInv
  OBVIOUS
<1>1. ControlTypeOK
  BY BuildsAssumption DEF Init, UpdateInit, Contents, Stages, ControlTypeOK, UpdateTypeOK, provisioning, updating, flags, history
<1>2. Control
  BY DEF Init, UpdateInit, Requests, Control, SilentUntilStarted, NoticeFits, FlagsFollow, VerifiedStays, ClientBeforeHandler,
         AuthorizeHasClient, Started, AfterSetup, Over, provisioning, updating, flags, history
<1>3. list = <<>>
  BY DEF Init
<1>4. Objects
  BY <1>3, EmptySeq DEF Objects, ListOfObjects, OneObjectPerNumber
<1>. QED  BY <1>1, <1>2, <1>4 DEF IInv

LEMMA Invariance == Spec => []IInv
BY Start, Step, PTL DEF Spec

-----------------------------------------------------------------------------
(* Every variable has its type in every reachable state.                      *)
THEOREM TypeCorrect == Spec => []TypeOK
<1>1. IInv => TypeOK
  BY ObjectsType DEF IInv, Objects, TypeOK
<1>. QED  BY <1>1, Invariance, PTL

(* No session with credentials that are not all there, but for one that comes *)
(* after a factory_reset that failed in this boot.                            *)
THEOREM Provisioned == Spec => []ConnectsProvisioned
<1>1. IInv => ConnectsProvisioned
  BY DEF IInv, ControlTypeOK, Stages, Control, SilentUntilStarted, VerifiedStays, Started, AfterSetup, Over,
         ConnectsProvisioned
<1>. QED  BY <1>1, Invariance, PTL

(* update_authorize finds the client in _client, however early it is called.  *)
THEOREM ClientForRequests == Spec => []AuthorizeHasClient
<1>1. IInv => AuthorizeHasClient
  BY DEF IInv, Control
<1>. QED  BY <1>1, Invariance, PTL

(* is_client_registered() tells the truth when no callback is under way.      *)
THEOREM RegisteredFollows == Spec => []RegisteredFollowsSession
<1>1. IInv => RegisteredFollowsSession
  BY DEF IInv, Control, FlagsFollow, Over, RegisteredFollowsSession
<1>. QED  BY <1>1, Invariance, PTL

(* Once call_register has returned, a registered client counts as called.     *)
THEOREM RegisteredCalled == Spec => []RegisteredOnlyIfCalled
<1>1. IInv => RegisteredOnlyIfCalled
  BY DEF IInv, Control, FlagsFollow, AfterSetup, RegisteredOnlyIfCalled
<1>. QED  BY <1>1, Invariance, PTL

(* After the end of a session the application may call again, unless the end  *)
(* has overtaken call_register.                                               *)
THEOREM CallableAgain == Spec => []CallableAfterTheEnd
<1>1. IInv => CallableAfterTheEnd
  BY DEF IInv, Control, FlagsFollow, AfterSetup, Over, CallableAfterTheEnd
<1>. QED  BY <1>1, Invariance, PTL

(* add_resource never lists two objects with one number.                      *)
THEOREM OneObject == Spec => []OneObjectPerNumber
<1>1. IInv => OneObjectPerNumber
  BY DEF IInv, Objects
<1>. QED  BY <1>1, Invariance, PTL

-----------------------------------------------------------------------------
(* The paths.  What a step does to the list.                                  *)
LEMMA ListStep ==
    ASSUME [Next]_vars
    PROVE  \/ UNCHANGED list
           \/ list' = <<>> /\ stage' = "off"
           \/ \E call \in AllCalls : Returned(call)
<1>1. CASE Running
  <2>1. CASE Boot \/ OnRegistered \/ CallRegister \/ Connect \/ SetupReturns \/ SetUiClient \/ SetHandlers
    BY <2>1 DEF Boot, OnRegistered, CallRegister, Connect, SetupReturns, SetUiClient, SetHandlers
  <2>2. CASE InitClient
    BY <2>2 DEF InitClient
  <2>3. CASE AppAdd
    BY <1>1, <2>3 DEF Running, AppAdd, Add, AllCalls, Returned
  <2>4. CASE AddObjects
    BY <1>1, <2>4 DEF Running, AddObjects, Add, AllCalls, Returned
  <2>5. CASE Register \/ Reconnect \/ Unregister \/ UnregisterExecuted \/ FactoryReset \/ RequestUpdate
    BY <2>5 DEF Register, Reconnect, Unregister, UnregisterExecuted, FactoryReset, RequestUpdate
  <2>6. CASE ClientRegistered \/ ClientUnregistered \/ Authorize \/ FactoryResetFails
    BY <2>6 DEF ClientRegistered, ClientUnregistered, Authorize, FactoryResetFails
  <2>7. CASE FactoryResetDone
    BY <2>7 DEF FactoryResetDone, Restart
  <2>. QED
    BY <1>1, <2>1, <2>2, <2>3, <2>4, <2>5, <2>6, <2>7 DEF Running, MainStep, ClientStep, Answer
<1>2. CASE Reset \/ PowerLoss
  BY <1>2 DEF Reset, PowerLoss, Restart
<1>3. CASE Outside
  BY <1>3 DEF Outside
<1>4. CASE UNCHANGED vars
  BY <1>4 DEF vars
<1>. QED  BY <1>1, <1>2, <1>3, <1>4 DEF Next

(* A call that has returned is no duplicate, and keeps its promise.           *)
LEMMA ReturnedAdds ==
    ASSUME IInv, NEW call \in AllCalls, Returned(call)
    PROVE  /\ PathOf(call) \notin DOMAIN Tree
           /\ Tree' = [p \in DOMAIN Tree \cup {PathOf(call)} |->
                          IF p = PathOf(call) THEN Promised(call) ELSE Tree[p]]
<1>1. call \in Call
  BY CallsAssumption, ExecutedIsCall DEF AllCalls
<1>2. ~Duplicate(call) /\ AddResource(call)
  BY DEF Returned, Add
<1>. QED  BY <1>1, <1>2, AddGrowsTree, NewResourceIsPromised DEF IInv, Objects

LEMMA ReturnedLeaves ==
    ASSUME IInv, NEW call \in AllCalls, Returned(call)
    PROVE  /\ PathOf(call) \in DOMAIN Tree' /\ Tree'[PathOf(call)] = Promised(call)
           /\ \A p \in DOMAIN Tree : p \in DOMAIN Tree' /\ Tree'[p] = Tree[p]
<1>. DEFINE new == [p \in DOMAIN Tree \cup {PathOf(call)} |->
                      IF p = PathOf(call) THEN Promised(call) ELSE Tree[p]]
<1>1. /\ PathOf(call) \in DOMAIN new /\ new[PathOf(call)] = Promised(call)
      /\ \A p \in DOMAIN Tree : p # PathOf(call) => p \in DOMAIN new /\ new[p] = Tree[p]
  OBVIOUS
<1>2. PathOf(call) \notin DOMAIN Tree /\ Tree' = new
  BY ReturnedAdds
<1>. HIDE DEF new
<1>. QED  BY <1>1, <1>2

LEMMA EmptyTree == list' = <<>> => DOMAIN Tree' = {}
<1>. SUFFICES ASSUME list' = <<>> PROVE DOMAIN Tree' = {}
  OBVIOUS
<1>1. PathsIn(list') = {}
  BY EmptySeq DEF PathsIn
<1>. QED  BY <1>1, TreeOfList

(* Whatever calls the application makes, and in whatever order, each adds the *)
(* path of its own numbers with the operations and the handler resource.h     *)
(* promises; nothing else but a restart changes what the server is shown.     *)
THEOREM CallsAddTheirPaths == Spec => EveryCallAddsItsPath
<1>1. IInv => CallAddsItsPath
  BY ReturnedAdds DEF CallAddsItsPath, Registry!Add
<1>2. [Next]_vars => OnlyCallsAdd
  <2>. SUFFICES ASSUME [Next]_vars PROVE OnlyCallsAdd
    OBVIOUS
  <2>1. CASE UNCHANGED list
    BY <2>1, TreeOfList DEF OnlyCallsAdd
  <2>2. CASE list' = <<>> /\ stage' = "off"
    BY <2>2, EmptyTree DEF OnlyCallsAdd
  <2>3. CASE \E call \in AllCalls : Returned(call)
    BY <2>3 DEF OnlyCallsAdd
  <2>. QED  BY <2>1, <2>2, <2>3, ListStep
<1>3. IInv /\ [Next]_vars => [CallAddsItsPath /\ OnlyCallsAdd]_vars
  BY <1>1, <1>2
<1>. QED  BY <1>3, Invariance, PTL DEF Spec, EveryCallAddsItsPath

-----------------------------------------------------------------------------
(* The two resources of add_objects, from the moment its calls have returned. *)
Published == Started \cup {"published", "connect", "refused"}

HasExecutable(number) ==
    /\ <<5000, 0, number>> \in DOMAIN Tree
    /\ Tree[<<5000, 0, number>>].handler = "execute"

ResetResources ==
    /\ stage \in Published \cup {"add_factory_reset"} => HasExecutable(1)
    /\ stage \in Published => HasExecutable(2)

LEMMA ResetResourcesStay ==
    ASSUME ResetResources, UNCHANGED list,
           \/ stage' = stage
           \/ stage \in Published /\ stage' \in Published
           \/ stage' \notin Published \cup {"add_factory_reset"}
    PROVE  ResetResources'
<1>1. Tree' = Tree
  BY TreeOfList
<1>2. "add_factory_reset" \notin Published
  BY DEF Published, Started, AfterSetup
<1>. QED  BY <1>1, <1>2 DEF ResetResources, HasExecutable

LEMMA ResetResourcesAdded ==
    ASSUME IInv, ResetResources, AddObjects, ~crashed
    PROVE  ResetResources'
<1>. DEFINE Path(number) == <<5000, 0, number>>
<1>1. ASSUME NEW number \in {1, 2}
      PROVE  /\ PathOf(Executed(number)) = Path(number)
             /\ Promised(Executed(number)).handler = "execute"
  BY DEF PathOf, Promised, Executed, Fits
<1>2. CASE UNCHANGED <<list, stage>>
  BY <1>2, ResetResourcesStay
<1>3. ASSUME stage = "ready", stage' = "add_factory_reset", Returned(Executed(1))
      PROVE  ResetResources'
  <2>1. Path(1) \in DOMAIN Tree' /\ Tree'[Path(1)] = Promised(Executed(1))
    BY <1>1, <1>3, ReturnedLeaves DEF AllCalls
  <2>2. stage' \notin Published
    BY <1>3 DEF Published, Started, AfterSetup
  <2>. QED  BY <1>1, <2>1, <2>2 DEF ResetResources, HasExecutable
<1>4. ASSUME stage = "add_factory_reset", Returned(Executed(2))
      PROVE  ResetResources'
  <2>1. Path(2) \in DOMAIN Tree' /\ Tree'[Path(2)] = Promised(Executed(2))
    BY <1>1, <1>4, ReturnedLeaves DEF AllCalls
  <2>2. HasExecutable(1)
    BY <1>4 DEF ResetResources
  <2>3. Path(1) \in DOMAIN Tree' /\ Tree'[Path(1)] = Tree[Path(1)]
    BY <1>4, <2>2, ReturnedLeaves DEF AllCalls, HasExecutable
  <2>. QED  BY <1>1, <2>1, <2>2, <2>3 DEF ResetResources, HasExecutable
<1>. QED  BY <1>2, <1>3, <1>4 DEF AddObjects, Add, Returned

LEMMA ResetResourcesStep ==
    ASSUME IInv, ResetResources, [Next]_vars
    PROVE  ResetResources'
<1>. USE DEF Published, Started, AfterSetup
<1>1. CASE Running /\ ~AddObjects /\ ~FactoryResetDone
  <2>1. CASE Boot \/ OnRegistered \/ CallRegister \/ Connect \/ SetupReturns \/ SetUiClient \/ SetHandlers
    BY <2>1, ResetResourcesStay
    DEF Boot, OnRegistered, CallRegister, Connect, SetupReturns, SetUiClient, SetHandlers, provisioning
  <2>2. CASE InitClient
    BY <2>2, ProvisionKeeps, ResetResourcesStay DEF InitClient, IInv
  <2>3. CASE AppAdd
    BY <2>3 DEF AppAdd, Add, ResetResources
  <2>4. CASE Register \/ Reconnect \/ Unregister \/ UnregisterExecuted \/ FactoryReset \/ RequestUpdate
    BY <2>4, ResetResourcesStay
    DEF Register, Reconnect, Unregister, UnregisterExecuted, FactoryReset, RequestUpdate, provisioning
  <2>5. CASE ClientRegistered \/ ClientUnregistered \/ Authorize \/ FactoryResetFails
    BY <2>5, ResetResourcesStay
    DEF ClientRegistered, ClientUnregistered, Authorize, FactoryResetFails, provisioning
  <2>. QED
    BY <1>1, <2>1, <2>2, <2>3, <2>4, <2>5 DEF Running, MainStep, ClientStep, Answer
<1>2. CASE Running /\ AddObjects
  BY <1>2, ResetResourcesAdded DEF Running
<1>3. CASE FactoryResetDone \/ Reset \/ PowerLoss
  BY <1>3 DEF FactoryResetDone, Reset, PowerLoss, Restart, ResetResources
<1>4. CASE Outside
  <2>1. UNCHANGED <<list, stage>>
    BY <1>4 DEF Outside, Inject, Heal
  <2>. QED  BY <2>1, ResetResourcesStay
<1>5. CASE UNCHANGED vars
  BY <1>5, ResetResourcesStay DEF vars, provisioning
<1>. QED  BY <1>1, <1>2, <1>3, <1>4, <1>5 DEF Next

(* Whatever paths the application has added, a device in session can be       *)
(* unregistered and reset by the server.                                      *)
THEOREM ServerResets == Spec => []ServerCanReset
<1>1. Init => ResetResources
  BY DEF Init, ResetResources, Published, Started, AfterSetup
<1>2. IInv /\ ResetResources /\ [Next]_vars => ResetResources'
  BY ResetResourcesStep
<1>3. IInv /\ ResetResources => ServerCanReset
  BY DEF IInv, Control, SilentUntilStarted, Over, ResetResources, HasExecutable, Published, ServerCanReset
<1>. QED  BY <1>1, <1>2, <1>3, Invariance, PTL DEF Spec

-----------------------------------------------------------------------------
(* What an application must do for the client never to use a NULL: set its    *)
(* callback before add_objects, and add no path twice, nor the two that       *)
(* add_objects adds.                                                          *)
Reserved == {PathOf(Executed(1)), PathOf(Executed(2))}

Careful ==
    /\ stage = "ready" /\ stage' = "add_factory_reset" => _registered_cb
    /\ \A call \in Calls :
         Add(call, "ready", "ready") => ~Duplicate(call) /\ PathOf(call) \notin Reserved

CarefulSpec == Init /\ [][Next /\ Careful]_vars

NeverCrashed == ~crashed

\* The stages before add_objects and from its first call on.
BeforeAddObjects == {"off"} \cup (InitStages \ {"failed"})
SinceAddObjects == Started \cup {"add_factory_reset", "published", "connect", "refused"}

CallbackInTime == stage \in SinceAddObjects => _registered_cb
ReservedAreFree ==
    /\ stage \in BeforeAddObjects => Reserved \cap DOMAIN Tree = {}
    /\ stage = "add_factory_reset" => PathOf(Executed(2)) \notin DOMAIN Tree

CInv == NeverCrashed /\ CallbackInTime /\ ReservedAreFree

(* A call is a duplicate only when its path is there.                         *)
LEMMA DuplicateIsThere ==
    ASSUME Objects, NEW call \in Call, Duplicate(call)
    PROVE  PathOf(call) \in DOMAIN Tree
<1>1. /\ First(call.object) \in 1..Len(list) /\ list[First(call.object)].id = call.object
      /\ Key(call) \in DOMAIN list[First(call.object)].resources
  BY FoundIsFirst DEF Objects, Duplicate
<1>2. PathAt(list, First(call.object), Key(call)) = PathOf(call)
  BY <1>1 DEF PathAt, Key, PathOf
<1>3. PathOf(call) \in PathsIn(list)
  BY <1>1, <1>2 DEF PathsIn
<1>. QED  BY <1>3, TreeOfList

LEMMA ReservedDiffer == PathOf(Executed(1)) # PathOf(Executed(2))
BY DEF PathOf, Executed

(* A call of add_resource whose path is free adds it and crashes nothing.     *)
LEMMA FreePathIsAdded ==
    ASSUME IInv, NEW call \in Call, NEW from, NEW to,
           PathOf(call) \notin DOMAIN Tree, Add(call, from, to)
    PROVE  /\ DOMAIN Tree' = DOMAIN Tree \cup {PathOf(call)}
           /\ stage = from /\ stage' = to /\ UNCHANGED <<crashed, _registered_cb>>
<1>1. ~Duplicate(call)
  BY DuplicateIsThere DEF IInv
<1>2. AddResource(call) /\ stage = from /\ stage' = to /\ UNCHANGED <<crashed, _registered_cb>>
  BY <1>1 DEF Add, flags
<1>. QED  BY <1>1, <1>2, AddGrowsTree DEF IInv, Objects

(* A restart empties the list and forgets the crash.                          *)
LEMMA RestartIsCareful == ASSUME Restart PROVE CInv'
<1>1. list' = <<>> /\ stage' = "off" /\ ~crashed'
  BY DEF Restart
<1>2. DOMAIN Tree' = {}
  BY <1>1, EmptyTree
<1>. QED
  BY <1>1, <1>2 DEF CInv, NeverCrashed, CallbackInTime, ReservedAreFree, SinceAddObjects,
                    Started, AfterSetup

(* A step that leaves the list alone, sets no callback back and crashes       *)
(* nothing is careful if it leads to no later stage than add_objects has.     *)
LEMMA QuietStep ==
    ASSUME CInv, UNCHANGED <<list, crashed>>, _registered_cb' = _registered_cb \/ _registered_cb',
           \/ stage' = stage
           \/ stage \in BeforeAddObjects /\ stage' \in BeforeAddObjects \cup {"failed"}
           \/ stage \in SinceAddObjects /\ stage' \in (SinceAddObjects \cup {"failed"}) \ {"add_factory_reset"}
    PROVE  CInv'
<1>1. Tree' = Tree
  BY TreeOfList
<1>2. "failed" \notin BeforeAddObjects /\ "failed" \notin SinceAddObjects
      /\ BeforeAddObjects \cap SinceAddObjects = {} /\ "add_factory_reset" \notin BeforeAddObjects
  BY DEF BeforeAddObjects, SinceAddObjects, InitStages, Started, AfterSetup
<1>3. ReservedAreFree'
  BY <1>1, <1>2 DEF CInv, ReservedAreFree, Reserved, PathOf, Executed
<1>. QED  BY <1>2, <1>3 DEF CInv, NeverCrashed, CallbackInTime

LEMMA CarefulStep == ASSUME IInv, CInv, Next, Careful PROVE CInv'
<1>. USE DEF BeforeAddObjects, SinceAddObjects, InitStages, Started, AfterSetup
<1>1. CASE Boot \/ OnRegistered \/ CallRegister \/ Connect \/ SetupReturns \/ SetUiClient \/ SetHandlers
  <2>1. UNCHANGED <<list, crashed>> /\ (_registered_cb' = _registered_cb \/ _registered_cb')
    BY <1>1 DEF Boot, OnRegistered, CallRegister, Connect, SetupReturns, SetUiClient, SetHandlers, flags
  <2>2. \/ stage' = stage
        \/ stage \in BeforeAddObjects /\ stage' \in BeforeAddObjects \cup {"failed"}
        \/ stage \in SinceAddObjects /\ stage' \in (SinceAddObjects \cup {"failed"}) \ {"add_factory_reset"}
    BY <1>1 DEF Boot, OnRegistered, CallRegister, Connect, SetupReturns, SetUiClient, SetHandlers,
                provisioning
  <2>. QED  BY <2>1, <2>2, QuietStep
<1>2. CASE InitClient
  <2>1. UNCHANGED <<list, crashed, _registered_cb>>
    BY <1>2 DEF InitClient, flags
  <2>2. stage \in BeforeAddObjects /\ stage' \in BeforeAddObjects \cup {"failed"}
    BY <1>2, ProvisionKeeps DEF InitClient, IInv
  <2>. QED  BY <2>1, <2>2, QuietStep
<1>3. CASE AppAdd
  <2>1. PICK call \in Calls : Add(call, "ready", "ready")
    BY <1>3 DEF AppAdd
  <2>2. call \in Call /\ ~Duplicate(call) /\ PathOf(call) \notin Reserved
    BY <2>1, CallsAssumption DEF Careful
  <2>3. AddResource(call) /\ stage = "ready" /\ UNCHANGED <<stage, crashed, _registered_cb>>
    BY <2>1, <2>2 DEF Add, flags
  <2>4. DOMAIN Tree' = DOMAIN Tree \cup {PathOf(call)}
    BY <2>2, <2>3, AddGrowsTree DEF IInv, Objects
  <2>. QED  BY <2>2, <2>3, <2>4 DEF CInv, NeverCrashed, CallbackInTime, ReservedAreFree
<1>4. CASE Add(Executed(1), "ready", "add_factory_reset")
  <2>1. stage = "ready"
    BY <1>4 DEF Add
  <2>2. PathOf(Executed(1)) \notin DOMAIN Tree /\ PathOf(Executed(2)) \notin DOMAIN Tree
    BY <2>1 DEF CInv, ReservedAreFree, Reserved
  <2>3. /\ DOMAIN Tree' = DOMAIN Tree \cup {PathOf(Executed(1))}
        /\ stage' = "add_factory_reset" /\ UNCHANGED <<crashed, _registered_cb>>
    BY <1>4, <2>2, ExecutedIsCall, FreePathIsAdded
  <2>4. _registered_cb
    BY <2>1, <2>3 DEF Careful
  <2>5. PathOf(Executed(2)) \notin DOMAIN Tree'
    BY <2>2, <2>3, ReservedDiffer
  <2>. QED  BY <2>3, <2>4, <2>5 DEF CInv, NeverCrashed, CallbackInTime, ReservedAreFree
<1>5. CASE Add(Executed(2), "add_factory_reset", "published")
  <2>1. stage = "add_factory_reset"
    BY <1>5 DEF Add
  <2>2. PathOf(Executed(2)) \notin DOMAIN Tree
    BY <2>1 DEF CInv, ReservedAreFree
  <2>3. stage' = "published" /\ UNCHANGED <<crashed, _registered_cb>>
    BY <1>5, <2>2, ExecutedIsCall, FreePathIsAdded
  <2>. QED  BY <2>1, <2>3 DEF CInv, NeverCrashed, CallbackInTime, ReservedAreFree
<1>6. CASE Register \/ Reconnect \/ Unregister \/ UnregisterExecuted \/ FactoryReset \/ RequestUpdate
  <2>1. UNCHANGED <<list, crashed, _registered_cb, stage>>
    BY <1>6 DEF Register, Reconnect, Unregister, UnregisterExecuted, FactoryReset, RequestUpdate,
                flags, provisioning
  <2>. QED  BY <2>1, QuietStep
<1>7. CASE ClientUnregistered \/ Authorize \/ FactoryResetFails
  <2>1. UNCHANGED <<list, crashed, _registered_cb, stage>>
    BY <1>7 DEF ClientUnregistered, Authorize, FactoryResetFails, flags, provisioning
  <2>. QED  BY <2>1, QuietStep
<1>8. CASE ClientRegistered
  <2>1. notice = "registered"
    BY <1>8 DEF ClientRegistered
  <2>2. stage \in Started
    BY <2>1 DEF IInv, Control, SilentUntilStarted, Over
  <2>3. _registered_cb
    BY <2>2 DEF CInv, CallbackInTime
  <2>4. UNCHANGED <<list, _registered_cb, stage>> /\ ~crashed'
    BY <1>8, <2>3 DEF ClientRegistered, provisioning
  <2>5. UNCHANGED crashed
    BY <2>4, <1>8 DEF CInv, NeverCrashed, IInv, ControlTypeOK, ClientRegistered
  <2>. QED  BY <2>4, <2>5, QuietStep
<1>9. CASE FactoryResetDone \/ Reset \/ PowerLoss
  BY <1>9, RestartIsCareful DEF FactoryResetDone, Reset, PowerLoss
<1>10. CASE Outside
  <2>1. UNCHANGED <<list, crashed, _registered_cb, stage>>
    BY <1>10 DEF Outside, Inject, Heal, flags
  <2>. QED  BY <2>1, QuietStep
<1>. QED
  BY <1>1, <1>2, <1>3, <1>4, <1>5, <1>6, <1>7, <1>8, <1>9, <1>10
  DEF Next, Running, MainStep, AddObjects, ClientStep, Answer

(* A careful application never makes the client use a NULL: neither the       *)
(* callback it had not set nor the resource that create_dynamic_resource      *)
(* refused (client_registered, add_resource, add_objects).                    *)
THEOREM CarefulNeverCrashes == CarefulSpec => []NeverCrashed
<1>1. CarefulSpec => Spec
  BY PTL DEF CarefulSpec, Spec
<1>2. Init => CInv
  <2>. SUFFICES ASSUME Init PROVE CInv
    OBVIOUS
  <2>1. list = <<>> /\ stage = "off" /\ ~crashed
    BY DEF Init
  <2>2. DOMAIN Tree = {}
    <3>1. PathsIn(list) = {}
      BY <2>1, EmptySeq DEF PathsIn
    <3>. QED  BY <3>1, TreeOfList
  <2>. QED
    BY <2>1, <2>2 DEF CInv, NeverCrashed, CallbackInTime, ReservedAreFree, SinceAddObjects,
                      Started, AfterSetup
<1>3. IInv /\ CInv /\ UNCHANGED vars => CInv'
  BY QuietStep DEF vars, flags, provisioning
<1>4. IInv /\ CInv /\ [Next /\ Careful]_vars => CInv'
  BY <1>3, CarefulStep
<1>5. CInv => NeverCrashed
  BY DEF CInv
<1>. QED  BY <1>1, <1>2, <1>4, <1>5, Invariance, PTL DEF CarefulSpec
=============================================================================
