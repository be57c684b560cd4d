--------------------------- MODULE SessionProofs ---------------------------
(* Safety of Session for every set of builds without RESET_FIRMWARE.          *)
EXTENDS Session, TLAPS

-----------------------------------------------------------------------------
(* The inductive invariant.                                                   *)

Started == {"ui", "authorize", "progress", "up"}   \* the connection is started

\* The client exists from the start of setup() to the next restart.
ClientSinceSetup == client <=> stage \notin {"off", "app"}

\* Nothing comes from the network before the connection is started.
SilentUntilStarted ==
    stage \notin Started => session = "closed" /\ notice = "none" /\ update = "none"

\* What the verification has found stays so until the power is lost.
VerifiedStays == stage \in Started \cup {"ready", "connect"} => credentials = "complete"

\* The handler of requests and a request that waits for it come after the
\* client it grants them through.
ClientBeforeHandler ==
    stage \in {"authorize", "progress", "up"} \/ "authorize" \in handlers
      \/ update \in Requests => uiClient

IInv == /\ TypeOK
        /\ ClientSinceSetup
        /\ SilentUntilStarted
        /\ VerifiedStays
        /\ ClientBeforeHandler
        /\ AuthorizeHasClient

-----------------------------------------------------------------------------
(* The steps of provisioning keep the types and lead to the credentials that  *)
(* the rest of init relies on.                                                *)
LEMMA ProvisionKeeps ==
    ASSUME TypeOK, FccInit \/ ResetStorage \/ DeveloperFlow \/ VerifyConfigured
    PROVE  /\ build' = build /\ faulty' \in BOOLEAN /\ credentials' \in Contents
           /\ stage \in InitStages
           /\ stage' \in {"reset", "developer", "verify", "ready", "failed"}
           /\ stage' = "ready" => credentials' = "complete"
<1>1. ~build.resetFirmware
  BY FirmwareAssumption DEF TypeOK
<1>2. AfterReset \in {"developer", "verify"} /\ AfterInit \in {"reset", "developer", "verify"}
  BY <1>1 DEF AfterInit, AfterReset, AfterFirmware
<1>3. CASE FccInit
  BY <1>2, <1>3 DEF FccInit, TypeOK, InitStages
<1>4. CASE ResetStorage
  BY <1>2, <1>4 DEF ResetStorage, HalfDeleted, TypeOK, InitStages, Contents
<1>5. CASE DeveloperFlow
  BY <1>5 DEF DeveloperFlow, HalfStored, TypeOK, InitStages, Contents
<1>6. CASE VerifyConfigured
  BY <1>6 DEF VerifyConfigured, TypeOK, InitStages
<1>. QED  BY <1>3, <1>4, <1>5, <1>6

(* Where the device is off, everything but storage is in its initial state.   *)
LEMMA RestartKeeps ==
    ASSUME TypeOK, Restart, credentials' \in Contents
    PROVE  IInv'
BY DEF Restart, UpdateReset, IInv, TypeOK, UpdateTypeOK, ClientSinceSetup, SilentUntilStarted,
       VerifiedStays, ClientBeforeHandler, AuthorizeHasClient, Started, Stages, Handlers, Requests

-----------------------------------------------------------------------------
(* Every step keeps the invariant.                                            *)
LEMMA Step == IInv /\ [Next]_vars => IInv'
<1>. SUFFICES ASSUME IInv, [Next]_vars PROVE IInv'
  OBVIOUS
<1>. USE DEF IInv, TypeOK, UpdateTypeOK, ClientSinceSetup, SilentUntilStarted, VerifiedStays,
             ClientBeforeHandler, AuthorizeHasClient, Started, Stages, InitStages,
             OutsideSetup, Notices, Handlers, Requests, Grants, Contents, provisioning,
             updating, callbacks
<1>1. CASE Boot
  BY <1>1 DEF Boot
<1>2. CASE OnRegistered
  BY <1>2 DEF OnRegistered
<1>3. CASE OnUnregistered
  BY <1>3 DEF OnUnregistered
<1>4. CASE Setup
  BY <1>4 DEF Setup
<1>5. CASE Provision
  BY <1>5, ProvisionKeeps DEF Provision
<1>6. CASE Publish
  BY <1>6 DEF Publish
<1>7. CASE Connect
  BY <1>7 DEF Connect
<1>8. CASE SetUiClient
  BY <1>8 DEF SetUiClient, UpdateUiSetCloudClient
<1>9. CASE SetHandlers
  <2>1. uiClient' = uiClient /\ update' = update /\ uiClient
    BY <1>9 DEF SetHandlers, SetHandler
  <2>2. handlers' \subseteq Handlers
    BY <1>9 DEF SetHandlers, SetHandler
  <2>3. stage \in Started /\ stage' \in {"progress", "up"}
    BY <1>9 DEF SetHandlers
  <2>4. UNCHANGED <<build, faulty, credentials, client, callbacks, session, notice, endpoint,
                    announced>>
    BY <1>9 DEF SetHandlers
  <2>. QED  BY <2>1, <2>2, <2>3, <2>4
<1>10. CASE Register
  BY <1>10 DEF Register, ClientIdle
<1>11. CASE Reconnect
  BY <1>11 DEF Reconnect, ClientIdle
<1>12. CASE Unregister
  BY <1>12 DEF Unregister, ClientIdle
<1>13. CASE ClientRegistered
  <2>1. TypeOK'
    BY <1>13 DEF ClientRegistered, FetchEndpoint
  <2>2. (ClientSinceSetup /\ SilentUntilStarted)'
    BY <1>13 DEF ClientRegistered, FetchEndpoint
  <2>3. (VerifiedStays /\ ClientBeforeHandler /\ AuthorizeHasClient)'
    BY <1>13 DEF ClientRegistered, FetchEndpoint
  <2>. QED  BY <2>1, <2>2, <2>3
<1>14. CASE ClientUnregistered
  BY <1>14 DEF ClientUnregistered
<1>15. CASE RequestUpdate
  <2>1. TypeOK'
    BY <1>15 DEF RequestUpdate, ClientIdle, AskDownload, AskInstall, Ask
  <2>2. (ClientSinceSetup /\ SilentUntilStarted)'
    BY <1>15 DEF RequestUpdate, ClientIdle, AskDownload, AskInstall, Ask
  <2>3. (VerifiedStays /\ ClientBeforeHandler /\ AuthorizeHasClient)'
    BY <1>15 DEF RequestUpdate, ClientIdle, AskDownload, AskInstall, Ask
  <2>. QED  BY <2>1, <2>2, <2>3
<1>16. CASE Authorize
  BY <1>16 DEF Authorize, UpdateAuthorize, GrantOf
<1>17. CASE Reset
  BY <1>17, RestartKeeps DEF Reset
<1>18. CASE PowerLoss
  BY <1>18, RestartKeeps DEF PowerLoss, Interrupted, HalfDeleted, HalfStored
<1>19. CASE Outside
  <2>1. CASE Inject
    BY <1>19, <2>1 DEF Outside, Inject
  <2>2. CASE Heal
    <3>1. TypeOK'
      <4>1. faulty' \in BOOLEAN
        BY <2>2 DEF Heal
      <4>2. UNCHANGED <<build, credentials, stage, updating, client, callbacks, session, notice,
                        endpoint, announced>>
        BY <1>19, <2>2 DEF Outside, Heal
      <4>. QED  BY <4>1, <4>2
    <3>2. (ClientSinceSetup /\ SilentUntilStarted)'
      BY <1>19, <2>2 DEF Outside, Heal
    <3>3. (VerifiedStays /\ ClientBeforeHandler /\ AuthorizeHasClient)'
      BY <1>19, <2>2 DEF Outside, Heal
    <3>. QED  BY <3>1, <3>2, <3>3
  <2>. QED  BY <1>19, <2>1, <2>2 DEF Outside, Environment
<1>20. CASE UNCHANGED vars
  BY <1>20 DEF vars
<1>. QED
  BY <1>1, <1>2, <1>3, <1>4, <1>5, <1>6, <1>7, <1>8, <1>9, <1>10, <1>11, <1>12,
     <1>13, <1>14, <1>15, <1>16, <1>17, <1>18, <1>19, <1>20
  DEF Next, MainStep, InitStep, ClientStep, Answer

LEMMA Invariance == Spec => []IInv
<1>1. Init => IInv
  BY DEF Init, UpdateInit, IInv, TypeOK, UpdateTypeOK, ClientSinceSetup, SilentUntilStarted,
         VerifiedStays, ClientBeforeHandler, AuthorizeHasClient, Started, Stages, Contents,
         Handlers, Requests
<1>. QED  BY <1>1, Step, PTL DEF Spec

-----------------------------------------------------------------------------
(* The types are kept.                                                        *)
THEOREM TypeCorrect == Spec => []TypeOK
BY Invariance, PTL DEF IInv

(* No session is opened with credentials that are not all there.              *)
THEOREM Provisioned == Spec => []ConnectsProvisioned
<1>1. IInv => ConnectsProvisioned
  BY DEF IInv, SilentUntilStarted, VerifiedStays, ConnectsProvisioned
<1>. QED  BY <1>1, Invariance, PTL

(* update_authorize finds its client, although the connection comes first.    *)
THEOREM ClientForRequests == Spec => []AuthorizeHasClient
BY Invariance, PTL DEF IInv

(* After a failed setup() only a restart leads on.                            *)
THEOREM FailureLasts == Spec => FailureNeedsRestart
<1>1. IInv /\ [Next]_vars => [stage = "failed" => session' = "closed" /\ stage' \in {"failed", "off"}]_vars
  <2>. SUFFICES ASSUME IInv, Next, stage = "failed"
                PROVE  session' = "closed" /\ stage' \in {"failed", "off"}
    OBVIOUS
  <2>1. client /\ session = "closed" /\ notice = "none" /\ update = "none"
    BY DEF IInv, ClientSinceSetup, SilentUntilStarted, Started
  <2>2. ~MainStep \/ OnRegistered \/ OnUnregistered
    BY <2>1 DEF MainStep, Boot, Setup, InitStep, Provision, FccInit, ResetStorage, DeveloperFlow,
                VerifyConfigured, Publish, Connect, SetUiClient, SetHandlers
  <2>3. ~ClientStep
    BY <2>1 DEF ClientStep, Register, Reconnect, Unregister, RequestUpdate, Answer,
                ClientRegistered, ClientUnregistered, Authorize, UpdateAuthorize, Requests
  <2>4. CASE OnRegistered \/ OnUnregistered
    BY <2>1, <2>4 DEF OnRegistered, OnUnregistered, provisioning
  <2>5. CASE Reset \/ PowerLoss
    BY <2>5 DEF Reset, PowerLoss, Restart
  <2>6. CASE Outside
    BY <2>1, <2>6 DEF Outside, Environment, Inject, Heal
  <2>. QED  BY <2>2, <2>3, <2>4, <2>5, <2>6 DEF Next
<1>. QED  BY <1>1, Invariance, PTL DEF Spec, FailureNeedsRestart

-----------------------------------------------------------------------------
(* What an application gains that sets its callback before it calls setup():  *)
(* it is told of every registration, unlike one that does as README.md shows. *)
CallbackFirst == Setup => registeredCallback
CarefulSpec == Init /\ [][Next /\ CallbackFirst]_vars

CallbackOfClient == client => registeredCallback
ClosedWhenUnregistered == notice = "unregistered" => session = "closed"
KnowsInv == CallbackOfClient /\ ClosedWhenUnregistered /\ RegisteredAppKnows

LEMMA KnowsStep ==
    ASSUME IInv, KnowsInv, Next /\ CallbackFirst PROVE KnowsInv'
<1>. USE DEF KnowsInv, CallbackOfClient, ClosedWhenUnregistered, RegisteredAppKnows
<1>1. session # "closed" \/ notice # "none" => client
  BY DEF IInv, ClientSinceSetup, SilentUntilStarted, Started
<1>2. CASE Boot \/ OnRegistered \/ OnUnregistered
  BY <1>1, <1>2 DEF Boot, OnRegistered, OnUnregistered, callbacks
<1>3. CASE Setup
  <2>1. registeredCallback
    BY <1>3 DEF CallbackFirst
  <2>. QED  BY <1>3, <2>1 DEF Setup, callbacks
<1>4. CASE Provision \/ Publish \/ SetUiClient \/ SetHandlers
  <2>1. UNCHANGED <<client, registeredCallback, session, notice, announced>>
    BY <1>4 DEF Provision, Publish, SetUiClient, SetHandlers, callbacks
  <2>. QED  BY <2>1
<1>5. CASE Connect
  <2>1. notice = "none"
    BY <1>5 DEF IInv, SilentUntilStarted, Started, Connect
  <2>. QED  BY <1>5, <2>1 DEF Connect, callbacks
<1>6. CASE Register \/ Reconnect \/ Unregister
  BY <1>6 DEF Register, Reconnect, Unregister, callbacks
<1>7. CASE RequestUpdate \/ Authorize
  BY <1>7 DEF RequestUpdate, Authorize, callbacks
<1>8. CASE ClientRegistered
  BY <1>1, <1>8 DEF ClientRegistered, callbacks
<1>9. CASE ClientUnregistered
  BY <1>9 DEF ClientUnregistered, callbacks
<1>10. CASE Reset \/ PowerLoss
  BY <1>10 DEF Reset, PowerLoss, Restart
<1>11. CASE Outside
  BY <1>11 DEF Outside, callbacks
<1>. QED
  BY <1>2, <1>3, <1>4, <1>5, <1>6, <1>7, <1>8, <1>9, <1>10, <1>11
  DEF Next, MainStep, InitStep, ClientStep, Answer

(* When its callback is set first, the application knows of its registration  *)
(* whenever no callback is under way, after every reconnection and restart.   *)
THEOREM CarefulAppKnows == CarefulSpec => []RegisteredAppKnows
<1>1. CarefulSpec => Spec
  BY PTL DEF CarefulSpec, Spec
<1>2. Init => KnowsInv
  BY DEF Init, KnowsInv, CallbackOfClient, ClosedWhenUnregistered, RegisteredAppKnows
<1>3. IInv /\ KnowsInv /\ UNCHANGED vars => KnowsInv'
  BY DEF vars, KnowsInv, CallbackOfClient, ClosedWhenUnregistered, RegisteredAppKnows, callbacks
<1>4. IInv /\ KnowsInv /\ [Next /\ CallbackFirst]_vars => KnowsInv'
  BY <1>3, KnowsStep
<1>5. KnowsInv => RegisteredAppKnows
  BY DEF KnowsInv
<1>. QED  BY <1>1, <1>2, <1>4, <1>5, Invariance, PTL DEF CarefulSpec
=============================================================================
