------------------------------- MODULE Session -------------------------------
(* One device that runs an application on SimpleMbedClient: setup() and init  *)
(* on the main thread, the session of the cloud client and its callbacks on   *)
(* another thread, restarts and losses of power.  The device's objects and    *)
(* variables are the subject of ResourceTree and CloudVariables.              *)
EXTENDS Provisioning, UpdateAuthorization

\* This init has no RESET_FIRMWARE.
ASSUME FirmwareAssumption == \A b \in Builds : ~b.resetFirmware

VARIABLES
    client,                \* TRUE once setup() has created the MbedCloudClient
    registeredCallback,    \* whether on_registered was called
    unregisteredCallback,  \* whether on_unregistered was called
    session,               \* the session of the cloud client
    notice,                \* the callback its thread is about to make
    endpoint,              \* whether the static endpoint has been fetched
    announced              \* history: the last notice reached the application

provisioning == <<build, faulty, credentials, stage>>
updating == <<uiClient, handlers, update>>
callbacks == <<registeredCallback, unregisteredCallback>>
vars == <<provisioning, updating, client, callbacks, session, notice, endpoint, announced>>

Stages == {"off", "app", "connect", "ui", "authorize", "progress", "up"} \cup InitStages
OutsideSetup == {"app", "up", "failed"}
Notices == {"registered", "unregistered"}

TypeOK ==
    /\ build \in Builds
    /\ faulty \in BOOLEAN
    /\ credentials \in Contents
    /\ stage \in Stages \ {"firmware"}
    /\ UpdateTypeOK
    /\ client \in BOOLEAN
    /\ registeredCallback \in BOOLEAN /\ unregisteredCallback \in BOOLEAN
    /\ session \in {"closed", "connecting", "registered"}
    /\ notice \in {"none"} \cup Notices
    /\ endpoint \in BOOLEAN /\ announced \in BOOLEAN

-----------------------------------------------------------------------------
(* The main thread.                                                           *)

Boot ==
    /\ stage = "off"
    /\ stage' = "app"
    /\ UNCHANGED <<build, faulty, credentials, updating, client, callbacks,
                   session, notice, endpoint, announced>>

\* on_registered and on_unregistered, before setup() or after it.
OnRegistered ==
    /\ stage \in OutsideSetup
    /\ registeredCallback' = TRUE
    /\ UNCHANGED <<provisioning, updating, client, unregisteredCallback, session,
                   notice, endpoint, announced>>

OnUnregistered ==
    /\ stage \in OutsideSetup
    /\ unregisteredCallback' = TRUE
    /\ UNCHANGED <<provisioning, updating, client, registeredCallback, session,
                   notice, endpoint, announced>>

\* A slip: setup() tries again when the first attempt has failed.
SetupAgain ==
    /\ stage \in OutsideSetup
    /\ ~client \/ stage = "failed"
    /\ client' = TRUE
    /\ stage' = "fcc_init"
    /\ UNCHANGED <<build, faulty, credentials, updating, callbacks, session,
                   notice, endpoint, announced>>

\* setup() creates the client and calls init; with a client it returns false.
Setup ==
    /\ stage \in OutsideSetup
    /\ ~client
    /\ client' = TRUE
    /\ stage' = "fcc_init"
    /\ UNCHANGED <<build, faulty, credentials, updating, callbacks, session,
                   notice, endpoint, announced>>

\* The first half of init: the storage and the credentials.
Provision ==
    /\ FccInit \/ ResetStorage \/ DeveloperFlow \/ VerifyConfigured
    /\ UNCHANGED <<updating, client, callbacks, session, notice, endpoint, announced>>

\* init builds the list of objects, sets its callbacks on the client and posts
\* the keep-alive ticker, which does nothing in the configured TCP mode.
Publish ==
    /\ stage = "ready"
    /\ stage' = "connect"
    /\ UNCHANGED <<build, faulty, credentials, updating, client, callbacks,
                   session, notice, endpoint, announced>>

\* client->setup(iface) starts the connection and returns.
Connect ==
    /\ stage = "connect"
    /\ \/ stage' = "ui" /\ session' = "connecting"
       \/ faulty /\ stage' = "failed" /\ UNCHANGED session
    /\ UNCHANGED <<build, faulty, credentials, updating, client, callbacks,
                   notice, endpoint, announced>>

\* A slip: the handlers are set before the client they grant requests through.
AuthorizeHandlerFirst ==
    /\ stage = "ui" /\ stage' = "authorize" /\ SetHandler("authorize")
    /\ UNCHANGED <<build, faulty, credentials, client, callbacks, session,
                   notice, endpoint, announced>>

SetUiClient ==
    /\ stage = "ui" /\ stage' = "authorize" /\ UpdateUiSetCloudClient
    /\ UNCHANGED <<build, faulty, credentials, client, callbacks, session,
                   notice, endpoint, announced>>

\* The last statements of init, after the connection was started.
SetHandlers ==
    /\ \/ stage = "authorize" /\ stage' = "progress" /\ SetHandler("authorize")
       \/ stage = "progress" /\ stage' = "up" /\ SetHandler("progress")
    /\ UNCHANGED <<build, faulty, credentials, client, callbacks, session,
                   notice, endpoint, announced>>

InitStep == Provision \/ Publish \/ Connect \/ SetUiClient \/ SetHandlers

-----------------------------------------------------------------------------
(* The thread of the cloud client.                                            *)

ClientIdle == notice = "none" /\ update \notin Requests \cup {"crashed"}

\* The server has answered; again after every lost connection.
Register ==
    /\ ClientIdle /\ session = "connecting"
    /\ session' = "registered"
    /\ notice' = "registered" /\ announced' = FALSE
    /\ UNCHANGED <<provisioning, updating, client, callbacks, endpoint>>

\* The network is lost, and the client connects anew without a word.
Reconnect ==
    /\ ClientIdle /\ faulty /\ session = "registered"
    /\ session' = "connecting"
    /\ UNCHANGED <<provisioning, updating, client, callbacks, notice, endpoint, announced>>

\* The server ends the registration.
Unregister ==
    /\ ClientIdle /\ session = "registered"
    /\ session' = "closed"
    /\ notice' = "unregistered" /\ announced' = FALSE
    /\ UNCHANGED <<provisioning, updating, client, callbacks, endpoint>>

\* endpoint_info() may have nothing to return yet.
FetchEndpoint == endpoint' \in IF faulty THEN {endpoint, TRUE} ELSE {TRUE}

\* A slip: the callback is called where the endpoint is fetched, so only once.
AnnounceOnce ==
    /\ notice = "registered"
    /\ notice' = "none"
    /\ FetchEndpoint
    /\ announced' = (registeredCallback /\ ~endpoint)
    /\ UNCHANGED <<provisioning, updating, client, callbacks, session>>

\* client_registered: with or without an endpoint the callback is called.
ClientRegistered ==
    /\ notice = "registered"
    /\ notice' = "none"
    /\ FetchEndpoint
    /\ announced' = registeredCallback
    /\ UNCHANGED <<provisioning, updating, client, callbacks, session>>

ClientUnregistered ==
    /\ notice = "unregistered"
    /\ notice' = "none"
    /\ announced' = unregisteredCallback
    /\ UNCHANGED <<provisioning, updating, client, callbacks, session, endpoint>>

\* The cloud starts an update, the download ends.
RequestUpdate ==
    /\ ClientIdle /\ session = "registered"
    /\ AskDownload \/ AskInstall
    /\ UNCHANGED <<provisioning, client, callbacks, session, notice, endpoint, announced>>

Authorize ==
    /\ UpdateAuthorize
    /\ UNCHANGED <<provisioning, client, callbacks, session, notice, endpoint, announced>>

Answer == ClientRegistered \/ ClientUnregistered \/ Authorize

-----------------------------------------------------------------------------
(* Restarts.  Only the storage survives.                                      *)

Restart ==
    /\ stage' = "off"
    /\ client' = FALSE
    /\ registeredCallback' = FALSE /\ unregisteredCallback' = FALSE
    /\ session' = "closed" /\ notice' = "none" /\ endpoint' = FALSE /\ announced' = FALSE
    /\ UpdateReset
    /\ UNCHANGED <<build, faulty>>

\* The firmware is installed, or somebody presses reset after a failed setup.
Reset ==
    /\ update = "installing" \/ stage = "failed"
    /\ Restart
    /\ UNCHANGED credentials

PowerLoss ==
    /\ faulty /\ stage # "off"
    /\ Restart
    /\ credentials' \in Interrupted

Environment == Inject \/ Heal
Outside == Environment /\ UNCHANGED <<updating, client, callbacks, session, notice, endpoint, announced>>

-----------------------------------------------------------------------------
Init ==
    /\ build \in Builds
    /\ faulty = TRUE
    /\ credentials \in {"none", "complete"}
    /\ stage = "off"
    /\ UpdateInit
    /\ client = FALSE
    /\ registeredCallback = FALSE /\ unregisteredCallback = FALSE
    /\ session = "closed" /\ notice = "none" /\ endpoint = FALSE /\ announced = FALSE

MainStep == Boot \/ OnRegistered \/ OnUnregistered \/ Setup \/ InitStep
ClientStep == Register \/ Reconnect \/ Unregister \/ RequestUpdate \/ Answer

Next == MainStep \/ ClientStep \/ Reset \/ PowerLoss \/ Outside

\* main calls setup() and setup() goes on; the network answers; a callback
\* that is due is made.  Nobody need register a callback, press reset, cut
\* the power or start an update.
Fairness ==
    /\ WF_vars(Boot) /\ WF_vars(Setup) /\ WF_vars(InitStep)
    /\ WF_vars(Register) /\ WF_vars(Answer)

Spec == Init /\ [][Next]_vars
FairSpec == Spec /\ Fairness

-----------------------------------------------------------------------------
(* Properties.                                                                *)

(* The device never opens a session unless all its credentials are in storage *)
(* at that moment: not after a reset, a broken developer flow or a loss of    *)
(* power in an earlier boot (init, reset_storage, start_developer_flow).      *)
ConnectsProvisioned == session # "closed" => credentials = "complete"

(* init starts the connection before it sets up the authorisation of updates, *)
(* so a request may come between any two of those statements: update_authorize *)
(* never runs before update_ui_set_cloud_client has stored the client.        *)
AuthorizeHasClient == update # "crashed"

(* setup() creates the client before init can fail, and refuses to work with  *)
(* a client: after a failure nothing but a restart leads to a session.        *)
FailureNeedsRestart == [][stage = "failed" => session' = "closed" /\ stage' \in {"failed", "off"}]_vars

(* Once nothing fails any more, a device that can be provisioned registers    *)
(* after its next start, whatever earlier starts were interrupted at.         *)
BootsConnect == stage = "off" /\ ~faulty /\ CanProvision ~> session = "registered"

(* Every registration and every end of one, the first and all later ones, is  *)
(* passed on to the callback that is set by then (client_registered).         *)
NoticesAreAnnounced ==
    /\ notice = "registered" /\ registeredCallback ~> announced \/ stage = "off"
    /\ notice = "unregistered" /\ unregisteredCallback ~> announced \/ stage = "off"

(* update_authorize answers both kinds of request: no update waits for ever.  *)
RequestsAreAnswered ==
    /\ update = "download_requested" ~> update \in {"downloading", "none"}
    /\ update = "install_requested" ~> update \in {"installing", "none"}

-----------------------------------------------------------------------------
(* README.md registers its callback after setup(): once the device is         *)
(* registered, no callback is under way and the application has set its own,  *)
(* it has been told.                                                          *)
RegisteredAppKnows ==
    session = "registered" /\ notice = "none" /\ registeredCallback => announced
=============================================================================
