---------------------------- MODULE Provisioning ----------------------------
(* The start of a device, as both clients code it (SimpleMbedClientBase::init *)
(* and SimpleM2MClient::init): open the storage of the factory configurator,  *)
(* reset it and the firmware images when the build says so, store the         *)
(* developer credentials, verify that the device is configured.  Credentials  *)
(* are several items of persistent storage and survive a restart; a step that *)
(* fails, or that a loss of power interrupts, may leave some of them.         *)
CONSTANT
    Builds   \* the combinations of compile-time flags considered

\* RESET_STORAGE, RESET_FIRMWARE and MBED_CONF_APP_DEVELOPER_MODE.
Build == [resetStorage : BOOLEAN, resetFirmware : BOOLEAN, developerMode : BOOLEAN]

ASSUME BuildsAssumption == Builds \subseteq Build

VARIABLES
    build,         \* the flags this device was compiled with
    faulty,        \* whether storage, network and power may still fail
    credentials,   \* what the storage holds: "none", "partial" or "complete"
    stage          \* where the main thread is in this boot, "off" without power

Contents == {"none", "partial", "complete"}
InitStages == {"fcc_init", "reset", "firmware", "developer", "verify", "ready", "failed"}

-----------------------------------------------------------------------------
\* The step that follows in this build.
AfterFirmware == IF build.developerMode THEN "developer" ELSE "verify"
FirmwareAlways == "firmware"   \* a slip: whatever the build says
AfterReset == IF build.resetFirmware THEN "firmware" ELSE AfterFirmware
AfterInit == IF build.resetStorage THEN "reset" ELSE AfterReset

\* What a deletion, and a store of the credentials, leave when they break off.
HalfDeleted == IF credentials = "none" THEN {"none"} ELSE {"none", "partial", credentials}
HalfStored == IF credentials = "none" THEN Contents ELSE {credentials}

FccInit ==
    /\ stage = "fcc_init"
    /\ stage' \in IF faulty THEN {AfterInit, "failed"} ELSE {AfterInit}
    /\ UNCHANGED <<build, faulty, credentials>>

\* reset_storage: a failure is reported and otherwise ignored.
ResetStorage ==
    /\ stage = "reset"
    /\ credentials' \in IF faulty THEN HalfDeleted ELSE {"none"}
    /\ stage' = AfterReset
    /\ UNCHANGED <<build, faulty>>

RmFirmwareImages ==
    /\ stage = "firmware"
    /\ stage' \in IF faulty THEN {AfterFirmware, "failed"} ELSE {AfterFirmware}
    /\ UNCHANGED <<build, faulty, credentials>>

\* A slip: an item that exists is an error like any other.
StopAtExisting ==
    /\ stage = "developer"
    /\ \/ credentials # "none" /\ stage' = "failed" /\ UNCHANGED credentials
       \/ credentials = "none" /\ stage' = "verify" /\ credentials' = "complete"
       \/ faulty /\ stage' = "failed" /\ credentials' \in HalfStored
    /\ UNCHANGED <<build, faulty>>

\* start_developer_flow: an item that exists ends the flow, and counts as
\* success; another error ends init, whatever was stored by then.
DeveloperFlow ==
    /\ stage = "developer"
    /\ \/ credentials # "none" /\ stage' = "verify" /\ UNCHANGED credentials
       \/ credentials = "none" /\ stage' = "verify" /\ credentials' = "complete"
       \/ faulty /\ stage' = "failed" /\ credentials' \in HalfStored
    /\ UNCHANGED <<build, faulty>>

\* A slip: the result of the verification is not looked at.
VerifyNothing ==
    /\ stage = "verify"
    /\ stage' = "ready"
    /\ UNCHANGED <<build, faulty, credentials>>

VerifyConfigured ==
    /\ stage = "verify"
    /\ \/ credentials = "complete" /\ stage' = "ready"
       \/ (faulty \/ credentials # "complete") /\ stage' = "failed"
    /\ UNCHANGED <<build, faulty, credentials>>

\* What the storage holds after a loss of power at this moment.
Interrupted ==
    IF stage = "reset" THEN HalfDeleted
    ELSE IF stage = "developer" THEN HalfStored
    ELSE {credentials}

\* The factory tool writes the credentials of a device that is not running.
Inject ==
    /\ stage = "off"
    /\ credentials' = "complete"
    /\ UNCHANGED <<build, faulty, stage>>

\* From some moment on nothing fails any more.
Heal ==
    /\ faulty
    /\ faulty' = FALSE
    /\ UNCHANGED <<build, credentials, stage>>

-----------------------------------------------------------------------------
\* Whether a start without failures ends with verified credentials.  It does
\* not when a broken start left some items and nothing deletes them, nor when a
\* build deletes credentials it cannot store again.
CanProvision ==
    IF build.resetStorage THEN build.developerMode
    ELSE credentials = "complete" \/ (build.developerMode /\ credentials = "none")
=============================================================================
