----------------------------- MODULE MCSession -----------------------------
(* Every build of SimpleMbedClient, which never resets the firmware.          *)
EXTENDS Session

MCBuilds == {b \in Build : ~b.resetFirmware}
=============================================================================
