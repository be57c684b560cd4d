------------------------- MODULE UpdateAuthorization -------------------------
(* The authorisation of a firmware update (update_ui_example.cpp).  The cloud *)
(* client asks before it downloads and before it installs; with a handler set *)
(* it waits for update_authorize to grant the step through the client that    *)
(* update_ui_set_cloud_client stored in a static variable, without one it     *)
(* goes on at once.                                                           *)
VARIABLES
    uiClient,   \* whether the static _client has been set
    handlers,   \* the handlers set on the cloud client
    update      \* where the update of the cloud client is

Handlers == {"authorize", "progress"}
Requests == {"download_requested", "install_requested"}
Grants == {"downloading", "installing"}

UpdateTypeOK ==
    /\ uiClient \in BOOLEAN
    /\ handlers \subseteq Handlers
    /\ update \in {"none", "crashed"} \cup Requests \cup Grants

UpdateInit == uiClient = FALSE /\ handlers = {} /\ update = "none"

\* The static variable, the handlers and the update end with the boot.
UpdateReset == uiClient' = FALSE /\ handlers' = {} /\ update' = "none"

-----------------------------------------------------------------------------
UpdateUiSetCloudClient ==
    /\ uiClient' = TRUE
    /\ UNCHANGED <<handlers, update>>

SetHandler(handler) ==
    /\ handlers' = handlers \cup {handler}
    /\ UNCHANGED <<uiClient, update>>

\* The cloud client asks the handler, or takes the step when there is none.
Ask(request, grant) ==
    /\ update' = IF "authorize" \in handlers THEN request ELSE grant
    /\ UNCHANGED <<uiClient, handlers>>

AskDownload == update = "none" /\ Ask("download_requested", "downloading")
AskInstall == update = "downloading" /\ Ask("install_requested", "installing")

GrantOf == [request \in Requests |->
              IF request = "download_requested" THEN "downloading" ELSE "installing"]

\* A slip: the case of the install request falls through to the default.
AuthorizeDownloads ==
    /\ update = "download_requested"
    /\ update' = IF uiClient THEN "downloading" ELSE "crashed"
    /\ UNCHANGED <<uiClient, handlers>>

\* update_authorize grants either request at once, through _client.
UpdateAuthorize ==
    /\ update \in Requests
    /\ update' = IF uiClient THEN GrantOf[update] ELSE "crashed"
    /\ UNCHANGED <<uiClient, handlers>>
=============================================================================
