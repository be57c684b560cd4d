SPECIFICATION FairSpec
CONSTANTS
    Routes = {"led"}
    BadRoutes = {}
    Watched = {"led"}
    Writers <- MainWriter
    Values <- MCValues
    Texts <- MCTexts
    PutTexts <- MCPortalTexts
    Format <- MCFormat
    Parse <- MCParse
    Unquote <- MCUnquote
    Empty = ""
    QueueSize = 1
PROPERTY
    CallbackFollowsPut
