SPECIFICATION FairSpec
CONSTANTS
    Routes = {"led", "bad"}
    BadRoutes = {"bad"}
    Watched = {"led"}
    Writers <- SharedWriters
    Values <- MCValues
    Texts <- MCTexts
    PutTexts <- MCPortalTexts
    Format <- MCFormat
    Parse <- MCParse
    Unquote <- MCUnquote
    Empty = ""
    QueueSize = 2
PROPERTIES
    AssignmentsReachTheResource
    UpdatesReachTheCallback
    ImplementsCells
