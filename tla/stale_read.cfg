SPECIFICATION Spec
CONSTANTS
    Routes = {"led"}
    BadRoutes = {}
    Watched = {"led"}
    Writers <- MainWriter
    Values <- MCValues
    Texts <- MCTexts
    PutTexts <- MCPutTexts
    Format <- MCFormat
    Parse <- MCParse
    Unquote <- MCUnquote
    Empty = ""
    QueueSize = 2
INVARIANT
    QuiescentRead
