SPECIFICATION Spec
CONSTANTS
    Routes = {"led", "echo"}
    BadRoutes = {}
    Watched = {"led"}
    Writers <- SplitWriters
    Values <- MCValues
    Texts <- MCTexts
    PutTexts <- MCPutTexts
    Format <- MCFormat
    Parse <- MCParse
    Unquote <- MCUnquote
    Empty = ""
    QueueSize = 2
INVARIANTS
    TypeOK
    NoNullDereference
    ReadYourWrites
    LastAssignmentWins
    UpdateIsThePutUnlessOvertaken
PROPERTY
    ImplementsCellsSafely
