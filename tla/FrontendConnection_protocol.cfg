\* Two frames in flight, cut into chunks in every way, handled by a session with
\* one statement name and one portal; a Query is of any kind.
SPECIFICATION Spec
CONSTANTS
    Names = {s1}
    PortalNames = {p1}
    NoPortal = NoPortal
    Shapes = {"a", "b"}
    ParsedKinds = {"select", "setConfig", "call"}
    QueryKinds <- MCQueries
    LengthBytes = 2
    MaxFrame = 7
    Frames <- MCFrames
    MaxInFlight = 2
INVARIANTS
    OneReadyPerRequest
    RowsMatchDescription
    FramesInOrder
    OnlyPartOfAFrameWaits
PROPERTIES
    LeasesCoverHandlers
    OnlyCloseDangles
    BadStreamStaysBad
    SyncIsAnswered
