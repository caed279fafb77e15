\* One redemption, two playlists, one handler, up to two deliveries.
SPECIFICATION PointsSpec
CONSTANTS
    o1 = o1
    v1 = v1
    Orders = {o1}
    FromOwner = {}
    Collections = {}
    Videos = {v1}
    LinkedVideos <- OneVideo
    Playlists = {p1, p2}
    WebTarget <- NoTarget
    NoPlaylist = NoPlaylist
    MaxSize <- NoLimit
    ImportLimit = 1
    Workers = {w1}
    MaxDeliveries = 2
SYMMETRY Alike
INVARIANTS
    BotTypeOK
    AnsweredBeforeAck
    FulfilledWasStored
    RefundWasRefused
CHECK_DEADLOCK FALSE
