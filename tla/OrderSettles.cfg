\* The owner's import of two videos, two handlers, up to two deliveries; liveness.
SPECIFICATION FairSpec
CONSTANTS
    o1 = o1
    o2 = o2
    p1 = p1
    v1 = v1
    v2 = v2
    Orders = {o2}
    FromOwner = {o2}
    Collections = {o2}
    Videos = {v1, v2}
    LinkedVideos <- SoleVideos
    Playlists = {p1}
    WebTarget <- SoleTarget
    NoPlaylist = NoPlaylist
    MaxSize <- RaceSize
    ImportLimit = 2
    Workers = {w1, w2}
    MaxDeliveries = 2
INVARIANTS
    AnsweredBeforeAck
PROPERTIES
    EveryOrderSettles
CHECK_DEADLOCK FALSE
