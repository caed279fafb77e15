\* Two viewers' orders, two handlers, room for one track; up to two deliveries of each.
SPECIFICATION Spec
CONSTANTS
    o1 = o1
    o2 = o2
    p1 = p1
    v1 = v1
    v2 = v2
    Orders = {o1, o2}
    FromOwner = {}
    Collections = {}
    Videos = {v1}
    LinkedVideos <- RaceVideos
    Playlists = {p1}
    WebTarget <- RaceTarget
    NoPlaylist = NoPlaylist
    MaxSize <- RaceSize
    ImportLimit = 1
    Workers = {w1, w2}
    MaxDeliveries = 2
SYMMETRY HandlersAlike
INVARIANTS
    TypeOK
    OverrunBounded
    AnnouncedWereStored
    OneVerdict
    CancelledNotStored
    AckedOnceMeansTold
CHECK_DEADLOCK FALSE
