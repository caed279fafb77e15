\* A refunded order is in no playlist, as the system audit puts it.
\* One delivery: one playlist takes the order and another refuses it.
SPECIFICATION PointsSpec
CONSTANTS
    o1 = o1
    v1 = v1
    Orders = {o1}
    FromOwner = {}
    Collections = {}
    Videos = {v1}
    LinkedVideos <- OneVideo
    Playlists = {p1, p2}
    WebTarget <- NoTarget
    NoPlaylist = NoPlaylist
    MaxSize <- NoLimit
    ImportLimit = 1
    Workers = {w1}
    MaxDeliveries = 1
INVARIANTS
    RefundMeansRejected
CHECK_DEADLOCK FALSE
