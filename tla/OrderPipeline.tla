--------------------------- MODULE OrderPipeline ---------------------------
(***************************************************************************)
(* The way of an order through the FastStream worker: from the queue       *)
(* order.proccess, through order_service.init_orders and                   *)
(* add_to_playlist_batch, to the rows of order_playlist_status and the     *)
(* events and bot feedback published about them                            *)
(* (back-end/src/adapters/_rabbit/worker/order_proccess_handler.py).       *)
(*                                                                         *)
(* FastStream starts one coroutine per delivered message and sets no       *)
(* prefetch limit, so several handlers are between two awaits at once;     *)
(* Workers is the set of handlers that can be in flight.  A message is     *)
(* acknowledged when its handler returns and rejected without requeue when *)
(* the handler raises.  A process that dies, or loses its connection to    *)
(* the broker, gives the message back to the queue.                        *)
(***************************************************************************)
EXTENDS Naturals, FiniteSets

CONSTANTS
    Orders,        \* messages that a route or a bot relay publishes
    FromOwner,     \* those with payload.from_owner: the playlists' owner asks
    Collections,   \* those whose link is a user's YouTube playlist
    Videos,        \* YouTube videos
    LinkedVideos,  \* the videos the link of an order resolves to
    Playlists,     \* the playlists of one owner
    WebTarget,     \* the playlist a web order names, or NoPlaylist for a bot's
    NoPlaylist,
    MaxSize,       \* max_playlist_size of each playlist, 0 for no limit
    ImportLimit,   \* limit=50 of get_playlist_tracks
    Workers,       \* handlers that can be in flight at once
    MaxDeliveries  \* bound: how often the broker delivers one message

ASSUME OrdersAssumption ==
    /\ FromOwner \subseteq Orders
    /\ Collections \subseteq Orders
    /\ LinkedVideos \in [Orders -> SUBSET Videos]
    /\ NoPlaylist \notin Playlists
    /\ WebTarget \in [Orders -> Playlists \cup {NoPlaylist}]

ASSUME LimitsAssumption ==
    /\ MaxSize \in [Playlists -> Nat]
    /\ ImportLimit \in Nat
    /\ MaxDeliveries \in Nat \ {0}
    /\ IsFiniteSet(Workers)
    /\ IsFiniteSet(Orders)
    /\ IsFiniteSet(Videos)

VARIABLES
    (* the broker's queue order.proccess *)
    queue,     \* where each message is
    tries,     \* how often it has been delivered
    (* PostgreSQL *)
    exists,    \* playlists with a row
    open,      \* playlists with is_allow_external_requests
    linked,    \* playlists whose allow_sources lists the bot's account
    active,    \* rows of order_playlist_status with status 'in playlist'
    removed,   \* rows with any other status
    (* what the handlers have published *)
    sent,
    (* the local state of each handler *)
    pc, delivery, lease, batch, snap, todo, added, refused

broker == <<queue, tries>>
tables == <<exists, open, linked, active, removed>>
locals == <<pc, delivery, lease, batch, snap, todo, added, refused>>
vars == <<broker, tables, sent, locals>>

-----------------------------------------------------------------------------
(* A delivery is a message and the number of times the broker has handed   *)
(* it out.  _create_order_dto draws a fresh request_id for every track of  *)
(* every delivery, so an Order row is a delivery and a video: a second     *)
(* delivery of a message never finds the row of the first.                 *)

Deliveries == Orders \X (1 .. MaxDeliveries)
Rows == Deliveries \X Videos
Entries == Rows \X Playlists     \* a row in a playlist

RowsOf(d, vs) == {<<d, v>> : v \in vs}
FromViewer(row) == row[1][1] \notin FromOwner

Settled == {"acked", "dropped"}

(* What the validation engine reads of a playlist: nothing (the row is not *)
(* among those selected), closed to viewers, full, or free.                *)
PlaylistViews == {"absent", "closed", "full", "free"}

(* Faulty variant of Full: the comparison is off by one.                   *)
FullLate(p) == MaxSize[p] > 0 /\ MaxSize[p] < Cardinality(active[p])

Full(p) == MaxSize[p] > 0 /\ MaxSize[p] <= Cardinality(active[p])

View(p) == IF p \notin open THEN "closed" ELSE IF Full(p) THEN "full" ELSE "free"

Selected(o) ==
    IF WebTarget[o] # NoPlaylist THEN exists \cap {WebTarget[o]} ELSE exists \cap linked

(* The lists init_orders can return: an owner's playlist link yields its   *)
(* embeddable tracks, possibly none; every other link exactly one track.   *)
Resolutions(o) ==
    IF o \in Collections \cap FromOwner
    THEN {vs \in SUBSET LinkedVideos[o] : Cardinality(vs) <= ImportLimit}
    ELSE {{v} : v \in LinkedVideos[o]}

Event(type, e) == [type |-> type, entry |-> e]
Verdict(type, d, p) == [type |-> type, delivery |-> d, playlist |-> p]

Messages ==
    [type : {"TRACK_ADDED", "completed"}, entry : Entries]
      \cup
    [type : {"TRACK_REJECTED", "cancelled"}, delivery : Deliveries,
     playlist : Playlists \cup {NoPlaylist}]

Active(w) == pc[w] # "idle"
Order(w) == delivery[w][1]
Seen(w) == {p \in Playlists : snap[w][p] # "absent"}

NoDelivery == <<>>
Unread == [p \in Playlists |-> "absent"]

-----------------------------------------------------------------------------
Init ==
    /\ queue = [o \in Orders |-> "unsent"]
    /\ tries = [o \in Orders |-> 0]
    /\ exists = Playlists
    /\ open \in SUBSET Playlists
    /\ linked \in SUBSET Playlists
    /\ active = [p \in Playlists |-> {}]
    /\ removed = [p \in Playlists |-> {}]
    /\ sent = {}
    /\ pc = [w \in Workers |-> "idle"]
    /\ delivery = [w \in Workers |-> NoDelivery]
    /\ lease = [w \in Workers |-> FALSE]
    /\ batch = [w \in Workers |-> {}]
    /\ snap = [w \in Workers |-> Unread]
    /\ todo = [w \in Workers |-> {}]
    /\ added = [w \in Workers |-> {}]
    /\ refused = [w \in Workers |-> {}]

(* POST /order/new, or a bot's relay, publishes the order.                 *)
Submit(o) ==
    /\ queue[o] = "unsent"
    /\ queue' = [queue EXCEPT ![o] = "ready"]
    /\ UNCHANGED <<tries, tables, sent, locals>>

(* The broker hands a ready message to a handler.                          *)
Take(w, o) ==
    /\ pc[w] = "idle"
    /\ queue[o] = "ready"
    /\ tries[o] < MaxDeliveries
    /\ queue' = [queue EXCEPT ![o] = "taken"]
    /\ tries' = [tries EXCEPT ![o] = @ + 1]
    /\ pc' = [pc EXCEPT ![w] = "init"]
    /\ delivery' = [delivery EXCEPT ![w] = <<o, tries[o] + 1>>]
    /\ lease' = [lease EXCEPT ![w] = TRUE]
    /\ UNCHANGED <<tables, sent, batch, snap, todo, added, refused>>

(* init_orders raises: an invalid link, a mix, a video that may not be     *)
(* embedded.  The handler answers with a cancellation and returns.         *)
InitFails(w) ==
    /\ pc[w] = "init"
    /\ sent' = sent \cup {Verdict("cancelled", delivery[w], NoPlaylist)}
    /\ pc' = [pc EXCEPT ![w] = "publish"]
    /\ UNCHANGED <<broker, tables, delivery, lease, batch, snap, todo, added, refused>>

(* init_orders returns; with an empty list the handler returns at once.    *)
InitOrders(w) ==
    /\ pc[w] = "init"
    /\ \E vs \in Resolutions(Order(w)) :
         /\ batch' = [batch EXCEPT ![w] = vs]
         /\ pc' = [pc EXCEPT ![w] = IF vs = {} THEN "publish" ELSE "read"]
    /\ UNCHANGED <<broker, tables, sent, delivery, lease, snap, todo, added, refused>>

(* add_to_playlist_batch selects the playlists: every later check is made  *)
(* against what it reads here.                                             *)
ReadPlaylists(w) ==
    /\ pc[w] = "read"
    /\ WebTarget[Order(w)] # NoPlaylist => Selected(Order(w)) # {}
    /\ snap' = [snap EXCEPT ![w] =
                  [p \in Playlists |-> IF p \in Selected(Order(w)) THEN View(p) ELSE "absent"]]
    /\ todo' = [todo EXCEPT ![w] = Selected(Order(w))]
    /\ pc' = [pc EXCEPT ![w] = "store"]
    /\ UNCHANGED <<broker, tables, sent, delivery, lease, batch, added, refused>>

(* validate_track: an owner's track passes whatever the playlist holds, a  *)
(* viewer's needs an open playlist that was not full; the rules on views,  *)
(* likes, duration, donations, blacklists and cooldowns may refuse it too. *)
MayStore(w, p) == Order(w) \in FromOwner \/ snap[w][p] = "free"
MayRefuse(w) == Order(w) \notin FromOwner

(* Faulty variants of the three steps below: the batch is not committed;   *)
(* the playlist is not skipped after the error; the loop ends early.       *)
StoreBatchUncommitted(w, p) ==
    /\ pc[w] = "store"
    /\ p \in todo[w] \cap exists
    /\ MayStore(w, p)
    /\ added' = [added EXCEPT ![w] = @ \cup (RowsOf(delivery[w], batch[w]) \X {p})]
    /\ todo' = [todo EXCEPT ![w] = @ \ {p}]
    /\ UNCHANGED <<broker, tables, sent, pc, delivery, lease, batch, snap, refused>>

RefuseAndGoOn(w, p) ==
    /\ pc[w] = "store"
    /\ p \in todo[w]
    /\ MayRefuse(w)
    /\ refused' = [refused EXCEPT ![w] = @ \cup {p}]
    /\ UNCHANGED <<broker, tables, sent, pc, delivery, lease, batch, snap, todo, added>>

StoredEarly(w) ==
    /\ pc[w] = "store"
    /\ pc' = [pc EXCEPT ![w] = "publish"]
    /\ UNCHANGED <<broker, tables, sent, delivery, lease, batch, snap, todo, added, refused>>

(* add_orders_to_playlist: one commit for the batch in one playlist.       *)
StoreBatch(w, p) ==
    /\ pc[w] = "store"
    /\ p \in todo[w]
    /\ p \in exists
    /\ MayStore(w, p)
    /\ active' = [active EXCEPT ![p] = @ \cup RowsOf(delivery[w], batch[w])]
    /\ added' = [added EXCEPT ![w] = @ \cup (RowsOf(delivery[w], batch[w]) \X {p})]
    /\ todo' = [todo EXCEPT ![w] = @ \ {p}]
    /\ UNCHANGED <<broker, exists, open, linked, removed, sent, pc, delivery, lease, batch,
                   snap, refused>>

(* The track goes to the error list of the playlist.                       *)
Refuse(w, p) ==
    /\ pc[w] = "store"
    /\ p \in todo[w]
    /\ MayRefuse(w)
    /\ refused' = [refused EXCEPT ![w] = @ \cup {p}]
    /\ todo' = [todo EXCEPT ![w] = @ \ {p}]
    /\ UNCHANGED <<broker, tables, sent, pc, delivery, lease, batch, snap, added>>

(* add_to_playlist_batch returns.                                          *)
Stored(w) ==
    /\ pc[w] = "store"
    /\ todo[w] = {}
    /\ pc' = [pc EXCEPT ![w] = "publish"]
    /\ UNCHANGED <<broker, tables, sent, delivery, lease, batch, snap, todo, added, refused>>

-----------------------------------------------------------------------------
(* The handler publishes, for every track stored, TRACK_ADDED to the       *)
(* fanout exchange and then "completed" to the bot; after all of those,    *)
(* for every playlist that refused, TRACK_REJECTED and then "cancelled".   *)

InDoubt(w) == {e \in added[w] : Event("TRACK_ADDED", e) \in sent}
Rejecting(w) == {p \in refused[w] : Verdict("TRACK_REJECTED", delivery[w], p) \in sent}

AnnounceTrack(w) ==
    /\ pc[w] = "publish"
    /\ InDoubt(w) = {}
    /\ \E e \in added[w] : sent' = sent \cup {Event("TRACK_ADDED", e)}
    /\ UNCHANGED <<broker, tables, locals>>

CompleteOrder(w) ==
    /\ pc[w] = "publish"
    /\ \E e \in InDoubt(w) :
         /\ sent' = sent \cup {Event("completed", e)}
         /\ added' = [added EXCEPT ![w] = @ \ {e}]
    /\ UNCHANGED <<broker, tables, pc, delivery, lease, batch, snap, todo, refused>>

AnnounceRejection(w) ==
    /\ pc[w] = "publish"
    /\ added[w] = {}
    /\ Rejecting(w) = {}
    /\ \E p \in refused[w] : sent' = sent \cup {Verdict("TRACK_REJECTED", delivery[w], p)}
    /\ UNCHANGED <<broker, tables, locals>>

CancelOrder(w) ==
    /\ pc[w] = "publish"
    /\ added[w] = {}
    /\ \E p \in Rejecting(w) :
         /\ sent' = sent \cup {Verdict("cancelled", delivery[w], p)}
         /\ refused' = [refused EXCEPT ![w] = @ \ {p}]
    /\ UNCHANGED <<broker, tables, pc, delivery, lease, batch, snap, todo, added>>

-----------------------------------------------------------------------------
(* Faulty variants of Forget, Finished and Ack: the handler stays busy;    *)
(* the message is acknowledged before the answers, as the bots do; it is   *)
(* never acknowledged.                                                     *)
ForgetTooSoon(w) ==
    /\ delivery' = [delivery EXCEPT ![w] = NoDelivery]
    /\ added' = [added EXCEPT ![w] = {}]
    /\ refused' = [refused EXCEPT ![w] = {}]
    /\ UNCHANGED <<pc, lease, batch, snap, todo>>

FinishedFirst(w) == pc[w] = "publish"

(* The end of a handler: its locals are gone.                              *)
Forget(w) ==
    /\ pc' = [pc EXCEPT ![w] = "idle"]
    /\ delivery' = [delivery EXCEPT ![w] = NoDelivery]
    /\ lease' = [lease EXCEPT ![w] = FALSE]
    /\ batch' = [batch EXCEPT ![w] = {}]
    /\ snap' = [snap EXCEPT ![w] = Unread]
    /\ todo' = [todo EXCEPT ![w] = {}]
    /\ added' = [added EXCEPT ![w] = {}]
    /\ refused' = [refused EXCEPT ![w] = {}]

(* The fate of the message, if the handler's channel still holds it.       *)
Release(w, fate) ==
    /\ queue' = IF lease[w] THEN [queue EXCEPT ![Order(w)] = fate] ELSE queue
    /\ UNCHANGED tries

(* The handler returns and FastStream acknowledges.                        *)
Finished(w) == pc[w] = "publish" /\ added[w] = {} /\ refused[w] = {}

AckForgotten(w) ==
    /\ Finished(w)
    /\ Forget(w)
    /\ UNCHANGED <<broker, tables, sent>>

Ack(w) ==
    /\ Finished(w)
    /\ Release(w, "acked")
    /\ Forget(w)
    /\ UNCHANGED <<tables, sent>>

(* The handler raises at one of its awaits: a playlist is gone that a web  *)
(* order names or that it was about to write, the database fails, or a     *)
(* publish does.  FastStream rejects the message, what was stored stays.   *)
Raise(w) ==
    /\ Active(w)
    /\ ~Finished(w)
    /\ Release(w, "dropped")
    /\ Forget(w)
    /\ UNCHANGED <<tables, sent>>

(* The process dies: the broker takes the message back.                    *)
Crash(w) ==
    /\ Active(w)
    /\ lease[w] => tries[Order(w)] < MaxDeliveries
    /\ Release(w, "ready")
    /\ Forget(w)
    /\ UNCHANGED <<tables, sent>>

(* Only the connection is lost: the broker takes the message back while    *)
(* the handler runs on, its acknowledgement will mean nothing.             *)
LoseConnection(w) ==
    /\ Active(w)
    /\ lease[w]
    /\ tries[Order(w)] < MaxDeliveries
    /\ Release(w, "ready")
    /\ lease' = [lease EXCEPT ![w] = FALSE]
    /\ UNCHANGED <<tables, sent, pc, delivery, batch, snap, todo, added, refused>>

-----------------------------------------------------------------------------
(* What the owner does meanwhile through the playlist routes.              *)

(* PATCH of is_allow_external_requests.                                    *)
ToggleRequests(p) ==
    /\ p \in exists
    /\ open' = IF p \in open THEN open \ {p} ELSE open \cup {p}
    /\ UNCHANGED <<broker, exists, linked, active, removed, sent, locals>>

(* PATCH of allow_sources.                                                 *)
ToggleSource(p) ==
    /\ p \in exists
    /\ linked' = IF p \in linked THEN linked \ {p} ELSE linked \cup {p}
    /\ UNCHANGED <<broker, exists, open, active, removed, sent, locals>>

(* DELETE of a track: the row stays, with another status.                  *)
RemoveTrack(p, row) ==
    /\ row \in active[p]
    /\ active' = [active EXCEPT ![p] = @ \ {row}]
    /\ removed' = [removed EXCEPT ![p] = @ \cup {row}]
    /\ UNCHANGED <<broker, exists, open, linked, sent, locals>>

(* DELETE of a playlist: its rows go with it.                              *)
DeletePlaylist(p) ==
    /\ p \in exists
    /\ exists' = exists \ {p}
    /\ open' = open \ {p}
    /\ linked' = linked \ {p}
    /\ active' = [active EXCEPT ![p] = {}]
    /\ removed' = [removed EXCEPT ![p] = {}]
    /\ UNCHANGED <<broker, sent, locals>>

-----------------------------------------------------------------------------
Handle(w) ==
    \/ InitFails(w) \/ InitOrders(w) \/ ReadPlaylists(w)
    \/ \E p \in Playlists : StoreBatch(w, p) \/ Refuse(w, p)
    \/ Stored(w)
    \/ AnnounceTrack(w) \/ CompleteOrder(w)
    \/ AnnounceRejection(w) \/ CancelOrder(w)
    \/ Ack(w) \/ Raise(w)

Owner ==
    \E p \in Playlists :
        \/ ToggleRequests(p) \/ ToggleSource(p) \/ DeletePlaylist(p)
        \/ \E row \in active[p] : RemoveTrack(p, row)

Next ==
    \/ \E o \in Orders : Submit(o)
    \/ \E w \in Workers, o \in Orders : Take(w, o)
    \/ \E w \in Workers : Handle(w) \/ Crash(w) \/ LoseConnection(w)
    \/ Owner

Spec == Init /\ [][Next]_vars

(* The worker process keeps running its handlers and the broker keeps      *)
(* delivering; nobody has to order, crash or change a playlist.            *)
FairSpec ==
    /\ Spec
    /\ \A w \in Workers : WF_vars(Handle(w))
    /\ \A o \in Orders : WF_vars(\E w \in Workers : Take(w, o))

-----------------------------------------------------------------------------
(* Type invariant: what every variable may hold.                           *)
TypeOK ==
    /\ queue \in [Orders -> {"unsent", "ready", "taken"} \cup Settled]
    /\ tries \in [Orders -> 0 .. MaxDeliveries]
    /\ exists \in SUBSET Playlists
    /\ open \in SUBSET Playlists
    /\ linked \in SUBSET Playlists
    /\ active \in [Playlists -> SUBSET Rows]
    /\ removed \in [Playlists -> SUBSET Rows]
    /\ sent \in SUBSET Messages
    /\ pc \in [Workers -> {"idle", "init", "read", "store", "publish"}]
    /\ delivery \in [Workers -> Deliveries \cup {NoDelivery}]
    /\ \A w \in Workers : Active(w) => delivery[w] \in Deliveries
    /\ lease \in [Workers -> BOOLEAN]
    /\ batch \in [Workers -> SUBSET Videos]
    /\ snap \in [Workers -> [Playlists -> PlaylistViews]]
    /\ todo \in [Workers -> SUBSET Playlists]
    /\ added \in [Workers -> SUBSET Entries]
    /\ refused \in [Workers -> SUBSET Playlists]

ViewerRows(p) == {row \in active[p] : FromViewer(row)}

(* The capacity check and the insert are not one transaction, so a limited *)
(* playlist can be overrun; but every handler in flight has at most one    *)
(* track to add on a stale "not full", and the check of a handler that     *)
(* starts later sees the rows: viewers' tracks exceed max_playlist_size by *)
(* less than the number of handlers in flight, however often the broker    *)
(* redelivers.                                                             *)
OverrunBounded ==
    \A p \in Playlists :
        MaxSize[p] > 0 => Cardinality(ViewerRows(p)) < MaxSize[p] + Cardinality(Workers)

(* Nobody is told of a track that was not committed: the entry of every    *)
(* TRACK_ADDED and every "completed" is, or was until the track or the     *)
(* playlist was deleted, a row of the playlist.                            *)
StoredEntry(e) == e[1] \in active[e[2]] \cup removed[e[2]] \/ e[2] \notin exists

AnnouncedWereStored ==
    \A m \in sent : m.type \in {"TRACK_ADDED", "completed"} => StoredEntry(m.entry)

(* One delivery gives a playlist one verdict: the bot is never told both   *)
(* that the track was added and that the order was cancelled there.        *)
OneVerdict ==
    \A m, n \in sent :
        m.type = "completed" /\ n.type = "cancelled" /\ n.playlist # NoPlaylist
            => ~(m.entry[1][1] = n.delivery /\ m.entry[2] = n.playlist)

(* A cancellation leaves nothing behind: where the bot was told that a     *)
(* delivery was refused, the playlist never takes a track of it, although  *)
(* the rows are committed and the refusals told at different times.        *)
CancelledNotStored ==
    \A m \in sent : m.type = "cancelled" /\ m.playlist # NoPlaylist =>
        \A v \in Videos :
            <<m.delivery, v>> \notin active[m.playlist] \cup removed[m.playlist]

(* The handler acknowledges a message only after every playlist it read    *)
(* has its answer: "completed" for each track, or "cancelled".             *)
Answered(d, vs, p) ==
    \/ \A row \in RowsOf(d, vs) : Event("completed", <<row, p>>) \in sent
    \/ Verdict("cancelled", d, p) \in sent

AnsweredBeforeAck ==
    \A w \in Workers :
        Finished(w) => \A p \in Seen(w) : Answered(delivery[w], batch[w], p)

(* A message that was delivered once and acknowledged left nothing          *)
(* untold: each of its rows was announced to the clients and confirmed to  *)
(* the bot.  (After a redelivery this fails: the rows of the handler that  *)
(* was interrupted stay in the playlist and are never announced.)          *)
AckedOnceMeansTold ==
    \A p \in Playlists : \A row \in active[p] \cup removed[p] :
        LET o == row[1][1] IN
        queue[o] = "acked" /\ tries[o] = 1
            => {Event("TRACK_ADDED", <<row, p>>), Event("completed", <<row, p>>)} \subseteq sent

(* Every order that reaches the queue is acknowledged or dropped in the    *)
(* end, as long as the broker runs out of failures before redeliveries.    *)
EveryOrderSettles ==
    \A o \in Orders : queue[o] = "ready" ~> queue[o] \in Settled

-----------------------------------------------------------------------------
(* What the documentation and the code say, and the program does not do.   *)

(* docs/core/orders.md lists max_playlist_size among the constraints that  *)
(* a track is validated against: no viewer's track enters a full playlist. *)
CapacityRespected ==
    [][\A p \in Playlists :
         Full(p) => \A row \in active'[p] \ active[p] : ~FromViewer(row)]_vars

(* Order.request_id is unique and add_orders_to_playlist looks a request   *)
(* up before inserting it: one request is one row of a playlist.           *)
OneRowPerRequest ==
    \A p \in Playlists : \A r1, r2 \in active[p] :
        r1[1][1] = r2[1][1] /\ r1[2] = r2[2] => r1 = r2
=============================================================================
