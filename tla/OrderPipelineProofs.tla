------------------------ MODULE OrderPipelineProofs ------------------------
(***************************************************************************)
(* Theorems about OrderPipeline, for every value of its constants.         *)
(***************************************************************************)
EXTENDS OrderPipeline, FiniteSetTheorems, TLAPS

USE OrdersAssumption, LimitsAssumption

(* What TypeOK says of one handler's delivery. *)
LEMMA DeliveryType ==
    ASSUME TypeOK, NEW w \in Workers, Active(w)
    PROVE  /\ delivery[w] \in Deliveries
           /\ Order(w) \in Orders
           /\ tries[Order(w)] \in 0 .. MaxDeliveries
BY DEF TypeOK, Deliveries, Order

LEMMA ReleaseType ==
    ASSUME TypeOK, NEW w \in Workers, Active(w),
           NEW fate \in {"ready"} \cup Settled, Release(w, fate)
    PROVE  /\ queue' \in [Orders -> {"unsent", "ready", "taken"} \cup Settled]
           /\ tries' \in [Orders -> 0 .. MaxDeliveries]
BY DeliveryType DEF TypeOK, Release

LEMMA ForgetType ==
    ASSUME TypeOK, NEW w \in Workers, Forget(w)
    PROVE  /\ pc' \in [Workers -> {"idle", "init", "read", "store", "publish"}]
           /\ delivery' \in [Workers -> Deliveries \cup {NoDelivery}]
           /\ \A v \in Workers : Active(v)' => delivery'[v] \in Deliveries
           /\ lease' \in [Workers -> BOOLEAN]
           /\ batch' \in [Workers -> SUBSET Videos]
           /\ snap' \in [Workers -> [Playlists -> PlaylistViews]]
           /\ todo' \in [Workers -> SUBSET Playlists]
           /\ added' \in [Workers -> SUBSET Entries]
           /\ refused' \in [Workers -> SUBSET Playlists]
BY DEF TypeOK, Forget, Active, Unread, PlaylistViews

LEMMA InitType == Init => TypeOK
BY DEF Init, TypeOK, Active, Unread, PlaylistViews, Messages

LEMMA TakeType ==
    ASSUME TypeOK, NEW w \in Workers, NEW o \in Orders, Take(w, o)
    PROVE  TypeOK'
<1>1. tries[o] + 1 \in 1 .. MaxDeliveries
  BY DEF Take, TypeOK
<1>2. <<o, tries[o] + 1>> \in Deliveries
  BY <1>1 DEF Deliveries
<1>3. tries' \in [Orders -> 0 .. MaxDeliveries]
  BY <1>1 DEF TypeOK, Take
<1>4. /\ delivery' \in [Workers -> Deliveries \cup {NoDelivery}]
      /\ \A v \in Workers : Active(v)' => delivery'[v] \in Deliveries
  BY <1>2 DEF TypeOK, Take, Active
<1> QED
  BY <1>3, <1>4 DEF TypeOK, Take, tables

LEMMA StoreType ==
    ASSUME TypeOK, NEW w \in Workers, NEW p \in Playlists, StoreBatch(w, p)
    PROVE  TypeOK'
<1>1. RowsOf(delivery[w], batch[w]) \subseteq Rows
  BY DeliveryType DEF StoreBatch, RowsOf, Rows, TypeOK, Active
<1>2. RowsOf(delivery[w], batch[w]) \X {p} \subseteq Entries
  BY <1>1 DEF Entries
<1> QED
  BY <1>1, <1>2 DEF TypeOK, StoreBatch, Active, broker

LEMMA PublishType ==
    ASSUME TypeOK, NEW w \in Workers,
           InitFails(w) \/ AnnounceTrack(w) \/ CompleteOrder(w)
             \/ AnnounceRejection(w) \/ CancelOrder(w)
    PROVE  TypeOK'
<1>1. CASE InitFails(w)
  <2>1. Verdict("cancelled", delivery[w], NoPlaylist) \in Messages
    BY <1>1, DeliveryType DEF InitFails, Verdict, Messages, Active
  <2> QED
    BY <1>1, <2>1 DEF TypeOK, InitFails, Active, tables, broker
<1>2. CASE AnnounceTrack(w)
  <2>1. PICK e \in added[w] : sent' = sent \cup {Event("TRACK_ADDED", e)}
    BY <1>2 DEF AnnounceTrack
  <2>2. Event("TRACK_ADDED", e) \in Messages
    BY <2>1 DEF TypeOK, Event, Messages
  <2> QED
    BY <1>2, <2>1, <2>2 DEF TypeOK, AnnounceTrack, Active, tables, broker, locals
<1>3. CASE CompleteOrder(w)
  <2>1. PICK e \in added[w] :
          /\ sent' = sent \cup {Event("completed", e)}
          /\ added' = [added EXCEPT ![w] = @ \ {e}]
    BY <1>3 DEF CompleteOrder, InDoubt
  <2>2. Event("completed", e) \in Messages
    BY <2>1 DEF TypeOK, Event, Messages
  <2> QED
    BY <1>3, <2>1, <2>2 DEF TypeOK, CompleteOrder, Active, tables, broker
<1>4. CASE AnnounceRejection(w)
  <2>1. PICK p \in refused[w] :
          sent' = sent \cup {Verdict("TRACK_REJECTED", delivery[w], p)}
    BY <1>4 DEF AnnounceRejection
  <2>2. Verdict("TRACK_REJECTED", delivery[w], p) \in Messages
    BY <1>4, <2>1, DeliveryType DEF AnnounceRejection, TypeOK, Verdict, Messages, Active
  <2> QED
    BY <1>4, <2>1, <2>2 DEF TypeOK, AnnounceRejection, Active, tables, broker, locals
<1>5. CASE CancelOrder(w)
  <2>1. PICK p \in refused[w] :
          /\ sent' = sent \cup {Verdict("cancelled", delivery[w], p)}
          /\ refused' = [refused EXCEPT ![w] = @ \ {p}]
    BY <1>5 DEF CancelOrder, Rejecting
  <2>2. Verdict("cancelled", delivery[w], p) \in Messages
    BY <1>5, <2>1, DeliveryType DEF CancelOrder, TypeOK, Verdict, Messages, Active
  <2> QED
    BY <1>5, <2>1, <2>2 DEF TypeOK, CancelOrder, Active, tables, broker
<1> QED
  BY <1>1, <1>2, <1>3, <1>4, <1>5

LEMMA EndType ==
    ASSUME TypeOK, NEW w \in Workers, Ack(w) \/ Raise(w) \/ Crash(w)
    PROVE  TypeOK'
<1>1. /\ Active(w)
      /\ Forget(w)
      /\ \E fate \in {"ready"} \cup Settled : Release(w, fate)
      /\ UNCHANGED <<tables, sent>>
  BY DEF Ack, Raise, Crash, Finished, Active, Settled
<1> QED
  BY <1>1, ForgetType, ReleaseType DEF TypeOK, tables

LEMMA OwnerType == TypeOK /\ Owner => TypeOK'
<1> SUFFICES ASSUME TypeOK, NEW p \in Playlists,
                    \/ ToggleRequests(p) \/ ToggleSource(p) \/ DeletePlaylist(p)
                    \/ \E row \in active[p] : RemoveTrack(p, row)
             PROVE  TypeOK'
  BY DEF Owner
<1>1. CASE ToggleRequests(p)
  BY <1>1 DEF TypeOK, ToggleRequests, Active, broker, locals
<1>2. CASE ToggleSource(p)
  BY <1>2 DEF TypeOK, ToggleSource, Active, broker, locals
<1>3. CASE DeletePlaylist(p)
  BY <1>3 DEF TypeOK, DeletePlaylist, Active, broker, locals
<1>4. CASE \E row \in active[p] : RemoveTrack(p, row)
  BY <1>4 DEF TypeOK, RemoveTrack, Active, broker, locals
<1> QED
  BY <1>1, <1>2, <1>3, <1>4

LEMMA HandleType == ASSUME TypeOK, NEW w \in Workers, Handle(w) PROVE TypeOK'
<1>1. CASE InitFails(w) \/ AnnounceTrack(w) \/ CompleteOrder(w)
             \/ AnnounceRejection(w) \/ CancelOrder(w)
  BY <1>1, PublishType
<1>2. CASE InitOrders(w)
  <2>1. PICK vs \in Resolutions(Order(w)) :
          /\ batch' = [batch EXCEPT ![w] = vs]
          /\ pc' = [pc EXCEPT ![w] = IF vs = {} THEN "publish" ELSE "read"]
    BY <1>2 DEF InitOrders
  <2>2. vs \subseteq Videos
    BY <1>2, DeliveryType DEF InitOrders, Resolutions, Active
  <2> QED
    BY <1>2, <2>1, <2>2 DEF TypeOK, InitOrders, Active, tables, broker
<1>3. CASE ReadPlaylists(w)
  BY <1>3, DeliveryType
  DEF TypeOK, ReadPlaylists, Selected, View, PlaylistViews, Active, tables, broker
<1>4. CASE \E p \in Playlists : StoreBatch(w, p)
  BY <1>4, StoreType
<1>5. CASE \E p \in Playlists : Refuse(w, p)
  BY <1>5 DEF TypeOK, Refuse, Active, tables, broker
<1>6. CASE Stored(w)
  BY <1>6 DEF TypeOK, Stored, Active, tables, broker
<1>7. CASE Ack(w) \/ Raise(w)
  BY <1>7, EndType
<1> QED
  BY <1>1, <1>2, <1>3, <1>4, <1>5, <1>6, <1>7 DEF Handle

LEMMA NextType == TypeOK /\ [Next]_vars => TypeOK'
<1> SUFFICES ASSUME TypeOK, [Next]_vars PROVE TypeOK'
  OBVIOUS
<1>1. CASE \E o \in Orders : Submit(o)
  BY <1>1 DEF TypeOK, Submit, Active, tables, locals
<1>2. CASE \E w \in Workers, o \in Orders : Take(w, o)
  BY <1>2, TakeType
<1>3. CASE \E w \in Workers : Handle(w)
  BY <1>3, HandleType
<1>4. CASE \E w \in Workers : Crash(w)
  BY <1>4, EndType
<1>5. ASSUME NEW w \in Workers, LoseConnection(w) PROVE TypeOK'
  BY <1>5, ReleaseType DEF TypeOK, LoseConnection, Active, tables
<1>6. CASE Owner
  BY <1>6, OwnerType
<1>7. CASE UNCHANGED vars
  BY <1>7 DEF TypeOK, Active, vars, broker, tables, locals
<1> QED
  BY <1>1, <1>2, <1>3, <1>4, <1>5, <1>6, <1>7 DEF Next

THEOREM TypeCorrect == Spec => []TypeOK
BY InitType, NextType, PTL DEF Spec

-----------------------------------------------------------------------------
(* A step either is one of the handler's own or leaves its locals alone.   *)

Step(w) ==
    \/ \E o \in Orders : Take(w, o)
    \/ Handle(w) \/ Crash(w) \/ LoseConnection(w)

LocalsKept(w) ==
    /\ pc'[w] = pc[w]
    /\ delivery'[w] = delivery[w]
    /\ lease'[w] = lease[w]
    /\ batch'[w] = batch[w]
    /\ snap'[w] = snap[w]
    /\ todo'[w] = todo[w]
    /\ added'[w] = added[w]
    /\ refused'[w] = refused[w]

LEMMA OthersStep ==
    ASSUME TypeOK, [Next]_vars, NEW w \in Workers
    PROVE  Step(w) \/ LocalsKept(w)
<1>1. CASE UNCHANGED locals
  BY <1>1 DEF LocalsKept, locals
<1>2. ASSUME NEW v \in Workers, v # w, NEW o \in Orders, Take(v, o)
      PROVE  LocalsKept(w)
  BY <1>2 DEF Take, LocalsKept, TypeOK
<1>3. ASSUME NEW v \in Workers, v # w, Forget(v)
      PROVE  LocalsKept(w)
  BY <1>3 DEF Forget, LocalsKept, TypeOK
<1>4. ASSUME NEW v \in Workers, v # w, Handle(v)
      PROVE  LocalsKept(w)
  <2>1. CASE Forget(v)
    BY <1>3, <1>4, <2>1
  <2>2. CASE InitFails(v) \/ InitOrders(v) \/ ReadPlaylists(v) \/ Stored(v)
    BY <1>4, <2>2 DEF InitFails, InitOrders, ReadPlaylists, Stored, LocalsKept, TypeOK
  <2>3. CASE \E p \in Playlists : StoreBatch(v, p) \/ Refuse(v, p)
    BY <1>4, <2>3 DEF StoreBatch, Refuse, LocalsKept, TypeOK
  <2>4. CASE AnnounceTrack(v) \/ CompleteOrder(v) \/ AnnounceRejection(v) \/ CancelOrder(v)
    BY <1>4, <2>4
    DEF AnnounceTrack, CompleteOrder, AnnounceRejection, CancelOrder, LocalsKept, TypeOK,
        locals
  <2> QED
    BY <1>4, <2>1, <2>2, <2>3, <2>4 DEF Handle, Ack, Raise
<1>5. ASSUME NEW v \in Workers, v # w, LoseConnection(v)
      PROVE  LocalsKept(w)
  BY <1>5 DEF LoseConnection, LocalsKept, TypeOK
<1>6. CASE Owner
  BY <1>1, <1>6 DEF Owner, ToggleRequests, ToggleSource, RemoveTrack, DeletePlaylist
<1> QED
  BY <1>1, <1>2, <1>3, <1>4, <1>5, <1>6 DEF Next, Submit, Crash, Step, vars

-----------------------------------------------------------------------------
(* What is announced was stored.  The rows a handler still has to announce *)
(* are rows of their playlists, and rows only disappear with the playlist. *)

AddedWereStored == \A w \in Workers : \A e \in added[w] : StoredEntry(e)

StoredInv == AnnouncedWereStored /\ AddedWereStored

(* The tables change by a handler's commit or through the owner. *)
LEMMA TablesStep ==
    ASSUME [Next]_vars
    PROVE  \/ UNCHANGED tables
           \/ \E w \in Workers, p \in Playlists : StoreBatch(w, p)
           \/ Owner
BY DEF Next, Handle, Submit, Take, InitFails, InitOrders, ReadPlaylists, Refuse, Stored,
       AnnounceTrack, CompleteOrder, AnnounceRejection, CancelOrder, Ack, Raise, Crash,
       LoseConnection, vars

LEMMA RowsStay ==
    ASSUME TypeOK, [Next]_vars, NEW p \in Playlists, p \in exists'
    PROVE  /\ p \in exists
           /\ active[p] \cup removed[p] \subseteq active'[p] \cup removed'[p]
<1>1. CASE UNCHANGED tables
  BY <1>1 DEF tables
<1>2. ASSUME NEW w \in Workers, NEW q \in Playlists, StoreBatch(w, q)
      PROVE  /\ p \in exists
             /\ active[p] \cup removed[p] \subseteq active'[p] \cup removed'[p]
  BY <1>2 DEF StoreBatch, TypeOK
<1>3. CASE Owner
  <2>1. PICK q \in Playlists :
          \/ ToggleRequests(q) \/ ToggleSource(q) \/ DeletePlaylist(q)
          \/ \E row \in active[q] : RemoveTrack(q, row)
    BY <1>3 DEF Owner
  <2>2. CASE ToggleRequests(q) \/ ToggleSource(q)
    BY <2>2 DEF ToggleRequests, ToggleSource
  <2>3. CASE DeletePlaylist(q)
    BY <2>3 DEF DeletePlaylist, TypeOK
  <2>4. CASE \E row \in active[q] : RemoveTrack(q, row)
    BY <2>4 DEF RemoveTrack, TypeOK
  <2> QED
    BY <2>1, <2>2, <2>3, <2>4
<1> QED
  BY <1>1, <1>2, <1>3, TablesStep

LEMMA StoredStays ==
    ASSUME TypeOK, [Next]_vars, NEW e \in Entries, StoredEntry(e)
    PROVE  StoredEntry(e)'
BY RowsStay DEF StoredEntry, Entries

(* Only a handler adds to its own list, by storing; and what is announced *)
(* or confirmed is on the list of a handler.                               *)
LEMMA AddedStep ==
    ASSUME TypeOK, AddedWereStored, [Next]_vars,
           NEW w \in Workers, NEW e \in added'[w]
    PROVE  StoredEntry(e)'
<1>1. CASE e \in added[w]
  <2>1. StoredEntry(e) /\ e \in Entries
    BY <1>1 DEF AddedWereStored, TypeOK
  <2> QED
    BY <2>1, StoredStays
<1>2. CASE e \notin added[w]
  <2>1. Step(w)
    BY <1>2, OthersStep DEF LocalsKept
  <2>2. PICK p \in Playlists : StoreBatch(w, p)
    BY <1>2, <2>1
    DEF Step, Handle, Take, InitFails, InitOrders, ReadPlaylists, Refuse, Stored,
        AnnounceTrack, CompleteOrder, AnnounceRejection, CancelOrder, Ack, Raise, Crash,
        LoseConnection, Forget, locals, TypeOK
  <2>3. e \in RowsOf(delivery[w], batch[w]) \X {p}
    BY <1>2, <2>2 DEF StoreBatch, TypeOK
  <2> QED
    BY <2>2, <2>3 DEF StoreBatch, StoredEntry, TypeOK
<1> QED
  BY <1>1, <1>2

LEMMA SentStep ==
    ASSUME TypeOK, [Next]_vars, NEW m \in sent' \ sent
    PROVE  \/ m.type \notin {"TRACK_ADDED", "completed"}
           \/ \E w \in Workers : m.entry \in added[w]
<1>1. CASE UNCHANGED sent
  BY <1>1
<1>2. ASSUME NEW w \in Workers, InitFails(w)
      PROVE  m.type \notin {"TRACK_ADDED", "completed"}
  BY <1>2 DEF InitFails, Verdict
<1>3. ASSUME NEW w \in Workers, AnnounceTrack(w)
      PROVE  m.entry \in added[w]
  BY <1>3 DEF AnnounceTrack, Event
<1>4. ASSUME NEW w \in Workers, CompleteOrder(w)
      PROVE  m.entry \in added[w]
  BY <1>4 DEF CompleteOrder, InDoubt, Event
<1>5. ASSUME NEW w \in Workers, AnnounceRejection(w)
      PROVE  m.type \notin {"TRACK_ADDED", "completed"}
  BY <1>5 DEF AnnounceRejection, Verdict
<1>6. ASSUME NEW w \in Workers, CancelOrder(w)
      PROVE  m.type \notin {"TRACK_ADDED", "completed"}
  BY <1>6 DEF CancelOrder, Verdict
<1> QED
  BY <1>1, <1>2, <1>3, <1>4, <1>5, <1>6
  DEF Next, Handle, Submit, Take, InitOrders, ReadPlaylists, StoreBatch, Refuse, Stored, Ack,
      Raise, Crash, LoseConnection, Owner, ToggleRequests, ToggleSource, RemoveTrack,
      DeletePlaylist, vars

LEMMA StoredNext == TypeOK /\ StoredInv /\ [Next]_vars => StoredInv'
<1> SUFFICES ASSUME TypeOK, StoredInv, [Next]_vars PROVE StoredInv'
  OBVIOUS
<1>1. AddedWereStored'
  BY AddedStep DEF StoredInv, AddedWereStored
<1>2. ASSUME NEW m \in sent', m.type \in {"TRACK_ADDED", "completed"}
      PROVE  StoredEntry(m.entry)'
  <2>1. StoredEntry(m.entry) /\ m.entry \in Entries
    <3>1. CASE m \in sent
      BY <1>2, <3>1 DEF StoredInv, AnnouncedWereStored, TypeOK, Messages
    <3>2. CASE m \notin sent
      BY <1>2, <3>2, SentStep DEF StoredInv, AddedWereStored, TypeOK
    <3> QED
      BY <3>1, <3>2
  <2> QED
    BY <2>1, StoredStays
<1> QED
  BY <1>1, <1>2 DEF StoredInv, AnnouncedWereStored

(* TRACK_ADDED and "completed" are only said of what was committed.        *)
THEOREM AnnouncedStored == Spec => []AnnouncedWereStored
<1>1. Init => StoredInv
  BY DEF Init, StoredInv, AnnouncedWereStored, AddedWereStored
<1>2. StoredInv => AnnouncedWereStored
  BY DEF StoredInv
<1> QED
  BY <1>1, <1>2, StoredNext, TypeCorrect, PTL DEF Spec

-----------------------------------------------------------------------------
(* How far a playlist can be overrun.  The argument counts, beside the     *)
(* viewers' rows, the handlers that will add one on the strength of a      *)
(* "not full" they have read: storing turns one of these into a row, and   *)
(* a handler that reads "not full" finds fewer rows than max_playlist_size.*)

Pending(p) ==
    {w \in Workers :
        pc[w] = "store" /\ p \in todo[w] /\ snap[w][p] = "free" /\ Order(w) \notin FromOwner}

(* A viewer's link yields one track. *)
SingleTracks ==
    \A w \in Workers :
        pc[w] \in {"read", "store"} /\ Order(w) \notin FromOwner
            => \E v \in Videos : batch[w] = {v}

PendingBounded ==
    \A p \in Playlists :
        MaxSize[p] > 0
            => Cardinality(ViewerRows(p)) + Cardinality(Pending(p))
                 < MaxSize[p] + Cardinality(Workers)

LEMMA RowsFinite == IsFiniteSet(Rows)
<1>1. IsFiniteSet(1 .. MaxDeliveries)
  BY FS_Interval
<1>2. IsFiniteSet(Orders \X (1 .. MaxDeliveries))
  BY <1>1, FS_Product
<1> QED
  BY <1>2, FS_Product DEF Rows, Deliveries

LEMMA CountsType ==
    ASSUME TypeOK, NEW p \in Playlists
    PROVE  /\ IsFiniteSet(ViewerRows(p))
           /\ IsFiniteSet(Pending(p))
           /\ Cardinality(active[p]) \in Nat
           /\ Cardinality(ViewerRows(p)) \in Nat
           /\ Cardinality(ViewerRows(p)) <= Cardinality(active[p])
           /\ Cardinality(Pending(p)) \in Nat
           /\ Cardinality(Pending(p)) <= Cardinality(Workers)
           /\ Cardinality(Workers) \in Nat
<1>1. IsFiniteSet(active[p])
  BY RowsFinite, FS_Subset DEF TypeOK
<1>2. ViewerRows(p) \in SUBSET active[p] /\ Pending(p) \in SUBSET Workers
  BY DEF ViewerRows, Pending
<1>3. IsFiniteSet(ViewerRows(p)) /\ Cardinality(ViewerRows(p)) <= Cardinality(active[p])
  BY <1>1, <1>2, FS_Subset
<1>4. IsFiniteSet(Pending(p)) /\ Cardinality(Pending(p)) <= Cardinality(Workers)
  BY <1>2, FS_Subset
<1> QED
  BY <1>1, <1>3, <1>4, FS_CardinalityType

LEMMA SingleTracksNext == TypeOK /\ SingleTracks /\ [Next]_vars => SingleTracks'
<1> SUFFICES ASSUME TypeOK, SingleTracks, [Next]_vars,
                    NEW w \in Workers, (pc[w] \in {"read", "store"})',
                    (Order(w) \notin FromOwner)'
             PROVE  (\E v \in Videos : batch[w] = {v})'
  BY DEF SingleTracks
<1>1. CASE LocalsKept(w)
  BY <1>1 DEF LocalsKept, SingleTracks, Order
<1>2. CASE InitOrders(w)
  <2>1. PICK vs \in Resolutions(Order(w)) :
          /\ batch' = [batch EXCEPT ![w] = vs]
          /\ delivery' = delivery
    BY <1>2 DEF InitOrders
  <2>2. /\ Order(w) \notin FromOwner
        /\ Order(w) \in Orders
    BY <1>2, <2>1, DeliveryType DEF Order, InitOrders, Active
  <2> QED
    BY <2>1, <2>2 DEF Resolutions, TypeOK
<1>3. CASE ReadPlaylists(w) \/ \E p \in Playlists : StoreBatch(w, p) \/ Refuse(w, p)
  BY <1>3 DEF ReadPlaylists, StoreBatch, Refuse, SingleTracks, TypeOK, Order
<1>4. CASE LoseConnection(w)
  BY <1>4 DEF LoseConnection, SingleTracks, TypeOK, Order
<1> QED
  BY <1>1, <1>2, <1>3, <1>4, OthersStep
  DEF Step, Handle, Take, InitFails, Stored, AnnounceTrack, CompleteOrder, AnnounceRejection,
      CancelOrder, Ack, Raise, Crash, Forget, TypeOK, locals

(* Only a read of "not full" makes a handler pending. *)
LEMMA PendingStep ==
    ASSUME TypeOK, [Next]_vars, NEW p \in Playlists,
           NEW w \in Pending(p)' \ Pending(p)
    PROVE  ReadPlaylists(w) /\ ~Full(p)
<1>1. /\ w \in Workers
      /\ pc'[w] = "store" /\ p \in todo'[w] /\ snap'[w][p] = "free"
      /\ delivery'[w][1] \notin FromOwner
      /\ ~(/\ pc[w] = "store" /\ p \in todo[w] /\ snap[w][p] = "free"
           /\ delivery[w][1] \notin FromOwner)
  BY DEF Pending, Order
<1>2. ~LocalsKept(w)
  BY <1>1 DEF LocalsKept
<1>3. CASE \E o \in Orders : Take(w, o)
  BY <1>1, <1>3 DEF Take, TypeOK
<1>4. CASE InitFails(w) \/ InitOrders(w) \/ Stored(w)
  BY <1>1, <1>4 DEF InitFails, InitOrders, Stored, TypeOK
<1>5. CASE \E q \in Playlists : StoreBatch(w, q) \/ Refuse(w, q)
  BY <1>1, <1>5 DEF StoreBatch, Refuse, TypeOK
<1>6. CASE AnnounceTrack(w) \/ CompleteOrder(w) \/ AnnounceRejection(w) \/ CancelOrder(w)
  BY <1>1, <1>6 DEF AnnounceTrack, CompleteOrder, AnnounceRejection, CancelOrder, locals
<1>7. CASE Ack(w) \/ Raise(w) \/ Crash(w)
  BY <1>1, <1>7 DEF Ack, Raise, Crash, Forget, TypeOK
<1>8. CASE LoseConnection(w)
  BY <1>1, <1>8 DEF LoseConnection
<1>9. ReadPlaylists(w)
  BY <1>1, <1>2, <1>3, <1>4, <1>5, <1>6, <1>7, <1>8, OthersStep DEF Step, Handle
<1> QED
  BY <1>1, <1>9 DEF ReadPlaylists, View, TypeOK

(* Only a viewer's batch adds to the viewers' rows. *)
LEMMA ViewerRowsStep ==
    ASSUME TypeOK, [Next]_vars, NEW p \in Playlists,
           NEW row \in ViewerRows(p)' \ ViewerRows(p)
    PROVE  \E w \in Workers : StoreBatch(w, p) /\ Order(w) \notin FromOwner
<1>1. row \in active'[p] /\ row \notin active[p] /\ FromViewer(row)
  BY DEF ViewerRows, FromViewer
<1>2. PICK w \in Workers, q \in Playlists : StoreBatch(w, q)
  <2>1. ~UNCHANGED tables
    BY <1>1 DEF tables
  <2>2. ~Owner
    BY <1>1 DEF Owner, ToggleRequests, ToggleSource, RemoveTrack, DeletePlaylist, TypeOK
  <2> QED
    BY <2>1, <2>2, TablesStep
<1>3. q = p /\ row \in RowsOf(delivery[w], batch[w])
  BY <1>1, <1>2 DEF StoreBatch, TypeOK
<1>4. row[1] = delivery[w]
  BY <1>3 DEF RowsOf
<1> QED
  BY <1>1, <1>2, <1>3, <1>4 DEF FromViewer, Order

LEMMA ViewerStores ==
    ASSUME TypeOK, SingleTracks, [Next]_vars, NEW p \in Playlists, NEW w \in Workers,
           StoreBatch(w, p), Order(w) \notin FromOwner
    PROVE  /\ w \in Pending(p)
           /\ Pending(p)' \subseteq Pending(p) \ {w}
           /\ \E row : ViewerRows(p)' \subseteq ViewerRows(p) \cup {row}
<1>1. w \in Pending(p)
  BY DEF StoreBatch, MayStore, Pending
<1>2. Pending(p)' \subseteq Pending(p) \ {w}
  BY DEF StoreBatch, Pending, TypeOK, Order
<1>3. PICK v \in Videos : batch[w] = {v}
  BY DEF SingleTracks, StoreBatch
<1>4. RowsOf(delivery[w], batch[w]) = {<<delivery[w], v>>}
  BY <1>3 DEF RowsOf
<1>5. active'[p] = active[p] \cup {<<delivery[w], v>>}
  BY <1>4 DEF StoreBatch, TypeOK
<1>6. ViewerRows(p)' \subseteq ViewerRows(p) \cup {<<delivery[w], v>>}
  BY <1>5 DEF ViewerRows, FromViewer
<1> QED
  BY <1>1, <1>2, <1>6

LEMMA PendingNext ==
    TypeOK /\ SingleTracks /\ PendingBounded /\ [Next]_vars => PendingBounded'
<1> SUFFICES ASSUME TypeOK, SingleTracks, PendingBounded, [Next]_vars,
                    NEW p \in Playlists, MaxSize[p] > 0
             PROVE  Cardinality(ViewerRows(p)') + Cardinality(Pending(p)')
                      < MaxSize[p] + Cardinality(Workers)
  BY DEF PendingBounded
<1> DEFINE V == ViewerRows(p)   P == Pending(p)
           W == ViewerRows(p)'  Q == Pending(p)'
<1>1. /\ IsFiniteSet(V) /\ IsFiniteSet(P)
      /\ Cardinality(V) \in Nat /\ Cardinality(P) \in Nat
      /\ Cardinality(V) <= Cardinality(active[p])
      /\ Cardinality(active[p]) \in Nat
      /\ Cardinality(Workers) \in Nat
  BY CountsType
<1>2. Q \in SUBSET Workers /\ IsFiniteSet(Q) /\ Cardinality(Q) <= Cardinality(Workers)
  <2>1. Q \in SUBSET Workers
    BY DEF Pending
  <2> QED
    BY <2>1, FS_Subset
<1>3. IsFiniteSet(W) /\ Cardinality(W) \in Nat /\ Cardinality(Q) \in Nat
  <2>1. active'[p] \in SUBSET Rows
    BY NextType DEF TypeOK
  <2>2. W \in SUBSET Rows
    BY <2>1 DEF ViewerRows
  <2>3. IsFiniteSet(W)
    BY <2>2, RowsFinite, FS_Subset
  <2> QED
    BY <1>2, <2>3, FS_CardinalityType
<1>4. /\ MaxSize[p] \in Nat
      /\ Cardinality(V) + Cardinality(P) < MaxSize[p] + Cardinality(Workers)
  BY DEF PendingBounded
<1>5. CASE \E w \in Workers : StoreBatch(w, p) /\ Order(w) \notin FromOwner
  <2>1. PICK w \in Workers : StoreBatch(w, p) /\ Order(w) \notin FromOwner
    BY <1>5
  <2>2. PICK row : W \subseteq V \cup {row}
    BY <2>1, ViewerStores
  <2>3. w \in P /\ Q \subseteq P \ {w}
    BY <2>1, ViewerStores
  <2>4. Cardinality(W) <= Cardinality(V) + 1
    <3>0. /\ IsFiniteSet(V \cup {row})
          /\ Cardinality(V \cup {row})
               = IF row \in V THEN Cardinality(V) ELSE Cardinality(V) + 1
      BY <1>1, FS_AddElement
    <3>1. IsFiniteSet(V \cup {row}) /\ Cardinality(V \cup {row}) <= Cardinality(V) + 1
      BY <1>1, <3>0
    <3>2. Cardinality(W) <= Cardinality(V \cup {row})
      BY <2>2, <3>1, FS_Subset
    <3> QED
      BY <1>1, <1>3, <3>1, <3>2, FS_CardinalityType
  <2>5. Cardinality(Q) <= Cardinality(P) - 1
    <3>1. IsFiniteSet(P \ {w}) /\ Cardinality(P \ {w}) = Cardinality(P) - 1
      BY <1>1, <2>3, FS_RemoveElement
    <3> QED
      BY <2>3, <3>1, FS_Subset
  <2> QED
    BY <1>1, <1>3, <1>4, <2>4, <2>5
<1>6. CASE /\ ~\E w \in Workers : StoreBatch(w, p) /\ Order(w) \notin FromOwner
           /\ Q \subseteq P
  <2>1. W \subseteq V
    BY <1>6, ViewerRowsStep
  <2>2. Cardinality(W) <= Cardinality(V) /\ Cardinality(Q) <= Cardinality(P)
    BY <1>1, <1>6, <2>1, FS_Subset
  <2> QED
    BY <1>1, <1>3, <1>4, <2>2
<1>7. CASE \E w \in Q : w \notin P
  <2>1. PICK w \in Workers : ReadPlaylists(w) /\ ~Full(p)
    BY <1>7, PendingStep DEF Pending
  <2>2. W = V
    BY <2>1 DEF ReadPlaylists, ViewerRows, tables
  <2>3. Cardinality(V) < MaxSize[p]
    BY <1>1, <1>4, <2>1 DEF Full
  <2> QED
    BY <1>1, <1>2, <1>3, <1>4, <2>2, <2>3
<1> QED
  BY <1>5, <1>6, <1>7

LEMMA PendingInit == Init => SingleTracks /\ PendingBounded
<1> SUFFICES ASSUME Init PROVE SingleTracks /\ PendingBounded
  OBVIOUS
<1>1. SingleTracks
  BY DEF Init, SingleTracks
<1>2. ASSUME NEW p \in Playlists, MaxSize[p] > 0
      PROVE  Cardinality(ViewerRows(p)) + Cardinality(Pending(p))
               < MaxSize[p] + Cardinality(Workers)
  <2>1. ViewerRows(p) = {} /\ Pending(p) = {}
    BY DEF Init, ViewerRows, Pending
  <2> QED
    BY <1>2, <2>1, FS_EmptySet, FS_CardinalityType
<1> QED
  BY <1>1, <1>2 DEF PendingBounded

(* A limited playlist is overrun by less than the number of handlers.      *)
THEOREM OverrunIsBounded == Spec => []OverrunBounded
<1>1. TypeOK /\ PendingBounded => OverrunBounded
  <2> SUFFICES ASSUME TypeOK, PendingBounded, NEW p \in Playlists, MaxSize[p] > 0
               PROVE  Cardinality(ViewerRows(p)) < MaxSize[p] + Cardinality(Workers)
    BY DEF OverrunBounded
  <2> QED
    BY CountsType DEF PendingBounded
<1> QED
  BY <1>1, PendingInit, SingleTracksNext, PendingNext, TypeCorrect, PTL DEF Spec

-----------------------------------------------------------------------------
(* Nothing a handler read goes unanswered.  A playlist it has read is in   *)
(* its loop, refused, or has its answer; for a playlist that took the      *)
(* batch, each track is confirmed or waits to be.                          *)

Phases ==
    \A w \in Workers :
        /\ pc[w] # "store" => todo[w] = {}
        /\ pc[w] \in {"idle", "init", "read"} =>
              /\ snap[w] = Unread
              /\ added[w] = {} /\ refused[w] = {}

Confirming(w, p) ==
    \A row \in RowsOf(delivery[w], batch[w]) :
        <<row, p>> \in added[w] \/ Event("completed", <<row, p>>) \in sent

Accounted(w, p) ==
    \/ p \in todo[w] \cup refused[w]
    \/ Verdict("cancelled", delivery[w], p) \in sent
    \/ Confirming(w, p)

SeenAccounted == \A w \in Workers : \A p \in Seen(w) : Accounted(w, p)

LEMMA SentGrows == [Next]_vars => sent \subseteq sent'
BY DEF Next, Handle, Submit, Take, InitFails, InitOrders, ReadPlaylists, StoreBatch, Refuse,
       Stored, AnnounceTrack, CompleteOrder, AnnounceRejection, CancelOrder, Ack, Raise, Crash,
       LoseConnection, Owner, ToggleRequests, ToggleSource, RemoveTrack, DeletePlaylist, vars

LEMMA PhasesNext == TypeOK /\ Phases /\ [Next]_vars => Phases'
<1> SUFFICES ASSUME TypeOK, Phases, [Next]_vars, NEW w \in Workers
             PROVE  /\ pc'[w] # "store" => todo'[w] = {}
                    /\ pc'[w] \in {"idle", "init", "read"} =>
                          /\ snap'[w] = Unread
                          /\ added'[w] = {} /\ refused'[w] = {}
  BY DEF Phases
<1>1. CASE LocalsKept(w)
  BY <1>1 DEF LocalsKept, Phases
<1>2. CASE Forget(w)
  BY <1>2 DEF Forget, TypeOK
<1>3. CASE (\E o \in Orders : Take(w, o)) \/ LoseConnection(w)
  BY <1>3 DEF Take, LoseConnection, Phases, TypeOK
<1>4. CASE InitFails(w) \/ InitOrders(w) \/ ReadPlaylists(w) \/ Stored(w)
  BY <1>4 DEF InitFails, InitOrders, ReadPlaylists, Stored, Phases, TypeOK
<1>5. CASE \E p \in Playlists : StoreBatch(w, p) \/ Refuse(w, p)
  BY <1>5 DEF StoreBatch, Refuse, Phases, TypeOK
<1>6. CASE AnnounceTrack(w) \/ CompleteOrder(w) \/ AnnounceRejection(w) \/ CancelOrder(w)
  BY <1>6 DEF AnnounceTrack, CompleteOrder, AnnounceRejection, CancelOrder, Phases, TypeOK,
              locals
<1> QED
  BY <1>1, <1>2, <1>3, <1>4, <1>5, <1>6, OthersStep DEF Step, Handle, Ack, Raise, Crash

LEMMA SeenAccountedNext ==
    TypeOK /\ Phases /\ SeenAccounted /\ [Next]_vars => SeenAccounted'
<1> SUFFICES ASSUME TypeOK, Phases, SeenAccounted, [Next]_vars, NEW w \in Workers,
                    NEW p \in Playlists, snap'[w][p] # "absent"
             PROVE  Accounted(w, p)'
  BY DEF SeenAccounted, Seen
<1>1. sent \subseteq sent'
  BY SentGrows
<1>2. CASE /\ delivery'[w] = delivery[w] /\ batch'[w] = batch[w] /\ snap'[w] = snap[w]
           /\ todo[w] \cup refused[w] \subseteq todo'[w] \cup refused'[w]
           /\ added[w] \subseteq added'[w]
  <2>1. Accounted(w, p)
    BY <1>2 DEF SeenAccounted, Seen
  <2> QED
    BY <1>1, <1>2, <2>1 DEF Accounted, Confirming
<1>3. CASE Forget(w)
  BY <1>3 DEF Forget, Unread, TypeOK
<1>4. CASE \E o \in Orders : Take(w, o)
  BY <1>4 DEF Take, Phases, Unread, TypeOK
<1>5. CASE InitOrders(w)
  BY <1>5 DEF InitOrders, Phases, Unread, TypeOK
<1>6. CASE ReadPlaylists(w)
  BY <1>6 DEF ReadPlaylists, Accounted, Selected, TypeOK
<1>7. ASSUME NEW q \in Playlists, StoreBatch(w, q) PROVE Accounted(w, p)'
  <2>1. Accounted(w, p)
    BY <1>7 DEF SeenAccounted, Seen, StoreBatch
  <2>2. CASE p # q
    BY <1>7, <2>1, <2>2 DEF StoreBatch, Accounted, Confirming, TypeOK
  <2>3. CASE p = q
    BY <1>7, <2>3 DEF StoreBatch, Accounted, Confirming, TypeOK
  <2> QED
    BY <2>2, <2>3
<1>8. CASE CompleteOrder(w)
  <2>1. Accounted(w, p)
    BY <1>8 DEF SeenAccounted, Seen, CompleteOrder
  <2>2. PICK e : /\ sent' = sent \cup {Event("completed", e)}
                 /\ added'[w] = added[w] \ {e}
    BY <1>8 DEF CompleteOrder, TypeOK
  <2>3. Confirming(w, p) => Confirming(w, p)'
    BY <1>8, <2>2 DEF CompleteOrder, Confirming
  <2> QED
    BY <1>8, <2>1, <2>3 DEF CompleteOrder, Accounted
<1>9. CASE CancelOrder(w)
  <2>1. Accounted(w, p)
    BY <1>9 DEF SeenAccounted, Seen, CancelOrder
  <2> QED
    BY <1>9, <2>1 DEF CancelOrder, Accounted, Confirming, TypeOK
<1>10. CASE \E q \in Playlists : Refuse(w, q)
  BY <1>2, <1>10 DEF Refuse, TypeOK
<1>11. CASE \/ InitFails(w) \/ Stored(w) \/ AnnounceTrack(w) \/ AnnounceRejection(w)
            \/ LoseConnection(w) \/ LocalsKept(w)
  BY <1>2, <1>11
  DEF InitFails, Stored, AnnounceTrack, AnnounceRejection, LoseConnection, LocalsKept, locals
<1> QED
  BY <1>3, <1>4, <1>5, <1>6, <1>7, <1>8, <1>9, <1>10, <1>11, OthersStep
  DEF Step, Handle, Ack, Raise, Crash

(* A message is acknowledged only after every playlist read has an answer. *)
THEOREM AnsweredFirst == Spec => []AnsweredBeforeAck
<1>1. Init => Phases /\ SeenAccounted
  BY DEF Init, Phases, SeenAccounted, Seen, Unread
<1>2. Phases /\ SeenAccounted => AnsweredBeforeAck
  BY DEF Phases, SeenAccounted, AnsweredBeforeAck, Answered, Finished, Accounted, Confirming
<1> QED
  BY <1>1, <1>2, PhasesNext, SeenAccountedNext, TypeCorrect, PTL DEF Spec

-----------------------------------------------------------------------------
(* One delivery, one verdict.  No two handlers work on the same delivery   *)
(* and nothing is said of a delivery before it is made; a handler has each *)
(* playlist in one of three states, to do, refused or taking its tracks,   *)
(* and what it has told the bot agrees with the state.                     *)

About(m) == IF m.type \in {"TRACK_ADDED", "completed"} THEN m.entry[1][1] ELSE m.delivery

OwnEntries == \A w \in Workers : \A e \in added[w] : Active(w) /\ e[1][1] = delivery[w]

DeliveriesMade ==
    /\ \A w \in Workers : Active(w) => delivery[w][2] <= tries[delivery[w][1]]
    /\ \A m \in sent : About(m)[2] <= tries[About(m)[1]]

DeliveriesApart ==
    \A v, w \in Workers : Active(v) /\ Active(w) /\ v # w => delivery[v] # delivery[w]

LEMMA OwnEntriesNext == TypeOK /\ OwnEntries /\ [Next]_vars => OwnEntries'
<1> SUFFICES ASSUME TypeOK, OwnEntries, [Next]_vars, NEW w \in Workers, NEW e \in added'[w]
             PROVE  pc'[w] # "idle" /\ e[1][1] = delivery'[w]
  BY DEF OwnEntries, Active
<1>1. CASE LocalsKept(w)
  BY <1>1 DEF LocalsKept, OwnEntries, Active
<1>2. CASE Forget(w)
  BY <1>2 DEF Forget, TypeOK
<1>3. CASE (\E o \in Orders : Take(w, o)) \/ LoseConnection(w)
  BY <1>3 DEF Take, LoseConnection, OwnEntries, Active, TypeOK
<1>4. CASE InitFails(w) \/ InitOrders(w) \/ ReadPlaylists(w) \/ Stored(w)
  BY <1>4 DEF InitFails, InitOrders, ReadPlaylists, Stored, OwnEntries, Active, TypeOK
<1>5. ASSUME NEW p \in Playlists, StoreBatch(w, p)
      PROVE  pc'[w] # "idle" /\ e[1][1] = delivery'[w]
  <2>1. e \in added[w] \/ e \in RowsOf(delivery[w], batch[w]) \X {p}
    BY <1>5 DEF StoreBatch, TypeOK
  <2> QED
    BY <1>5, <2>1 DEF StoreBatch, RowsOf, OwnEntries, TypeOK
<1>6. CASE \E p \in Playlists : Refuse(w, p)
  BY <1>6 DEF Refuse, OwnEntries, Active, TypeOK
<1>7. CASE AnnounceTrack(w) \/ CompleteOrder(w) \/ AnnounceRejection(w) \/ CancelOrder(w)
  BY <1>7 DEF AnnounceTrack, CompleteOrder, AnnounceRejection, CancelOrder, OwnEntries, Active,
              TypeOK, locals
<1> QED
  BY <1>1, <1>2, <1>3, <1>4, <1>5, <1>6, <1>7, OthersStep DEF Step, Handle, Ack, Raise, Crash

(* Who speaks, and of which delivery. *)
LEMMA SpeakerStep ==
    ASSUME TypeOK, OwnEntries, [Next]_vars, NEW m \in sent' \ sent
    PROVE  \E w \in Workers : Active(w) /\ Handle(w) /\ About(m) = delivery[w]
<1>1. ASSUME NEW w \in Workers, InitFails(w)
      PROVE  Active(w) /\ About(m) = delivery[w]
  BY <1>1 DEF InitFails, Verdict, About, Active
<1>2. ASSUME NEW w \in Workers, AnnounceTrack(w) \/ CompleteOrder(w)
      PROVE  Active(w) /\ About(m) = delivery[w]
  <2>1. PICK e \in added[w] : m = Event("TRACK_ADDED", e) \/ m = Event("completed", e)
    BY <1>2 DEF AnnounceTrack, CompleteOrder, InDoubt
  <2> QED
    BY <2>1 DEF Event, About, OwnEntries
<1>3. ASSUME NEW w \in Workers, AnnounceRejection(w) \/ CancelOrder(w)
      PROVE  Active(w) /\ About(m) = delivery[w]
  <2>1. PICK p : \/ m = Verdict("TRACK_REJECTED", delivery[w], p)
                 \/ m = Verdict("cancelled", delivery[w], p)
    BY <1>3 DEF AnnounceRejection, CancelOrder, Rejecting
  <2> QED
    BY <1>3, <2>1 DEF Verdict, About, AnnounceRejection, CancelOrder, Active
<1>4. \E w \in Workers : \/ InitFails(w) \/ AnnounceTrack(w) \/ CompleteOrder(w)
                         \/ AnnounceRejection(w) \/ CancelOrder(w)
  BY DEF Next, Handle, Submit, Take, InitOrders, ReadPlaylists, StoreBatch, Refuse, Stored, Ack,
         Raise, Crash, LoseConnection, Owner, ToggleRequests, ToggleSource, RemoveTrack,
         DeletePlaylist, vars
<1> QED
  BY <1>1, <1>2, <1>3, <1>4 DEF Handle

LEMMA TriesGrow ==
    ASSUME TypeOK, [Next]_vars, NEW o \in Orders
    PROVE  tries[o] <= tries'[o]
<1>1. CASE UNCHANGED tries
  BY <1>1 DEF TypeOK
<1>2. ASSUME NEW w \in Workers, NEW q \in Orders, Take(w, q) PROVE tries[o] <= tries'[o]
  BY <1>2 DEF Take, TypeOK
<1> QED
  BY <1>1, <1>2
  DEF Next, Handle, Submit, InitFails, InitOrders, ReadPlaylists, StoreBatch, Refuse, Stored,
      AnnounceTrack, CompleteOrder, AnnounceRejection, CancelOrder, Ack, Raise, Crash,
      LoseConnection, Release, Owner, ToggleRequests, ToggleSource, RemoveTrack,
      DeletePlaylist, vars, broker

(* A handler that is busy was busy with the same delivery, or just took it. *)
LEMMA BusyStep ==
    ASSUME TypeOK, [Next]_vars, NEW w \in Workers, Active(w)'
    PROVE  \/ Active(w) /\ delivery'[w] = delivery[w]
           \/ \E o \in Orders : Take(w, o)
<1>1. CASE LocalsKept(w)
  BY <1>1 DEF LocalsKept, Active
<1>2. CASE Forget(w)
  BY <1>2 DEF Forget, Active, TypeOK
<1>3. CASE Handle(w) /\ ~Forget(w)
  BY <1>3
  DEF Handle, InitFails, InitOrders, ReadPlaylists, StoreBatch, Refuse, Stored, AnnounceTrack,
      CompleteOrder, AnnounceRejection, CancelOrder, Ack, Raise, Active, TypeOK, locals
<1>4. CASE LoseConnection(w)
  BY <1>4 DEF LoseConnection, Active
<1> QED
  BY <1>1, <1>2, <1>3, <1>4, OthersStep DEF Step, Crash

LEMMA DeliveriesMadeNext ==
    TypeOK /\ OwnEntries /\ DeliveriesMade /\ [Next]_vars => DeliveriesMade'
<1> SUFFICES ASSUME TypeOK, OwnEntries, DeliveriesMade, [Next]_vars PROVE DeliveriesMade'
  OBVIOUS
<1>1. ASSUME NEW d \in Deliveries, d[2] <= tries[d[1]] PROVE d[2] <= tries'[d[1]]
  <2>1. d[1] \in Orders /\ d[2] \in Nat
    BY DEF Deliveries
  <2>2. tries[d[1]] \in Nat /\ tries'[d[1]] \in Nat
    BY <2>1, NextType DEF TypeOK
  <2> QED
    BY <1>1, <2>1, <2>2, TriesGrow
<1>2. ASSUME NEW w \in Workers, Active(w)'
      PROVE  delivery'[w][2] <= tries'[delivery'[w][1]]
  <2>1. CASE Active(w) /\ delivery'[w] = delivery[w]
    BY <1>1, <2>1, DeliveryType DEF DeliveriesMade
  <2>2. ASSUME NEW o \in Orders, Take(w, o)
        PROVE  delivery'[w][2] <= tries'[delivery'[w][1]]
    <3>1. delivery'[w] = <<o, tries[o] + 1>> /\ tries'[o] = tries[o] + 1
      BY <2>2 DEF Take, TypeOK
    <3> QED
      BY <3>1 DEF TypeOK
  <2> QED
    BY <1>2, <2>1, <2>2, BusyStep
<1>3. ASSUME NEW m \in sent' PROVE About(m)[2] <= tries'[About(m)[1]]
  <2>1. CASE m \in sent
    <3>1. About(m) \in Deliveries
      BY <2>1 DEF TypeOK, Messages, About, Entries, Rows
    <3> QED
      BY <1>1, <2>1, <3>1 DEF DeliveriesMade
  <2>2. CASE m \notin sent
    BY <1>1, <1>3, <2>2, SpeakerStep, DeliveryType DEF DeliveriesMade
  <2> QED
    BY <2>1, <2>2
<1> QED
  BY <1>2, <1>3 DEF DeliveriesMade, About

LEMMA DeliveriesApartNext ==
    TypeOK /\ DeliveriesMade /\ DeliveriesApart /\ [Next]_vars => DeliveriesApart'
<1> SUFFICES ASSUME TypeOK, DeliveriesMade, DeliveriesApart, [Next]_vars,
                    NEW v \in Workers, NEW w \in Workers, Active(v)', Active(w)', v # w
             PROVE  delivery'[v] # delivery'[w]
  BY DEF DeliveriesApart
<1>1. ASSUME NEW a \in Workers, NEW b \in Workers, a # b, Active(b)',
             NEW o \in Orders, Take(a, o)
      PROVE  delivery'[a] # delivery'[b]
  <2>1. delivery'[a] = <<o, tries[o] + 1>> /\ tries[o] \in Nat
    BY <1>1 DEF Take, TypeOK
  <2>2. Active(b) /\ delivery'[b] = delivery[b]
    BY <1>1 DEF Take, Active, TypeOK
  <2>3. delivery[b] \in Deliveries /\ delivery[b][2] <= tries[delivery[b][1]]
    BY <2>2, DeliveryType DEF DeliveriesMade
  <2> QED
    BY <2>1, <2>2, <2>3 DEF Deliveries
<1>2. CASE /\ Active(v) /\ delivery'[v] = delivery[v]
           /\ Active(w) /\ delivery'[w] = delivery[w]
  BY <1>2 DEF DeliveriesApart
<1> QED
  BY <1>1, <1>2, BusyStep

-----------------------------------------------------------------------------
Confirmed(d, p) ==
    \E e \in Entries : e[1][1] = d /\ e[2] = p /\ Event("completed", e) \in sent
Cancelled(d, p) == Verdict("cancelled", d, p) \in sent
Adding(w, p) == \E e \in added[w] : e[2] = p

Consistent(w, p) ==
    /\ p \in todo[w] => /\ p \notin refused[w] /\ ~Adding(w, p)
                        /\ ~Confirmed(delivery[w], p) /\ ~Cancelled(delivery[w], p)
    /\ p \in refused[w] => ~Adding(w, p) /\ ~Confirmed(delivery[w], p)
    /\ Adding(w, p) => ~Cancelled(delivery[w], p)
    /\ pc[w] \in {"init", "read"} =>
          ~Confirmed(delivery[w], p) /\ ~Cancelled(delivery[w], p)

HandlersConsistent ==
    \A w \in Workers : \A p \in Playlists : Active(w) => Consistent(w, p)

NeverBoth ==
    \A d \in Deliveries, p \in Playlists : ~(Confirmed(d, p) /\ Cancelled(d, p))

(* A playlist's verdict is first told by the handler of the delivery. *)
LEMMA ConfirmedStep ==
    ASSUME TypeOK, OwnEntries, [Next]_vars, NEW d, NEW p \in Playlists,
           Confirmed(d, p)', ~Confirmed(d, p)
    PROVE  \E w \in Workers : /\ CompleteOrder(w) /\ Active(w)
                             /\ delivery[w] = d /\ Adding(w, p)
<1>1. PICK e \in Entries : /\ e[1][1] = d /\ e[2] = p
                           /\ Event("completed", e) \in sent' \ sent
  BY DEF Confirmed
<1>2. PICK w \in Workers : Handle(w) /\ Active(w)
  BY <1>1, SpeakerStep
<1>3. CASE CompleteOrder(w)
  <2>1. PICK f \in added[w] : sent' = sent \cup {Event("completed", f)}
    BY <1>3 DEF CompleteOrder, InDoubt
  <2>2. e = f
    BY <1>1, <2>1 DEF Event
  <2> QED
    BY <1>1, <1>2, <1>3, <2>1, <2>2 DEF Adding, OwnEntries
<1>4. CASE ~CompleteOrder(w)
  <2>1. CASE InitFails(w) \/ CancelOrder(w) \/ AnnounceRejection(w)
    BY <1>1, <2>1
    DEF InitFails, CancelOrder, AnnounceRejection, Verdict, Event
  <2>2. CASE AnnounceTrack(w)
    BY <1>1, <2>2 DEF AnnounceTrack, Event
  <2> QED
    BY <1>1, <1>2, <1>4, <2>1, <2>2
    DEF Handle, InitOrders, ReadPlaylists, StoreBatch, Refuse, Stored, Ack, Raise
<1> QED
  BY <1>3, <1>4

LEMMA CancelledStep ==
    ASSUME TypeOK, OwnEntries, [Next]_vars, NEW d, NEW p \in Playlists,
           Cancelled(d, p)', ~Cancelled(d, p)
    PROVE  \E w \in Workers : /\ CancelOrder(w) /\ Active(w)
                             /\ delivery[w] = d /\ p \in refused[w]
<1>1. Verdict("cancelled", d, p) \in sent' \ sent
  BY DEF Cancelled
<1>2. PICK w \in Workers : Handle(w) /\ Active(w)
  BY <1>1, SpeakerStep
<1>3. CASE CancelOrder(w)
  <2>1. PICK q \in refused[w] : sent' = sent \cup {Verdict("cancelled", delivery[w], q)}
    BY <1>3 DEF CancelOrder, Rejecting
  <2>2. d = delivery[w] /\ p = q
    BY <1>1, <2>1 DEF Verdict
  <2> QED
    BY <1>2, <1>3, <2>1, <2>2
<1>4. CASE InitFails(w)
  BY <1>1, <1>4 DEF InitFails, Verdict
<1>5. CASE ~CancelOrder(w) /\ ~InitFails(w)
  <2>1. CASE AnnounceTrack(w) \/ CompleteOrder(w)
    BY <1>1, <2>1 DEF AnnounceTrack, CompleteOrder, Verdict, Event
  <2>2. CASE AnnounceRejection(w)
    BY <1>1, <2>2 DEF AnnounceRejection, Verdict
  <2> QED
    BY <1>1, <1>2, <1>5, <2>1, <2>2
    DEF Handle, InitOrders, ReadPlaylists, StoreBatch, Refuse, Stored, Ack, Raise
<1> QED
  BY <1>3, <1>4, <1>5

LEMMA NeverBothNext ==
    TypeOK /\ OwnEntries /\ HandlersConsistent /\ DeliveriesApart /\ NeverBoth /\ [Next]_vars
      => NeverBoth'
<1> SUFFICES ASSUME TypeOK, OwnEntries, HandlersConsistent, DeliveriesApart, NeverBoth,
                    [Next]_vars, NEW d \in Deliveries, NEW p \in Playlists,
                    Confirmed(d, p)', Cancelled(d, p)'
             PROVE  FALSE
  BY DEF NeverBoth
<1>1. CASE ~Confirmed(d, p)
  <2>1. PICK w \in Workers : /\ CompleteOrder(w) /\ Active(w)
                            /\ delivery[w] = d /\ Adding(w, p)
    BY <1>1, ConfirmedStep
  <2>2. ~Cancelled(d, p)
    BY <2>1 DEF HandlersConsistent, Consistent
  <2>3. PICK v \in Workers : /\ CancelOrder(v) /\ Active(v)
                            /\ delivery[v] = d /\ p \in refused[v]
    BY <2>2, CancelledStep
  <2>4. v = w
    BY <2>1, <2>3 DEF DeliveriesApart
  <2> QED
    BY <2>1, <2>3, <2>4 DEF HandlersConsistent, Consistent
<1>2. CASE Confirmed(d, p)
  <2>1. ~Cancelled(d, p)
    BY <1>2 DEF NeverBoth
  <2>2. PICK w \in Workers : /\ CancelOrder(w) /\ Active(w)
                            /\ delivery[w] = d /\ p \in refused[w]
    BY <2>1, CancelledStep
  <2> QED
    BY <1>2, <2>2 DEF HandlersConsistent, Consistent
<1> QED
  BY <1>1, <1>2

(* What the bot knows of a handler's delivery changes only when the handler*)
(* itself tells it.                                                        *)
LEMMA ToldKept ==
    ASSUME TypeOK, OwnEntries, DeliveriesApart, [Next]_vars, NEW w \in Workers, Active(w),
           NEW p \in Playlists, NEW d, d = delivery[w]
    PROVE  /\ ~CompleteOrder(w) /\ ~Confirmed(d, p) => ~Confirmed(d, p)'
           /\ ~CancelOrder(w) /\ ~Cancelled(d, p) => ~Cancelled(d, p)'
BY ConfirmedStep, CancelledStep DEF DeliveriesApart

LEMMA ConsistentStep ==
    ASSUME TypeOK, Phases, OwnEntries, DeliveriesMade, DeliveriesApart, HandlersConsistent,
           [Next]_vars, NEW w \in Workers, NEW p \in Playlists, Active(w)'
    PROVE  Consistent(w, p)'
<1> SUFFICES ASSUME NEW d, d = delivery'[w]
             PROVE  /\ p \in todo'[w] => /\ p \notin refused'[w] /\ ~Adding(w, p)'
                                         /\ ~Confirmed(d, p)' /\ ~Cancelled(d, p)'
                    /\ p \in refused'[w] => ~Adding(w, p)' /\ ~Confirmed(d, p)'
                    /\ Adding(w, p)' => ~Cancelled(d, p)'
                    /\ pc'[w] \in {"init", "read"} => ~Confirmed(d, p)' /\ ~Cancelled(d, p)'
  BY DEF Consistent, Confirmed, Cancelled
<1>1. ASSUME NEW o \in Orders, Take(w, o)
      PROVE  /\ todo'[w] = {} /\ refused'[w] = {} /\ added'[w] = {}
             /\ ~Confirmed(d, p)' /\ ~Cancelled(d, p)'
  <2>1. d = <<o, tries[o] + 1>> /\ tries[o] \in Nat /\ sent' = sent
    BY <1>1 DEF Take, TypeOK
  <2>2. ASSUME NEW m \in sent PROVE About(m) # d
    BY <2>1 DEF DeliveriesMade
  <2>3. ~Confirmed(d, p)'
    BY <2>1, <2>2 DEF Confirmed, Event, About
  <2>4. ~Cancelled(d, p)'
    BY <2>1, <2>2 DEF Cancelled, Verdict, About
  <2> QED
    BY <1>1, <2>3, <2>4 DEF Take, Phases
<1>2. CASE Active(w) /\ delivery'[w] = delivery[w]
  <2>1. d = delivery[w] /\ Consistent(w, p)
    BY <1>2 DEF HandlersConsistent
  <2>2. /\ ~CompleteOrder(w) /\ ~Confirmed(d, p) => ~Confirmed(d, p)'
        /\ ~CancelOrder(w) /\ ~Cancelled(d, p) => ~Cancelled(d, p)'
    BY <1>2, <2>1, ToldKept
  <2>3. CASE /\ ~CompleteOrder(w) /\ ~CancelOrder(w)
             /\ todo'[w] = todo[w] /\ refused'[w] = refused[w] /\ added'[w] = added[w]
             /\ pc'[w] \in {"init", "read"} => pc[w] \in {"init", "read"}
    BY <2>1, <2>2, <2>3 DEF Consistent, Adding
  <2>4. CASE ReadPlaylists(w)
    <3>1. ~CompleteOrder(w) /\ ~CancelOrder(w) /\ refused'[w] = {} /\ added'[w] = {}
      BY <2>4 DEF ReadPlaylists, CompleteOrder, CancelOrder, Phases
    <3> QED
      BY <2>1, <2>2, <2>4, <3>1 DEF ReadPlaylists, Consistent, Adding, TypeOK
  <2>5. ASSUME NEW q \in Playlists, Refuse(w, q)
        PROVE  /\ p \in todo'[w] => /\ p \notin refused'[w] /\ ~Adding(w, p)'
                                    /\ ~Confirmed(d, p)' /\ ~Cancelled(d, p)'
               /\ p \in refused'[w] => ~Adding(w, p)' /\ ~Confirmed(d, p)'
               /\ Adding(w, p)' => ~Cancelled(d, p)'
               /\ pc'[w] \notin {"init", "read"}
    <3>1. ~CompleteOrder(w) /\ ~CancelOrder(w)
      BY <2>5 DEF Refuse, CompleteOrder, CancelOrder
    <3> QED
      BY <2>1, <2>2, <2>5, <3>1 DEF Refuse, Consistent, Adding, TypeOK
  <2>6. ASSUME NEW q \in Playlists, StoreBatch(w, q)
        PROVE  /\ p \in todo'[w] => /\ p \notin refused'[w] /\ ~Adding(w, p)'
                                    /\ ~Confirmed(d, p)' /\ ~Cancelled(d, p)'
               /\ p \in refused'[w] => ~Adding(w, p)' /\ ~Confirmed(d, p)'
               /\ Adding(w, p)' => ~Cancelled(d, p)'
               /\ pc'[w] \notin {"init", "read"}
    <3>1. /\ ~CompleteOrder(w) /\ ~CancelOrder(w)
          /\ refused'[w] = refused[w] /\ todo'[w] = todo[w] \ {q} /\ q \in todo[w]
          /\ pc'[w] = "store"
          /\ \A e \in added'[w] : e \in added[w] \/ e[2] = q
      BY <2>6 DEF StoreBatch, CompleteOrder, CancelOrder, TypeOK
    <3> QED
      BY <2>1, <2>2, <3>1 DEF Consistent, Adding
  <2>7. CASE CompleteOrder(w)
    <3>1. PICK e \in added[w] : added'[w] = added[w] \ {e}
                              /\ sent' = sent \cup {Event("completed", e)}
      BY <2>7 DEF CompleteOrder, InDoubt, TypeOK
    <3>2. e[2] # p /\ ~Confirmed(d, p) => ~Confirmed(d, p)'
      BY <3>1 DEF Confirmed, Event
    <3>3. /\ ~CancelOrder(w)
          /\ todo'[w] = todo[w] /\ refused'[w] = refused[w] /\ pc'[w] = "publish"
      BY <2>7 DEF CompleteOrder, CancelOrder
    <3> QED
      BY <2>1, <2>2, <3>1, <3>2, <3>3 DEF Consistent, Adding
  <2>8. CASE CancelOrder(w)
    <3>1. PICK q \in refused[w] : refused'[w] = refused[w] \ {q}
                                /\ sent' = sent \cup {Verdict("cancelled", delivery[w], q)}
      BY <2>8 DEF CancelOrder, Rejecting, TypeOK
    <3>2. q # p /\ ~Cancelled(d, p) => ~Cancelled(d, p)'
      BY <3>1 DEF Cancelled, Verdict
    <3>3. /\ ~CompleteOrder(w)
          /\ todo'[w] = todo[w] /\ added'[w] = added[w] /\ added[w] = {} /\ pc'[w] = "publish"
      BY <2>8 DEF CompleteOrder, CancelOrder, InDoubt
    <3> QED
      BY <2>1, <2>2, <3>1, <3>2, <3>3 DEF Consistent, Adding
  <2>9. CASE LocalsKept(w) \/ LoseConnection(w)
    BY <2>3, <2>7, <2>8, <2>9 DEF LocalsKept, LoseConnection
  <2>10. CASE \/ InitFails(w) \/ InitOrders(w) \/ Stored(w)
              \/ AnnounceTrack(w) \/ AnnounceRejection(w)
    BY <2>3, <2>7, <2>8, <2>10
    DEF InitFails, InitOrders, Stored, AnnounceTrack, AnnounceRejection, TypeOK, locals
  <2>11. CASE (\E o \in Orders : Take(w, o)) \/ Forget(w)
    BY <1>2, <2>11 DEF Take, Forget, Active, TypeOK
  <2> QED
    BY <2>4, <2>5, <2>6, <2>7, <2>8, <2>9, <2>10, <2>11, OthersStep
    DEF Step, Handle, Ack, Raise, Crash
<1> QED
  BY <1>1, <1>2, BusyStep DEF Adding

VerdictInv ==
    /\ Phases /\ OwnEntries /\ DeliveriesMade /\ DeliveriesApart
    /\ HandlersConsistent /\ NeverBoth

LEMMA VerdictInit == Init => VerdictInv
<1> SUFFICES ASSUME Init PROVE VerdictInv
  OBVIOUS
<1>1. Phases
  BY DEF Init, Phases
<1>2. OwnEntries /\ DeliveriesMade /\ DeliveriesApart /\ HandlersConsistent
  BY DEF Init, OwnEntries, DeliveriesMade, DeliveriesApart, HandlersConsistent, Active
<1>3. NeverBoth
  BY DEF Init, NeverBoth, Confirmed
<1> QED
  BY <1>1, <1>2, <1>3 DEF VerdictInv

LEMMA VerdictNext == TypeOK /\ VerdictInv /\ [Next]_vars => VerdictInv'
<1> SUFFICES ASSUME TypeOK, VerdictInv, [Next]_vars PROVE VerdictInv'
  OBVIOUS
<1>1. /\ Phases /\ OwnEntries /\ DeliveriesMade /\ DeliveriesApart
      /\ HandlersConsistent /\ NeverBoth
  BY DEF VerdictInv
<1>2. HandlersConsistent'
  BY <1>1, ConsistentStep DEF HandlersConsistent
<1> QED
  BY <1>1, <1>2, PhasesNext, OwnEntriesNext, DeliveriesMadeNext, DeliveriesApartNext,
     NeverBothNext
  DEF VerdictInv

(* The bot is never told both that a delivery's track was added to a       *)
(* playlist and that the order was cancelled there.                        *)
THEOREM OneVerdictEach == Spec => []OneVerdict
<1>1. TypeOK /\ VerdictInv => OneVerdict
  <2> SUFFICES ASSUME TypeOK, NeverBoth, NEW m \in sent, NEW n \in sent,
                      m.type = "completed", n.type = "cancelled", n.playlist # NoPlaylist,
                      m.entry[1][1] = n.delivery, m.entry[2] = n.playlist
               PROVE  FALSE
    BY DEF OneVerdict, VerdictInv
  <2>1. m.entry \in Entries /\ m = Event("completed", m.entry)
    BY DEF TypeOK, Messages, Event
  <2>2. /\ n.delivery \in Deliveries /\ n.playlist \in Playlists
        /\ n = Verdict("cancelled", n.delivery, n.playlist)
    BY DEF TypeOK, Messages, Verdict
  <2>3. Confirmed(n.delivery, n.playlist) /\ Cancelled(n.delivery, n.playlist)
    BY <2>1, <2>2 DEF Confirmed, Cancelled
  <2> QED
    BY <2>2, <2>3 DEF NeverBoth
<1> QED
  BY <1>1, VerdictInit, VerdictNext, TypeCorrect, PTL DEF Spec

-----------------------------------------------------------------------------
(* What is cancelled leaves nothing.  A playlist has no row of a delivery  *)
(* that is yet to be read or stored there, that it refused, or that was    *)
(* cancelled; a row only comes from the handler of its delivery.           *)

RowAt(d, p) == \E v \in Videos : <<d, v>> \in active[p] \cup removed[p]

RowsMade == \A p \in Playlists : \A row \in active[p] \cup removed[p] :
                row[1][2] <= tries[row[1][1]]

Free(w, p) ==
    p \in todo[w] \cup refused[w] \/ pc[w] \in {"init", "read"} => ~RowAt(delivery[w], p)

HandlersFree == \A w \in Workers : \A p \in Playlists : Active(w) => Free(w, p)

CancelledFree == \A d \in Deliveries, p \in Playlists : Cancelled(d, p) => ~RowAt(d, p)

AbsenceInv == RowsMade /\ HandlersFree /\ CancelledFree

LEMMA RowStep ==
    ASSUME TypeOK, [Next]_vars, NEW p \in Playlists,
           NEW row \in (active'[p] \cup removed'[p]) \ (active[p] \cup removed[p])
    PROVE  \E w \in Workers : /\ StoreBatch(w, p) /\ Active(w)
                             /\ row[1] = delivery[w] /\ p \in todo[w]
<1>1. CASE UNCHANGED tables
  BY <1>1 DEF tables
<1>2. ASSUME NEW w \in Workers, NEW q \in Playlists, StoreBatch(w, q)
      PROVE  /\ StoreBatch(w, p) /\ Active(w)
             /\ row[1] = delivery[w] /\ p \in todo[w]
  <2>1. p = q /\ row \in RowsOf(delivery[w], batch[w])
    BY <1>2 DEF StoreBatch, TypeOK
  <2> QED
    BY <1>2, <2>1 DEF StoreBatch, RowsOf, Active
<1>3. CASE Owner
  <2>1. PICK q \in Playlists :
          \/ ToggleRequests(q) \/ ToggleSource(q) \/ DeletePlaylist(q)
          \/ \E r \in active[q] : RemoveTrack(q, r)
    BY <1>3 DEF Owner
  <2>2. CASE ToggleRequests(q) \/ ToggleSource(q)
    BY <2>2 DEF ToggleRequests, ToggleSource
  <2>3. CASE DeletePlaylist(q)
    BY <2>3 DEF DeletePlaylist, TypeOK
  <2>4. CASE \E r \in active[q] : RemoveTrack(q, r)
    BY <2>4 DEF RemoveTrack, TypeOK
  <2> QED
    BY <2>1, <2>2, <2>3, <2>4
<1> QED
  BY <1>1, <1>2, <1>3, TablesStep

LEMMA RowsMadeNext == TypeOK /\ DeliveriesMade /\ RowsMade /\ [Next]_vars => RowsMade'
<1> SUFFICES ASSUME TypeOK, DeliveriesMade, RowsMade, [Next]_vars, NEW p \in Playlists,
                    NEW row \in active'[p] \cup removed'[p]
             PROVE  row[1][2] <= tries'[row[1][1]]
  BY DEF RowsMade
<1>1. row \in Rows /\ TypeOK'
  BY NextType DEF TypeOK
<1>2. row[1][1] \in Orders /\ row[1][2] \in Nat
  BY <1>1 DEF Rows, Deliveries
<1>3. row[1][2] <= tries[row[1][1]]
  BY RowStep DEF RowsMade, DeliveriesMade
<1>4. tries[row[1][1]] <= tries'[row[1][1]]
  BY <1>2, TriesGrow
<1>5. tries[row[1][1]] \in Nat /\ tries'[row[1][1]] \in Nat
  BY <1>1, <1>2 DEF TypeOK
<1> QED
  BY <1>2, <1>3, <1>4, <1>5

LEMMA HandlersFreeNext ==
    TypeOK /\ VerdictInv /\ AbsenceInv /\ [Next]_vars => HandlersFree'
<1> SUFFICES ASSUME TypeOK, VerdictInv, AbsenceInv, [Next]_vars,
                    NEW w \in Workers, NEW p \in Playlists, Active(w)',
                    p \in todo'[w] \cup refused'[w] \/ pc'[w] \in {"init", "read"}
             PROVE  ~RowAt(delivery[w], p)'
  BY DEF HandlersFree, Free, RowAt
<1>1. ASSUME NEW o \in Orders, Take(w, o) PROVE ~RowAt(delivery[w], p)'
  <2>1. /\ delivery'[w] = <<o, tries[o] + 1>> /\ tries[o] \in Nat
        /\ active' = active /\ removed' = removed
    BY <1>1 DEF Take, TypeOK, tables
  <2>2. ASSUME NEW row \in active[p] \cup removed[p] PROVE row[1] # delivery'[w]
    BY <2>1, <2>2 DEF AbsenceInv, RowsMade
  <2> QED
    BY <2>1, <2>2 DEF RowAt
<1>2. CASE Active(w) /\ delivery'[w] = delivery[w]
  <2>1. /\ p \in todo[w] \cup refused[w] \/ pc[w] \in {"init", "read"}
        /\ \A q \in Playlists : StoreBatch(w, q) => q # p
    <3>1. CASE LocalsKept(w) \/ LoseConnection(w)
      BY <1>2, <3>1 DEF LocalsKept, LoseConnection, StoreBatch, TypeOK
    <3>2. CASE InitFails(w) \/ InitOrders(w) \/ ReadPlaylists(w)
      BY <1>2, <3>2 DEF InitFails, InitOrders, ReadPlaylists, StoreBatch, TypeOK
    <3>7. CASE Stored(w)
      <4>1. pc'[w] = "publish" /\ todo'[w] = todo[w] /\ refused'[w] = refused[w] /\ todo[w] = {}
        BY <3>7 DEF Stored, TypeOK
      <4> QED
        BY <4>1 DEF StoreBatch
    <3>3. ASSUME NEW q \in Playlists, Refuse(w, q)
          PROVE  /\ p \in todo[w] \cup refused[w]
                 /\ \A r \in Playlists : ~StoreBatch(w, r)
      <4>1. /\ todo'[w] = todo[w] \ {q} /\ q \in todo[w]
            /\ refused'[w] = refused[w] \cup {q} /\ pc'[w] = "store"
        BY <3>3 DEF Refuse, TypeOK
      <4>2. q \notin refused[w]
        BY <1>2, <4>1 DEF VerdictInv, HandlersConsistent, Consistent
      <4> QED
        BY <4>1, <4>2 DEF StoreBatch
    <3>4. ASSUME NEW q \in Playlists, StoreBatch(w, q)
          PROVE  p \in todo[w] \cup refused[w] /\ q # p
      <4>1. /\ todo'[w] = todo[w] \ {q} /\ q \in todo[w]
            /\ refused'[w] = refused[w] /\ pc'[w] = "store"
        BY <3>4 DEF StoreBatch, TypeOK
      <4>2. q \notin refused[w]
        BY <1>2, <4>1 DEF VerdictInv, HandlersConsistent, Consistent
      <4> QED
        BY <4>1, <4>2
    <3>5. CASE AnnounceTrack(w) \/ CompleteOrder(w) \/ AnnounceRejection(w) \/ CancelOrder(w)
      BY <1>2, <3>5
      DEF AnnounceTrack, CompleteOrder, AnnounceRejection, CancelOrder, StoreBatch, TypeOK,
          locals
    <3>6. CASE Forget(w) \/ \E o \in Orders : Take(w, o)
      BY <1>2, <3>6 DEF Forget, Take, Active, TypeOK
    <3> QED
      BY <3>1, <3>2, <3>3, <3>4, <3>5, <3>6, <3>7, OthersStep
      DEF Step, Handle, Ack, Raise, Crash
  <2>2. ~RowAt(delivery[w], p)
    BY <1>2, <2>1 DEF AbsenceInv, HandlersFree, Free
  <2>3. SUFFICES ASSUME NEW v \in Videos,
                        <<delivery[w], v>> \in active'[p] \cup removed'[p]
                 PROVE  FALSE
    BY <1>2 DEF RowAt
  <2>4. PICK u \in Workers : StoreBatch(u, p) /\ Active(u) /\ delivery[w] = delivery[u]
    BY <2>2, <2>3, RowStep DEF RowAt
  <2>5. u = w
    BY <1>2, <2>4 DEF VerdictInv, DeliveriesApart
  <2> QED
    BY <2>1, <2>4, <2>5
<1> QED
  BY <1>1, <1>2, BusyStep

LEMMA CancelledFreeNext ==
    TypeOK /\ VerdictInv /\ AbsenceInv /\ [Next]_vars => CancelledFree'
<1> SUFFICES ASSUME TypeOK, VerdictInv, AbsenceInv, [Next]_vars,
                    NEW d \in Deliveries, NEW p \in Playlists, Cancelled(d, p)',
                    NEW v \in Videos, <<d, v>> \in active'[p] \cup removed'[p]
             PROVE  FALSE
  BY DEF CancelledFree, RowAt
<1>1. CASE ~Cancelled(d, p)
  <2>1. PICK w \in Workers : /\ CancelOrder(w) /\ Active(w)
                            /\ delivery[w] = d /\ p \in refused[w]
    BY <1>1, CancelledStep DEF VerdictInv
  <2>2. ~RowAt(d, p)
    BY <2>1 DEF AbsenceInv, HandlersFree, Free
  <2>3. active' = active /\ removed' = removed
    BY <2>1 DEF CancelOrder, tables
  <2> QED
    BY <2>2, <2>3 DEF RowAt
<1>2. CASE Cancelled(d, p)
  <2>1. ~RowAt(d, p)
    BY <1>2 DEF AbsenceInv, CancelledFree
  <2>2. PICK w \in Workers : /\ StoreBatch(w, p) /\ Active(w)
                            /\ d = delivery[w] /\ p \in todo[w]
    BY <2>1, RowStep DEF RowAt
  <2> QED
    BY <1>2, <2>2 DEF VerdictInv, HandlersConsistent, Consistent
<1> QED
  BY <1>1, <1>2

LEMMA AbsenceInit == Init => AbsenceInv
BY DEF Init, AbsenceInv, RowsMade, HandlersFree, CancelledFree, Active, RowAt

LEMMA AbsenceNext == TypeOK /\ VerdictInv /\ AbsenceInv /\ [Next]_vars => AbsenceInv'
BY RowsMadeNext, HandlersFreeNext, CancelledFreeNext DEF AbsenceInv, VerdictInv

(* Where the bot was told of a refusal, no track of the delivery ever is.  *)
THEOREM CancelledLeavesNothing == Spec => []CancelledNotStored
<1>1. TypeOK /\ AbsenceInv => CancelledNotStored
  <2> SUFFICES ASSUME TypeOK, CancelledFree, NEW m \in sent,
                      m.type = "cancelled", m.playlist # NoPlaylist
               PROVE  ~RowAt(m.delivery, m.playlist)
    BY DEF CancelledNotStored, AbsenceInv, RowAt
  <2>1. /\ m.delivery \in Deliveries /\ m.playlist \in Playlists
        /\ m = Verdict("cancelled", m.delivery, m.playlist)
    BY DEF TypeOK, Messages, Verdict
  <2> QED
    BY <2>1 DEF CancelledFree, Cancelled
<1> QED
  BY <1>1, VerdictInit, VerdictNext, AbsenceInit, AbsenceNext, TypeCorrect, PTL DEF Spec

-----------------------------------------------------------------------------
(* Acknowledged once means told.  A handler that holds its message is its  *)
(* only holder; one whose channel is gone has given it back; so a row of a *)
(* first delivery is told, or its message was given back or dropped, or    *)
(* the handler that will acknowledge it still has the row to tell.         *)

LeasesHeld ==
    \A w \in Workers :
        /\ lease[w] => /\ Active(w)
                       /\ queue[Order(w)] = "taken"
                       /\ delivery[w][2] = tries[Order(w)]
        /\ Active(w) /\ ~lease[w] /\ delivery[w][2] = tries[Order(w)]
             => queue[Order(w)] = "ready"

ToldOf(e) == {Event("TRACK_ADDED", e), Event("completed", e)} \subseteq sent
Returned(o) == queue[o] \in {"ready", "dropped"}
HeldBy(w, e) == lease[w] /\ delivery[w] = e[1][1] /\ e \in added[w]
Owed(e) == Returned(e[1][1][1]) \/ \E w \in Workers : HeldBy(w, e)

FirstRows ==
    \A p \in Playlists : \A row \in active[p] \cup removed[p] :
        tries[row[1][1]] = 1 => ToldOf(<<row, p>>) \/ Owed(<<row, p>>)

TellingInv == LeasesHeld /\ FirstRows

(* The broker's tables change through Submit, Take and Release alone. *)
LEMMA BrokerStep ==
    ASSUME [Next]_vars
    PROVE  \/ UNCHANGED broker
           \/ \E o \in Orders : Submit(o)
           \/ \E w \in Workers, o \in Orders : Take(w, o)
           \/ \E w \in Workers : Ack(w) \/ Raise(w) \/ Crash(w) \/ LoseConnection(w)
BY DEF Next, Handle, InitFails, InitOrders, ReadPlaylists, StoreBatch, Refuse, Stored,
       AnnounceTrack, CompleteOrder, AnnounceRejection, CancelOrder, Owner, ToggleRequests,
       ToggleSource, RemoveTrack, DeletePlaylist, vars

(* Who settles or gives back a message held it. *)
LEMMA EndStep ==
    ASSUME TypeOK, NEW w \in Workers, Ack(w) \/ Raise(w) \/ Crash(w) \/ LoseConnection(w)
    PROVE  /\ Active(w) /\ tries' = tries /\ lease'[w] = FALSE
           /\ ~lease[w] => queue' = queue
           /\ \A o \in Orders : lease[w] /\ o # Order(w) => queue'[o] = queue[o]
           /\ LoseConnection(w) => delivery'[w] = delivery[w]
           /\ ~LoseConnection(w) => ~Active(w)'
           /\ lease[w] /\ ~Ack(w) => queue'[Order(w)] \in {"ready", "dropped"}
           /\ LoseConnection(w) => lease[w] /\ queue'[Order(w)] = "ready"
<1>1. Active(w) /\ tries' = tries
  BY DEF Ack, Raise, Crash, LoseConnection, Release, Finished, Active
<1>2. Order(w) \in Orders
  BY <1>1, DeliveryType
<1>3. \E fate \in {"ready"} \cup Settled : Release(w, fate)
  BY DEF Ack, Raise, Crash, LoseConnection, Settled
<1>4. /\ ~lease[w] => queue' = queue
      /\ \A o \in Orders : lease[w] /\ o # Order(w) => queue'[o] = queue[o]
  BY <1>2, <1>3 DEF Release, TypeOK
<1>5. CASE LoseConnection(w)
  <2>1. queue'[Order(w)] = "ready" /\ lease[w]
    BY <1>2, <1>5 DEF LoseConnection, Release, TypeOK
  <2>2. delivery'[w] = delivery[w] /\ lease'[w] = FALSE
    BY <1>5 DEF LoseConnection, TypeOK
  <2> QED
    BY <1>1, <1>4, <1>5, <2>1, <2>2
<1>6. CASE ~LoseConnection(w)
  <2>1. Forget(w)
    BY <1>6 DEF Ack, Raise, Crash
  <2>2. lease'[w] = FALSE /\ ~Active(w)'
    BY <2>1 DEF Forget, TypeOK, Active
  <2>3. lease[w] /\ ~Ack(w) => queue'[Order(w)] \in {"ready", "dropped"}
    BY <1>2, <1>6 DEF Raise, Crash, Release, TypeOK
  <2> QED
    BY <1>1, <1>4, <1>6, <2>2, <2>3
<1> QED
  BY <1>5, <1>6

(* Two handlers never hold one message. *)
LEMMA LeaseAlone ==
    ASSUME TypeOK, LeasesHeld, DeliveriesApart,
           NEW v \in Workers, NEW w \in Workers, lease[v], lease[w], Order(v) = Order(w)
    PROVE  v = w
<1>1. Active(v) /\ Active(w) /\ delivery[v][2] = delivery[w][2]
  BY DEF LeasesHeld
<1>2. delivery[v] \in Deliveries /\ delivery[w] \in Deliveries
  BY <1>1, DeliveryType
<1>3. delivery[v] = delivery[w]
  BY <1>1, <1>2 DEF Deliveries, Order
<1> QED
  BY <1>1, <1>3 DEF DeliveriesApart

(* A handler goes on with its message, takes one, or ends. *)
LEMMA LeaseStep ==
    ASSUME TypeOK, LeasesHeld, [Next]_vars, NEW w \in Workers
    PROVE  \/ \E o \in Orders : Take(w, o)
           \/ Ack(w) \/ Raise(w) \/ Crash(w) \/ LoseConnection(w)
           \/ /\ delivery'[w] = delivery[w] /\ lease'[w] = lease[w]
              /\ Active(w)' <=> Active(w)
<1>1. CASE LocalsKept(w)
  BY <1>1 DEF LocalsKept, Active
<1>2. CASE InitFails(w) \/ InitOrders(w) \/ ReadPlaylists(w) \/ Stored(w)
  BY <1>2 DEF InitFails, InitOrders, ReadPlaylists, Stored, Active, TypeOK
<1>3. CASE \E p \in Playlists : StoreBatch(w, p) \/ Refuse(w, p)
  BY <1>3 DEF StoreBatch, Refuse, Active
<1>4. CASE AnnounceTrack(w) \/ CompleteOrder(w) \/ AnnounceRejection(w) \/ CancelOrder(w)
  BY <1>4
  DEF AnnounceTrack, CompleteOrder, AnnounceRejection, CancelOrder, Active, locals
<1> QED
  BY <1>1, <1>2, <1>3, <1>4, OthersStep DEF Step, Handle

LEMMA LeasesHeldNext ==
    TypeOK /\ VerdictInv /\ LeasesHeld /\ [Next]_vars => LeasesHeld'
<1> SUFFICES ASSUME TypeOK, DeliveriesMade, DeliveriesApart, LeasesHeld, [Next]_vars,
                    NEW w \in Workers
             PROVE  /\ lease'[w] => /\ Active(w)'
                                    /\ queue'[Order(w)'] = "taken"
                                    /\ delivery'[w][2] = tries'[Order(w)']
                    /\ Active(w)' /\ ~lease'[w] /\ delivery'[w][2] = tries'[Order(w)']
                         => queue'[Order(w)'] = "ready"
  BY DEF LeasesHeld, VerdictInv
<1>1. ASSUME NEW o \in Orders, Take(w, o)
      PROVE  /\ Active(w)' /\ lease'[w] = TRUE /\ Order(w)' = o
             /\ queue'[o] = "taken" /\ delivery'[w][2] = tries'[o]
  BY <1>1 DEF Take, Active, Order, TypeOK
<1>2. CASE Ack(w) \/ Raise(w) \/ Crash(w)
  <2>1. lease'[w] = FALSE
    BY <1>2, EndStep
  <2>2. ~Active(w)'
    BY <1>2 DEF Ack, Raise, Crash, Forget, Active, TypeOK
  <2> QED
    BY <2>1, <2>2
<1>3. CASE LoseConnection(w)
  <2>1. lease'[w] = FALSE /\ queue'[Order(w)] = "ready" /\ delivery'[w] = delivery[w]
    BY <1>3, EndStep
  <2> QED
    BY <2>1 DEF Order
<1>4. ASSUME delivery'[w] = delivery[w], lease'[w] = lease[w], Active(w)' <=> Active(w)
      PROVE  /\ lease'[w] => /\ Active(w)'
                             /\ queue'[Order(w)] = "taken"
                             /\ delivery'[w][2] = tries'[Order(w)]
             /\ Active(w)' /\ ~lease'[w] /\ delivery'[w][2] = tries'[Order(w)]
                  => queue'[Order(w)] = "ready"
  <2> SUFFICES ASSUME Active(w)
               PROVE  /\ lease[w] => /\ queue'[Order(w)] = "taken"
                                     /\ delivery[w][2] = tries'[Order(w)]
                      /\ ~lease[w] /\ delivery[w][2] = tries'[Order(w)]
                           => queue'[Order(w)] = "ready"
    BY <1>4 DEF LeasesHeld
  <2>0. /\ lease[w] => queue[Order(w)] = "taken" /\ delivery[w][2] = tries[Order(w)]
        /\ ~lease[w] /\ delivery[w][2] = tries[Order(w)] => queue[Order(w)] = "ready"
    BY DEF LeasesHeld
  <2>1. CASE UNCHANGED broker
    BY <2>0, <2>1 DEF broker
  <2>2. ASSUME NEW o \in Orders, Submit(o)
        PROVE  tries' = tries /\ queue'[Order(w)] = IF o = Order(w) THEN "ready" ELSE queue[Order(w)]
    BY <2>2, DeliveryType DEF Submit, TypeOK
  <2>3. ASSUME NEW o \in Orders, Submit(o), o = Order(w)
        PROVE  ~lease[w]
    BY <2>0, <2>3 DEF Submit
  <2>4. ASSUME NEW v \in Workers, NEW o \in Orders, Take(v, o)
        PROVE  /\ lease[w] => /\ queue'[Order(w)] = "taken"
                              /\ delivery[w][2] = tries'[Order(w)]
               /\ ~lease[w] /\ delivery[w][2] = tries'[Order(w)]
                    => queue'[Order(w)] = "ready"
    <3>1. CASE o = Order(w)
      <4>1. tries'[o] = tries[o] + 1 /\ queue[o] = "ready" /\ tries[o] \in Nat
        BY <2>4 DEF Take, TypeOK
      <4>2. delivery[w][2] <= tries[o] /\ delivery[w][2] \in Nat
        BY <3>1, DeliveryType DEF DeliveriesMade, Order, Deliveries
      <4>3. ~lease[w]
        BY <2>0, <3>1, <4>1
      <4> QED
        BY <3>1, <4>1, <4>2, <4>3
    <3>2. CASE o # Order(w)
      <4>1. tries'[Order(w)] = tries[Order(w)] /\ queue'[Order(w)] = queue[Order(w)]
        BY <2>4, <3>2, DeliveryType DEF Take, TypeOK
      <4> QED
        BY <2>0, <4>1
    <3> QED
      BY <3>1, <3>2
  <2>5. ASSUME NEW v \in Workers, Ack(v) \/ Raise(v) \/ Crash(v) \/ LoseConnection(v), v # w
        PROVE  /\ tries' = tries
               /\ \/ queue'[Order(w)] = queue[Order(w)]
                  \/ ~lease[w] /\ delivery[w][2] # tries[Order(w)]
    <3>1. /\ Active(v) /\ tries' = tries
          /\ ~lease[v] => queue' = queue
          /\ \A o \in Orders : lease[v] /\ o # Order(v) => queue'[o] = queue[o]
      BY <2>5, EndStep
    <3>2. Order(w) \in Orders
      BY DeliveryType
    <3>3. CASE lease[v] /\ Order(v) = Order(w)
      <4>1. queue[Order(w)] = "taken"
        BY <3>3 DEF LeasesHeld
      <4>2. ~lease[w]
        BY <2>5, <3>3, LeaseAlone
      <4> QED
        BY <2>0, <3>1, <4>1, <4>2
    <3> QED
      BY <3>1, <3>2, <3>3
  <2>6. ASSUME Ack(w) \/ Raise(w) \/ Crash(w) \/ LoseConnection(w)
        PROVE  FALSE
    <3>1. lease'[w] = FALSE /\ Active(w) /\ (LoseConnection(w) => lease[w])
             /\ (~LoseConnection(w) => ~Active(w)')
      BY <2>6, EndStep
    <3> QED
      BY <1>4, <3>1
  <2> QED
    BY <2>0, <2>1, <2>2, <2>3, <2>4, <2>5, <2>6, BrokerStep
<1> QED
  <2>1. CASE delivery'[w] = delivery[w] /\ lease'[w] = lease[w] /\ (Active(w)' <=> Active(w))
    BY <1>4, <2>1 DEF Order
  <2> QED
    BY <1>1, <1>2, <1>3, <2>1, LeaseStep

(* What an entry is owed stays owed, or is told, until its message is      *)
(* delivered again.                                                        *)
LEMMA OwedStep ==
    ASSUME TypeOK, VerdictInv, LeasesHeld, [Next]_vars,
           NEW e \in Entries, Owed(e), tries'[e[1][1][1]] = tries[e[1][1][1]]
    PROVE  ToldOf(e)' \/ Owed(e)'
<1> DEFINE o == e[1][1][1]
<1>0. o \in Orders /\ tries[o] \in Nat
  BY DEF Entries, Rows, Deliveries, TypeOK
<1>1. ASSUME Returned(o), ~Returned(o)'
      PROVE  FALSE
  <2>1. ~(UNCHANGED broker)
    BY <1>1 DEF broker, Returned
  <2>2. ASSUME NEW q \in Orders, Submit(q) PROVE FALSE
    BY <1>0, <1>1, <2>2 DEF Submit, Returned, TypeOK
  <2>3. ASSUME NEW v \in Workers, NEW q \in Orders, Take(v, q) PROVE FALSE
    <3>1. q = o
      BY <1>0, <1>1, <2>3 DEF Take, Returned, TypeOK
    <3>2. tries'[o] = tries[o] + 1
      BY <1>0, <2>3, <3>1 DEF Take, TypeOK
    <3> QED
      BY <1>0, <3>2
  <2>4. ASSUME NEW v \in Workers, Ack(v) \/ Raise(v) \/ Crash(v) \/ LoseConnection(v)
        PROVE  FALSE
    <3>1. /\ ~lease[v] => queue' = queue
          /\ \A q \in Orders : lease[v] /\ q # Order(v) => queue'[q] = queue[q]
      BY <2>4, EndStep
    <3>2. lease[v] /\ Order(v) = o
      BY <1>0, <1>1, <3>1 DEF Returned
    <3> QED
      BY <1>1, <3>2 DEF LeasesHeld, Returned
  <2> QED
    BY <2>1, <2>2, <2>3, <2>4, BrokerStep
<1>2. ASSUME NEW w \in Workers, HeldBy(w, e)
      PROVE  ToldOf(e)' \/ Owed(e)'
  <2>1. Active(w) /\ lease[w] /\ Order(w) = o /\ e \in added[w] /\ delivery[w] = e[1][1]
    BY <1>2 DEF HeldBy, LeasesHeld, Order
  <2>2. CASE LocalsKept(w)
    BY <2>1, <2>2 DEF LocalsKept, Owed, HeldBy
  <2>3. ASSUME NEW q \in Orders, Take(w, q) PROVE FALSE
    BY <2>1, <2>3 DEF Take, Active
  <2>4. CASE Ack(w)
    BY <2>1, <2>4 DEF Ack, Finished
  <2>5. CASE Raise(w) \/ Crash(w) \/ LoseConnection(w)
    <3>1. ~Ack(w)
      BY <2>1, <2>4 DEF Ack, Finished
    <3>2. queue'[o] \in {"ready", "dropped"}
      BY <2>1, <2>5, <3>1, EndStep
    <3> QED
      BY <3>2 DEF Owed, Returned
  <2>6. CASE InitFails(w) \/ InitOrders(w) \/ ReadPlaylists(w) \/ Stored(w)
    BY <2>1, <2>6 DEF InitFails, InitOrders, ReadPlaylists, Stored, Owed, HeldBy, TypeOK
  <2>7. ASSUME NEW p \in Playlists, StoreBatch(w, p)
        PROVE  HeldBy(w, e)'
    <3>1. e \in added'[w]
      BY <2>1, <2>7 DEF StoreBatch, TypeOK
    <3> QED
      BY <2>1, <2>7, <3>1 DEF StoreBatch, HeldBy
  <2>8. CASE \E p \in Playlists : Refuse(w, p)
    BY <2>1, <2>8 DEF Refuse, Owed, HeldBy, TypeOK
  <2>9. CASE AnnounceTrack(w) \/ AnnounceRejection(w) \/ CancelOrder(w)
    BY <2>1, <2>9
    DEF AnnounceTrack, AnnounceRejection, CancelOrder, Owed, HeldBy, TypeOK, locals
  <2>10. CASE CompleteOrder(w)
    <3>1. PICK f \in InDoubt(w) : /\ sent' = sent \cup {Event("completed", f)}
                                  /\ added' = [added EXCEPT ![w] = @ \ {f}]
      BY <2>10 DEF CompleteOrder
    <3>2. CASE e = f
      BY <3>1, <3>2 DEF InDoubt, ToldOf
    <3>3. CASE e # f
      <4>1. e \in added'[w]
        BY <2>1, <3>1, <3>3 DEF TypeOK
      <4> QED
        BY <2>1, <2>10, <4>1 DEF CompleteOrder, Owed, HeldBy
    <3> QED
      BY <3>2, <3>3
  <2> QED
    BY <2>2, <2>3, <2>4, <2>5, <2>6, <2>7, <2>8, <2>9, <2>10, OthersStep
    DEF Step, Handle, Owed
<1> QED
  BY <1>1, <1>2 DEF Owed

LEMMA FirstRowsNext ==
    TypeOK /\ VerdictInv /\ RowsMade /\ TellingInv /\ [Next]_vars => FirstRows'
<1> SUFFICES ASSUME TypeOK, VerdictInv, RowsMade, TellingInv, [Next]_vars,
                    NEW p \in Playlists, NEW row \in active'[p] \cup removed'[p],
                    tries'[row[1][1]] = 1
             PROVE  ToldOf(<<row, p>>)' \/ Owed(<<row, p>>)'
  BY DEF FirstRows
<1> DEFINE o == row[1][1]
           e == <<row, p>>
<1>1. row \in Rows /\ e \in Entries
  BY NextType DEF TypeOK, Entries
<1>2. o \in Orders /\ row[1] \in Deliveries /\ row[1][2] \in Nat /\ row[1][2] >= 1
  BY <1>1 DEF Rows, Deliveries
<1>3. tries[o] \in Nat /\ tries[o] <= 1
  BY <1>2, TriesGrow DEF TypeOK
<1>4. CASE row \in active[p] \cup removed[p]
  <2>1. row[1][2] <= tries[o]
    BY <1>4 DEF RowsMade
  <2>2. tries[o] = 1
    BY <1>2, <1>3, <2>1
  <2>3. ToldOf(e) \/ Owed(e)
    BY <1>4, <2>2 DEF TellingInv, FirstRows
  <2>4. ToldOf(e) => ToldOf(e)'
    BY SentGrows DEF ToldOf
  <2>5. Owed(e) => ToldOf(e)' \/ Owed(e)'
    <3>1. e[1][1][1] = o
      OBVIOUS
    <3> QED
      BY <1>1, <2>2, <3>1, OwedStep DEF TellingInv
  <2> QED
    BY <2>3, <2>4, <2>5
<1>5. CASE row \notin active[p] \cup removed[p]
  <2>1. PICK w \in Workers : StoreBatch(w, p) /\ Active(w) /\ row[1] = delivery[w]
    BY <1>5, RowStep
  <2>2. tries' = tries /\ queue' = queue /\ lease' = lease /\ delivery' = delivery
    BY <2>1 DEF StoreBatch, broker
  <2>3. tries[o] = 1 /\ o = Order(w)
    BY <2>1, <2>2 DEF Order
  <2>4. CASE lease[w]
    <3>1. row \in RowsOf(delivery[w], batch[w])
      BY <1>5, <2>1 DEF StoreBatch, TypeOK
    <3>2. e \in added'[w]
      BY <2>1, <3>1 DEF StoreBatch, TypeOK
    <3> QED
      BY <2>1, <2>2, <2>4, <3>2 DEF Owed, HeldBy
  <2>5. CASE ~lease[w]
    <3>1. delivery[w][2] <= 1
      BY <2>1, <2>3 DEF VerdictInv, DeliveriesMade, Order
    <3>2. delivery[w][2] = tries[Order(w)]
      BY <1>2, <2>1, <2>3, <3>1
    <3>3. queue[o] = "ready"
      BY <2>1, <2>3, <2>5, <3>2 DEF TellingInv, LeasesHeld
    <3> QED
      BY <2>2, <3>3 DEF Owed, Returned
  <2> QED
    BY <2>4, <2>5
<1> QED
  BY <1>4, <1>5

(* A message delivered once and acknowledged left nothing untold: each of  *)
(* its rows was announced to the clients and confirmed to the bot.         *)
THEOREM AckedOnceToldAll == Spec => []AckedOnceMeansTold
<1>1. Init => TellingInv
  BY DEF Init, TellingInv, LeasesHeld, FirstRows, Active
<1>2. TypeOK /\ VerdictInv /\ AbsenceInv /\ TellingInv /\ [Next]_vars => TellingInv'
  BY LeasesHeldNext, FirstRowsNext DEF TellingInv, AbsenceInv
<1>3. TypeOK /\ TellingInv => AckedOnceMeansTold
  <2> SUFFICES ASSUME TypeOK, TellingInv, NEW p \in Playlists,
                      NEW row \in active[p] \cup removed[p],
                      queue[row[1][1]] = "acked", tries[row[1][1]] = 1
               PROVE  ToldOf(<<row, p>>)
    BY DEF AckedOnceMeansTold, ToldOf
  <2>1. ToldOf(<<row, p>>) \/ Owed(<<row, p>>)
    BY DEF TellingInv, FirstRows
  <2>2. ASSUME NEW w \in Workers, HeldBy(w, <<row, p>>) PROVE FALSE
    <3>1. lease[w] /\ delivery[w] = row[1]
      BY <2>2 DEF HeldBy
    <3> QED
      BY <3>1 DEF TellingInv, LeasesHeld, Order
  <2> QED
    BY <2>1, <2>2 DEF Owed, Returned
<1> QED
  BY <1>1, <1>2, <1>3, VerdictInit, VerdictNext, AbsenceInit, AbsenceNext, TypeCorrect, PTL
  DEF Spec
=============================================================================
