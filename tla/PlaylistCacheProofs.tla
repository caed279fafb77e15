------------------------ MODULE PlaylistCacheProofs ------------------------
(* Theorems about PlaylistCache, for any finite sets of playlists and slots    *)
(* and any tracks: types, the counting of references and handlers, and the     *)
(* refinement of PlaylistView.                                                 *)
EXTENDS PlaylistCache, FiniteSetTheorems, TLAPS

-----------------------------------------------------------------------------
(* Types.                                                                      *)
LEMMA RequestsType ==
  ASSUME NEW kind \in {"subscribe", "unsubscribe"}, NEW ps \in Seq(Playlists)
  PROVE  Requests(kind, ps) \in Seq(Asks)
BY DEF Requests, Asks

(* Object.keys(cache) in some order.                                           *)
LEMMA OrderType ==
  ASSUME NEW S \in SUBSET Playlists
  PROVE  SetToSeq(S) \in Seq(Playlists)
<1>1. IsFiniteSet(S)
  BY CacheAssumption, FS_Subset
<1>2. Cardinality(S) \in Nat /\ ExistsBijection(1 .. Cardinality(S), S)
  BY <1>1, FS_CardinalityType
<1>3. \E f \in [1 .. Cardinality(S) -> S] : IsInjective(f)
  BY <1>2 DEF ExistsBijection, Bijection, Injection
<1>4. SetToSeq(S) \in [1 .. Cardinality(S) -> S]
  BY <1>3 DEF SetToSeq
<1> QED
  BY <1>2, <1>4

LEMMA SetDataType ==
  ASSUME TypeOK, NEW p \in Playlists, NEW d \in Datas \cup {None}, SetData(p, d)
  PROVE  cache' \in [Playlists -> Entries \cup {None}]
BY DEF TypeOK, SetData, Entries

LEMMA AgeType ==
  ASSUME TypeOK, NEW p \in Playlists, NEW x \in Things, Age(p, x)
  PROVE  loads' \subseteq Loads /\ patches' \subseteq Patches
<1>1. ASSUME NEW l \in Loads
      PROVE  [l EXCEPT !.since = @ \cup {x}] \in Loads
  BY <1>1 DEF Loads
<1>2. ASSUME NEW c \in Patches
      PROVE  [c EXCEPT !.since = @ \cup {x}] \in Patches
  BY <1>2 DEF Patches
<1>3. loads \subseteq Loads /\ patches \subseteq Patches
  BY DEF TypeOK
<1> QED
  BY <1>1, <1>2, <1>3 DEF Age

LEMMA EventType ==
  ASSUME TypeOK, NEW e \in fanout
  PROVE  /\ e.p \in Playlists /\ Subject(e) \in Things
         /\ e.kind \in {"add", "delete", "bulk", "settings"}
         /\ e.kind # "settings" => e.of \in Tracks
         /\ e.kind = "settings" => e.of \in Nat
BY DEF TypeOK, Events, Subject, Things

LEMMA FullType ==
  ASSUME TypeOK, NEW p \in Playlists, Full(p)
  PROVE  cache[p] \in Entries /\ cache[p].data \in Datas
BY DEF TypeOK, Full, Entries

LEMMA InitType == Init => TypeOK
BY DEF Init, TypeOK, Loads, Patches

LEMMA AddRowType ==
  ASSUME TypeOK, NEW p \in Playlists, NEW t \in Tracks, AddRow(p, t)
  PROVE  TypeOK'
BY DEF TypeOK, AddRow, Event, Events, network, handlers

LEMMA RemoveRowType ==
  ASSUME TypeOK, NEW p \in Playlists, NEW t \in Tracks, RemoveRow(p, t)
  PROVE  TypeOK'
BY DEF TypeOK, RemoveRow, Event, Events, network, handlers

LEMMA RemoveBulkType ==
  ASSUME TypeOK, NEW p \in Playlists, NEW t \in Tracks, RemoveBulk(p, t)
  PROVE  TypeOK'
BY DEF TypeOK, RemoveBulk, Event, Events, network, handlers

LEMMA EditElsewhereType ==
  ASSUME TypeOK, NEW p \in Playlists, EditElsewhere(p)
  PROVE  TypeOK'
BY DEF TypeOK, EditElsewhere, Event, Events, network, handlers

LEMMA TakeRequestType ==
  ASSUME TypeOK, TakeRequest
  PROVE  TypeOK'
<1>1. Head(up) \in Asks /\ Tail(up) \in Seq(Asks)
  BY DEF TypeOK, TakeRequest
<1> QED
  BY <1>1 DEF TypeOK, TakeRequest, backend, handlers, Asks

LEMMA SnapshotType ==
  ASSUME TypeOK, NEW l \in loads, Snapshot(l)
  PROVE  TypeOK'
BY DEF TypeOK, Snapshot, backend, network, handlers, Loads

LEMMA LoadFailsType ==
  ASSUME TypeOK, NEW l \in loads, LoadFails(l)
  PROVE  TypeOK'
BY DEF TypeOK, LoadFails, backend, network, handlers

LEMMA LoadedType ==
  ASSUME TypeOK, NEW l \in loads
  PROVE  Data(TRUE, [t \in Tracks |-> IF t \in l.tracks THEN 1 ELSE 0], l.set) \in Datas
BY DEF TypeOK, Data, Datas, Loads

LEMMA LoadDataType ==
  ASSUME TypeOK, NEW l \in loads, LoadData(l)
  PROVE  TypeOK'
<1> DEFINE d == Data(TRUE, [t \in Tracks |-> IF t \in l.tracks THEN 1 ELSE 0], l.set)
<1>1. l \in Loads
  BY DEF TypeOK
<1>2. d \in Datas
  BY LoadedType
<1>3. cache' \in [Playlists -> Entries \cup {None}]
  BY <1>1, <1>2, SetDataType DEF LoadData, Loads
<1>4. loads' \subseteq Loads
  <2>1. [l EXCEPT !.step = "owner", !.tracks = {}, !.set = 0, !.since = {}] \in Loads
    BY <1>1 DEF Loads
  <2> QED
    BY <2>1 DEF TypeOK, LoadData
<1>5. missed' \in [Playlists -> SUBSET Things]
  BY <1>1 DEF TypeOK, LoadData, Loads
<1> QED
  BY <1>3, <1>4, <1>5 DEF TypeOK, LoadData, backend, network, handlers

LEMMA LoadOwnerType ==
  ASSUME TypeOK, NEW l \in loads, LoadOwner(l)
  PROVE  TypeOK'
BY DEF TypeOK, LoadOwner, backend, network, handlers, Entry, Entries, Loads, NaN

LEMMA MergedType ==
  ASSUME TypeOK, NEW e \in fanout, Full(e.p)
  PROVE  Merged(cache[e.p].data, e) \in Datas
<1>1. cache[e.p].data \in Datas /\ bound[e.p] \in Nat
  BY EventType, FullType DEF TypeOK
<1> QED
  BY <1>1, EventType DEF Merged, Datas

LEMMA DeliverType ==
  ASSUME TypeOK, NEW e \in fanout, Deliver(e)
  PROVE  TypeOK'
<1>2. Merged(cache[e.p].data, e) \in Datas
  BY MergedType DEF Deliver
<1>3. cache' \in [Playlists -> Entries \cup {None}]
  BY <1>2, EventType, SetDataType DEF Deliver
<1>4. loads' \subseteq Loads /\ patches' \subseteq Patches
  BY EventType, AgeType DEF Deliver
<1>5. missed' \in [Playlists -> SUBSET Things]
  BY EventType DEF TypeOK, Deliver
<1> QED
  BY <1>3, <1>4, <1>5 DEF TypeOK, Deliver, backend, network, handlers

LEMMA EarlyType ==
  ASSUME TypeOK, NEW e \in fanout, e.kind = "settings"
  PROVE  Data(FALSE, [t \in Tracks |-> 0], e.of) \in Datas
BY EventType DEF Data, Datas

LEMMA DeliverEarlyType ==
  ASSUME TypeOK, NEW e \in fanout, DeliverEarly(e)
  PROVE  TypeOK'
<1>1. e.kind = "settings" => Data(FALSE, [t \in Tracks |-> 0], e.of) \in Datas
  BY EarlyType
<1>2. cache' \in [Playlists -> Entries \cup {None}]
  BY <1>1, EventType, SetDataType DEF DeliverEarly, TypeOK
<1>3. loads' \subseteq Loads /\ patches' \subseteq Patches
  BY EventType, AgeType DEF DeliverEarly
<1> QED
  BY <1>2, <1>3 DEF TypeOK, DeliverEarly, backend, network, handlers

LEMMA PassByType ==
  ASSUME TypeOK, NEW e \in fanout, PassBy(e)
  PROVE  TypeOK'
<1>1. loads' \subseteq Loads /\ patches' \subseteq Patches
  BY EventType, AgeType DEF PassBy
<1>2. missed' \in [Playlists -> SUBSET Things]
  BY EventType DEF TypeOK, PassBy
<1> QED
  BY <1>1, <1>2 DEF TypeOK, PassBy, backend, network, handlers

LEMMA DropType ==
  ASSUME TypeOK, Drop
  PROVE  TypeOK'
<1>1. <<>> \in Seq(Asks) /\ {} \subseteq Playlists
  OBVIOUS
<1>2. drops' \in Nat
  BY DEF TypeOK, Drop
<1> QED
  BY <1>1, <1>2 DEF TypeOK, Drop, backend, handlers

LEMMA ReconnectType ==
  ASSUME TypeOK, Reconnect
  PROVE  TypeOK'
<1>1. Requests("subscribe", SetToSeq(Cached)) \in Seq(Asks)
  BY OrderType, RequestsType DEF Cached
<1>2. up' \in Seq(Asks)
  BY <1>1 DEF TypeOK, Reconnect
<1> QED
  BY <1>2 DEF TypeOK, Reconnect, backend, handlers

LEMMA StampType ==
  ASSUME TypeOK, NEW p \in Playlists
  PROVE  Stamp(p) \subseteq Patches
<1>1. ASSUME NEW c \in Patches
      PROVE  [c EXCEPT !.since = @ \cup {Setting}] \in Patches
  BY <1>1 DEF Patches, Things
<1> QED
  BY <1>1 DEF TypeOK, Stamp

LEMMA ShownEditType ==
  ASSUME TypeOK, NEW p \in Playlists, Full(p), NEW v \in Nat
  PROVE  [cache[p].data EXCEPT !.set = v] \in Datas
BY FullType DEF Datas

LEMMA PatchNowType ==
  ASSUME TypeOK, NEW p \in Playlists, PatchNow(p)
  PROVE  TypeOK'
<1>1. edits' \in Nat
  BY DEF TypeOK, PatchNow
<1>2. cache' \in [Playlists -> Entries \cup {None}]
  BY <1>1, ShownEditType, SetDataType DEF PatchNow
<1>3. Patch(p, edits', cache[p].data) \in Patches
  BY <1>1, FullType DEF TypeOK, PatchNow, Patch, Patches
<1>4. patches' \subseteq Patches
  BY <1>3, StampType DEF PatchNow
<1> QED
  BY <1>1, <1>2, <1>4 DEF TypeOK, PatchNow, backend, network, handlers

LEMMA PatchDebouncedType ==
  ASSUME TypeOK, NEW p \in Playlists, PatchDebounced(p)
  PROVE  TypeOK'
<1>1. edits' \in Nat
  BY DEF TypeOK, PatchDebounced
<1>2. cache' \in [Playlists -> Entries \cup {None}]
  BY <1>1, ShownEditType, SetDataType DEF PatchDebounced
<1>3. patches' \subseteq Patches
  BY StampType DEF PatchDebounced
<1> QED
  BY <1>1, <1>2, <1>3 DEF TypeOK, PatchDebounced, backend, network, handlers

LEMMA FlushPatchType ==
  ASSUME TypeOK, NEW p \in Playlists, FlushPatch(p)
  PROVE  TypeOK'
<1>1. Patch(p, typed[p], None) \in Patches
  BY DEF TypeOK, FlushPatch, Patch, Patches
<1> QED
  BY <1>1 DEF TypeOK, FlushPatch, backend, network, handlers

LEMMA SavePatchType ==
  ASSUME TypeOK, NEW c \in patches, SavePatch(c)
  PROVE  TypeOK'
<1>1. c \in Patches /\ [c EXCEPT !.step = "saved"] \in Patches
  BY DEF TypeOK, Patches
<1>2. saved' \in [Playlists -> Nat]
  BY <1>1 DEF TypeOK, SavePatch, Patches
<1>3. Event("settings", c.p, c.v) \in Events
  BY <1>1 DEF Event, Events, Patches
<1>4. fanout' \subseteq Events /\ patches' \subseteq Patches
  BY <1>1, <1>3 DEF TypeOK, SavePatch
<1> QED
  BY <1>2, <1>4 DEF TypeOK, SavePatch, network, handlers

LEMMA PatchDoneType ==
  ASSUME TypeOK, NEW c \in patches, PatchDone(c)
  PROVE  TypeOK'
BY DEF TypeOK, PatchDone, backend, network, handlers

LEMMA PatchFailedType ==
  ASSUME TypeOK, NEW c \in patches, PatchFailed(c)
  PROVE  TypeOK'
<1>1. c \in Patches
  BY DEF TypeOK
<1>2. cache' \in [Playlists -> Entries \cup {None}]
  BY <1>1, SetDataType DEF PatchFailed, Patches, TypeOK
<1>3. patches' \subseteq Patches
  <2>1. ASSUME NEW d \in Patches
        PROVE  [d EXCEPT !.since = @ \cup {Setting}] \in Patches
    BY <2>1 DEF Patches, Things
  <2> QED
    BY <2>1 DEF TypeOK, PatchFailed
<1>4. missed' \in [Playlists -> SUBSET Things]
  BY <1>1 DEF TypeOK, PatchFailed, Patches, Things
<1> QED
  BY <1>2, <1>3, <1>4 DEF TypeOK, PatchFailed, backend, network, handlers

LEMMA SetSlotType ==
  ASSUME TypeOK, NEW s \in Slots, NEW q \in Playlists \cup {None}, SetSlot(s, q)
  PROVE  TypeOK'
<1> DEFINE prev == slot[s]
           drop == prev # None /\ LastDetach(prev)
           a == IF q = None THEN None ELSE Attached(q)
           fresh == q # None /\ cache[q] = None
<1>1. prev \in Playlists \cup {None} /\ q # prev
  BY DEF TypeOK, SetSlot
<1>2. slot' \in [Slots -> Playlists \cup {None}]
  BY DEF TypeOK, SetSlot
<1>3. q # None => a.refs \in Nat \cup {NaN} /\ a.bind \in Nat
  BY DEF TypeOK, Attached, AttachNew, AttachAgain, Entries, NaN
<1>4. prev # None => Detached(prev) \in Entries \cup {None}
  <2> SUFFICES ASSUME prev # None, Detached(prev) # None
               PROVE  Detached(prev) \in Entries
    OBVIOUS
  <2> DEFINE e == cache[prev]
             n == IF e.refs = NaN THEN NaN ELSE e.refs - 1
  <2>1. e \in Entries /\ ~LastDetach(prev) /\ Detached(prev) = [e EXCEPT !.refs = n]
    BY <1>1 DEF TypeOK, Detached
  <2>2. n \in Nat \cup {NaN}
    BY <2>1, <1>1 DEF LastDetach, Entries, NaN, TypeOK
  <2> HIDE DEF n
  <2> QED
    BY <2>1, <2>2 DEF Entries
<1>5. cache' \in [Playlists -> Entries \cup {None}]
  <2> SUFFICES ASSUME NEW p \in Playlists
               PROVE  cache'[p] \in Entries \cup {None}
    BY DEF SetSlot
  <2>1. cache[p] \in Entries \cup {None}
    BY DEF TypeOK
  <2>2. CASE p = prev
    BY <2>2, <1>4, CacheAssumption DEF SetSlot
  <2>3. CASE p # prev /\ p = q
    BY <2>1, <2>3, <1>3, CacheAssumption DEF SetSlot, Entry, Entries
  <2>4. CASE p # prev /\ p # q
    BY <2>1, <2>4 DEF SetSlot
  <2> QED
    BY <2>2, <2>3, <2>4
<1>6. bound' \in [Playlists -> Nat] /\ bulk' \in [Playlists -> Nat]
  <2>1. ASSUME NEW p \in Playlists
        PROVE  (IF p = prev /\ drop THEN 0 ELSE IF p = q THEN bound[p] + a.bind ELSE bound[p]) \in Nat
    <3>1. bound[p] \in Nat
      BY DEF TypeOK
    <3>2. p = q => q # None
      BY CacheAssumption
    <3> HIDE DEF a, drop, prev
    <3> QED
      BY <3>1, <3>2, <1>3
  <2>2. bound' = [p \in Playlists |->
                   IF p = prev /\ drop THEN 0 ELSE IF p = q THEN bound[p] + a.bind ELSE bound[p]]
    BY DEF SetSlot
  <2>3. bulk' \in [Playlists -> Nat]
    BY <1>3 DEF TypeOK, SetSlot
  <2> HIDE DEF a, drop, prev
  <2> QED
    BY <2>1, <2>2, <2>3
<1>7. up' \in Seq(Asks)
  <2>1. prev # None => Requests("unsubscribe", <<prev>>) \in Seq(Asks)
    <3>1. prev # None => <<prev>> \in Seq(Playlists)
      BY <1>1
    <3> HIDE DEF prev
    <3> QED
      BY <3>1, RequestsType
  <2>2. q # None => Requests("subscribe", <<q>>) \in Seq(Asks)
    <3>1. q # None => <<q>> \in Seq(Playlists)
      OBVIOUS
    <3> QED
      BY <3>1, RequestsType
  <2> QED
    BY <2>1, <2>2 DEF TypeOK, SetSlot
<1>8. asked' \in Nat /\ loads' \subseteq Loads
  <2>1. asked' \in Nat
    BY DEF TypeOK, SetSlot
  <2>2. CASE fresh
    <3> DEFINE l == [id |-> asked', p |-> q, step |-> "asked", tracks |-> {}, set |-> 0, since |-> {}]
    <3>1. loads' = loads \cup {l} /\ q \in Playlists
      BY <2>2 DEF SetSlot
    <3>2. l \in Loads
      BY <2>1, <3>1 DEF Loads
    <3> HIDE DEF l
    <3> QED
      BY <2>1, <3>1, <3>2 DEF TypeOK
  <2>3. CASE ~fresh
    BY <2>3 DEF TypeOK, SetSlot
  <2> QED
    BY <2>1, <2>2, <2>3
<1>9. missed' \in [Playlists -> SUBSET Things]
  BY DEF TypeOK, SetSlot
<1> QED
  BY <1>2, <1>5, <1>6, <1>7, <1>8, <1>9 DEF TypeOK, SetSlot, backend
LEMMA StepType == TypeOK /\ [Next]_vars => TypeOK'
<1> SUFFICES ASSUME TypeOK, [Next]_vars
             PROVE  TypeOK'
  OBVIOUS
<1>1. ASSUME NEW p \in Playlists, NEW t \in Tracks, AddRow(p, t) \/ RemoveRow(p, t) \/ RemoveBulk(p, t)
      PROVE  TypeOK'
  BY <1>1, AddRowType, RemoveRowType, RemoveBulkType
<1>2. ASSUME NEW p \in Playlists,
             EditElsewhere(p) \/ PatchNow(p) \/ PatchDebounced(p) \/ FlushPatch(p)
      PROVE  TypeOK'
  BY <1>2, EditElsewhereType, PatchNowType, PatchDebouncedType, FlushPatchType
<1>3. ASSUME TakeRequest \/ Drop \/ Reconnect
      PROVE  TypeOK'
  BY <1>3, TakeRequestType, DropType, ReconnectType
<1>4. ASSUME NEW s \in Slots, NEW q \in Playlists \cup {None}, SetSlot(s, q)
      PROVE  TypeOK'
  BY <1>4, SetSlotType
<1>5. ASSUME NEW l \in loads, Snapshot(l) \/ LoadFails(l) \/ LoadData(l) \/ LoadOwner(l)
      PROVE  TypeOK'
  BY <1>5, SnapshotType, LoadFailsType, LoadDataType, LoadOwnerType
<1>6. ASSUME NEW e \in fanout, Deliver(e) \/ DeliverEarly(e) \/ PassBy(e)
      PROVE  TypeOK'
  BY <1>6, DeliverType, DeliverEarlyType, PassByType
<1>7. ASSUME NEW c \in patches, SavePatch(c) \/ PatchDone(c) \/ PatchFailed(c)
      PROVE  TypeOK'
  BY <1>7, SavePatchType, PatchDoneType, PatchFailedType
<1>8. ASSUME UNCHANGED vars
      PROVE  TypeOK'
  BY <1>8 DEF TypeOK, vars
<1> QED
  BY <1>1, <1>2, <1>3, <1>4, <1>5, <1>6, <1>7, <1>8 DEF Next

(* The variables keep their types, whatever the numbers of loads, drops and    *)
(* edits: in particular a count stays a number from 0 on or the lost count     *)
(* of an entry that came back, and no request names a playlist that is none.   *)
THEOREM CacheTypeCorrect == Spec => []TypeOK
<1> QED
  BY InitType, StepType, PTL DEF Spec

-----------------------------------------------------------------------------
(* Counting. The two count invariants are inductive together: a handler is     *)
(* bound exactly when there is a count, and only SetSlot and LoadOwner touch   *)
(* the counts.                                                                 *)
CountInv == TypeOK /\ CountsHolders /\ BoundOnce

(* What all other steps do to the counts: nothing.                             *)
SameCounts ==
  /\ slot' = slot /\ bound' = bound /\ bulk' = bulk
  /\ \A p \in Playlists : /\ cache'[p] = None <=> cache[p] = None
                          /\ cache[p] # None => cache'[p].refs = cache[p].refs

LEMMA SetDataKeepsCounts ==
  ASSUME TypeOK, NEW p \in Playlists, NEW d \in Datas \cup {None},
         SetData(p, d), slot' = slot, UNCHANGED handlers
  PROVE  SameCounts
<1> SUFFICES ASSUME NEW q \in Playlists
             PROVE  /\ cache'[q] = None <=> cache[q] = None
                    /\ cache[q] # None => cache'[q].refs = cache[q].refs
  BY DEF SameCounts, handlers
<1>1. CASE cache[p] = None
  BY <1>1 DEF SetData
<1>2. CASE cache[p] # None /\ q # p
  BY <1>2 DEF SetData, TypeOK
<1>3. CASE cache[p] # None /\ q = p
  <2>1. cache[p] \in Entries
    BY <1>3 DEF TypeOK
  <2>2. cache'[p] = [cache[p] EXCEPT !.data = d]
    BY <1>3 DEF SetData, TypeOK
  <2>3. cache'[p] \in Entries /\ cache'[p].refs = cache[p].refs
    BY <2>1, <2>2 DEF Entries
  <2> QED
    BY <1>3, <2>3, CacheAssumption
<1> QED
  BY <1>1, <1>2, <1>3

LEMMA SameCountsKeepsInv ==
  ASSUME CountsHolders, BoundOnce, SameCounts
  PROVE  CountsHolders' /\ BoundOnce'
<1>1. \A p \in Playlists : Held(p)' = Held(p)
  BY DEF Held, SameCounts
<1> QED
  BY <1>1 DEF CountsHolders, BoundOnce, SameCounts

LEMMA LoadOwnerCounts ==
  ASSUME TypeOK, CountsHolders, BoundOnce, NEW l \in loads, LoadOwner(l)
  PROVE  CountsHolders' /\ BoundOnce'
<1>1. CASE cache[l.p] # None
  <2>1. SameCounts
    BY <1>1 DEF LoadOwner, SameCounts, handlers
  <2> QED
    BY <2>1, SameCountsKeepsInv
<1>2. CASE cache[l.p] = None
  <2>1. l.p \in Playlists /\ cache' = [cache EXCEPT ![l.p] = [refs |-> NaN, data |-> None]]
    BY <1>2 DEF LoadOwner, Entry, TypeOK, Loads
  <2>2. /\ cache'[l.p] = [refs |-> NaN, data |-> None]
        /\ \A p \in Playlists : p # l.p => cache'[p] = cache[p]
    BY <2>1 DEF TypeOK
  <2>3. cache'[l.p].refs = NaN /\ cache'[l.p] # None
    <3>1. cache'[l.p] \in Entries
      BY <2>2 DEF Entries
    <3> QED
      BY <3>1, <2>2, CacheAssumption
  <2>4. slot' = slot /\ bound' = bound /\ bulk' = bulk
    BY DEF LoadOwner, handlers
  <2>5. \A p \in Playlists : Held(p)' = Held(p)
    BY <2>4 DEF Held
  <2> QED
    BY <1>2, <2>1, <2>2, <2>3, <2>4, <2>5 DEF CountsHolders, BoundOnce
<1> QED
  BY <1>1, <1>2

(* A slot turns from prev to q: one holder less here, one more there.          *)
LEMMA SetSlotHolders ==
  ASSUME TypeOK, NEW s \in Slots, NEW q \in Playlists \cup {None}, SetSlot(s, q)
  PROVE  \A p \in Playlists :
           /\ p = slot[s] => s \in Held(p) /\ Held(p)' = Held(p) \ {s}
           /\ p = q => s \notin Held(p) /\ Held(p)' = Held(p) \cup {s}
           /\ p # slot[s] /\ p # q => Held(p)' = Held(p)
           /\ IsFiniteSet(Held(p)) /\ Cardinality(Held(p)) \in Nat
           /\ Held(p) # {} => Cardinality(Held(p)) > 0
<1> TAKE p \in Playlists
<1>1. q # slot[s] /\ slot' = [slot EXCEPT ![s] = q]
  BY DEF SetSlot
<1>2. /\ p = slot[s] => s \in Held(p) /\ Held(p)' = Held(p) \ {s}
      /\ p = q => s \notin Held(p) /\ Held(p)' = Held(p) \cup {s}
      /\ p # slot[s] /\ p # q => Held(p)' = Held(p)
  BY <1>1 DEF Held, TypeOK
<1>3. Held(p) \subseteq Slots
  BY DEF Held
<1>4. IsFiniteSet(Held(p)) /\ Cardinality(Held(p)) \in Nat
  BY <1>3, CacheAssumption, FS_Subset, FS_CardinalityType
<1>5. Held(p) # {} => Cardinality(Held(p)) > 0
  BY <1>4, FS_EmptySet
<1> QED
  BY <1>2, <1>4, <1>5

LEMMA SetSlotCounts ==
  ASSUME TypeOK, CountsHolders, BoundOnce,
         NEW s \in Slots, NEW q \in Playlists \cup {None}, SetSlot(s, q),
         NEW p \in Playlists
  PROVE  /\ Held(p)' # {} => cache'[p] # None
         /\ cache'[p] # None /\ cache'[p].refs # NaN =>
               cache'[p].refs = Cardinality(Held(p)') /\ Held(p)' # {}
         /\ bound'[p] = IF cache'[p] # None /\ cache'[p].refs # NaN THEN 1 ELSE 0
<1> DEFINE prev == slot[s]
           n == Cardinality(Held(p))
<1>0. q # prev
  BY DEF SetSlot
<1>1. CASE p # prev /\ p # q
  <2>1. Held(p)' = Held(p)
    BY <1>1, SetSlotHolders
  <2>2. cache'[p] = cache[p] /\ bound'[p] = bound[p]
    BY <1>1 DEF SetSlot
  <2> QED
    BY <2>1, <2>2 DEF CountsHolders, BoundOnce
<1>2. CASE p = prev
  <2>1. s \in Held(p) /\ Held(p)' = Held(p) \ {s} /\ n \in Nat /\ n > 0 /\ IsFiniteSet(Held(p))
    BY <1>2, SetSlotHolders
  <2>2. Cardinality(Held(p)') = n - 1 /\ (n - 1 = 0 <=> Held(p)' = {})
    BY <2>1, FS_RemoveElement, FS_EmptySet
  <2>3. cache[p] # None /\ cache[p] \in Entries
    BY <2>1 DEF CountsHolders, TypeOK
  <2>4. prev # None
    BY <1>2, CacheAssumption
  <2>5. cache'[p] = Detached(p)
    BY <1>2 DEF SetSlot
  <2>6. bound'[p] = IF LastDetach(p) THEN 0 ELSE bound[p]
    BY <1>0, <1>2, <2>4 DEF SetSlot
  <2>7. CASE cache[p].refs = NaN
    <3>1. ~LastDetach(p)
      BY <2>7 DEF LastDetach
    <3>2. cache'[p] = [cache[p] EXCEPT !.refs = NaN]
      BY <2>3, <2>5, <2>7, <3>1 DEF Detached
    <3>3. cache'[p] \in Entries /\ cache'[p].refs = NaN
      BY <2>3, <3>2 DEF Entries
    <3>4. bound'[p] = 0
      BY <2>3, <2>6, <2>7, <3>1 DEF BoundOnce
    <3> QED
      BY <3>3, <3>4, CacheAssumption
  <2>8. CASE cache[p].refs # NaN /\ n = 1
    <3>1. LastDetach(p)
      BY <2>3, <2>8 DEF LastDetach, CountsHolders
    <3> QED
      BY <2>2, <2>5, <2>6, <2>8, <3>1 DEF Detached
  <2>9. CASE cache[p].refs # NaN /\ n # 1
    <3>1. cache[p].refs = n /\ ~LastDetach(p)
      BY <2>1, <2>3, <2>9 DEF LastDetach, CountsHolders
    <3>2. cache'[p] = [cache[p] EXCEPT !.refs = n - 1]
      BY <2>3, <2>5, <2>9, <3>1 DEF Detached
    <3>3. n - 1 \in Nat /\ n - 1 # NaN
      BY <2>1 DEF NaN
    <3> HIDE DEF n
    <3>4. cache'[p] \in Entries /\ cache'[p].refs = n - 1
      BY <2>3, <3>2, <3>3 DEF Entries
    <3>5. bound'[p] = 1
      BY <2>3, <2>6, <2>9, <3>1 DEF BoundOnce
    <3> QED
      BY <2>1, <2>2, <2>9, <3>3, <3>4, <3>5, CacheAssumption
  <2> QED
    BY <2>7, <2>8, <2>9
<1>3. CASE p = q
  <2>1. s \notin Held(p) /\ Held(p)' = Held(p) \cup {s} /\ n \in Nat /\ IsFiniteSet(Held(p))
    BY <1>3, SetSlotHolders
  <2>2. Cardinality(Held(p)') = n + 1 /\ Held(p)' # {}
    BY <2>1, FS_AddElement
  <2>3. p # prev /\ p # None
    BY <1>0, <1>3, CacheAssumption
  <2>4. bound'[p] = bound[p] + Attached(p).bind
    BY <1>3, <2>3 DEF SetSlot
  <2>5. CASE cache[p] = None
    <3>1. cache'[p] = [refs |-> 1, data |-> None]
      BY <1>3, <2>3, <2>5 DEF SetSlot, Entry
    <3>2. cache'[p] \in Entries /\ cache'[p].refs = 1
      BY <3>1 DEF Entries
    <3>3. n = 0
      BY <2>5, FS_EmptySet DEF CountsHolders
    <3>4. bound'[p] = 1
      BY <2>4, <2>5 DEF BoundOnce, Attached, AttachNew
    <3> QED
      BY <2>2, <3>2, <3>3, <3>4, CacheAssumption DEF NaN
  <2>6. CASE cache[p] # None
    <3>1. cache[p] \in Entries /\ Attached(p) = AttachAgain(cache[p])
      BY <2>6 DEF TypeOK, Attached
    <3>2. cache'[p] = [cache[p] EXCEPT !.refs = Attached(p).refs]
      BY <1>3, <2>3, <2>6 DEF SetSlot
    <3>3. CASE cache[p].refs = NaN
      <4>1. Attached(p).refs = NaN /\ Attached(p).bind = 0
        BY <3>1, <3>3 DEF AttachAgain, NaN
      <4>2. cache'[p] \in Entries /\ cache'[p].refs = NaN
        BY <3>1, <3>2, <4>1 DEF Entries
      <4>3. bound'[p] = 0
        BY <2>4, <2>6, <3>3, <4>1 DEF BoundOnce
      <4> QED
        BY <4>2, <4>3, CacheAssumption
    <3>4. CASE cache[p].refs # NaN
      <4>1. cache[p].refs = n /\ n # 0
        BY <2>1, <2>6, <3>4, FS_EmptySet DEF CountsHolders
      <4>2. Attached(p).refs = n + 1 /\ Attached(p).bind = 0
        BY <3>1, <3>4, <4>1 DEF AttachAgain
      <4>3. n + 1 \in Nat /\ n + 1 # NaN
        BY <2>1 DEF NaN
      <4> HIDE DEF n
      <4>4. cache'[p] \in Entries /\ cache'[p].refs = n + 1
        BY <3>1, <3>2, <4>2, <4>3 DEF Entries
      <4>5. bound'[p] = 1
        BY <2>4, <2>6, <3>4, <4>2 DEF BoundOnce
      <4> QED
        BY <2>2, <4>3, <4>4, <4>5, CacheAssumption
    <3> QED
      BY <3>3, <3>4
  <2> QED
    BY <2>5, <2>6
<1> QED
  BY <1>1, <1>2, <1>3

(* An attach binds the bulk handler with the others, a detach leaves it.       *)
LEMMA SetSlotBulk ==
  ASSUME TypeOK, BoundOnce, NEW s \in Slots, NEW q \in Playlists \cup {None}, SetSlot(s, q),
         NEW p \in Playlists
  PROVE  bulk'[p] >= bound'[p]
<1>1. bulk[p] \in Nat /\ bound[p] \in Nat /\ bulk[p] >= bound[p]
  BY DEF TypeOK, BoundOnce
<1>2. q # slot[s]
  BY DEF SetSlot
<1>3. CASE p = q
  <2>1. q # None
    BY <1>3, CacheAssumption
  <2>2. Attached(q).bind \in {0, 1}
    BY DEF Attached, AttachNew, AttachAgain
  <2>3. bulk'[p] = bulk[p] + Attached(q).bind /\ bound'[p] = bound[p] + Attached(q).bind
    BY <1>2, <1>3, <2>1 DEF SetSlot, TypeOK
  <2> QED
    BY <1>1, <2>2, <2>3
<1>4. CASE p # q
  <2>1. bulk'[p] = bulk[p]
    BY <1>4 DEF SetSlot, TypeOK
  <2>2. bound'[p] \in {0, bound[p]}
    BY <1>4 DEF SetSlot
  <2> QED
    BY <1>1, <2>1, <2>2
<1> QED
  BY <1>3, <1>4

LEMMA CountInit == Init => CountInv
<1> SUFFICES ASSUME Init
             PROVE  CountsHolders /\ BoundOnce
  BY InitType DEF CountInv
<1>1. \A p \in Playlists : Held(p) = {}
  BY CacheAssumption DEF Init, Held
<1> QED
  BY <1>1 DEF Init, CountsHolders, BoundOnce

LEMMA CountStep == CountInv /\ [Next]_vars => CountInv'
<1> SUFFICES ASSUME TypeOK, CountsHolders, BoundOnce, [Next]_vars
             PROVE  CountsHolders' /\ BoundOnce'
  BY StepType DEF CountInv
<1>1. ASSUME NEW s \in Slots, NEW q \in Playlists \cup {None}, SetSlot(s, q)
      PROVE  CountsHolders' /\ BoundOnce'
  BY <1>1, SetSlotCounts, SetSlotBulk DEF CountsHolders, BoundOnce
<1>2. ASSUME NEW l \in loads, LoadOwner(l)
      PROVE  CountsHolders' /\ BoundOnce'
  BY <1>2, LoadOwnerCounts
<1>3. ASSUME NEW l \in loads, LoadData(l)
      PROVE  SameCounts
  BY <1>3, LoadedType, SetDataKeepsCounts DEF LoadData, TypeOK, Loads
<1>4. ASSUME NEW e \in fanout, Deliver(e)
      PROVE  SameCounts
  BY <1>4, EventType, MergedType, SetDataKeepsCounts DEF Deliver
<1>5. ASSUME NEW e \in fanout, DeliverEarly(e)
      PROVE  SameCounts
  <2>1. CASE e.kind = "settings"
    BY <1>5, <2>1, EventType, EarlyType, SetDataKeepsCounts DEF DeliverEarly
  <2>2. CASE e.kind # "settings"
    BY <1>5, <2>2 DEF DeliverEarly, SameCounts, handlers
  <2> QED
    BY <2>1, <2>2
<1>6. ASSUME NEW p \in Playlists, PatchNow(p) \/ PatchDebounced(p)
      PROVE  SameCounts
  <2>1. edits' \in Nat /\ Full(p)
    BY <1>6 DEF PatchNow, PatchDebounced, TypeOK
  <2>2. [cache[p].data EXCEPT !.set = edits'] \in Datas
    BY <2>1, ShownEditType
  <2> QED
    BY <1>6, <2>2, SetDataKeepsCounts DEF PatchNow, PatchDebounced
<1>7. ASSUME NEW c \in patches, PatchFailed(c)
      PROVE  SameCounts
  <2>1. c.p \in Playlists /\ c.undo \in Datas \cup {None}
    BY DEF TypeOK, Patches
  <2>2. CASE c.undo = None
    BY <1>7, <2>2 DEF PatchFailed, SameCounts, handlers
  <2>3. CASE c.undo # None
    BY <1>7, <2>1, <2>3, SetDataKeepsCounts DEF PatchFailed
  <2> QED
    BY <2>2, <2>3
<1>8. ASSUME UNCHANGED <<slot, cache, handlers>>
      PROVE  SameCounts
  BY <1>8 DEF SameCounts, handlers
<1>9. CASE \/ \E p \in Playlists, t \in Tracks : AddRow(p, t) \/ RemoveRow(p, t) \/ RemoveBulk(p, t)
           \/ \E p \in Playlists : EditElsewhere(p) \/ FlushPatch(p)
           \/ TakeRequest \/ Drop \/ Reconnect
           \/ \E l \in loads : Snapshot(l) \/ LoadFails(l)
           \/ \E e \in fanout : PassBy(e)
           \/ \E c \in patches : SavePatch(c) \/ PatchDone(c)
           \/ UNCHANGED vars
  <2>1. UNCHANGED <<slot, cache, handlers>>
    BY <1>9 DEF AddRow, RemoveRow, RemoveBulk, handlers, EditElsewhere, FlushPatch, TakeRequest, Drop, Reconnect,
                Snapshot, LoadFails, PassBy, SavePatch, PatchDone, vars
  <2> QED
    BY <1>8, <2>1, SameCountsKeepsInv
<1> QED
  BY <1>1, <1>2, <1>3, <1>4, <1>5, <1>6, <1>7, <1>9, SameCountsKeepsInv DEF Next

(* For any number of slots and playlists, what is shown is cached, and an      *)
(* entry that kept its count counts exactly the slots that show it: attach and *)
(* detach never lose one another's references.                                 *)
THEOREM ShownIsCounted == Spec => []CountsHolders
<1>1. CountInv => CountsHolders
  BY DEF CountInv
<1> QED
  BY CountInit, CountStep, <1>1, PTL DEF Spec

(* Whatever attaches and detaches came before, the handlers of a counted entry *)
(* are bound exactly once and those of no other, but for the handler of bulk   *)
(* deletions, which is bound at least as often.                                *)
THEOREM HandlersBoundOnce == Spec => []BoundOnce
<1>1. CountInv => BoundOnce
  BY DEF CountInv
<1> QED
  BY CountInit, CountStep, <1>1, PTL DEF Spec
=============================================================================
