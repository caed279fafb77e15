------------------------- MODULE PlaylistViewProofs -------------------------
(* The web client's cache refines PlaylistView, for any playlists, tracks and  *)
(* slots: the step that every action is in the view; and whatever the cache    *)
(* shows that is stale has an excuse.                                          *)
EXTENDS PlaylistCacheProofs

-----------------------------------------------------------------------------
(* The values of the view's variables, as ViewPromise gives them.              *)
Gone == [p \in Playlists |-> had[p] \ rows[p]]
Shown == [p \in Playlists |-> IF cache[p] = None THEN None ELSE Seen(cache[p].data)]
Copies == [p \in Playlists |-> Copied(p)]

(* What the refinement needs to know: nothing is listed that was never added,  *)
(* and an event tells of a change that happened and was not undone.            *)
ViewInv ==
  /\ \A p \in Playlists : rows[p] \subseteq had[p]
  /\ \A e \in fanout : /\ e.kind = "add" => e.of \in had[e.p]
                       /\ e.kind \in {"delete", "bulk"} => e.of \in had[e.p] \ rows[e.p]

LEMMA ViewInvInit == Init => ViewInv
BY DEF Init, ViewInv

LEMMA ViewInvStep == TypeOK /\ ViewInv /\ [Next]_vars => ViewInv'
<1> SUFFICES ASSUME TypeOK, ViewInv, [Next]_vars
             PROVE  ViewInv'
  OBVIOUS
<1>0. \A e \in fanout : e.p \in Playlists
  BY EventType
<1>1. ASSUME NEW p \in Playlists, NEW t \in Tracks, AddRow(p, t)
      PROVE  ViewInv'
  BY <1>0, <1>1 DEF AddRow, ViewInv, TypeOK, Event
<1>2. ASSUME NEW p \in Playlists, NEW t \in Tracks, RemoveRow(p, t) \/ RemoveBulk(p, t)
      PROVE  ViewInv'
  <2>1. CASE RemoveRow(p, t)
    BY <1>0, <2>1 DEF RemoveRow, ViewInv, TypeOK, Event
  <2>2. CASE RemoveBulk(p, t)
    BY <1>0, <2>2 DEF RemoveBulk, ViewInv, TypeOK, Event
  <2> QED
    BY <1>2, <2>1, <2>2
<1>3. ASSUME NEW p \in Playlists, EditElsewhere(p)
      PROVE  ViewInv'
  BY <1>3 DEF EditElsewhere, ViewInv, Event
<1>4. ASSUME NEW c \in patches, SavePatch(c)
      PROVE  ViewInv'
  BY <1>4 DEF SavePatch, ViewInv, Event
<1>5. ASSUME rows' = rows, had' = had, fanout' \subseteq fanout
      PROVE  ViewInv'
  BY <1>5 DEF ViewInv
<1>6. CASE \/ \E p \in Playlists : PatchNow(p) \/ PatchDebounced(p) \/ FlushPatch(p)
           \/ TakeRequest \/ Drop \/ Reconnect
           \/ \E s \in Slots, q \in Playlists \cup {None} : SetSlot(s, q)
           \/ \E l \in loads : Snapshot(l) \/ LoadFails(l) \/ LoadData(l) \/ LoadOwner(l)
           \/ \E e \in fanout : Deliver(e) \/ DeliverEarly(e) \/ PassBy(e)
           \/ \E c \in patches : PatchDone(c) \/ PatchFailed(c)
           \/ UNCHANGED vars
  <2>1. rows' = rows /\ had' = had /\ fanout' \subseteq fanout
    BY <1>6 DEF PatchNow, PatchDebounced, FlushPatch, TakeRequest, Drop, Reconnect, SetSlot,
                Snapshot, LoadFails, LoadData, LoadOwner, Deliver, DeliverEarly, PassBy,
                PatchDone, PatchFailed, backend, vars
  <2> QED
    BY <1>5, <2>1
<1> QED
  BY <1>1, <1>2, <1>3, <1>4, <1>6 DEF Next

-----------------------------------------------------------------------------
(* Copies. Those in given loads and patches, to speak of them before and after *)
(* a step.                                                                     *)
TakenFrom(L, C, p) == {l.tracks : l \in {k \in L : k.p = p /\ k.step = "answered"}}
                     \cup {Seen(c.undo) : c \in {k \in C : k.p = p /\ k.undo # None}}

LEMMA CopiesAre ==
  /\ Copies = [p \in Playlists |-> TakenFrom(loads, patches, p)]
  /\ Copies' = [p \in Playlists |-> TakenFrom(loads', patches', p)]
BY DEF Copies, Copied, TakenFrom, Seen

LEMMA CopiesMember ==
  ASSUME NEW L, NEW C, NEW p, NEW x
  PROVE  x \in TakenFrom(L, C, p) <=>
           \/ \E l \in L : l.p = p /\ l.step = "answered" /\ x = l.tracks
           \/ \E c \in C : c.p = p /\ c.undo # None /\ x = Seen(c.undo)
BY DEF TakenFrom

(* Marks of what a copy is behind on change nothing of what was copied.        *)
LoadsAlike(L, M) == \A k \in L : \E l \in M : l.p = k.p /\ l.step = k.step /\ l.tracks = k.tracks
PatchesAlike(C, D) == \A c \in C : \E d \in D : d.p = c.p /\ d.undo = c.undo

LEMMA AlikeCopies ==
  ASSUME NEW L, NEW M, NEW C, NEW D, LoadsAlike(L, M), PatchesAlike(C, D), NEW p
  PROVE  TakenFrom(L, C, p) \subseteq TakenFrom(M, D, p)
<1> SUFFICES ASSUME NEW x \in TakenFrom(L, C, p)
             PROVE  x \in TakenFrom(M, D, p)
  OBVIOUS
<1>1. CASE \E l \in L : l.p = p /\ l.step = "answered" /\ x = l.tracks
  BY <1>1, CopiesMember DEF LoadsAlike
<1>2. CASE \E c \in C : c.p = p /\ c.undo # None /\ x = Seen(c.undo)
  <2>1. PICK c \in C : c.p = p /\ c.undo # None /\ x = Seen(c.undo)
    BY <1>2
  <2>2. PICK d \in D : d.p = c.p /\ d.undo = c.undo
    BY DEF PatchesAlike
  <2> QED
    BY <2>1, <2>2, CopiesMember
<1> QED
  BY <1>1, <1>2, CopiesMember

(* Alike both ways, they hold the same copies.                                 *)
LEMMA AlikeSame ==
  ASSUME NEW L, NEW M, NEW C, NEW D,
         LoadsAlike(L, M), LoadsAlike(M, L), PatchesAlike(C, D), PatchesAlike(D, C)
  PROVE  \A p : TakenFrom(L, C, p) = TakenFrom(M, D, p)
<1> TAKE p
<1>1. TakenFrom(L, C, p) \subseteq TakenFrom(M, D, p)
  BY AlikeCopies
<1>2. TakenFrom(M, D, p) \subseteq TakenFrom(L, C, p)
  BY AlikeCopies
<1> QED
  BY <1>1, <1>2

Marked(S, A, x) == {IF k \in A THEN [k EXCEPT !.since = @ \cup {x}] ELSE k : k \in S}

LEMMA MarkKeepsLoads ==
  ASSUME NEW L \in SUBSET Loads, NEW A, NEW x
  PROVE  LoadsAlike(L, Marked(L, A, x)) /\ LoadsAlike(Marked(L, A, x), L)
<1>1. ASSUME NEW l \in L
      PROVE  /\ [l EXCEPT !.since = @ \cup {x}].p = l.p
             /\ [l EXCEPT !.since = @ \cup {x}].step = l.step
             /\ [l EXCEPT !.since = @ \cup {x}].tracks = l.tracks
  BY <1>1 DEF Loads
<1> QED
  BY <1>1 DEF LoadsAlike, Marked

LEMMA MarkKeepsPatches ==
  ASSUME NEW C \in SUBSET Patches, NEW A, NEW x
  PROVE  PatchesAlike(C, Marked(C, A, x)) /\ PatchesAlike(Marked(C, A, x), C)
<1>1. ASSUME NEW c \in C
      PROVE  /\ [c EXCEPT !.since = @ \cup {x}].p = c.p
             /\ [c EXCEPT !.since = @ \cup {x}].undo = c.undo
  BY <1>1 DEF Patches
<1> QED
  BY <1>1 DEF PatchesAlike, Marked

LEMMA AgeKeepsCopies ==
  ASSUME TypeOK, NEW p \in Playlists, NEW x, Age(p, x)
  PROVE  Copies' = Copies
<1> DEFINE A == {l \in loads : l.p = p /\ l.step = "answered"}
           B == {c \in patches : c.p = p /\ c.undo # None}
<1>1. loads' = Marked(loads, A, x)
  BY DEF Age, Marked
<1>2. patches' = Marked(patches, B, x)
  BY DEF Age, Marked
<1> HIDE DEF A, B
<1>3. LoadsAlike(loads, loads') /\ LoadsAlike(loads', loads)
  BY <1>1, MarkKeepsLoads DEF TypeOK
<1>4. PatchesAlike(patches, patches') /\ PatchesAlike(patches', patches)
  BY <1>2, MarkKeepsPatches DEF TypeOK
<1>5. \A q \in Playlists : TakenFrom(loads', patches', q) = TakenFrom(loads, patches, q)
  <2>1. \A q : TakenFrom(loads', patches', q) = TakenFrom(loads, patches, q)
    BY <1>3, <1>4, AlikeSame
  <2> QED
    BY <2>1
<1> QED
  BY <1>5, CopiesAre

(* A load or a patch that ends takes at most its own copy away.                *)
LEMMA EndedTakesItsCopy ==
  ASSUME NEW L, NEW C, NEW M, NEW D, NEW p, NEW x,
         M \subseteq L, D \subseteq C,
         \A l \in L \ M : l.p = p /\ l.step = "answered" => l.tracks = x,
         \A c \in C \ D : c.p = p /\ c.undo # None => Seen(c.undo) = x
  PROVE  TakenFrom(M, D, p) = TakenFrom(L, C, p) \/ TakenFrom(M, D, p) = TakenFrom(L, C, p) \ {x}
<1>1. TakenFrom(M, D, p) \subseteq TakenFrom(L, C, p)
  BY DEF TakenFrom
<1>2. TakenFrom(L, C, p) \ {x} \subseteq TakenFrom(M, D, p)
  BY DEF TakenFrom
<1> QED
  BY <1>1, <1>2

-----------------------------------------------------------------------------
(* The view's steps, in the terms above.                                       *)
Renewed(p, ts) ==
  /\ ts \in Copies[p]
  /\ Shown' = [Shown EXCEPT ![p] = ts] \/ Shown' = Shown
  /\ Copies' = [Copies EXCEPT ![p] = @ \ {ts}] \/ Copies' = Copies

LEMMA ViewStutters ==
  ASSUME had' = had, Gone' = Gone, Shown' = Shown, Copies' = Copies
  PROVE  UNCHANGED View!vars
BY DEF View!vars, Gone, Shown, Copies

LEMMA ViewAdds ==
  ASSUME NEW p \in Playlists, NEW t \in Tracks, t \notin had[p],
         had' = [had EXCEPT ![p] = @ \cup {t}], Gone' = Gone, Shown' = Shown, Copies' = Copies
  PROVE  View!Next
<1>1. View!Add(p, t)
  BY DEF View!Add, Gone, Shown, Copies
<1> QED
  BY <1>1 DEF View!Next

LEMMA ViewRemoves ==
  ASSUME NEW p \in Playlists, NEW t \in Tracks, t \in had[p] \ Gone[p],
         Gone' = [Gone EXCEPT ![p] = @ \cup {t}], had' = had, Shown' = Shown, Copies' = Copies
  PROVE  View!Next
<1>1. View!Remove(p, t)
  BY DEF View!Remove, Gone, Shown, Copies
<1> QED
  BY <1>1 DEF View!Next

LEMMA ViewShows ==
  ASSUME NEW p \in Playlists, NEW t \in Tracks, Shown[p] # None, t \in had[p],
         Shown' = [Shown EXCEPT ![p] = @ \cup {t}], had' = had, Gone' = Gone, Copies' = Copies
  PROVE  View!Next
<1>1. View!Show(p, t)
  BY DEF View!Show, Gone, Shown, Copies
<1> QED
  BY <1>1 DEF View!Next

LEMMA ViewHides ==
  ASSUME NEW p \in Playlists, NEW t \in Tracks, Shown[p] # None, t \in Gone[p],
         Shown' = [Shown EXCEPT ![p] = @ \ {t}], had' = had, Gone' = Gone, Copies' = Copies
  PROVE  View!Next
<1>1. View!Hide(p, t)
  BY DEF View!Hide, Gone, Shown, Copies
<1> QED
  BY <1>1 DEF View!Next

LEMMA ViewCopies ==
  ASSUME NEW p \in Playlists, NEW ts \in {had[p] \ Gone[p]} \cup ({Shown[p]} \ {None}),
         Copies' = [Copies EXCEPT ![p] = @ \cup {ts}], had' = had, Gone' = Gone, Shown' = Shown
  PROVE  View!Next
<1>1. View!Copy(p)
  BY DEF View!Copy, Gone, Shown, Copies
<1> QED
  BY <1>1 DEF View!Next

LEMMA ViewRenews ==
  ASSUME NEW p \in Playlists, NEW ts, Renewed(p, ts), had' = had, Gone' = Gone
  PROVE  View!Next
<1>1. View!Renew(p)
  BY DEF View!Renew, Renewed, Gone, Shown, Copies
<1> QED
  BY <1>1 DEF View!Next

LEMMA ViewCloses ==
  ASSUME NEW p \in Playlists, Shown' = [Shown EXCEPT ![p] = None],
         had' = had, Gone' = Gone, Copies' = Copies
  PROVE  View!Next
<1>1. View!Close(p)
  BY DEF View!Close, Gone, Shown, Copies
<1> QED
  BY <1>1 DEF View!Next

-----------------------------------------------------------------------------
(* What is shown after a step.                                                 *)
LEMMA UnchangedCopies ==
  ASSUME loads' = loads, patches' = patches
  PROVE  Copies' = Copies
BY CopiesAre

LEMMA SetDataShows ==
  ASSUME TypeOK, NEW p \in Playlists, NEW d \in Datas \cup {None}, SetData(p, d)
  PROVE  Shown' = IF cache[p] = None THEN Shown ELSE [Shown EXCEPT ![p] = Seen(d)]
<1>1. CASE cache[p] = None
  BY <1>1 DEF SetData, Shown, Seen
<1>2. CASE cache[p] # None
  <2>1. cache' = [cache EXCEPT ![p].data = d]
    BY <1>2 DEF SetData
  <2>2. cache[p] \in Entries
    BY <1>2 DEF TypeOK
  <2>3. cache'[p] \in Entries /\ cache'[p].data = d
    BY <2>1, <2>2 DEF TypeOK, Entries
  <2>4. \A q \in Playlists : q # p => cache'[q] = cache[q]
    BY <2>1 DEF TypeOK
  <2>5. \A q \in Playlists : Shown'[q] = IF q = p THEN Seen(d) ELSE Shown[q]
    BY <2>3, <2>4, CacheAssumption DEF Shown, Seen
  <2> QED
    BY <1>2, <2>5 DEF Shown
<1> QED
  BY <1>1, <1>2

LEMMA SeenType ==
  ASSUME NEW d \in Datas, d.full
  PROVE  Seen(d) \in SUBSET Tracks /\ Seen(d) # None /\ Seen(d) = {t \in Tracks : d.n[t] > 0}
<1>1. Seen(d) = {t \in Tracks : d.n[t] > 0}
  BY CacheAssumption DEF Seen
<1> QED
  BY <1>1, CacheAssumption

LEMMA FullShows ==
  ASSUME TypeOK, NEW p \in Playlists, Full(p)
  PROVE  /\ Shown[p] = Seen(cache[p].data) /\ Shown[p] \in SUBSET Tracks /\ Shown[p] # None
         /\ cache[p].data \in Datas /\ cache[p].data.full
<1>1. cache[p].data \in Datas /\ cache[p].data.full /\ cache[p] # None
  BY FullType DEF Full
<1> QED
  BY <1>1, SeenType DEF Shown

-----------------------------------------------------------------------------
(* Each action's step in the view.                                             *)
Viewed == View!Next \/ UNCHANGED View!vars

LEMMA AddRowViewed ==
  ASSUME TypeOK, ViewInv, NEW p \in Playlists, NEW t \in Tracks, AddRow(p, t)
  PROVE  Viewed
<1>1. t \notin had[p] /\ had' = [had EXCEPT ![p] = @ \cup {t}]
  BY DEF AddRow
<1>2. Gone' = Gone
  BY DEF AddRow, TypeOK, Gone
<1>3. Shown' = Shown /\ Copies' = Copies
  BY UnchangedCopies DEF AddRow, Shown, Seen
<1> QED
  BY <1>1, <1>2, <1>3, ViewAdds DEF Viewed

LEMMA RemoveRowViewed ==
  ASSUME TypeOK, ViewInv, NEW p \in Playlists, NEW t \in Tracks, RemoveRow(p, t) \/ RemoveBulk(p, t)
  PROVE  Viewed
<1>1. t \in had[p] \ Gone[p] /\ had' = had
  BY DEF RemoveRow, RemoveBulk, TypeOK, ViewInv, Gone
<1>2. Gone' = [Gone EXCEPT ![p] = @ \cup {t}]
  <2>1. rows' = [rows EXCEPT ![p] = @ \ {t}]
    BY DEF RemoveRow, RemoveBulk
  <2> QED
    BY <1>1, <2>1 DEF TypeOK, ViewInv, Gone
<1>3. Shown' = Shown /\ Copies' = Copies
  BY UnchangedCopies DEF RemoveRow, RemoveBulk, Shown, Seen
<1> QED
  BY <1>1, <1>2, <1>3, ViewRemoves DEF Viewed

LEMMA SlotViewed ==
  ASSUME TypeOK, NEW s \in Slots, NEW q \in Playlists \cup {None}, SetSlot(s, q)
  PROVE  Viewed
<1> DEFINE prev == slot[s]
           drop == prev # None /\ LastDetach(prev)
<1>1. had' = had /\ Gone' = Gone
  BY DEF SetSlot, backend, Gone
<1>2. Copies' = Copies
  <2>1. patches' = patches /\ loads \subseteq loads' /\ \A l \in loads' \ loads : l.step = "asked"
    BY DEF SetSlot
  <2>2. \A p \in Playlists : TakenFrom(loads', patches', p) = TakenFrom(loads, patches, p)
    BY <2>1 DEF TakenFrom
  <2> QED
    BY <2>2, CopiesAre
<1>3. ASSUME NEW p \in Playlists, ~(p = prev /\ drop)
      PROVE  Shown'[p] = Shown[p]
  <2>1. cache[p] \in Entries \cup {None}
    BY DEF TypeOK
  <2>2. CASE p = prev
    <3>1. cache'[p] = Detached(p) /\ ~LastDetach(p)
      BY <1>3, <2>2, CacheAssumption DEF SetSlot
    <3>2. CASE cache[p] = None
      BY <3>1, <3>2 DEF Detached, Shown
    <3>3. CASE cache[p] # None
      <4> DEFINE n == IF cache[p].refs = NaN THEN NaN ELSE cache[p].refs - 1
      <4>1. cache'[p] = [cache[p] EXCEPT !.refs = n]
        BY <3>1, <3>3 DEF Detached
      <4>2. n \in Nat \cup {NaN}
        BY <2>1, <3>1, <3>3 DEF LastDetach, Entries
      <4> HIDE DEF n
      <4>3. cache'[p] \in Entries /\ cache'[p].data = cache[p].data
        BY <2>1, <3>3, <4>1, <4>2 DEF Entries
      <4> QED
        BY <3>3, <4>3, CacheAssumption DEF Shown, Seen
    <3> QED
      BY <3>2, <3>3
  <2>3. CASE p # prev /\ p = q
    <3>0. q # None
      BY <2>3, CacheAssumption
    <3>1. CASE cache[p] = None
      <4>1. cache'[p] = [refs |-> 1, data |-> None]
        BY <2>3, <3>0, <3>1 DEF SetSlot, Entry
      <4>2. cache'[p].data = None
        BY <4>1
      <4>3. Seen(None) = None
        BY DEF Seen
      <4> QED
        BY <3>1, <4>2, <4>3 DEF Shown, Seen
    <3>2. CASE cache[p] # None
      <4> DEFINE n == AttachAgain(cache[p]).refs
      <4>1. cache'[p] = [cache[p] EXCEPT !.refs = n]
        BY <2>3, <3>0, <3>2 DEF SetSlot, Attached
      <4>2. n \in Nat \cup {NaN}
        BY <2>1, <3>2 DEF AttachAgain, Entries
      <4> HIDE DEF n
      <4>3. cache'[p] \in Entries /\ cache'[p].data = cache[p].data
        BY <2>1, <3>2, <4>1, <4>2 DEF Entries
      <4> QED
        BY <3>2, <4>3, CacheAssumption DEF Shown, Seen
    <3> QED
      BY <3>1, <3>2
  <2>4. CASE p # prev /\ p # q
    BY <2>4 DEF SetSlot, Shown, Seen
  <2> QED
    BY <2>2, <2>3, <2>4
<1>4. CASE drop
  <2>1. prev \in Playlists /\ prev # q
    BY <1>4 DEF TypeOK, SetSlot
  <2>2. cache'[prev] = None
    BY <1>4, <2>1 DEF SetSlot, Detached
  <2>3. Shown'[prev] = None
    BY <2>1, <2>2 DEF Shown
  <2> HIDE DEF prev, drop
  <2>4. Shown' = [Shown EXCEPT ![prev] = None]
    BY <1>3, <2>1, <2>3 DEF Shown
  <2> QED
    BY <1>1, <1>2, <2>1, <2>4, ViewCloses DEF Viewed
<1>5. CASE ~drop
  <2>1. \A p \in Playlists : Shown'[p] = Shown[p]
    BY <1>3, <1>5
  <2>2. Shown' = Shown
    BY <2>1 DEF Shown
  <2> QED
    BY <1>1, <1>2, <2>2, ViewStutters DEF Viewed
<1> QED
  BY <1>4, <1>5

LEMMA SnapshotViewed ==
  ASSUME TypeOK, ViewInv, NEW l \in loads, Snapshot(l)
  PROVE  Viewed
<1> DEFINE m == [l EXCEPT !.step = "answered", !.tracks = rows[l.p], !.set = saved[l.p], !.since = {}]
<1>1. l \in Loads /\ l.p \in Playlists /\ l.step = "asked"
  BY DEF TypeOK, Loads, Snapshot
<1>2. m.p = l.p /\ m.step = "answered" /\ m.tracks = rows[l.p]
  BY <1>1 DEF Loads
<1>3. had' = had /\ Gone' = Gone /\ Shown' = Shown
  BY DEF Snapshot, backend, Gone, Shown, Seen
<1>4. loads' = (loads \ {l}) \cup {m} /\ patches' = patches
  BY DEF Snapshot
<1> HIDE DEF m
<1>5. \A p \in Playlists : TakenFrom(loads', patches', p) =
        IF p = l.p THEN TakenFrom(loads, patches, p) \cup {rows[p]} ELSE TakenFrom(loads, patches, p)
  BY <1>1, <1>2, <1>4 DEF TakenFrom
<1>6. Copies' = [Copies EXCEPT ![l.p] = @ \cup {rows[l.p]}]
  BY <1>1, <1>5, CopiesAre
<1>7. rows[l.p] = had[l.p] \ Gone[l.p]
  BY <1>1 DEF ViewInv, Gone
<1> QED
  BY <1>1, <1>3, <1>6, <1>7, ViewCopies DEF Viewed

(* A load that is given up or used gives up its copy, if it had one.           *)
LEMMA LoadEndsCopies ==
  ASSUME TypeOK, NEW l \in loads, patches' = patches,
         loads \ {l} \subseteq loads', \A m \in loads' \ loads : m.step # "answered"
  PROVE  Copies' = Copies \/ Copies' = [Copies EXCEPT ![l.p] = @ \ {l.tracks}]
<1>1. l.p \in Playlists
  BY DEF TypeOK, Loads
<1>2. \A p \in Playlists : p # l.p => TakenFrom(loads', patches', p) = TakenFrom(loads, patches, p)
  BY DEF TakenFrom
<1>3. TakenFrom(loads', patches', l.p) \subseteq TakenFrom(loads, patches, l.p)
  BY DEF TakenFrom
<1>4. TakenFrom(loads, patches, l.p) \ {l.tracks} \subseteq TakenFrom(loads', patches', l.p)
  BY DEF TakenFrom
<1>5. \/ TakenFrom(loads', patches', l.p) = TakenFrom(loads, patches, l.p)
      \/ TakenFrom(loads', patches', l.p) = TakenFrom(loads, patches, l.p) \ {l.tracks}
  BY <1>3, <1>4
<1> QED
  BY <1>1, <1>2, <1>5, CopiesAre

LEMMA AnsweredIsCopy ==
  ASSUME TypeOK, NEW l \in loads, l.step = "answered"
  PROVE  l.p \in Playlists /\ l.tracks \in Copies[l.p]
<1>1. l.p \in Playlists
  BY DEF TypeOK, Loads
<1> QED
  BY <1>1, CopiesMember, CopiesAre

LEMMA UnusedKeepsCopies ==
  ASSUME TypeOK, NEW l \in loads, l.step # "answered", patches' = patches, loads' = loads \ {l}
  PROVE  Copies' = Copies
<1>1. \A p \in Playlists : TakenFrom(loads', patches', p) = TakenFrom(loads, patches, p)
  BY DEF TakenFrom
<1> QED
  BY <1>1, CopiesAre

LEMMA LoadFailsViewed ==
  ASSUME TypeOK, NEW l \in loads, LoadFails(l)
  PROVE  Viewed
<1>1. had' = had /\ Gone' = Gone /\ Shown' = Shown
  BY DEF LoadFails, backend, Gone, Shown, Seen
<1>2. patches' = patches /\ loads' = loads \ {l}
  BY DEF LoadFails
<1>3. CASE l.step = "answered"
  <2>1. Renewed(l.p, l.tracks)
    BY <1>1, <1>2, <1>3, AnsweredIsCopy, LoadEndsCopies DEF Renewed
  <2> QED
    BY <1>1, <1>3, <2>1, AnsweredIsCopy, ViewRenews DEF Viewed
<1>4. CASE l.step # "answered"
  BY <1>1, <1>2, <1>4, UnusedKeepsCopies, ViewStutters DEF Viewed
<1> QED
  BY <1>3, <1>4

LEMMA LoadDataViewed ==
  ASSUME TypeOK, NEW l \in loads, LoadData(l)
  PROVE  Viewed
<1> DEFINE d == Data(TRUE, [t \in Tracks |-> IF t \in l.tracks THEN 1 ELSE 0], l.set)
           m == [l EXCEPT !.step = "owner", !.tracks = {}, !.set = 0, !.since = {}]
<1>1. l \in Loads /\ l.p \in Playlists /\ l.tracks \subseteq Tracks /\ l.step = "answered"
  BY DEF TypeOK, Loads, LoadData
<1>2. d \in Datas /\ d.full /\ d.n = [t \in Tracks |-> IF t \in l.tracks THEN 1 ELSE 0]
  BY LoadedType DEF Data
<1>3. had' = had /\ Gone' = Gone
  BY DEF LoadData, backend, Gone
<1>4. SetData(l.p, d) /\ patches' = patches /\ loads' = (loads \ {l}) \cup {m}
  BY DEF LoadData
<1>5. m.step = "owner"
  BY <1>1 DEF Loads
<1> HIDE DEF d, m
<1>6. Seen(d) = l.tracks
  <2>1. \A t \in Tracks : d.n[t] > 0 <=> t \in l.tracks
    BY <1>2
  <2> QED
    BY <1>1, <1>2, <2>1, SeenType
<1>7. Shown' = Shown \/ Shown' = [Shown EXCEPT ![l.p] = l.tracks]
  BY <1>1, <1>2, <1>4, <1>6, SetDataShows
<1>8. Copies' = Copies \/ Copies' = [Copies EXCEPT ![l.p] = @ \ {l.tracks}]
  BY <1>4, <1>5, LoadEndsCopies
<1>9. Renewed(l.p, l.tracks)
  BY <1>1, <1>7, <1>8, AnsweredIsCopy DEF Renewed
<1> QED
  BY <1>1, <1>3, <1>9, ViewRenews DEF Viewed

LEMMA LoadOwnerViewed ==
  ASSUME TypeOK, NEW l \in loads, LoadOwner(l)
  PROVE  Viewed
<1>1. had' = had /\ Gone' = Gone /\ Copies' = Copies
  BY UnusedKeepsCopies DEF LoadOwner, backend, Gone
<1>2. l.p \in Playlists
  BY DEF TypeOK, Loads
<1>3. CASE cache[l.p] # None
  <2>1. Shown' = Shown
    BY <1>3 DEF LoadOwner, Shown, Seen
  <2> QED
    BY <1>1, <2>1, ViewStutters DEF Viewed
<1>4. CASE cache[l.p] = None
  <2>1. cache' = [cache EXCEPT ![l.p] = [refs |-> NaN, data |-> None]]
    BY <1>4 DEF LoadOwner, Entry
  <2>2. cache'[l.p].data = None /\ \A p \in Playlists : p # l.p => cache'[p] = cache[p]
    BY <1>2, <2>1 DEF TypeOK
  <2>3. Seen(None) = None
    BY DEF Seen
  <2>4. \A p \in Playlists : Shown'[p] = Shown[p]
    BY <1>2, <1>4, <2>2, <2>3 DEF Shown, Seen
  <2>5. Shown' = Shown
    BY <2>4 DEF Shown
  <2> QED
    BY <1>1, <2>5, ViewStutters DEF Viewed
<1> QED
  BY <1>3, <1>4

LEMMA DeliverViewed ==
  ASSUME TypeOK, ViewInv, NEW e \in fanout, Deliver(e)
  PROVE  Viewed
<1> DEFINE d == cache[e.p].data
           m == Merged(d, e)
<1>1. /\ e.p \in Playlists /\ bound[e.p] \in Nat /\ Full(e.p) /\ cache[e.p] # None
      /\ e.kind = "add" => bound[e.p] > 0
  BY EventType DEF Deliver, Reaches, Bound, TypeOK
<1>2. d \in Datas /\ d.full /\ Shown[e.p] = Seen(d) /\ Shown[e.p] # None
  BY <1>1, FullShows
<1>3. m \in Datas
  BY <1>1, MergedType
<1>4. had' = had /\ Gone' = Gone
  BY DEF Deliver, backend, Gone
<1>5. Copies' = Copies
  BY <1>1, AgeKeepsCopies DEF Deliver
<1>6. Shown' = [Shown EXCEPT ![e.p] = Seen(m)]
  BY <1>1, <1>3, SetDataShows DEF Deliver
<1>7. d.n \in [Tracks -> Nat]
  BY <1>2 DEF Datas
<1>8. CASE e.kind = "add"
  <2>1. m = [d EXCEPT !.n[e.of] = @ + bound[e.p]] /\ e.of \in Tracks
    BY <1>8, EventType DEF Merged
  <2>2. m.full /\ m.n = [d.n EXCEPT ![e.of] = @ + bound[e.p]]
    BY <1>2, <2>1 DEF Datas
  <2> HIDE DEF d, m
  <2>3. \A t \in Tracks : m.n[t] > 0 <=> d.n[t] > 0 \/ t = e.of
    BY <1>1, <1>7, <1>8, <2>1, <2>2
  <2>4. Seen(m) = Seen(d) \cup {e.of}
    <3>1. Seen(m) = {t \in Tracks : m.n[t] > 0} /\ Seen(d) = {t \in Tracks : d.n[t] > 0}
      BY <1>2, <1>3, <2>2, SeenType
    <3>2. \A t : t \in Seen(m) <=> t \in Seen(d) \cup {e.of}
      BY <2>1, <2>3, <3>1
    <3> QED
      BY <3>2
  <2>5. Shown' = [Shown EXCEPT ![e.p] = @ \cup {e.of}]
    BY <1>1, <1>2, <1>6, <2>4 DEF Shown
  <2>6. e.of \in had[e.p]
    BY <1>8 DEF ViewInv
  <2> QED
    BY <1>1, <1>2, <1>4, <1>5, <2>1, <2>5, <2>6, ViewShows DEF Viewed
<1>9. CASE e.kind \in {"delete", "bulk"}
  <2>1. m = [d EXCEPT !.n[e.of] = 0] /\ e.of \in Tracks
    BY <1>9, EventType DEF Merged
  <2>2. m.full /\ m.n = [d.n EXCEPT ![e.of] = 0]
    BY <1>2, <2>1 DEF Datas
  <2> HIDE DEF d, m
  <2>3. \A t \in Tracks : m.n[t] > 0 <=> d.n[t] > 0 /\ t # e.of
    BY <1>7, <2>1, <2>2
  <2>4. Seen(m) = Seen(d) \ {e.of}
    BY <1>2, <1>3, <2>1, <2>2, <2>3, SeenType
  <2>5. Shown' = [Shown EXCEPT ![e.p] = @ \ {e.of}]
    BY <1>1, <1>2, <1>6, <2>4 DEF Shown
  <2>6. e.of \in Gone[e.p]
    BY <1>1, <1>9 DEF ViewInv, Gone
  <2> QED
    BY <1>1, <1>2, <1>4, <1>5, <2>1, <2>5, <2>6, ViewHides DEF Viewed
<1>10. CASE e.kind = "settings"
  <2>1. m = [d EXCEPT !.set = e.of]
    BY <1>10 DEF Merged
  <2>2. m.full /\ m.n = d.n
    BY <1>2, <2>1 DEF Datas
  <2> HIDE DEF d, m
  <2>3. Seen(m) = Seen(d)
    BY <1>2, <1>3, <2>2, SeenType
  <2>4. Shown' = Shown
    BY <1>1, <1>2, <1>6, <2>3 DEF Shown
  <2> QED
    BY <1>4, <1>5, <2>4, ViewStutters DEF Viewed
<1> QED
  BY <1>8, <1>9, <1>10, EventType

(* Without a full list nothing is shown, and settings alone show nothing.      *)
LEMMA DeliverEarlyViewed ==
  ASSUME TypeOK, NEW e \in fanout, DeliverEarly(e)
  PROVE  Viewed
<1>1. e.p \in Playlists /\ ~Full(e.p) /\ cache[e.p] # None
  BY EventType DEF DeliverEarly, Reaches
<1>2. had' = had /\ Gone' = Gone
  BY DEF DeliverEarly, backend, Gone
<1>3. Copies' = Copies
  BY <1>1, EventType, AgeKeepsCopies DEF DeliverEarly
<1>4. CASE e.kind = "settings"
  <2> DEFINE d == Data(FALSE, [t \in Tracks |-> 0], e.of)
  <2>1. d \in Datas /\ ~d.full
    BY <1>4, EarlyType DEF Data
  <2>2. SetData(e.p, d)
    BY <1>4 DEF DeliverEarly
  <2> HIDE DEF d
  <2>3. Shown' = [Shown EXCEPT ![e.p] = Seen(d)]
    BY <1>1, <2>1, <2>2, SetDataShows
  <2>4. Seen(d) = None /\ Shown[e.p] = None
    BY <1>1, <2>1 DEF Seen, Shown, Full
  <2>5. Shown' = Shown
    BY <1>1, <2>3, <2>4 DEF Shown
  <2> QED
    BY <1>2, <1>3, <2>5, ViewStutters DEF Viewed
<1>5. CASE e.kind # "settings"
  <2>1. Shown' = Shown
    BY <1>5 DEF DeliverEarly, Shown, Seen
  <2> QED
    BY <1>2, <1>3, <2>1, ViewStutters DEF Viewed
<1> QED
  BY <1>4, <1>5

LEMMA PassByViewed ==
  ASSUME TypeOK, NEW e \in fanout, PassBy(e)
  PROVE  Viewed
<1>1. had' = had /\ Gone' = Gone /\ Shown' = Shown
  BY DEF PassBy, backend, Gone, Shown, Seen
<1>2. Copies' = Copies
  BY EventType, AgeKeepsCopies DEF PassBy
<1> QED
  BY <1>1, <1>2, ViewStutters DEF Viewed

(* Steps that touch neither what is shown nor what is copied.                  *)
LEMMA UntouchedViewed ==
  ASSUME rows' = rows, had' = had, cache' = cache, loads' = loads, patches' = patches
  PROVE  Viewed
<1>1. Gone' = Gone /\ Shown' = Shown /\ Copies' = Copies
  BY UnchangedCopies DEF Gone, Shown, Seen
<1> QED
  BY <1>1, ViewStutters DEF Viewed

-----------------------------------------------------------------------------
(* Edits.                                                                      *)
LEMMA EditShowsSame ==
  ASSUME TypeOK, NEW p \in Playlists, Full(p), NEW v \in Nat,
         SetData(p, [cache[p].data EXCEPT !.set = v])
  PROVE  Shown' = Shown
<1> DEFINE d == cache[p].data
           m == [d EXCEPT !.set = v]
<1>1. d \in Datas /\ d.full /\ Shown[p] = Seen(d) /\ cache[p] # None
  BY FullShows DEF Full
<1>2. m \in Datas /\ m.full /\ m.n = d.n
  BY <1>1 DEF Datas
<1>3. SetData(p, m)
  OBVIOUS
<1> HIDE DEF d, m
<1>4. Seen(m) = Seen(d)
  BY <1>1, <1>2, SeenType
<1>5. Shown' = [Shown EXCEPT ![p] = Seen(m)]
  BY <1>1, <1>2, <1>3, SetDataShows
<1> QED
  BY <1>1, <1>4, <1>5 DEF Shown

LEMMA StampKeepsPatches ==
  ASSUME TypeOK, NEW p \in Playlists
  PROVE  PatchesAlike(patches, Stamp(p)) /\ PatchesAlike(Stamp(p), patches)
<1> DEFINE A == {c \in patches : c.p = p /\ c.undo # None}
<1>1. Stamp(p) = Marked(patches, A, Setting)
  BY DEF Stamp, Marked
<1> HIDE DEF A
<1> QED
  BY <1>1, MarkKeepsPatches DEF TypeOK

LEMMA SameLoadsAlike ==
  ASSUME loads' = loads
  PROVE  LoadsAlike(loads, loads') /\ LoadsAlike(loads', loads)
BY DEF LoadsAlike

LEMMA PatchNowViewed ==
  ASSUME TypeOK, NEW p \in Playlists, PatchNow(p)
  PROVE  Viewed
<1> DEFINE c == Patch(p, edits', cache[p].data)
<1>1. Full(p) /\ edits' \in Nat
  BY DEF PatchNow, TypeOK
<1>2. had' = had /\ Gone' = Gone
  BY DEF PatchNow, backend, Gone
<1>3. Shown' = Shown
  BY <1>1, EditShowsSame DEF PatchNow
<1>4. c.p = p /\ c.undo = cache[p].data /\ c.undo # None /\ Seen(c.undo) = Shown[p] /\ Shown[p] # None
  BY <1>1, FullShows DEF Patch, Full
<1>5. patches' = Stamp(p) \cup {c} /\ loads' = loads
  BY DEF PatchNow
<1> HIDE DEF c
<1>6. \A q \in Playlists : TakenFrom(loads, Stamp(p), q) = TakenFrom(loads, patches, q)
  <2>1. LoadsAlike(loads, loads)
    BY DEF LoadsAlike
  <2>2. PatchesAlike(patches, Stamp(p)) /\ PatchesAlike(Stamp(p), patches)
    BY StampKeepsPatches
  <2>3. \A q : TakenFrom(loads, Stamp(p), q) = TakenFrom(loads, patches, q)
    BY <2>1, <2>2, AlikeSame
  <2> QED
    BY <2>3
<1>7. \A q \in Playlists : TakenFrom(loads', patches', q) =
        IF q = p THEN TakenFrom(loads, Stamp(p), q) \cup {Shown[p]} ELSE TakenFrom(loads, Stamp(p), q)
  BY <1>4, <1>5 DEF TakenFrom
<1>8. Copies' = [Copies EXCEPT ![p] = @ \cup {Shown[p]}]
  BY <1>6, <1>7, CopiesAre
<1> QED
  BY <1>2, <1>3, <1>4, <1>8, ViewCopies DEF Viewed

LEMMA PatchDebouncedViewed ==
  ASSUME TypeOK, NEW p \in Playlists, PatchDebounced(p)
  PROVE  Viewed
<1>1. Full(p) /\ edits' \in Nat
  BY DEF PatchDebounced, TypeOK
<1>2. had' = had /\ Gone' = Gone
  BY DEF PatchDebounced, backend, Gone
<1>3. Shown' = Shown
  BY <1>1, EditShowsSame DEF PatchDebounced
<1>4. patches' = Stamp(p) /\ loads' = loads
  BY DEF PatchDebounced
<1>5. \A q \in Playlists : TakenFrom(loads', patches', q) = TakenFrom(loads, patches, q)
  <2>1. LoadsAlike(loads, loads') /\ LoadsAlike(loads', loads)
    BY <1>4, SameLoadsAlike
  <2>2. PatchesAlike(patches, patches') /\ PatchesAlike(patches', patches)
    BY <1>4, StampKeepsPatches
  <2>3. \A q : TakenFrom(loads', patches', q) = TakenFrom(loads, patches, q)
    BY <2>1, <2>2, AlikeSame
  <2> QED
    BY <2>3
<1>6. Copies' = Copies
  BY <1>5, CopiesAre
<1> QED
  BY <1>2, <1>3, <1>6, ViewStutters DEF Viewed

LEMMA FlushPatchViewed ==
  ASSUME TypeOK, NEW p \in Playlists, FlushPatch(p)
  PROVE  Viewed
<1>1. had' = had /\ Gone' = Gone /\ Shown' = Shown
  BY DEF FlushPatch, backend, Gone, Shown, Seen
<1>2. Patch(p, typed[p], None).undo = None
  BY DEF Patch
<1>3. \A q \in Playlists : TakenFrom(loads', patches', q) = TakenFrom(loads, patches, q)
  BY <1>2 DEF FlushPatch, TakenFrom
<1>4. Copies' = Copies
  BY <1>3, CopiesAre
<1> QED
  BY <1>1, <1>4, ViewStutters DEF Viewed

LEMMA SavePatchViewed ==
  ASSUME TypeOK, NEW c \in patches, SavePatch(c)
  PROVE  Viewed
<1> DEFINE m == [c EXCEPT !.step = "saved"]
<1>1. had' = had /\ Gone' = Gone /\ Shown' = Shown
  BY DEF SavePatch, Gone, Shown, Seen
<1>2. m.p = c.p /\ m.undo = c.undo
  BY DEF TypeOK, Patches
<1>3. patches' = (patches \ {c}) \cup {m} /\ loads' = loads
  BY DEF SavePatch
<1> HIDE DEF m
<1>4. PatchesAlike(patches, patches') /\ PatchesAlike(patches', patches)
  BY <1>2, <1>3 DEF PatchesAlike
<1>5. \A q \in Playlists : TakenFrom(loads', patches', q) = TakenFrom(loads, patches, q)
  <2>1. LoadsAlike(loads, loads') /\ LoadsAlike(loads', loads)
    BY <1>3, SameLoadsAlike
  <2>2. \A q : TakenFrom(loads', patches', q) = TakenFrom(loads, patches, q)
    BY <1>4, <2>1, AlikeSame
  <2> QED
    BY <2>2
<1>6. Copies' = Copies
  BY <1>5, CopiesAre
<1> QED
  BY <1>1, <1>6, ViewStutters DEF Viewed

(* A PATCH that ends gives up the copy it would have put back, if it had one.  *)
LEMMA PatchEndsCopies ==
  ASSUME TypeOK, NEW c \in patches, loads' = loads,
         PatchesAlike(patches \ {c}, patches'), PatchesAlike(patches', patches \ {c})
  PROVE  /\ c.undo = None => Copies' = Copies
         /\ c.undo # None => /\ c.p \in Playlists /\ Seen(c.undo) \in Copies[c.p]
                             /\ \/ Copies' = Copies
                                \/ Copies' = [Copies EXCEPT ![c.p] = @ \ {Seen(c.undo)}]
<1> DEFINE R == patches \ {c}
<1>1. \A q \in Playlists : TakenFrom(loads', patches', q) = TakenFrom(loads, R, q)
  <2>1. LoadsAlike(loads, loads') /\ LoadsAlike(loads', loads)
    BY SameLoadsAlike
  <2>2. PatchesAlike(R, patches') /\ PatchesAlike(patches', R)
    OBVIOUS
  <2> HIDE DEF R
  <2>3. \A q : TakenFrom(loads', patches', q) = TakenFrom(loads, R, q)
    BY <2>1, <2>2, AlikeSame
  <2> QED
    BY <2>3
<1>2. c.p \in Playlists
  BY DEF TypeOK, Patches
<1>3. CASE c.undo = None
  <2>1. \A q \in Playlists : TakenFrom(loads, R, q) = TakenFrom(loads, patches, q)
    BY <1>3 DEF TakenFrom
  <2> QED
    BY <1>1, <1>3, <2>1, CopiesAre
<1>4. CASE c.undo # None
  <2>1. Seen(c.undo) \in TakenFrom(loads, patches, c.p)
    BY <1>4 DEF TakenFrom
  <2>2. \A q \in Playlists : q # c.p => TakenFrom(loads, R, q) = TakenFrom(loads, patches, q)
    BY DEF TakenFrom
  <2>3. TakenFrom(loads, R, c.p) \subseteq TakenFrom(loads, patches, c.p)
    BY DEF TakenFrom
  <2>4. TakenFrom(loads, patches, c.p) \ {Seen(c.undo)} \subseteq TakenFrom(loads, R, c.p)
    BY DEF TakenFrom
  <2>5. \/ TakenFrom(loads, R, c.p) = TakenFrom(loads, patches, c.p)
        \/ TakenFrom(loads, R, c.p) = TakenFrom(loads, patches, c.p) \ {Seen(c.undo)}
    BY <2>3, <2>4
  <2> HIDE DEF R
  <2> QED
    BY <1>1, <1>2, <1>4, <2>1, <2>2, <2>5, CopiesAre
<1> QED
  BY <1>3, <1>4

LEMMA PatchDoneViewed ==
  ASSUME TypeOK, NEW c \in patches, PatchDone(c)
  PROVE  Viewed
<1>1. had' = had /\ Gone' = Gone /\ Shown' = Shown
  BY DEF PatchDone, backend, Gone, Shown, Seen
<1>2. loads' = loads /\ PatchesAlike(patches \ {c}, patches') /\ PatchesAlike(patches', patches \ {c})
  BY DEF PatchDone, PatchesAlike
<1>3. CASE c.undo = None
  BY <1>1, <1>2, <1>3, PatchEndsCopies, ViewStutters DEF Viewed
<1>4. CASE c.undo # None
  <2>1. c.p \in Playlists /\ Renewed(c.p, Seen(c.undo))
    BY <1>1, <1>2, <1>4, PatchEndsCopies DEF Renewed
  <2> QED
    BY <1>1, <2>1, ViewRenews DEF Viewed
<1> QED
  BY <1>3, <1>4

LEMMA PatchFailedViewed ==
  ASSUME TypeOK, NEW c \in patches, PatchFailed(c)
  PROVE  Viewed
<1> DEFINE R == patches \ {c}
           A == {d \in R : d.p = c.p /\ d.undo # None}
<1>1. had' = had /\ Gone' = Gone
  BY DEF PatchFailed, backend, Gone
<1>2. c.p \in Playlists /\ c.undo \in Datas \cup {None}
  BY DEF TypeOK, Patches
<1>3. loads' = loads /\ patches' = Marked(R, A, Setting) /\ R \in SUBSET Patches
  BY DEF PatchFailed, Marked, TypeOK
<1>4. PatchesAlike(R, patches') /\ PatchesAlike(patches', R)
  <2> HIDE DEF R, A
  <2> QED
    BY <1>3, MarkKeepsPatches
<1>5. CASE c.undo = None
  <2>1. Shown' = Shown
    BY <1>5 DEF PatchFailed, Shown, Seen
  <2> QED
    BY <1>1, <1>3, <1>4, <1>5, <2>1, PatchEndsCopies, ViewStutters DEF Viewed
<1>6. CASE c.undo # None
  <2>1. SetData(c.p, c.undo)
    BY <1>6 DEF PatchFailed
  <2>2. Shown' = Shown \/ Shown' = [Shown EXCEPT ![c.p] = Seen(c.undo)]
    BY <1>2, <2>1, SetDataShows
  <2>3. Renewed(c.p, Seen(c.undo))
    BY <1>3, <1>4, <1>6, <2>2, PatchEndsCopies DEF Renewed
  <2> QED
    BY <1>1, <1>2, <2>3, ViewRenews DEF Viewed
<1> QED
  BY <1>5, <1>6

-----------------------------------------------------------------------------
LEMMA ViewInit == Init => View!Init
<1> SUFFICES ASSUME Init
             PROVE  View!Init
  OBVIOUS
<1>1. \A p \in Playlists : Copied(p) = {}
  BY DEF Init, Copied
<1> QED
  BY <1>1 DEF Init, View!Init

LEMMA ViewStep == TypeOK /\ ViewInv /\ [Next]_vars => [View!Next]_View!vars
<1> SUFFICES ASSUME TypeOK, ViewInv, [Next]_vars
             PROVE  Viewed
  BY DEF Viewed
<1>1. ASSUME NEW p \in Playlists, NEW t \in Tracks, AddRow(p, t) \/ RemoveRow(p, t) \/ RemoveBulk(p, t)
      PROVE  Viewed
  BY <1>1, AddRowViewed, RemoveRowViewed
<1>2. ASSUME NEW p \in Playlists, PatchNow(p) \/ PatchDebounced(p) \/ FlushPatch(p)
      PROVE  Viewed
  BY <1>2, PatchNowViewed, PatchDebouncedViewed, FlushPatchViewed
<1>3. ASSUME NEW s \in Slots, NEW q \in Playlists \cup {None}, SetSlot(s, q)
      PROVE  Viewed
  BY <1>3, SlotViewed
<1>4. ASSUME NEW l \in loads, Snapshot(l) \/ LoadFails(l) \/ LoadData(l) \/ LoadOwner(l)
      PROVE  Viewed
  BY <1>4, SnapshotViewed, LoadFailsViewed, LoadDataViewed, LoadOwnerViewed
<1>5. ASSUME NEW e \in fanout, Deliver(e) \/ DeliverEarly(e) \/ PassBy(e)
      PROVE  Viewed
  BY <1>5, DeliverViewed, DeliverEarlyViewed, PassByViewed
<1>6. ASSUME NEW c \in patches, SavePatch(c) \/ PatchDone(c) \/ PatchFailed(c)
      PROVE  Viewed
  BY <1>6, SavePatchViewed, PatchDoneViewed, PatchFailedViewed
<1>7. CASE \/ \E p \in Playlists : EditElsewhere(p)
           \/ TakeRequest \/ Drop \/ Reconnect \/ UNCHANGED vars
  BY <1>7, UntouchedViewed DEF EditElsewhere, TakeRequest, Drop, Reconnect, backend, vars
<1> QED
  BY <1>1, <1>2, <1>3, <1>4, <1>5, <1>6, <1>7 DEF Next

(* Refinement, for any playlists, tracks and slots and any number of loads,    *)
(* drops and edits: what the cache shows changes by one track that was added   *)
(* or removed, or becomes a snapshot or the list before an edit.               *)
THEOREM CacheRefinesView == Spec => ViewPromise
<1>1. Spec => [](TypeOK /\ ViewInv)
  <2>1. Init => TypeOK /\ ViewInv
    BY InitType, ViewInvInit
  <2>2. (TypeOK /\ ViewInv) /\ [Next]_vars => (TypeOK /\ ViewInv)'
    BY StepType, ViewInvStep
  <2> QED
    BY <2>1, <2>2, PTL DEF Spec
<1> QED
  BY <1>1, ViewInit, ViewStep, PTL DEF Spec, ViewPromise, View!Spec


-----------------------------------------------------------------------------
(* What is stale is explained. Everything that may become the list shown (the  *)
(* list itself, an answered snapshot, the data kept to roll back to) is right  *)
(* about a track, or an event that will tell of it is under way, or the copy   *)
(* is marked as behind on it; likewise for the settings, where an edit of this *)
(* client that is not saved yet is another excuse.                             *)
TrackTold(v, S, p, t) ==
  \/ t \in S
  \/ /\ v => t \in had[p]
     /\ t \in rows[p] => v \/ Event("add", p, t) \in fanout
     /\ t \in had[p] \ rows[p] /\ v => Removing(p, t)

SetTold(x, S, p) ==
  Setting \in S \/ x = saved[p] \/ Event("settings", p, saved[p]) \in fanout

EditOpen(p) == typed[p] # None \/ \E c \in patches : c.p = p /\ c.step = "sent"

TracksShown == \A p \in Playlists : Full(p) =>
  \A t \in Tracks : TrackTold(cache[p].data.n[t] > 0, missed[p], p, t)
TracksLoaded == \A l \in loads : l.step = "answered" =>
  \A t \in Tracks : TrackTold(t \in l.tracks, l.since, l.p, t)
TracksKept == \A c \in patches : c.undo # None =>
  c.undo.full /\ \A t \in Tracks : TrackTold(c.undo.n[t] > 0, c.since, c.p, t)
SetShown == \A p \in Playlists : Full(p) =>
  SetTold(cache[p].data.set, missed[p], p) \/ EditOpen(p)
SetLoaded == \A l \in loads : l.step = "answered" => SetTold(l.set, l.since, l.p)

StaleInv == TracksShown /\ TracksLoaded /\ TracksKept /\ SetShown /\ SetLoaded

(* The back end changes a playlist by one track or its settings, and says so. *)
LEMMA BackendStep ==
  ASSUME TypeOK, [Next]_vars
  PROVE  \/ \E p \in Playlists, t \in Tracks : AddRow(p, t) \/ RemoveRow(p, t) \/ RemoveBulk(p, t)
         \/ /\ rows' = rows /\ had' = had
            /\ \/ \E p \in Playlists : EditElsewhere(p)
               \/ \E c \in patches : SavePatch(c)
               \/ saved' = saved /\ fanout' = fanout
               \/ saved' = saved /\ \E e \in fanout : Deliver(e) \/ DeliverEarly(e) \/ PassBy(e)
<1>1. CASE \E p \in Playlists : EditElsewhere(p)
  BY <1>1 DEF EditElsewhere
<1>2. CASE \E c \in patches : SavePatch(c)
  BY <1>2 DEF SavePatch
<1>3. CASE \E e \in fanout : Deliver(e) \/ DeliverEarly(e) \/ PassBy(e)
  BY <1>3 DEF Deliver, DeliverEarly, PassBy, backend
<1>4. CASE \/ \E p \in Playlists : PatchNow(p) \/ PatchDebounced(p) \/ FlushPatch(p)
           \/ TakeRequest \/ Drop \/ Reconnect
           \/ \E s \in Slots, q \in Playlists \cup {None} : SetSlot(s, q)
           \/ \E l \in loads : Snapshot(l) \/ LoadFails(l) \/ LoadData(l) \/ LoadOwner(l)
           \/ \E c \in patches : PatchDone(c) \/ PatchFailed(c)
           \/ UNCHANGED vars
  BY <1>4 DEF PatchNow, PatchDebounced, FlushPatch, TakeRequest, Drop, Reconnect, SetSlot,
              Snapshot, LoadFails, LoadData, LoadOwner, PatchDone, PatchFailed, backend, vars
<1> QED
  BY <1>1, <1>2, <1>3, <1>4 DEF Next

Taken(e) == e \in fanout /\ e \notin fanout'

(* Events that leave the exchange. *)
LEMMA TakenStep ==
  ASSUME TypeOK, [Next]_vars, NEW e, Taken(e)
  PROVE  Deliver(e) \/ DeliverEarly(e) \/ PassBy(e)
<1>1. CASE \E p \in Playlists, t \in Tracks : AddRow(p, t) \/ RemoveRow(p, t) \/ RemoveBulk(p, t)
  BY <1>1 DEF AddRow, RemoveRow, RemoveBulk, Taken
<1>2. CASE \E p \in Playlists : EditElsewhere(p)
  BY <1>2 DEF EditElsewhere, Taken
<1>3. CASE \E c \in patches : SavePatch(c)
  BY <1>3 DEF SavePatch, Taken
<1>4. ASSUME NEW f \in fanout, Deliver(f) \/ DeliverEarly(f) \/ PassBy(f)
      PROVE  e = f
  BY <1>4 DEF Deliver, DeliverEarly, PassBy, Taken
<1> QED
  BY <1>1, <1>2, <1>3, <1>4, BackendStep DEF Taken

(* A copy that stays as it is stays right about a track, or excused, unless an *)
(* event about the track leaves the exchange.                                  *)
LEMMA TrackToldStays ==
  ASSUME TypeOK, ViewInv, [Next]_vars, NEW p \in Playlists, NEW t \in Tracks,
         NEW v \in BOOLEAN, NEW S, TrackTold(v, S, p, t), NEW T, S \subseteq T,
         \A e : Taken(e) /\ e.p = p /\ e.kind # "settings" /\ e.of = t => t \in T
  PROVE  TrackTold(v, T, p, t)'
<1> SUFFICES ASSUME t \notin T
             PROVE  /\ v => t \in had'[p]
                    /\ t \in rows'[p] => v \/ Event("add", p, t) \in fanout'
                    /\ t \in had'[p] \ rows'[p] /\ v => Removing(p, t)'
  BY DEF TrackTold
<1>1. /\ v => t \in had[p]
      /\ t \in rows[p] => v \/ Event("add", p, t) \in fanout
      /\ t \in had[p] \ rows[p] /\ v => Removing(p, t)
  BY DEF TrackTold
<1>2. ASSUME NEW kind \in {"add", "delete", "bulk"}, Event(kind, p, t) \in fanout
      PROVE  Event(kind, p, t) \in fanout'
  <2>1. LET e == Event(kind, p, t) IN e.p = p /\ e.kind = kind /\ e.of = t
    BY DEF Event
  <2> QED
    BY <1>2, <2>1 DEF Taken
<1>6. Removing(p, t) => Removing(p, t)'
  BY <1>2 DEF Removing
<1>3. ASSUME NEW q \in Playlists, NEW u \in Tracks, AddRow(q, u)
      PROVE  /\ t \in had[p] => t \in had'[p]
             /\ t \in rows[p] => t \in rows'[p]
             /\ t \in rows'[p] => t \in rows[p] \/ Event("add", p, t) \in fanout'
             /\ t \in had'[p] \ rows'[p] => t \in had[p] \ rows[p]
  BY <1>3 DEF AddRow, TypeOK
<1>4. ASSUME NEW q \in Playlists, NEW u \in Tracks, RemoveRow(q, u) \/ RemoveBulk(q, u)
      PROVE  /\ had' = had
             /\ t \in rows'[p] => t \in rows[p]
             /\ t \in had'[p] \ rows'[p] => t \in had[p] \ rows[p] \/ Removing(p, t)'
  BY <1>4 DEF RemoveRow, RemoveBulk, Removing, TypeOK
<1>5. CASE rows' = rows /\ had' = had
  BY <1>1, <1>2, <1>5, <1>6
<1> QED
  BY <1>1, <1>2, <1>3, <1>4, <1>5, <1>6, BackendStep

LEMMA SetToldStays ==
  ASSUME TypeOK, [Next]_vars, NEW p \in Playlists, NEW x, NEW S, SetTold(x, S, p),
         NEW T, S \subseteq T, \A e : Taken(e) /\ e.p = p /\ e.kind = "settings" => Setting \in T
  PROVE  SetTold(x, T, p)'
<1> SUFFICES ASSUME Setting \notin T
             PROVE  x = saved'[p] \/ Event("settings", p, saved'[p]) \in fanout'
  BY DEF SetTold
<1>1. x = saved[p] \/ Event("settings", p, saved[p]) \in fanout
  BY DEF SetTold
<1>2. Event("settings", p, saved[p]) \in fanout => Event("settings", p, saved[p]) \in fanout'
  BY DEF Taken, Event
<1>3. saved'[p] = saved[p] \/ Event("settings", p, saved'[p]) \in fanout'
  <2>1. ASSUME NEW q \in Playlists, EditElsewhere(q)
        PROVE  saved'[p] = saved[p] \/ Event("settings", p, saved'[p]) \in fanout'
    BY <2>1 DEF EditElsewhere, TypeOK
  <2>2. ASSUME NEW c \in patches, SavePatch(c)
        PROVE  saved'[p] = saved[p] \/ Event("settings", p, saved'[p]) \in fanout'
    BY <2>2 DEF SavePatch, TypeOK
  <2>3. ASSUME NEW q \in Playlists, NEW t \in Tracks, AddRow(q, t) \/ RemoveRow(q, t) \/ RemoveBulk(q, t)
        PROVE  saved' = saved
    BY <2>3 DEF AddRow, RemoveRow, RemoveBulk
  <2> QED
    BY <2>1, <2>2, <2>3, BackendStep
<1> QED
  BY <1>1, <1>2, <1>3

(* What a step makes of a load that has its answer: new, or as it was and      *)
(* marked with every event of its playlist that left the exchange.             *)
LEMMA LoadStep ==
  ASSUME TypeOK, [Next]_vars, NEW k \in loads', k.step = "answered"
  PROVE  \/ /\ k.p \in Playlists /\ k.tracks = rows[k.p] /\ k.set = saved[k.p]
            /\ rows' = rows /\ had' = had /\ saved' = saved
         \/ \E l \in loads :
              /\ l.step = "answered" /\ l.p = k.p /\ l.tracks = k.tracks /\ l.set = k.set
              /\ l.since \subseteq k.since
              /\ \A e : Taken(e) /\ e.p = k.p => Subject(e) \in k.since
<1> DEFINE Same(l) == /\ l.step = "answered" /\ l.p = k.p /\ l.tracks = k.tracks
                      /\ l.set = k.set /\ l.since \subseteq k.since
<1>1. CASE k \in loads /\ ~(\E e \in fanout : Deliver(e) \/ DeliverEarly(e) \/ PassBy(e))
  BY <1>1, TakenStep DEF Taken
<1>2. ASSUME NEW e \in fanout, Deliver(e) \/ DeliverEarly(e) \/ PassBy(e)
      PROVE  \E l \in loads : Same(l) /\ (e.p = k.p => Subject(e) \in k.since)
  <2>1. loads' = {IF l.p = e.p /\ l.step = "answered"
                  THEN [l EXCEPT !.since = @ \cup {Subject(e)}] ELSE l : l \in loads}
    BY <1>2 DEF Deliver, DeliverEarly, PassBy, Age
  <2>2. PICK l \in loads : k = IF l.p = e.p /\ l.step = "answered"
                               THEN [l EXCEPT !.since = @ \cup {Subject(e)}] ELSE l
    BY <2>1
  <2>3. l \in Loads
    BY DEF TypeOK
  <2>4. CASE l.p = e.p /\ l.step = "answered"
    BY <2>2, <2>3, <2>4 DEF Loads
  <2>5. CASE ~(l.p = e.p /\ l.step = "answered")
    BY <2>2, <2>5
  <2> QED
    BY <2>4, <2>5
<1>3. ASSUME NEW e \in fanout, Deliver(e) \/ DeliverEarly(e) \/ PassBy(e), NEW f, Taken(f)
      PROVE  f = e
  BY <1>3 DEF Deliver, DeliverEarly, PassBy, Taken
<1>4. ASSUME NEW l \in loads, Snapshot(l), k \notin loads
      PROVE  /\ k.p \in Playlists /\ k.tracks = rows[k.p] /\ k.set = saved[k.p]
             /\ rows' = rows /\ had' = had /\ saved' = saved
  <2>1. l \in Loads
    BY DEF TypeOK
  <2> QED
    BY <1>4, <2>1 DEF Snapshot, backend, Loads
<1>5. ASSUME k \notin loads
      PROVE  \/ \E l \in loads : Snapshot(l)
             \/ \E e \in fanout : Deliver(e) \/ DeliverEarly(e) \/ PassBy(e)
  <2>1. ASSUME NEW s \in Slots, NEW q \in Playlists \cup {None}, SetSlot(s, q) PROVE FALSE
    <3>1. \A l \in loads' \ loads : l.step = "asked"
      BY <2>1 DEF SetSlot
    <3> QED
      BY <1>5, <3>1
  <2>2. ASSUME NEW l \in loads, LoadFails(l) \/ LoadOwner(l) PROVE FALSE
    BY <1>5, <2>2 DEF LoadFails, LoadOwner
  <2>3. ASSUME NEW l \in loads, LoadData(l) PROVE FALSE
    <3>1. l \in Loads
      BY DEF TypeOK
    <3> QED
      BY <1>5, <2>3, <3>1 DEF LoadData, Loads
  <2>4. loads' # loads
    BY <1>5
  <2> QED
    BY <2>1, <2>2, <2>3, <2>4
    DEF Next, AddRow, RemoveRow, RemoveBulk, EditElsewhere, PatchNow, PatchDebounced, FlushPatch, TakeRequest,
        Drop, Reconnect, SavePatch, PatchDone, PatchFailed, vars
<1> QED
  BY <1>1, <1>2, <1>3, <1>4, <1>5

LEMMA UndoStep ==
  ASSUME TypeOK, [Next]_vars, NEW k \in patches', k.undo # None
  PROVE  \/ /\ PatchNow(k.p) /\ k.p \in Playlists
            /\ k.undo = cache[k.p].data /\ k.since = missed[k.p]
         \/ \E c \in patches :
              /\ c.undo # None /\ c.p = k.p /\ c.undo = k.undo
              /\ c.since \subseteq k.since
              /\ \A e : Taken(e) /\ e.p = k.p => Subject(e) \in k.since
<1> DEFINE Same(c) == c.undo # None /\ c.p = k.p /\ c.undo = k.undo /\ c.since \subseteq k.since
<1>1. ASSUME NEW e \in fanout, Deliver(e) \/ DeliverEarly(e) \/ PassBy(e)
      PROVE  \E c \in patches : Same(c) /\ (e.p = k.p => Subject(e) \in k.since)
  <2>1. patches' = {IF c.p = e.p /\ c.undo # None
                    THEN [c EXCEPT !.since = @ \cup {Subject(e)}] ELSE c : c \in patches}
    BY <1>1 DEF Deliver, DeliverEarly, PassBy, Age
  <2>2. PICK c \in patches : k = IF c.p = e.p /\ c.undo # None
                                 THEN [c EXCEPT !.since = @ \cup {Subject(e)}] ELSE c
    BY <2>1
  <2>3. c \in Patches
    BY DEF TypeOK
  <2>4. CASE c.p = e.p /\ c.undo # None
    BY <2>2, <2>3, <2>4 DEF Patches
  <2>5. CASE ~(c.p = e.p /\ c.undo # None)
    BY <2>2, <2>5
  <2> QED
    BY <2>4, <2>5
<1>2. ASSUME NEW e \in fanout, Deliver(e) \/ DeliverEarly(e) \/ PassBy(e), NEW f, Taken(f)
      PROVE  f = e
  BY <1>2 DEF Deliver, DeliverEarly, PassBy, Taken
<1>3. ASSUME NEW C, C \subseteq patches, NEW p,
             k \in {IF c.p = p /\ c.undo # None THEN [c EXCEPT !.since = @ \cup {Setting}] ELSE c : c \in C}
      PROVE  \E c \in patches : Same(c)
  <2>1. PICK c \in C : k = IF c.p = p /\ c.undo # None
                           THEN [c EXCEPT !.since = @ \cup {Setting}] ELSE c
    BY <1>3
  <2>2. c \in Patches
    BY <1>3 DEF TypeOK
  <2>3. CASE c.p = p /\ c.undo # None
    BY <1>3, <2>1, <2>2, <2>3 DEF Patches
  <2>4. CASE ~(c.p = p /\ c.undo # None)
    BY <1>3, <2>1, <2>4
  <2> QED
    BY <2>3, <2>4
<1>4. ASSUME NEW p \in Playlists, PatchNow(p)
      PROVE  \/ \E c \in patches : Same(c)
             \/ k.p = p /\ k.undo = cache[p].data /\ k.since = missed[p]
  <2>1. CASE k \in Stamp(p)
    BY <1>3, <2>1 DEF Stamp
  <2>2. CASE k \notin Stamp(p)
    <3>1. k = Patch(p, edits', cache[p].data)
      BY <1>4, <2>2 DEF PatchNow
    <3> QED
      BY <3>1 DEF Patch
  <2> QED
    BY <2>1, <2>2
<1>5. ASSUME NEW p \in Playlists, PatchDebounced(p)
      PROVE  \E c \in patches : Same(c)
  BY <1>3, <1>5 DEF PatchDebounced, Stamp
<1>6. ASSUME NEW p \in Playlists, FlushPatch(p)
      PROVE  \E c \in patches : Same(c)
  BY <1>6 DEF FlushPatch, Patch
<1>7. ASSUME NEW c \in patches, SavePatch(c)
      PROVE  \E d \in patches : Same(d)
  <2>1. c \in Patches
    BY DEF TypeOK
  <2>2. k \in patches \/ k = [c EXCEPT !.step = "saved"]
    BY <1>7 DEF SavePatch
  <2> QED
    BY <2>1, <2>2 DEF Patches
<1>8. ASSUME NEW c \in patches, PatchDone(c)
      PROVE  \E d \in patches : Same(d)
  BY <1>8 DEF PatchDone
<1>9. ASSUME NEW c \in patches, PatchFailed(c)
      PROVE  \E d \in patches : Same(d)
  <2>1. k \in {IF d.p = c.p /\ d.undo # None THEN [d EXCEPT !.since = @ \cup {Setting}] ELSE d : d \in patches \ {c}}
    BY <1>9 DEF PatchFailed
  <2>2. patches \ {c} \subseteq patches
    OBVIOUS
  <2> QED
    BY <1>3, <2>1, <2>2
<1>10. ASSUME patches' = patches
       PROVE  \E c \in patches : Same(c)
  BY <1>10
<1> HIDE DEF Same
<1>11. CASE \E e \in fanout : Deliver(e) \/ DeliverEarly(e) \/ PassBy(e)
  BY <1>1, <1>2, <1>11 DEF Same
<1>12. CASE ~ \E e \in fanout : Deliver(e) \/ DeliverEarly(e) \/ PassBy(e)
  <2>1. \A e : ~Taken(e)
    BY <1>12, TakenStep DEF Taken
  <2>2. \/ \E c \in patches : Same(c)
        \/ \E p \in Playlists : PatchNow(p) /\ k.p = p /\ k.undo = cache[p].data /\ k.since = missed[p]
    BY <1>4, <1>5, <1>6, <1>7, <1>8, <1>9, <1>10, <1>12
    DEF Next, AddRow, RemoveRow, RemoveBulk, EditElsewhere, TakeRequest, Drop, Reconnect, SetSlot, Snapshot,
        LoadFails, LoadData, LoadOwner, vars
  <2> QED
    BY <2>1, <2>2 DEF Same
<1> QED
  BY <1>11, <1>12

(* The data of an entry after it was set, and its other entries. *)
LEMMA SetDataGives ==
  ASSUME TypeOK, NEW p \in Playlists, NEW d \in Datas \cup {None}, SetData(p, d)
  PROVE  /\ \A q \in Playlists : q # p => cache'[q] = cache[q]
         /\ cache[p] = None => cache' = cache
         /\ cache[p] # None => cache'[p] # None /\ cache'[p].data = d
<1>1. CASE cache[p] = None
  BY <1>1 DEF SetData
<1>2. CASE cache[p] # None
  <2>1. cache' = [cache EXCEPT ![p].data = d] /\ cache[p] \in Entries
    BY <1>2 DEF SetData, TypeOK
  <2>2. cache'[p] = [cache[p] EXCEPT !.data = d] /\ \A q \in Playlists : q # p => cache'[q] = cache[q]
    BY <2>1 DEF TypeOK
  <2>3. cache'[p] \in Entries /\ cache'[p].data = d
    BY <2>1, <2>2 DEF Entries
  <2> QED
    BY <1>2, <2>2, <2>3, CacheAssumption
<1> QED
  BY <1>1, <1>2

(* The list shown is as it was, and marked with every event that left the      *)
(* exchange; or only its settings change, by an edit made here; or it is the   *)
(* result of an event, an answered snapshot or the data before a failed edit.  *)
Untouched(p) ==
  /\ Full(p) /\ cache'[p].data = cache[p].data /\ missed[p] \subseteq missed'[p]
  /\ \A e : Taken(e) /\ e.p = p => Subject(e) \in missed'[p]

TracksAsBefore(p) ==
  /\ Full(p) /\ cache'[p].data.n = cache[p].data.n /\ missed[p] \subseteq missed'[p]
  /\ \A e : Taken(e) /\ e.p = p => Subject(e) \in missed'[p]

Replaced(p) ==
  \/ \E e \in fanout : Deliver(e) /\ e.p = p
  \/ \E l \in loads :
       /\ l.step = "answered" /\ l.p = p /\ missed'[p] = l.since
       /\ cache'[p].data = Data(TRUE, [t \in Tracks |-> IF t \in l.tracks THEN 1 ELSE 0], l.set)
       /\ \A e : ~Taken(e)
  \/ \E c \in patches :
       /\ c.undo # None /\ c.p = p /\ missed'[p] = {Setting} \cup c.since
       /\ cache'[p].data = c.undo /\ \A e : ~Taken(e)

LEMMA SlotShown ==
  ASSUME TypeOK, NEW s \in Slots, NEW q \in Playlists \cup {None}, SetSlot(s, q),
         NEW p \in Playlists, Full(p)'
  PROVE  cache[p] # None /\ cache'[p].data = cache[p].data /\ missed'[p] = missed[p]
<1> DEFINE prev == slot[s]
           drop == prev # None /\ LastDetach(prev)
           fresh == q # None /\ cache[q] = None
<1>1. /\ q # prev
      /\ missed' = IF drop THEN [missed EXCEPT ![prev] = {}] ELSE missed
  BY DEF SetSlot
<1>2. cache'[p] # None /\ cache'[p].data # None
  BY DEF Full
<1>3. cache[p] # None => cache[p] \in Entries
  BY DEF TypeOK
<1>4. CASE p = prev
  <2>0. cache'[p] = Detached(p)
    BY <1>4, CacheAssumption DEF SetSlot
  <2>1. cache[p] # None /\ ~LastDetach(p)
    BY <1>2, <2>0 DEF Detached
  <2>2. cache'[p] = [cache[p] EXCEPT !.refs = IF @ = NaN THEN NaN ELSE @ - 1]
    BY <2>0, <2>1 DEF Detached
  <2>3. cache'[p].data = cache[p].data
    BY <1>3, <2>1, <2>2 DEF Entries
  <2> QED
    BY <1>1, <1>4, <2>1, <2>3
<1>5. CASE p # prev /\ p = q
  <2>1. ~fresh
    <3> SUFFICES ASSUME fresh PROVE FALSE
      OBVIOUS
    <3>1. cache'[p] = Entry(1, None)
      BY <1>5 DEF SetSlot
    <3> QED
      BY <1>2, <3>1 DEF Entry
  <2>2. cache[p] # None
    BY <1>5, <2>1, CacheAssumption
  <2>3. cache'[p] = [cache[p] EXCEPT !.refs = Attached(q).refs]
    BY <1>5, <2>1, <2>2, CacheAssumption DEF SetSlot
  <2>4. cache'[p].data = cache[p].data
    BY <1>3, <2>2, <2>3 DEF Entries
  <2>5. missed'[p] = missed[p]
    BY <1>1, <1>5 DEF TypeOK
  <2> QED
    BY <2>2, <2>4, <2>5
<1>6. CASE p # prev /\ p # q
  <2>1. cache'[p] = cache[p]
    BY <1>6 DEF SetSlot
  <2>2. missed'[p] = missed[p]
    BY <1>1, <1>6 DEF TypeOK
  <2> QED
    BY <1>2, <2>1, <2>2
<1> QED
  BY <1>4, <1>5, <1>6

LEMMA ShownStep ==
  ASSUME TypeOK, [Next]_vars, NEW p \in Playlists, Full(p)'
  PROVE  Untouched(p) \/ (TracksAsBefore(p) /\ EditOpen(p)') \/ Replaced(p)
<1>0. ASSUME ~ \E e \in fanout : Deliver(e) \/ DeliverEarly(e) \/ PassBy(e)
      PROVE  \A e : ~Taken(e)
  BY <1>0, TakenStep DEF Taken
<1>1. ASSUME NEW e \in fanout, NEW f, Taken(f), Deliver(e) \/ DeliverEarly(e) \/ PassBy(e)
      PROVE  f = e
  BY <1>1 DEF Deliver, DeliverEarly, PassBy, Taken
<1>2. CASE cache' = cache /\ missed' = missed /\ ~ \E e \in fanout : Deliver(e) \/ DeliverEarly(e) \/ PassBy(e)
  BY <1>0, <1>2 DEF Untouched, Full
<1>3. ASSUME NEW s \in Slots, NEW q \in Playlists \cup {None}, SetSlot(s, q)
      PROVE  Untouched(p)
  <2>1. cache[p] # None /\ cache'[p].data = cache[p].data /\ missed'[p] = missed[p]
    BY <1>3, SlotShown
  <2>2. Full(p)
    BY <2>1 DEF Full
  <2>3. \A e : ~Taken(e)
    BY <1>3 DEF SetSlot, Taken
  <2> QED
    BY <2>1, <2>2, <2>3 DEF Untouched
<1>4. ASSUME NEW l \in loads, LoadData(l)
      PROVE  Untouched(p) \/ Replaced(p)
  <2> DEFINE d == Data(TRUE, [t \in Tracks |-> IF t \in l.tracks THEN 1 ELSE 0], l.set)
  <2>0. l.p \in Playlists /\ l.step = "answered" /\ \A e : ~Taken(e)
    BY <1>4 DEF LoadData, Taken, TypeOK, Loads
  <2>1. d \in Datas
    BY DEF Data, Datas, TypeOK, Loads
  <2>2. SetData(l.p, d)
    BY <1>4 DEF LoadData
  <2>3. missed' = IF cache[l.p] = None THEN missed ELSE [missed EXCEPT ![l.p] = l.since]
    BY <1>4 DEF LoadData
  <2>4. /\ \A q \in Playlists : q # l.p => cache'[q] = cache[q]
        /\ cache[l.p] = None => cache' = cache
        /\ cache[l.p] # None => cache'[l.p] # None /\ cache'[l.p].data = d
    <3> HIDE DEF d
    <3> QED
      BY <2>0, <2>1, <2>2, SetDataGives
  <2>5. CASE p = l.p /\ cache[l.p] # None
    <3>1. missed'[p] = l.since
      BY <2>3, <2>5 DEF TypeOK
    <3> QED
      BY <2>0, <2>4, <2>5, <3>1 DEF Replaced
  <2>6. CASE ~(p = l.p /\ cache[l.p] # None)
    <3>1. cache'[p] = cache[p]
      BY <2>4, <2>6
    <3>2. missed'[p] = missed[p]
      BY <2>3, <2>6 DEF TypeOK
    <3> QED
      BY <2>0, <3>1, <3>2 DEF Untouched, Full
  <2> QED
    BY <2>5, <2>6
<1>5. ASSUME NEW l \in loads, LoadOwner(l)
      PROVE  Untouched(p)
  <2>0. l.p \in Playlists /\ missed' = missed /\ \A e : ~Taken(e)
    BY <1>5 DEF LoadOwner, Taken, TypeOK, Loads
  <2>1. cache'[p] = cache[p] \/ cache'[p] = Entry(NaN, None)
    BY <1>5, <2>0 DEF LoadOwner, TypeOK
  <2>2. cache'[p] = cache[p]
    BY <2>1 DEF Full, Entry
  <2> QED
    BY <2>0, <2>2 DEF Untouched, Full
<1>6. ASSUME NEW e \in fanout, Deliver(e), e.p # p
      PROVE  Untouched(p)
  <2>0. e.p \in Playlists
    BY EventType
  <2>1. Full(e.p) /\ SetData(e.p, Merged(cache[e.p].data, e))
    BY <1>6 DEF Deliver
  <2>2. Merged(cache[e.p].data, e) \in Datas
    BY <2>1, MergedType
  <2>3. cache'[p] = cache[p]
    BY <1>6, <2>0, <2>1, <2>2, SetDataGives
  <2>4. missed'[p] = missed[p]
    BY <1>6 DEF Deliver, TypeOK
  <2>5. \A f : Taken(f) => f = e
    BY <1>1, <1>6
  <2> QED
    BY <1>6, <2>3, <2>4, <2>5 DEF Untouched, Full
<1>7. ASSUME NEW e \in fanout, DeliverEarly(e)
      PROVE  Untouched(p)
  <2> DEFINE d == Data(FALSE, [t \in Tracks |-> 0], e.of)
  <2>0. e.p \in Playlists /\ missed' = missed /\ ~Full(e.p)
    BY <1>7, EventType DEF DeliverEarly
  <2>1. ~Full(e.p)' /\ \A q \in Playlists : q # e.p => cache'[q] = cache[q]
    <3>1. CASE e.kind = "settings"
      <4>1. d \in Datas /\ d.full = FALSE
        BY <3>1, EventType DEF Data, Datas
      <4>2. SetData(e.p, d)
        BY <1>7, <3>1 DEF DeliverEarly
      <4> HIDE DEF d
      <4>3. /\ \A q \in Playlists : q # e.p => cache'[q] = cache[q]
            /\ cache[e.p] = None => cache' = cache
            /\ cache[e.p] # None => cache'[e.p].data = d
        BY <2>0, <4>1, <4>2, SetDataGives
      <4> QED
        BY <2>0, <4>1, <4>3 DEF Full
    <3>2. CASE e.kind # "settings"
      BY <1>7, <2>0, <3>2 DEF DeliverEarly, Full
    <3> QED
      BY <3>1, <3>2
  <2>2. p # e.p
    BY <2>1
  <2>3. \A f : Taken(f) => f = e
    BY <1>1, <1>7
  <2> QED
    BY <2>0, <2>1, <2>2, <2>3 DEF Untouched, Full
<1>8. ASSUME NEW e \in fanout, PassBy(e)
      PROVE  Untouched(p)
  <2>0. e.p \in Playlists /\ cache' = cache
    BY <1>8, EventType DEF PassBy
  <2>1. Full(p) /\ cache'[p] = cache[p]
    BY <2>0 DEF Full
  <2>2. missed' = IF ~Full(e.p) THEN missed ELSE [missed EXCEPT ![e.p] = @ \cup {Subject(e)}]
    BY <1>8 DEF PassBy
  <2>3. missed[p] \subseteq missed'[p] /\ (e.p = p => Subject(e) \in missed'[p])
    BY <2>0, <2>1, <2>2 DEF TypeOK
  <2>4. \A f : Taken(f) => f = e
    BY <1>1, <1>8
  <2> QED
    BY <2>1, <2>3, <2>4 DEF Untouched
<1>9. ASSUME NEW q \in Playlists, PatchNow(q) \/ PatchDebounced(q)
      PROVE  Untouched(p) \/ (TracksAsBefore(p) /\ EditOpen(p)')
  <2> DEFINE d == [cache[q].data EXCEPT !.set = edits']
  <2>0. Full(q) /\ SetData(q, d) /\ missed' = missed /\ edits' \in Nat /\ \A e : ~Taken(e)
    BY <1>9 DEF PatchNow, PatchDebounced, Taken, TypeOK
  <2>1. d \in Datas /\ d.n = cache[q].data.n
    BY <2>0, FullType DEF Datas
  <2>2. /\ \A r \in Playlists : r # q => cache'[r] = cache[r]
        /\ cache[q] # None => cache'[q].data = d
    <3> HIDE DEF d
    <3> QED
      BY <2>0, <2>1, SetDataGives
  <2>3. CASE p = q
    <3>1. TracksAsBefore(p)
      BY <2>0, <2>1, <2>2, <2>3 DEF TracksAsBefore, Full
    <3>2. CASE PatchNow(q)
      <4>1. Patch(q, edits', cache[q].data) \in patches'
        BY <3>2 DEF PatchNow
      <4>2. Patch(q, edits', cache[q].data).p = q /\ Patch(q, edits', cache[q].data).step = "sent"
        BY DEF Patch
      <4> QED
        BY <2>3, <3>1, <4>1, <4>2 DEF EditOpen
    <3>3. CASE PatchDebounced(q)
      <4>1. typed'[q] = edits'
        BY <3>3 DEF PatchDebounced, TypeOK
      <4> QED
        BY <2>0, <2>3, <3>1, <4>1, CacheAssumption DEF EditOpen
    <3> QED
      BY <1>9, <3>2, <3>3
  <2>4. CASE p # q
    BY <2>0, <2>2, <2>4 DEF Untouched, Full
  <2> QED
    BY <2>3, <2>4
<1>10. ASSUME NEW c \in patches, PatchFailed(c)
       PROVE  Untouched(p) \/ Replaced(p)
  <2>0. c.p \in Playlists /\ c.undo \in Datas \cup {None} /\ \A e : ~Taken(e)
    BY <1>10 DEF PatchFailed, Taken, TypeOK, Patches
  <2>1. missed' = IF cache[c.p] = None THEN missed
                  ELSE [missed EXCEPT ![c.p] = {Setting} \cup IF c.undo = None THEN @ ELSE c.since]
    BY <1>10 DEF PatchFailed
  <2>2. CASE c.undo = None
    <3>1. cache' = cache
      BY <1>10, <2>2 DEF PatchFailed
    <3>2. missed[p] \subseteq missed'[p]
      BY <2>0, <2>1, <2>2 DEF TypeOK
    <3> QED
      BY <2>0, <3>1, <3>2 DEF Untouched, Full
  <2>3. CASE c.undo # None
    <3>1. SetData(c.p, c.undo)
      BY <1>10, <2>3 DEF PatchFailed
    <3>2. /\ \A q \in Playlists : q # c.p => cache'[q] = cache[q]
          /\ cache[c.p] = None => cache' = cache
          /\ cache[c.p] # None => cache'[c.p].data = c.undo
      BY <2>0, <3>1, SetDataGives
    <3>3. CASE p = c.p /\ cache[c.p] # None
      <4>1. missed'[p] = {Setting} \cup c.since
        BY <2>0, <2>1, <2>3, <3>3 DEF TypeOK
      <4> QED
        BY <2>0, <2>3, <3>2, <3>3, <4>1 DEF Replaced
    <3>4. CASE ~(p = c.p /\ cache[c.p] # None)
      <4>1. cache'[p] = cache[p]
        BY <3>2, <3>4
      <4>2. missed'[p] = missed[p]
        BY <2>0, <2>1, <3>4 DEF TypeOK
      <4> QED
        BY <2>0, <4>1, <4>2 DEF Untouched, Full
    <3> QED
      BY <3>3, <3>4
  <2> QED
    BY <2>2, <2>3
<1>11. CASE \/ \E q \in Playlists, t \in Tracks : AddRow(q, t) \/ RemoveRow(q, t) \/ RemoveBulk(q, t)
            \/ \E q \in Playlists : EditElsewhere(q) \/ FlushPatch(q)
            \/ TakeRequest \/ Drop \/ Reconnect
            \/ \E l \in loads : Snapshot(l) \/ LoadFails(l)
            \/ \E c \in patches : SavePatch(c) \/ PatchDone(c)
            \/ UNCHANGED vars
  <2>1. cache' = cache /\ missed' = missed /\ fanout \subseteq fanout'
    BY <1>11 DEF AddRow, RemoveRow, RemoveBulk, EditElsewhere, FlushPatch, TakeRequest, Drop, Reconnect,
                 Snapshot, LoadFails, SavePatch, PatchDone, vars
  <2>2. \A e : ~Taken(e)
    BY <2>1 DEF Taken
  <2> QED
    BY <2>1, <2>2 DEF Untouched, Full
<1>12. ASSUME NEW e \in fanout, Deliver(e), e.p = p
       PROVE  Replaced(p)
  BY <1>12 DEF Replaced
<1> QED
  BY <1>3, <1>4, <1>5, <1>6, <1>7, <1>8, <1>9, <1>10, <1>11, <1>12 DEF Next

(* An edit made here stays open until it is saved, which an event tells, or    *)
(* fails, which marks the settings.                                            *)
LEMMA OpenStep ==
  ASSUME TypeOK, [Next]_vars, NEW p \in Playlists, EditOpen(p), Full(p)'
  PROVE  \/ EditOpen(p)'
         \/ Event("settings", p, saved'[p]) \in fanout'
         \/ Setting \in missed'[p]
<1>1. CASE typed[p] # None
  <2>1. ASSUME NEW q \in Playlists, FlushPatch(q), q = p
        PROVE  EditOpen(p)'
    <3>1. Patch(p, typed[p], None) \in patches'
      BY <2>1 DEF FlushPatch
    <3>2. Patch(p, typed[p], None).p = p /\ Patch(p, typed[p], None).step = "sent"
      BY DEF Patch
    <3> QED
      BY <3>1, <3>2 DEF EditOpen
  <2>2. ASSUME NEW q \in Playlists, FlushPatch(q), q # p
        PROVE  typed'[p] = typed[p]
    BY <2>2 DEF FlushPatch, TypeOK
  <2>3. ASSUME NEW q \in Playlists, PatchDebounced(q)
        PROVE  typed'[p] # None
    <3>1. edits' \in Nat /\ typed' = [typed EXCEPT ![q] = edits']
      BY <2>3 DEF PatchDebounced, TypeOK
    <3> QED
      BY <1>1, <3>1, CacheAssumption DEF TypeOK
  <2>4. ASSUME typed' = typed
        PROVE  EditOpen(p)'
    BY <1>1, <2>4 DEF EditOpen
  <2>5. \/ \E q \in Playlists : FlushPatch(q) \/ PatchDebounced(q)
        \/ typed' = typed
    BY DEF Next, AddRow, RemoveRow, RemoveBulk, EditElsewhere, PatchNow, TakeRequest, Drop, Reconnect, SetSlot,
           Snapshot, LoadFails, LoadData, LoadOwner, Deliver, DeliverEarly, PassBy, SavePatch,
           PatchDone, PatchFailed, vars
  <2> QED
    BY <1>1, <2>1, <2>2, <2>3, <2>4, <2>5 DEF EditOpen
<1>2. CASE \E c \in patches : c.p = p /\ c.step = "sent"
  <2>0. PICK c \in patches : c.p = p /\ c.step = "sent"
    BY <1>2
  <2>1. c \in Patches
    BY DEF TypeOK
  <2>2. ASSUME NEW q, NEW x,
               (IF c.p = q /\ c.undo # None THEN [c EXCEPT !.since = @ \cup {x}] ELSE c) \in patches'
        PROVE  EditOpen(p)'
    <3> DEFINE k == IF c.p = q /\ c.undo # None THEN [c EXCEPT !.since = @ \cup {x}] ELSE c
    <3>1. k \in patches'
      BY <2>2
    <3>2. k.p = p /\ k.step = "sent"
      BY <2>0, <2>1 DEF Patches
    <3> QED
      BY <3>1, <3>2 DEF EditOpen
  <2>3. ASSUME NEW e \in fanout, Deliver(e) \/ DeliverEarly(e) \/ PassBy(e)
        PROVE  EditOpen(p)'
    <3>1. (IF c.p = e.p /\ c.undo # None THEN [c EXCEPT !.since = @ \cup {Subject(e)}] ELSE c) \in patches'
      BY <2>3 DEF Deliver, DeliverEarly, PassBy, Age
    <3> QED
      BY <2>2, <3>1
  <2>4. ASSUME NEW q \in Playlists, PatchNow(q) \/ PatchDebounced(q)
        PROVE  EditOpen(p)'
    <3>1. (IF c.p = q /\ c.undo # None THEN [c EXCEPT !.since = @ \cup {Setting}] ELSE c) \in patches'
      BY <2>4 DEF PatchNow, PatchDebounced, Stamp
    <3> QED
      BY <2>2, <3>1
  <2>5. ASSUME NEW d \in patches, PatchFailed(d), d # c
        PROVE  EditOpen(p)'
    <3>1. (IF c.p = d.p /\ c.undo # None THEN [c EXCEPT !.since = @ \cup {Setting}] ELSE c) \in patches'
      BY <2>5 DEF PatchFailed
    <3> QED
      BY <2>2, <3>1
  <2>6. ASSUME PatchFailed(c)
        PROVE  Setting \in missed'[p]
    <3>1. missed' = IF cache[c.p] = None THEN missed
                    ELSE [missed EXCEPT ![c.p] = {Setting} \cup IF c.undo = None THEN @ ELSE c.since]
      BY <2>6 DEF PatchFailed
    <3>2. cache[p] # None
      <4> SUFFICES ASSUME cache[p] = None PROVE FALSE
        OBVIOUS
      <4>1. cache' = cache
        BY <2>0, <2>6 DEF PatchFailed, SetData
      <4> QED
        BY <4>1 DEF Full
    <3> QED
      BY <2>0, <3>1, <3>2 DEF TypeOK
  <2>7. ASSUME NEW d \in patches, PatchDone(d)
        PROVE  EditOpen(p)'
    BY <2>0, <2>7 DEF PatchDone, EditOpen
  <2>8. ASSUME NEW d \in patches, SavePatch(d), d # c
        PROVE  EditOpen(p)'
    BY <2>0, <2>8 DEF SavePatch, EditOpen
  <2>9. ASSUME SavePatch(c)
        PROVE  Event("settings", p, saved'[p]) \in fanout'
    BY <2>0, <2>9 DEF SavePatch, TypeOK
  <2>10. ASSUME patches \subseteq patches'
         PROVE  EditOpen(p)'
    BY <2>0, <2>10 DEF EditOpen
  <2>11. \/ patches \subseteq patches'
         \/ \E e \in fanout : Deliver(e) \/ DeliverEarly(e) \/ PassBy(e)
         \/ \E q \in Playlists : PatchNow(q) \/ PatchDebounced(q)
         \/ \E d \in patches : PatchFailed(d) \/ PatchDone(d) \/ SavePatch(d)
    <3>1. ASSUME NEW q \in Playlists, FlushPatch(q) PROVE patches \subseteq patches'
      BY <3>1 DEF FlushPatch
    <3> QED
      BY <3>1
      DEF Next, AddRow, RemoveRow, RemoveBulk, EditElsewhere, TakeRequest, Drop, Reconnect, SetSlot, Snapshot,
          LoadFails, LoadData, LoadOwner, vars
  <2> QED
    BY <2>3, <2>4, <2>5, <2>6, <2>7, <2>8, <2>9, <2>10, <2>11
<1> QED
  BY <1>1, <1>2 DEF EditOpen

(* The lemma above in the form the lists need. *)
LEMMA TrackToldAfter ==
  ASSUME TypeOK, ViewInv, [Next]_vars, NEW p \in Playlists, NEW t \in Tracks,
         NEW v \in BOOLEAN, NEW S, NEW T, TrackTold(v, S, p, t), S \subseteq T,
         \A e : Taken(e) /\ e.p = p => Subject(e) \in T
  PROVE  \/ t \in T
         \/ /\ v => t \in had'[p]
            /\ t \in rows'[p] => v \/ Event("add", p, t) \in fanout'
            /\ t \in had'[p] \ rows'[p] /\ v => Removing(p, t)'
<1>1. \A e : Taken(e) /\ e.p = p /\ e.kind # "settings" /\ e.of = t => t \in T
  BY DEF Subject
<1> QED
  BY <1>1, TrackToldStays DEF TrackTold

(* An event about another track, or about the settings, is delivered. *)
LEMMA DeliveredElse ==
  ASSUME TypeOK, ViewInv, StaleInv, [Next]_vars, NEW e \in fanout, Deliver(e),
         NEW t \in Tracks, e.kind = "settings" \/ e.of # t
  PROVE  TrackTold(cache[e.p].data.n[t] > 0, missed[e.p], e.p, t)'
<1> DEFINE p == e.p
           v == cache[p].data.n[t] > 0
           S == missed[p]
           T == missed'[p]
<1>0. p \in Playlists /\ Full(p)
  BY EventType DEF Deliver
<1>1. cache[p].data \in Datas /\ bound[p] \in Nat
  BY <1>0, FullType DEF TypeOK
<1>2. cache'[p].data = Merged(cache[p].data, e)
  <2>1. Merged(cache[p].data, e) \in Datas /\ SetData(p, Merged(cache[p].data, e))
    BY <1>0, MergedType DEF Deliver
  <2> QED
    BY <1>0, <2>1, SetDataGives DEF Full
<1>3. cache'[p].data.n[t] = cache[p].data.n[t]
  BY <1>1, <1>2, EventType DEF Merged, Datas
<1>4. S \subseteq T
  BY <1>0 DEF Deliver, TypeOK
<1>5. \A f : Taken(f) => f = e
  BY DEF Deliver, Taken
<1>6. TrackTold(v, S, p, t) /\ v \in BOOLEAN
  BY <1>0 DEF StaleInv, TracksShown
<1>7. \A f : Taken(f) /\ f.p = p /\ f.kind # "settings" /\ f.of = t => t \in T
  BY <1>5
<1> HIDE DEF v, S, T
<1>8. \/ t \in T
      \/ /\ v => t \in had'[p]
         /\ t \in rows'[p] => v \/ Event("add", p, t) \in fanout'
         /\ t \in had'[p] \ rows'[p] /\ v => Removing(p, t)'
  BY <1>0, <1>4, <1>6, <1>7, TrackToldStays DEF TrackTold
<1> QED
  BY <1>3, <1>8 DEF TrackTold, v, S, T

(* An event about the track itself is. *)
LEMMA DeliveredIt ==
  ASSUME TypeOK, ViewInv, NEW e \in fanout, Deliver(e), NEW t \in Tracks,
         e.kind # "settings", e.of = t
  PROVE  TrackTold(cache[e.p].data.n[t] > 0, missed[e.p], e.p, t)'
<1> DEFINE p == e.p
<1>0. p \in Playlists /\ Full(p) /\ (e.kind = "add" => bound[p] > 0)
  BY EventType DEF Deliver, Reaches, Bound
<1>1. cache[p].data \in Datas /\ bound[p] \in Nat /\ cache[p].data.n[t] \in Nat
  BY <1>0, FullType DEF TypeOK, Datas
<1>2. cache'[p].data = Merged(cache[p].data, e)
  <2>1. Merged(cache[p].data, e) \in Datas /\ SetData(p, Merged(cache[p].data, e))
    BY <1>0, MergedType DEF Deliver
  <2> QED
    BY <1>0, <2>1, SetDataGives DEF Full
<1>3. rows' = rows /\ had' = had /\ fanout' = fanout \ {e}
  BY DEF Deliver, backend
<1>4. CASE e.kind = "add"
  <2>1. cache'[p].data.n[t] = cache[p].data.n[t] + bound[p]
    BY <1>1, <1>2, <1>4 DEF Merged, Datas
  <2>2. cache'[p].data.n[t] > 0
    BY <1>0, <1>1, <1>4, <2>1
  <2>3. t \in had[p]
    BY <1>4 DEF ViewInv
  <2>4. Removing(p, t) => Removing(p, t)'
    BY <1>3, <1>4 DEF Removing, Event
  <2>5. t \notin rows[p] /\ ~Removing(p, t) => t \in missed'[p]
    BY <1>0, <1>4 DEF Deliver, Overtaken, Subject, TypeOK
  <2> QED
    BY <1>3, <2>2, <2>3, <2>4, <2>5 DEF TrackTold
<1>5. CASE e.kind \in {"delete", "bulk"}
  <2>1. cache'[p].data.n[t] = 0
    BY <1>1, <1>2, <1>5 DEF Merged, Datas
  <2>2. t \in had[p] \ rows[p]
    BY <1>5 DEF ViewInv
  <2> QED
    BY <1>3, <2>1, <2>2 DEF TrackTold
<1> QED
  BY <1>4, <1>5, EventType

LEMMA TracksShownNext ==
  ASSUME TypeOK, ViewInv, StaleInv, [Next]_vars, NEW p \in Playlists, Full(p)', NEW t \in Tracks
  PROVE  TrackTold(cache[p].data.n[t] > 0, missed[p], p, t)'
<1>1. ASSUME NEW v \in BOOLEAN, NEW S, TrackTold(v, S, p, t), S \subseteq missed'[p],
             \A e : Taken(e) /\ e.p = p => Subject(e) \in missed'[p],
             cache'[p].data.n[t] > 0 <=> v
      PROVE  TrackTold(cache[p].data.n[t] > 0, missed[p], p, t)'
  <2>1. \/ t \in missed'[p]
        \/ /\ v => t \in had'[p]
           /\ t \in rows'[p] => v \/ Event("add", p, t) \in fanout'
           /\ t \in had'[p] \ rows'[p] /\ v => Removing(p, t)'
    BY <1>1, TrackToldAfter
  <2> QED
    BY <1>1, <2>1 DEF TrackTold
<1>2. CASE Untouched(p) \/ TracksAsBefore(p)
  <2>1. /\ Full(p) /\ cache'[p].data.n = cache[p].data.n /\ missed[p] \subseteq missed'[p]
        /\ \A e : Taken(e) /\ e.p = p => Subject(e) \in missed'[p]
    BY <1>2 DEF Untouched, TracksAsBefore
  <2> DEFINE v == cache[p].data.n[t] > 0
  <2>2. TrackTold(v, missed[p], p, t)
    BY <2>1 DEF StaleInv, TracksShown
  <2>3. v \in BOOLEAN /\ (cache'[p].data.n[t] > 0 <=> v)
    BY <2>1
  <2> HIDE DEF v
  <2> QED
    BY <1>1, <2>1, <2>2, <2>3
<1>3. ASSUME NEW e \in fanout, Deliver(e), e.p = p
      PROVE  TrackTold(cache[p].data.n[t] > 0, missed[p], p, t)'
  BY <1>3, DeliveredElse, DeliveredIt
<1>4. ASSUME NEW l \in loads, l.step = "answered", l.p = p, missed'[p] = l.since,
             cache'[p].data = Data(TRUE, [u \in Tracks |-> IF u \in l.tracks THEN 1 ELSE 0], l.set),
             \A e : ~Taken(e)
      PROVE  TrackTold(cache[p].data.n[t] > 0, missed[p], p, t)'
  <2> DEFINE v == t \in l.tracks
  <2>1. TrackTold(v, l.since, p, t)
    BY <1>4 DEF StaleInv, TracksLoaded
  <2>2. v \in BOOLEAN /\ (cache'[p].data.n[t] > 0 <=> v)
    BY <1>4 DEF Data
  <2> HIDE DEF v
  <2> QED
    BY <1>1, <1>4, <2>1, <2>2
<1>5. ASSUME NEW c \in patches, c.undo # None, c.p = p, missed'[p] = {Setting} \cup c.since,
             cache'[p].data = c.undo, \A e : ~Taken(e)
      PROVE  TrackTold(cache[p].data.n[t] > 0, missed[p], p, t)'
  <2> DEFINE v == c.undo.n[t] > 0
  <2>1. TrackTold(v, c.since, p, t)
    BY <1>5 DEF StaleInv, TracksKept
  <2>2. c.since \subseteq missed'[p] /\ v \in BOOLEAN /\ (cache'[p].data.n[t] > 0 <=> v)
    BY <1>5
  <2> HIDE DEF v
  <2> QED
    BY <1>1, <1>5, <2>1, <2>2
<1> QED
  BY <1>2, <1>3, <1>4, <1>5, ShownStep DEF Replaced

(* Snapshots and the data kept to roll back to. *)
LEMMA TracksLoadedNext ==
  ASSUME TypeOK, ViewInv, StaleInv, [Next]_vars, NEW k \in loads', k.step = "answered",
         NEW t \in Tracks
  PROVE  TrackTold(t \in k.tracks, k.since, k.p, t)'
<1> DEFINE v == t \in k.tracks
<1> SUFFICES \/ t \in k.since
             \/ /\ v => t \in had'[k.p]
                /\ t \in rows'[k.p] => v \/ Event("add", k.p, t) \in fanout'
                /\ t \in had'[k.p] \ rows'[k.p] /\ v => Removing(k.p, t)'
  BY DEF TrackTold
<1>1. CASE /\ k.p \in Playlists /\ k.tracks = rows[k.p] /\ rows' = rows /\ had' = had
  BY <1>1 DEF ViewInv
<1>2. ASSUME NEW l \in loads, l.step = "answered", l.p = k.p, l.tracks = k.tracks
      PROVE  TrackTold(v, l.since, k.p, t) /\ k.p \in Playlists
  BY <1>2 DEF TypeOK, Loads, StaleInv, TracksLoaded
<1>3. v \in BOOLEAN
  OBVIOUS
<1> HIDE DEF v
<1>4. CASE \E l \in loads : /\ l.step = "answered" /\ l.p = k.p /\ l.tracks = k.tracks
                            /\ l.since \subseteq k.since
                            /\ \A e : Taken(e) /\ e.p = k.p => Subject(e) \in k.since
  BY <1>2, <1>3, <1>4, TrackToldAfter
<1> QED
  BY <1>1, <1>4, LoadStep

LEMMA UndoFullNext ==
  ASSUME TypeOK, StaleInv, [Next]_vars, NEW k \in patches', k.undo # None
  PROVE  k.undo.full
BY UndoStep DEF StaleInv, TracksKept, PatchNow, Full

LEMMA TracksKeptNext ==
  ASSUME TypeOK, ViewInv, StaleInv, [Next]_vars, NEW k \in patches', k.undo # None,
         NEW t \in Tracks
  PROVE  TrackTold(k.undo.n[t] > 0, k.since, k.p, t)'
<1> DEFINE v == k.undo.n[t] > 0
<1> SUFFICES \/ t \in k.since
             \/ /\ v => t \in had'[k.p]
                /\ t \in rows'[k.p] => v \/ Event("add", k.p, t) \in fanout'
                /\ t \in had'[k.p] \ rows'[k.p] /\ v => Removing(k.p, t)'
  BY DEF TrackTold
<1>1. ASSUME PatchNow(k.p), k.p \in Playlists, k.undo = cache[k.p].data, k.since = missed[k.p]
      PROVE  /\ TrackTold(v, k.since, k.p, t) /\ k.p \in Playlists
             /\ \A e : Taken(e) /\ e.p = k.p => Subject(e) \in k.since
  <2>1. Full(k.p) /\ fanout' = fanout
    BY <1>1 DEF PatchNow
  <2>2. TrackTold(v, k.since, k.p, t)
    BY <1>1, <2>1 DEF StaleInv, TracksShown
  <2> QED
    BY <1>1, <2>1, <2>2 DEF Taken
<1>2. ASSUME NEW c \in patches, c.undo # None, c.p = k.p, c.undo = k.undo,
             c.since \subseteq k.since, \A e : Taken(e) /\ e.p = k.p => Subject(e) \in k.since
      PROVE  TrackTold(v, c.since, k.p, t) /\ k.p \in Playlists
  <2>1. k.p \in Playlists
    BY <1>2 DEF TypeOK, Patches
  <2>2. TrackTold(v, c.since, k.p, t)
    BY <1>2 DEF StaleInv, TracksKept
  <2> QED
    BY <2>1, <2>2
<1>3. v \in BOOLEAN
  OBVIOUS
<1> HIDE DEF v
<1>4. CASE /\ PatchNow(k.p) /\ k.p \in Playlists
           /\ k.undo = cache[k.p].data /\ k.since = missed[k.p]
  BY <1>1, <1>3, <1>4, TrackToldAfter
<1>5. CASE \E c \in patches : /\ c.undo # None /\ c.p = k.p /\ c.undo = k.undo
                              /\ c.since \subseteq k.since
                              /\ \A e : Taken(e) /\ e.p = k.p => Subject(e) \in k.since
  BY <1>2, <1>3, <1>5, TrackToldAfter
<1> QED
  BY <1>4, <1>5, UndoStep

-----------------------------------------------------------------------------
(* The settings shown and those of the snapshots. *)
LEMMA SetDelivered ==
  ASSUME TypeOK, StaleInv, [Next]_vars, NEW e \in fanout, Deliver(e), Full(e.p)'
  PROVE  SetTold(cache[e.p].data.set, missed[e.p], e.p)' \/ EditOpen(e.p)'
<1> DEFINE p == e.p
           x == cache[p].data.set
           S == missed[p]
           T == missed'[p]
<1>0. p \in Playlists /\ Full(p)
  BY EventType DEF Deliver
<1>1. cache[p].data \in Datas
  BY <1>0, FullType
<1>2. cache'[p].data = Merged(cache[p].data, e)
  <2>1. Merged(cache[p].data, e) \in Datas /\ SetData(p, Merged(cache[p].data, e))
    BY <1>0, MergedType DEF Deliver
  <2> QED
    BY <1>0, <2>1, SetDataGives DEF Full
<1>3. /\ S \subseteq T /\ saved' = saved /\ fanout' = fanout \ {e}
      /\ \A f : Taken(f) => f = e
  BY <1>0 DEF Deliver, TypeOK, backend, Taken
<1>4. CASE e.kind = "settings"
  <2>1. cache'[p].data.set = e.of
    BY <1>1, <1>2, <1>4 DEF Merged, Datas
  <2>2. e.of # saved[p] /\ Event("settings", p, saved[p]) \notin fanout => Setting \in T
    BY <1>0, <1>4 DEF Deliver, Overtaken, Subject, TypeOK
  <2>3. e.of # saved[p] => Event("settings", p, saved[p]) # e
    BY DEF Event
  <2> QED
    BY <1>3, <2>1, <2>2, <2>3 DEF SetTold
<1>5. CASE e.kind # "settings"
  <2>1. cache'[p].data.set = x
    BY <1>1, <1>2, <1>5, EventType DEF Merged, Datas
  <2>2. SetTold(x, S, p) \/ EditOpen(p)
    BY <1>0 DEF StaleInv, SetShown
  <2>3. \A f : Taken(f) /\ f.p = p /\ f.kind = "settings" => Setting \in T
    BY <1>3, <1>5
  <2> HIDE DEF x, S, T
  <2>4. SetTold(x, S, p) => Setting \in T \/ x = saved'[p] \/ Event("settings", p, saved'[p]) \in fanout'
    BY <1>0, <1>3, <2>3, SetToldStays DEF SetTold
  <2>5. EditOpen(p) => \/ EditOpen(p)' \/ Event("settings", p, saved'[p]) \in fanout'
                       \/ Setting \in missed'[p]
    BY <1>0, OpenStep
  <2> QED
    BY <2>1, <2>2, <2>4, <2>5 DEF SetTold, T
<1> QED
  BY <1>4, <1>5

LEMMA SetToldAfter ==
  ASSUME TypeOK, [Next]_vars, NEW p \in Playlists, NEW x, NEW S, SetTold(x, S, p),
         NEW T, S \subseteq T, \A e : Taken(e) /\ e.p = p /\ e.kind = "settings" => Setting \in T
  PROVE  Setting \in T \/ x = saved'[p] \/ Event("settings", p, saved'[p]) \in fanout'
BY SetToldStays DEF SetTold

LEMMA SetShownNext ==
  ASSUME TypeOK, StaleInv, [Next]_vars, NEW p \in Playlists, Full(p)'
  PROVE  SetTold(cache[p].data.set, missed[p], p)' \/ EditOpen(p)'
<1>1. ASSUME NEW x, NEW S, SetTold(x, S, p), S \subseteq missed'[p], cache'[p].data.set = x,
             \A e : Taken(e) /\ e.p = p => Subject(e) \in missed'[p]
      PROVE  SetTold(cache[p].data.set, missed[p], p)'
  <2> DEFINE T == missed'[p]
  <2>1. \A e : Taken(e) /\ e.p = p /\ e.kind = "settings" => Setting \in T
    BY <1>1 DEF Subject
  <2>2. S \subseteq T
    BY <1>1
  <2> HIDE DEF T
  <2>3. Setting \in T \/ x = saved'[p] \/ Event("settings", p, saved'[p]) \in fanout'
    BY <1>1, <2>1, <2>2, SetToldAfter
  <2> QED
    BY <1>1, <2>3 DEF SetTold, T
<1>2. CASE Untouched(p)
  <2>1. /\ Full(p) /\ cache'[p].data.set = cache[p].data.set /\ missed[p] \subseteq missed'[p]
        /\ \A e : Taken(e) /\ e.p = p => Subject(e) \in missed'[p]
    BY <1>2 DEF Untouched
  <2>2. SetTold(cache[p].data.set, missed[p], p) \/ EditOpen(p)
    BY <2>1 DEF StaleInv, SetShown
  <2>3. EditOpen(p) => \/ EditOpen(p)' \/ Event("settings", p, saved'[p]) \in fanout'
                       \/ Setting \in missed'[p]
    BY OpenStep
  <2> QED
    BY <1>1, <2>1, <2>2, <2>3 DEF SetTold
<1>3. ASSUME NEW l \in loads, l.step = "answered", l.p = p, missed'[p] = l.since,
             cache'[p].data = Data(TRUE, [u \in Tracks |-> IF u \in l.tracks THEN 1 ELSE 0], l.set),
             \A e : ~Taken(e)
      PROVE  SetTold(cache[p].data.set, missed[p], p)'
  <2>1. SetTold(l.set, l.since, p)
    BY <1>3 DEF StaleInv, SetLoaded
  <2>2. cache'[p].data.set = l.set
    BY <1>3 DEF Data
  <2> QED
    BY <1>1, <1>3, <2>1, <2>2
<1>4. CASE Setting \in missed'[p]
  BY <1>4 DEF SetTold
<1>5. ASSUME NEW e \in fanout, Deliver(e), e.p = p
      PROVE  SetTold(cache[p].data.set, missed[p], p)' \/ EditOpen(p)'
  BY <1>5, SetDelivered
<1> QED
  BY <1>2, <1>3, <1>4, <1>5, ShownStep DEF Replaced

LEMMA SetLoadedNext ==
  ASSUME TypeOK, StaleInv, [Next]_vars, NEW k \in loads', k.step = "answered"
  PROVE  SetTold(k.set, k.since, k.p)'
<1>1. CASE k.set = saved[k.p] /\ saved' = saved
  BY <1>1 DEF SetTold
<1>2. ASSUME NEW l \in loads, l.step = "answered", l.p = k.p, l.set = k.set,
             l.since \subseteq k.since, \A e : Taken(e) /\ e.p = k.p => Subject(e) \in k.since
      PROVE  SetTold(k.set, k.since, k.p)'
  <2>1. k.p \in Playlists /\ SetTold(k.set, l.since, k.p)
    BY <1>2 DEF TypeOK, Loads, StaleInv, SetLoaded
  <2>2. \A e : Taken(e) /\ e.p = k.p /\ e.kind = "settings" => Setting \in k.since
    BY <1>2 DEF Subject
  <2> QED
    BY <1>2, <2>1, <2>2, SetToldStays DEF SetTold
<1> QED
  BY <1>1, <1>2, LoadStep

(* What the cache shows of a track or of the settings once everything about    *)
(* them was emitted and no edit is open is what the back end has, unless the   *)
(* copy shown was marked: an event was lost, overtaken or older than it, or a  *)
(* failed edit was rolled back.                                                *)
THEOREM StalenessExplained == Spec => []StaleIsExplained
<1>1. Init => StaleInv
  BY DEF Init, StaleInv, TracksShown, TracksLoaded, TracksKept, SetShown, SetLoaded, Full
<1>2. TypeOK /\ ViewInv /\ StaleInv /\ [Next]_vars => StaleInv'
  <2> SUFFICES ASSUME TypeOK, ViewInv, StaleInv, [Next]_vars
               PROVE  StaleInv'
    OBVIOUS
  <2>1. TracksShown'
    BY TracksShownNext DEF TracksShown
  <2>2. TracksLoaded'
    <3>1. ASSUME NEW k \in loads', k.step = "answered", NEW t \in Tracks
          PROVE  TrackTold(t \in k.tracks, k.since, k.p, t)'
      BY <3>1, TracksLoadedNext
    <3> QED
      BY <3>1 DEF TracksLoaded, TrackTold
  <2>3. TracksKept'
    <3>1. ASSUME NEW k \in patches', k.undo # None
          PROVE  k.undo.full
      BY <3>1, UndoFullNext
    <3>2. ASSUME NEW k \in patches', k.undo # None, NEW t \in Tracks
          PROVE  TrackTold(k.undo.n[t] > 0, k.since, k.p, t)'
      BY <3>2, TracksKeptNext
    <3> QED
      BY <3>1, <3>2 DEF TracksKept, TrackTold
  <2>4. SetShown'
    BY SetShownNext DEF SetShown
  <2>5. SetLoaded'
    BY SetLoadedNext DEF SetLoaded
  <2> QED
    BY <2>1, <2>2, <2>3, <2>4, <2>5 DEF StaleInv
<1>3. TypeOK /\ ViewInv /\ StaleInv => StaleIsExplained
  <2> SUFFICES ASSUME TypeOK, ViewInv, StaleInv, NEW p \in Playlists, Full(p)
               PROVE  /\ \A t \in Tracks \ missed[p] :
                           (\A e \in fanout : e.p = p => e.of # t)
                             => (cache[p].data.n[t] > 0 <=> t \in rows[p])
                      /\ (/\ Setting \notin missed[p] /\ typed[p] = None
                          /\ (\A c \in patches : c.p # p)
                          /\ (\A e \in fanout : e.p = p => e.kind # "settings"))
                           => cache[p].data.set = saved[p]
    BY DEF StaleIsExplained
  <2>1. ASSUME NEW t \in Tracks \ missed[p], \A e \in fanout : e.p = p => e.of # t
        PROVE  cache[p].data.n[t] > 0 <=> t \in rows[p]
    <3>1. TrackTold(cache[p].data.n[t] > 0, missed[p], p, t)
      BY DEF StaleInv, TracksShown
    <3>2. Event("add", p, t) \notin fanout /\ ~Removing(p, t)
      BY <2>1 DEF Event, Removing
    <3> QED
      BY <2>1, <3>1, <3>2 DEF TrackTold
  <2>2. ASSUME Setting \notin missed[p], typed[p] = None, \A c \in patches : c.p # p,
               \A e \in fanout : e.p = p => e.kind # "settings"
        PROVE  cache[p].data.set = saved[p]
    <3>1. SetTold(cache[p].data.set, missed[p], p)
      BY <2>2 DEF StaleInv, SetShown, EditOpen
    <3>2. Event("settings", p, saved[p]) \notin fanout
      BY <2>2 DEF Event
    <3> QED
      BY <2>2, <3>1, <3>2 DEF SetTold
  <2> QED
    BY <2>1, <2>2
<1> QED
  BY <1>1, <1>2, <1>3, ViewInvInit, ViewInvStep, CacheTypeCorrect, PTL DEF Spec
=============================================================================
