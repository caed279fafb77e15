--------------------------- MODULE PlaylistCache ---------------------------
(* The web client's cache of playlists (stores/playlistStore) beside the       *)
(* playlist it shows: slots attach and detach, the first attach binds the      *)
(* socket's handlers, subscribes and loads a snapshot, changes arrive as       *)
(* socket events, the owner edits settings optimistically, the socket drops.   *)
(* A track list is abstracted to how often each track is in it, the settings   *)
(* to one number that every edit renews.                                       *)
EXTENDS Integers, Sequences, FiniteSets, SequencesExt

CONSTANTS Playlists, Tracks,
          Slots,            \* the places of the screen that show a playlist
          None,             \* no playlist, no entry, no data, nothing typed
          MaxLoads,         \* bound: snapshots the client asks for
          MaxDrops,         \* bound: times the connection drops
          MaxEdits          \* bound: edits of the settings, anyone's

Setting == "setting"
NaN == -1                               \* undefined + 1, once an entry has no refCount
Datas == [full : BOOLEAN, n : [Tracks -> Nat], set : Nat]
Entries == [refs : Nat \cup {NaN}, data : Datas \cup {None}]

ASSUME CacheAssumption ==
  /\ IsFiniteSet(Playlists) /\ IsFiniteSet(Slots)
  /\ None \notin Playlists \cup Entries \cup Datas \cup Nat /\ \A ts \in SUBSET Tracks : ts # None
  /\ {MaxLoads, MaxDrops, MaxEdits} \subseteq Nat

VARIABLES
  rows, had,        \* back end: tracks in each playlist now, and ever
  saved, edits,     \* back end: its settings; the last number given to an edit
  fanout,           \* events published and not emitted yet, in no order
  online, drops,    \* the client's socket
  up,               \* requests of the client the server has not taken
  room,             \* the playlists whose room the socket is in
  slot,             \* client: the playlist each slot shows
  cache,            \* client: the entries
  bound, bulk,      \* how often its handlers are bound; bulk_delete_tracks apart
  loads, asked,     \* client: attachPlaylist's fetches under way; their number
  typed, patches,   \* client: debounced edit; PATCH requests under way
  missed            \* history: what each view may be wrong about, and why is in README

backend == <<rows, had, saved>>
network == <<online, drops, up, room>>
handlers == <<bound, bulk>>
vars == <<rows, had, saved, edits, fanout, online, drops, up, room,
          slot, cache, bound, bulk, loads, asked, typed, patches, missed>>

Event(kind, p, of) == [kind |-> kind, p |-> p, of |-> of]
Entry(refs, data) == [refs |-> refs, data |-> data]
(* full is FALSE for what settings_changed makes of no data: no track list.    *)
Data(full, n, set) == [full |-> full, n |-> n, set |-> set]
Full(p) == cache[p] # None /\ cache[p].data # None /\ cache[p].data.full
Held(p) == {s \in Slots : slot[s] = p}
Requests(kind, ps) == [i \in 1 .. Len(ps) |-> [kind |-> kind, p |-> ps[i]]]
Cached == {p \in Playlists : cache[p] # None}

(* updatePlaylistData: nothing without an entry.                               *)
SetData(p, data) ==
  cache' = IF cache[p] = None THEN cache ELSE [cache EXCEPT ![p].data = data]

(* An event about x reached the client, or was lost on it: what was copied     *)
(* before (a snapshot, the data kept to roll back to) is behind on x.          *)
Age(p, x) ==
  /\ loads' = {IF l.p = p /\ l.step = "answered" THEN [l EXCEPT !.since = @ \cup {x}] ELSE l : l \in loads}
  /\ patches' = {IF c.p = p /\ c.undo # None THEN [c EXCEPT !.since = @ \cup {x}] ELSE c : c \in patches}

Init ==
  /\ rows = [p \in Playlists |-> {}] /\ had = rows
  /\ saved = [p \in Playlists |-> 0] /\ edits = 0 /\ fanout = {}
  /\ online = TRUE /\ drops = 0 /\ up = <<>>
  /\ room = {}
  /\ slot = [s \in Slots |-> None] /\ cache = [p \in Playlists |-> None]
  /\ bound = [p \in Playlists |-> 0] /\ bulk = bound /\ loads = {} /\ asked = 0
  /\ typed = [p \in Playlists |-> None] /\ patches = {}
  /\ missed = [p \in Playlists |-> {}]

-----------------------------------------------------------------------------
(* Back end. A change commits and its event is published; a track id is new.   *)
AddRow(p, t) ==
  /\ \A q \in Playlists : t \notin had[q]
  /\ rows' = [rows EXCEPT ![p] = @ \cup {t}] /\ had' = [had EXCEPT ![p] = @ \cup {t}]
  /\ fanout' = fanout \cup {Event("add", p, t)}
  /\ UNCHANGED <<saved, edits, network, slot, cache, handlers, loads, asked, typed, patches, missed>>

RemoveRow(p, t) ==
  /\ t \in rows[p]
  /\ rows' = [rows EXCEPT ![p] = @ \ {t}]
  /\ fanout' = fanout \cup {Event("delete", p, t)}
  /\ UNCHANGED <<had, saved, edits, network, slot, cache, handlers, loads, asked, typed, patches, missed>>

(* A bulk deletion of several tracks is modelled as one for each of them.      *)
RemoveBulk(p, t) ==
  /\ t \in rows[p]
  /\ rows' = [rows EXCEPT ![p] = @ \ {t}]
  /\ fanout' = fanout \cup {Event("bulk", p, t)}
  /\ UNCHANGED <<had, saved, edits, network, slot, cache, handlers, loads, asked, typed, patches, missed>>

(* Another operator's PATCH of the settings.                                   *)
EditElsewhere(p) ==
  /\ edits < MaxEdits /\ edits' = edits + 1
  /\ saved' = [saved EXCEPT ![p] = edits']
  /\ fanout' = fanout \cup {Event("settings", p, edits')}
  /\ UNCHANGED <<rows, had, network, slot, cache, handlers, loads, asked, typed, patches, missed>>

(* The socket layer takes the client's requests in order.                      *)
TakeRequest ==
  /\ online /\ up # <<>> /\ up' = Tail(up)
  /\ room' = IF Head(up).kind = "subscribe" THEN room \cup {Head(up).p} ELSE room \ {Head(up).p}
  /\ UNCHANGED <<backend, edits, fanout, online, drops, slot, cache, handlers, loads, asked, typed, patches, missed>>

-----------------------------------------------------------------------------
(* Slots. attach and detach are the client's counted references.               *)
(* The first reference: bind, subscribe, an entry without data, a fetch.       *)
AttachNew(p) == [refs |-> 1, bind |-> 1, send |-> <<"subscribe">>]
(* A later one only counts, and binds when the count had fallen to nothing.    *)
BindAgain(e) == [refs |-> IF e.refs = NaN THEN NaN ELSE e.refs + 1, bind |-> 1, send |-> <<>>]
AttachAgain(e) ==
  [refs |-> IF e.refs = NaN THEN NaN ELSE e.refs + 1,
   bind |-> IF e.refs = 0 THEN 1 ELSE 0, send |-> <<>>]
Attached(p) == IF cache[p] = None THEN AttachNew(p) ELSE AttachAgain(cache[p])

(* NaN <= 0 is false: an entry that lost its count is never dropped.           *)
DropNever(p) == cache[p] # None /\ cache[p].refs # NaN /\ cache[p].refs < 0
LastDetach(p) == cache[p] # None /\ cache[p].refs # NaN /\ cache[p].refs - 1 <= 0
Detached(p) ==
  IF cache[p] = None \/ LastDetach(p) THEN None
  ELSE [cache[p] EXCEPT !.refs = IF @ = NaN THEN NaN ELSE @ - 1]

(* bindPlaylistEvents binds eight handlers; unbindPlaylistEvents, at the last  *)
(* detach, takes away seven and forgets bulk_delete_tracks.                    *)
(* setSlotPlaylist: nothing for the playlist already there; the slot moves,    *)
(* the old playlist is detached, the new one attached without waiting for it.  *)
SetSlot(s, q) ==
  LET prev == slot[s]
      drop == prev # None /\ LastDetach(prev)
      a == IF q = None THEN None ELSE Attached(q)
      fresh == q # None /\ cache[q] = None
  IN /\ q # prev /\ (fresh => asked < MaxLoads)
     /\ slot' = [slot EXCEPT ![s] = q]
     /\ cache' = [p \in Playlists |->
          IF p = prev THEN Detached(p)
          ELSE IF p = q THEN (IF fresh THEN Entry(1, None) ELSE [cache[p] EXCEPT !.refs = a.refs])
          ELSE cache[p]]
     /\ bound' = [p \in Playlists |->
          IF p = prev /\ drop THEN 0 ELSE IF p = q THEN bound[p] + a.bind ELSE bound[p]]
     /\ bulk' = IF q = None THEN bulk ELSE [bulk EXCEPT ![q] = @ + a.bind]
     /\ up' = up \o (IF drop THEN Requests("unsubscribe", <<prev>>) ELSE <<>>)
                 \o (IF fresh THEN Requests("subscribe", <<q>>) ELSE <<>>)
     /\ asked' = IF fresh THEN asked + 1 ELSE asked
     /\ loads' = IF ~fresh THEN loads
                 ELSE loads \cup {[id |-> asked', p |-> q, step |-> "asked", tracks |-> {}, set |-> 0, since |-> {}]}
     /\ missed' = IF drop THEN [missed EXCEPT ![prev] = {}] ELSE missed
     /\ UNCHANGED <<backend, edits, fanout, online, drops, room, typed, patches>>

(* The server reads the playlist for a fetch.                                  *)
Snapshot(l) ==
  /\ l.step = "asked"
  /\ loads' = (loads \ {l}) \cup
       {[l EXCEPT !.step = "answered", !.tracks = rows[l.p], !.set = saved[l.p], !.since = {}]}
  /\ UNCHANGED <<backend, edits, fanout, network, slot, cache, handlers, asked, typed, patches, missed>>

(* A fetch that is refused or fails leaves the entry without data for good.    *)
LoadFails(l) ==
  /\ loads' = loads \ {l}
  /\ UNCHANGED <<backend, edits, fanout, network, slot, cache, handlers, asked, typed, patches, missed>>

(* The answer becomes the entry's data, if there still is an entry; then the   *)
(* owner's profile is asked for.                                               *)
LoadData(l) ==
  /\ l.step = "answered"
  /\ SetData(l.p, Data(TRUE, [t \in Tracks |-> IF t \in l.tracks THEN 1 ELSE 0], l.set))
  /\ missed' = IF cache[l.p] = None THEN missed ELSE [missed EXCEPT ![l.p] = l.since]
  /\ loads' = (loads \ {l}) \cup {[l EXCEPT !.step = "owner", !.tracks = {}, !.set = 0, !.since = {}]}
  /\ UNCHANGED <<backend, edits, fanout, network, slot, handlers, asked, typed, patches>>

(* The owner's profile is written into the entry; an entry dropped meanwhile   *)
(* comes back with nothing else in it: no data, no count.                      *)
LoadOwner(l) ==
  /\ l.step = "owner"
  /\ cache' = IF cache[l.p] = None THEN [cache EXCEPT ![l.p] = Entry(NaN, None)] ELSE cache
  /\ loads' = loads \ {l}
  /\ UNCHANGED <<backend, edits, fanout, network, slot, handlers, asked, typed, patches, missed>>

-----------------------------------------------------------------------------
(* Events. One is emitted to the sockets in the room and handled as often as   *)
(* its handler is bound; without an entry a handler does nothing.              *)
Bound(e) == IF e.kind = "bulk" THEN bulk[e.p] ELSE bound[e.p]
Reaches(e) == online /\ e.p \in room /\ Bound(e) > 0 /\ cache[e.p] # None

CountedDown(d, e) == IF e.kind = "settings" THEN [d EXCEPT !.set = e.of]
                     ELSE [d EXCEPT !.n[e.of] = @ + IF e.kind = "add" THEN bound[e.p] ELSE -Bound(e)]
SettingsIgnored(d, e) == IF e.kind = "settings" THEN d
                         ELSE [d EXCEPT !.n[e.of] = IF e.kind = "add" THEN @ + bound[e.p] ELSE 0]
SettingsReplace(d, e) == IF e.kind = "settings" THEN Data(TRUE, [t \in Tracks |-> 0], e.of)
                         ELSE [d EXCEPT !.n[e.of] = IF e.kind = "add" THEN @ + bound[e.p] ELSE 0]
Merged(d, e) ==
  CASE e.kind = "add" -> [d EXCEPT !.n[e.of] = @ + bound[e.p]]
    [] e.kind \in {"delete", "bulk"} -> [d EXCEPT !.n[e.of] = 0]
    [] e.kind = "settings" -> [d EXCEPT !.set = e.of]

Subject(e) == IF e.kind = "settings" THEN Setting ELSE e.of

(* The event that tells of the track's removal, in one way or the other.       *)
Removing(p, t) == \E kind \in {"delete", "bulk"} : Event(kind, p, t) \in fanout

(* A newer event about the same thing was delivered before this one.           *)
Overtaken(e) ==
  \/ e.kind = "add" /\ e.of \notin rows[e.p] /\ ~Removing(e.p, e.of)
  \/ e.kind = "settings" /\ e.of # saved[e.p] /\ Event("settings", e.p, saved[e.p]) \notin fanout

Deliver(e) ==
  /\ Reaches(e) /\ Full(e.p)
  /\ fanout' = fanout \ {e}
  /\ SetData(e.p, Merged(cache[e.p].data, e))
  /\ missed' = IF Overtaken(e) THEN [missed EXCEPT ![e.p] = @ \cup {Subject(e)}] ELSE missed
  /\ Age(e.p, Subject(e))
  /\ UNCHANGED <<backend, edits, network, slot, handlers, asked, typed>>

(* Before the data is there, a track event fails on it and is lost; a settings *)
(* event makes data of the settings alone.                                     *)
DeliverEarly(e) ==
  /\ Reaches(e) /\ ~Full(e.p)
  /\ fanout' = fanout \ {e}
  /\ IF e.kind = "settings" THEN SetData(e.p, Data(FALSE, [t \in Tracks |-> 0], e.of)) ELSE UNCHANGED cache
  /\ Age(e.p, Subject(e))
  /\ UNCHANGED <<backend, edits, network, slot, handlers, asked, typed, missed>>

(* Emitted while this client is not in the room, not connected or not bound.   *)
PassBy(e) ==
  /\ ~Reaches(e)
  /\ fanout' = fanout \ {e}
  /\ missed' = IF ~Full(e.p) THEN missed ELSE [missed EXCEPT ![e.p] = @ \cup {Subject(e)}]
  /\ Age(e.p, Subject(e))
  /\ UNCHANGED <<backend, edits, network, slot, cache, handlers, asked, typed>>

(* The connection drops with what was on its way; the server forgets the       *)
(* socket's rooms. On reconnect the client subscribes to what it caches and    *)
(* does not load again.                                                        *)
Drop ==
  /\ online /\ drops < MaxDrops /\ drops' = drops + 1
  /\ online' = FALSE /\ up' = <<>> /\ room' = {}
  /\ UNCHANGED <<backend, edits, fanout, slot, cache, handlers, loads, asked, typed, patches, missed>>

Reconnect ==
  /\ ~online /\ online' = TRUE
  /\ up' = up \o Requests("subscribe", SetToSeq(Cached))
  /\ UNCHANGED <<backend, edits, fanout, drops, room, slot, cache, handlers, loads, asked, typed, patches, missed>>

-----------------------------------------------------------------------------
(* Edits of the settings. patchNow shows the new value, sends it, and on       *)
(* failure puts back the whole playlist as it was before.                      *)
Patch(p, v, undo) == [p |-> p, v |-> v, undo |-> undo, step |-> "sent",
                      since |-> IF undo = None THEN {} ELSE missed[p]]
Stamp(p) == {IF c.p = p /\ c.undo # None THEN [c EXCEPT !.since = @ \cup {Setting}] ELSE c : c \in patches}

PatchNow(p) ==
  /\ Full(p) /\ edits < MaxEdits /\ edits' = edits + 1
  /\ SetData(p, [cache[p].data EXCEPT !.set = edits'])
  /\ patches' = Stamp(p) \cup {Patch(p, edits', cache[p].data)}
  /\ UNCHANGED <<backend, fanout, network, slot, handlers, loads, asked, typed, missed>>

(* patchDebounced: shown at once, sent when the timer fires, never rolled back. *)
PatchDebounced(p) ==
  /\ Full(p) /\ edits < MaxEdits /\ edits' = edits + 1
  /\ SetData(p, [cache[p].data EXCEPT !.set = edits'])
  /\ typed' = [typed EXCEPT ![p] = edits'] /\ patches' = Stamp(p)
  /\ UNCHANGED <<backend, fanout, network, slot, handlers, loads, asked, missed>>

FlushPatch(p) ==
  /\ typed[p] # None /\ typed' = [typed EXCEPT ![p] = None]
  /\ patches' = patches \cup {Patch(p, typed[p], None)}
  /\ UNCHANGED <<backend, edits, fanout, network, slot, cache, handlers, loads, asked, missed>>

SavePatch(c) ==
  /\ c.step = "sent"
  /\ saved' = [saved EXCEPT ![c.p] = c.v] /\ fanout' = fanout \cup {Event("settings", c.p, c.v)}
  /\ patches' = (patches \ {c}) \cup {[c EXCEPT !.step = "saved"]}
  /\ UNCHANGED <<rows, had, edits, network, slot, cache, handlers, loads, asked, typed, missed>>

PatchDone(c) ==
  /\ c.step = "saved" /\ patches' = patches \ {c}
  /\ UNCHANGED <<backend, edits, fanout, network, slot, cache, handlers, loads, asked, typed, missed>>

(* Refused, or saved with its answer lost.                                     *)
PatchFailed(c) ==
  /\ patches' = {IF d.p = c.p /\ d.undo # None THEN [d EXCEPT !.since = @ \cup {Setting}] ELSE d : d \in patches \ {c}}
  /\ IF c.undo = None THEN UNCHANGED cache ELSE SetData(c.p, c.undo)
  /\ missed' = IF cache[c.p] = None THEN missed
               ELSE [missed EXCEPT ![c.p] = {Setting} \cup IF c.undo = None THEN @ ELSE c.since]
  /\ UNCHANGED <<backend, edits, fanout, network, slot, handlers, loads, asked, typed>>

-----------------------------------------------------------------------------
Next ==
  \/ \E p \in Playlists, t \in Tracks : AddRow(p, t) \/ RemoveRow(p, t) \/ RemoveBulk(p, t)
  \/ \E p \in Playlists : EditElsewhere(p) \/ PatchNow(p) \/ PatchDebounced(p) \/ FlushPatch(p)
  \/ TakeRequest \/ Drop \/ Reconnect
  \/ \E s \in Slots, q \in Playlists \cup {None} : SetSlot(s, q)
  \/ \E l \in loads : Snapshot(l) \/ LoadFails(l) \/ LoadData(l) \/ LoadOwner(l)
  \/ \E e \in fanout : Deliver(e) \/ DeliverEarly(e) \/ PassBy(e)
  \/ \E c \in patches : SavePatch(c) \/ PatchDone(c) \/ PatchFailed(c)

Spec == Init /\ [][Next]_vars
-----------------------------------------------------------------------------
Things == Tracks \cup {Setting}
Asks == [kind : {"subscribe", "unsubscribe"}, p : Playlists]
Loads == [id : Nat, p : Playlists, step : {"asked", "answered", "owner"},
          tracks : SUBSET Tracks, set : Nat, since : SUBSET Things]
Patches == [p : Playlists, v : Nat, undo : Datas \cup {None},
            step : {"sent", "saved"}, since : SUBSET Things]
Events == [kind : {"add", "delete", "bulk"}, p : Playlists, of : Tracks]
          \cup [kind : {"settings"}, p : Playlists, of : Nat]

(* The variables keep their types.                                             *)
TypeOK ==
  /\ rows \in [Playlists -> SUBSET Tracks] /\ had \in [Playlists -> SUBSET Tracks]
  /\ saved \in [Playlists -> Nat] /\ edits \in Nat /\ fanout \subseteq Events
  /\ online \in BOOLEAN /\ drops \in Nat
  /\ up \in Seq(Asks)
  /\ room \subseteq Playlists
  /\ slot \in [Slots -> Playlists \cup {None}] /\ asked \in Nat
  /\ cache \in [Playlists -> Entries \cup {None}]
  /\ bound \in [Playlists -> Nat] /\ bulk \in [Playlists -> Nat]
  /\ loads \subseteq Loads /\ patches \subseteq Patches
  /\ typed \in [Playlists -> Nat \cup {None}]
  /\ missed \in [Playlists -> SUBSET Things]

(* A playlist a slot shows is cached; an entry that kept its count counts      *)
(* exactly the slots that show it, so no detach drops what is still shown and  *)
(* none keeps what nobody shows.                                               *)
CountsHolders == \A p \in Playlists :
  /\ Held(p) # {} => cache[p] # None
  /\ cache[p] # None /\ cache[p].refs # NaN => cache[p].refs = Cardinality(Held(p)) /\ Held(p) # {}

(* The handlers of a counted entry are bound once and those of no other,       *)
(* whatever attaches and detaches came before: bound twice, every added track  *)
(* is shown twice. Not so the handler of bulk deletions, which no detach takes *)
(* away: it is bound at least as often, and more with every attach of a        *)
(* playlist that was shown before.                                             *)
BoundOnce == \A p \in Playlists :
  /\ bound[p] = IF cache[p] # None /\ cache[p].refs # NaN THEN 1 ELSE 0
  /\ bulk[p] >= bound[p]

(* Once every event about it was emitted and no edit of it is open, a track or *)
(* the settings are shown as they are in the back end, unless an event about   *)
(* them was lost (not in the room, not connected, no data yet), overtaken by a *)
(* newer one, older than the snapshot shown, or undone by a rolled back edit.  *)
StaleIsExplained == \A p \in Playlists : Full(p) =>
  /\ \A t \in Tracks \ missed[p] :
       (\A e \in fanout : e.p = p => e.of # t) => (cache[p].data.n[t] > 0 <=> t \in rows[p])
  /\ (/\ Setting \notin missed[p] /\ typed[p] = None
      /\ (\A c \in patches : c.p # p) /\ (\A e \in fanout : e.p = p => e.kind # "settings"))
     => cache[p].data.set = saved[p]

(* What a viewer of the playlist is promised; see PlaylistView.                *)
Seen(d) == IF d = None \/ ~d.full THEN None ELSE {t \in Tracks : d.n[t] > 0}
Copied(p) == {l.tracks : l \in {k \in loads : k.p = p /\ k.step = "answered"}}
             \cup {Seen(c.undo) : c \in {k \in patches : k.p = p /\ k.undo # None}}
View == INSTANCE PlaylistView WITH
  gone <- [p \in Playlists |-> had[p] \ rows[p]],
  shown <- [p \in Playlists |-> IF cache[p] = None THEN None ELSE Seen(cache[p].data)],
  copies <- [p \in Playlists |-> Copied(p)]

(* Refinement: the tracks the cache shows change by one added or removed track *)
(* or become a snapshot or the list before an edit; no event, edit, attach or  *)
(* reconnect makes it show a track the playlist never had, or forget one.      *)
ViewPromise == View!Spec
=============================================================================
