---------------------------- MODULE PlayerQueue ----------------------------
(* The web player on one playlist: which track comes next, what interrupts    *)
(* what, and what is taken off the list (stores/playlistStore/helpers.ts and  *)
(* createPlaybackOpsSlice.ts, features/player). The list is this client's      *)
(* view; tracks arrive and leave it by socket events, and the removals and     *)
(* announcements the player sends are answered later. Tracks stand for rows,   *)
(* positions inside a track are left out.                                      *)
EXTENDS Integers, Sequences, FiniteSets

CONSTANTS Tracks, None,
          Priority,         \* the price a track was ordered at, per track
          Opened,           \* the settings and lists a playlist may be opened with
          MaxHistory,       \* 99 in the code
          MaxMoves          \* bound: buttons pressed, orders edited, removals refused
                            \* by the server or made by others

Elems(s) == {s[i] : i \in DOMAIN s}

(* A list names a track once.                                                  *)
Lists == {s \in Seq(Tracks) : \A i, j \in DOMAIN s : s[i] = s[j] => i = j}
Rules == [order : {"auto", "free", "random"}, date : {"asc", "desc", "none"},
          priority : {"asc", "desc", "none"}]
Settings == [mode : {"static", "flow", "stream"}, repeat : {"none", "all", "once"},
             shuffle : BOOLEAN, owner : BOOLEAN, break : Nat, rules : [{"vip", "regular"} -> Rules]]

ASSUME PlayerAssumption ==
  /\ None \notin Tracks \cup [from : Tracks, to : Tracks, was : {"regular", "background"}]
  /\ Priority \in [Tracks -> Nat] /\ MaxHistory \in Nat \ {0} /\ MaxMoves \in Nat
  /\ Opened \subseteq [st : Settings, queue : Lists, backgrounds : Lists]

VARIABLES
  st,                   \* mode, shuffle, repeat, break point, sort rules; the role
  queue, known,         \* track_data, oldest first; tracks that ever arrived
  manual,               \* manual_order_ids of the two sorted groups
  bgPage, bgMode,       \* background_track_ids: of the playlist, of the mode
  current, history,     \* the player slot's track; local.history
  pausedBg, pausedReg,  \* local.paused_background, local.paused_regular
  interrupt,            \* local.pendingInterrupt the feed has not seen
  shown, ended,         \* Player's prevTrackIdRef; is its end handled
  removing, echoes,     \* DELETE requests and play-now announcements under way
  owed,                 \* history: interruptions of a background not yet resumed
  moves                 \* how many of the bounded steps were taken

lists == <<st, manual, bgPage, bgMode>>
pauses == <<pausedBg, pausedReg, owed>>
vars == <<lists, queue, known, current, history, pauses, interrupt, shown, ended,
          removing, echoes, moves>>

Index(s, t) == CHOOSE i \in DOMAIN s : s[i] = t
First(s) == IF s = <<>> THEN None ELSE s[1]
Head2(a, b) == First(a \o b)

(* What a list has of the tracks ts, where it was. Here and in Sorted, a        *)
(* function and \o <<>> make TLC evaluate what is given and returned once.      *)
Only == [s \in Seq(Tracks) |-> [ts \in SUBSET Tracks |->
  [k \in 1 .. Cardinality({i \in DOMAIN s : s[i] \in ts}) |->
     s[CHOOSE i \in DOMAIN s : s[i] \in ts /\ Cardinality({j \in 1 .. i : s[j] \in ts}) = k]] \o <<>>]]
Without(s, ts) == Only[s][Tracks \ ts]

-----------------------------------------------------------------------------
(* Groups of the list (splitQueue, sortByRules, isVipTrack).                   *)
IsVip(t) == st.break > 0 /\ Priority[t] >= st.break
Stream == st.mode = "stream"

(* The two lists of background ids: a group is built from the mode's when it   *)
(* has any, a track is recognised by the playlist's when it has any.           *)
SplitIds == IF bgMode # <<>> THEN bgMode ELSE bgPage
ResolveIds == IF bgPage # <<>> THEN bgPage ELSE bgMode
IsBackground(t, ids) == Stream /\ t \in Elems(ids)

Older(a, b) == Index(queue, a) < Index(queue, b)
Before(g, a, b) ==
  LET r == st.rules[g]
      ids == Elems(manual[g])
  IN IF r.order = "free"
     THEN \/ a \in ids /\ (b \in ids => Index(manual[g], a) < Index(manual[g], b))
          \/ {a, b} \cap ids = {} /\ Older(a, b)
     ELSE IF r.priority # "none" /\ Priority[a] # Priority[b]
          THEN IF r.priority = "asc" THEN Priority[a] < Priority[b] ELSE Priority[a] > Priority[b]
          ELSE IF r.date = "desc" THEN Older(b, a) ELSE Older(a, b)

Pool == IF Stream THEN Without(queue, Elems(SplitIds)) ELSE queue
Sorted == [g \in {"vip", "regular"} |-> [S \in SUBSET Tracks |->
  [k \in 1 .. Cardinality(S) |->
     CHOOSE t \in S : Cardinality({u \in S : Before(g, u, t)}) = k - 1] \o <<>>]]
Vips == Sorted["vip"][{t \in Elems(Pool) : IsVip(t)}]
Regulars == Sorted["regular"][{t \in Elems(Pool) : ~IsVip(t)}]
Backgrounds == IF Stream THEN Only[SplitIds][Elems(queue)] ELSE <<>>
Group(g) == CASE g = "vip" -> Vips [] g = "regular" -> Regulars [] g = "background" -> Backgrounds

Random(g) == st.shuffle \/ st.rules[g].order = "random"

-----------------------------------------------------------------------------
(* What pickNext may decide: the next track, the one to take off the list,     *)
(* whether a paused background was resumed. A set, since orders may be random. *)
Decision(t, remove, resumed) == [next |-> t, remove |-> remove, resumed |-> resumed]

FirstOfGroup(list, t, random, repeatAll) == IF list = <<>> THEN {None} ELSE {list[1]}
FromGroup(list, t, random, repeatAll) ==
  IF list = <<>> THEN {None}
  ELSE IF random
  THEN IF Elems(list) \ {t} # {} THEN Elems(list) \ {t} ELSE IF repeatAll THEN Elems(list) ELSE {None}
  ELSE IF t \notin Elems(list) THEN {list[1]}
  ELSE LET i == Index(list, t) IN
       IF i < Len(list) THEN {list[i + 1]} ELSE IF repeatAll THEN {list[1]} ELSE {None}

IsLast(list, t) == t \notin Elems(list) \/ t = list[Len(list)]

(* resolveStaticNext: on through the group, from the VIPs to the others, from  *)
(* the start again only when everything is repeated.                           *)
StaticNext ==
  LET inQueue == current \in Elems(queue)
      wasVip == inQueue /\ IsVip(current)
      g == IF wasVip THEN "vip" ELSE "regular"
      again == IF st.repeat = "all" THEN Head2(Vips, Regulars) ELSE None
      paused == IF pausedBg # None THEN pausedBg ELSE pausedReg
  IN IF current = None THEN {Decision(Head2(Vips, Regulars), None, FALSE)}
     ELSE IF ~IsLast(Group(g), current)
     THEN {Decision(t, None, FALSE) : t \in FromGroup(Group(g), current, Random(g), FALSE)}
     ELSE IF wasVip /\ paused # None THEN {Decision(paused, None, TRUE)}
     ELSE IF wasVip /\ Regulars # <<>> THEN {Decision(Regulars[1], None, FALSE)}
     ELSE {Decision(again, None, FALSE)}

(* resolveFlowStreamNext: VIPs, then the others, then a paused background,     *)
(* then the backgrounds round and round. In stream mode what was played leaves *)
(* the list unless it is background.                                           *)
QueueNext ==
  LET t == IF current \in Elems(queue) THEN current ELSE None
      wasVip == t # None /\ IsVip(t)
      wasBg == t # None /\ IsBackground(t, ResolveIds)
      wasReg == t # None /\ ~wasVip /\ ~wasBg
      vips == IF wasVip THEN Without(Vips, {t}) ELSE Vips
      regs == IF wasReg THEN Without(Regulars, {t}) ELSE Regulars
      gone == IF Stream /\ (wasVip \/ wasReg) THEN t ELSE None
      From(g, was, rest) ==
        IF was THEN {IF n = None THEN rest[1] ELSE n : n \in FromGroup(Group(g), t, Random(g), FALSE)}
        ELSE IF Random(g) THEN Elems(rest) ELSE {rest[1]}
  IN IF vips # <<>>
     THEN {Decision(n, IF wasVip THEN gone ELSE None, FALSE) : n \in From("vip", wasVip, vips)}
     ELSE IF regs # <<>> THEN {Decision(n, gone, FALSE) : n \in From("regular", wasReg, regs)}
     ELSE IF pausedBg # None THEN {Decision(pausedBg, gone, TRUE)}
     ELSE {Decision(n, gone, FALSE) :
             n \in FromGroup(Backgrounds, IF wasBg THEN t ELSE None, st.shuffle, TRUE)}

StreamAsStatic == IF queue = <<>> THEN {Decision(None, None, FALSE)}
                  ELSE IF st.mode = "flow" THEN QueueNext ELSE StaticNext
NothingRemoved == IF queue = <<>> THEN {Decision(None, None, FALSE)}
                  ELSE IF st.mode = "static" THEN StaticNext ELSE {[d EXCEPT !.remove = None] : d \in QueueNext}
PickNext ==
  IF queue = <<>> THEN {Decision(None, None, FALSE)}
  ELSE IF st.mode = "static" THEN StaticNext ELSE QueueNext

-----------------------------------------------------------------------------
(* Player: a track that comes into view has its end still to come.             *)
Watch ==
  /\ shown' = IF current' \in Elems(queue') THEN current' ELSE shown
  /\ ended' = IF shown' # shown THEN FALSE ELSE ended

(* playTrack: the slot's track; the owner's player also announces it.          *)
PlayTrack(t) ==
  /\ current' = t
  /\ echoes' = IF st.owner THEN echoes \cup {t} ELSE echoes

(* playNext, and stopPlayback when there is nothing to play.                   *)
RememberedAll == IF current = None THEN history ELSE Append(history, current)
Remembered ==
  IF current = None THEN history
  ELSE Append(IF Len(history) < MaxHistory THEN history ELSE Tail(history), current)

StillPaused(d) == pausedBg
Paused(d) == IF d.resumed THEN None ELSE pausedBg

Advance ==
  /\ history' = Remembered
  /\ UNCHANGED <<lists, queue, known, pausedReg, interrupt>>
  /\ \E d \in PickNext :
       /\ removing' = IF d.remove # None /\ st.owner THEN removing \cup {d.remove} ELSE removing
       /\ pausedBg' = Paused(d)
       /\ owed' = IF d.resumed /\ pausedBg # None THEN owed - 1 ELSE owed
       /\ IF d.next = None THEN current' = None /\ UNCHANGED echoes ELSE PlayTrack(d.next)

Move == moves < MaxMoves /\ moves' = moves + 1

Init ==
  /\ \E o \in Opened : st = o.st /\ queue = o.queue /\ bgPage = o.backgrounds
  /\ known = Elems(queue) /\ manual = [g \in {"vip", "regular"} |-> <<>>]
  /\ bgMode = <<>> /\ current = None /\ history = <<>>
  /\ pausedBg = None /\ pausedReg = None /\ interrupt = None
  /\ shown = None /\ ended = FALSE /\ removing = {} /\ echoes = {}
  /\ owed = 0 /\ moves = 0

(* The track's end, reported once or twice by the video player, handled once.  *)
End ==
  /\ current \in Elems(queue) /\ ~ended /\ st.repeat # "once" /\ UNCHANGED moves
  /\ Advance
  /\ shown' = IF current' \in Elems(queue) THEN current' ELSE shown
  /\ ended' = (shown' = shown)

EndOnce ==
  /\ current \in Elems(queue) /\ ~ended /\ st.repeat = "once" /\ ended' = TRUE
  /\ UNCHANGED <<lists, queue, known, current, history, pauses, interrupt, shown, removing, echoes, moves>>

Skip == Move /\ Advance /\ Watch

Prev ==
  /\ Move /\ history # <<>>
  /\ history' = SubSeq(history, 1, Len(history) - 1)
  /\ PlayTrack(history[Len(history)])
  /\ UNCHANGED <<lists, queue, known, pauses, interrupt, removing>> /\ Watch

Start(t) ==
  /\ Move /\ t \in Elems(queue) /\ PlayTrack(t)
  /\ UNCHANGED <<lists, queue, known, history, pauses, interrupt, removing>> /\ Watch

Stop ==
  /\ Move /\ current # None /\ current' = None
  /\ UNCHANGED <<lists, queue, known, history, pauses, interrupt, removing, echoes>> /\ Watch

-----------------------------------------------------------------------------
(* Socket events. A track that arrives may interrupt the one that plays        *)
(* (checkVipInterrupt): a VIP anything that is none, any track a background.   *)
Arrive(t) ==
  LET ranked == current \in Elems(queue)
      bg == ranked /\ IsBackground(current, bgPage)
      vipOver == ranked /\ IsVip(t) /\ (~IsVip(current) \/ bg)
      regOver == ~IsVip(t) /\ bg
  IN /\ t \notin known /\ known' = known \cup {t} /\ queue' = Append(queue, t)
     /\ interrupt' = IF vipOver \/ regOver
                     THEN [from |-> current, to |-> t, was |-> IF vipOver THEN "regular" ELSE "background"]
                     ELSE interrupt
     /\ UNCHANGED current /\ Watch
     /\ UNCHANGED <<lists, history, pauses, removing, echoes, moves>>

(* The feed sees the interrupt: the interrupted track is paused and the new    *)
(* one plays, unless the player has moved on.                                  *)
TakeInterrupt ==
  /\ interrupt # None /\ interrupt' = None
  /\ IF interrupt.from # current THEN UNCHANGED <<current, echoes, pauses>>
     ELSE /\ PlayTrack(interrupt.to)
          /\ pausedBg' = IF interrupt.was = "background" THEN interrupt.from ELSE pausedBg
          /\ pausedReg' = IF interrupt.was = "regular" THEN interrupt.from ELSE pausedReg
          /\ owed' = IF interrupt.was = "background" THEN owed + 1 ELSE owed
  /\ UNCHANGED <<lists, queue, known, history, removing, moves>> /\ Watch

Leave(t) ==
  /\ queue' = Without(queue, {t}) /\ removing' = removing \ {t} /\ UNCHANGED current /\ Watch
  /\ UNCHANGED <<lists, known, history, pauses, interrupt, echoes>>

(* The player's own removal comes back as an event, or fails.                  *)
Removed(t) == t \in removing /\ Leave(t) /\ UNCHANGED moves

RemoveFails(t) ==
  /\ t \in removing /\ Move /\ removing' = removing \ {t}
  /\ UNCHANGED <<lists, queue, known, current, history, pauses, interrupt, shown, ended, echoes>>

(* An operator removes a track.                                                *)
RemovedElsewhere(t) == t \in Elems(queue) /\ Move /\ Leave(t)

(* The announcement comes back to the player that made it, without its         *)
(* client_id: the slot takes the announced track, whatever plays by now. For a *)
(* track that has left the playlist the server answers 400.                    *)
Echo(t) ==
  /\ t \in echoes /\ echoes' = echoes \ {t} /\ current' = t
  /\ UNCHANGED <<lists, queue, known, history, pauses, interrupt, removing, moves>> /\ Watch

EchoRefused(t) ==
  /\ t \in echoes /\ (t \in removing \/ t \notin Elems(queue)) /\ echoes' = echoes \ {t}
  /\ UNCHANGED <<lists, queue, known, current, history, pauses, interrupt, shown, ended, removing, moves>>

-----------------------------------------------------------------------------
(* Settings. A step in an order writes it out as the group's manual order, of  *)
(* the backgrounds into the mode's list; the settings page toggles the         *)
(* playlist's list.                                                            *)
Edit == Move /\ st.owner
Swap(s, i, j) == [s EXCEPT ![i] = s[j], ![j] = s[i]]

(* reorderStep: the manual order of what is visible, the rest appended.        *)
NewcomersFirst(g) ==
  LET ids == Only[manual[g]][Elems(Group(g))]
  IN Without(Group(g), Elems(ids)) \o ids
VisibleOrder(g) ==
  LET ids == Only[manual[g]][Elems(Group(g))]
  IN IF manual[g] = <<>> THEN Group(g) ELSE ids \o Without(Group(g), Elems(ids))

ReorderStep(g, t, d) ==
  LET ids == VisibleOrder(g)
      i == Index(ids, t)
  IN /\ Edit /\ st.rules[g].order = "free" /\ t \in Elems(ids) /\ i + d \in DOMAIN ids
     /\ manual' = [manual EXCEPT ![g] = Swap(ids, i, i + d)]
     /\ UNCHANGED <<st, bgPage, bgMode, queue, known, current, history, pauses, interrupt, shown, ended,
                    removing, echoes>>

ReorderBackground(i) ==
  /\ Edit /\ i \in 1 .. Len(Backgrounds) - 1
  /\ bgMode' = Swap(Backgrounds, i, i + 1)
  /\ UNCHANGED <<st, bgPage, manual, queue, known, current, history, pauses, interrupt, shown, ended,
                 removing, echoes>>

ToggleBackground(t) ==
  /\ Edit /\ t \in Elems(queue)
  /\ bgPage' = IF t \in Elems(bgPage) THEN Without(bgPage, {t}) ELSE Append(bgPage, t)
  /\ UNCHANGED <<st, bgMode, manual, queue, known, current, history, pauses, interrupt, shown, ended,
                 removing, echoes>>

Next ==
  \/ End \/ EndOnce \/ Skip \/ Prev \/ Stop \/ TakeInterrupt
  \/ \E t \in Tracks : \/ Start(t) \/ Arrive(t) \/ Removed(t) \/ RemoveFails(t) \/ RemovedElsewhere(t)
                       \/ Echo(t) \/ EchoRefused(t) \/ ToggleBackground(t)
                       \/ \E g \in {"vip", "regular"}, d \in {-1, 1} : ReorderStep(g, t, d)
  \/ \E i \in 1 .. Cardinality(Tracks) : ReorderBackground(i)

(* Tracks end, the feed sees interrupts, removals are answered.                *)
Fairness ==
  /\ WF_vars(End) /\ WF_vars(TakeInterrupt)
  /\ WF_vars(\E t \in Tracks : Removed(t))

Spec == Init /\ [][Next]_vars /\ Fairness

-----------------------------------------------------------------------------
Opt == Tracks \cup {None}

(* The variables keep their types; no list names a track twice, and no track   *)
(* is queued that never arrived.                                               *)
TypeOK ==
  /\ st \in Settings /\ manual \in [{"vip", "regular"} -> Lists]
  /\ bgPage \in Lists /\ bgMode \in Lists
  /\ known \subseteq Tracks /\ queue \in Lists /\ Elems(queue) \subseteq known /\ current \in Opt
  /\ history \in Seq(Tracks) /\ Len(history) <= MaxHistory
  /\ pausedBg \in Opt /\ pausedReg \in Opt /\ shown \in Opt /\ ended \in BOOLEAN
  /\ interrupt \in {None} \cup [from : Tracks, to : Tracks, was : {"regular", "background"}]
  /\ removing \subseteq Tracks /\ echoes \subseteq Tracks /\ owed \in Int
  /\ moves \in Nat

(* A background is resumed at its place once for each time it was interrupted. *)
ResumedOnce == owed >= 0

(* When the player moves on in flow or stream mode, a waiting VIP is played    *)
(* before anything else and a waiting regular track before any background.     *)
RanksRespected == [][(End \/ Skip) /\ st.mode # "static" =>
  /\ Elems(Vips) \ {current} # {} => current' \in Elems(Vips)
  /\ Elems(Vips) \ {current} = {} /\ Elems(Regulars) \ {current} # {} => current' \in Elems(Regulars)]_vars

(* A step in a manual order exchanges two neighbours of the group on screen    *)
(* and leaves the rest where it was, whatever the stored order had forgotten   *)
(* or still listed.                                                            *)
StepMovesOne == [][\A g \in {"vip", "regular"}, t \in Tracks, d \in {-1, 1} :
  ReorderStep(g, t, d) =>
    LET i == Index(Group(g), t) IN i + d \in DOMAIN Group(g) /\ Group(g)' = Swap(Group(g), i, i + d)]_vars

(* useUpNextFeed: what the page announces, from the track after the current.   *)
UpNext ==
  LET order == Vips \o Regulars \o Backgrounds
      i == Index(order, current)
  IN IF current \notin Elems(order) THEN order
     ELSE SubSeq(order, i + 1, Len(order))
          \o IF st.mode # "flow" \/ st.repeat = "all" THEN SubSeq(order, 1, i - 1) ELSE <<>>

(* The first track announced as next is the one that will play, when the       *)
(* current one heads its list, nothing is random or paused and the two lists   *)
(* of backgrounds agree.                                                       *)
Agree == bgMode = <<>> \/ Elems(bgMode) = Elems(bgPage)
AnnouncedIsNext ==
  (/\ Stream /\ Agree /\ pausedBg = None /\ current = Head2(Vips, Regulars) /\ current # None
   /\ ~Random("vip") /\ ~Random("regular"))
  => \A d \in PickNext : d.next = First(UpNext)

(* Liveness: while the owner's player plays in stream mode, every track that   *)
(* waits is played or leaves the list, whatever is skipped, arrives, fails or  *)
(* interrupts. It may stop on an empty list, or on a track taken from under it. *)
Playing == Stream /\ st.owner /\ st.repeat # "once" /\ Agree /\ current \in Elems(queue) /\ ~ended
NobodyStarves == \A t \in Tracks :
  []<>(t = current \/ t \notin Elems(Pool) \/ ~Playing)
=============================================================================
