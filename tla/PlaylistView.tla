---------------------------- MODULE PlaylistView ----------------------------
(* What a viewer of playlists is promised, whatever happens on the network:   *)
(* the tracks shown of a playlist change by one track that was added or       *)
(* removed, or become a copy taken before of the playlist or of the view.     *)
EXTENDS FiniteSets

CONSTANTS Playlists, Tracks, None

VARIABLES had,     \* the tracks a playlist ever had
          gone,    \* those of them that were removed
          shown,   \* the tracks a viewer sees of it, None while there are none to see
          copies   \* sets of tracks copied, to be shown later or not at all

vars == <<had, gone, shown, copies>>

Init ==
  /\ had = [p \in Playlists |-> {}] /\ gone = had
  /\ shown = [p \in Playlists |-> None] /\ copies = had

Add(p, t) ==
  /\ t \notin had[p] /\ had' = [had EXCEPT ![p] = @ \cup {t}]
  /\ UNCHANGED <<gone, shown, copies>>

Remove(p, t) ==
  /\ t \in had[p] \ gone[p] /\ gone' = [gone EXCEPT ![p] = @ \cup {t}]
  /\ UNCHANGED <<had, shown, copies>>

(* A change that happened is shown.                                           *)
Show(p, t) ==
  /\ shown[p] # None /\ t \in had[p] /\ shown' = [shown EXCEPT ![p] = @ \cup {t}]
  /\ UNCHANGED <<had, gone, copies>>

Hide(p, t) ==
  /\ shown[p] # None /\ t \in gone[p] /\ shown' = [shown EXCEPT ![p] = @ \ {t}]
  /\ UNCHANGED <<had, gone, copies>>

(* The playlist as it is, or the view as it is, is copied.                    *)
Copy(p) ==
  /\ UNCHANGED <<had, gone, shown>>
  /\ \E ts \in {had[p] \ gone[p]} \cup ({shown[p]} \ {None}) :
       copies' = [copies EXCEPT ![p] = @ \cup {ts}]

(* A copy is shown or given up; an equal one may be left.                     *)
Renew(p) ==
  /\ UNCHANGED <<had, gone>>
  /\ \E ts \in copies[p] :
       /\ UNCHANGED shown \/ shown' = [shown EXCEPT ![p] = ts]
       /\ UNCHANGED copies \/ copies' = [copies EXCEPT ![p] = @ \ {ts}]

Close(p) ==
  /\ UNCHANGED <<had, gone, copies>>
  /\ shown' = [shown EXCEPT ![p] = None]

Next ==
  \E p \in Playlists :
    \/ Close(p) \/ Copy(p) \/ Renew(p)
    \/ \E t \in Tracks : Add(p, t) \/ Remove(p, t) \/ Show(p, t) \/ Hide(p, t)

Spec == Init /\ [][Next]_vars
=============================================================================
