-------------------------- MODULE MCOrderPipeline --------------------------
(* Small instances of OrderPipeline for TLC.                               *)
EXTENDS OrderPipeline, TLC

CONSTANTS o1, o2, p1, v1, v2

(* Race: two viewers ask for a track, o1 through a bot and o2 on the page  *)
(* of the playlist p1.                                                     *)
RaceVideos == (o1 :> {v1}) @@ (o2 :> {v1})
RaceTarget == (o1 :> NoPlaylist) @@ (o2 :> p1)
RaceSize == p1 :> 1

(* Sole: o2 is the owner's import of a YouTube playlist of two videos into  *)
(* p1 over the web; small enough for liveness.                             *)
SoleVideos == o2 :> {v1, v2}
SoleTarget == o2 :> p1

HandlersAlike == Permutations(Workers)
=============================================================================
