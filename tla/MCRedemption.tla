---------------------------- MODULE MCRedemption ----------------------------
(* A small instance of Redemption for TLC: one viewer's redemption on a    *)
(* channel that is linked to up to two playlists.                          *)
EXTENDS Redemption, TLC

CONSTANTS o1, v1

OneVideo == o1 :> {v1}
NoTarget == o1 :> NoPlaylist
NoLimit == [p \in Playlists |-> 0]
Alike == Permutations(Playlists) \cup Permutations(Workers)
=============================================================================
