--------------------------- MODULE MCDonateStreams ---------------------------
(* A small instance of DonateStreams for TLC: two accounts, the first of   *)
(* them linked by two users of the site.                                   *)
EXTENDS DonateStreams, TLC

CONSTANTS a1, a2, l1, l2, l3, d1

ThreeLinks == l1 :> a1 @@ l2 :> a1 @@ l3 :> a2
ToFirst == d1 :> a1
=============================================================================
