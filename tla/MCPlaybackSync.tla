-------------------------- MODULE MCPlaybackSync --------------------------
EXTENDS PlaybackSync
CONSTANTS a, b

Cast(rb, there) == [role |-> [c \in Clients |-> IF c = a THEN "owner" ELSE rb], tuned |-> there]
MCCasts == {Cast("owner", {a, b}), Cast("viewer", {a}), Cast("operator", {a})}
=============================================================================
