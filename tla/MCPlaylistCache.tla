-------------------------- MODULE MCPlaylistCache --------------------------
EXTENDS PlaylistCache
CONSTANTS t1, s1, s2
Symm == Permutations(Slots)
=============================================================================
