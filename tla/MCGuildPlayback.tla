--------------------------- MODULE MCGuildPlayback ---------------------------
EXTENDS GuildPlayback
Symmetry == Permutations(Song) \cup Permutations(Session) \cup Permutations(Player)
=============================================================================
