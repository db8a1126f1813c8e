---------------------------- MODULE MCSongQueue -----------------------------
(* SongQueue on a few songs; songs are interchangeable.                    *)
EXTENDS SongQueue

Symmetry == Permutations(Song)

=============================================================================
