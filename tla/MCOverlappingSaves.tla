------------------------- MODULE MCOverlappingSaves -------------------------
(* The instances of MCAdminSessions with the history of overlapping saves. *)
EXTENDS MCAdminSessions, OverlappingSaves
=============================================================================
