--------------------------- MODULE MCDomainWrites ---------------------------
(* A small instance of DomainWrites for TLC.                               *)
EXTENDS DomainWrites

CONSTANTS listing, owner, elsewhere, astray
=============================================================================
