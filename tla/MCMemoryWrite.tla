--------------------------- MODULE MCMemoryWrite ---------------------------
(* Instances of MemoryWrite for TLC. *)
EXTENDS MemoryWrite, TLC

CONSTANTS f1, h1, c1, c2, w1

=============================================================================
