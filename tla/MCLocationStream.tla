--------------------------- MODULE MCLocationStream ---------------------------
(* LocationStream for TLC. *)
EXTENDS LocationStream
=============================================================================
