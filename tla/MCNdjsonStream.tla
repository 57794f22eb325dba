--------------------------- MODULE MCNdjsonStream ---------------------------
(* NdjsonStream for TLC. *)
EXTENDS NdjsonStream
=============================================================================
