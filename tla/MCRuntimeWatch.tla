--------------------------- MODULE MCRuntimeWatch ---------------------------
(* RuntimeWatch needs no model values: its constants are numbers and strings. *)
EXTENDS RuntimeWatch
=============================================================================
