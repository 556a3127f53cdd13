------------------------------ MODULE MCStatus ------------------------------
(* A small instance of Status: counters that wrap at 3, a host that never   *)
(* lets its memory be read, two versions.                                   *)
EXTENDS Status

=============================================================================
