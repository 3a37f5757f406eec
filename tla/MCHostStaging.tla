--------------------------- MODULE MCHostStaging ---------------------------
(***************************************************************************)
(* A worker beside the caller, two I/O threads, a constant of three chunks *)
(* and one of two, each staged in any of the ways prefetch() has.          *)
(***************************************************************************)
EXTENDS HostStaging

MCConstants == << [chunks |-> 3, holds |-> "first"], [chunks |-> 2, holds |-> "second"] >>
MCSources   == {"first", "second"}
=============================================================================
