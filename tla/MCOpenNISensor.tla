--------------------------- MODULE MCOpenNISensor ---------------------------
(* OpenNISensor with more users than its array holds and a short time-out. *)
EXTENDS OpenNISensor
=============================================================================
