---------------------------- MODULE MCAsyncCalls ----------------------------
(* AsyncCalls with one caller of each kind.                                *)
EXTENDS AsyncCalls
=============================================================================
