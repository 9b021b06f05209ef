--------------------------- MODULE MCScriptObjects ---------------------------
(* ScriptObjects with two addresses, one listener and a thread that fires events. *)
EXTENDS ScriptObjects
=============================================================================
