--------------------------- MODULE MCScriptEvents ---------------------------
(* ScriptEvents with one object, one proxy, and a handler in each of two   *)
(* pages; the second page has the proxy and the object.                    *)
EXTENDS ScriptEvents, TLC

CONSTANTS api, p1, q1, q2, f1, f2

MCPageOf == (f1 :> q1) @@ (f2 :> q2)
MCShown == (q1 :> {api}) @@ (q2 :> {api, p1})

=============================================================================
