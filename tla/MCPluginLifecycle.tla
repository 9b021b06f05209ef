------------------------- MODULE MCPluginLifecycle --------------------------
(* PluginLifecycle with one or two instances.                              *)
EXTENDS PluginLifecycle
=============================================================================
