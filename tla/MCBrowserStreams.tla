-------------------------- MODULE MCBrowserStreams --------------------------
(* BrowserStreams with a few requests.                                     *)
EXTENDS BrowserStreams
=============================================================================
