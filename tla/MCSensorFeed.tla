---------------------------- MODULE MCSensorFeed ----------------------------
(* SensorFeed with two pages, one stream and a short wait.                 *)
EXTENDS SensorFeed

=============================================================================
