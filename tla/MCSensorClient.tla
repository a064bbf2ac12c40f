---------------------------- MODULE MCSensorClient ----------------------------
(***************************************************************************)
(* Three reads, two responses of other clients, one lost connection.       *)
(***************************************************************************)
EXTENDS SensorClient
=============================================================================
