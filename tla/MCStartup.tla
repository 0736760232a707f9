------------------------------ MODULE MCStartup -------------------------------
(***************************************************************************)
(* The instance of Startup for TLC: every service in turn, with loops of   *)
(* two or three attempts and as many outages and crashes as they can be    *)
(* spread over.                                                            *)
(***************************************************************************)
EXTENDS Startup, TLC

=============================================================================
