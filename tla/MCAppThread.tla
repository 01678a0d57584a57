---------------------------- MODULE MCAppThread ----------------------------
(***************************************************************************)
(* The instance of AppThread that TLC checks.  Its constants are numbers   *)
(* and booleans, given in the configuration files.                         *)
(***************************************************************************)
EXTENDS AppThread
=============================================================================
