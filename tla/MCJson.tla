--------------------------------- MODULE MCJson ---------------------------------
(* Small instances of Json. *)
EXTENDS Json
================================================================================
