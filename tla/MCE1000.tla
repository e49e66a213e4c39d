-------------------------------- MODULE MCE1000 --------------------------------
(* Small instances of E1000. *)
EXTENDS E1000
================================================================================
