--------------------------------- MODULE MCTcp ---------------------------------
(* Small instances of Tcp. *)
EXTENDS Tcp
================================================================================
