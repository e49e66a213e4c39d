--------------------------------- MODULE MCTls ----------------------------------
(* Small instances of Tls. *)
EXTENDS Tls
================================================================================
