--------------------------------- MODULE MCHttp --------------------------------
(* Small instances of Http. *)
EXTENDS Http
================================================================================
