--------------------------------- MODULE MCXhci ---------------------------------
(* Small instances of Xhci. *)
EXTENDS Xhci
================================================================================
