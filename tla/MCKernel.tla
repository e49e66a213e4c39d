-------------------------------- MODULE MCKernel --------------------------------
(* Small instances of Kernel. *)
EXTENDS Kernel
================================================================================
