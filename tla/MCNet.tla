--------------------------------- MODULE MCNet ---------------------------------
(* Small instances of Net. *)
EXTENDS Net, TLC
CONSTANTS gw, a, r, p1, p2, p3, p4
(* Four packets: two to one host of the link, one to the gateway's far side,
   and one to the address 0, whose slot stays free. *)
MCDstOf == p1 :> a @@ p2 :> a @@ p3 :> r @@ p4 :> NoAddr
================================================================================
