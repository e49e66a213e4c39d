--------------------------------- MODULE MCDns ---------------------------------
(* Small instances of Dns: a host with one address, one with two of which one
   is 0.0.0.0, one with two of which one is shared with the first host, and a
   name that cannot be packed. *)
EXTENDS Dns
CONSTANTS a, b, c, bad, i1, i2, i3
MCAuth == a :> {i1} @@ b :> {i2, NoIp} @@ c :> {i3, i1} @@ bad :> {}
================================================================================
