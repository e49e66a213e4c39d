------------------------------- MODULE ByteStream ------------------------------
(***************************************************************************)
(* What tcp.c promises the application: it reads the bytes the server of   *)
(* the connection it opened last sent, in order and each once.             *)
(***************************************************************************)
EXTENDS Naturals, Sequences

CONSTANTS MaxConn,   \* bound: connections opened
          N          \* bytes of each stream

VARIABLES latest,    \* the connection opened last
          got        \* got[c]: the bytes read on connection c

bvars == <<latest, got>>

Sent(c) == [k \in 1 .. N |-> <<c, k>>]

BInit == latest = 0 /\ got = [c \in 1 .. MaxConn |-> << >>]

BOpen == /\ latest < MaxConn
         /\ latest' = latest + 1
         /\ UNCHANGED got

BRead == /\ latest > 0
         /\ \E n \in Len(got[latest]) + 1 .. N :
              got' = [got EXCEPT ![latest] = SubSeq(Sent(latest), 1, n)]
         /\ UNCHANGED latest

BSpec == BInit /\ [][BOpen \/ BRead]_bvars
================================================================================
