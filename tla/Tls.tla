----------------------------------- MODULE Tls ----------------------------------
(***************************************************************************)
(* tls_http_get_by_ip (tls_mbedtls.c) over the TCP client.  It gives its   *)
(* own socket, on the heap, to tcp_connect and to mbedTLS.  tcp_connect    *)
(* copies it into g_sock, which is the one that tcp_on_rx updates.         *)
(*                                                                         *)
(* mbedTLS (external) is reduced to when it calls net_send and net_recv,   *)
(* and to what it reports: the handshake is one write and one read here.   *)
(***************************************************************************)
EXTENDS Tcp

VARIABLES own,    \* *s: the fields that change
          pc,     \* where the call is
          total,  \* bytes read of the response
          ret     \* what the call returned

tvars == <<own, pc, total, ret>>
allvars == <<vars, tvars>>

TInit == /\ Init
         /\ own = [in_use |-> FALSE, state |-> "CLOSED", rx_len |-> 0]
         /\ pc = "before"
         /\ total = 0
         /\ ret = "none"

(* Whatever used the one socket before; one connection is left for the call. *)
Before == pc = "before" /\ Next /\ opened' < MaxConn /\ UNCHANGED tvars

Return(r) == pc' = "done" /\ ret' = r
Refused == /\ pc = "before" /\ sock.in_use
           /\ Return("error")
           /\ UNCHANGED <<vars, own, total>>
Connect == /\ pc = "before" /\ ~sock.in_use
           /\ Open
           /\ own' = [in_use |-> TRUE, state |-> sock'.state, rx_len |-> 0]
           /\ pc' = "hello"
           /\ UNCHANGED <<total, ret>>

(* net_send and net_recv look at the socket they were given. *)
CanSend == own.state = "ESTABLISHED"
CanRecv == own.rx_len > 0

(* mbedtls_ssl_handshake, mbedtls_ssl_write and mbedtls_ssl_read; a request
   that cannot be written ends the call. *)
Hello == /\ pc = "hello" /\ CanSend
         /\ TcpSend
         /\ pc' = "server_hello"
         /\ UNCHANGED <<own, total, ret>>
ServerHello == /\ pc = "server_hello" /\ CanRecv
               /\ \E ok \in BOOLEAN : IF ok THEN pc' = "request" /\ UNCHANGED ret ELSE Return("error")
               /\ own' = [own EXCEPT !.rx_len = 0]
               /\ UNCHANGED <<vars, total>>
Request == /\ pc = "request"
           /\ IF CanSend THEN TcpSend /\ pc' = "response" ELSE UNCHANGED vars /\ pc' = "cleanup"
           /\ UNCHANGED <<own, total, ret>>
Response == /\ pc = "response" /\ CanRecv
            /\ \E n \in 1 .. own.rx_len :
                 own' = [own EXCEPT !.rx_len = @ - n] /\ total' = total + n
            /\ UNCHANGED <<vars, pc, ret>>
ResponseOver == /\ pc = "response" /\ pc' = "cleanup"
                /\ UNCHANGED <<vars, own, total, ret>>
(* tcp_close of the copy; g_sock stays as it is. *)
Cleanup == /\ pc = "cleanup"
           /\ own' = IF CanSend THEN [own EXCEPT !.state = "FIN_WAIT1"]
                     ELSE [own EXCEPT !.in_use = FALSE, !.state = "CLOSED"]
           /\ Return(IF total > 0 THEN "page" ELSE "error")
           /\ UNCHANGED <<vars, total>>

(* "pump NIC to advance TCP state": in the loops of the handshake and of the
   response. *)
Pump == /\ pc \in {"hello", "server_hello", "response"}
        /\ TcpOnRx
        /\ UNCHANGED tvars

Call == \/ Refused \/ Connect \/ Hello \/ ServerHello
        \/ Request \/ Response \/ ResponseOver \/ Cleanup
TNext == Before \/ Call \/ Pump \/ (pc # "before" /\ Environment /\ UNCHANGED tvars)

(* The call is made, runs on, its polls take what came, and the server takes
   what it is sent. *)
TFairSpec == /\ TInit /\ [][TNext]_allvars
             /\ WF_allvars(Call) /\ WF_allvars(Pump)
             /\ WF_allvars(PeerRx /\ UNCHANGED tvars)

--------------------------------------------------------------------------------
(* The loop of the handshake polls the card to advance the state of the
   connection (tls_mbedtls.c:113): so the call returns. *)
HandshakeEnds == <>(pc = "done")
================================================================================
