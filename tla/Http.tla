---------------------------------- MODULE Http ---------------------------------
(***************************************************************************)
(* One call of http_get_by_ip_port (http.c) over the TCP client: it opens  *)
(* a connection, waits for it in a bounded loop of polls, sends the        *)
(* request, reads in an unbounded loop of polls, and follows redirects.    *)
(*                                                                         *)
(* rtl8139_poll hands any number of segments to tcp_on_rx (TcpOnRx) while  *)
(* the call polls; kmain polls after it returned.  Of the answer, the      *)
(* first byte of the stream stands for the status line, the second for     *)
(* the Location header, and Kind for what they say.                        *)
(***************************************************************************)
EXTENDS Tcp

CONSTANTS MaxPoll,       \* polls the connection is waited for (300000)
          MaxRedirects,  \* MAX_REDIRECTS (5)
          RawCap         \* bytes the response buffer takes (RAW_CAP - 1)

ASSUME HttpSizes == /\ MaxPoll \in Nat /\ MaxRedirects \in Nat
                    /\ RawCap \in Nat \ {0}
                    /\ N >= 2 /\ MaxConn = MaxRedirects + 1

VARIABLES pc,      \* where the call is
          waited,  \* polls waited for the connection
          redir,   \* redirects followed
          raw,     \* the response read so far
          ret      \* what the call returned

hvars == <<pc, waited, redir, raw, ret>>
allvars == <<vars, hvars>>

(* A page, or a redirect: to a path, the same host or an address; to another
   host; to https; of another form; without a location. *)
Kind == {"page", "follow", "other_host", "https", "unknown", "no_location"}

HInit == /\ Init
         /\ pc = "try"
         /\ waited = 0
         /\ redir = 0
         /\ raw = << >>
         /\ ret = "none"

(* The head of the redirect loop: tcp_init and tcp_connect. *)
Try == /\ pc = "try"
       /\ Open
       /\ pc' = "wait"
       /\ waited' = 0
       /\ UNCHANGED <<redir, raw, ret>>

(* A poll of the loop that waits for the connection, and its test. *)
WaitPoll == /\ pc = "wait"
            /\ sock.state # "ESTABLISHED"
            /\ waited < MaxPoll
            /\ waited' = waited + 1
            /\ UNCHANGED <<vars, pc, redir, raw, ret>>

(* Fault: the connection is not closed. *)
GiveUp_NoClose == /\ pc = "wait"
                  /\ sock.state # "ESTABLISHED"
                  /\ waited = MaxPoll
                  /\ pc' = "done"
                  /\ ret' = "no_connection"
                  /\ UNCHANGED <<vars, waited, redir, raw>>
GiveUp == /\ pc = "wait"
          /\ sock.state # "ESTABLISHED"
          /\ waited = MaxPoll
          /\ IF sock.in_use THEN TcpClose ELSE UNCHANGED vars
          /\ pc' = "done"
          /\ ret' = "no_connection"
          /\ UNCHANGED <<waited, redir, raw>>

(* Fault: the response of the redirect is not forgotten. *)
Request_KeepRaw == /\ pc = "wait"
                   /\ TcpSend
                   /\ pc' = "read"
                   /\ UNCHANGED <<waited, redir, raw, ret>>
Request == /\ pc = "wait"
           /\ TcpSend
           /\ pc' = "read"
           /\ raw' = << >>
           /\ UNCHANGED <<waited, redir, ret>>

Read == /\ pc = "read"
        /\ Len(raw) < RawCap
        /\ TcpRecv(RawCap - Len(raw))
        /\ raw' = raw \o Returned(RawCap - Len(raw))
        /\ UNCHANGED <<pc, waited, redir, ret>>

(* Fault: the loop waits for the server to answer the FIN with its own. *)
ReadOver_TimeWait == \/ Len(raw) = RawCap
                     \/ sock.rx = << >> /\ sock.state = "TIME_WAIT"
(* The read loop ends when the buffer is full, or when nothing is left to read
   and the connection closes. *)
ReadOver == \/ Len(raw) = RawCap
            \/ sock.rx = << >>
               /\ sock.state \in {"FIN_WAIT1", "FIN_WAIT2", "TIME_WAIT"}

Has(k) == \E i \in DOMAIN raw : raw[i] = <<opened, k>>
Result(kind) == IF raw = << >> THEN "empty"
                ELSE IF kind = "page" \/ ~Has(1) THEN "page"
                ELSE IF ~Has(2) THEN "no_location"
                ELSE kind

(* What is done with the response: the result, or the next redirect. *)
Evaluate(kind) ==
  /\ redir' = IF Result(kind) = "follow" THEN redir + 1 ELSE redir
  /\ pc' = IF Result(kind) = "follow" /\ redir < MaxRedirects THEN "try"
           ELSE "done"
  /\ ret' = IF Result(kind) # "follow" THEN Result(kind)
            ELSE IF redir < MaxRedirects THEN ret ELSE "too_many_redirects"

(* After the read loop: tcp_close, and the response is looked at. *)
Finish(kind) == /\ pc = "read"
                /\ ReadOver
                /\ IF sock.in_use THEN TcpClose ELSE UNCHANGED vars
                /\ Evaluate(kind)
                /\ UNCHANGED <<waited, raw>>

(* rtl8139_poll takes a segment. *)
Poll == /\ \/ pc = "wait" /\ waited < MaxPoll
           \/ pc = "read" /\ Len(raw) < RawCap
           \/ pc = "done"
        /\ TcpOnRx
        /\ UNCHANGED hvars

Call == Try \/ WaitPoll \/ GiveUp \/ Request \/ Read \/ \E k \in Kind : Finish(k)

HNext == Call \/ Poll \/ (Environment /\ UNCHANGED hvars)

HSpec == HInit /\ [][HNext]_allvars

(* The call runs on, its polls take the segments that came, and the network
   and the server do their part. *)
HFairness ==
  /\ WF_allvars(Call)
  /\ WF_allvars(Poll)
  /\ WF_allvars(PeerRx /\ UNCHANGED hvars)
  /\ \A c \in Conn : WF_allvars((PeerData(c) \/ PeerFin(c)) /\ UNCHANGED hvars)
HFairSpec == HSpec /\ HFairness

--------------------------------------------------------------------------------
(* Properties. *)

HTypeOK == /\ TypeOK
           /\ pc \in {"try", "wait", "read", "done"}
           /\ waited \in 0 .. MaxPoll
           /\ redir \in 0 .. MaxRedirects + 1
           /\ raw \in Seq(Byte) /\ Len(raw) <= RawCap
           /\ ret \in Kind \cup {"none", "no_connection", "empty",
                                 "too_many_redirects"}

(* The response is a piece of one stream, that of the connection opened last,
   from its first byte: the buffer and the socket start afresh on each
   redirect, and late segments of the connection before do not enter. *)
RawOfLastConnection ==
  pc \in {"read", "done"} /\ ret # "no_connection" /\ opened \notin cut =>
    IsPrefix(raw, Stream(opened))

(* When the call has returned the connection is not up, nor can it come up,
   also when the answer to the SYN comes after the wait was given up. *)
ClosedAtReturn == pc = "done" => sock.state \notin {"SYN_SENT", "ESTABLISHED"}

(* On a network that keeps the order and loses nothing, a page is returned
   whole, unless one of the two buffers was too small for it. *)
PageIsWhole ==
  pc = "done" /\ ret = "page" /\ opened \notin cut /\ Len(raw) < RawCap =>
    raw = Stream(opened)

(* "break if connection closing" (http.c:124): the call returns. *)
CallReturns == <>(pc = "done")
================================================================================
