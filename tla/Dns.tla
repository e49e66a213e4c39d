---------------------------------- MODULE Dns ----------------------------------
(***************************************************************************)
(* The resolver of dns.c: its cache, its table of outstanding queries, and *)
(* dns_resolve, which polls the NIC a bounded number of times.             *)
(*                                                                         *)
(* dns_on_response is one action: rtl8139_poll runs it, from the loop of   *)
(* dns_resolve or, between two calls, from kmain and the HTTP client.  The *)
(* name server is external.  It may answer a query late, more than once or *)
(* never, with any records it has for the name, and the answer may be cut  *)
(* off: dns_on_response then returns early, with the records before the    *)
(* cut stored and the query still outstanding.                             *)
(***************************************************************************)
EXTENDS Naturals, SequencesExt

CONSTANTS NEntry,    \* slots of dns_cache (8 in the code)
          NTrack,    \* slots of qtracks (8)
          MaxPolls,  \* polls dns_resolve waits for an answer (20000)
          QidSpace,  \* query ids are 0 .. QidSpace - 1 (65536)
          FirstQid,  \* the value qid_counter starts from (0x4000)
          Name,      \* names the kernel resolves
          BadName,   \* those pack_name rejects
          NoName,    \* the empty name of a cleared slot
          Ip, NoIp,  \* addresses; the address 0, which marks a free slot
          Auth,      \* Auth[n]: the addresses the server has for name n
          MaxRecs,   \* bound: A records in an answer
          MaxCalls   \* bound: calls of dns_resolve

ASSUME DnsSizes == /\ NEntry \in Nat \ {0} /\ NTrack \in Nat \ {0}
                   /\ MaxPolls \in Nat /\ MaxRecs \in Nat /\ MaxCalls \in Nat
                   /\ QidSpace \in Nat \ {0} /\ FirstQid \in 0 .. QidSpace - 1
ASSUME DnsNames == /\ BadName \subseteq Name /\ NoName \notin Name
                   /\ NoIp \notin Ip
                   /\ Auth \in [Name -> SUBSET (Ip \cup {NoIp})]

VARIABLES
  dns_cache,    \* the name and the address of each slot
  qtracks,      \* the id and the name of each outstanding query
  qid_counter,
  call,         \* the call of dns_resolve under way: its name and its polls
  ret,          \* what dns_resolve returned last, with the name
  calls,        \* calls of dns_resolve so far
  sent,         \* history: the queries sent
  done          \* history: those an answer was taken for from end to end

vars == <<dns_cache, qtracks, qid_counter, call, ret, calls, sent, done>>

Entry == 1 .. NEntry
Track == 1 .. NTrack
Qid == 0 .. QidSpace - 1

NoTrack == [qid |-> 0, name |-> NoName]
NoCall == [name |-> NoName, polls |-> 0]
NoAnswer == [name |-> NoName, ip |-> NoIp]

Init == /\ dns_cache = [i \in Entry |-> [name |-> NoName, ip |-> NoIp]]
        /\ qtracks = [i \in Track |-> NoTrack]
        /\ qid_counter = FirstQid
        /\ call = NoCall
        /\ ret = NoAnswer
        /\ calls = 0
        /\ sent = {}
        /\ done = {}

--------------------------------------------------------------------------------
(* The cache. *)

EntriesOf(c, n) == {i \in Entry : c[i].ip # NoIp /\ c[i].name = n}
FreeEntries(c) == {i \in Entry : c[i].ip = NoIp}

(* dns_get_cached: the first slot of the name. *)
Cached(n) == EntriesOf(dns_cache, n) # {}
IpOf(n) == dns_cache[Min(EntriesOf(dns_cache, n))].ip

(* Fault: a name that is cached gets another entry. *)
DnsCacheStore_Again(c, n, ip) ==
  LET i == IF FreeEntries(c) # {} THEN Min(FreeEntries(c)) ELSE 1
  IN [c EXCEPT ![i] = [name |-> n, ip |-> ip]]
(* dns_cache_store: a name that is cached keeps its entry; another takes the
   first free slot, or the first slot when none is free. *)
DnsCacheStore(c, n, ip) ==
  LET i == IF FreeEntries(c) # {} THEN Min(FreeEntries(c)) ELSE 1
  IN IF EntriesOf(c, n) # {} THEN c
     ELSE [c EXCEPT ![i] = [name |-> n, ip |-> ip]]

(* The records of an answer, stored one after the other. *)
StoreAll(c, n, ips) ==
  LET after[k \in 0 .. Len(ips)] ==
        IF k = 0 THEN c ELSE DnsCacheStore(after[k - 1], n, ips[k])
  IN after[Len(ips)]

--------------------------------------------------------------------------------
(* The outstanding queries. *)

TracksOf(qid) == {i \in Track : qtracks[i].qid = qid}

(* Fault: a query that finds no free slot is not recorded. *)
QtrackAdd_DropWhenFull(qid, n) ==
  IF TracksOf(0) = {} THEN qtracks
  ELSE [qtracks EXCEPT ![Min(TracksOf(0))] = [qid |-> qid, name |-> n]]
QtrackAdd(qid, n) ==
  LET i == IF TracksOf(0) # {} THEN Min(TracksOf(0)) ELSE 1
  IN [qtracks EXCEPT ![i] = [qid |-> qid, name |-> n]]

(* Fault: only an id other than the last one is cleared. *)
QtrackClear_NotLast(qid) ==
  [i \in Track |-> IF qtracks[i].qid = qid /\ qid # qid_counter THEN NoTrack
                   ELSE qtracks[i]]
QtrackClear(qid) ==
  [i \in Track |-> IF qtracks[i].qid = qid THEN NoTrack ELSE qtracks[i]]

(* dns_query_async of a name that is not cached.  The id is used up, and the
   query neither recorded nor sent, when the name cannot be packed. *)
DnsQueryAsync(n) ==
  LET id == (qid_counter + 1) % QidSpace
  IN /\ qid_counter' = id
     /\ \/ n \in BadName /\ UNCHANGED <<qtracks, sent>>
        \/ /\ n \notin BadName
           /\ qtracks' = QtrackAdd(id, n)
           /\ sent' = sent \cup {[qid |-> id, name |-> n]}

(* Fault: the records are stored under the name being resolved. *)
NameFor_Current(qid) == call.name
(* qtrack_getname: the name an answer with this id is stored under. *)
NameFor(qid) == qtracks[Min(TracksOf(qid))].name

(* dns_on_response: an answer to query q with the A records ips; whole is
   FALSE when it is cut off after them. *)
DnsOnResponse(q, ips, whole) ==
  /\ q \in sent
  /\ call.name = NoName \/ call.polls < MaxPolls
  /\ dns_cache' = IF TracksOf(q.qid) = {} THEN dns_cache
                  ELSE StoreAll(dns_cache, NameFor(q.qid), ips)
  /\ qtracks' = IF whole THEN QtrackClear(q.qid) ELSE qtracks
  /\ done' = IF whole THEN done \cup {q} ELSE done
  /\ UNCHANGED <<qid_counter, call, ret, calls, sent>>

--------------------------------------------------------------------------------
(* dns_resolve. *)

(* A call: it returns at once when the name is cached. *)
DnsResolve(n) ==
  /\ call = NoCall
  /\ calls < MaxCalls
  /\ calls' = calls + 1
  /\ \/ /\ Cached(n)
        /\ ret' = [name |-> n, ip |-> IpOf(n)]
        /\ UNCHANGED <<qtracks, qid_counter, sent, call>>
     \/ /\ ~Cached(n)
        /\ DnsQueryAsync(n)
        /\ call' = [name |-> n, polls |-> 0]
        /\ UNCHANGED ret
  /\ UNCHANGED <<dns_cache, done>>

(* After a poll, in which DnsOnResponse may have run: the name is cached... *)
ResolveHit ==
  /\ call # NoCall /\ call.polls < MaxPolls
  /\ Cached(call.name)
  /\ ret' = [name |-> call.name, ip |-> IpOf(call.name)]
  /\ call' = NoCall
  /\ UNCHANGED <<dns_cache, qtracks, qid_counter, calls, sent, done>>

(* Fault: one poll too many. *)
ResolvePoll_OneMore ==
  /\ call # NoCall /\ call.polls <= MaxPolls
  /\ ~Cached(call.name)
  /\ call' = [call EXCEPT !.polls = @ + 1]
  /\ UNCHANGED <<dns_cache, qtracks, qid_counter, ret, calls, sent, done>>
(* ... or it is not, and the loop goes on ... *)
ResolvePoll ==
  /\ call # NoCall /\ call.polls < MaxPolls
  /\ ~Cached(call.name)
  /\ call' = [call EXCEPT !.polls = @ + 1]
  /\ UNCHANGED <<dns_cache, qtracks, qid_counter, ret, calls, sent, done>>

(* ... until the polls are used up: the query stays outstanding. *)
ResolveFail ==
  /\ call # NoCall /\ call.polls = MaxPolls
  /\ ret' = [name |-> call.name, ip |-> NoIp]
  /\ call' = NoCall
  /\ UNCHANGED <<dns_cache, qtracks, qid_counter, calls, sent, done>>

Next == \/ \E n \in Name : DnsResolve(n)
        \/ \E q \in sent, whole \in BOOLEAN :
             \E ips \in SeqOf(Auth[q.name], MaxRecs) :
               DnsOnResponse(q, ips, whole)
        \/ ResolveHit \/ ResolvePoll \/ ResolveFail

Spec == Init /\ [][Next]_vars

--------------------------------------------------------------------------------
(* Properties. *)

(* The variables keep their types: in particular the loop of dns_resolve makes
   at most MaxPolls polls. *)
DnsTypeOK ==
  /\ dns_cache \in [Entry -> [name : Name \cup {NoName}, ip : Ip \cup {NoIp}]]
  /\ qtracks \in [Track -> [qid : Qid, name : Name \cup {NoName}]]
  /\ qid_counter \in Qid
  /\ call \in [name : Name \cup {NoName}, polls : 0 .. MaxPolls]
  /\ ret \in [name : Name \cup {NoName}, ip : Ip \cup {NoIp}]
  /\ calls \in 0 .. MaxCalls
  /\ sent \subseteq [qid : Qid, name : Name \ BadName]
  /\ done \subseteq sent

(* As long as the ids have not wrapped around: whichever answers come late,
   twice, cut off, or while another name is resolved, an address is cached,
   and returned by dns_resolve, only for a name the server has it for. *)
AddressCorrect ==
  /\ \A i \in Entry : dns_cache[i].ip # NoIp =>
       dns_cache[i].name \in Name /\ dns_cache[i].ip \in Auth[dns_cache[i].name]
  /\ ret.ip # NoIp => ret.ip \in Auth[ret.name]

(* While a name stays cached, dns_get_cached gives the same address for it,
   whatever is answered and evicted in between (dns_cache_store keeps the
   entry there is, and therefore never makes a second). *)
StableBinding ==
  [][\A n \in Name : Cached(n) /\ Cached(n)' => IpOf(n)' = IpOf(n)]_vars

(* As long as the ids have not wrapped around: a slot of qtracks in use holds
   a query that was sent, and for which no answer was taken from end to end,
   so a repeated answer is ignored; and no query has two slots. *)
TracksOutstanding ==
  \A i \in Track : qtracks[i].qid # 0 =>
    /\ qtracks[i] \in sent \ done
    /\ TracksOf(qtracks[i].qid) = {i}

(* "track outstanding queries by qid" (dns.c:13): while dns_resolve waits, the
   query it sent is found by its id, until an answer is taken from end to end,
   however many queries before it were left outstanding. *)
WaitingIsTracked ==
  call.name \notin BadName \cup {NoName} =>
    \/ [qid |-> qid_counter, name |-> call.name] \in done
    \/ /\ TracksOf(qid_counter) # {}
       /\ NameFor(qid_counter) = call.name
================================================================================
