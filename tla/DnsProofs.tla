------------------------------- MODULE DnsProofs -------------------------------
(***************************************************************************)
(* Proofs about Dns, for caches and tables of any size, any names and      *)
(* addresses and answers of any length: the types, that a name keeps its   *)
(* address while it is cached, and, as long as the ids do not wrap around, *)
(* that addresses are right and outstanding queries are tracked.           *)
(***************************************************************************)
EXTENDS Dns, SequenceTheorems, WellFoundedInduction, TLAPS

--------------------------------------------------------------------------------
(* What the scans and the loop of dns.c return. *)

(* The first slot of a set of slots that is not empty is one of them. *)
LEMMA FirstSlot ==
  ASSUME NEW S, S \subseteq Nat, S # {}
  PROVE  Min(S) \in S /\ \A x \in S : Min(S) <= x
<1> DEFINE R == {ss \in Nat \X Nat : ss[1] < ss[2]}
<1>1. IsWellFoundedOn(R, Nat)
  <2>1. R = OpToRel(<, Nat)
    BY Zenon DEF OpToRel
  <2>2. QED BY <2>1, NatLessThanWellFounded, Zenon
<1>2. PICK x \in S : \A y \in S : <<y, x>> \notin R
  <2> HIDE DEF R
  <2>1. QED BY <1>1, WFMin
<1>3. \A y \in S : x <= y
  <2> SUFFICES ASSUME NEW y \in S PROVE x <= y
    OBVIOUS
  <2>1. x \in Nat /\ y \in Nat
    OBVIOUS
  <2>2. ~ (y < x)
    BY <1>2, <2>1
  <2>3. QED BY <2>1, <2>2
<1>4. QED BY <1>3 DEF Min

(* dns_get_cached: the address of a cached name is that of one of its slots. *)
LEMMA CachedSlot ==
  ASSUME NEW n, Cached(n)
  PROVE  \E i \in Entry : /\ dns_cache[i].ip # NoIp
                          /\ dns_cache[i].name = n
                          /\ IpOf(n) = dns_cache[i].ip
<1>1. EntriesOf(dns_cache, n) # {} /\ EntriesOf(dns_cache, n) \subseteq Nat
  BY DEF Cached, EntriesOf, Entry
<1>2. Min(EntriesOf(dns_cache, n)) \in EntriesOf(dns_cache, n)
  BY <1>1, FirstSlot
<1>3. QED BY <1>2 DEF EntriesOf, IpOf

(* dns_cache_store leaves the cache as it is, or writes one slot, and only when
   the name is not cached. *)
LEMMA StoreOne ==
  ASSUME NEW c, NEW n, NEW ip
  PROVE  \/ DnsCacheStore(c, n, ip) = c
         \/ /\ EntriesOf(c, n) = {}
            /\ \E i \in Entry :
                 DnsCacheStore(c, n, ip) = [c EXCEPT ![i] = [name |-> n, ip |-> ip]]
<1>1. CASE EntriesOf(c, n) # {}
  BY <1>1 DEF DnsCacheStore
<1>2. CASE EntriesOf(c, n) = {} /\ FreeEntries(c) = {}
  BY <1>2, DnsSizes DEF DnsCacheStore, Entry
<1>3. CASE EntriesOf(c, n) = {} /\ FreeEntries(c) # {}
  <2>1. FreeEntries(c) \subseteq Nat
    BY DEF FreeEntries, Entry
  <2>2. Min(FreeEntries(c)) \in FreeEntries(c)
    BY <1>3, <2>1, FirstSlot
  <2>3. Min(FreeEntries(c)) \in Entry
    BY <2>2 DEF FreeEntries
  <2>4. QED BY <1>3, <2>3 DEF DnsCacheStore
<1>4. QED BY <1>1, <1>2, <1>3

(* The loop over the records of an answer: what every dns_cache_store of it
   keeps, the whole loop keeps.  That the recursive function exists, and what
   it yields, is shown at the least record where it would fail. *)
LEMMA StoreAllKeeps ==
  ASSUME NEW Good, NEW c \in Good, NEW n, NEW ips, Len(ips) \in Nat,
         \A d \in Good, k \in 1 .. Len(ips) : DnsCacheStore(d, n, ips[k]) \in Good
  PROVE  StoreAll(c, n, ips) \in Good
<1> DEFINE L == Len(ips)
           Body(g, k) == IF k = 0 THEN c ELSE DnsCacheStore(g[k - 1], n, ips[k])
           Stores(g, m) == g = [k \in 0 .. m |-> Body(g, k)]
           after == CHOOSE g : Stores(g, L)
           R == {ss \in Nat \X Nat : ss[1] < ss[2]}
<1>1. IsWellFoundedOn(R, Nat)
  <2>1. R = OpToRel(<, Nat)
    BY Zenon DEF OpToRel
  <2>2. QED BY <2>1, NatLessThanWellFounded, Zenon
<1>2. L \in Nat
  OBVIOUS
<1>3. StoreAll(c, n, ips) = after[L]
  BY DEF StoreAll
<1>4. \E g : Stores(g, L)
  <2> DEFINE Bad == {m \in 0 .. L : ~ \E g : Stores(g, m)}
  <2>1. CASE Bad = {}
    BY <2>1, <1>2
  <2>2. CASE Bad # {}
    <3>1. Bad \subseteq Nat
      BY <1>2
    <3>2. PICK m \in Bad : \A y \in Bad : <<y, m>> \notin R
      <4> HIDE DEF R, Bad
      <4>1. QED BY <1>1, <2>2, <3>1, WFMin
    <3>3. m \in Nat /\ m <= L /\ ~ \E g : Stores(g, m)
      BY <1>2
    <3>4. m # 0
      <4>1. Stores([k \in 0 .. 0 |-> c], 0)
        OBVIOUS
      <4> HIDE DEF Stores
      <4>2. QED BY <4>1, <3>3
    <3>5. m - 1 \in Nat /\ m - 1 <= L
      BY <3>3, <3>4, <1>2
    <3>6. m - 1 \notin Bad
      <4>1. <<m - 1, m>> \in R
        BY <3>3, <3>5
      <4> HIDE DEF R, Bad
      <4>2. QED BY <4>1, <3>2
    <3>7. PICK g : Stores(g, m - 1)
      BY <3>5, <3>6, <1>2
    <3> DEFINE h == [k \in 0 .. m |-> IF k = m THEN Body(g, m) ELSE g[k]]
    <3>8. \A k \in 0 .. m : h[k] = Body(h, k)
      <4> SUFFICES ASSUME NEW k \in 0 .. m PROVE h[k] = Body(h, k)
        OBVIOUS
      <4>1. CASE k = 0
        <5>1. h[0] = g[0]
          BY <3>3, <3>4
        <5>2. g[0] = c
          BY <3>7, <3>5
        <5>3. QED BY <4>1, <5>1, <5>2
      <4>2. CASE k # 0 /\ k # m
        <5>1. h[k] = g[k] /\ h[k - 1] = g[k - 1]
          BY <4>2, <3>3
        <5>2. k \in 0 .. m - 1
          BY <4>2, <3>3
        <5>3. g[k] = Body(g, k)
          BY <3>7, <5>2
        <5>4. QED BY <4>2, <5>1, <5>3
      <4>3. CASE k = m
        <5>1. h[m] = Body(g, m) /\ h[m - 1] = g[m - 1]
          BY <3>3, <3>4, <3>5
        <5>2. QED BY <4>3, <5>1, <3>4
      <4>4. QED BY <4>1, <4>2, <4>3
    <3>9. Stores(h, m)
      <4>1. h = [k \in 0 .. m |-> h[k]]
        OBVIOUS
      <4> HIDE DEF h, Body
      <4>2. QED BY <4>1, <3>8
    <3> HIDE DEF h, Stores
    <3>10. QED BY <3>3, <3>9
  <2>3. QED BY <2>1, <2>2
<1>5. Stores(after, L)
  <2> HIDE DEF Stores
  <2>1. QED BY <1>4
<1>6. \A k \in 0 .. L : after[k] = Body(after, k)
  <2> HIDE DEF after, Body
  <2>1. QED BY <1>5
<1>7. \A k \in 0 .. L : after[k] \in Good
  <2> DEFINE Bad == {m \in 0 .. L : after[m] \notin Good}
  <2>1. SUFFICES ASSUME Bad # {} PROVE FALSE
    OBVIOUS
  <2>2. Bad \subseteq Nat
    BY <1>2
  <2>3. PICK m \in Bad : \A y \in Bad : <<y, m>> \notin R
    <3> HIDE DEF R, Bad
    <3>1. QED BY <1>1, <2>1, <2>2, WFMin
  <2>4. m \in 0 .. L /\ after[m] \notin Good /\ m \in Nat
    BY <1>2
  <2> HIDE DEF after
  <2>5. m # 0
    BY <1>6, <2>4
  <2>6. m - 1 \in 0 .. L /\ m \in 1 .. L
    BY <2>4, <2>5, <1>2
  <2>7. m - 1 \notin Bad
    <3>1. <<m - 1, m>> \in R
      BY <2>4, <2>6
    <3> HIDE DEF R, Bad
    <3>2. QED BY <3>1, <2>3
  <2>8. after[m - 1] \in Good
    BY <2>6, <2>7
  <2>9. after[m] = DnsCacheStore(after[m - 1], n, ips[m])
    BY <1>6, <2>4, <2>5
  <2>10. QED BY <2>4, <2>6, <2>8, <2>9
<1>8. QED
  <2> HIDE DEF after
  <2>1. QED BY <1>2, <1>3, <1>7

(* qtrack_add writes one slot. *)
LEMMA AddOne ==
  ASSUME NEW id, NEW n
  PROVE  \E i \in Track : QtrackAdd(id, n) = [qtracks EXCEPT ![i] = [qid |-> id, name |-> n]]
<1>1. CASE TracksOf(0) = {}
  BY <1>1, DnsSizes DEF QtrackAdd, Track
<1>2. CASE TracksOf(0) # {}
  <2>1. TracksOf(0) \subseteq Nat
    BY DEF TracksOf, Track
  <2>2. Min(TracksOf(0)) \in TracksOf(0)
    BY <1>2, <2>1, FirstSlot
  <2>3. Min(TracksOf(0)) \in Track
    BY <2>2 DEF TracksOf
  <2>4. QED BY <1>2, <2>3 DEF QtrackAdd
<1>3. QED BY <1>1, <1>2

(* qtrack_getname: a name is that of a slot with the id. *)
LEMMA TrackedSlot ==
  ASSUME NEW id, TracksOf(id) # {}
  PROVE  \E i \in Track : qtracks[i].qid = id /\ NameFor(id) = qtracks[i].name
<1>1. TracksOf(id) \subseteq Nat
  BY DEF TracksOf, Track
<1>2. Min(TracksOf(id)) \in TracksOf(id)
  BY <1>1, FirstSlot
<1>3. QED BY <1>2 DEF TracksOf, NameFor

(* The answers of the server are sequences. *)
LEMMA AnswerIsSeq ==
  ASSUME NEW S, NEW ips \in SeqOf(S, MaxRecs)
  PROVE  Len(ips) \in Nat /\ \A k \in 1 .. Len(ips) : ips[k] \in S
<1>1. PICK m \in 0 .. MaxRecs : ips \in [1 .. m -> S]
  BY DEF SeqOf
<1>2. m \in Nat
  BY DnsSizes
<1>3. ips \in Seq(S)
  BY <1>1, <1>2, SeqDef
<1>4. QED BY <1>3

--------------------------------------------------------------------------------
(* Types. *)

Address == Ip \cup {NoIp}
Caches == [Entry -> [name : Name \cup {NoName}, ip : Address]]

(* Storing addresses keeps the type of the cache. *)
LEMMA StoreAllType ==
  ASSUME NEW c \in Caches, NEW n \in Name \cup {NoName}, NEW ips,
         Len(ips) \in Nat, \A k \in 1 .. Len(ips) : ips[k] \in Address
  PROVE  StoreAll(c, n, ips) \in Caches
<1>1. ASSUME NEW d \in Caches, NEW k \in 1 .. Len(ips)
      PROVE  DnsCacheStore(d, n, ips[k]) \in Caches
  <2> DEFINE ip == ips[k]
  <2>1. ip \in Address
    OBVIOUS
  <2> HIDE DEF ip
  <2>2. DnsCacheStore(d, n, ip) \in Caches
    BY <2>1, StoreOne DEF Caches
  <2>3. QED BY <2>2 DEF ip
<1>2. QED BY <1>1, StoreAllKeeps

(* The types hold at the start. *)
LEMMA DnsInitType == Init => DnsTypeOK
<1> SUFFICES ASSUME Init PROVE DnsTypeOK
  OBVIOUS
<1> USE DnsSizes, DnsNames
<1>1. dns_cache \in [Entry -> [name : Name \cup {NoName}, ip : Ip \cup {NoIp}]]
  BY DEF Init
<1>2. qtracks \in [Track -> [qid : Qid, name : Name \cup {NoName}]]
  BY DEF Init, NoTrack, Qid
<1>3. QED BY <1>1, <1>2 DEF Init, DnsTypeOK, Qid, NoCall, NoAnswer

(* dns_query_async keeps the types of what it changes. *)
LEMMA QueryType ==
  ASSUME DnsTypeOK, NEW n \in Name, DnsQueryAsync(n)
  PROVE  /\ qid_counter' \in Qid
         /\ qtracks' \in [Track -> [qid : Qid, name : Name \cup {NoName}]]
         /\ sent' \subseteq [qid : Qid, name : Name \ BadName]
         /\ sent \subseteq sent'
<1> DEFINE id == (qid_counter + 1) % QidSpace
<1>1. id \in Qid
  BY DnsSizes DEF DnsTypeOK, Qid
<1> HIDE DEF id
<1>2. qid_counter' = id
  BY DEF DnsQueryAsync, id
<1>3. CASE n \in BadName /\ UNCHANGED <<qtracks, sent>>
  BY <1>1, <1>2, <1>3 DEF DnsTypeOK
<1>4. CASE n \notin BadName /\ qtracks' = QtrackAdd(id, n)
           /\ sent' = sent \cup {[qid |-> id, name |-> n]}
  <2>1. PICK i \in Track : qtracks' = [qtracks EXCEPT ![i] = [qid |-> id, name |-> n]]
    BY <1>4, AddOne
  <2>2. QED BY <1>1, <1>2, <1>4, <2>1 DEF DnsTypeOK
<1>5. QED BY <1>3, <1>4 DEF DnsQueryAsync, id

(* What dns_get_cached returns is an address. *)
LEMMA CachedType ==
  ASSUME DnsTypeOK, NEW n, Cached(n)
  PROVE  IpOf(n) \in Ip
BY CachedSlot DEF DnsTypeOK

(* Each step keeps the types. *)
LEMMA DnsTypeStep == DnsTypeOK /\ [Next]_vars => DnsTypeOK'
<1> SUFFICES ASSUME DnsTypeOK, [Next]_vars PROVE DnsTypeOK'
  OBVIOUS
<1>1. ASSUME NEW n \in Name, DnsResolve(n) PROVE DnsTypeOK'
  <2>1. calls' \in 0 .. MaxCalls /\ dns_cache' = dns_cache /\ done' = done
    BY <1>1, DnsSizes DEF DnsResolve, DnsTypeOK
  <2>2. CASE Cached(n) /\ ret' = [name |-> n, ip |-> IpOf(n)]
             /\ UNCHANGED <<qtracks, qid_counter, sent, call>>
    BY <2>1, <2>2, CachedType DEF DnsTypeOK
  <2>3. CASE DnsQueryAsync(n) /\ call' = [name |-> n, polls |-> 0] /\ UNCHANGED ret
    <3>1. 0 \in 0 .. MaxPolls
      BY DnsSizes
    <3>2. QED BY <2>1, <2>3, <3>1, QueryType DEF DnsTypeOK
  <2>4. QED BY <1>1, <2>2, <2>3 DEF DnsResolve
<1>2. ASSUME NEW q \in sent, NEW whole \in BOOLEAN,
             NEW ips \in SeqOf(Auth[q.name], MaxRecs), DnsOnResponse(q, ips, whole)
      PROVE  DnsTypeOK'
  <2>1. q.name \in Name
    BY DEF DnsTypeOK
  <2>2. Auth[q.name] \subseteq Address
    BY <2>1, DnsNames DEF Address
  <2>3. Len(ips) \in Nat /\ \A k \in 1 .. Len(ips) : ips[k] \in Address
    BY <2>2, AnswerIsSeq
  <2>4. dns_cache' \in Caches
    <3>1. dns_cache \in Caches
      BY DEF DnsTypeOK, Caches, Address
    <3>2. CASE TracksOf(q.qid) = {}
      BY <1>2, <3>1, <3>2 DEF DnsOnResponse
    <3>3. CASE TracksOf(q.qid) # {}
      <4>1. NameFor(q.qid) \in Name \cup {NoName}
        BY <3>3, TrackedSlot DEF DnsTypeOK
      <4>2. QED BY <1>2, <2>3, <3>1, <3>3, <4>1, StoreAllType DEF DnsOnResponse
    <3>4. QED BY <3>2, <3>3
  <2>5. qtracks' \in [Track -> [qid : Qid, name : Name \cup {NoName}]]
    <3>1. NoTrack \in [qid : Qid, name : Name \cup {NoName}]
      BY DnsSizes DEF NoTrack, Qid
    <3>2. QtrackClear(q.qid) \in [Track -> [qid : Qid, name : Name \cup {NoName}]]
      BY <3>1 DEF QtrackClear, DnsTypeOK
    <3>3. QED BY <1>2, <3>2 DEF DnsOnResponse, DnsTypeOK
  <2>6. done' \subseteq sent
    BY <1>2 DEF DnsOnResponse, DnsTypeOK
  <2>7. QED BY <1>2, <2>4, <2>5, <2>6 DEF DnsOnResponse, DnsTypeOK, Caches, Address
<1>3. CASE ResolveHit
  <2>1. IpOf(call.name) \in Ip
    BY <1>3, CachedType DEF ResolveHit
  <2>2. NoCall \in [name : Name \cup {NoName}, polls : 0 .. MaxPolls]
    BY DnsSizes DEF NoCall
  <2>3. QED BY <1>3, <2>1, <2>2 DEF ResolveHit, DnsTypeOK
<1>4. CASE ResolvePoll
  <2>1. call' = [call EXCEPT !.polls = call.polls + 1] /\ call.polls < MaxPolls
    BY <1>4 DEF ResolvePoll
  <2>2. call' \in [name : Name \cup {NoName}, polls : 0 .. MaxPolls]
    BY <2>1, DnsSizes DEF DnsTypeOK
  <2>3. QED BY <1>4, <2>2 DEF ResolvePoll, DnsTypeOK
<1>5. CASE ResolveFail
  <2>1. NoCall \in [name : Name \cup {NoName}, polls : 0 .. MaxPolls]
    BY DnsSizes DEF NoCall
  <2>2. QED BY <1>5, <2>1 DEF ResolveFail, DnsTypeOK
<1>6. CASE UNCHANGED vars
  BY <1>6 DEF vars, DnsTypeOK
<1>7. QED BY <1>1, <1>2, <1>3, <1>4, <1>5, <1>6 DEF Next

(* The variables keep their types, and the loop of dns_resolve its bound. *)
THEOREM DnsTypes == Spec => []DnsTypeOK
<1>1. QED BY DnsInitType, DnsTypeStep, PTL DEF Spec

--------------------------------------------------------------------------------
(* A name keeps its address.  dns_cache_store looks the name up first, so that
   no name has two entries: this is what makes the first entry of a name stay
   the first when another slot is written. *)
Unique(c) == \A i, j \in Entry :
  c[i].ip # NoIp /\ c[j].ip # NoIp /\ c[i].name = c[j].name => i = j
UniqueCaches == {c \in Caches : Unique(c)}
CacheUnique == DnsTypeOK /\ Unique(dns_cache)

(* Storing one record, and all of them, keeps the names apart. *)
LEMMA StoreOneUnique ==
  ASSUME NEW c \in UniqueCaches, NEW n \in Name \cup {NoName}, NEW ip \in Address
  PROVE  DnsCacheStore(c, n, ip) \in UniqueCaches
<1>1. CASE DnsCacheStore(c, n, ip) = c
  BY <1>1
<1>2. CASE /\ EntriesOf(c, n) = {}
           /\ \E i \in Entry :
                DnsCacheStore(c, n, ip) = [c EXCEPT ![i] = [name |-> n, ip |-> ip]]
  <2>1. PICK i \in Entry :
          DnsCacheStore(c, n, ip) = [c EXCEPT ![i] = [name |-> n, ip |-> ip]]
    BY <1>2
  <2> DEFINE d == DnsCacheStore(c, n, ip)
  <2>2. d \in Caches
    BY <2>1 DEF UniqueCaches, Caches
  <2>3. d[i].name = n /\ \A j \in Entry : j # i => d[j] = c[j]
    BY <2>1 DEF UniqueCaches, Caches
  <2>4. \A j \in Entry : c[j].ip # NoIp => c[j].name # n
    BY <1>2 DEF EntriesOf
  <2> HIDE DEF d
  <2>5. Unique(d)
    BY <2>3, <2>4 DEF UniqueCaches, Unique
  <2>6. QED BY <2>2, <2>5 DEF UniqueCaches, d
<1>3. QED BY <1>1, <1>2, StoreOne

LEMMA StoreAllUnique ==
  ASSUME NEW c \in UniqueCaches, NEW n \in Name \cup {NoName}, NEW ips,
         Len(ips) \in Nat, \A k \in 1 .. Len(ips) : ips[k] \in Address
  PROVE  StoreAll(c, n, ips) \in UniqueCaches
<1>1. ASSUME NEW d \in UniqueCaches, NEW k \in 1 .. Len(ips)
      PROVE  DnsCacheStore(d, n, ips[k]) \in UniqueCaches
  <2>1. ips[k] \in Address
    OBVIOUS
  <2>2. QED BY <2>1, StoreOneUnique
<1>2. QED BY <1>1, StoreAllKeeps

(* The entries of one name keep their address. *)
LEMMA StoreAllStable ==
  ASSUME NEW c \in UniqueCaches, NEW m \in Name \cup {NoName}, NEW ips,
         Len(ips) \in Nat, \A k \in 1 .. Len(ips) : ips[k] \in Address
  PROVE  \A i, j \in Entry :
           /\ c[i].ip # NoIp /\ StoreAll(c, m, ips)[j].ip # NoIp
           /\ StoreAll(c, m, ips)[j].name = c[i].name
           => StoreAll(c, m, ips)[j].ip = c[i].ip
<1> SUFFICES ASSUME NEW i \in Entry, c[i].ip # NoIp,
                    NEW j \in Entry, StoreAll(c, m, ips)[j].ip # NoIp,
                    StoreAll(c, m, ips)[j].name = c[i].name
             PROVE  StoreAll(c, m, ips)[j].ip = c[i].ip
  OBVIOUS
<1> DEFINE n == c[i].name
           a == c[i].ip
           Same(d) == \A k \in Entry : d[k].ip # NoIp /\ d[k].name = n => d[k].ip = a
           Good == {d \in UniqueCaches : Same(d)}
<1>1. CASE m = n
  <2>1. i \in EntriesOf(c, m)
    BY <1>1 DEF EntriesOf
  <2>2. \A ip : DnsCacheStore(c, m, ip) = c
    BY <2>1 DEF DnsCacheStore
  <2>3. \A d \in {c}, k \in 1 .. Len(ips) : DnsCacheStore(d, m, ips[k]) \in {c}
    BY <2>2
  <2>4. c \in {c}
    OBVIOUS
  <2>5. StoreAll(c, m, ips) \in {c}
    BY <2>3, <2>4, StoreAllKeeps
  <2>6. i = j
    BY <2>5 DEF UniqueCaches, Unique
  <2>7. QED BY <2>5, <2>6
<1>2. CASE m # n
  <2>1. Same(c)
    BY DEF UniqueCaches, Unique
  <2>2. c \in Good
    BY <2>1
  <2>3. ASSUME NEW d \in Good, NEW k \in 1 .. Len(ips)
        PROVE  DnsCacheStore(d, m, ips[k]) \in Good
    <3> DEFINE ip == ips[k]
               e == DnsCacheStore(d, m, ip)
    <3>1. ip \in Address /\ d \in UniqueCaches /\ Same(d)
      OBVIOUS
    <3> HIDE DEF ip
    <3>2. e \in UniqueCaches
      <4> HIDE DEF Same
      <4>1. QED BY <3>1, StoreOneUnique
    <3>3. ASSUME e = d PROVE e \in Good
      BY <3>1, <3>3
    <3>4. ASSUME \E s \in Entry : e = [d EXCEPT ![s] = [name |-> m, ip |-> ip]]
          PROVE  e \in Good
      <4>1. PICK s \in Entry : e = [d EXCEPT ![s] = [name |-> m, ip |-> ip]]
        BY <3>4
      <4>2. e[s].name = m /\ \A t \in Entry : t # s => e[t] = d[t]
        BY <3>1, <4>1 DEF UniqueCaches, Caches
      <4> HIDE DEF e
      <4>3. Same(e)
        BY <1>2, <3>1, <4>2
      <4>4. QED BY <3>2, <4>3
    <3>5. e = d \/ \E s \in Entry : e = [d EXCEPT ![s] = [name |-> m, ip |-> ip]]
      BY StoreOne
    <3> HIDE DEF Good
    <3>6. e \in Good
      BY <3>3, <3>4, <3>5
    <3>7. QED BY <3>6 DEF ip
  <2> HIDE DEF Good
  <2>4. StoreAll(c, m, ips) \in Good
    BY <2>2, <2>3, StoreAllKeeps
  <2>5. QED BY <2>4 DEF Good
<1>3. QED BY <1>1, <1>2

(* An answer: what dns_on_response is given, in types. *)
LEMMA AnswerType ==
  ASSUME DnsTypeOK, NEW q \in sent, NEW ips \in SeqOf(Auth[q.name], MaxRecs)
  PROVE  /\ Len(ips) \in Nat
         /\ \A k \in 1 .. Len(ips) : ips[k] \in Address /\ ips[k] \in Auth[q.name]
         /\ TracksOf(q.qid) # {} => NameFor(q.qid) \in Name \cup {NoName}
<1>1. q.name \in Name
  BY DEF DnsTypeOK
<1>2. Auth[q.name] \subseteq Address
  BY <1>1, DnsNames DEF Address
<1>3. TracksOf(q.qid) # {} => NameFor(q.qid) \in Name \cup {NoName}
  BY TrackedSlot DEF DnsTypeOK
<1>4. QED BY <1>2, <1>3, AnswerIsSeq

(* Each step keeps the names of the cache apart. *)
LEMMA CacheUniqueStep == CacheUnique /\ [Next]_vars => CacheUnique'
<1> SUFFICES ASSUME CacheUnique, [Next]_vars PROVE CacheUnique'
  OBVIOUS
<1>0. DnsTypeOK /\ DnsTypeOK' /\ dns_cache \in UniqueCaches
  BY DnsTypeStep DEF CacheUnique, DnsTypeOK, UniqueCaches, Caches, Address
<1>1. CASE dns_cache' = dns_cache
  BY <1>0, <1>1 DEF CacheUnique, Unique
<1>2. ASSUME NEW q \in sent, NEW whole \in BOOLEAN,
             NEW ips \in SeqOf(Auth[q.name], MaxRecs), DnsOnResponse(q, ips, whole)
      PROVE  CacheUnique'
  <2>1. CASE TracksOf(q.qid) = {}
    BY <1>1, <1>2, <2>1 DEF DnsOnResponse
  <2>2. CASE TracksOf(q.qid) # {}
    <3>1. dns_cache' = StoreAll(dns_cache, NameFor(q.qid), ips)
      BY <1>2, <2>2 DEF DnsOnResponse
    <3>2. dns_cache' \in UniqueCaches
      BY <1>0, <2>2, <3>1, AnswerType, StoreAllUnique
    <3>3. QED BY <1>0, <3>2 DEF UniqueCaches, CacheUnique, Unique
  <2>3. QED BY <2>1, <2>2
<1>3. QED
  BY <1>1, <1>2 DEF Next, DnsResolve, ResolveHit, ResolvePoll, ResolveFail, vars

(* While a name stays cached it keeps its address, whatever is answered, late,
   twice or cut off, and whatever is evicted. *)
THEOREM NameKeepsAddress == Spec => StableBinding
<1> DEFINE Keeps == \A n \in Name : Cached(n) /\ Cached(n)' => IpOf(n)' = IpOf(n)
<1>1. Init => CacheUnique
  <2> SUFFICES ASSUME Init PROVE CacheUnique
    OBVIOUS
  <2>1. DnsTypeOK
    BY DnsInitType
  <2>2. Unique(dns_cache)
    BY DEF Init, Unique
  <2>3. QED BY <2>1, <2>2 DEF CacheUnique
<1>2. CacheUnique /\ [Next]_vars => Keeps
  <2> SUFFICES ASSUME CacheUnique, [Next]_vars, NEW n \in Name, Cached(n), Cached(n)'
               PROVE  IpOf(n)' = IpOf(n)
    OBVIOUS
  <2>0. DnsTypeOK /\ dns_cache \in UniqueCaches
    BY DEF CacheUnique, DnsTypeOK, UniqueCaches, Caches, Address
  <2>1. PICK i \in Entry : dns_cache[i].ip # NoIp /\ dns_cache[i].name = n
                           /\ IpOf(n) = dns_cache[i].ip
    BY CachedSlot
  <2>2. PICK j \in Entry : dns_cache'[j].ip # NoIp /\ dns_cache'[j].name = n
                           /\ IpOf(n)' = dns_cache'[j].ip
    <3>1. EntriesOf(dns_cache', n) # {} /\ EntriesOf(dns_cache', n) \subseteq Nat
      BY DEF Cached, EntriesOf, Entry
    <3>2. Min(EntriesOf(dns_cache', n)) \in EntriesOf(dns_cache', n)
      BY <3>1, FirstSlot
    <3>3. QED BY <3>2 DEF EntriesOf, IpOf
  <2>3. CASE dns_cache' = dns_cache
    <3>1. i = j
      BY <2>0, <2>1, <2>2, <2>3 DEF UniqueCaches, Unique
    <3>2. QED BY <2>1, <2>2, <2>3, <3>1
  <2>4. ASSUME NEW q \in sent, NEW whole \in BOOLEAN,
               NEW ips \in SeqOf(Auth[q.name], MaxRecs), DnsOnResponse(q, ips, whole)
        PROVE  IpOf(n)' = IpOf(n)
    <3>1. CASE TracksOf(q.qid) = {}
      BY <2>3, <2>4, <3>1 DEF DnsOnResponse
    <3>2. CASE TracksOf(q.qid) # {}
      <4>1. dns_cache' = StoreAll(dns_cache, NameFor(q.qid), ips)
        BY <2>4, <3>2 DEF DnsOnResponse
      <4>2. /\ NameFor(q.qid) \in Name \cup {NoName} /\ Len(ips) \in Nat
            /\ \A k \in 1 .. Len(ips) : ips[k] \in Address
        BY <2>0, <3>2, AnswerType
      <4>3. /\ StoreAll(dns_cache, NameFor(q.qid), ips)[j].ip # NoIp
            /\ StoreAll(dns_cache, NameFor(q.qid), ips)[j].name = dns_cache[i].name
        BY <2>1, <2>2, <4>1
      <4>4. StoreAll(dns_cache, NameFor(q.qid), ips)[j].ip = dns_cache[i].ip
        <5> DEFINE m == NameFor(q.qid)
        <5>1. dns_cache \in UniqueCaches /\ dns_cache[i].ip # NoIp
          BY <2>0, <2>1
        <5>2. m \in Name \cup {NoName}
          BY <4>2
        <5>3. Len(ips) \in Nat /\ \A k \in 1 .. Len(ips) : ips[k] \in Address
          BY <4>2
        <5>4. \A s, t \in Entry :
                /\ dns_cache[s].ip # NoIp /\ StoreAll(dns_cache, m, ips)[t].ip # NoIp
                /\ StoreAll(dns_cache, m, ips)[t].name = dns_cache[s].name
                => StoreAll(dns_cache, m, ips)[t].ip = dns_cache[s].ip
          <6> HIDE DEF m
          <6>1. QED BY <5>1, <5>2, <5>3, StoreAllStable
        <5>5. QED BY <4>3, <5>1, <5>4
      <4>5. QED BY <2>1, <2>2, <4>1, <4>4
    <3>3. QED BY <3>1, <3>2
  <2>5. QED
    BY <2>3, <2>4 DEF Next, DnsResolve, ResolveHit, ResolvePoll, ResolveFail, vars
<1>3. QED BY <1>1, <1>2, CacheUniqueStep, PTL DEF Spec, StableBinding

--------------------------------------------------------------------------------
(* Ids and outstanding queries.  All of this holds only until qid_counter has
   gone once round (NoWrap): 49151 queries in the code. *)
NoWrap == FirstQid + MaxCalls < QidSpace

(* An id is used for one query, and the ids count up. *)
Ids == /\ qid_counter \in FirstQid .. FirstQid + calls
       /\ \A q \in sent : q.qid \in FirstQid + 1 .. qid_counter
       /\ \A p, q \in sent : p.qid = q.qid => p = q

(* A slot in use holds a query that is outstanding, and no two hold the same. *)
Tracks == /\ \A i \in Track : qtracks[i].qid # 0 => qtracks[i] \in sent \ done
          /\ \A i, j \in Track :
               qtracks[i].qid # 0 /\ qtracks[i].qid = qtracks[j].qid => i = j

(* The query of the call under way was sent, and is tracked until answered. *)
Pending(q) == q \in sent /\ (q \in done \/ \E i \in Track : qtracks[i] = q)
Waits == call.name \notin BadName \cup {NoName} =>
           Pending([qid |-> qid_counter, name |-> call.name])

DnsInv == DnsTypeOK /\ Ids /\ Tracks /\ Waits /\ AddressCorrect

(* Sizes as the prover needs them. *)
LEMMA IdSizes == FirstQid \in Nat /\ MaxCalls \in Nat /\ QidSpace \in Nat \ {0}
BY DnsSizes

(* Before the wrap a new id is the next number. *)
LEMMA NextId ==
  ASSUME NoWrap, DnsTypeOK, Ids, calls < MaxCalls
  PROVE  /\ (qid_counter + 1) % QidSpace = qid_counter + 1
         /\ qid_counter \in Nat
         /\ qid_counter + 1 \in FirstQid + 1 .. FirstQid + calls + 1
<1>1. calls \in Nat
  BY DnsSizes DEF DnsTypeOK
<1>2. qid_counter \in Nat /\ FirstQid <= qid_counter /\ qid_counter <= FirstQid + calls
  BY <1>1, IdSizes DEF Ids
<1>3. qid_counter + 1 < QidSpace
  BY <1>1, <1>2, IdSizes DEF NoWrap
<1>4. (qid_counter + 1) % QidSpace = qid_counter + 1
  BY <1>2, <1>3, IdSizes
<1>5. QED BY <1>1, <1>2, <1>4, IdSizes

(* A query that was sent is found under its id only by its own name. *)
LEMMA AnswerName ==
  ASSUME DnsInv, NEW q \in sent, TracksOf(q.qid) # {}
  PROVE  NameFor(q.qid) = q.name
<1>1. PICK i \in Track : qtracks[i].qid = q.qid /\ NameFor(q.qid) = qtracks[i].name
  BY TrackedSlot
<1>2. q.qid # 0
  <2>1. q.qid \in FirstQid + 1 .. qid_counter
    BY DEF DnsInv, Ids
  <2>2. QED BY <2>1, IdSizes
<1>3. qtracks[i] \in sent
  BY <1>1, <1>2 DEF DnsInv, Tracks
<1>4. qtracks[i] = q
  BY <1>1, <1>3 DEF DnsInv, Ids
<1>5. QED BY <1>1, <1>4

(* Storing the addresses a server has for a name keeps the cache right. *)
Right(c) == \A i \in Entry : c[i].ip # NoIp => c[i].name \in Name /\ c[i].ip \in Auth[c[i].name]

LEMMA StoreAllRight ==
  ASSUME NEW c \in Caches, Right(c), NEW n \in Name, NEW ips, Len(ips) \in Nat,
         \A k \in 1 .. Len(ips) : ips[k] \in Address /\ ips[k] \in Auth[n]
  PROVE  Right(StoreAll(c, n, ips))
<1> DEFINE Good == {d \in Caches : Right(d)}
<1>1. ASSUME NEW d \in Good, NEW k \in 1 .. Len(ips)
      PROVE  DnsCacheStore(d, n, ips[k]) \in Good
  <2> DEFINE ip == ips[k]
             e == DnsCacheStore(d, n, ip)
  <2>1. ip \in Address /\ ip \in Auth[n] /\ d \in Caches /\ Right(d)
    OBVIOUS
  <2> HIDE DEF ip
  <2>2. ASSUME e = d PROVE e \in Good
    BY <2>1, <2>2
  <2>3. ASSUME \E s \in Entry : e = [d EXCEPT ![s] = [name |-> n, ip |-> ip]]
        PROVE  e \in Good
    <3>1. PICK s \in Entry : e = [d EXCEPT ![s] = [name |-> n, ip |-> ip]]
      BY <2>3
    <3>2. e[s].name = n /\ e[s].ip = ip /\ \A t \in Entry : t # s => e[t] = d[t]
      BY <2>1, <3>1 DEF Caches
    <3>3. e \in Caches
      BY <2>1, <3>1 DEF Caches
    <3> HIDE DEF e
    <3>4. Right(e)
      BY <2>1, <3>2 DEF Right
    <3>5. QED BY <3>3, <3>4
  <2>4. e = d \/ \E s \in Entry : e = [d EXCEPT ![s] = [name |-> n, ip |-> ip]]
    BY StoreOne
  <2> HIDE DEF Good
  <2>5. e \in Good
    BY <2>2, <2>3, <2>4
  <2>6. QED BY <2>5 DEF ip
<1>2. c \in Good
  OBVIOUS
<1> HIDE DEF Good
<1>3. StoreAll(c, n, ips) \in Good
  BY <1>1, <1>2, StoreAllKeeps
<1>4. QED BY <1>3 DEF Good

(* dns_query_async: the new query gets an id of its own and a slot. *)
LEMMA QueryKeeps ==
  ASSUME NoWrap, DnsInv, NEW n \in Name, DnsQueryAsync(n),
         calls < MaxCalls, calls' = calls + 1, done' = done
  PROVE  /\ Ids' /\ Tracks'
         /\ n \notin BadName => Pending([qid |-> qid_counter, name |-> n])'
<1> DEFINE id == qid_counter + 1
           new == [qid |-> id, name |-> n]
<1>1. /\ (qid_counter + 1) % QidSpace = id /\ qid_counter \in Nat
      /\ id \in FirstQid + 1 .. FirstQid + calls + 1
  BY NextId DEF DnsInv
<1>2. qid_counter' = id
  BY <1>1 DEF DnsQueryAsync
<1>3. calls \in Nat /\ FirstQid \in Nat
  BY DnsSizes DEF DnsInv, DnsTypeOK
<1>4. qid_counter' \in FirstQid .. FirstQid + calls'
  BY <1>1, <1>2, <1>3
<1>5. \A q \in sent : q.qid \in FirstQid + 1 .. id /\ q.qid # id
  <2> SUFFICES ASSUME NEW q \in sent PROVE q.qid \in FirstQid + 1 .. id /\ q.qid # id
    OBVIOUS
  <2>1. q.qid \in FirstQid + 1 .. qid_counter
    BY DEF DnsInv, Ids
  <2>2. QED BY <1>1, <1>3, <2>1
<1>6. CASE n \in BadName /\ UNCHANGED <<qtracks, sent>>
  <2>1. Ids'
    BY <1>2, <1>4, <1>5, <1>6 DEF Ids, DnsInv
  <2>2. Tracks'
    BY <1>6 DEF DnsInv, Tracks
  <2>3. QED BY <1>6, <2>1, <2>2
<1>7. CASE n \notin BadName /\ qtracks' = QtrackAdd(id, n) /\ sent' = sent \cup {new}
  <2>1. new.qid = id /\ new.name = n
    OBVIOUS
  <2>2. id \in FirstQid + 1 .. id /\ id # 0
    BY <1>1, <1>3
  <2>3. Ids'
    <3>1. \A q \in sent' : q.qid \in FirstQid + 1 .. qid_counter'
      <4> HIDE DEF id, new
      <4>1. QED BY <1>2, <1>5, <1>7, <2>1, <2>2
    <3>2. \A p, q \in sent' : p.qid = q.qid => p = q
      <4> HIDE DEF id, new
      <4>1. QED BY <1>5, <1>7, <2>1 DEF DnsInv, Ids
    <3>3. QED BY <1>4, <3>1, <3>2 DEF Ids
  <2>4. PICK s \in Track : qtracks' = [qtracks EXCEPT ![s] = new]
    BY <1>7, AddOne
  <2>5. qtracks'[s] = new /\ \A t \in Track : t # s => qtracks'[t] = qtracks[t]
    BY <2>4 DEF DnsInv, DnsTypeOK
  <2>6. new \notin done /\ \A t \in Track : qtracks[t].qid # id
    <3>1. done \subseteq sent
      BY DEF DnsInv, DnsTypeOK
    <3>2. new \notin sent
      BY <1>5, <2>1
    <3>3. ASSUME NEW t \in Track PROVE qtracks[t].qid # id
      <4>1. CASE qtracks[t].qid = 0
        BY <2>2, <4>1
      <4>2. CASE qtracks[t].qid # 0
        BY <1>5, <4>2 DEF DnsInv, Tracks
      <4>3. QED BY <4>1, <4>2
    <3>4. QED BY <3>1, <3>2, <3>3
  <2> HIDE DEF id, new
  <2>7. \A i \in Track : qtracks'[i].qid # 0 => qtracks'[i] \in sent' \ done'
    BY <1>7, <2>5, <2>6 DEF DnsInv, Tracks
  <2>8. \A i, j \in Track :
          qtracks'[i].qid # 0 /\ qtracks'[i].qid = qtracks'[j].qid => i = j
    BY <2>1, <2>5, <2>6 DEF DnsInv, Tracks
  <2>9. Tracks'
    BY <2>7, <2>8 DEF Tracks
  <2>10. new \in sent' /\ \E i \in Track : qtracks'[i] = new
    BY <1>7, <2>5
  <2>11. Pending([qid |-> qid_counter, name |-> n])'
    <3>1. [qid |-> qid_counter', name |-> n] = new
      BY <1>2 DEF new
    <3>2. QED BY <2>10, <3>1 DEF Pending
  <2>12. QED BY <2>3, <2>9, <2>11
<1>8. QED BY <1>1, <1>6, <1>7 DEF DnsQueryAsync

(* dns_on_response: the cache stays right, and what is outstanding tracked. *)
LEMMA ResponseKeeps ==
  ASSUME DnsInv, NEW q \in sent, NEW whole \in BOOLEAN,
         NEW ips \in SeqOf(Auth[q.name], MaxRecs), DnsOnResponse(q, ips, whole)
  PROVE  Tracks' /\ Waits' /\ AddressCorrect'
<1> USE DEF DnsInv
<1>1. q.name \in Name /\ dns_cache \in Caches /\ Right(dns_cache)
  BY DEF DnsTypeOK, AddressCorrect, Right, Caches, Address
<1>2. AddressCorrect'
  <2>1. ret' = ret
    BY DEF DnsOnResponse
  <2>2. Right(dns_cache')
    <3>1. CASE TracksOf(q.qid) = {}
      BY <1>1, <3>1 DEF DnsOnResponse
    <3>2. CASE TracksOf(q.qid) # {}
      <4>1. NameFor(q.qid) = q.name
        BY <3>2, AnswerName
      <4>2. dns_cache' = StoreAll(dns_cache, q.name, ips)
        BY <3>2, <4>1 DEF DnsOnResponse
      <4>3. /\ Len(ips) \in Nat
            /\ \A k \in 1 .. Len(ips) : ips[k] \in Address /\ ips[k] \in Auth[q.name]
        BY AnswerType
      <4>4. Right(StoreAll(dns_cache, q.name, ips))
        BY <1>1, <4>3, StoreAllRight
      <4>5. QED BY <4>2, <4>4
    <3>3. QED BY <3>1, <3>2
  <2>3. QED BY <2>1, <2>2 DEF AddressCorrect, Right
<1>3. UNCHANGED <<qid_counter, call, sent>>
  BY DEF DnsOnResponse
<1>4. CASE ~whole
  <2>1. qtracks' = qtracks /\ done' = done
    BY <1>4 DEF DnsOnResponse
  <2>2. Tracks' /\ Waits'
    BY <1>3, <2>1 DEF Tracks, Waits, Pending
  <2>3. QED BY <1>2, <2>2
<1>5. CASE whole
  <2>1. done' = done \cup {q}
    BY <1>5 DEF DnsOnResponse
  <2>2. \A i \in Track : qtracks'[i] = IF qtracks[i].qid = q.qid THEN NoTrack ELSE qtracks[i]
    BY <1>5 DEF DnsOnResponse, QtrackClear
  <2>3. NoTrack.qid = 0
    BY DEF NoTrack
  <2>4. \A i \in Track : qtracks'[i].qid # 0 =>
          qtracks'[i] = qtracks[i] /\ qtracks[i].qid # q.qid
    BY <2>2, <2>3
  <2>5. Tracks'
    <3>1. \A i \in Track : qtracks'[i].qid # 0 => qtracks'[i] \in sent' \ done'
      BY <1>3, <2>1, <2>4 DEF Tracks
    <3>2. \A i, j \in Track :
            qtracks'[i].qid # 0 /\ qtracks'[i].qid = qtracks'[j].qid => i = j
      BY <2>4 DEF Tracks
    <3>3. QED BY <3>1, <3>2 DEF Tracks
  <2>6. ASSUME NEW p, Pending(p) PROVE p \in sent' /\ (p \in done' \/ \E i \in Track : qtracks'[i] = p)
    <3>1. CASE p \in done
      BY <1>3, <2>1, <2>6, <3>1 DEF Pending
    <3>2. CASE p \notin done
      <4>1. PICK i \in Track : qtracks[i] = p
        BY <2>6, <3>2 DEF Pending
      <4>2. CASE qtracks[i].qid = q.qid
        <5>1. p = q
          BY <2>6, <4>1, <4>2 DEF Pending, Ids
        <5>2. QED BY <1>3, <2>1, <5>1
      <4>3. CASE qtracks[i].qid # q.qid
        <5>1. qtracks'[i] = p
          BY <2>2, <4>1, <4>3
        <5>2. QED BY <1>3, <2>6, <5>1 DEF Pending
      <4>4. QED BY <4>2, <4>3
    <3>3. QED BY <3>1, <3>2
  <2>7. Waits'
    <3> DEFINE p == [qid |-> qid_counter, name |-> call.name]
    <3>1. SUFFICES ASSUME call.name \notin BadName \cup {NoName}
                   PROVE  p \in sent' /\ (p \in done' \/ \E i \in Track : qtracks'[i] = p)
      BY <1>3 DEF Waits, Pending
    <3>2. Pending(p)
      BY <3>1 DEF Waits
    <3> HIDE DEF p
    <3>3. QED BY <2>6, <3>2
  <2>8. QED BY <1>2, <2>5, <2>7
<1>6. QED BY <1>4, <1>5

(* The invariant holds at the start. *)
LEMMA DnsInvInit == Init => DnsInv
<1> SUFFICES ASSUME Init PROVE DnsInv
  OBVIOUS
<1>1. DnsTypeOK
  BY DnsInitType
<1>2. Ids
  BY IdSizes DEF Init, Ids
<1>3. Tracks
  BY DEF Init, NoTrack, Tracks
<1>4. Waits
  BY DEF Init, NoCall, Waits
<1>5. AddressCorrect
  BY DEF Init, NoAnswer, AddressCorrect
<1>6. QED BY <1>1, <1>2, <1>3, <1>4, <1>5 DEF DnsInv

(* What dns_get_cached returns is right. *)
LEMMA CachedRight ==
  ASSUME AddressCorrect, NEW n, Cached(n)
  PROVE  IpOf(n) \in Auth[n]
BY CachedSlot DEF AddressCorrect

(* Each step keeps the invariant, until the ids wrap around. *)
LEMMA DnsInvStep ==
  ASSUME NoWrap PROVE DnsInv /\ [Next]_vars => DnsInv'
<1> SUFFICES ASSUME DnsInv, [Next]_vars PROVE DnsInv'
  OBVIOUS
<1>0. DnsTypeOK /\ DnsTypeOK' /\ Ids /\ Tracks /\ Waits /\ AddressCorrect
  BY DnsTypeStep DEF DnsInv
<1>1. ASSUME NEW n \in Name, DnsResolve(n) PROVE DnsInv'
  <2>1. /\ call = NoCall /\ calls < MaxCalls /\ calls' = calls + 1
        /\ UNCHANGED <<dns_cache, done>>
    BY <1>1 DEF DnsResolve
  <2>2. CASE /\ Cached(n) /\ ret' = [name |-> n, ip |-> IpOf(n)]
             /\ UNCHANGED <<qtracks, qid_counter, sent, call>>
    <3>1. Ids'
      <4>1. calls \in Nat /\ FirstQid \in Nat
        BY <1>0, DnsSizes DEF DnsTypeOK
      <4>2. qid_counter \in FirstQid .. FirstQid + (calls + 1)
        BY <1>0, <4>1 DEF Ids
      <4>3. QED BY <1>0, <2>1, <2>2, <4>2 DEF Ids
    <3>2. Tracks' /\ Waits'
      BY <1>0, <2>1, <2>2 DEF Tracks, Waits, Pending
    <3>3. AddressCorrect'
      BY <1>0, <2>1, <2>2, CachedRight DEF AddressCorrect
    <3>4. QED BY <1>0, <3>1, <3>2, <3>3 DEF DnsInv
  <2>3. CASE DnsQueryAsync(n) /\ call' = [name |-> n, polls |-> 0] /\ UNCHANGED ret
    <3>1. /\ Ids' /\ Tracks'
          /\ n \notin BadName => Pending([qid |-> qid_counter, name |-> n])'
      BY <2>1, <2>3, QueryKeeps
    <3>2. Waits'
      <4>1. call'.name = n
        BY <2>3
      <4>2. QED BY <3>1, <4>1 DEF Waits
    <3>3. AddressCorrect'
      BY <1>0, <2>1, <2>3 DEF AddressCorrect
    <3>4. QED BY <1>0, <3>1, <3>2, <3>3 DEF DnsInv
  <2>4. QED BY <1>1, <2>2, <2>3 DEF DnsResolve
<1>2. ASSUME NEW q \in sent, NEW whole \in BOOLEAN,
             NEW ips \in SeqOf(Auth[q.name], MaxRecs), DnsOnResponse(q, ips, whole)
      PROVE  DnsInv'
  <2>1. Tracks' /\ Waits' /\ AddressCorrect'
    BY <1>2, ResponseKeeps
  <2>2. Ids'
    BY <1>0, <1>2 DEF DnsOnResponse, Ids
  <2>3. QED BY <1>0, <2>1, <2>2 DEF DnsInv
<1>3. ASSUME UNCHANGED <<dns_cache, qtracks, qid_counter, calls, sent, done>>,
             UNCHANGED call \/ call' = NoCall \/ call' = [call EXCEPT !.polls = @ + 1],
             UNCHANGED ret \/ AddressCorrect'
      PROVE  DnsInv'
  <2>1. Ids' /\ Tracks'
    BY <1>0, <1>3 DEF Ids, Tracks
  <2>2. AddressCorrect'
    BY <1>0, <1>3 DEF AddressCorrect
  <2>3. call'.name = call.name \/ call'.name = NoName
    BY <1>0, <1>3 DEF DnsTypeOK, NoCall
  <2>4. Waits'
    BY <1>0, <1>3, <2>3 DEF Waits, Pending
  <2>5. QED BY <1>0, <2>1, <2>2, <2>4 DEF DnsInv
<1>4. CASE ResolveHit
  <2>1. AddressCorrect'
    BY <1>0, <1>4, CachedRight DEF ResolveHit, AddressCorrect
  <2>2. QED BY <1>3, <1>4, <2>1 DEF ResolveHit
<1>5. CASE ResolvePoll
  BY <1>3, <1>5 DEF ResolvePoll
<1>6. CASE ResolveFail
  <2>1. AddressCorrect'
    BY <1>0, <1>6 DEF ResolveFail, AddressCorrect
  <2>2. QED BY <1>3, <1>6, <2>1 DEF ResolveFail
<1>7. CASE UNCHANGED vars
  BY <1>3, <1>7 DEF vars
<1>8. QED BY <1>1, <1>2, <1>4, <1>5, <1>6, <1>7 DEF Next

(* Until the ids wrap around, an address is cached and returned only for a name
   the server has it for, whichever answers come late, twice or cut off. *)
THEOREM AddressesAreRight ==
  ASSUME NoWrap PROVE Spec => []AddressCorrect
<1>1. DnsInv => AddressCorrect
  BY DEF DnsInv
<1>2. QED BY <1>1, DnsInvInit, DnsInvStep, PTL DEF Spec

(* Until the ids wrap around, the slots of qtracks in use are the outstanding
   queries, each in one slot. *)
THEOREM OutstandingAreTracked ==
  ASSUME NoWrap PROVE Spec => []TracksOutstanding
<1>1. DnsInv => TracksOutstanding
  BY DEF DnsInv, Tracks, TracksOutstanding, TracksOf
<1>2. QED BY <1>1, DnsInvInit, DnsInvStep, PTL DEF Spec

(* Until the ids wrap around, the query that dns_resolve waits for is found by
   its id under its own name until it is answered, however full the table. *)
THEOREM WaitedForIsTracked ==
  ASSUME NoWrap PROVE Spec => []WaitingIsTracked
<1>1. ASSUME DnsInv PROVE WaitingIsTracked
  <2> DEFINE p == [qid |-> qid_counter, name |-> call.name]
  <2>1. SUFFICES ASSUME call.name \notin BadName \cup {NoName}, p \notin done
                 PROVE  TracksOf(qid_counter) # {} /\ NameFor(qid_counter) = call.name
    BY DEF WaitingIsTracked
  <2>2. p \in sent /\ \E i \in Track : qtracks[i] = p
    BY <1>1, <2>1 DEF DnsInv, Waits, Pending
  <2>3. p.qid = qid_counter /\ p.name = call.name
    OBVIOUS
  <2> HIDE DEF p
  <2>4. TracksOf(p.qid) # {}
    BY <2>2 DEF TracksOf
  <2>5. NameFor(p.qid) = p.name
    BY <1>1, <2>2, <2>4, AnswerName
  <2>6. QED BY <2>3, <2>4, <2>5
<1>2. QED BY <1>1, DnsInvInit, DnsInvStep, PTL DEF Spec
================================================================================
