--------------------------- MODULE SSHPool_proofs ---------------------------
(***************************************************************************)
(* Theorems about the SSH connection pool of one server, for any finite    *)
(* number of streams and tails at a time, any retry limit, and any         *)
(* outages.                                                                *)
(*                                                                         *)
(* Nobody disturbs what a Get does under an entry's mutex because the      *)
(* mutex is held (GetHolds), and because no two entries that the map or a  *)
(* client refers to store the same connection (OwnConns): closing the      *)
(* connection of a removed entry cannot close that of the entry in use.    *)
(***************************************************************************)
EXTENDS SSHPool, FiniteSetTheorems, TLAPS
-----------------------------------------------------------------------------
(* There is always a free name *)

\* A function's values on a finite set are no more than its arguments.
LEMMA ImageSmall ==
  ASSUME NEW S, IsFiniteSet(S), NEW f
  PROVE  /\ IsFiniteSet({f[x] : x \in S})
         /\ Cardinality({f[x] : x \in S}) <= Cardinality(S)
<1> DEFINE T == {f[x] : x \in S}
           g == [x \in S |-> f[x]]
<1>1. g \in Surjection(S, T)
  BY DEF Surjection
<1> HIDE DEF g, T
<1>2. IsFiniteSet(T) /\ Cardinality(T) <= Cardinality(S)
  BY <1>1, FS_Surjection
<1>. QED
  BY <1>2 DEF T

\* A set with more than n elements has one that is not among n others.
LEMMA OneMore ==
  ASSUME NEW S, NEW T, NEW n \in Nat, IsFiniteSet(T), Cardinality(T) <= n, Cardinality(S) > n
  PROVE  \E x \in S : x \notin T
<1> SUFFICES ASSUME S \in SUBSET T PROVE FALSE
  OBVIOUS
<1>1. IsFiniteSet(S) /\ Cardinality(S) <= Cardinality(T)
  BY FS_Subset
<1>2. Cardinality(S) \in Nat /\ Cardinality(T) \in Nat
  BY <1>1, FS_CardinalityType
<1>. QED
  BY <1>1, <1>2

\* The union of two finite sets is no larger than the two together.
LEMMA UnionSmall ==
  ASSUME NEW S, NEW T, IsFiniteSet(S), IsFiniteSet(T), NEW m \in Nat, NEW n \in Nat,
         Cardinality(S) <= m, Cardinality(T) <= n
  PROVE  IsFiniteSet(S \cup T) /\ Cardinality(S \cup T) <= m + n
<1>1. IsFiniteSet(S \cup T) /\ Cardinality(S \cup T) = Cardinality(S) + Cardinality(T) - Cardinality(S \cap T)
  BY FS_Union
<1>2. IsFiniteSet(S \cap T)
  BY FS_Intersection
<1>3. Cardinality(S) \in Nat /\ Cardinality(T) \in Nat /\ Cardinality(S \cap T) \in Nat
  BY <1>2, FS_CardinalityType
<1>. QED
  BY <1>1, <1>3

\* When the map is empty, only the clients' entries are referred to: one is free.
LEMMA FreshEntryIsFree ==
  ASSUME slot = None
  PROVE  FreshEntry \in Entry /\ ~InUse(FreshEntry)
<1> DEFINE T == {entry[c] : c \in Client}
<1>1. IsFiniteSet(T) /\ Cardinality(T) <= Cardinality(Client)
  BY ImageSmall, PoolAssumption
<1>2. Cardinality(Client) \in Nat
  BY FS_CardinalityType, PoolAssumption
<1> HIDE DEF T
<1>3. \E e \in Entry : e \notin T
  BY <1>1, <1>2, OneMore, PoolAssumption
<1>4. \E e \in Entry : ~InUse(e)
  BY <1>3, PoolAssumption DEF T, InUse
<1>. QED
  BY <1>4 DEF FreshEntry

\* Clients use one connection each, the entries referred to store one each: one more
\* is free.
LEMMA FreshConnIsFree ==
  /\ FreshConn \in Conn
  /\ \A c \in Client : using[c] # FreshConn
  /\ \A e \in Entry : InUse(e) => conn[e] # FreshConn
<1> DEFINE stored == [c \in Client |-> conn[entry[c]]]
           U == {using[c] : c \in Client}
           V == {stored[c] : c \in Client}
           W == {conn[slot]}
           n == Cardinality(Client)
<1>1. n \in Nat
  BY FS_CardinalityType, PoolAssumption
<1>2. /\ IsFiniteSet(U) /\ Cardinality(U) <= n
      /\ IsFiniteSet(V) /\ Cardinality(V) <= n
  <2> HIDE DEF stored
  <2>. QED
    BY ImageSmall, PoolAssumption
<1>3. IsFiniteSet(W) /\ Cardinality(W) <= 1
  <2>1. IsFiniteSet({conn[slot]}) /\ Cardinality({conn[slot]}) = 1
    BY FS_Singleton
  <2>. QED
    BY <2>1
<1> HIDE DEF U, V, W, n
<1>4. IsFiniteSet(U \cup V) /\ Cardinality(U \cup V) <= n + n
  BY <1>1, <1>2, UnionSmall
<1>5. IsFiniteSet((U \cup V) \cup W) /\ Cardinality((U \cup V) \cup W) <= (n + n) + 1
  <2>1. n + n \in Nat /\ 1 \in Nat
    BY <1>1
  <2>. QED
    BY <1>3, <1>4, <2>1, UnionSmall
<1>6. Cardinality(Conn) > (n + n) + 1
  <2>1. 2 * n + 1 = (n + n) + 1
    BY <1>1
  <2>. QED
    BY <2>1, PoolAssumption DEF n
<1>7. (n + n) + 1 \in Nat
  BY <1>1
<1>8. \E k \in Conn : k \notin (U \cup V) \cup W
  BY <1>5, <1>6, <1>7, OneMore
<1>9. \E k \in Conn : /\ \A c \in Client : using[c] # k
                      /\ \A e \in Entry : InUse(e) => conn[e] # k
  <2>1. PICK k \in Conn : k \notin (U \cup V) \cup W
    BY <1>8
  <2>2. \A c \in Client : using[c] # k
    BY <2>1 DEF U
  <2>3. \A c \in Client : conn[entry[c]] # k
    BY <2>1 DEF V
  <2>4. conn[slot] # k
    BY <2>1 DEF W
  <2>5. \A e \in Entry : InUse(e) => conn[e] # k
    BY <2>3, <2>4 DEF InUse
  <2>. QED
    BY <2>2, <2>5
<1>. QED
  BY <1>9 DEF FreshConn
-----------------------------------------------------------------------------
(* The invariant *)

\* A client inside Get holds the mutex of its entry.
GetHolds == \A c \in Client : pc[c] = "get" => entry[c] \in Entry /\ holder[entry[c]] = c

\* Entries that are referred to store different connections.
OwnConns ==
  \A e, f \in Entry : InUse(e) /\ InUse(f) /\ e # f /\ conn[e] # None => conn[e] # conn[f]

\* A stream that samples has not yet failed too often.
StreamsCount == \A c \in Stream : pc[c] = "use" => errors[c] < maxMetricRetries

\* A client that closes an entry has taken one out of the map.
CloseHas == \A c \in Client : pc[c] = "close" => entry[c] \in Entry

PoolInv == TypeOK /\ GetHolds /\ OwnConns /\ StreamsCount /\ CloseHas

\* At most entry e changes its connection, or is referred to anew.
LEMMA OwnConnsKept ==
  ASSUME OwnConns, NEW e, NEW k,
         \A f \in Entry : InUse(f)' => InUse(f) \/ f = e,
         \A f \in Entry : f # e => conn'[f] = conn[f],
         e \in Entry => conn'[e] = k,
         k = None \/ \A f \in Entry : InUse(f) => conn[f] # k
  PROVE  OwnConns'
  BY DEF OwnConns

\* Initially nobody is anywhere.
LEMMA InvInit == Init => PoolInv
<1> SUFFICES ASSUME Init PROVE PoolInv
  OBVIOUS
<1>1. 0 \in 0..maxMetricRetries /\ 0 \in 0..maxMetricRetries + 1 /\ 0 \in 0..MaxTrouble
  BY PoolAssumption
<1>2. TypeOK
  BY <1>1 DEF Init, TypeOK, Place
<1>3. GetHolds /\ OwnConns /\ StreamsCount /\ CloseHas
  BY DEF Init, GetHolds, OwnConns, StreamsCount, CloseHas, Client
<1>. QED
  BY <1>2, <1>3 DEF PoolInv

\* A client's step changes nobody else's place.
LEMMA GotoType ==
  ASSUME TypeOK, NEW c \in Client, NEW place \in Place, Goto(c, place)
  PROVE  /\ pc' \in [Client -> Place]
         /\ pc'[c] = place /\ \A d \in Client \ {c} : pc'[d] = pc[d]
  BY DEF TypeOK, Goto

\* The steps of a client keep the types.
LEMMA ClientTypes ==
  ASSUME PoolInv, NEW c \in Client, Open(c) \/ Work(c) \/ Leave(c)
  PROVE  TypeOK'
<1> USE DEF PoolInv
<1>0. /\ 0 \in 0..maxMetricRetries /\ 0 \in 0..maxMetricRetries + 1
      /\ \A e : CloseOld(e) \in [Conn -> {"unused", "live", "cut", "closed"}]
  BY PoolAssumption DEF CloseOld, TypeOK
<1>1. CASE Open(c)
  BY <1>1, GotoType DEF Open, TypeOK, Place
<1>2. CASE Lookup(c)
  BY <1>2, FreshEntryIsFree DEF Lookup, TypeOK
<1>3. CASE LockEntry(c)
  BY <1>3, GotoType DEF LockEntry, TypeOK, Place
<1>4. CASE Reuse(c)
  <2>1. entry[c] \in Entry /\ conn[entry[c]] \in Conn
    BY <1>4 DEF Reuse, IsAlive, GetHolds, TypeOK
  <2>2. pc' \in [Client -> Place]
    BY <1>4, GotoType DEF Reuse, Got, Place
  <2>. QED
    BY <1>0, <1>4, <2>1, <2>2 DEF Reuse, Got, Unlock, TypeOK
<1>5. CASE Dial(c)
  <2>1. pc' \in [Client -> Place]
    BY <1>5, GotoType DEF Dial, Got, Place
  <2>2. state' \in [Conn -> {"unused", "live", "cut", "closed"}]
    BY <1>0, <1>5 DEF Dial
  <2>. QED
    BY <1>0, <1>5, <2>1, <2>2, FreshConnIsFree DEF Dial, Got, Unlock, TypeOK
<1>6. CASE DialFails(c)
  <2>1. pc' \in [Client -> Place]
    BY <1>6, GotoType DEF DialFails, AfterFailure, Place
  <2>2. state' \in [Conn -> {"unused", "live", "cut", "closed"}]
    BY <1>0, <1>6 DEF DialFails
  <2>3. /\ using' \in [Client -> Conn \cup {None}]
        /\ errors' \in [Stream -> 0..maxMetricRetries]
        /\ misses' \in [Stream -> 0..maxMetricRetries + 1]
    BY <1>0, <1>6 DEF DialFails, TypeOK
  <2>. QED
    BY <1>6, <2>1, <2>2, <2>3 DEF DialFails, Unlock, TypeOK
<1>7. CASE Sample(c)
  BY <1>0, <1>7 DEF Sample, TypeOK
<1>8. CASE SampleFails(c)
  <2>1. c \in Stream /\ errors[c] \in 0..maxMetricRetries /\ misses[c] \in 0..maxMetricRetries + 1
    BY <1>8 DEF SampleFails, TypeOK
  <2>2. errors[c] + 1 \in 0..maxMetricRetries
    BY <1>8, <2>1, PoolAssumption DEF SampleFails, StreamsCount
  <2>3. misses[c] > maxMetricRetries \/ misses[c] + 1 \in 0..maxMetricRetries + 1
    BY <2>1, PoolAssumption
  <2>4. pc' \in [Client -> Place]
    BY <1>8, GotoType DEF SampleFails, Place
  <2>5. errors' \in [Stream -> 0..maxMetricRetries] /\ misses' \in [Stream -> 0..maxMetricRetries + 1]
    BY <1>8, <2>1, <2>2, <2>3 DEF SampleFails, TypeOK
  <2>6. trouble' \in 0..MaxTrouble
    BY <1>8, PoolAssumption DEF SampleFails, TypeOK
  <2>. QED
    BY <1>8, <2>4, <2>5, <2>6 DEF SampleFails, TypeOK
<1>9. CASE Invalidate(c)
  <2>1. pc' \in [Client -> Place]
    BY <1>9, GotoType DEF Invalidate, Place
  <2>. QED
    BY <1>9, <2>1 DEF Invalidate, TypeOK
<1>10. CASE CloseEntry(c)
  <2>1. pc' \in [Client -> Place]
    BY <1>10, GotoType DEF CloseEntry, Place
  <2>2. state' \in [Conn -> {"unused", "live", "cut", "closed"}]
    BY <1>0, <1>10 DEF CloseEntry
  <2>. QED
    BY <1>10, <2>1, <2>2 DEF CloseEntry, TypeOK
<1>11. CASE Poll(c)
  BY <1>11, GotoType DEF Poll, TypeOK, Place
<1>12. CASE Leave(c)
  BY <1>0, <1>12, GotoType DEF Leave, TypeOK, Place
<1>. QED
  BY <1>1, <1>2, <1>3, <1>4, <1>5, <1>6, <1>7, <1>8, <1>9, <1>10, <1>11, <1>12 DEF Work

\* So do the network's, which touch neither the clients nor the entries.
LEMMA NetworkSteps ==
  ASSUME PoolInv, (\E k \in Conn : Cut(k)) \/ Outage \/ Recover
  PROVE  /\ TypeOK'
         /\ UNCHANGED <<slot, holder, conn, pc, entry, using, errors, misses>>
         /\ \A k \in Conn : state'[k] = "closed" <=> state[k] = "closed"
<1> USE DEF PoolInv
<1>1. CASE \E k \in Conn : Cut(k)
  <2>1. PICK k \in Conn : Cut(k)
    BY <1>1
  <2>2. trouble' \in 0..MaxTrouble
    BY <2>1, PoolAssumption DEF Cut, TypeOK
  <2>. QED
    BY <2>1, <2>2 DEF Cut, TypeOK
<1>2. CASE Outage
  <2>1. trouble' \in 0..MaxTrouble
    BY <1>2, PoolAssumption DEF Outage, TypeOK
  <2>2. /\ state' \in [Conn -> {"unused", "live", "cut", "closed"}]
        /\ \A k \in Conn : state'[k] = "closed" <=> state[k] = "closed"
    BY <1>2 DEF Outage, TypeOK
  <2>. QED
    BY <1>2, <2>1, <2>2 DEF Outage, TypeOK
<1>3. CASE Recover
  BY <1>3 DEF Recover, TypeOK
<1>. QED
  BY <1>1, <1>2, <1>3

\* The mutex a Get holds is its own: no step of another client gives it away.
LEMMA ClientHolds ==
  ASSUME PoolInv, NEW c \in Client, Open(c) \/ Work(c) \/ Leave(c)
  PROVE  GetHolds'
<1> USE DEF PoolInv
<1>1. SUFFICES ASSUME NEW d \in Client, pc'[d] = "get"
              PROVE  entry'[d] \in Entry /\ holder'[entry'[d]] = d
  BY DEF GetHolds
<1>2. pc' \in [Client -> Place] /\ pc \in [Client -> Place] /\ entry \in [Client -> Entry \cup {None}]
  BY ClientTypes DEF TypeOK
<1>3. CASE LockEntry(c)
  <2>1. entry[c] \in Entry /\ entry' = entry /\ holder' = [holder EXCEPT ![entry[c]] = c]
    BY <1>2, <1>3 DEF LockEntry
  <2>2. CASE d = c
    BY <2>1, <2>2 DEF TypeOK
  <2>3. CASE d # c
    <3>1. pc[d] = "get"
      BY <1>1, <1>3, <2>3, GotoType DEF LockEntry, Place
    <3>2. entry[d] \in Entry /\ holder[entry[d]] = d
      BY <3>1 DEF GetHolds
    <3>3. entry[d] # entry[c]
      BY <1>3, <3>2, PoolAssumption DEF LockEntry
    <3>. QED
      BY <2>1, <3>2, <3>3 DEF TypeOK
  <2>. QED
    BY <2>2, <2>3
<1>4. CASE Lookup(c)
  <2>1. pc' = pc /\ holder' = holder /\ d # c /\ entry'[d] = entry[d]
    BY <1>1, <1>2, <1>4 DEF Lookup
  <2>. QED
    BY <1>1, <2>1 DEF GetHolds
<1>5. CASE Reuse(c) \/ Dial(c) \/ DialFails(c)
  <2>1. /\ pc[c] = "get" /\ Unlock(c)
        /\ Goto(c, "use") \/ Goto(c, AfterFailure(c))
    BY <1>5 DEF Reuse, Dial, DialFails, Got
  <2>2. AfterFailure(c) \in Place /\ AfterFailure(c) # "get"
    BY DEF AfterFailure, Place
  <2>3. d # c /\ pc[d] = "get"
    BY <1>1, <2>1, <2>2, GotoType DEF Place
  <2>4. entry[d] \in Entry /\ holder[entry[d]] = d /\ entry[c] \in Entry /\ holder[entry[c]] = c
    BY <2>1, <2>3 DEF GetHolds
  <2>5. entry'[d] = entry[d] /\ holder'[entry[d]] = holder[entry[d]]
    BY <2>1, <2>3, <2>4 DEF Unlock, TypeOK
  <2>. QED
    BY <2>4, <2>5
<1>6. CASE Sample(c)
  BY <1>1, <1>6 DEF Sample, GetHolds
<1>7. CASE Open(c) \/ SampleFails(c) \/ Invalidate(c) \/ CloseEntry(c) \/ Poll(c) \/ Leave(c)
  <2>1. \E place \in Place \ {"get"} : Goto(c, place)
    BY <1>7 DEF Open, SampleFails, Invalidate, CloseEntry, Poll, Leave, Place
  <2>2. d # c /\ pc[d] = "get"
    BY <1>1, <2>1, GotoType
  <2>3. holder' = holder /\ entry'[d] = entry[d]
    BY <1>2, <1>7, <2>2 DEF Open, SampleFails, Invalidate, CloseEntry, Poll, Leave
  <2>. QED
    BY <2>2, <2>3 DEF GetHolds
<1>. QED
  BY <1>3, <1>4, <1>5, <1>6, <1>7 DEF Work

\* No step stores in one entry the connection of another.
LEMMA ClientConns ==
  ASSUME PoolInv, NEW c \in Client, Open(c) \/ Work(c) \/ Leave(c)
  PROVE  OwnConns'
<1> USE DEF PoolInv
<1>1. conn \in [Entry -> Conn \cup {None}] /\ entry \in [Client -> Entry \cup {None}] /\ None \notin Entry
  BY PoolAssumption DEF TypeOK
<1>2. CASE Open(c) \/ LockEntry(c) \/ Sample(c) \/ SampleFails(c) \/ Poll(c) \/ Leave(c)
  <2>1. UNCHANGED <<slot, conn, entry>>
    BY <1>2 DEF Open, LockEntry, Sample, SampleFails, Poll, Leave
  <2>. QED
    BY <2>1 DEF OwnConns, InUse
<1>3. CASE Lookup(c)
  <2>1. CASE slot # None
    <3>1. UNCHANGED <<slot, conn>> /\ entry' = [entry EXCEPT ![c] = slot]
      BY <1>3, <2>1 DEF Lookup
    <3>2. \A f \in Entry : InUse(f)' => InUse(f)
      BY <1>1, <3>1 DEF InUse
    <3>. QED
      BY <3>1, <3>2 DEF OwnConns
  <2>2. CASE slot = None
    <3> DEFINE e == FreshEntry
    <3>1. e \in Entry
      BY <2>2, FreshEntryIsFree
    <3>2. /\ slot' = e /\ entry' = [entry EXCEPT ![c] = e]
          /\ conn' = [conn EXCEPT ![e] = None]
      BY <1>3, <2>2 DEF Lookup
    <3> HIDE DEF e
    <3>3. \A f \in Entry : InUse(f)' => InUse(f) \/ f = e
      BY <1>1, <3>2 DEF InUse
    <3>4. conn'[e] = None /\ \A f \in Entry : f # e => conn'[f] = conn[f]
      BY <1>1, <3>1, <3>2
    <3>. QED
      BY <3>3, <3>4, OwnConnsKept
  <2>. QED
    BY <2>1, <2>2
<1>4. CASE Reuse(c)
  <2>1. UNCHANGED <<slot, conn>> /\ entry' = [entry EXCEPT ![c] = None]
    BY <1>4 DEF Reuse, Unlock
  <2>2. \A f \in Entry : InUse(f)' => InUse(f)
    BY <1>1, <2>1 DEF InUse
  <2>. QED
    BY <2>1, <2>2 DEF OwnConns
<1>5. CASE Dial(c)
  <2>1. UNCHANGED slot /\ entry' = [entry EXCEPT ![c] = None] /\ conn' = [conn EXCEPT ![entry[c]] = FreshConn]
    BY <1>5 DEF Dial, Unlock
  <2>2. \A f \in Entry : InUse(f)' => InUse(f)
    BY <1>1, <2>1 DEF InUse
  <2>3. /\ \A f \in Entry : f # entry[c] => conn'[f] = conn[f]
        /\ entry[c] \in Entry => conn'[entry[c]] = FreshConn
    BY <1>1, <2>1
  <2>. QED
    BY <2>2, <2>3, FreshConnIsFree, OwnConnsKept
<1>6. CASE DialFails(c) \/ CloseEntry(c)
  <2>1. UNCHANGED slot /\ entry' = [entry EXCEPT ![c] = None] /\ conn' = [conn EXCEPT ![entry[c]] = None]
    BY <1>6 DEF DialFails, CloseEntry, Unlock
  <2>2. \A f \in Entry : InUse(f)' => InUse(f)
    BY <1>1, <2>1 DEF InUse
  <2>3. /\ \A f \in Entry : f # entry[c] => conn'[f] = conn[f]
        /\ entry[c] \in Entry => conn'[entry[c]] = None
    BY <1>1, <2>1
  <2>. QED
    BY <2>2, <2>3, OwnConnsKept
<1>7. CASE Invalidate(c)
  <2>1. slot' = None /\ UNCHANGED conn /\ entry' = [entry EXCEPT ![c] = slot]
    BY <1>7 DEF Invalidate
  <2>2. \A f \in Entry : InUse(f)' => InUse(f)
    BY <1>1, <2>1 DEF InUse
  <2>. QED
    BY <2>1, <2>2 DEF OwnConns
<1>. QED
  BY <1>2, <1>3, <1>4, <1>5, <1>6, <1>7 DEF Work

\* A stream goes back to sampling only while it may still fail.
LEMMA ClientCounts ==
  ASSUME PoolInv, NEW c \in Client, Open(c) \/ Work(c) \/ Leave(c)
  PROVE  StreamsCount'
<1> USE DEF PoolInv
<1>1. SUFFICES ASSUME NEW s \in Stream, pc'[s] = "use"
              PROVE  errors'[s] < maxMetricRetries
  BY DEF StreamsCount
<1>2. /\ s \in Client /\ 0 < maxMetricRetries /\ maxMetricRetries \in Nat
      /\ errors[s] \in 0..maxMetricRetries
  BY PoolAssumption DEF Client, TypeOK
<1>3. pc[s] = "use" => errors[s] < maxMetricRetries
  BY DEF StreamsCount
<1>4. CASE Lookup(c)
  BY <1>1, <1>3, <1>4 DEF Lookup
<1>5. CASE Reuse(c) \/ Dial(c)
  <2>1. errors'[s] = IF s = c THEN 0 ELSE errors[s]
    BY <1>5 DEF Reuse, Dial, Got
  <2>2. Goto(c, "use")
    BY <1>5 DEF Reuse, Dial, Got
  <2>3. s # c => pc'[s] = pc[s]
    BY <1>2, <2>2, GotoType DEF Place
  <2>. QED
    BY <1>1, <1>2, <1>3, <2>1, <2>3
<1>6. CASE DialFails(c)
  <2>1. errors'[s] = IF s = c /\ AfterFailure(c) = "idle" THEN 0 ELSE errors[s]
    BY <1>6 DEF DialFails
  <2>2. Goto(c, AfterFailure(c)) /\ AfterFailure(c) \in Place
    BY <1>6 DEF DialFails, AfterFailure, Place
  <2>3. s # c => pc'[s] = pc[s]
    BY <1>2, <2>2, GotoType
  <2>4. s = c => AfterFailure(c) = "idle" \/ errors[s] < maxMetricRetries
    BY <1>2 DEF AfterFailure
  <2>. QED
    BY <1>1, <1>2, <1>3, <2>1, <2>3, <2>4
<1>7. CASE Sample(c)
  <2>1. errors' = [errors EXCEPT ![c] = 0] /\ pc' = pc
    BY <1>7 DEF Sample
  <2>. QED
    BY <1>1, <1>2, <1>3, <2>1 DEF TypeOK
<1>8. CASE SampleFails(c)
  <2>1. errors' = [errors EXCEPT ![c] = @ + 1] /\ Goto(c, "invalidate")
    BY <1>8 DEF SampleFails
  <2>2. s # c /\ pc'[s] = pc[s]
    BY <1>1, <1>2, <2>1, GotoType DEF Place
  <2>3. errors'[s] = errors[s]
    BY <2>1, <2>2 DEF TypeOK
  <2>. QED
    BY <1>1, <1>3, <2>2, <2>3
<1>9. CASE Open(c) \/ LockEntry(c) \/ Invalidate(c) \/ CloseEntry(c) \/ Poll(c) \/ Leave(c)
  <2>1. \E place \in Place \ {"use"} : Goto(c, place)
    BY <1>9 DEF Open, LockEntry, Invalidate, CloseEntry, Poll, Leave, Place
  <2>2. s # c /\ pc'[s] = pc[s]
    BY <1>1, <1>2, <2>1, GotoType
  <2>3. errors'[s] = errors[s]
    BY <1>9, <2>2 DEF Open, LockEntry, Invalidate, CloseEntry, Poll, Leave
  <2>. QED
    BY <1>1, <1>3, <2>2, <2>3
<1>. QED
  BY <1>4, <1>5, <1>6, <1>7, <1>8, <1>9 DEF Work

\* Invalidate goes on to close only when it found an entry.
LEMMA ClientCloses ==
  ASSUME PoolInv, NEW c \in Client, Open(c) \/ Work(c) \/ Leave(c)
  PROVE  CloseHas'
<1> USE DEF PoolInv
<1>1. SUFFICES ASSUME NEW d \in Client, pc'[d] = "close"
              PROVE  entry'[d] \in Entry
  BY DEF CloseHas
<1>2. CASE Invalidate(c)
  <2>1. Goto(c, IF slot = None THEN "lookup" ELSE "close") /\ entry' = [entry EXCEPT ![c] = slot]
    BY <1>2 DEF Invalidate
  <2>2. (IF slot = None THEN "lookup" ELSE "close") \in Place
    BY DEF Place
  <2>3. CASE d = c
    BY <1>1, <2>1, <2>2, <2>3, GotoType DEF TypeOK
  <2>4. CASE d # c
    BY <1>1, <2>1, <2>2, <2>4, GotoType DEF CloseHas, TypeOK
  <2>. QED
    BY <2>3, <2>4
<1>3. CASE UNCHANGED <<pc, entry>>
  BY <1>1, <1>3 DEF CloseHas
<1>4. CASE Lookup(c)
  BY <1>1, <1>4 DEF Lookup, CloseHas, TypeOK
<1>5. CASE (\E place \in Place \ {"close"} : Goto(c, place)) /\ (UNCHANGED entry \/ entry' = [entry EXCEPT ![c] = None])
  <2>1. d # c /\ pc[d] = "close"
    BY <1>1, <1>5, GotoType
  <2>. QED
    BY <1>5, <2>1 DEF CloseHas, TypeOK
<1>6. CASE DialFails(c)
  BY <1>5, <1>6 DEF DialFails, Unlock, AfterFailure, Place
<1>7. CASE Open(c) \/ LockEntry(c) \/ Reuse(c) \/ Dial(c) \/ SampleFails(c) \/ CloseEntry(c) \/ Poll(c) \/ Leave(c)
  <2>1. \E place \in Place \ {"close"} : Goto(c, place)
    BY <1>7 DEF Open, LockEntry, Reuse, Dial, Got, SampleFails, CloseEntry, Poll, Leave, Place
  <2>2. UNCHANGED entry \/ entry' = [entry EXCEPT ![c] = None]
    BY <1>7 DEF Open, LockEntry, Reuse, Dial, Unlock, SampleFails, CloseEntry, Poll, Leave
  <2>. QED
    BY <1>5, <2>1, <2>2
<1>8. CASE Sample(c)
  BY <1>3, <1>8 DEF Sample
<1>. QED
  BY <1>2, <1>4, <1>6, <1>7, <1>8 DEF Work

\* Every step keeps the invariant.
LEMMA InvStep == PoolInv /\ [Next]_vars => PoolInv'
<1> SUFFICES ASSUME PoolInv, [Next]_vars PROVE PoolInv'
  OBVIOUS
<1>1. CASE \E c \in Client : Open(c) \/ Work(c) \/ Leave(c)
  BY <1>1, ClientTypes, ClientHolds, ClientConns, ClientCounts, ClientCloses DEF PoolInv
<1>2. CASE (\E k \in Conn : Cut(k)) \/ Outage \/ Recover
  <2>1. TypeOK' /\ UNCHANGED <<slot, holder, conn, pc, entry, using, errors, misses>>
    BY <1>2, NetworkSteps
  <2>. QED
    BY <2>1 DEF PoolInv, GetHolds, OwnConns, InUse, StreamsCount, CloseHas
<1>3. CASE UNCHANGED vars
  BY <1>3 DEF vars, PoolInv, TypeOK, GetHolds, OwnConns, InUse, StreamsCount, CloseHas
<1>. QED
  BY <1>1, <1>2, <1>3 DEF Next

LEMMA InvHolds == Spec => []PoolInv
  BY InvInit, InvStep, PTL DEF Spec

\* TypeOK, for any number of handlers: in particular a stream's failures in a row never
\* pass maxMetricRetries (metrics_handler.go).
THEOREM TypeCorrect == Spec => []TypeOK
<1>1. PoolInv => TypeOK
  BY DEF PoolInv
<1>. QED
  BY <1>1, InvHolds, PTL
-----------------------------------------------------------------------------
(* The entry a Get has locked *)

\* What a client's steps do to the entry another one has locked.
LEMMA OthersKeepOut ==
  ASSUME PoolInv, NEW c \in Client, Open(c) \/ Work(c) \/ Leave(c),
         NEW d \in Client, pc[d] = "get", pc'[d] = "get"
  PROVE  /\ conn'[entry[d]] = conn[entry[d]]
         /\ conn[entry[d]] # None =>
              (state'[conn[entry[d]]] = "closed" <=> state[conn[entry[d]]] = "closed")
<1> USE DEF PoolInv
<1> DEFINE e == entry[d]
<1>1. e \in Entry /\ holder[e] = d /\ InUse(e) /\ d # None
  BY PoolAssumption DEF GetHolds, InUse
<1>2. conn[e] # None => conn[e] \in Conn
  BY <1>1 DEF TypeOK
<1> HIDE DEF e
<1>3. CASE UNCHANGED <<conn, state>>
  BY <1>3
<1>4. CASE Lookup(c)
  <2>1. state' = state
    BY <1>4 DEF Lookup
  <2>2. slot = None => FreshEntry \in Entry /\ FreshEntry # e
    BY <1>1, FreshEntryIsFree
  <2>3. conn'[e] = conn[e]
    BY <1>1, <1>4, <2>2 DEF Lookup, TypeOK
  <2>. QED
    BY <2>1, <2>3 DEF e
<1>5. CASE Dial(c) \/ DialFails(c) \/ CloseEntry(c)
  <2>1. entry[c] # e
    <3>1. CASE CloseEntry(c)
      BY <1>1, <3>1 DEF CloseEntry
    <3>2. CASE Dial(c) \/ DialFails(c)
      <4>1. pc[c] = "get" /\ (Goto(c, "use") \/ Goto(c, AfterFailure(c)))
        BY <3>2 DEF Dial, DialFails, Got
      <4>2. AfterFailure(c) \in Place /\ AfterFailure(c) # "get"
        BY DEF AfterFailure, Place
      <4>3. d # c
        BY <4>1, <4>2, GotoType DEF Place
      <4>4. holder[entry[c]] = c
        BY <4>1 DEF GetHolds
      <4>. QED
        BY <1>1, <4>3, <4>4
    <3>. QED
      BY <1>5, <3>1, <3>2
  <2>2. conn'[e] = conn[e]
    BY <1>1, <1>5, <2>1 DEF Dial, DialFails, CloseEntry, TypeOK
  <2>3. conn[e] # None => conn[e] # conn[entry[c]]
    <3>1. InUse(entry[c])
      BY DEF InUse
    <3>2. entry[c] \in Entry
      BY <1>5 DEF Dial, DialFails, CloseEntry, GetHolds, CloseHas
    <3>. QED
      BY <1>1, <2>1, <3>1, <3>2 DEF OwnConns
  <2>4. conn[e] # None => state'[conn[e]] = state[conn[e]]
    <3>1. state' = CloseOld(entry[c]) \/ state' = [CloseOld(entry[c]) EXCEPT ![FreshConn] = "live"]
      BY <1>5 DEF Dial, DialFails, CloseEntry
    <3>2. conn[e] # FreshConn
      BY <1>1, FreshConnIsFree
    <3>. QED
      BY <1>2, <2>3, <3>1, <3>2 DEF CloseOld
  <2>. QED
    BY <2>2, <2>4 DEF e
<1>6. CASE Open(c) \/ LockEntry(c) \/ Reuse(c) \/ Sample(c) \/ SampleFails(c) \/ Invalidate(c) \/ Poll(c) \/ Leave(c)
  <2>1. UNCHANGED <<conn, state>>
    BY <1>6 DEF Open, LockEntry, Reuse, Sample, SampleFails, Invalidate, Poll, Leave
  <2>. QED
    BY <1>3, <2>1
<1>. QED
  BY <1>4, <1>5, <1>6 DEF Work

\* LockedEntryIsMine, for any number of handlers: between the locking of an entry in Get
\* and its return, neither another Get nor an Invalidate changes or closes what the
\* entry stores (pool.go).
THEOREM LockedEntryMine == Spec => LockedEntryIsMine
<1>1. PoolInv /\ [Next]_vars =>
        [\A c \in Client : pc[c] = "get" /\ pc'[c] = "get" =>
           LET k == conn[entry[c]] IN
           /\ conn'[entry[c]] = k
           /\ k # None => (state'[k] = "closed" <=> state[k] = "closed")]_vars
  <2> SUFFICES ASSUME PoolInv, Next, NEW d \in Client, pc[d] = "get", pc'[d] = "get"
               PROVE  /\ conn'[entry[d]] = conn[entry[d]]
                      /\ conn[entry[d]] # None =>
                           (state'[conn[entry[d]]] = "closed" <=> state[conn[entry[d]]] = "closed")
    OBVIOUS
  <2>1. CASE \E c \in Client : Open(c) \/ Work(c) \/ Leave(c)
    BY <2>1, OthersKeepOut
  <2>2. CASE (\E k \in Conn : Cut(k)) \/ Outage \/ Recover
    <3>1. entry[d] \in Entry
      BY DEF PoolInv, GetHolds
    <3>2. conn[entry[d]] # None => conn[entry[d]] \in Conn
      BY <3>1 DEF PoolInv, TypeOK
    <3>. QED
      BY <2>2, <3>2, NetworkSteps
  <2>. QED
    BY <2>1, <2>2 DEF Next
<1>. QED
  BY <1>1, InvHolds, PTL DEF Spec, LockedEntryIsMine
=============================================================================
