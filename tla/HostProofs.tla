----------------------------- MODULE HostProofs -----------------------------
(***************************************************************************)
(* Proofs about modules FileCaches and Host for any handlers, files,       *)
(* addresses, services, exports and capacities. First the cache: what the  *)
(* steps of host::serve in it (src/src/filecaches.hpp,                     *)
(* src/src/Gateway.cpp:139-181) keep, and that they are steps of the       *)
(* least-recently-used list of module LruCache. Then the host: the tables  *)
(* that handlers fill without a mutex lack something only while a handler  *)
(* is filling them, and the cache keeps its promises when its handlers     *)
(* also take the other branches of host::serve.                            *)
(***************************************************************************)
EXTENDS Host, FiniteSetTheorems, SequenceTheorems, TLAPS

-----------------------------------------------------------------------------
(* Sequences: what splice, push_front and pop_back make of a list           *)

\* The element at i comes first; the ones before it move back by one.
LEMMA MovedToFront ==
    ASSUME NEW S, NEW s \in Seq(S), NEW i \in DOMAIN s
    PROVE  LET t == Cons(s[i], RemoveAt(s, i))
           IN  /\ t \in Seq(S) /\ Len(t) = Len(s)
               /\ \A j \in 1..Len(s) :
                     t[j] = IF j = 1 THEN s[i] ELSE IF j <= i THEN s[j-1] ELSE s[j]
<1>. DEFINE a == SubSeq(s, 1, i-1)
            b == SubSeq(s, i+1, Len(s))
            r == a \o b
            t == <<s[i]>> \o r
<1>0. Len(s) \in Nat /\ i \in 1..Len(s) /\ \A j \in 1..Len(s) : s[j] \in S
  BY LenProperties, ElementOfSeq
<1>1. a \in Seq(S) /\ Len(a) = i-1 /\ \A j \in 1..(i-1) : a[j] = s[j]
  BY <1>0, SubSeqProperties
<1>2. /\ b \in Seq(S) /\ Len(b) = Len(s) - i
      /\ \A j \in 1..(Len(s) - i) : b[j] = s[i+j]
  BY <1>0, SubSeqProperties
<1>3. /\ r \in Seq(S) /\ Len(r) = Len(s) - 1
      /\ \A j \in 1..(Len(s) - 1) : r[j] = IF j <= i-1 THEN s[j] ELSE s[j+1]
  <2>. HIDE DEF a, b
  <2>1. /\ r \in Seq(S) /\ Len(r) = Len(a) + Len(b)
        /\ \A j \in 1..(Len(a) + Len(b)) : r[j] = IF j <= Len(a) THEN a[j] ELSE b[j - Len(a)]
    BY <1>1, <1>2, ConcatProperties
  <2>. HIDE DEF r
  <2>2. Len(r) = Len(s) - 1
    BY <1>0, <1>1, <1>2, <2>1
  <2>3. ASSUME NEW j \in 1..(Len(s) - 1)
        PROVE  r[j] = IF j <= i-1 THEN s[j] ELSE s[j+1]
    <3>0. j \in 1..(Len(a) + Len(b))
      BY <1>0, <1>1, <1>2
    <3>1. r[j] = IF j <= i-1 THEN a[j] ELSE b[j - (i-1)]
      BY <1>1, <2>1, <3>0
    <3>2. CASE j <= i-1
      <4>1. j \in 1..(i-1)
        BY <1>0, <3>2
      <4>. QED  BY <1>1, <3>1, <3>2, <4>1
    <3>3. CASE ~(j <= i-1)
      <4>1. j - (i-1) \in 1..(Len(s) - i) /\ i + (j - (i-1)) = j+1
        BY <1>0, <3>3
      <4>. QED  BY <1>2, <3>1, <3>3, <4>1
    <3>. QED  BY <3>2, <3>3
  <2>. QED  BY <2>1, <2>2, <2>3
<1>4. /\ t \in Seq(S) /\ Len(t) = Len(s)
      /\ \A j \in 1..Len(s) : t[j] = IF j = 1 THEN s[i] ELSE r[j-1]
  <2>. HIDE DEF r
  <2>1. <<s[i]>> \in Seq(S) /\ Len(<<s[i]>>) = 1 /\ <<s[i]>>[1] = s[i]
    BY <1>0
  <2>2. /\ t \in Seq(S) /\ Len(t) = 1 + Len(r)
        /\ \A j \in 1..(1 + Len(r)) : t[j] = IF j <= 1 THEN <<s[i]>>[j] ELSE r[j - 1]
    BY <1>3, <2>1, ConcatProperties
  <2>. QED  BY <1>0, <1>3, <2>1, <2>2
<1>5. t = Cons(s[i], RemoveAt(s, i))
  BY DEF Cons, RemoveAt
<1>. HIDE DEF t, r, a, b
<1>6. \A j \in 1..Len(s) : t[j] = IF j = 1 THEN s[i] ELSE IF j <= i THEN s[j-1] ELSE s[j]
  <2>. TAKE j \in 1..Len(s)
  <2>1. CASE j = 1
    BY <1>4, <2>1
  <2>2. CASE j # 1
    BY <1>0, <1>3, <1>4, <2>2
  <2>. QED  BY <2>1, <2>2
<1>. QED  BY <1>4, <1>5, <1>6

\* The same elements, each once if it was there once.
LEMMA MovedKeeps ==
    ASSUME NEW S, NEW s \in Seq(S), NEW i \in DOMAIN s
    PROVE  LET t == Cons(s[i], RemoveAt(s, i))
           IN  /\ t \in Seq(S) /\ Len(t) = Len(s) /\ Head(t) = s[i]
               /\ ToSet(t) = ToSet(s)
               /\ IsInjective(s) => IsInjective(t)
<1>. DEFINE t == Cons(s[i], RemoveAt(s, i))
<1>1. /\ t \in Seq(S) /\ Len(t) = Len(s)
      /\ \A j \in 1..Len(s) :
            t[j] = IF j = 1 THEN s[i] ELSE IF j <= i THEN s[j-1] ELSE s[j]
  BY MovedToFront
<1>. HIDE DEF t
<1>2. /\ Len(s) \in Nat /\ DOMAIN s = 1..Len(s) /\ DOMAIN t = 1..Len(s)
      /\ i \in 1..Len(s)
  BY <1>1, LenProperties
<1>3. Head(t) = s[i]
  BY <1>1, <1>2
<1>4. ToSet(t) \subseteq ToSet(s)
  BY <1>1, <1>2 DEF ToSet
<1>5. ToSet(s) \subseteq ToSet(t)
  <2>. SUFFICES ASSUME NEW j \in 1..Len(s) PROVE \E k \in 1..Len(s) : t[k] = s[j]
    BY <1>2 DEF ToSet
  <2>1. CASE j = i
    BY <1>1, <1>2, <2>1
  <2>2. CASE j < i
    <3>1. j+1 \in 1..Len(s) /\ j+1 <= i /\ j+1 # 1 /\ (j+1)-1 = j
      BY <1>2, <2>2
    <3>. QED  BY <1>1, <3>1
  <2>3. CASE j > i
    BY <1>1, <1>2, <2>3
  <2>. QED  BY <1>2, <2>1, <2>2, <2>3
<1>6. IsInjective(s) => IsInjective(t)
  <2>. SUFFICES ASSUME IsInjective(s), NEW j \in 1..Len(s), NEW k \in 1..Len(s), t[j] = t[k]
                PROVE  j = k
    BY <1>2 DEF IsInjective
  <2>. DEFINE p(x) == IF x = 1 THEN i ELSE IF x <= i THEN x-1 ELSE x
  <2>1. p(j) \in 1..Len(s) /\ p(k) \in 1..Len(s) /\ t[j] = s[p(j)] /\ t[k] = s[p(k)]
    BY <1>1, <1>2
  <2>2. p(j) = p(k)
    BY <1>2, <2>1 DEF IsInjective
  <2>. QED  BY <1>2, <2>2
<1>. QED  BY <1>1, <1>3, <1>4, <1>5, <1>6 DEF t

\* An element is put in front of the others.
LEMMA Pushed ==
    ASSUME NEW S, NEW s \in Seq(S), NEW e \in S
    PROVE  LET t == Cons(e, s)
           IN  /\ t \in Seq(S) /\ Len(t) = Len(s) + 1
               /\ \A j \in 1..Len(t) : t[j] = IF j = 1 THEN e ELSE s[j-1]
               /\ ToSet(t) = {e} \cup ToSet(s)
               /\ IsInjective(s) /\ e \notin ToSet(s) => IsInjective(t)
<1>. DEFINE t == <<e>> \o s
<1>0. Len(s) \in Nat /\ DOMAIN s = 1..Len(s)
  BY LenProperties
<1>1. <<e>> \in Seq(S) /\ Len(<<e>>) = 1 /\ <<e>>[1] = e
  OBVIOUS
<1>2. /\ t \in Seq(S) /\ Len(t) = 1 + Len(s)
      /\ \A j \in 1..(1 + Len(s)) : t[j] = IF j <= 1 THEN <<e>>[j] ELSE s[j-1]
  BY <1>1, ConcatProperties
<1>. HIDE DEF t
<1>3. /\ Len(t) = Len(s) + 1 /\ DOMAIN t = 1..(Len(s) + 1)
      /\ \A j \in 1..(Len(s) + 1) : t[j] = IF j = 1 THEN e ELSE s[j-1]
  <2>1. DOMAIN t = 1..Len(t)
    BY <1>2, LenProperties
  <2>. QED  BY <1>0, <1>1, <1>2, <2>1
<1>4. ToSet(t) = {e} \cup ToSet(s)
  <2>1. ASSUME NEW x \in ToSet(t) PROVE x \in {e} \cup ToSet(s)
    BY <1>0, <1>3 DEF ToSet
  <2>2. ASSUME NEW j \in 1..Len(s) PROVE s[j] \in ToSet(t)
    <3>1. j+1 \in 1..(Len(s) + 1) /\ j+1 # 1 /\ (j+1)-1 = j
      BY <1>0
    <3>2. t[j+1] = s[j]
      BY <1>3, <3>1
    <3>. QED  BY <1>3, <3>1, <3>2 DEF ToSet
  <2>3. e \in ToSet(t)
    BY <1>0, <1>3 DEF ToSet
  <2>. QED  BY <1>0, <2>1, <2>2, <2>3 DEF ToSet
<1>5. IsInjective(s) /\ e \notin ToSet(s) => IsInjective(t)
  <2>. SUFFICES ASSUME IsInjective(s), e \notin ToSet(s),
                       NEW j \in 1..(Len(s) + 1), NEW k \in 1..(Len(s) + 1), t[j] = t[k]
                PROVE  j = k
    BY <1>3 DEF IsInjective
  <2>1. \A x \in 1..(Len(s) + 1) : x # 1 => x-1 \in DOMAIN s /\ t[x] = s[x-1] /\ t[x] # e
    BY <1>0, <1>3 DEF ToSet
  <2>2. t[1] = e
    BY <1>0, <1>3
  <2>3. CASE j = 1 \/ k = 1
    BY <2>1, <2>2, <2>3
  <2>4. CASE j # 1 /\ k # 1
    <3>1. j-1 = k-1
      BY <2>1, <2>4 DEF IsInjective
    <3>. QED  BY <1>0, <3>1
  <2>. QED  BY <2>3, <2>4
<1>6. t = Cons(e, s)
  BY DEF t, Cons
<1>. QED  BY <1>2, <1>3, <1>4, <1>5, <1>6

\* The last element is taken off.
LEMMA Popped ==
    ASSUME NEW S, NEW s \in Seq(S), Len(s) # 0
    PROVE  /\ Front(s) \in Seq(S) /\ Len(Front(s)) = Len(s) - 1
           /\ \A j \in 1..(Len(s) - 1) : Front(s)[j] = s[j]
           /\ ToSet(Front(s)) \subseteq ToSet(s)
           /\ IsInjective(s) => IsInjective(Front(s))
<1>0. Len(s) \in Nat \ {0} /\ DOMAIN s = 1..Len(s) /\ \A j \in 1..Len(s) : s[j] \in S
  BY LenProperties, ElementOfSeq
<1>1. /\ Front(s) \in Seq(S) /\ Len(Front(s)) = Len(s) - 1
      /\ \A j \in 1..(Len(s) - 1) : Front(s)[j] = s[j]
  BY <1>0, SubSeqProperties DEF Front
<1>2. DOMAIN Front(s) = 1..(Len(s) - 1)
  BY <1>1, LenProperties
<1>. QED  BY <1>0, <1>1, <1>2 DEF ToSet, IsInjective

-----------------------------------------------------------------------------
(* What holds of the cache in every state                                   *)

Maps == UNION {[S -> Nodes] : S \in SUBSET Files}

\* FCTypeOK without raced, which the other branches of the host set as well
CacheTyped ==
    /\ capacity \in Capacities
    /\ cachemap \in Maps
    /\ cachelist \in Seq(Nodes)
    /\ fptr \in [Nodes -> Files \cup {NoFile}]
    /\ pc \in [Handlers -> {"idle", "ready", "get", "hit", "get2", "miss", "set", "write"}]
    /\ path \in [Handlers -> Files \cup {NoFile}]
    /\ filenode \in [Handlers -> Files \cup {NoFile}]
    /\ \A h \in Handlers : pc[h] = "write" => filenode[h] \in Files
    /\ ub \in BOOLEAN

\* A request names a file.
PathNamed == \A h \in Handlers : pc[h] # "idle" => path[h] \in Files

\* Entries may go stale, but every node of the list has the entry of its file.
ListInv ==
    /\ Len(cachelist) <= capacity
    /\ IsInjective(cachelist)
    /\ \A n \in ToSet(cachelist) : fptr[n] \in DOMAIN cachemap /\ cachemap[fptr[n]] = n

\* Nothing is ever evicted.
AllFit == IsFiniteSet(Files) /\ Fits

\* No entry is stale while nothing is evicted.
FitInv ==
    AllFit =>
        /\ \A f \in DOMAIN cachemap :
              cachemap[f] \in ToSet(cachelist) /\ fptr[cachemap[f]] = f
        /\ ServedIsRequested

CacheInv == CacheTyped /\ PathNamed /\ ListInv /\ FitInv

-----------------------------------------------------------------------------
LEMMA MapType ==
    ASSUME NEW m
    PROVE  m \in Maps <=> DOMAIN m \subseteq Files /\ m \in [DOMAIN m -> Nodes]
BY DEF Maps

\* cachemap_[f] = n leaves the map as it is where f leads to n already.
LEMMA MapSame ==
    ASSUME NEW f \in DOMAIN cachemap, cachemap \in Maps
    PROVE  MapWith(cachemap, f, cachemap[f]) = cachemap
BY MapType DEF MapWith

LEMMA MapAdds ==
    ASSUME NEW f \in Files, NEW n \in Nodes, cachemap \in Maps
    PROVE  /\ MapWith(cachemap, f, n) \in Maps
           /\ DOMAIN MapWith(cachemap, f, n) = DOMAIN cachemap \cup {f}
           /\ MapWith(cachemap, f, n)[f] = n
           /\ \A g \in DOMAIN cachemap : g # f => MapWith(cachemap, f, n)[g] = cachemap[g]
<1>1. DOMAIN MapWith(cachemap, f, n) = DOMAIN cachemap \cup {f}
  BY DEF MapWith
<1>2. /\ MapWith(cachemap, f, n)[f] = n
      /\ \A g \in DOMAIN cachemap : g # f => MapWith(cachemap, f, n)[g] = cachemap[g]
  BY DEF MapWith
<1>3. MapWith(cachemap, f, n) \in [DOMAIN cachemap \cup {f} -> Nodes]
  BY MapType DEF MapWith
<1>. QED  BY <1>1, <1>2, <1>3, MapType

\* The entry of the evicted node stays (filecaches.hpp:12-14, 33).
LEMMA NothingErased ==
    ASSUME NEW n, cachemap \in Maps
    PROVE  MapWithout(ErasedKey(n)) = cachemap
<1>1. NoFile \notin DOMAIN cachemap
  BY MapType, CacheAssumption
<1>. QED  BY <1>1, MapType DEF MapWithout, ErasedKey

LEMMA Spliced ==
    ASSUME cachelist \in Seq(Nodes), NEW n \in ToSet(cachelist)
    PROVE  /\ Splice(n) \in Seq(Nodes) /\ Len(Splice(n)) = Len(cachelist)
           /\ Head(Splice(n)) = n
           /\ ToSet(Splice(n)) = ToSet(cachelist)
           /\ IsInjective(cachelist) => IsInjective(Splice(n))
<1>. DEFINE i == CHOOSE i \in DOMAIN cachelist : cachelist[i] = n
<1>1. i \in DOMAIN cachelist /\ cachelist[i] = n
  BY DEF ToSet
<1>2. Splice(n) = Cons(cachelist[i], RemoveAt(cachelist, i))
  BY <1>1 DEF Splice
<1>. HIDE DEF i
<1>. QED  BY <1>1, <1>2, MovedKeeps

LEMMA ListedIsNode ==
    ASSUME cachelist \in Seq(Nodes)
    PROVE  ToSet(cachelist) \subseteq Nodes
BY LenProperties DEF ToSet

\* A file without an entry finds room, if all the files fit: the nodes of the
\* list are of different other files.
LEMMA NeverFull ==
    ASSUME AllFit, CacheTyped, ListInv,
           NEW f \in Files, f \notin DOMAIN cachemap
    PROVE  ~Full
<1>. DEFINE L == 1..Len(cachelist)
            g == [i \in L |-> fptr[cachelist[i]]]
<1>1. Len(cachelist) \in Nat /\ DOMAIN cachelist = L
  BY LenProperties DEF CacheTyped
<1>2. \A i \in L : cachelist[i] \in ToSet(cachelist)
  BY <1>1 DEF ToSet
<1>3. \A i \in L : g[i] \in Files \ {f}
  BY <1>2, MapType DEF ListInv, CacheTyped
<1>4. \A i, j \in L : g[i] = g[j] => i = j
  <2>1. \A i \in L : cachemap[g[i]] = cachelist[i]
    BY <1>2 DEF ListInv
  <2>. QED  BY <1>1, <2>1 DEF ListInv, IsInjective
<1>5. g \in Injection(L, Files \ {f})
  BY <1>3, <1>4 DEF Injection, IsInjective
<1>6. /\ IsFiniteSet(Files \ {f}) /\ Cardinality(Files) \in Nat
      /\ Cardinality(Files \ {f}) = Cardinality(Files) - 1
  BY FS_RemoveElement, FS_CardinalityType DEF AllFit
<1>7. Cardinality(L) <= Cardinality(Files \ {f})
  BY <1>5, <1>6, FS_Injection
<1>8. Cardinality(L) = Len(cachelist)
  <2>1. Len(cachelist) \in Int
    BY <1>1
  <2>2. Cardinality(L) = IF 1 > Len(cachelist) THEN 0 ELSE Len(cachelist) - 1 + 1
    BY <2>1, FS_Interval
  <2>. HIDE DEF L
  <2>. QED  BY <1>1, <2>2
<1>9. capacity \in Nat
  BY CacheAssumption DEF CacheTyped
<1>10. Len(cachelist) <= Cardinality(Files) - 1 /\ Cardinality(Files) <= capacity
  BY <1>6, <1>7, <1>8 DEF AllFit, Fits
<1>11. Len(cachelist) # capacity
  <2>1. Len(cachelist) \in Nat /\ Cardinality(Files) \in Nat
    BY <1>1, <1>6
  <2>2. \A a, b, c \in Nat : a <= b - 1 /\ b <= c => a # c
    OBVIOUS
  <2>. QED  BY <1>9, <1>10, <2>1, <2>2
<1>. QED  BY <1>11 DEF Full

-----------------------------------------------------------------------------
(* The steps of host::serve keep it                                         *)

\* The value of pc for every handler after a step of h to p
LEMMA PcAfter ==
    ASSUME CacheTyped, NEW h \in Handlers, NEW p, pc' = [pc EXCEPT ![h] = p]
    PROVE  /\ \A g \in Handlers : pc'[g] = IF g = h THEN p ELSE pc[g]
           /\ p \in {"idle", "ready", "get", "hit", "get2", "miss", "set", "write"} =>
                 pc' \in [Handlers -> {"idle", "ready", "get", "hit", "get2", "miss",
                                       "set", "write"}]
BY DEF CacheTyped

\* The steps that leave map, list and nodes alone
LEMMA QuietStep ==
    ASSUME CacheInv, NEW h \in Handlers, capacity' = capacity,
           \/ \E f \in Files : Serve(h, f)
           \/ Enter(h, "ready", "get") \/ Enter(h, "hit", "get2") \/ Enter(h, "miss", "set")
           \/ GetMiss(h) \/ Write(h)
    PROVE  CacheInv'
<1>. USE DEF CacheInv
<1>0. UNCHANGED <<cachemap, cachelist, fptr>>
  BY DEF Serve, Enter, GetMiss, Write
<1>1. CacheTyped' /\ PathNamed' /\ (ServedIsRequested => ServedIsRequested')
  <2>1. CASE \E f \in Files : Serve(h, f)
    BY <2>1 DEF Serve, CacheTyped, PathNamed, ServedIsRequested
  <2>2. CASE \/ Enter(h, "ready", "get") \/ Enter(h, "hit", "get2")
             \/ Enter(h, "miss", "set")
    <3>1. PICK p \in {"get", "get2", "set"} : pc' = [pc EXCEPT ![h] = p] /\ pc[h] # "idle"
      BY <2>2 DEF Enter
    <3>2. UNCHANGED <<cachemap, cachelist, fptr, path, filenode, ub>>
      BY <2>2 DEF Enter
    <3>. QED  BY <3>1, <3>2, PcAfter DEF CacheTyped, PathNamed, ServedIsRequested
  <2>3. CASE GetMiss(h)
    <3>1. \/ pc' = [pc EXCEPT ![h] = "miss"] /\ ub' = ub
          \/ pc' = pc /\ ub' = TRUE
      BY <2>3 DEF GetMiss
    <3>2. pc[h] # "idle" /\ UNCHANGED <<cachemap, cachelist, fptr, path, filenode>>
      BY <2>3 DEF GetMiss
    <3>3. CacheTyped'
      BY <3>1, <3>2, PcAfter DEF CacheTyped
    <3>4. PathNamed' /\ (ServedIsRequested => ServedIsRequested')
      BY <3>1, <3>2, PcAfter DEF CacheTyped, PathNamed, ServedIsRequested
    <3>. QED  BY <3>3, <3>4
  <2>4. CASE Write(h)
    BY <2>4 DEF Write, CacheTyped, PathNamed, ServedIsRequested
  <2>. QED  BY <2>1, <2>2, <2>3, <2>4
<1>2. ListInv' /\ FitInv'
  BY <1>0, <1>1 DEF ListInv, FitInv, AllFit, Fits
<1>. QED  BY <1>1, <1>2

\* A get that finds the entry leading to a node of the list: what it does
LEMMA HitDoes ==
    ASSUME CacheInv, NEW h \in Handlers, GetHit(h)
    PROVE  /\ path[h] \in DOMAIN cachemap /\ path[h] \in Files
           /\ cachemap' = cachemap /\ UNCHANGED <<fptr, path>>
           /\ \/ /\ cachemap[path[h]] \notin ToSet(cachelist)
                 /\ ub' = TRUE /\ UNCHANGED <<cachelist, pc, filenode>>
              \/ /\ cachemap[path[h]] \in ToSet(cachelist)
                 /\ cachelist' = Splice(cachemap[path[h]]) /\ ub' = ub
                 /\ \/ /\ pc[h] = "get" /\ pc' = [pc EXCEPT ![h] = "hit"]
                       /\ filenode' = filenode
                    \/ /\ pc[h] = "get2" /\ pc' = [pc EXCEPT ![h] = "write"]
                       /\ filenode' = [filenode EXCEPT ![h] = fptr[cachemap[path[h]]]]
<1>. DEFINE n == cachemap[path[h]]
<1>0. /\ path[h] \in DOMAIN cachemap /\ path[h] \in Files /\ pc[h] \in {"get", "get2"}
      /\ UNCHANGED <<fptr, path>>
  BY MapType DEF GetHit, CacheInv, CacheTyped
<1>1. CASE /\ n \notin ToSet(cachelist) /\ ub' = TRUE
           /\ UNCHANGED <<cachemap, cachelist, pc, filenode>>
  BY <1>0, <1>1
<1>2. CASE /\ n \in ToSet(cachelist) /\ cachelist' = Splice(n)
           /\ cachemap' = MapWith(cachemap, path[h], Head(cachelist'))
           /\ IF pc[h] = "get"
              THEN pc' = [pc EXCEPT ![h] = "hit"] /\ UNCHANGED filenode
              ELSE /\ pc' = [pc EXCEPT ![h] = "write"]
                   /\ filenode' = [filenode EXCEPT ![h] = fptr[Head(cachelist')]]
           /\ UNCHANGED ub
  <2>1. Head(cachelist') = n
    BY <1>2, Spliced DEF CacheInv, CacheTyped
  <2>2. cachemap' = cachemap
    BY <1>0, <1>2, <2>1, MapSame DEF CacheInv, CacheTyped
  <2>. QED  BY <1>0, <1>2, <2>1, <2>2
<1>. QED  BY <1>1, <1>2 DEF GetHit

LEMMA HitStep ==
    ASSUME CacheInv, NEW h \in Handlers, capacity' = capacity, GetHit(h)
    PROVE  CacheInv'
<1>. DEFINE n == cachemap[path[h]]
<1>. USE DEF CacheInv
<1>0. /\ path[h] \in DOMAIN cachemap /\ path[h] \in Files
      /\ cachemap' = cachemap /\ UNCHANGED <<fptr, path>>
  BY HitDoes
<1>1. CASE /\ n \notin ToSet(cachelist)
           /\ ub' = TRUE /\ UNCHANGED <<cachelist, pc, filenode>>
  BY <1>0, <1>1 DEF CacheTyped, PathNamed, ListInv, FitInv, AllFit, Fits, ServedIsRequested
<1>2. CASE /\ n \in ToSet(cachelist) /\ cachelist' = Splice(n) /\ ub' = ub
           /\ \/ /\ pc[h] = "get" /\ pc' = [pc EXCEPT ![h] = "hit"]
                 /\ filenode' = filenode
              \/ /\ pc[h] = "get2" /\ pc' = [pc EXCEPT ![h] = "write"]
                 /\ filenode' = [filenode EXCEPT ![h] = fptr[n]]
  <2>1. /\ cachelist' \in Seq(Nodes) /\ Len(cachelist') = Len(cachelist)
        /\ ToSet(cachelist') = ToSet(cachelist) /\ IsInjective(cachelist')
    BY <1>2, Spliced DEF CacheTyped, ListInv
  <2>2. fptr[n] \in Files
    BY <1>2, MapType DEF ListInv, CacheTyped
  <2>3. CacheTyped'
    <3>1. \A g \in Handlers : pc'[g] = "write" => filenode'[g] \in Files
      BY <1>2, <2>2, PcAfter DEF CacheTyped
    <3>2. /\ pc' \in [Handlers -> {"idle", "ready", "get", "hit", "get2", "miss", "set",
                                   "write"}]
          /\ filenode' \in [Handlers -> Files \cup {NoFile}]
      BY <1>2, <2>2, PcAfter DEF CacheTyped
    <3>. QED  BY <1>0, <1>2, <2>1, <3>1, <3>2 DEF CacheTyped
  <2>4. PathNamed'
    BY <1>0, <1>2, PcAfter DEF PathNamed
  <2>5. ListInv'
    BY <1>0, <2>1 DEF ListInv
  <2>6. FitInv'
    <3>. SUFFICES ASSUME AllFit
                  PROVE  /\ \A f \in DOMAIN cachemap :
                               cachemap[f] \in ToSet(cachelist') /\ fptr[cachemap[f]] = f
                         /\ ServedIsRequested'
      BY <1>0 DEF FitInv, AllFit, Fits
    <3>1. \A f \in DOMAIN cachemap :
             cachemap[f] \in ToSet(cachelist') /\ fptr[cachemap[f]] = f
      BY <2>1 DEF FitInv
    <3>2. fptr[n] = path[h] /\ ServedIsRequested
      BY <1>0 DEF FitInv
    <3>3. ServedIsRequested'
      BY <1>0, <1>2, <3>2, PcAfter DEF ServedIsRequested, CacheTyped
    <3>. QED  BY <3>1, <3>3
  <2>. QED  BY <2>3, <2>4, <2>5, <2>6
<1>. QED  BY <1>1, <1>2, HitDoes

\* A set that finds the entry, of a file loaded meanwhile: what it does
LEMMA AgainDoes ==
    ASSUME CacheInv, NEW h \in Handlers, SetAgain(h)
    PROVE  /\ path[h] \in DOMAIN cachemap /\ path[h] \in Files /\ pc[h] = "set"
           /\ cachemap' = cachemap /\ path' = path
           /\ \/ /\ cachemap[path[h]] \notin ToSet(cachelist)
                 /\ ub' = TRUE /\ UNCHANGED <<cachelist, fptr, pc, filenode>>
              \/ /\ cachemap[path[h]] \in ToSet(cachelist)
                 /\ cachelist' = Splice(cachemap[path[h]]) /\ ub' = ub
                 /\ fptr' = [fptr EXCEPT ![cachemap[path[h]]] = path[h]]
                 /\ filenode' = [filenode EXCEPT ![h] = path[h]]
                 /\ pc' = [pc EXCEPT ![h] = "write"]
<1>. DEFINE n == cachemap[path[h]]
<1>0. path[h] \in DOMAIN cachemap /\ path[h] \in Files /\ pc[h] = "set" /\ path' = path
  BY MapType DEF SetAgain, CacheInv, CacheTyped
<1>1. CASE /\ n \notin ToSet(cachelist) /\ ub' = TRUE
           /\ UNCHANGED <<cachemap, cachelist, fptr, pc, filenode>>
  BY <1>0, <1>1
<1>2. CASE /\ n \in ToSet(cachelist) /\ fptr' = [fptr EXCEPT ![n] = path[h]]
           /\ cachelist' = Splice(n)
           /\ cachemap' = MapWith(cachemap, path[h], Head(cachelist'))
           /\ filenode' = [filenode EXCEPT ![h] = fptr'[Head(cachelist')]]
           /\ pc' = [pc EXCEPT ![h] = "write"]
           /\ UNCHANGED ub
  <2>1. Head(cachelist') = n
    BY <1>2, Spliced DEF CacheInv, CacheTyped
  <2>2. cachemap' = cachemap
    BY <1>0, <1>2, <2>1, MapSame DEF CacheInv, CacheTyped
  <2>3. fptr'[n] = path[h]
    BY <1>2, ListedIsNode DEF CacheInv, CacheTyped
  <2>. QED  BY <1>0, <1>2, <2>1, <2>2, <2>3
<1>. QED  BY <1>1, <1>2 DEF SetAgain

LEMMA AgainStep ==
    ASSUME CacheInv, NEW h \in Handlers, capacity' = capacity, SetAgain(h)
    PROVE  CacheInv'
<1>. DEFINE n == cachemap[path[h]]
<1>. USE DEF CacheInv
<1>0. /\ path[h] \in DOMAIN cachemap /\ path[h] \in Files
      /\ cachemap' = cachemap /\ path' = path /\ pc[h] = "set"
  BY AgainDoes
<1>1. CASE /\ n \notin ToSet(cachelist)
           /\ ub' = TRUE /\ UNCHANGED <<cachelist, fptr, pc, filenode>>
  BY <1>0, <1>1 DEF CacheTyped, PathNamed, ListInv, FitInv, AllFit, Fits, ServedIsRequested
<1>2. CASE /\ n \in ToSet(cachelist) /\ cachelist' = Splice(n) /\ ub' = ub
           /\ fptr' = [fptr EXCEPT ![n] = path[h]]
           /\ filenode' = [filenode EXCEPT ![h] = path[h]]
           /\ pc' = [pc EXCEPT ![h] = "write"]
  <2>1. /\ cachelist' \in Seq(Nodes) /\ Len(cachelist') = Len(cachelist)
        /\ ToSet(cachelist') = ToSet(cachelist) /\ IsInjective(cachelist')
    BY <1>2, Spliced DEF CacheTyped, ListInv
  <2>2. \A m \in Nodes : fptr'[m] = IF m = n THEN path[h] ELSE fptr[m]
    BY <1>2, ListedIsNode DEF CacheTyped
  <2>3. CacheTyped'
    <3>1. \A g \in Handlers : pc'[g] = "write" => filenode'[g] \in Files
      BY <1>0, <1>2, PcAfter DEF CacheTyped
    <3>2. /\ pc' \in [Handlers -> {"idle", "ready", "get", "hit", "get2", "miss", "set",
                                   "write"}]
          /\ filenode' \in [Handlers -> Files \cup {NoFile}]
      BY <1>0, <1>2, PcAfter DEF CacheTyped
    <3>3. fptr' \in [Nodes -> Files \cup {NoFile}]
      BY <1>0, <1>2 DEF CacheTyped
    <3>. QED  BY <1>0, <1>2, <2>1, <3>1, <3>2, <3>3 DEF CacheTyped
  <2>4. PathNamed'
    BY <1>0, <1>2, PcAfter DEF PathNamed
  <2>5. ListInv'
    <3>1. ASSUME NEW m \in ToSet(cachelist)
          PROVE  fptr'[m] \in DOMAIN cachemap /\ cachemap[fptr'[m]] = m
      BY <1>0, <2>2, ListedIsNode DEF ListInv, CacheTyped
    <3>. QED  BY <1>0, <2>1, <3>1 DEF ListInv
  <2>6. FitInv'
    <3>. SUFFICES ASSUME AllFit
                  PROVE  /\ \A f \in DOMAIN cachemap :
                               cachemap[f] \in ToSet(cachelist') /\ fptr'[cachemap[f]] = f
                         /\ ServedIsRequested'
      BY <1>0 DEF FitInv, AllFit, Fits
    <3>1. ASSUME NEW f \in DOMAIN cachemap
          PROVE  cachemap[f] \in ToSet(cachelist') /\ fptr'[cachemap[f]] = f
      <4>1. cachemap[f] \in ToSet(cachelist) /\ fptr[cachemap[f]] = f /\ cachemap[f] \in Nodes
        BY ListedIsNode DEF FitInv, CacheTyped
      <4>2. fptr[n] = path[h]
        BY <1>0 DEF FitInv
      <4>. QED  BY <2>1, <2>2, <4>1, <4>2
    <3>2. ServedIsRequested'
      BY <1>0, <1>2, PcAfter DEF FitInv, ServedIsRequested, CacheTyped
    <3>. QED  BY <3>1, <3>2
  <2>. QED  BY <2>3, <2>4, <2>5, <2>6
<1>. QED  BY <1>1, <1>2, AgainDoes

\* A set that loads a file: what it does
LEMMA LoadDoes ==
    ASSUME CacheInv, NEW h \in Handlers, SetLoad(h)
    PROVE  /\ path[h] \in Files \ DOMAIN cachemap /\ pc[h] = "set"
           /\ UNCHANGED <<path, ub>>
           /\ pc' = [pc EXCEPT ![h] = "write"]
           /\ filenode' = [filenode EXCEPT ![h] = path[h]]
           /\ \E rest \in Seq(Nodes) : \E n \in Nodes \ ToSet(rest) :
                 /\ rest = IF Full THEN Front(cachelist) ELSE cachelist
                 /\ Len(rest) + 1 <= capacity /\ IsInjective(rest)
                 /\ ToSet(rest) \subseteq ToSet(cachelist)
                 /\ fptr' = [fptr EXCEPT ![n] = path[h]]
                 /\ cachelist' = Cons(n, rest)
                 /\ cachemap' = MapWith(cachemap, path[h], n)
<1>. DEFINE rest == IF Full THEN Front(cachelist) ELSE cachelist
            map  == IF Full THEN MapWithout(ErasedKey(Last(cachelist))) ELSE cachemap
<1>1. /\ path[h] \in Files \ DOMAIN cachemap /\ pc[h] = "set"
      /\ UNCHANGED <<path, ub>>
      /\ pc' = [pc EXCEPT ![h] = "write"]
  BY DEF SetLoad, CacheInv, PathNamed
<1>2. map = cachemap
  BY NothingErased DEF CacheInv, CacheTyped
<1>3. PICK n \in Nodes \ ToSet(rest) :
         /\ fptr' = [fptr EXCEPT ![n] = path[h]]
         /\ cachelist' = Cons(n, rest)
         /\ cachemap' = MapWith(map, path[h], n)
         /\ filenode' = [filenode EXCEPT ![h] = path[h]]
  BY DEF SetLoad
<1>4. capacity \in Nat \ {0} /\ Len(cachelist) \in Nat /\ cachelist \in Seq(Nodes)
  BY CacheAssumption, LenProperties DEF CacheInv, CacheTyped
<1>5. /\ rest \in Seq(Nodes) /\ Len(rest) + 1 <= capacity /\ IsInjective(rest)
      /\ ToSet(rest) \subseteq ToSet(cachelist)
  <2>1. CASE Full
    <3>1. Len(cachelist) # 0 /\ Len(cachelist) = capacity
      BY <1>4, <2>1 DEF Full
    <3>2. /\ Front(cachelist) \in Seq(Nodes) /\ Len(Front(cachelist)) = Len(cachelist) - 1
          /\ ToSet(Front(cachelist)) \subseteq ToSet(cachelist)
          /\ IsInjective(Front(cachelist))
      BY <1>4, <3>1, Popped DEF CacheInv, ListInv
    <3>3. Len(Front(cachelist)) + 1 <= capacity
      BY <1>4, <3>1, <3>2
    <3>. QED  BY <2>1, <3>2, <3>3
  <2>2. CASE ~Full
    <3>1. Len(cachelist) + 1 <= capacity
      BY <1>4, <2>2 DEF Full, CacheInv, ListInv
    <3>. QED  BY <1>4, <2>2, <3>1 DEF CacheInv, ListInv
  <2>. QED  BY <2>1, <2>2
<1>. HIDE DEF map
<1>. QED  BY <1>1, <1>2, <1>3, <1>5

LEMMA LoadStep ==
    ASSUME CacheInv, NEW h \in Handlers, capacity' = capacity, SetLoad(h)
    PROVE  CacheInv'
<1>. USE DEF CacheInv
<1>1. /\ path[h] \in Files \ DOMAIN cachemap /\ pc[h] = "set"
      /\ UNCHANGED <<path, ub>>
      /\ pc' = [pc EXCEPT ![h] = "write"]
      /\ filenode' = [filenode EXCEPT ![h] = path[h]]
  BY LoadDoes
<1>2. PICK rest \in Seq(Nodes) : \E n \in Nodes \ ToSet(rest) :
         /\ rest = IF Full THEN Front(cachelist) ELSE cachelist
         /\ Len(rest) + 1 <= capacity /\ IsInjective(rest)
         /\ ToSet(rest) \subseteq ToSet(cachelist)
         /\ fptr' = [fptr EXCEPT ![n] = path[h]]
         /\ cachelist' = Cons(n, rest)
         /\ cachemap' = MapWith(cachemap, path[h], n)
  BY LoadDoes
<1>3. PICK n \in Nodes \ ToSet(rest) :
         /\ rest = IF Full THEN Front(cachelist) ELSE cachelist
         /\ Len(rest) + 1 <= capacity /\ IsInjective(rest)
         /\ ToSet(rest) \subseteq ToSet(cachelist)
         /\ fptr' = [fptr EXCEPT ![n] = path[h]]
         /\ cachelist' = Cons(n, rest)
         /\ cachemap' = MapWith(cachemap, path[h], n)
  BY <1>2
<1>4. /\ cachelist' \in Seq(Nodes) /\ Len(cachelist') = Len(rest) + 1
      /\ ToSet(cachelist') = {n} \cup ToSet(rest) /\ IsInjective(cachelist')
  <2>1. rest \in Seq(Nodes) /\ n \in Nodes /\ n \notin ToSet(rest)
        /\ IsInjective(rest) /\ cachelist' = Cons(n, rest)
    BY <1>3
  <2>2. \A q \in Seq(Nodes), e \in Nodes :
            /\ Cons(e, q) \in Seq(Nodes) /\ Len(Cons(e, q)) = Len(q) + 1
            /\ ToSet(Cons(e, q)) = {e} \cup ToSet(q)
            /\ IsInjective(q) /\ e \notin ToSet(q) => IsInjective(Cons(e, q))
    BY Pushed
  <2>. QED  BY ONLY <2>1, <2>2
<1>5. /\ cachemap' \in Maps /\ DOMAIN cachemap' = DOMAIN cachemap \cup {path[h]}
      /\ cachemap'[path[h]] = n
      /\ \A g \in DOMAIN cachemap : g # path[h] => cachemap'[g] = cachemap[g]
  <2>1. path[h] \in Files /\ n \in Nodes /\ cachemap \in Maps
    BY <1>1 DEF CacheTyped
  <2>2. cachemap' = MapWith(cachemap, path[h], n)
    BY <1>3
  <2>3. \A f \in Files, e \in Nodes :
            /\ MapWith(cachemap, f, e) \in Maps
            /\ DOMAIN MapWith(cachemap, f, e) = DOMAIN cachemap \cup {f}
            /\ MapWith(cachemap, f, e)[f] = e
            /\ \A g \in DOMAIN cachemap : g # f => MapWith(cachemap, f, e)[g] = cachemap[g]
    BY <2>1, MapAdds
  <2>4. LET q == MapWith(cachemap, path[h], n)
        IN  /\ q \in Maps /\ DOMAIN q = DOMAIN cachemap \cup {path[h]}
            /\ q[path[h]] = n
            /\ \A g \in DOMAIN cachemap : g # path[h] => q[g] = cachemap[g]
    BY ONLY <2>1, <2>3
  <2>. QED  BY ONLY <2>2, <2>4
<1>6. \A m \in Nodes : fptr'[m] = IF m = n THEN path[h] ELSE fptr[m]
  <2>1. fptr' = [fptr EXCEPT ![n] = path[h]]
    BY <1>3
  <2>2. fptr \in [Nodes -> Files \cup {NoFile}]
    BY DEF CacheTyped
  <2>. QED  BY <2>1, <2>2
<1>7. CacheTyped'
  <2>1. \A g \in Handlers : pc'[g] = "write" => filenode'[g] \in Files
    BY <1>1, PcAfter DEF CacheTyped
  <2>2. /\ pc' \in [Handlers -> {"idle", "ready", "get", "hit", "get2", "miss", "set",
                                 "write"}]
        /\ filenode' \in [Handlers -> Files \cup {NoFile}]
    BY <1>1, PcAfter DEF CacheTyped
  <2>3. fptr' \in [Nodes -> Files \cup {NoFile}]
    BY <1>1, <1>3 DEF CacheTyped
  <2>. QED  BY <1>1, <1>4, <1>5, <2>1, <2>2, <2>3 DEF CacheTyped
<1>8. PathNamed'
  BY <1>1, PcAfter DEF PathNamed
<1>9. ListInv'
  <2>1. ASSUME NEW m \in ToSet(rest), m # n
        PROVE  fptr'[m] \in DOMAIN cachemap' /\ cachemap'[fptr'[m]] = m
    <3>1. /\ m \in Nodes /\ fptr[m] \in DOMAIN cachemap /\ cachemap[fptr[m]] = m
      BY <1>3, ListedIsNode DEF ListInv, CacheTyped
    <3>2. fptr[m] # path[h] /\ fptr'[m] = fptr[m]
      BY <1>1, <1>6, <2>1, <3>1
    <3>. QED  BY <1>5, <3>1, <3>2
  <2>2. fptr'[n] \in DOMAIN cachemap' /\ cachemap'[fptr'[n]] = n
    BY <1>3, <1>5, <1>6
  <2>3. Len(cachelist') <= capacity'
    BY <1>3, <1>4
  <2>. QED  BY <1>4, <2>1, <2>2, <2>3 DEF ListInv
<1>10. FitInv'
  <2>. SUFFICES ASSUME AllFit
                PROVE  /\ \A f \in DOMAIN cachemap' :
                             cachemap'[f] \in ToSet(cachelist') /\ fptr'[cachemap'[f]] = f
                       /\ ServedIsRequested'
    BY DEF FitInv, AllFit, Fits
  <2>1. rest = cachelist
    BY <1>1, <1>3, NeverFull
  <2>2. ASSUME NEW f \in DOMAIN cachemap
        PROVE  cachemap'[f] \in ToSet(cachelist') /\ fptr'[cachemap'[f]] = f
    <3>1. /\ cachemap[f] \in ToSet(cachelist) /\ fptr[cachemap[f]] = f
          /\ cachemap[f] \in Nodes
      BY ListedIsNode DEF FitInv, CacheTyped
    <3>2. f # path[h] /\ cachemap[f] # n
      BY <1>1, <1>3, <2>1, <3>1
    <3>. QED  BY <1>4, <1>5, <1>6, <2>1, <3>1, <3>2
  <2>3. cachemap'[path[h]] \in ToSet(cachelist') /\ fptr'[cachemap'[path[h]]] = path[h]
    BY <1>3, <1>4, <1>5, <1>6
  <2>4. ServedIsRequested'
    BY <1>1, PcAfter DEF FitInv, ServedIsRequested, CacheTyped
  <2>. QED  BY <1>5, <2>2, <2>3, <2>4
<1>. QED  BY <1>7, <1>8, <1>9, <1>10

\* Every step in the cache keeps the invariant (Gateway.cpp:139-181,
\* filecaches.hpp:22-43).
LEMMA CacheStepInv ==
    ASSUME CacheInv, NEW h \in Handlers, capacity' = capacity,
           HandlerStep(h) \/ \E f \in Files : Serve(h, f)
    PROVE  CacheInv'
BY QuietStep, HitStep, AgainStep, LoadStep DEF HandlerStep

LEMMA CacheInitInv == ASSUME FCInit PROVE CacheInv
<1>1. /\ cachemap \in Maps /\ DOMAIN cachemap = {}
  BY MapType DEF FCInit
<1>2. /\ cachelist \in Seq(Nodes) /\ ToSet(cachelist) = {} /\ Len(cachelist) = 0
      /\ IsInjective(cachelist)
  BY EmptySeq DEF FCInit, ToSet, IsInjective
<1>3. capacity \in Nat
  BY CacheAssumption DEF FCInit
<1>4. CacheTyped /\ PathNamed
  BY <1>1, <1>2 DEF FCInit, CacheTyped, PathNamed
<1>5. ListInv /\ FitInv
  BY <1>1, <1>2, <1>3 DEF FCInit, ListInv, FitInv, ServedIsRequested
<1>. QED  BY <1>4, <1>5 DEF CacheInv

LEMMA CacheStill ==
    ASSUME CacheInv,
           UNCHANGED <<capacity, cachemap, cachelist, fptr, pc, path, filenode, ub>>
    PROVE  CacheInv'
BY DEF CacheInv, CacheTyped, PathNamed, ListInv, FitInv, AllFit, Fits, ServedIsRequested

-----------------------------------------------------------------------------
(* The steps are steps of module LruCache                                   *)

\* The list of files: those of the nodes, each once
LEMMA OrderOfNodes ==
    ASSUME CacheInv
    PROVE  /\ lruOrder \in Seq(Files) /\ Len(lruOrder) = Len(cachelist)
           /\ Len(cachelist) \in Nat /\ DOMAIN cachelist = 1..Len(cachelist)
           /\ \A i \in 1..Len(cachelist) : lruOrder[i] = fptr[cachelist[i]]
           /\ \A i, j \in 1..Len(cachelist) : lruOrder[i] = lruOrder[j] => i = j
           /\ \A i \in 1..Len(cachelist) :
                 lruOrder[i] \in DOMAIN cachemap /\ cachemap[lruOrder[i]] = cachelist[i]
<1>1. Len(cachelist) \in Nat /\ DOMAIN cachelist = 1..Len(cachelist)
  BY LenProperties DEF CacheInv, CacheTyped
<1>2. \A i \in 1..Len(cachelist) :
         /\ fptr[cachelist[i]] \in DOMAIN cachemap
         /\ cachemap[fptr[cachelist[i]]] = cachelist[i]
  BY <1>1 DEF CacheInv, ListInv, ToSet
<1>3. DOMAIN cachemap \subseteq Files
  BY MapType DEF CacheInv, CacheTyped
<1>4. lruOrder \in [1..Len(cachelist) -> Files]
  BY <1>1, <1>2, <1>3 DEF lruOrder
<1>5. lruOrder \in Seq(Files) /\ Len(lruOrder) = Len(cachelist)
  <2>1. lruOrder \in Seq(Files)
    BY <1>1, <1>4, SeqDef
  <2>. QED  BY <1>1, <1>4, <2>1, LenProperties
<1>6. \A i \in 1..Len(cachelist) : lruOrder[i] = fptr[cachelist[i]]
  BY <1>1 DEF lruOrder
<1>7. \A i, j \in 1..Len(cachelist) : lruOrder[i] = lruOrder[j] => i = j
  BY <1>1, <1>2, <1>6 DEF CacheInv, ListInv, IsInjective
<1>. QED  BY <1>1, <1>2, <1>5, <1>6, <1>7

\* The operators on sequences that LruCache takes from SequencesExt
LEMMA SameOperators ==
    /\ \A s : Lru!ToSet(s) = ToSet(s)
    /\ \A s, i : Lru!RemoveAt(s, i) = RemoveAt(s, i)
    /\ \A s, e : Lru!Cons(e, s) = Cons(e, s)
BY DEF Lru!ToSet, ToSet, Lru!RemoveAt, RemoveAt, Lru!Cons, Cons

\* A file of the list is used as its node is spliced.
LEMMA UsedAsSpliced ==
    ASSUME CacheInv, NEW n \in ToSet(cachelist),
           cachelist' = Splice(n),
           \A m \in ToSet(cachelist) : fptr'[m] = fptr[m]
    PROVE  lruOrder' = Lru!Used(fptr[n]) /\ fptr[n] \in ToSet(lruOrder)
<1>. DEFINE N == Len(cachelist)
            i == CHOOSE k \in DOMAIN cachelist : cachelist[k] = n
            k == CHOOSE x \in DOMAIN lruOrder : lruOrder[x] = fptr[n]
            t == Cons(lruOrder[i], RemoveAt(lruOrder, i))
<1>0. /\ lruOrder \in Seq(Files) /\ Len(lruOrder) = N /\ N \in Nat
      /\ DOMAIN cachelist = 1..N /\ DOMAIN lruOrder = 1..N
      /\ \A j \in 1..N : lruOrder[j] = fptr[cachelist[j]]
      /\ \A j, x \in 1..N : lruOrder[j] = lruOrder[x] => j = x
  BY OrderOfNodes, LenProperties
<1>1. i \in 1..N /\ cachelist[i] = n
  BY <1>0 DEF ToSet
<1>2. cachelist' = Cons(cachelist[i], RemoveAt(cachelist, i))
  BY <1>1 DEF Splice
<1>. HIDE DEF i
<1>3. /\ cachelist' \in Seq(Nodes) /\ Len(cachelist') = N
      /\ \A j \in 1..N : cachelist'[j] = IF j = 1 THEN cachelist[i]
                                         ELSE IF j <= i THEN cachelist[j-1] ELSE cachelist[j]
  <2>1. cachelist \in Seq(Nodes) /\ i \in DOMAIN cachelist
    BY <1>0, <1>1 DEF CacheInv, CacheTyped
  <2>2. \A q \in Seq(Nodes) : \A x \in DOMAIN q :
            LET r == Cons(q[x], RemoveAt(q, x))
            IN  /\ r \in Seq(Nodes) /\ Len(r) = Len(q)
                /\ \A j \in 1..Len(q) :
                      r[j] = IF j = 1 THEN q[x] ELSE IF j <= x THEN q[j-1] ELSE q[j]
    BY MovedToFront
  <2>. QED  BY ONLY <1>2, <2>1, <2>2
<1>4. /\ t \in Seq(Files) /\ Len(t) = N
      /\ \A j \in 1..N : t[j] = IF j = 1 THEN lruOrder[i]
                                ELSE IF j <= i THEN lruOrder[j-1] ELSE lruOrder[j]
  BY <1>0, <1>1, MovedToFront
<1>5. lruOrder[i] = fptr[n] /\ fptr[n] \in ToSet(lruOrder)
  BY <1>0, <1>1 DEF ToSet
<1>6. k = i
  <2>1. k \in 1..N /\ lruOrder[k] = fptr[n]
    BY <1>0, <1>1, <1>5
  <2>. HIDE DEF k
  <2>. QED  BY <1>0, <1>1, <1>5, <2>1
<1>. HIDE DEF k
<1>7. Cons(fptr[n], RemoveAt(lruOrder, k)) = t
  BY <1>5, <1>6
<1>. HIDE DEF t
<1>8. Lru!Used(fptr[n]) = SubSeq(t, 1, IF Len(t) > capacity THEN capacity ELSE Len(t))
  <2>1. Cons(fptr[n], RemoveAt(lruOrder,
             CHOOSE x \in DOMAIN lruOrder : lruOrder[x] = fptr[n])) = t
    BY <1>7 DEF k
  <2>. DEFINE c == CHOOSE x \in DOMAIN lruOrder : lruOrder[x] = fptr[n]
              r == IF fptr[n] \in Lru!ToSet(lruOrder) THEN Lru!RemoveAt(lruOrder, c)
                   ELSE lruOrder
              m == Lru!Cons(fptr[n], r)
  <2>2. Lru!Used(fptr[n]) = SubSeq(m, 1, IF Len(m) > capacity THEN capacity ELSE Len(m))
    BY Zenon DEF Lru!Used
  <2>3. r = RemoveAt(lruOrder, c)
    BY <1>5, SameOperators
  <2>. HIDE DEF c, r
  <2>4. m = t
    BY <2>1, <2>3, SameOperators DEF c
  <2>. QED  BY <2>2, <2>4
<1>9. Lru!Used(fptr[n]) = t
  <2>1. capacity \in Nat /\ N <= capacity
    BY CacheAssumption DEF CacheInv, CacheTyped, ListInv
  <2>2. (IF Len(t) > capacity THEN capacity ELSE Len(t)) = Len(t)
    BY <1>0, <1>4, <2>1
  <2>. QED  BY <1>4, <1>8, <2>2, SubSeqFull
<1>10. DOMAIN cachelist' = 1..N /\ DOMAIN t = 1..N
  BY <1>3, <1>4, LenProperties
<1>11. ASSUME NEW j \in 1..N PROVE lruOrder'[j] = t[j]
  <2>1. lruOrder'[j] = fptr'[cachelist'[j]]
    BY <1>10 DEF lruOrder
  <2>2. \A x \in 1..N : cachelist[x] \in ToSet(cachelist)
    BY <1>0 DEF ToSet
  <2>3. CASE j = 1
    BY <1>0, <1>1, <1>3, <1>4, <2>1, <2>2, <2>3
  <2>4. CASE j # 1 /\ j <= i
    <3>1. j-1 \in 1..N
      BY <1>0, <2>4
    <3>2. cachelist'[j] = cachelist[j-1] /\ t[j] = lruOrder[j-1]
      BY <1>3, <1>4, <2>4
    <3>. QED  BY <1>0, <2>1, <2>2, <3>1, <3>2
  <2>5. CASE j # 1 /\ ~(j <= i)
    BY <1>0, <1>3, <1>4, <2>1, <2>2, <2>5
  <2>. QED  BY <2>3, <2>4, <2>5
<1>12. lruOrder' = t
  <2>1. lruOrder' = [j \in 1..N |-> lruOrder'[j]]
    BY <1>10 DEF lruOrder
  <2>2. t = [j \in 1..N |-> t[j]]
    BY <1>4, <1>10, LenProperties
  <2>. QED  BY <1>11, <2>1, <2>2
<1>. QED  BY <1>5, <1>9, <1>12

\* A file that is not in the list is used as its node is pushed, after the last
\* was taken off a full list.
LEMMA UsedAsLoaded ==
    ASSUME CacheInv, NEW f \in Files, f \notin DOMAIN cachemap,
           NEW rest \in Seq(Nodes), NEW n \in Nodes \ ToSet(rest),
           rest = IF Full THEN Front(cachelist) ELSE cachelist,
           cachelist' = Cons(n, rest), fptr' = [fptr EXCEPT ![n] = f]
    PROVE  lruOrder' = Lru!Used(f)
<1>. DEFINE N == Len(cachelist)
            M == Len(rest) + 1
            t == Cons(f, lruOrder)
<1>0. /\ lruOrder \in Seq(Files) /\ Len(lruOrder) = N /\ N \in Nat
      /\ DOMAIN cachelist = 1..N /\ DOMAIN lruOrder = 1..N
      /\ \A j \in 1..N : lruOrder[j] = fptr[cachelist[j]]
      /\ \A j \in 1..N : lruOrder[j] \in DOMAIN cachemap
  BY OrderOfNodes, LenProperties
<1>1. f \notin ToSet(lruOrder)
  BY <1>0 DEF ToSet
<1>2. /\ t \in Seq(Files) /\ Len(t) = N + 1
      /\ \A j \in 1..(N + 1) : t[j] = IF j = 1 THEN f ELSE lruOrder[j-1]
  <2>1. /\ t \in Seq(Files) /\ Len(t) = Len(lruOrder) + 1
        /\ \A j \in 1..Len(t) : t[j] = IF j = 1 THEN f ELSE lruOrder[j-1]
    <3>1. lruOrder \in Seq(Files) /\ f \in Files
      BY <1>0
    <3>. QED  BY ONLY <3>1, Pushed
  <2>. HIDE DEF t
  <2>. QED  BY <1>0, <2>1
<1>3. capacity \in Nat \ {0} /\ N <= capacity
  BY CacheAssumption DEF CacheInv, CacheTyped, ListInv
<1>. HIDE DEF t
<1>4. Lru!Used(f) = SubSeq(t, 1, IF N + 1 > capacity THEN capacity ELSE N + 1)
  <2>1. Lru!Used(f) = SubSeq(t, 1, IF Len(t) > capacity THEN capacity ELSE Len(t))
    BY <1>1, SameOperators DEF Lru!Used, t
  <2>. QED  BY <1>2, <2>1
<1>5. /\ M = IF N + 1 > capacity THEN capacity ELSE N + 1
      /\ M \in Nat /\ M <= N + 1
      /\ \A j \in 1..(M - 1) : j \in 1..N /\ rest[j] = cachelist[j]
  <2>1. CASE Full
    <3>1. N = capacity /\ N # 0
      BY <1>3, <2>1 DEF Full
    <3>2. cachelist \in Seq(Nodes)
      BY DEF CacheInv, CacheTyped
    <3>3. Len(rest) = N - 1 /\ \A j \in 1..(N - 1) : rest[j] = cachelist[j]
      BY <2>1, <3>1, <3>2, Popped
    <3>4. M = N
      <4>1. Len(rest) = N - 1
        BY <3>3
      <4>2. N \in Nat
        BY <1>0
      <4>. QED  BY <4>1, <4>2
    <3>5. N + 1 > capacity
      BY <1>0, <1>3, <3>1
    <3>. HIDE DEF M, N
    <3>6. \A j \in 1..(M - 1) : j \in 1..N
      BY <1>0, <3>4
    <3>. QED  BY <1>0, <3>1, <3>3, <3>4, <3>5, <3>6
  <2>2. CASE ~Full
    <3>1. N # capacity /\ rest = cachelist
      BY <2>2 DEF Full
    <3>2. M = N + 1
      BY <3>1
    <3>3. ~(N + 1 > capacity) /\ (N + 1) - 1 = N
      <4>1. \A a, b \in Nat : a # b /\ a <= b => ~(a + 1 > b) /\ (a + 1) - 1 = a
        OBVIOUS
      <4>2. N \in Nat /\ capacity \in Nat /\ N <= capacity /\ N # capacity
        BY <1>0, <1>3, <3>1
      <4>. QED  BY <4>1, <4>2
    <3>. HIDE DEF M, N
    <3>. QED  BY <1>0, <3>1, <3>2, <3>3
  <2>. QED  BY <2>1, <2>2
<1>6. /\ cachelist' \in Seq(Nodes) /\ Len(cachelist') = M
      /\ \A j \in 1..M : cachelist'[j] = IF j = 1 THEN n ELSE rest[j-1]
  <2>1. /\ cachelist' \in Seq(Nodes) /\ Len(cachelist') = Len(rest) + 1
        /\ \A j \in 1..Len(cachelist') : cachelist'[j] = IF j = 1 THEN n ELSE rest[j-1]
    <3>1. n \in Nodes /\ rest \in Seq(Nodes) /\ cachelist' = Cons(n, rest)
      OBVIOUS
    <3>2. Cons(n, rest) \in Seq(Nodes) /\ Len(Cons(n, rest)) = Len(rest) + 1
      BY ONLY <3>1, Pushed
    <3>3. ASSUME NEW j \in 1..Len(Cons(n, rest))
          PROVE  Cons(n, rest)[j] = IF j = 1 THEN n ELSE rest[j-1]
      <4>1. \A s \in Seq(Nodes), e \in Nodes :
               \A k \in 1..Len(Cons(e, s)) : Cons(e, s)[k] = IF k = 1 THEN e ELSE s[k-1]
        BY ONLY Pushed
      <4>. QED  BY <3>1, <4>1
    <3>. QED  BY <3>1, <3>2, <3>3
  <2>. QED  BY <2>1
<1>7. DOMAIN cachelist' = 1..M /\ DOMAIN rest = 1..(M - 1)
  <2>1. Len(rest) \in Nat
    BY LenProperties
  <2>2. Len(rest) = M - 1
    BY <2>1
  <2>. QED  BY <1>6, <2>2, LenProperties
<1>. HIDE DEF M
<1>8. Lru!Used(f) = SubSeq(t, 1, M)
  BY <1>4, <1>5
<1>9. /\ SubSeq(t, 1, M) \in Seq(Files) /\ Len(SubSeq(t, 1, M)) = M
      /\ \A j \in 1..M : SubSeq(t, 1, M)[j] = t[j]
  <2>1. \A j \in 1..M : t[j] \in Files
    BY <1>0, <1>2, <1>5, ElementOfSeq
  <2>2. /\ SubSeq(t, 1, M) \in Seq(Files)
        /\ Len(SubSeq(t, 1, M)) = IF 1 <= M THEN M-1+1 ELSE 0
        /\ \A j \in 1..(M-1+1) : SubSeq(t, 1, M)[j] = t[1+j-1]
    BY <1>5, <2>1, SubSeqProperties
  <2>3. M-1+1 = M /\ \A j \in 1..M : 1+j-1 = j
    BY <1>5
  <2>. QED  BY <1>5, <2>2, <2>3
<1>10. ASSUME NEW j \in 1..M PROVE lruOrder'[j] = t[j]
  <2>1. lruOrder'[j] = fptr'[cachelist'[j]]
    BY <1>7 DEF lruOrder
  <2>2. \A x \in Nodes : fptr'[x] = IF x = n THEN f ELSE fptr[x]
    BY DEF CacheInv, CacheTyped
  <2>3. CASE j = 1
    BY <1>2, <1>5, <1>6, <2>1, <2>2, <2>3
  <2>4. CASE j # 1
    <3>1. j-1 \in 1..(M - 1) /\ j \in 1..(N + 1)
      BY <1>0, <1>5, <2>4
    <3>2. j-1 \in 1..N /\ rest[j-1] = cachelist[j-1] /\ rest[j-1] \in ToSet(rest)
      BY <1>5, <1>7, <3>1 DEF ToSet
    <3>3. rest[j-1] \in Nodes /\ rest[j-1] # n
      BY <3>2, ListedIsNode, <1>7, <3>1, LenProperties, ElementOfSeq
    <3>4. lruOrder'[j] = fptr[cachelist[j-1]]
      BY <1>6, <2>1, <2>2, <2>4, <3>2, <3>3
    <3>5. t[j] = lruOrder[j-1]
      BY <1>2, <2>4, <3>1
    <3>. QED  BY <1>0, <3>2, <3>4, <3>5
  <2>. QED  BY <2>3, <2>4
<1>11. lruOrder' = SubSeq(t, 1, M)
  <2>1. lruOrder' = [j \in 1..M |-> lruOrder'[j]]
    BY <1>7 DEF lruOrder
  <2>2. SubSeq(t, 1, M) = [j \in 1..M |-> SubSeq(t, 1, M)[j]]
    BY <1>9, LenProperties
  <2>. QED  BY <1>9, <1>10, <2>1, <2>2
<1>. QED  BY <1>8, <1>11

lruvars == <<capacity, lruOrder, lruWants, lruHanded>>

\* While a handler has a request, the cache of LruCache is asked for its file.
LEMMA WantsOfPc ==
    ASSUME CacheInv, NEW h \in Handlers
    PROVE  /\ lruWants[h] = NoFile <=> pc[h] = "idle"
           /\ pc[h] # "idle" => lruWants[h] = path[h]
           /\ lruHanded[h] = NoFile <=> pc[h] # "write"
BY CacheAssumption DEF CacheInv, CacheTyped, PathNamed, lruWants, lruHanded

\* What a step of h leaves alone stays for LruCache as well.
LEMMA WantsStay ==
    ASSUME CacheInv, NEW h \in Handlers, NEW p, pc[h] # "idle", p # "idle",
           pc' = [pc EXCEPT ![h] = p], path' = path
    PROVE  lruWants' = lruWants
BY PcAfter DEF CacheInv, lruWants

\* The node is copied: LruCache hands out its file.
LEMMA HandedAsWritten ==
    ASSUME CacheInv, NEW h \in Handlers, NEW f, pc' = [pc EXCEPT ![h] = "write"],
           filenode' = [filenode EXCEPT ![h] = f]
    PROVE  lruHanded' = [lruHanded EXCEPT ![h] = f]
<1>1. \A g \in Handlers : pc'[g] = IF g = h THEN "write" ELSE pc[g]
  BY PcAfter DEF CacheInv
<1>2. \A g \in Handlers : filenode'[g] = IF g = h THEN f ELSE filenode[g]
  BY DEF CacheInv, CacheTyped
<1>3. \A g \in Handlers : lruHanded'[g] = IF g = h THEN f ELSE lruHanded[g]
  BY <1>1, <1>2 DEF lruHanded
<1>4. lruHanded' = [g \in Handlers |-> lruHanded'[g]]
  BY DEF lruHanded
<1>5. [lruHanded EXCEPT ![h] = f] = [g \in Handlers |-> IF g = h THEN f ELSE lruHanded[g]]
  BY DEF lruHanded
<1>. QED  BY <1>3, <1>4, <1>5

\* The steps that leave map, list and nodes alone ask, answer or change nothing.
LEMMA QuietLru ==
    ASSUME CacheInv, NEW h \in Handlers, capacity' = capacity,
           \/ \E f \in Files : Serve(h, f)
           \/ Enter(h, "ready", "get") \/ Enter(h, "hit", "get2") \/ Enter(h, "miss", "set")
           \/ GetMiss(h) \/ Write(h)
    PROVE  [Lru!Next]_lruvars
<1>0. lruOrder' = lruOrder
  BY DEF Serve, Enter, GetMiss, Write, lruOrder
<1>1. CASE \E f \in Files : Serve(h, f)
  <2>1. PICK f \in Files : Serve(h, f)
    BY <1>1
  <2>2. /\ \A g \in Handlers : pc'[g] = IF g = h THEN "ready" ELSE pc[g]
        /\ \A g \in Handlers : path'[g] = IF g = h THEN f ELSE path[g]
        /\ pc[h] = "idle" /\ filenode' = filenode
    BY <2>1 DEF Serve, CacheInv, CacheTyped
  <2>3. lruWants' = [lruWants EXCEPT ![h] = f] /\ lruHanded' = lruHanded
    BY <2>2 DEF lruWants, lruHanded
  <2>4. lruWants[h] = NoFile
    BY <2>2, WantsOfPc
  <2>. QED  BY <1>0, <2>3, <2>4 DEF Lru!Next, Lru!Ask
<1>2. CASE \/ Enter(h, "ready", "get") \/ Enter(h, "hit", "get2")
           \/ Enter(h, "miss", "set") \/ GetMiss(h)
  <2>1. /\ \/ pc' = pc
           \/ \E p \in {"get", "get2", "miss", "set"} : pc' = [pc EXCEPT ![h] = p]
        /\ pc[h] \notin {"idle", "write"} /\ UNCHANGED <<path, filenode>>
    BY <1>2 DEF Enter, GetMiss
  <2>2. lruWants' = lruWants /\ lruHanded' = lruHanded
    BY <2>1, PcAfter DEF lruWants, lruHanded, CacheInv
  <2>. QED  BY <1>0, <2>2 DEF lruvars
<1>3. CASE Write(h)
  <2>1. /\ \A g \in Handlers : pc'[g] = IF g = h THEN "idle" ELSE pc[g]
        /\ pc[h] = "write" /\ \A g \in Handlers : g # h => path'[g] = path[g]
        /\ \A g \in Handlers : g # h => filenode'[g] = filenode[g]
    BY <1>3 DEF Write, CacheInv, CacheTyped
  <2>2. /\ lruWants' = [lruWants EXCEPT ![h] = NoFile]
        /\ lruHanded' = [lruHanded EXCEPT ![h] = NoFile]
    BY <2>1 DEF lruWants, lruHanded
  <2>3. lruHanded[h] # NoFile
    BY <2>1, WantsOfPc
  <2>. QED  BY <1>0, <2>2, <2>3 DEF Lru!Next, Lru!Answer
<1>. QED  BY <1>1, <1>2, <1>3

\* Every step in the cache is a step of the list of recently used files, if the
\* entry of no handler is stale (Gateway.cpp:139-181, filecaches.hpp:22-43).
LEMMA LruStep ==
    ASSUME CacheInv, NEW h \in Handlers, capacity' = capacity,
           HandlerStep(h) \/ \E f \in Files : Serve(h, f),
           \A g \in Handlers : pc[g] # "idle" => ~Stale(path[g])
    PROVE  [Lru!Next]_lruvars
<1>1. CASE GetHit(h)
  <2>. DEFINE n == cachemap[path[h]]
  <2>1. pc[h] \in {"get", "get2"} /\ path[h] \in DOMAIN cachemap
    BY <1>1 DEF GetHit
  <2>2. n \in ToSet(cachelist) /\ fptr[n] = path[h]
    BY <2>1 DEF Stale
  <2>3. /\ cachelist' = Splice(n) /\ fptr' = fptr /\ path' = path
        /\ \/ /\ pc[h] = "get" /\ pc' = [pc EXCEPT ![h] = "hit"] /\ filenode' = filenode
           \/ /\ pc[h] = "get2" /\ pc' = [pc EXCEPT ![h] = "write"]
              /\ filenode' = [filenode EXCEPT ![h] = path[h]]
    BY <1>1, <2>2, HitDoes
  <2>4. lruOrder' = Lru!Used(path[h]) /\ path[h] \in Lru!ToSet(lruOrder)
    BY <2>2, <2>3, UsedAsSpliced, SameOperators
  <2>5. lruWants[h] = path[h] /\ lruWants[h] # NoFile /\ lruHanded[h] = NoFile
    BY <2>1, WantsOfPc
  <2>6. lruWants' = lruWants
    BY <2>1, <2>3, WantsStay
  <2>7. CASE pc[h] = "get"
    <3>1. lruHanded' = lruHanded
      BY <2>3, <2>7, PcAfter DEF lruHanded, CacheInv
    <3>2. Lru!Touch(h)
      BY <2>4, <2>5, <2>6, <3>1 DEF Lru!Touch
    <3>. QED  BY <3>2 DEF Lru!Next
  <2>8. CASE pc[h] = "get2"
    <3>1. lruHanded' = [lruHanded EXCEPT ![h] = path[h]]
      BY <2>3, <2>8, HandedAsWritten
    <3>2. Lru!Hand(h)
      BY <2>4, <2>5, <2>6, <3>1 DEF Lru!Hand
    <3>. QED  BY <3>2 DEF Lru!Next
  <2>. QED  BY <2>1, <2>7, <2>8
<1>2. CASE SetAgain(h)
  <2>. DEFINE n == cachemap[path[h]]
  <2>1. pc[h] = "set" /\ path[h] \in DOMAIN cachemap
    BY <1>2 DEF SetAgain
  <2>2. n \in ToSet(cachelist) /\ fptr[n] = path[h]
    BY <2>1 DEF Stale
  <2>3. /\ cachelist' = Splice(n) /\ path' = path
        /\ fptr' = [fptr EXCEPT ![n] = path[h]]
        /\ filenode' = [filenode EXCEPT ![h] = path[h]]
        /\ pc' = [pc EXCEPT ![h] = "write"]
    BY <1>2, <2>2, AgainDoes
  <2>4. \A m \in ToSet(cachelist) : fptr'[m] = fptr[m]
    BY <2>2, <2>3, ListedIsNode DEF CacheInv, CacheTyped
  <2>5. lruOrder' = Lru!Used(path[h])
    BY <2>2, <2>3, <2>4, UsedAsSpliced
  <2>6. lruWants[h] = path[h] /\ lruWants[h] # NoFile /\ lruHanded[h] = NoFile
    BY <2>1, WantsOfPc
  <2>7. lruWants' = lruWants /\ lruHanded' = [lruHanded EXCEPT ![h] = path[h]]
    BY <2>1, <2>3, WantsStay, HandedAsWritten
  <2>8. Lru!Hand(h)
    BY <2>5, <2>6, <2>7 DEF Lru!Hand
  <2>. QED  BY <2>8 DEF Lru!Next
<1>3. CASE SetLoad(h)
  <2>1. /\ path[h] \in Files \ DOMAIN cachemap /\ pc[h] = "set" /\ path' = path
        /\ pc' = [pc EXCEPT ![h] = "write"]
        /\ filenode' = [filenode EXCEPT ![h] = path[h]]
    BY <1>3, LoadDoes
  <2>2. lruOrder' = Lru!Used(path[h])
    <3>1. PICK rest \in Seq(Nodes) : \E n \in Nodes \ ToSet(rest) :
             /\ rest = IF Full THEN Front(cachelist) ELSE cachelist
             /\ fptr' = [fptr EXCEPT ![n] = path[h]]
             /\ cachelist' = Cons(n, rest)
      BY <1>3, LoadDoes
    <3>. QED  BY <2>1, <3>1, UsedAsLoaded
  <2>3. lruWants[h] = path[h] /\ lruWants[h] # NoFile /\ lruHanded[h] = NoFile
    BY <2>1, WantsOfPc
  <2>4. lruWants' = lruWants /\ lruHanded' = [lruHanded EXCEPT ![h] = path[h]]
    BY <2>1, WantsStay, HandedAsWritten
  <2>5. Lru!Hand(h)
    BY <2>2, <2>3, <2>4 DEF Lru!Hand
  <2>. QED  BY <2>5 DEF Lru!Next
<1>. QED  BY <1>1, <1>2, <1>3, QuietLru DEF HandlerStep

LEMMA LruInit == ASSUME FCInit PROVE Lru!Init
<1>1. capacity \in Nat \ {0}
  BY CacheAssumption DEF FCInit
<1>2. lruOrder = <<>>
  BY DEF FCInit, lruOrder
<1>. QED  BY <1>1, <1>2 DEF FCInit, Lru!Init, lruWants, lruHanded

-----------------------------------------------------------------------------
(* The handlers' places in host::serve, and the tables of services and reasons *)

Places == {"idle", "cache", "tables", "dlopen", "get", "insget", "post", "inspost",
           "call", "reason", "fill", "fillrest"}

\* Where a handler has a request for a service
ServicePlaces == {"tables", "dlopen", "get", "insget", "post", "inspost", "call"}

\* The types of what the proof is about
TablesTyped ==
    /\ at \in [Handlers -> Places]
    /\ target \in [Handlers -> Services \cup {NoFile}]
    /\ method \in [Handlers -> {"get", "post"}]
    /\ status \in [Handlers -> Statuses]
    /\ \A h \in Handlers : at[h] \in ServicePlaces => target[h] \in Services

\* A handler is about to look for, or to insert, the second function of s.
Filling(s) == \E g \in Handlers : at[g] \in {"post", "inspost"} /\ target[g] = s

\* An entry in one table vouches for both, or a handler is on its way.
TablesInv ==
    /\ \A h \in Handlers :
          /\ at[h] \in {"insget", "inspost"} =>
                at[h] = "insget" \/ "post" \in Exports[target[h]]
          /\ at[h] \in {"post", "inspost", "call"} /\ "get" \in Exports[target[h]] =>
                target[h] \in getservices
    /\ \A h \in Handlers :
          at[h] = "call" /\ "post" \in Exports[target[h]] =>
                target[h] \in postservices \/ Filling(target[h])
    /\ \A s \in getservices \cup postservices :
          /\ "get" \in Exports[s] => s \in getservices
          /\ "post" \in Exports[s] => s \in postservices \/ Filling(s)

\* One handler at a time begins to fill the table of reasons, and it is empty
\* until that handler is done with the first.
ReasonsInv ==
    /\ ~raced => \A g, h \in Handlers : at[g] = "fill" /\ at[h] = "fill" => g = h
    /\ reasons # {} => \A g \in Handlers : at[g] # "fill"
    /\ reasons = {} => \A g \in Handlers : at[g] # "fillrest"
    /\ reasons # {} => reasons = Statuses \/ \E g \in Handlers : at[g] = "fillrest"

FillInv == TablesTyped /\ TablesInv /\ ReasonsInv

-----------------------------------------------------------------------------
\* A step of h to place p, with target t: what the steps have in common.
Moves(h, p, t) ==
    /\ at' = [at EXCEPT ![h] = p]
    /\ target' = [target EXCEPT ![h] = t]

\* A step that leaves its handler's branch, or moves within the branch of a
\* service, keeps the types.
LEMMA TypedStep ==
    ASSUME TablesTyped, NEW h \in Handlers, NEW p \in Places,
           NEW t \in Services \cup {NoFile}, Moves(h, p, t),
           p \in ServicePlaces => t \in Services,
           \/ method' = method
           \/ \E m \in {"get", "post"} : method' = [method EXCEPT ![h] = m],
           \/ status' = status
           \/ \E st \in Statuses : status' = [status EXCEPT ![h] = st]
    PROVE  TablesTyped'
<1>1. at' \in [Handlers -> Places] /\ target' \in [Handlers -> Services \cup {NoFile}]
  BY DEF TablesTyped, Moves
<1>2. method' \in [Handlers -> {"get", "post"}] /\ status' \in [Handlers -> Statuses]
  BY DEF TablesTyped
<1>3. \A g \in Handlers : at'[g] \in ServicePlaces => target'[g] \in Services
  BY DEF TablesTyped, Moves
<1>. QED  BY <1>1, <1>2, <1>3 DEF TablesTyped

\* The tables of services keep their invariant while nothing is inserted and no
\* handler comes to the places where it counts (Gateway.cpp:86-102).
LEMMA TablesKept ==
    ASSUME TablesTyped, TablesInv, NEW h \in Handlers, NEW p \in Places, NEW t,
           Moves(h, p, t), UNCHANGED <<getservices, postservices>>,
           at[h] \notin {"post", "inspost"},
           p \notin {"insget", "post", "inspost", "call"}
    PROVE  TablesInv'
<1>1. \A g \in Handlers : g # h => at'[g] = at[g] /\ target'[g] = target[g]
  BY DEF TablesTyped, Moves
<1>2. at'[h] = p
  BY DEF TablesTyped, Moves
<1>3. \A s : Filling(s) => Filling(s)'
  BY <1>1 DEF Filling
<1>. QED  BY <1>1, <1>2, <1>3 DEF TablesInv

\* The table of reasons keeps its invariant in the steps that do not use it.
LEMMA ReasonsKept ==
    ASSUME TablesTyped, ReasonsInv, ~raced, NEW h \in Handlers, NEW p, NEW t,
           Moves(h, p, t), UNCHANGED reasons,
           at[h] \notin {"fill", "fillrest"}, p \notin {"fill", "fillrest"}
    PROVE  ReasonsInv'
<1>1. \A g \in Handlers : at'[g] = IF g = h THEN p ELSE at[g]
  BY DEF TablesTyped, Moves
<1>. QED  BY <1>1 DEF ReasonsInv

\* A handler that answers, or returns, keeps the invariant.
LEMMA LeaveStep ==
    ASSUME FillInv, ~raced, NEW h \in Handlers,
           Return(h) \/ \E st \in Statuses : Respond(h, st),
           UNCHANGED <<getservices, postservices, reasons>>,
           at[h] \notin {"post", "inspost", "fill", "fillrest"}
    PROVE  FillInv'
<1>1. PICK p \in {"idle", "reason"} : Moves(h, p, NoFile)
  BY DEF Return, Respond, Goto, Moves
<1>2. TablesTyped'
  <2>1. \E m \in {"get", "post"} : method' = [method EXCEPT ![h] = m]
    BY DEF Return, Respond
  <2>2. \E st \in Statuses : status' = [status EXCEPT ![h] = st]
    BY DEF Return, Respond, Statuses, Errors
  <2>3. p \in Places /\ p \notin ServicePlaces
    BY DEF Places, ServicePlaces
  <2>. QED  BY <1>1, <2>1, <2>2, <2>3, TypedStep DEF FillInv
<1>3. TablesInv'
  BY <1>1, TablesKept DEF FillInv, Places
<1>4. ReasonsInv'
  BY <1>1, ReasonsKept DEF FillInv
<1>. QED  BY <1>2, <1>3, <1>4 DEF FillInv

\* A request that begins, and the branch of a static file (Gateway.cpp:50-85,
\* 139-181)
LEMMA BranchStep ==
    ASSUME FillInv, ~raced, NEW h \in Handlers,
           ServeFile(h) \/ ServeService(h) \/ Refuse(h) \/ CacheStep(h)
    PROVE  FillInv'
<1>. USE DEF FillInv, Places, ServicePlaces
<1>1. CASE ServeFile(h)
  <2>1. Moves(h, "cache", target[h]) /\ at[h] = "idle"
    BY <1>1 DEF ServeFile, Goto, Moves, TablesTyped
  <2>2. target[h] \in Services \cup {NoFile}
    BY DEF TablesTyped
  <2>3. /\ method' = method /\ status' = status
        /\ UNCHANGED <<getservices, postservices, reasons>>
    BY <1>1 DEF ServeFile
  <2>. QED  BY <2>1, <2>2, <2>3, TypedStep, TablesKept, ReasonsKept
<1>2. CASE ServeService(h)
  <2>1. PICK s \in Services : Moves(h, "tables", s)
    BY <1>2 DEF ServeService, Goto, Moves
  <2>2. /\ at[h] = "idle" /\ status' = status
        /\ \E m \in {"get", "post"} : method' = [method EXCEPT ![h] = m]
        /\ UNCHANGED <<getservices, postservices, reasons>>
    BY <1>2 DEF ServeService
  <2>3. TablesTyped'
    BY <2>1, <2>2, TypedStep
  <2>4. TablesInv' /\ ReasonsInv'
    BY <2>1, <2>2, TablesKept, ReasonsKept
  <2>. QED  BY <2>3, <2>4
<1>3. CASE Refuse(h)
  <2>1. \E st \in Statuses : Respond(h, st)
    BY <1>3 DEF Refuse, Statuses, Errors
  <2>. QED  BY <1>3, <2>1, LeaveStep DEF Refuse
<1>4. CASE CacheStep(h)
  <2>1. at[h] = "cache" /\ UNCHANGED <<getservices, postservices, reasons>>
    BY <1>4 DEF CacheStep
  <2>2. CASE Respond(h, "ok")
    BY <2>1, <2>2, LeaveStep DEF Statuses
  <2>3. CASE UNCHANGED <<at, target, method, status>>
    <3>1. Moves(h, "cache", target[h])
      BY <2>1, <2>3 DEF Moves, TablesTyped
    <3>2. target[h] \in Services \cup {NoFile}
      BY DEF TablesTyped
    <3>. QED  BY <2>1, <2>3, <3>1, <3>2, TypedStep, TablesKept, ReasonsKept
  <2>. QED  BY <1>4, <2>2, <2>3 DEF CacheStep
<1>. QED  BY <1>1, <1>2, <1>3, <1>4

\* The branch of a service within its places: types and reasons
LEMMA WithinService ==
    ASSUME FillInv, ~raced, NEW h \in Handlers, NEW p \in ServicePlaces,
           at[h] \in ServicePlaces, Moves(h, p, target[h]),
           UNCHANGED <<method, status, reasons>>
    PROVE  TablesTyped' /\ ReasonsInv'
<1>1. target[h] \in Services /\ p \in Places
  BY DEF FillInv, TablesTyped, Places, ServicePlaces
<1>2. TablesTyped'
  BY <1>1, TypedStep DEF FillInv
<1>3. ReasonsInv'
  BY ReasonsKept DEF FillInv, ServicePlaces
<1>. QED  BY <1>2, <1>3

\* Step and the insertions stay with their target.
LEMMA StepMoves ==
    ASSUME TablesTyped, NEW h \in Handlers, NEW p, Goto(h, p), UNCHANGED target
    PROVE  /\ Moves(h, p, target[h]) /\ at'[h] = p
           /\ \A g \in Handlers : g # h => at'[g] = at[g]
           /\ \A g \in Handlers : target'[g] = target[g]
BY DEF Goto, Moves, TablesTyped

\* The library is looked for, loaded, and its functions are put in the tables;
\* then the service is called (Gateway.cpp:86-137).
LEMMA ServiceInv ==
    ASSUME FillInv, ~raced, NEW h \in Handlers, ServiceStep(h)
    PROVE  FillInv'
<1>. USE DEF FillInv
<1>0. at[h] \in ServicePlaces => target[h] \in Services
  BY DEF TablesTyped
<1>1. CASE FindServices(h)
  <2>. DEFINE p == IF target[h] \in getservices \cup postservices THEN "call" ELSE "dlopen"
  <2>1. /\ Goto(h, p) /\ UNCHANGED <<target, method, status, reasons>>
        /\ at[h] = "tables" /\ UNCHANGED <<getservices, postservices>>
    BY <1>1 DEF FindServices, Step
  <2>2. TablesTyped' /\ ReasonsInv'
    BY <2>1, StepMoves, WithinService DEF ServicePlaces
  <2>3. /\ at'[h] = p /\ \A g \in Handlers : g # h => at'[g] = at[g]
        /\ \A g \in Handlers : target'[g] = target[g]
    BY <2>1, StepMoves
  <2>4. \A s : Filling(s) => Filling(s)'
    BY <2>1, <2>3 DEF Filling
  <2>5. TablesInv'
    BY <2>1, <2>3, <2>4 DEF TablesInv
  <2>. QED  BY <2>2, <2>5
<1>2. CASE DlopenFails(h)
  BY <1>2, LeaveStep DEF DlopenFails
<1>3. CASE Dlopen(h)
  <2>1. /\ Goto(h, "get") /\ UNCHANGED <<target, method, status, reasons>>
        /\ at[h] = "dlopen" /\ UNCHANGED <<getservices, postservices>>
    BY <1>3 DEF Dlopen, Step
  <2>2. TablesTyped' /\ ReasonsInv'
    BY <2>1, StepMoves, WithinService DEF ServicePlaces
  <2>3. TablesInv'
    BY <2>1, StepMoves, TablesKept DEF Places
  <2>. QED  BY <2>2, <2>3
<1>4. CASE Dlsym(h, "get", "insget", "post")
  <2>1. PICK p \in {"insget", "post"} :
           /\ Goto(h, p) /\ UNCHANGED <<target, method, status, reasons>>
           /\ at[h] = "get" /\ UNCHANGED <<getservices, postservices>>
           /\ p = "post" => "get" \notin Exports[target[h]]
    BY <1>4 DEF Dlsym, Step
  <2>2. TablesTyped' /\ ReasonsInv'
    BY <2>1, StepMoves, WithinService DEF ServicePlaces
  <2>3. /\ at'[h] = p /\ \A g \in Handlers : g # h => at'[g] = at[g]
        /\ \A g \in Handlers : target'[g] = target[g]
    BY <2>1, StepMoves
  <2>4. \A s : Filling(s) => Filling(s)'
    BY <2>1, <2>3 DEF Filling
  <2>5. TablesInv'
    BY <2>1, <2>3, <2>4 DEF TablesInv
  <2>. QED  BY <2>2, <2>5
<1>5. CASE InsertedGet(h)
  <2>1. /\ Goto(h, "post") /\ UNCHANGED <<target, method, status, reasons>>
        /\ at[h] = "insget" /\ getservices' = getservices \cup {target[h]}
        /\ postservices' = postservices
    BY <1>5 DEF InsertedGet
  <2>2. TablesTyped' /\ ReasonsInv'
    BY <2>1, StepMoves, WithinService DEF ServicePlaces
  <2>3. /\ at'[h] = "post" /\ \A g \in Handlers : g # h => at'[g] = at[g]
        /\ \A g \in Handlers : target'[g] = target[g]
    BY <2>1, StepMoves
  <2>4. (\A s : Filling(s) => Filling(s)') /\ Filling(target[h])'
    BY <2>1, <2>3 DEF Filling
  <2>5. TablesInv'
    BY <2>1, <2>3, <2>4 DEF TablesInv
  <2>. QED  BY <2>2, <2>5
<1>6. CASE Dlsym(h, "post", "inspost", "call")
  <2>1. PICK p \in {"inspost", "call"} :
           /\ Goto(h, p) /\ UNCHANGED <<target, method, status, reasons>>
           /\ at[h] = "post" /\ UNCHANGED <<getservices, postservices>>
           /\ p = "inspost" <=> "post" \in Exports[target[h]]
    BY <1>6 DEF Dlsym, Step
  <2>2. TablesTyped' /\ ReasonsInv'
    BY <2>1, StepMoves, WithinService DEF ServicePlaces
  <2>3. /\ at'[h] = p /\ \A g \in Handlers : g # h => at'[g] = at[g]
        /\ \A g \in Handlers : target'[g] = target[g]
    BY <2>1, StepMoves
  <2>4. \A s : Filling(s) /\ "post" \in Exports[s] => Filling(s)'
    BY <2>1, <2>3 DEF Filling
  <2>5. TablesInv'
    BY <2>1, <2>3, <2>4 DEF TablesInv
  <2>. QED  BY <2>2, <2>5
<1>7. CASE InsertedPost(h)
  <2>1. /\ Goto(h, "call") /\ UNCHANGED <<target, method, status, reasons>>
        /\ at[h] = "inspost" /\ postservices' = postservices \cup {target[h]}
        /\ getservices' = getservices
    BY <1>7 DEF InsertedPost
  <2>2. TablesTyped' /\ ReasonsInv'
    BY <2>1, StepMoves, WithinService DEF ServicePlaces
  <2>3. /\ at'[h] = "call" /\ \A g \in Handlers : g # h => at'[g] = at[g]
        /\ \A g \in Handlers : target'[g] = target[g]
    BY <2>1, StepMoves
  <2>4. \A s : Filling(s) => Filling(s)' \/ s \in postservices'
    BY <2>1, <2>3 DEF Filling
  <2>5. TablesInv'
    BY <2>1, <2>3, <2>4 DEF TablesInv
  <2>. QED  BY <2>2, <2>5
<1>8. CASE Call(h)
  <2>1. \E st \in Statuses : Respond(h, st)
    BY <1>8 DEF Call, Statuses, Errors
  <2>. QED  BY <1>8, <2>1, LeaveStep DEF Call
<1>. QED  BY <1>1, <1>2, <1>3, <1>4, <1>5, <1>6, <1>7, <1>8 DEF ServiceStep

\* The text of the status is looked up, and the table filled (status.hpp:16-29).
LEMMA ReasonStep ==
    ASSUME FillInv, ~raced, NEW h \in Handlers, LookUp(h) \/ FillFirst(h) \/ FillRest(h)
    PROVE  FillInv'
<1>. USE DEF FillInv
<1>1. CASE LookUp(h) /\ reasons # {}
  BY <1>1, LeaveStep DEF LookUp
<1>2. CASE LookUp(h) /\ reasons = {}
  <2>1. /\ Goto(h, "fill")
        /\ UNCHANGED <<target, method, status, getservices, postservices>>
        /\ at[h] = "reason" /\ reasons' = {}
        /\ raced' = \E g \in Handlers : at[g] = "fill"
    BY <1>2 DEF LookUp
  <2>2. target[h] \in Services \cup {NoFile}
    BY DEF TablesTyped
  <2>3. TablesTyped' /\ TablesInv'
    BY <2>1, <2>2, StepMoves, TypedStep, TablesKept DEF Places, ServicePlaces
  <2>4. at'[h] = "fill" /\ \A g \in Handlers : g # h => at'[g] = at[g]
    BY <2>1, StepMoves
  <2>5. ~raced' => \A g \in Handlers : at'[g] = "fill" => g = h
    BY <2>1, <2>4
  <2>6. \A g \in Handlers : at'[g] # "fillrest"
    BY <1>2, <2>4 DEF ReasonsInv
  <2>7. ReasonsInv'
    BY <2>1, <2>5, <2>6 DEF ReasonsInv
  <2>. QED  BY <2>3, <2>7
<1>3. CASE FillFirst(h)
  <2>1. /\ Goto(h, "fillrest")
        /\ UNCHANGED <<target, method, status, getservices, postservices>>
        /\ at[h] = "fill" /\ reasons' = {"ok"}
    BY <1>3 DEF FillFirst
  <2>2. target[h] \in Services \cup {NoFile}
    BY DEF TablesTyped
  <2>3. TablesTyped' /\ TablesInv'
    BY <2>1, <2>2, StepMoves, TypedStep, TablesKept DEF Places, ServicePlaces
  <2>4. ReasonsInv'
    BY <2>1, StepMoves DEF ReasonsInv
  <2>. QED  BY <2>3, <2>4
<1>4. CASE FillRest(h)
  <2>1. /\ Moves(h, "idle", NoFile) /\ at[h] = "fillrest" /\ reasons' = Statuses
        /\ method' = [method EXCEPT ![h] = "get"]
        /\ status' = [status EXCEPT ![h] = "internal_server_error"]
        /\ UNCHANGED <<getservices, postservices>>
    BY <1>4 DEF FillRest, Return, Goto, Moves
  <2>2. TablesTyped'
    BY <2>1, TypedStep DEF Places, ServicePlaces, Statuses, Errors
  <2>3. TablesInv'
    BY <2>1, TablesKept DEF Places
  <2>4. ReasonsInv'
    BY <2>1 DEF ReasonsInv, Moves, TablesTyped, Statuses
  <2>. QED  BY <2>2, <2>3, <2>4
<1>. QED  BY <1>1, <1>2, <1>3, <1>4

\* The inductive invariant holds throughout (Gateway.cpp:50-186, status.hpp).
THEOREM FillInvariant == HostSpec => []FillInv
<1>1. HostInit => FillInv
  BY DEF HostInit, FillInv, TablesTyped, TablesInv, ReasonsInv, Places, ServicePlaces,
         Statuses, Errors
<1>2. FillInv /\ [HostNext]_hostvars => FillInv'
  <2>. SUFFICES ASSUME FillInv, [HostNext]_hostvars PROVE FillInv'
    OBVIOUS
  <2>1. CASE HostNext
    BY <2>1, BranchStep, ServiceInv, ReasonStep DEF HostNext
  <2>2. CASE UNCHANGED hostvars
    BY <2>2 DEF hostvars, dvars, fvars, FillInv, TablesTyped, TablesInv, ReasonsInv, Filling
  <2>. QED  BY <2>1, <2>2
<1>. QED  BY <1>1, <1>2, PTL DEF HostSpec

-----------------------------------------------------------------------------
\* A service that a library exports is refused, or an error has no reason, only
\* while another handler is filling the table (Gateway.cpp:87-128, status.hpp).
THEOREM MissingOnlyWhileFilling == HostSpec => []OnlyWhileFilling
<1>1. FillInv => OnlyWhileFilling
  <2>. SUFFICES ASSUME FillInv, NEW h \in Handlers
                PROVE  /\ at[h] = "call" /\ ~HasEntry(h) /\ method[h] \in Exports[target[h]] =>
                            \E g \in Handlers \ {h} :
                               at[g] \in {"post", "inspost"} /\ target[g] = target[h]
                       /\ at[h] = "reason" /\ reasons # {} /\ status[h] \notin reasons =>
                            \E g \in Handlers \ {h} : at[g] = "fillrest"
    BY DEF OnlyWhileFilling
  <2>1. method[h] \in {"get", "post"} /\ status[h] \in Statuses
    BY DEF FillInv, TablesTyped
  <2>. QED  BY <2>1 DEF FillInv, TablesInv, ReasonsInv, HasEntry, Filling
<1>. QED  BY <1>1, FillInvariant, PTL

-----------------------------------------------------------------------------
(* The cache of the host                                                    *)

\* A step is one of the cache, or leaves the cache as it is.
LEMMA InCacheOrNot ==
    ASSUME HostNext
    PROVE  \/ /\ capacity' = capacity
              /\ \E h \in Handlers : HandlerStep(h) \/ \E f \in Files : Serve(h, f)
           \/ CacheUntouched
<1>. PICK h \in Handlers :
        \/ ServeFile(h) \/ ServeService(h) \/ Refuse(h)
        \/ CacheStep(h) \/ ServiceStep(h)
        \/ LookUp(h) \/ FillFirst(h) \/ FillRest(h)
  BY DEF HostNext
<1>1. CASE ServeFile(h) \/ CacheStep(h)
  BY <1>1 DEF ServeFile, CacheStep
<1>2. CASE ServiceStep(h)
  BY <1>2 DEF ServiceStep, FindServices, DlopenFails, Dlopen, Dlsym, InsertedGet,
              InsertedPost, Call, Step
<1>3. CASE ServeService(h) \/ Refuse(h) \/ LookUp(h) \/ FillFirst(h) \/ FillRest(h)
  BY <1>3 DEF ServeService, Refuse, LookUp, FillFirst, FillRest
<1>. QED  BY <1>1, <1>2, <1>3

\* The invariant of the cache holds whatever branches its handlers take
\* (Gateway.cpp:50-186, filecaches.hpp).
THEOREM CacheInvariant == HostSpec => []CacheInv
<1>1. HostInit => CacheInv
  BY CacheInitInv DEF HostInit
<1>2. CacheInv /\ [HostNext]_hostvars => CacheInv'
  <2>. SUFFICES ASSUME CacheInv, [HostNext]_hostvars PROVE CacheInv'
    OBVIOUS
  <2>1. CASE HostNext
    BY <2>1, InCacheOrNot, CacheStepInv, CacheStill DEF CacheUntouched
  <2>2. CASE UNCHANGED hostvars
    BY <2>2, CacheStill DEF hostvars, fvars
  <2>. QED  BY <2>1, <2>2
<1>. QED  BY <1>1, <1>2, PTL DEF HostSpec

\* The types of what is left
RestTyped ==
    /\ raced \in BOOLEAN
    /\ getservices \subseteq Services /\ postservices \subseteq Services
    /\ reasons \in {{}, {"ok"}, Statuses}

LEMMA RestStep ==
    ASSUME TablesTyped, RestTyped, HostNext
    PROVE  RestTyped'
<1>. PICK h \in Handlers :
        \/ ServeFile(h) \/ ServeService(h) \/ Refuse(h)
        \/ CacheStep(h) \/ ServiceStep(h)
        \/ LookUp(h) \/ FillFirst(h) \/ FillRest(h)
  BY DEF HostNext
<1>1. CASE ServeFile(h) \/ ServeService(h) \/ Refuse(h)
  BY <1>1 DEF RestTyped, ServeFile, Serve, ServeService, Refuse
<1>2. CASE CacheStep(h)
  <2>1. UNCHANGED <<getservices, postservices, reasons>> /\ HandlerStep(h)
    BY <1>2 DEF CacheStep
  <2>2. raced' \in BOOLEAN
    BY <2>1 DEF RestTyped, HandlerStep, Enter, GetMiss, GetHit, SetLoad, SetAgain, Write
  <2>. QED  BY <2>1, <2>2 DEF RestTyped
<1>3. CASE ServiceStep(h)
  <2>1. at[h] \in ServicePlaces => target[h] \in Services
    BY DEF TablesTyped
  <2>2. CASE InsertedGet(h) \/ InsertedPost(h)
    BY <2>1, <2>2 DEF RestTyped, InsertedGet, InsertedPost, ServicePlaces
  <2>3. CASE FindServices(h) \/ DlopenFails(h) \/ Dlopen(h) \/ Call(h)
    BY <2>3 DEF RestTyped, FindServices, DlopenFails, Dlopen, Call, Step, Inserting
  <2>4. CASE Dlsym(h, "get", "insget", "post") \/ Dlsym(h, "post", "inspost", "call")
    BY <2>4 DEF RestTyped, Dlsym, Step, Inserting
  <2>. QED  BY <1>3, <2>2, <2>3, <2>4 DEF ServiceStep
<1>4. CASE LookUp(h) \/ FillFirst(h) \/ FillRest(h)
  BY <1>4 DEF RestTyped, LookUp, FillFirst, FillRest
<1>. QED  BY <1>1, <1>2, <1>3, <1>4

\* Every variable of the host keeps its type (Gateway.cpp, filecaches.hpp,
\* status.hpp).
THEOREM HostTypeCorrect == HostSpec => []HostTypeOK
<1>1. HostInit => RestTyped
  BY DEF HostInit, FCInit, RestTyped
<1>2. TablesTyped /\ RestTyped /\ [HostNext]_hostvars => RestTyped'
  BY RestStep DEF hostvars, dvars, fvars, RestTyped
<1>3. CacheInv /\ FillInv /\ RestTyped => HostTypeOK
  BY DEF CacheInv, CacheTyped, Maps, FillInv, TablesTyped, Places, RestTyped,
         HostTypeOK, FCTypeOK
<1>4. FillInv => TablesTyped
  BY DEF FillInv
<1>. QED  BY <1>1, <1>2, <1>3, <1>4, CacheInvariant, FillInvariant, PTL DEF HostSpec

\* Evictions that forget the entry, and handlers that load the same file, never
\* make the list outgrow its capacity, nor link a node or cache a file twice
\* (filecaches.hpp:30-43).
THEOREM ListAlwaysSound == HostSpec => []ListSound
<1>1. CacheInv => ListSound
  <2>. SUFFICES ASSUME CacheInv PROVE ListSound
    OBVIOUS
  <2>1. DOMAIN cachelist = 1..Len(cachelist)
    BY OrderOfNodes
  <2>2. IsInjective([i \in DOMAIN cachelist |-> fptr[cachelist[i]]])
    BY <2>1, OrderOfNodes DEF IsInjective
  <2>. QED  BY <2>2 DEF ListSound, CacheInv, ListInv
<1>. QED  BY <1>1, CacheInvariant, PTL

\* While the files requested, which are finitely many, fit in the cache, map and
\* list agree (filecaches.hpp:22-43).
THEOREM MapAndListAgree ==
    ASSUME IsFiniteSet(Files)
    PROVE  HostSpec => []MapMatchesList
<1>1. CacheInv => MapMatchesList
  BY DEF CacheInv, FitInv, ListInv, AllFit, MapMatchesList
<1>. QED  BY <1>1, CacheInvariant, PTL

\* and every handler sends the file that its request names, whatever others load
\* between its calls of get, get and set (Gateway.cpp:149-168).
THEOREM RequestedIsServed ==
    ASSUME IsFiniteSet(Files)
    PROVE  HostSpec => []ServedWhenFits
<1>1. CacheInv => ServedWhenFits
  BY DEF CacheInv, FitInv, AllFit, ServedWhenFits
<1>. QED  BY <1>1, CacheInvariant, PTL

\* Evictions included, the cache is the bounded least-recently-used list of
\* LruCache in every step taken while no handler asks for a file that was
\* evicted before (Gateway.cpp:149-168, filecaches.hpp).
THEOREM LruImplemented == HostSpec => ImplementsLru
<1>. DEFINE Fresh == \A h \in Handlers : pc[h] # "idle" => ~Stale(path[h])
<1>1. HostInit => Lru!Init
  BY LruInit DEF HostInit
<1>2. CacheInv /\ [HostNext]_hostvars => [Fresh => Lru!Next]_lruvars
  <2>. SUFFICES ASSUME CacheInv, [HostNext]_hostvars, Fresh
                PROVE  [Lru!Next]_lruvars
    OBVIOUS
  <2>1. CASE UNCHANGED <<capacity, cachelist, fptr, pc, path, filenode>>
    BY <2>1 DEF lruvars, lruOrder, lruWants, lruHanded
  <2>2. CASE HostNext
    BY <2>1, <2>2, InCacheOrNot, LruStep DEF CacheUntouched
  <2>. QED  BY <2>1, <2>2 DEF hostvars, fvars
<1>3. HostSpec => Lru!Init /\ [][Fresh => Lru!Next]_lruvars
  BY <1>1, <1>2, CacheInvariant, PTL DEF HostSpec
<1>. QED  BY <1>3 DEF ImplementsLru, lruvars
=============================================================================
