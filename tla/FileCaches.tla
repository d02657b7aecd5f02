----------------------------- MODULE FileCaches -----------------------------
(***************************************************************************)
(* simpleweb::filecaches (src/src/filecaches.hpp), the cache of mapped     *)
(* files of one host, as host::serve (src/src/Gateway.cpp) uses it: get to *)
(* look, then get again to fetch a file that is there, or set to load one  *)
(* that is not.                                                            *)
(*                                                                         *)
(* A fileNode of the std::list is known by its address.  The allocator may *)
(* give a freed address to a later node; an iterator kept in cachemap_     *)
(* then leads to that node.  If it leads to memory that is not a node, ub  *)
(* is set.                                                                 *)
(*                                                                         *)
(* Requests run on the threads of the pool, and nothing orders their calls.*)
(* A call is entered in one step and takes effect and returns in another;  *)
(* when two calls overlap and one of them changes the cache, which is a    *)
(* data race, raced is set.  Nothing happens after ub or raced: C++ says   *)
(* nothing of the state from there on, and no property here claims         *)
(* anything.                                                               *)
(***************************************************************************)
EXTENDS Naturals, FiniteSets, SequencesExt

CONSTANTS Handlers,  \* pool threads that serve static files of the host
          Files,     \* paths of the files requested
          NoFile,
          Nodes,     \* addresses the allocator gives to list nodes
          Capacities \* values of cachesnum in the configuration

ASSUME CacheAssumption ==
    /\ NoFile \notin Files
    /\ Capacities \subseteq Nat \ {0}

VARIABLES
    capacity,
    cachemap,   \* path |-> address, for the paths in cachemap_
    cachelist,  \* addresses of the nodes of cachelist_, front first
    fptr,       \* the file that the node at an address was made for
    pc,         \* where in host::serve a handler is
    path,       \* filepath of its request
    filenode,   \* the file of its local copy of a node
    ub, raced

fvars == <<capacity, cachemap, cachelist, fptr, pc, path, filenode, ub, raced>>

-----------------------------------------------------------------------------
\* Inside get, the second get, or set
InCall(h) == pc[h] \in {"get", "get2", "set"}

\* A call that changes the cache: every one but a get that finds nothing
Writes(h, call) == call \in {"get2", "set"} \/ path[h] \in DOMAIN cachemap

FCTypeOK ==
    /\ capacity \in Capacities
    /\ cachemap \in UNION {[S -> Nodes] : S \in SUBSET Files}
    /\ cachelist \in Seq(Nodes)
    /\ fptr \in [Nodes -> Files \cup {NoFile}]
    /\ pc \in [Handlers -> {"idle", "ready", "get", "hit", "get2", "miss", "set", "write"}]
    /\ path \in [Handlers -> Files \cup {NoFile}]
    /\ filenode \in [Handlers -> Files \cup {NoFile}]
    /\ \A h \in Handlers : pc[h] = "write" => filenode[h] \in Files
    /\ ub \in BOOLEAN /\ raced \in BOOLEAN

FCInit ==
    /\ capacity \in Capacities
    /\ cachemap = [f \in {} |-> NoFile]
    /\ cachelist = <<>>
    /\ fptr = [n \in Nodes |-> NoFile]
    /\ pc = [h \in Handlers |-> "idle"]
    /\ path = [h \in Handlers |-> NoFile]
    /\ filenode = [h \in Handlers |-> NoFile]
    /\ ub = FALSE /\ raced = FALSE

\* Mutant of Splice: the node goes to the back
SpliceBack(n) == Append(Remove(cachelist, n), n)

\* cachelist_.splice(cachelist_.begin(), cachelist_, it)
Splice(n) ==
    LET i == CHOOSE i \in DOMAIN cachelist : cachelist[i] = n
    IN  Cons(n, RemoveAt(cachelist, i))

\* fileNode(filepath) sets fptr and leaves name empty: the key erased for the
\* evicted node is the path of no file.
ErasedKey(n) == NoFile

\* Mutant of Full: one node too many
FullLate == Len(cachelist) > capacity

Full == Len(cachelist) = capacity

MapWithout(key) == [f \in DOMAIN cachemap \ {key} |-> cachemap[f]]

MapWith(map, f, n) == [g \in DOMAIN map \cup {f} |-> IF g = f THEN n ELSE map[g]]

-----------------------------------------------------------------------------
\* serve takes the branch of a static file that access() finds readable
Serve(h, f) ==
    /\ pc[h] = "idle"
    /\ path' = [path EXCEPT ![h] = f]
    /\ pc' = [pc EXCEPT ![h] = "ready"]
    /\ UNCHANGED <<cachemap, cachelist, fptr, filenode, ub, raced>>

Enter(h, from, call) ==
    /\ pc[h] = from
    /\ pc' = [pc EXCEPT ![h] = call]
    /\ raced' = \E g \in Handlers \ {h} :
                    InCall(g) /\ (Writes(g, pc[g]) \/ Writes(h, call))
    /\ UNCHANGED <<cachemap, cachelist, fptr, path, filenode, ub>>

\* get finds no entry and returns end()
GetMiss(h) ==
    /\ pc[h] \in {"get", "get2"}
    /\ path[h] \notin DOMAIN cachemap
    /\ IF pc[h] = "get"
       THEN pc' = [pc EXCEPT ![h] = "miss"] /\ UNCHANGED ub
       ELSE ub' = TRUE /\ UNCHANGED pc     \* *end() is copied
    /\ UNCHANGED <<cachemap, cachelist, fptr, path, filenode, raced>>

\* Mutant of GetHit: the front is returned, but nothing was moved there
GetHitFront(h) ==
    /\ pc[h] \in {"get", "get2"}
    /\ path[h] \in DOMAIN cachemap
    /\ IF pc[h] = "get"
       THEN pc' = [pc EXCEPT ![h] = "hit"] /\ UNCHANGED filenode
       ELSE /\ pc' = [pc EXCEPT ![h] = "write"]
            /\ filenode' = [filenode EXCEPT ![h] = fptr[Head(cachelist)]]
    /\ UNCHANGED <<cachemap, cachelist, fptr, path, ub, raced>>

\* get moves the node of the entry to the front, and stores and returns the
\* front; the second get of serve copies the node
GetHit(h) ==
    /\ pc[h] \in {"get", "get2"}
    /\ path[h] \in DOMAIN cachemap
    /\ \/ /\ cachemap[path[h]] \notin ToSet(cachelist)
          /\ ub' = TRUE
          /\ UNCHANGED <<cachemap, cachelist, pc, filenode>>
       \/ /\ cachemap[path[h]] \in ToSet(cachelist)
          /\ cachelist' = Splice(cachemap[path[h]])
          /\ cachemap' = MapWith(cachemap, path[h], Head(cachelist'))
          /\ IF pc[h] = "get"
             THEN pc' = [pc EXCEPT ![h] = "hit"] /\ UNCHANGED filenode
             ELSE /\ pc' = [pc EXCEPT ![h] = "write"]
                  /\ filenode' = [filenode EXCEPT ![h] = fptr[Head(cachelist')]]
          /\ UNCHANGED ub
    /\ UNCHANGED <<fptr, path, raced>>

\* Mutant of SetLoad: a default fileNode is returned
SetLoadEmpty(h) ==
    /\ pc[h] = "set"
    /\ path[h] \notin DOMAIN cachemap
    /\ \E n \in Nodes \ ToSet(cachelist) :
          /\ fptr' = [fptr EXCEPT ![n] = path[h]]
          /\ cachelist' = Cons(n, cachelist)
          /\ cachemap' = MapWith(cachemap, path[h], n)
    /\ pc' = [pc EXCEPT ![h] = "write"]
    /\ UNCHANGED <<path, filenode, ub, raced>>

\* set loads a file that has no entry, after evicting the back of a full list
SetLoad(h) ==
    /\ pc[h] = "set"
    /\ path[h] \notin DOMAIN cachemap
    /\ LET rest == IF Full THEN Front(cachelist) ELSE cachelist
           map  == IF Full THEN MapWithout(ErasedKey(Last(cachelist))) ELSE cachemap
       IN  \E n \in Nodes \ ToSet(rest) :
             /\ fptr' = [fptr EXCEPT ![n] = path[h]]
             /\ cachelist' = Cons(n, rest)
             /\ cachemap' = MapWith(map, path[h], n)
             /\ filenode' = [filenode EXCEPT ![h] = path[h]]
    /\ pc' = [pc EXCEPT ![h] = "write"]
    /\ UNCHANGED <<path, ub, raced>>

\* Mutant of SetAgain: a second node for the same file
SetAgainTwice(h) ==
    /\ pc[h] = "set"
    /\ path[h] \in DOMAIN cachemap
    /\ \E n \in Nodes \ ToSet(cachelist) :
          /\ fptr' = [fptr EXCEPT ![n] = path[h]]
          /\ cachelist' = Cons(n, cachelist)
          /\ cachemap' = MapWith(cachemap, path[h], n)
    /\ filenode' = [filenode EXCEPT ![h] = path[h]]
    /\ pc' = [pc EXCEPT ![h] = "write"]
    /\ UNCHANGED <<path, ub, raced>>

\* another handler has loaded the file meanwhile: set loads it again into the
\* same node
SetAgain(h) ==
    /\ pc[h] = "set"
    /\ path[h] \in DOMAIN cachemap
    /\ LET n == cachemap[path[h]] IN
       \/ /\ n \notin ToSet(cachelist)
          /\ ub' = TRUE
          /\ UNCHANGED <<cachemap, cachelist, fptr, pc, filenode>>
       \/ /\ n \in ToSet(cachelist)
          /\ fptr' = [fptr EXCEPT ![n] = path[h]]
          /\ cachelist' = Splice(n)
          /\ cachemap' = MapWith(cachemap, path[h], Head(cachelist'))
          /\ filenode' = [filenode EXCEPT ![h] = fptr'[Head(cachelist')]]
          /\ pc' = [pc EXCEPT ![h] = "write"]
          /\ UNCHANGED ub
    /\ UNCHANGED <<path, raced>>

\* write(conn,res_ser) sends the file of filenode; serve returns
Write(h) ==
    /\ pc[h] = "write"
    /\ pc' = [pc EXCEPT ![h] = "idle"]
    /\ path' = [path EXCEPT ![h] = NoFile]
    /\ filenode' = [filenode EXCEPT ![h] = NoFile]
    /\ UNCHANGED <<cachemap, cachelist, fptr, ub, raced>>

HandlerStep(h) ==
    \/ Enter(h, "ready", "get") \/ Enter(h, "hit", "get2") \/ Enter(h, "miss", "set")
    \/ GetMiss(h) \/ GetHit(h) \/ SetLoad(h) \/ SetAgain(h) \/ Write(h)

FCNext ==
    /\ ~ub /\ ~raced
    /\ UNCHANGED capacity
    /\ \E h \in Handlers : HandlerStep(h) \/ \E f \in Files : Serve(h, f)

FCSpec == FCInit /\ [][FCNext]_fvars

-----------------------------------------------------------------------------
\* No file will ever be evicted.
Fits == Cardinality(Files) <= capacity

\* f was evicted and its entry was left in the map.
Stale(f) ==
    f \in DOMAIN cachemap
        /\ (cachemap[f] \notin ToSet(cachelist) \/ fptr[cachemap[f]] # f)

\* A handler answers with the file that the request names.
ServedIsRequested ==
    \A h \in Handlers : pc[h] = "write" => filenode[h] = path[h]

\* It does if all the files fit, whatever other handlers load between its calls.
ServedWhenFits == Fits => ServedIsRequested

\* The map and the list agree if all the files fit: every entry leads to a node
\* made for its path, and every node has its entry.
MapMatchesList ==
    Fits /\ ~ub /\ ~raced =>
        /\ \A f \in DOMAIN cachemap :
               cachemap[f] \in ToSet(cachelist) /\ fptr[cachemap[f]] = f
        /\ \A n \in ToSet(cachelist) :
               fptr[n] \in DOMAIN cachemap /\ cachemap[fptr[n]] = n

\* Whatever entries the map keeps, the list stays within the capacity, no node
\* is linked twice and no file is cached twice.
ListSound ==
    /\ Len(cachelist) <= capacity
    /\ IsInjective(cachelist)
    /\ IsInjective([i \in DOMAIN cachelist |-> fptr[cachelist[i]]])

lruOrder == [i \in DOMAIN cachelist |-> fptr[cachelist[i]]]
lruWants == [h \in Handlers |-> IF pc[h] = "idle" THEN NoFile ELSE path[h]]
lruHanded == [h \in Handlers |-> IF pc[h] = "write" THEN filenode[h] ELSE NoFile]

Lru == INSTANCE LruCache WITH
    limit <- capacity, order <- lruOrder, wants <- lruWants, handed <- lruHanded

\* The cache is a bounded least-recently-used list that answers with the file
\* asked for, evictions included, in every step taken while no handler asks for
\* a file that was evicted before.
ImplementsLru ==
    /\ Lru!Init
    /\ [][(\A h \in Handlers : pc[h] # "idle" => ~Stale(path[h])) => Lru!Next]_
            <<capacity, lruOrder, lruWants, lruHanded>>
=============================================================================
