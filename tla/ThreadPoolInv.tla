--------------------------- MODULE ThreadPoolInv ----------------------------
(***************************************************************************)
(* The inductive invariant of ThreadPool, and the abstract pool it         *)
(* implements.  What the invariant says about tasks, lists and the counter *)
(* (PoolInv) does not depend on the mutexes; what it says about locks and  *)
(* node counters (LockInv) holds as long as every push held its mutex.     *)
(***************************************************************************)
EXTENDS ThreadPool

\* The front task of these workers is done but still linked in the list ...
Retired(w) == wpc[w] \in {"lock2", "test2", "load", "store", "unhook"}

\* ... and these have yet to decrement the counter for it.
Retiring == {w \in Workers : Retired(w) \/ wpc[w] = "count"}

\* These workers found their list not empty and have not popped since.
Busy(w) == wpc[w] \in {"check", "running"} \/ Retired(w)

\* emplace_back has a number for its task but has not linked it yet.
Unlinked == sub.pc \in {"lock", "test", "hook"}

-----------------------------------------------------------------------------
\* What taskcnt is while nobody destroys the pool: the tasks counted so far,
\* minus those finished, plus those finished and not yet counted off.
Accounting ==
    ~Destroying =>
        /\ workercnt = WorkerCnt
        /\ \A w \in Workers : wpc[w] # "exited"
        /\ taskcnt = nsub - (IF Submitting THEN 1 ELSE 0)
                     - Cardinality(done) + Cardinality(Retiring)

\* thread_id stays in range until the next call picks another one.
TidInv == Submitting => sub.tid \in Workers /\ nsub > 0

BusyInv == \A w \in Workers : Busy(w) => list[w] # <<>>

\* The lists hold submitted tasks, each at one place.
LinkedInv ==
    \A w \in Workers : \A i \in DOMAIN list[w] :
        /\ list[w][i] <= nsub
        /\ Unlinked => list[w][i] # nsub
        /\ \A v \in Workers : \A j \in DOMAIN list[v] :
                list[w][i] = list[v][j] => v = w /\ i = j

\* A linked task is done exactly if it is at the front of the list of a worker
\* that ran it and has not popped it.
DoneInv ==
    /\ \A t \in done : t <= nsub
    /\ Unlinked => nsub \notin done
    /\ \A w \in Workers : \A i \in DOMAIN list[w] :
            list[w][i] \in done <=> i = 1 /\ Retired(w)

\* The tasks of the pool: each is unlinked, in one list, or done, and the
\* counter agrees with them.
PoolInv ==
    /\ TypeOK /\ TidInv /\ BusyInv /\ LinkedInv /\ DoneInv /\ Accounting

-----------------------------------------------------------------------------
SubAt(w, pcs) == sub.tid = w /\ sub.pc \in pcs

\* Who holds the mutex of w, and who must.
MutexInv(w) ==
    /\ mutex[w] = "sub" <=> SubAt(w, {"test", "hook", "load", "store"})
    /\ wpc[w] \in {"test", "block", "test2"} => mutex[w] = "wrk"
    /\ mutex[w] = "wrk" =>
            wpc[w] \in {"test", "block", "test2", "load", "store", "unhook"}

\* The node counter differs from the length of the list only by a push that has
\* linked its node and not counted it, and a pop that has counted its node off
\* and not unlinked it.  A push begins at one node at most and a pop releases
\* the mutex at two, so they never change the counter at the same time.
CounterInv(w) ==
    /\ size[w] = Len(list[w]) - (IF SubAt(w, {"load", "store"}) THEN 1 ELSE 0)
                              - (IF wpc[w] = "unhook" THEN 1 ELSE 0)
    /\ size[w] <= 2
    /\ wpc[w] = "store" => wreg[w] = size[w]
    /\ SubAt(w, {"store"}) => sub.reg = size[w]
    /\ SubAt(w, {"hook", "load", "store"}) => size[w] <= 1
    /\ mutex[w] # "wrk" =>
            /\ wpc[w] \in {"load", "store"} => size[w] = 2
            /\ wpc[w] = "unhook" => size[w] >= 1

\* A worker that decided to sleep saw an empty list, and if that has changed
\* since, the notification is still to come.
SleepInv(w) ==
    /\ wpc[w] = "block" => list[w] = <<>>
    /\ wpc[w] = "waiting" /\ list[w] # <<>> => SubAt(w, {"load", "store", "notify"})

\* Locks, node counters and sleep, while every push held the mutex.
LockInv ==
    race = "none" =>
        \A w \in Workers : MutexInv(w) /\ CounterInv(w) /\ SleepInv(w)

-----------------------------------------------------------------------------
\* The pool as its caller sees it
accepted == IF Unlinked THEN nsub - 1 ELSE nsub
runs     == [w \in Workers |-> IF wpc[w] = "running" THEN Head(list[w]) ELSE 0]

TP == INSTANCE TaskPool

\* The pool keeps the promise of TaskPool: linking a task accepts it, the exit
\* test that a worker passes starts its front task, and making the future ready
\* finishes it; every other step of the lists, mutexes, condition variables and
\* counters changes nothing the caller can see.  (Until a list may be torn.)
ImplementsTaskPool ==
    TP!Init /\ [][race' # "torn" => TP!Next]_<<accepted, runs, done>>
=============================================================================
