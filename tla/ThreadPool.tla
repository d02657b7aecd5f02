----------------------------- MODULE ThreadPool -----------------------------
(***************************************************************************)
(* threadpool::ThreadPool (src/src/ThreadPool.hpp, ThreadPool.cpp): a      *)
(* fixed set of worker threads, each with a task list, a mutex and a       *)
(* condition variable of its own, and one atomic counter, taskcnt, that    *)
(* picks the list a new task goes to and also tells the workers to exit.   *)
(*                                                                         *)
(* One thread calls emplace_back and the destructor (the thread that runs  *)
(* Reactor::handle_events).  Every step below is one access to state that  *)
(* another thread can see.  A std::list is a sequence of tasks (its chain  *)
(* of nodes) and, apart from it, the node counter that size() returns:     *)
(* libstdc++ changes that counter with a plain load and store, so two      *)
(* unsynchronised changes can lose one.  Linking and unlinking a node are  *)
(* single steps (the last store of each).  That is exact while the list    *)
(* keeps another node between its two ends; a push or pop that runs        *)
(* without the mutex on a shorter list sets race to "torn": std::list      *)
(* promises nothing from there on, and no property here claims anything.   *)
(* Tasks are numbered in the order of the calls of emplace_back.           *)
(***************************************************************************)
EXTENDS Integers, Sequences, FiniteSets

CONSTANTS WorkerCnt,   \* threads of the pool (threadcnt of sw.conf)
          MaxTasks,    \* bound on the calls of emplace_back
          SizeMod      \* the list's node counter is an integer modulo SizeMod

ASSUME PoolAssumption ==
    /\ WorkerCnt \in Nat \ {0}
    /\ MaxTasks \in Nat
    /\ SizeMod \in Nat /\ SizeMod > 4

Workers == 0 .. WorkerCnt - 1
Tasks   == 1 .. MaxTasks

VARIABLES
    taskcnt,    \* std::atomic<int> taskcnt
    workercnt,  \* std::atomic<int> workercnt
    list,       \* the chain of nodes of list[w]
    size,       \* the node counter of list[w]
    mutex,      \* mvec[w]: "free", or held by "sub" or "wrk"
    sub,        \* the calling thread: its pc, thread_id and a register
    nsub,       \* calls of emplace_back so far; the last one's task
    wpc,        \* pc of each worker
    wreg,       \* register of each worker
    done,       \* tasks whose future is ready
    race        \* history: "none" while every push_back held the mutex,
                \* "unlocked" after one that did not, "torn" after an
                \* unlocked push or pop met a list of at most one node

pvars == <<taskcnt, workercnt, list, size, mutex, sub, nsub, wpc, wreg, done,
           race>>

-----------------------------------------------------------------------------
SubPc == {"idle", "lock", "test", "hook", "load", "store", "notify", "count",
          "d_max", "d_scan", "destroyed", "terminated"}

Destroying == sub.pc \in {"d_max", "d_scan", "destroyed", "terminated"}

WorkerPc == {"lock", "test", "block", "waiting", "woken", "check", "running",
             "lock2", "test2", "load", "store", "unhook", "count", "exited"}

\* Mutant of CRem: a divisor one too large
CRemWide(a, b) == IF a >= 0 THEN a % (b + 1) ELSE 0 - ((0 - a) % (b + 1))

\* The remainder of C++, which takes the sign of the dividend.
CRem(a, b) == IF a >= 0 THEN a % b ELSE 0 - ((0 - a) % b)

Running == {Head(list[w]) : w \in {v \in Workers : wpc[v] = "running"}}

TypeOK ==
    /\ taskcnt \in Int
    /\ workercnt \in Int
    /\ list \in [Workers -> Seq(Tasks)]
    /\ size \in [Workers -> 0 .. SizeMod - 1]
    /\ mutex \in [Workers -> {"free", "sub", "wrk"}]
    /\ sub \in [pc : SubPc, tid : Int, reg : Int, cleaner : {"join", "destroy"}]
    /\ nsub \in 0 .. MaxTasks
    /\ wpc \in [Workers -> WorkerPc]
    /\ wreg \in [Workers -> 0 .. SizeMod - 1]
    /\ done \in SUBSET Tasks
    /\ race \in {"none", "unlocked", "torn"}

Init ==
    /\ taskcnt = 0
    /\ workercnt = WorkerCnt
    /\ list = [w \in Workers |-> <<>>]
    /\ size = [w \in Workers |-> 0]
    /\ mutex = [w \in Workers |-> "free"]
    /\ sub = [pc |-> "idle", tid |-> 0, reg |-> 0, cleaner |-> "join"]
    /\ nsub = 0
    /\ wpc = [w \in Workers |-> "lock"]
    /\ wreg = [w \in Workers |-> 0]
    /\ done = {}
    /\ race = "none"

Release(w, owner) == IF mutex[w] = owner THEN [mutex EXCEPT ![w] = "free"] ELSE mutex

\* notify_one on cv_jobaddvec[w], whose only possible waiter is worker w
Wake(w) == IF wpc[w] = "waiting" THEN [wpc EXCEPT ![w] = "woken"] ELSE wpc

-----------------------------------------------------------------------------
(* ThreadPool::emplace_back, by the calling thread                          *)

\* thread_id = taskcnt.load() % workercnt
SubPick ==
    /\ sub.pc = "idle"
    /\ nsub < MaxTasks
    /\ nsub' = nsub + 1
    /\ sub' = [sub EXCEPT !.pc = "lock", !.tid = CRem(taskcnt, workercnt)]
    /\ UNCHANGED <<taskcnt, workercnt, list, size, mutex, wpc, wreg, done, race>>

SubLock ==
    /\ sub.pc = "lock"
    /\ mutex[sub.tid] = "free"
    /\ mutex' = [mutex EXCEPT ![sub.tid] = "sub"]
    /\ sub' = [sub EXCEPT !.pc = "test"]
    /\ UNCHANGED <<taskcnt, workercnt, list, size, nsub, wpc, wreg, done, race>>

\* Mutant of SubTest: one node more before the push leaves the mutex
SubTestLate ==
    /\ sub.pc = "test"
    /\ sub' = [sub EXCEPT !.pc = "hook"]
    /\ \/ size[sub.tid] <= 2 /\ UNCHANGED <<mutex, race>>
       \/ /\ size[sub.tid] > 2
          /\ mutex' = Release(sub.tid, "sub")
          /\ race' = IF race = "none" THEN "unlocked" ELSE race
    /\ UNCHANGED <<taskcnt, workercnt, list, size, nsub, wpc, wreg, done>>

\* with at most one node in the list the push stays under the mutex, with
\* more the mutex is released first
SubTest ==
    /\ sub.pc = "test"
    /\ sub' = [sub EXCEPT !.pc = "hook"]
    /\ \/ size[sub.tid] <= 1 /\ UNCHANGED <<mutex, race>>
       \/ /\ size[sub.tid] > 1
          /\ mutex' = Release(sub.tid, "sub")
          /\ race' = IF race = "none" THEN "unlocked" ELSE race
    /\ UNCHANGED <<taskcnt, workercnt, list, size, nsub, wpc, wreg, done>>

\* Mutant of SubHook: the node holds the task of the call before
SubHookStale ==
    /\ sub.pc = "hook"
    /\ list' = [list EXCEPT ![sub.tid] = Append(@, nsub - 1)]
    /\ race' = IF mutex[sub.tid] = "sub" \/ Len(list[sub.tid]) > 1 THEN race ELSE "torn"
    /\ sub' = [sub EXCEPT !.pc = "load"]
    /\ UNCHANGED <<taskcnt, workercnt, size, mutex, nsub, wpc, wreg, done>>

\* push_back links the node, then increments the counter (load and store)
SubHook ==
    /\ sub.pc = "hook"
    /\ list' = [list EXCEPT ![sub.tid] = Append(@, nsub)]
    /\ race' = IF mutex[sub.tid] = "sub" \/ Len(list[sub.tid]) > 1 THEN race ELSE "torn"
    /\ sub' = [sub EXCEPT !.pc = "load"]
    /\ UNCHANGED <<taskcnt, workercnt, size, mutex, nsub, wpc, wreg, done>>

SubLoad ==
    /\ sub.pc = "load"
    /\ sub' = [sub EXCEPT !.pc = "store", !.reg = size[sub.tid]]
    /\ UNCHANGED <<taskcnt, workercnt, list, size, mutex, nsub, wpc, wreg, done, race>>

SubStore ==
    /\ sub.pc = "store"
    /\ size' = [size EXCEPT ![sub.tid] = (sub.reg + 1) % SizeMod]
    /\ mutex' = Release(sub.tid, "sub")
    /\ sub' = [sub EXCEPT !.pc = "notify"]
    /\ UNCHANGED <<taskcnt, workercnt, list, nsub, wpc, wreg, done, race>>

\* Mutant of SubNotify: no notify_one
SubNotifyNobody ==
    /\ sub.pc = "notify"
    /\ sub' = [sub EXCEPT !.pc = "count"]
    /\ UNCHANGED <<taskcnt, workercnt, list, size, mutex, nsub, wpc, wreg, done, race>>

SubNotify ==
    /\ sub.pc = "notify"
    /\ wpc' = Wake(sub.tid)
    /\ sub' = [sub EXCEPT !.pc = "count"]
    /\ UNCHANGED <<taskcnt, workercnt, list, size, mutex, nsub, wreg, done, race>>

SubCount ==
    /\ sub.pc = "count"
    /\ taskcnt' = taskcnt + 1
    /\ sub' = [sub EXCEPT !.pc = "idle"]
    /\ UNCHANGED <<workercnt, list, size, mutex, nsub, wpc, wreg, done, race>>

-----------------------------------------------------------------------------
(* A worker thread: the loop of the constructor's lambda                    *)

WLock(w) ==
    /\ wpc[w] \in {"lock", "woken"}
    /\ mutex[w] = "free"
    /\ mutex' = [mutex EXCEPT ![w] = "wrk"]
    /\ wpc' = [wpc EXCEPT ![w] = "test"]
    /\ UNCHANGED <<taskcnt, workercnt, list, size, sub, nsub, wreg, done, race>>

\* Mutant of WTest: the mutex is released before the wait
WTestUnlocks(w) ==
    /\ wpc[w] = "test"
    /\ mutex' = Release(w, "wrk")
    /\ wpc' = [wpc EXCEPT ![w] = IF list[w] = <<>> THEN "block" ELSE "check"]
    /\ UNCHANGED <<taskcnt, workercnt, list, size, sub, nsub, wreg, done, race>>

\* list.empty() looks at the nodes, not at the counter
WTest(w) ==
    /\ wpc[w] = "test"
    /\ \/ /\ list[w] = <<>>
          /\ wpc' = [wpc EXCEPT ![w] = "block"]
          /\ UNCHANGED mutex
       \/ /\ list[w] # <<>>
          /\ wpc' = [wpc EXCEPT ![w] = "check"]
          /\ mutex' = Release(w, "wrk")
    /\ UNCHANGED <<taskcnt, workercnt, list, size, sub, nsub, wreg, done, race>>

\* the condition variable blocks the thread and releases the mutex at once
WBlock(w) ==
    /\ wpc[w] = "block"
    /\ mutex' = Release(w, "wrk")
    /\ wpc' = [wpc EXCEPT ![w] = "waiting"]
    /\ UNCHANGED <<taskcnt, workercnt, list, size, sub, nsub, wreg, done, race>>

\* a condition variable may return although nobody notified it
WSpurious(w) ==
    /\ wpc[w] = "waiting"
    /\ wpc' = [wpc EXCEPT ![w] = "woken"]
    /\ UNCHANGED <<taskcnt, workercnt, list, size, mutex, sub, nsub, wreg, done, race>>

\* Mutant of WCheck: a counter at zero or below is taken for the destructor's mark
WCheckEmpty(w) ==
    /\ wpc[w] = "check"
    /\ \/ /\ taskcnt > 0
          /\ wpc' = [wpc EXCEPT ![w] = "running"]
          /\ UNCHANGED workercnt
       \/ /\ taskcnt <= 0
          /\ wpc' = [wpc EXCEPT ![w] = "exited"]
          /\ workercnt' = workercnt - 1
    /\ UNCHANGED <<taskcnt, list, size, mutex, sub, nsub, wreg, done, race>>

\* taskcnt = -1 is the order to exit
WCheck(w) ==
    /\ wpc[w] = "check"
    /\ \/ /\ taskcnt # -1
          /\ wpc' = [wpc EXCEPT ![w] = "running"]
          /\ UNCHANGED workercnt
       \/ /\ taskcnt = -1
          /\ wpc' = [wpc EXCEPT ![w] = "exited"]
          /\ workercnt' = workercnt - 1
    /\ UNCHANGED <<taskcnt, list, size, mutex, sub, nsub, wreg, done, race>>

\* list[i].front()() returns: the packaged_task has made its future ready
WFinish(w) ==
    /\ wpc[w] = "running"
    /\ done' = done \cup {Head(list[w])}
    /\ wpc' = [wpc EXCEPT ![w] = "lock2"]
    /\ UNCHANGED <<taskcnt, workercnt, list, size, mutex, sub, nsub, wreg, race>>

WLock2(w) ==
    /\ wpc[w] = "lock2"
    /\ mutex[w] = "free"
    /\ mutex' = [mutex EXCEPT ![w] = "wrk"]
    /\ wpc' = [wpc EXCEPT ![w] = "test2"]
    /\ UNCHANGED <<taskcnt, workercnt, list, size, sub, nsub, wreg, done, race>>

\* Mutant of WTest2: the last node is popped without the mutex
WTest2Low(w) ==
    /\ wpc[w] = "test2"
    /\ wpc' = [wpc EXCEPT ![w] = "load"]
    /\ \/ size[w] < 1 /\ UNCHANGED mutex
       \/ size[w] >= 1 /\ mutex' = Release(w, "wrk")
    /\ UNCHANGED <<taskcnt, workercnt, list, size, sub, nsub, wreg, done, race>>

WTest2(w) ==
    /\ wpc[w] = "test2"
    /\ wpc' = [wpc EXCEPT ![w] = "load"]
    /\ \/ size[w] <= 1 /\ UNCHANGED mutex
       \/ size[w] > 1 /\ mutex' = Release(w, "wrk")
    /\ UNCHANGED <<taskcnt, workercnt, list, size, sub, nsub, wreg, done, race>>

\* pop_front decrements the counter (load and store), then unlinks the node
WLoad(w) ==
    /\ wpc[w] = "load"
    /\ wreg' = [wreg EXCEPT ![w] = size[w]]
    /\ wpc' = [wpc EXCEPT ![w] = "store"]
    /\ UNCHANGED <<taskcnt, workercnt, list, size, mutex, sub, nsub, done, race>>

WStore(w) ==
    /\ wpc[w] = "store"
    /\ size' = [size EXCEPT ![w] = (wreg[w] - 1) % SizeMod]
    /\ race' = IF mutex[w] = "wrk" \/ Len(list[w]) > 1 THEN race ELSE "torn"
    /\ wpc' = [wpc EXCEPT ![w] = "unhook"]
    /\ UNCHANGED <<taskcnt, workercnt, list, mutex, sub, nsub, wreg, done>>

\* Mutants of WUnhook: nothing is popped, or the back is
WUnhookNone(w) ==
    /\ wpc[w] = "unhook"
    /\ mutex' = Release(w, "wrk")
    /\ wpc' = [wpc EXCEPT ![w] = "count"]
    /\ UNCHANGED <<taskcnt, workercnt, list, size, sub, nsub, wreg, done, race>>

WUnhookBack(w) ==
    /\ wpc[w] = "unhook"
    /\ list' = [list EXCEPT ![w] = SubSeq(@, 1, Len(@) - 1)]
    /\ mutex' = Release(w, "wrk")
    /\ wpc' = [wpc EXCEPT ![w] = "count"]
    /\ UNCHANGED <<taskcnt, workercnt, size, sub, nsub, wreg, done, race>>

WUnhook(w) ==
    /\ wpc[w] = "unhook"
    /\ list' = [list EXCEPT ![w] = Tail(@)]
    /\ mutex' = Release(w, "wrk")
    /\ wpc' = [wpc EXCEPT ![w] = "count"]
    /\ UNCHANGED <<taskcnt, workercnt, size, sub, nsub, wreg, done, race>>

\* Mutant of WCount: taskcnt-- only when the list ran empty
WCountLast(w) ==
    /\ wpc[w] = "count"
    /\ taskcnt' = IF list[w] = <<>> THEN taskcnt - 1 ELSE taskcnt
    /\ wpc' = [wpc EXCEPT ![w] = "lock"]
    /\ UNCHANGED <<workercnt, list, size, mutex, sub, nsub, wreg, done, race>>

WCount(w) ==
    /\ wpc[w] = "count"
    /\ taskcnt' = taskcnt - 1
    /\ wpc' = [wpc EXCEPT ![w] = "lock"]
    /\ UNCHANGED <<workercnt, list, size, mutex, sub, nsub, wreg, done, race>>

-----------------------------------------------------------------------------
(* ~ThreadPool, by the calling thread; cleaner is what setcleaner left       *)

DStore(cleaner) ==
    /\ sub.pc = "idle"
    /\ taskcnt' = -1
    /\ sub' = [sub EXCEPT !.pc = "d_max", !.cleaner = cleaner]
    /\ UNCHANGED <<workercnt, list, size, mutex, nsub, wpc, wreg, done, race>>

DMax ==
    /\ sub.pc = "d_max"
    /\ sub' = [sub EXCEPT !.pc = "d_scan", !.reg = workercnt]
    /\ UNCHANGED <<taskcnt, workercnt, list, size, mutex, nsub, wpc, wreg, done, race>>

\* one notify_one of the loop that runs while workercnt is not zero
DNotify(i) ==
    /\ sub.pc = "d_scan"
    /\ workercnt # 0
    /\ i < sub.reg
    /\ wpc' = Wake(i)
    /\ UNCHANGED <<taskcnt, workercnt, list, size, mutex, sub, nsub, wreg, done, race>>

\* join every thread, or destroy a joinable std::thread, which terminates
DJoin ==
    /\ sub.pc = "d_scan"
    /\ workercnt = 0
    /\ sub' = [sub EXCEPT !.pc = IF sub.cleaner = "join" THEN "destroyed" ELSE "terminated"]
    /\ UNCHANGED <<taskcnt, workercnt, list, size, mutex, nsub, wpc, wreg, done, race>>

-----------------------------------------------------------------------------
\* The rest of a call of emplace_back, once begun
SubStep ==
    \/ SubLock \/ SubTest \/ SubHook \/ SubLoad \/ SubStore
    \/ SubNotify \/ SubCount

WorkerStep(w) ==
    \/ WLock(w) \/ WTest(w) \/ WBlock(w) \/ WCheck(w) \/ WFinish(w)
    \/ WLock2(w) \/ WTest2(w) \/ WLoad(w) \/ WStore(w) \/ WUnhook(w)
    \/ WCount(w)

DestroyStep == DMax \/ DJoin \/ \E i \in Workers : DNotify(i)

Next ==
    \/ SubPick
    \/ SubStep
    \/ \E w \in Workers : WorkerStep(w) \/ WSpurious(w)
    \/ \E cleaner \in {"join", "destroy"} : DStore(cleaner)
    \/ DestroyStep

Spec == Init /\ [][Next]_pvars

-----------------------------------------------------------------------------
\* The calling thread is inside emplace_back and has its thread_id.
Submitting == sub.pc \in {"lock", "test", "hook", "load", "store", "notify", "count"}

\* thread_id always names a worker: the remainder in emplace_back is taken of
\* a counter that is never negative then, although workers decrement it for a
\* task before the caller has counted that task.
IndexInRange == Submitting => sub.tid \in Workers

\* No worker takes the exit branch unless the destructor ran: the counter may
\* be -1 for a moment (a task finished before it was counted), but never when
\* a worker that holds a task looks at it.
NoPrematureExit == ~Destroying => \A w \in Workers : wpc[w] # "exited"

\* A worker that runs a task is the only one to run it, and runs it for the
\* first time, whatever pushes and pops went on around it.
RunsOnce ==
    race # "torn" =>
        \A v, w \in Workers :
            wpc[w] = "running" =>
                /\ Head(list[w]) \notin done
                /\ wpc[v] = "running" /\ v # w => Head(list[v]) # Head(list[w])

\* While every push holds the mutex, a pop that released it leaves a node
\* between itself and the back of the list, so that the two cannot meet.
UnlockedPopLeavesANode ==
    race = "none" =>
        \A w \in Workers :
            wpc[w] \in {"load", "store", "unhook"} /\ mutex[w] # "wrk"
                => Len(list[w]) > 1

\* While every push holds the mutex, a worker asleep over a task has its
\* notify_one coming: the wait of the constructor's loop misses no wake-up.
NoLostWakeup ==
    race = "none" =>
        \A w \in Workers :
            wpc[w] = "waiting" /\ list[w] # <<>>
                => sub.tid = w /\ sub.pc \in {"load", "store", "notify"}
=============================================================================
