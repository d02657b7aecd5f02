-------------------------- MODULE EventLoopProofs --------------------------
(***************************************************************************)
(* Proofs about EventLoop for any number of workers, events and rounds:    *)
(* handlers of different rounds do not overlap, and the log is written out *)
(* before the loop waits for events again.  They rest on the invariant of  *)
(* the thread pool, which holds whether or not a push left its mutex.      *)
(***************************************************************************)
EXTENDS EventLoop, ThreadPoolProofs

\* The tasks up to this one belong to earlier rounds or have been awaited.
Past ==
    CASE rpc = "submit" -> nsub - ri
      [] rpc = "gather" -> nsub - nfds + ri
      [] OTHER          -> nsub

\* The thread of the loop is inside emplace_back only while it submits, and it
\* never destroys the pool.
CallerInv == ~Destroying /\ (rpc # "submit" => sub.pc = "idle")

\* All the tasks of earlier rounds are done, and those of this one that the loop
\* has awaited; the queue of the logger is empty while the loop waits.
RoundInv ==
    /\ Past \in Nat /\ 1 .. Past \subseteq done
    /\ rpc = "gather" => nfds <= nsub
    /\ rpc = "wait" => mess = {}

LoopInv == PoolInv /\ LoopTypeOK /\ CallerInv /\ RoundInv

-----------------------------------------------------------------------------
\* A handler that runs belongs to the current round.
LEMMA RunningIsNew ==
    ASSUME PoolInv, RoundInv, NEW w \in Workers, wpc[w] = "running"
    PROVE  LET t == Head(list[w])
           IN  t \in Tasks /\ t \in Int /\ t <= nsub /\ t > Past
<1>. DEFINE t == Head(list[w])
<1>1. list[w] \in Seq(Tasks) /\ list[w] # <<>>
  BY DEF PoolInv, TypeOK, BusyInv, Busy
<1>2. 1 \in DOMAIN list[w] /\ t = list[w][1] /\ t \in Tasks
  BY <1>1
<1>3. t <= nsub /\ t \notin done
  BY <1>2 DEF PoolInv, LinkedInv, DoneInv, Retired
<1>4. t \in Int /\ 1 <= t
  BY <1>2 DEF Tasks
<1>5. t \notin 1 .. Past /\ Past \in Nat
  BY <1>3 DEF RoundInv
<1>. HIDE DEF t
<1>6. t > Past
  BY <1>4, <1>5
<1>. QED  BY <1>2, <1>3, <1>4, <1>6 DEF t

\* What a step of the pool means to the loop: tasks become done, and none is
\* added but by ESubmit.
LEMMA PoolStepsKeep ==
    ASSUME LoopInv, PoolInv', UNCHANGED <<evars, nsub>>, done \subseteq done',
           CallerInv'
    PROVE  LoopInv'
<1>1. Past' = Past
  BY DEF Past, evars
<1>2. LoopTypeOK'
  BY DEF LoopInv, LoopTypeOK, evars
<1>3. RoundInv'
  BY <1>1 DEF LoopInv, RoundInv, evars
<1>. QED  BY <1>2, <1>3 DEF LoopInv

LEMMA LoopInitInv == LoopInit => LoopInv
<1>. SUFFICES ASSUME LoopInit PROVE LoopInv
  OBVIOUS
<1>1. PoolInv
  BY InitPoolInv DEF LoopInit
<1>2. nsub = 0 /\ sub.pc = "idle" /\ rpc = "wait" /\ nfds = 0 /\ ri = 0 /\ mess = {}
  BY DEF LoopInit, Init
<1>3. LoopTypeOK /\ CallerInv
  BY <1>2, LoopAssumption DEF LoopInit, LoopTypeOK, CallerInv, Destroying
<1>4. Past = 0 /\ 1 .. 0 = {}
  BY <1>2 DEF Past
<1>5. RoundInv
  BY <1>2, <1>4 DEF RoundInv
<1>. QED  BY <1>1, <1>3, <1>5 DEF LoopInv

\* epoll_wait returns, and the steps that await the futures and write the log
LEMMA LoopOwnSteps ==
    ASSUME LoopInv,
           \/ \E n \in 0 .. MaxEvents : EPoll(n)
           \/ ESubmitted \/ EGet \/ EGathered \/ EWrite
    PROVE  LoopInv'
<1>0. UNCHANGED pvars /\ PoolInv'
  <2>1. UNCHANGED pvars
    BY DEF EPoll, ESubmitted, EGet, EGathered, EWrite
  <2>. QED  BY <2>1, PoolInvNext DEF LoopInv
<1>1. /\ UNCHANGED <<sub, nsub, done>>
      /\ nsub \in Nat /\ nfds \in 0 .. MaxEvents /\ nfds \in Nat /\ ri \in 0 .. nfds
      /\ ri \in Nat /\ rpc \in {"wait", "submit", "gather", "write"}
      /\ mess \in SUBSET Tasks /\ written \in SUBSET Tasks
  BY <1>0, PoolAssumption, LoopAssumption DEF pvars, LoopInv, PoolInv, TypeOK, LoopTypeOK
<1>2. Past \in Nat /\ 1 .. Past \subseteq done
  BY DEF LoopInv, RoundInv
<1>3. CASE \E n \in 0 .. MaxEvents : EPoll(n)
  <2>1. PICK n \in 0 .. MaxEvents : EPoll(n)
    BY <1>3
  <2>2. LoopTypeOK'
    BY <1>1, <2>1, LoopAssumption DEF EPoll, LoopTypeOK
  <2>3. CallerInv'
    BY <1>1, <2>1 DEF EPoll, LoopInv, CallerInv, Destroying
  <2>4. Past' = Past
    BY <1>1, <2>1 DEF EPoll, Past
  <2>. QED  BY <1>0, <1>1, <1>2, <2>1, <2>2, <2>3, <2>4 DEF EPoll, LoopInv, RoundInv
<1>4. CASE ESubmitted
  <2>1. LoopTypeOK'
    BY <1>1, <1>4 DEF ESubmitted, LoopTypeOK
  <2>2. CallerInv'
    BY <1>1, <1>4 DEF ESubmitted, LoopInv, CallerInv, Destroying
  <2>3. Past' = Past /\ nfds' <= nsub'
    BY <1>1, <1>2, <1>4 DEF ESubmitted, Past
  <2>. QED  BY <1>0, <1>1, <1>2, <1>4, <2>1, <2>2, <2>3 DEF ESubmitted, LoopInv, RoundInv
<1>5. CASE EGet
  <2>1. LoopTypeOK'
    BY <1>1, <1>5 DEF EGet, LoopTypeOK
  <2>2. CallerInv'
    BY <1>1, <1>5 DEF EGet, LoopInv, CallerInv, Destroying
  <2>3. Past' = Past + 1 /\ Past + 1 \in done
    BY <1>1, <1>5 DEF EGet, Past, Fut
  <2>4. 1 .. Past' \subseteq done'
    BY <1>1, <1>2, <2>3
  <2>. QED  BY <1>0, <1>1, <1>2, <1>5, <2>1, <2>2, <2>3, <2>4
            DEF EGet, LoopInv, RoundInv
<1>6. CASE EGathered
  <2>1. LoopTypeOK'
    BY <1>1, <1>6 DEF EGathered, LoopTypeOK
  <2>2. CallerInv'
    BY <1>1, <1>6 DEF EGathered, LoopInv, CallerInv, Destroying
  <2>3. Past' = Past
    BY <1>1, <1>6 DEF EGathered, Past
  <2>. QED  BY <1>0, <1>1, <1>2, <1>6, <2>1, <2>2, <2>3 DEF EGathered, LoopInv, RoundInv
<1>7. CASE EWrite
  <2>1. LoopTypeOK'
    BY <1>1, <1>7 DEF EWrite, LoopTypeOK
  <2>2. CallerInv'
    BY <1>1, <1>7 DEF EWrite, LoopInv, CallerInv, Destroying
  <2>3. Past' = Past
    BY <1>1, <1>7 DEF EWrite, Past
  <2>. QED  BY <1>0, <1>1, <1>2, <1>7, <2>1, <2>2, <2>3 DEF EWrite, LoopInv, RoundInv
<1>. QED  BY <1>3, <1>4, <1>5, <1>6, <1>7

\* Reactor.cpp:62-69: one more future of the round
LEMMA SubmitStep == LoopInv /\ ESubmit => LoopInv'
<1>. SUFFICES ASSUME LoopInv, ESubmit PROVE LoopInv'
  OBVIOUS
<1>1. PoolInv'
  BY PoolInvNext DEF LoopInv, ESubmit, Next
<1>2. /\ sub.pc = "idle" /\ sub'.pc = "lock" /\ nsub' = nsub + 1 /\ done' = done
      /\ ri' = ri + 1 /\ rpc = "submit" /\ ri < nfds /\ UNCHANGED <<rpc, nfds, mess, written>>
  BY DEF ESubmit, SubPick, LoopInv, PoolInv, TypeOK
<1>3. nsub \in Nat /\ nfds \in Nat /\ ri \in Nat
  BY PoolAssumption, LoopAssumption DEF LoopInv, PoolInv, TypeOK, LoopTypeOK
<1>4. LoopTypeOK'
  BY <1>2, <1>3 DEF LoopInv, LoopTypeOK
<1>5. CallerInv'
  BY <1>2 DEF CallerInv, Destroying
<1>6. Past' = Past
  BY <1>2, <1>3 DEF Past
<1>. QED  BY <1>1, <1>2, <1>4, <1>5, <1>6 DEF LoopInv, RoundInv

\* The steps of the pool (ThreadPool.cpp)
LEMMA PoolSteps ==
    ASSUME LoopInv, UNCHANGED evars,
           SubStep \/ \E w \in Workers : WorkerStep(w) \/ WSpurious(w)
    PROVE  LoopInv'
<1>1. PoolInv'
  BY PoolInvNext DEF LoopInv, Next
<1>2. sub \in [pc : SubPc, tid : Int, reg : Int, cleaner : {"join", "destroy"}]
  BY DEF LoopInv, PoolInv, TypeOK
<1>3. CASE SubStep
  <2>1. /\ UNCHANGED <<nsub, done>> /\ sub.pc # "idle"
        /\ sub'.pc \in {"idle", "test", "hook", "load", "store", "notify", "count"}
    BY <1>2, <1>3 DEF SubStep, SubLock, SubTest, SubHook, SubLoad, SubStore, SubNotify,
                      SubCount
  <2>2. rpc' = "submit" /\ CallerInv'
    BY <2>1 DEF LoopInv, CallerInv, Destroying, evars
  <2>. QED  BY <1>1, <2>1, <2>2, PoolStepsKeep
<1>4. ASSUME NEW w \in Workers, WorkerStep(w) \/ WSpurious(w)
      PROVE  LoopInv'
  <2>1. UNCHANGED <<nsub, sub>> /\ done \subseteq done'
    BY <1>4 DEF WorkerStep, WLock, WTest, WBlock, WCheck, WFinish, WLock2, WTest2, WLoad,
                WStore, WUnhook, WCount, WSpurious
  <2>2. CallerInv'
    BY <2>1 DEF LoopInv, CallerInv, Destroying, evars
  <2>. QED  BY <1>1, <2>1, <2>2, PoolStepsKeep
<1>. QED  BY <1>3, <1>4

\* A handler logs, which it does not do while the loop waits (Logger.cpp).
LEMMA LogStep ==
    ASSUME LoopInv, NEW w \in Workers, ELog(w)
    PROVE  LoopInv'
<1>1. /\ UNCHANGED <<pvars, rpc, nfds, ri, written>> /\ wpc[w] = "running"
      /\ mess' = mess \cup {Head(list[w])}
  BY DEF ELog
<1>2. PoolInv' /\ UNCHANGED <<sub, nsub, done>>
  BY <1>1, PoolInvNext DEF LoopInv, pvars
<1>3. Head(list[w]) \in Tasks /\ Head(list[w]) <= nsub /\ Head(list[w]) > Past
  BY <1>1, RunningIsNew DEF LoopInv
<1>4. nsub \in Int /\ Past \in Int /\ Head(list[w]) \in Int
  BY <1>3, PoolAssumption DEF LoopInv, PoolInv, TypeOK, RoundInv, Tasks
<1>5. rpc # "wait"
  BY <1>3, <1>4 DEF Past
<1>6. Past' = Past
  BY <1>1, <1>2 DEF Past
<1>7. LoopTypeOK' /\ CallerInv'
  BY <1>1, <1>2, <1>3 DEF LoopInv, LoopTypeOK, CallerInv, Destroying
<1>8. RoundInv'
  BY <1>1, <1>2, <1>5, <1>6 DEF LoopInv, RoundInv
<1>. QED  BY <1>2, <1>7, <1>8 DEF LoopInv

-----------------------------------------------------------------------------
\* The pool's invariant and the loop's hold throughout (Reactor.cpp:47-96).
THEOREM LoopInvariant == LoopSpec => []LoopInv
<1>1. LoopInit => LoopInv
  BY LoopInitInv
<1>2. LoopInv /\ [LoopNext]_vars => LoopInv'
  <2>. SUFFICES ASSUME LoopInv, [LoopNext]_vars PROVE LoopInv'
    OBVIOUS
  <2>1. CASE UNCHANGED vars
    <3>1. PoolInv' /\ CallerInv'
      BY <2>1, PoolInvNext DEF LoopInv, vars, evars, pvars, CallerInv, Destroying
    <3>. QED  BY <2>1, <3>1, PoolStepsKeep DEF vars, pvars
  <2>2. CASE LoopNext
    BY <2>2, LoopOwnSteps, SubmitStep, PoolSteps, LogStep DEF LoopNext, LoopStep
  <2>. QED  BY <2>1, <2>2
<1>. QED  BY <1>1, <1>2, PTL DEF LoopSpec

\* The variables of the loop keep their types, the counter of its two for-loops
\* within the events of the round (Reactor.cpp:57-88).
THEOREM LoopTypeCorrect == LoopSpec => []LoopTypeOK
<1>1. LoopInv => LoopTypeOK
  BY DEF LoopInv
<1>. QED  BY <1>1, LoopInvariant, PTL

\* Handlers of two rounds never overlap, because the loop awaits every future of
\* a round before it goes on (Reactor.cpp:84-88).
THEOREM RoundsAreDisjoint == LoopSpec => []RoundsDisjoint
<1>1. LoopInv => RoundsDisjoint
  <2>. SUFFICES ASSUME LoopInv, NEW w \in Workers, wpc[w] = "running"
                PROVE  \/ rpc = "submit" /\ Head(list[w]) > nsub - ri
                       \/ rpc = "gather" /\ Head(list[w]) > nsub - nfds
    BY DEF RoundsDisjoint, Running
  <2>1. Head(list[w]) \in Int /\ Head(list[w]) <= nsub /\ Head(list[w]) > Past
    BY RunningIsNew DEF LoopInv
  <2>2. nsub \in Nat /\ nfds \in Nat /\ ri \in Nat
    BY PoolAssumption, LoopAssumption DEF LoopInv, PoolInv, TypeOK, LoopTypeOK
  <2>. QED  BY <2>1, <2>2 DEF Past
<1>. QED  BY <1>1, LoopInvariant, PTL

\* Whenever the loop is back in epoll_wait all the tasks are done and the lines
\* their handlers queued are in the log file (Reactor.cpp:84-90, Logger.cpp).
THEOREM LogIsDrained == LoopSpec => []LogDrained
<1>1. LoopInv => LogDrained
  BY DEF LoopInv, RoundInv, Past, LogDrained
<1>. QED  BY <1>1, LoopInvariant, PTL
=============================================================================
