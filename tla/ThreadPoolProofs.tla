-------------------------- MODULE ThreadPoolProofs --------------------------
(***************************************************************************)
(* Proofs about ThreadPool for every number of workers and tasks.          *)
(***************************************************************************)
EXTENDS ThreadPoolInv, FiniteSetTheorems, SequenceTheorems,
        TLAPS

LEMMA WorkersFinite == IsFiniteSet(Workers)
  BY PoolAssumption, FS_Interval, SMT DEF Workers

LEMMA InitPoolInv == Init => PoolInv
<1> SUFFICES ASSUME Init PROVE PoolInv
  OBVIOUS
<1> USE PoolAssumption DEF Init, Workers
<1>1. TypeOK
  BY DEF TypeOK, SubPc, WorkerPc, Tasks
<1>2. TidInv /\ BusyInv /\ LinkedInv /\ DoneInv
  BY DEF TidInv, Submitting, BusyInv, Busy, Retired, LinkedInv, DoneInv, Unlinked
<1>3. Accounting
  <2>1. Retiring = {}
    BY DEF Retiring, Retired
  <2> QED
    BY <2>1, FS_EmptySet DEF Accounting, Submitting
<1> QED
  BY <1>1, <1>2, <1>3 DEF PoolInv

LEMMA DoneFinite ==
  ASSUME TypeOK, DoneInv
  PROVE  /\ IsFiniteSet(done)
         /\ Cardinality(done) \in Nat
         /\ Cardinality(done) <= nsub
         /\ \A t \in 1 .. nsub : t \notin done => Cardinality(done) <= nsub - 1
<1> nsub \in Nat
  BY PoolAssumption DEF TypeOK
<1>1. done \in SUBSET (1 .. nsub)
  BY DEF TypeOK, DoneInv, Tasks
<1>2. IsFiniteSet(1 .. nsub) /\ Cardinality(1 .. nsub) = nsub
  BY FS_Interval, SMT
<1>3. IsFiniteSet(done) /\ Cardinality(done) <= nsub
  BY <1>1, <1>2, FS_Subset
<1>4. Cardinality(done) \in Nat
  BY <1>3, FS_CardinalityType
<1>5. ASSUME NEW t \in 1 .. nsub, t \notin done
      PROVE  Cardinality(done) <= nsub - 1
  <2> DEFINE others == (1 .. nsub) \ {t}
  <2>1. done \in SUBSET others
    BY <1>1, <1>5
  <2>2. IsFiniteSet(others) /\ Cardinality(others) = nsub - 1
    BY <1>2, <1>5, FS_RemoveElement
  <2> HIDE DEF others
  <2>3. Cardinality(done) <= Cardinality(others)
    BY <2>1, <2>2, FS_Subset
  <2> QED
    BY <2>2, <2>3
<1> QED
  BY <1>3, <1>4, <1>5

LEMMA RetiringFinite ==
  /\ IsFiniteSet(Retiring)
  /\ Cardinality(Retiring) \in Nat
<1>1. Retiring \in SUBSET Workers
  BY DEF Retiring
<1> QED
  BY <1>1, WorkersFinite, FS_Subset, FS_CardinalityType

\* A caller about to submit, and a worker about to start a task, find the
\* counter not negative: the task that was counted off early was not theirs.
LEMMA CounterNotNegative ==
  ASSUME PoolInv, ~Destroying
  PROVE  /\ sub.pc = "idle" => taskcnt \in Nat
         /\ \A w \in Workers : wpc[w] = "check" => taskcnt \in Nat
<1> USE DEF PoolInv
<1>1. taskcnt = nsub - (IF Submitting THEN 1 ELSE 0)
                   - Cardinality(done) + Cardinality(Retiring)
  BY DEF Accounting
<1>2. Cardinality(done) \in Nat /\ Cardinality(done) <= nsub /\ nsub \in Nat
  BY DoneFinite, PoolAssumption DEF TypeOK
<1>3. sub.pc = "idle" => taskcnt \in Nat
  BY <1>1, <1>2, RetiringFinite DEF Submitting
<1>4. ASSUME NEW w \in Workers, wpc[w] = "check"
      PROVE  taskcnt \in Nat
  <2>1. list[w] # <<>>
    BY <1>4 DEF BusyInv, Busy
  <2>2. 1 \in DOMAIN list[w] /\ list[w][1] \in Tasks
    BY <2>1 DEF TypeOK
  <2>3. list[w][1] \in 1 .. nsub
    BY <2>2, <1>2 DEF LinkedInv, Tasks
  <2>4. list[w][1] \notin done
    BY <2>2, <1>4 DEF DoneInv, Retired
  <2>5. Cardinality(done) <= nsub - 1
    BY <2>3, <2>4, DoneFinite
  <2> QED
    BY <1>1, <1>2, <2>5, RetiringFinite
<1> QED
  BY <1>3, <1>4

\* thread_id is the number of a worker.
LEMMA TidPicked ==
  ASSUME PoolInv, sub.pc = "idle"
  PROVE  CRem(taskcnt, workercnt) \in Workers
<1>1. ~Destroying /\ workercnt = WorkerCnt
  BY DEF PoolInv, Accounting, Destroying
<1>2. taskcnt \in Nat
  BY <1>1, CounterNotNegative
<1>3. taskcnt % WorkerCnt \in 0 .. WorkerCnt - 1
  BY <1>2, PoolAssumption, SMT
<1> QED
  BY <1>1, <1>2, <1>3 DEF CRem, Workers

LEMMA TypeNext ==
  ASSUME PoolInv, Next
  PROVE  TypeOK'
<1> USE PoolAssumption DEF TypeOK, SubPc, WorkerPc
<1>0. TypeOK /\ TidInv
  BY DEF PoolInv
<1>1. CASE SubPick
  <2>1. CRem(taskcnt, workercnt) \in Int
    BY <1>1, TidPicked DEF SubPick, Workers
  <2>2. nsub' \in 0 .. MaxTasks
    BY <1>0, <1>1 DEF SubPick
  <2>3. sub' \in [pc : SubPc, tid : Int, reg : Int, cleaner : {"join", "destroy"}]
    BY <1>0, <1>1, <2>1 DEF SubPick
  <2> QED
    BY <1>0, <1>1, <2>2, <2>3 DEF SubPick
<1>2. CASE SubLock \/ SubTest \/ SubNotify \/ SubCount
  <2>1. CASE SubLock
    BY <1>0, <2>1 DEF SubLock
  <2>2. CASE SubTest
    BY <1>0, <2>2 DEF SubTest, Release
  <2>3. CASE SubNotify
    BY <1>0, <2>3 DEF SubNotify, Wake
  <2>4. CASE SubCount
    <3>1. taskcnt' \in Int
      BY <1>0, <2>4 DEF SubCount
    <3> QED
      BY <1>0, <2>4, <3>1 DEF SubCount
  <2> QED
    BY <1>2, <2>1, <2>2, <2>3, <2>4
<1>3. CASE SubHook
  <2>1. nsub \in Tasks
    BY <1>0, <1>3 DEF SubHook, TidInv, Submitting, Tasks
  <2>2. sub.tid \in Workers
    BY <1>0, <1>3 DEF SubHook, TidInv, Submitting
  <2>3. Append(list[sub.tid], nsub) \in Seq(Tasks)
    BY <1>0, <2>1, <2>2, AppendProperties
  <2>4. list' \in [Workers -> Seq(Tasks)]
    BY <1>0, <1>3, <2>2, <2>3 DEF SubHook
  <2> QED
    BY <1>0, <1>3, <2>4 DEF SubHook
<1>4. CASE SubLoad
  <2>1. size[sub.tid] \in Int
    BY <1>0, <1>4 DEF SubLoad, TidInv, Submitting
  <2> QED
    BY <1>0, <1>4, <2>1 DEF SubLoad
<1>5. CASE SubStore
  <2>1. (sub.reg + 1) % SizeMod \in 0 .. SizeMod - 1
    BY <1>0
  <2> QED
    BY <1>0, <1>5, <2>1 DEF SubStore, Release
<1>6. ASSUME NEW w \in Workers,
             WLock(w) \/ WTest(w) \/ WBlock(w) \/ WSpurious(w) \/ WCheck(w)
      PROVE  TypeOK'
  <2>1. CASE WLock(w)
    BY <1>0, <2>1 DEF WLock
  <2>2. CASE WTest(w)
    BY <1>0, <2>2 DEF WTest, Release
  <2>3. CASE WBlock(w)
    BY <1>0, <2>3 DEF WBlock, Release
  <2>4. CASE WSpurious(w)
    BY <1>0, <2>4 DEF WSpurious
  <2>5. CASE WCheck(w)
    <3>1. workercnt' \in Int
      BY <1>0, <2>5 DEF WCheck
    <3> QED
      BY <1>0, <2>5, <3>1 DEF WCheck
  <2> QED
    BY <1>6, <2>1, <2>2, <2>3, <2>4, <2>5
<1>7. ASSUME NEW w \in Workers, WFinish(w)
      PROVE  TypeOK'
  <2>1. Head(list[w]) \in Tasks
    BY <1>0, <1>7 DEF PoolInv, BusyInv, Busy, WFinish
  <2> QED
    BY <1>0, <1>7, <2>1 DEF WFinish
<1>8. ASSUME NEW w \in Workers, WLock2(w) \/ WTest2(w) \/ WLoad(w) \/ WCount(w)
      PROVE  TypeOK'
  <2>1. CASE WLock2(w)
    BY <1>0, <2>1 DEF WLock2
  <2>2. CASE WTest2(w)
    BY <1>0, <2>2 DEF WTest2, Release
  <2>3. CASE WLoad(w)
    BY <1>0, <2>3 DEF WLoad
  <2>4. CASE WCount(w)
    <3>1. taskcnt' \in Int
      BY <1>0, <2>4 DEF WCount
    <3> QED
      BY <1>0, <2>4, <3>1 DEF WCount
  <2> QED
    BY <1>8, <2>1, <2>2, <2>3, <2>4
<1>9. ASSUME NEW w \in Workers, WStore(w)
      PROVE  TypeOK'
  <2>1. (wreg[w] - 1) % SizeMod \in 0 .. SizeMod - 1
    BY <1>0
  <2> QED
    BY <1>0, <1>9, <2>1 DEF WStore
<1>10. ASSUME NEW w \in Workers, WUnhook(w)
       PROVE  TypeOK'
  <2>1. Tail(list[w]) \in Seq(Tasks)
    BY <1>0, <1>10 DEF PoolInv, BusyInv, Busy, Retired, WUnhook
  <2>2. list' \in [Workers -> Seq(Tasks)]
    BY <1>0, <1>10, <2>1 DEF WUnhook
  <2> QED
    BY <1>0, <1>10, <2>2 DEF WUnhook, Release
<1>11. ASSUME NEW cleaner \in {"join", "destroy"}, DStore(cleaner)
       PROVE  TypeOK'
  <2>1. taskcnt' \in Int
    BY <1>11 DEF DStore
  <2> QED
    BY <1>0, <1>11, <2>1 DEF DStore
<1>12. CASE DestroyStep
  BY <1>0, <1>12 DEF DestroyStep, DMax, DJoin, DNotify, Wake
<1> QED
  BY <1>1, <1>2, <1>3, <1>4, <1>5, <1>6, <1>7, <1>8, <1>9, <1>10, <1>11, <1>12
  DEF Next, SubStep, WorkerStep

-----------------------------------------------------------------------------
\* A step that moves no task: the lists, the finished tasks and the counters
\* stay, the caller stays on its side of linking and counting its task, and no
\* worker takes up, finishes or pops a task or exits.
Quiet ==
    /\ UNCHANGED <<taskcnt, workercnt, list, nsub, done>>
    /\ sub'.tid = sub.tid
    /\ Unlinked' <=> Unlinked
    /\ Submitting' <=> Submitting
    /\ Destroying' <=> Destroying
    /\ Retiring' = Retiring
    /\ \A w \in Workers :
            /\ Retired(w)' <=> Retired(w)
            /\ Busy(w)' => Busy(w) \/ list[w] # <<>>
            /\ wpc'[w] = "exited" => wpc[w] = "exited"
            /\ wpc'[w] = "running" <=> wpc[w] = "running"

LEMMA QuietNext ==
  ASSUME PoolInv, TypeOK', Quiet
  PROVE  PoolInv'
<1> USE DEF PoolInv, Quiet
<1>1. TidInv'
  BY DEF TidInv
<1>2. BusyInv'
  BY DEF BusyInv
<1>3. LinkedInv'
  BY DEF LinkedInv
<1>4. DoneInv'
  BY DEF DoneInv
<1>5. Accounting'
  BY DEF Accounting
<1> QED
  BY <1>1, <1>2, <1>3, <1>4, <1>5

LEMMA QuietSteps ==
  ASSUME TypeOK,
         \/ SubLock \/ SubTest \/ SubLoad \/ SubStore \/ SubNotify
         \/ \E w \in Workers :
                \/ WLock(w) \/ WTest(w) \/ WBlock(w) \/ WSpurious(w)
                \/ WLock2(w) \/ WTest2(w) \/ WLoad(w) \/ WStore(w)
         \/ DestroyStep
  PROVE  Quiet
<1> USE DEF Quiet, Unlinked, Submitting, Destroying, Retiring, Retired, Busy
<1>1. CASE SubLock
  BY <1>1 DEF SubLock, TypeOK
<1>2. CASE SubTest
  BY <1>2 DEF SubTest, TypeOK
<1>3. CASE SubLoad
  BY <1>3 DEF SubLoad, TypeOK
<1>4. CASE SubStore
  BY <1>4 DEF SubStore, TypeOK
<1>5. CASE SubNotify
  BY <1>5 DEF SubNotify, Wake, TypeOK
<1>6. CASE DMax
  BY <1>6 DEF DMax, TypeOK
<1>7. CASE DJoin
  BY <1>7 DEF DJoin, TypeOK
<1>8. ASSUME NEW w \in Workers,
             \/ WLock(w) \/ WTest(w) \/ WBlock(w) \/ WSpurious(w)
             \/ WLock2(w) \/ WTest2(w) \/ WLoad(w) \/ WStore(w) \/ DNotify(w)
      PROVE  Quiet
  <2>1. CASE WLock(w)
    BY <2>1 DEF WLock, TypeOK
  <2>2. CASE WTest(w)
    BY <2>2, SMTT(30) DEF WTest, TypeOK
  <2>3. CASE WBlock(w)
    BY <2>3 DEF WBlock, TypeOK
  <2>4. CASE WSpurious(w)
    BY <2>4 DEF WSpurious, TypeOK
  <2>5. CASE WLock2(w)
    BY <2>5 DEF WLock2, TypeOK
  <2>6. CASE WTest2(w)
    BY <2>6 DEF WTest2, TypeOK
  <2>7. CASE WLoad(w)
    BY <2>7 DEF WLoad, TypeOK
  <2>8. CASE WStore(w)
    BY <2>8 DEF WStore, TypeOK
  <2>9. CASE DNotify(w)
    BY <2>9 DEF DNotify, Wake, TypeOK
  <2> QED
    BY <1>8, <2>1, <2>2, <2>3, <2>4, <2>5, <2>6, <2>7, <2>8, <2>9
<1> QED
  BY <1>1, <1>2, <1>3, <1>4, <1>5, <1>6, <1>7, <1>8 DEF DestroyStep

-----------------------------------------------------------------------------
LEMMA SubPickNext == PoolInv /\ TypeOK' /\ SubPick => PoolInv'
<1> SUFFICES ASSUME PoolInv, TypeOK', SubPick PROVE PoolInv'
  OBVIOUS
<1> USE DEF PoolInv, SubPick
<1>0. /\ nsub \in Nat /\ nsub' = nsub + 1
      /\ sub.pc = "idle" /\ sub'.pc = "lock"
      /\ sub'.tid = CRem(taskcnt, workercnt)
      /\ list \in [Workers -> Seq(Tasks)]
  BY PoolAssumption DEF TypeOK
<1>1. TidInv'
  BY <1>0, TidPicked DEF TidInv
<1>2. BusyInv'
  BY DEF BusyInv, Busy, Retired
<1>3. LinkedInv'
  <2>1. ASSUME NEW w \in Workers, NEW i \in DOMAIN list[w]
        PROVE  list[w][i] \in Int /\ list[w][i] <= nsub
    <3>1. list[w] \in Seq(Tasks)
      BY <1>0
    <3>2. list[w][i] \in Tasks
      BY <3>1
    <3> QED
      BY <3>2 DEF LinkedInv, Tasks
  <2>2. ASSUME NEW w \in Workers, NEW i \in DOMAIN list[w]
        PROVE  list[w][i] <= nsub' /\ list[w][i] # nsub'
    BY <1>0, <2>1
  <2> QED
    BY <2>2 DEF LinkedInv
<1>4. DoneInv'
  <2>1. \A t \in done : t \in Int /\ t <= nsub
    BY DEF DoneInv, TypeOK, Tasks
  <2>2. \A t \in done : t <= nsub' /\ t # nsub'
    BY <1>0, <2>1
  <2> QED
    BY <2>2 DEF DoneInv, Retired
<1>5. Accounting'
  <2>1. Retiring' = Retiring
    BY DEF Retiring, Retired
  <2>2. ~Destroying /\ ~Submitting /\ Submitting'
    BY <1>0 DEF Submitting, Destroying
  <2> QED
    BY <1>0, <2>1, <2>2, DoneFinite, RetiringFinite DEF Accounting, TypeOK
<1> QED
  BY <1>1, <1>2, <1>3, <1>4, <1>5

LEMMA SubHookNext == PoolInv /\ TypeOK' /\ SubHook => PoolInv'
<1> SUFFICES ASSUME PoolInv, TypeOK', SubHook PROVE PoolInv'
  OBVIOUS
<1> DEFINE u == sub.tid
<1> USE DEF PoolInv
<1>0. /\ u \in Workers /\ nsub \in Tasks /\ nsub \in Int
      /\ Unlinked /\ ~Unlinked' /\ Submitting /\ Submitting' /\ ~Destroying /\ ~Destroying'
      /\ sub'.tid = u
      /\ nsub' = nsub /\ done' = done /\ wpc' = wpc /\ taskcnt' = taskcnt
      /\ workercnt' = workercnt
  BY PoolAssumption DEF SubHook, TypeOK, TidInv, Unlinked, Submitting, Destroying, Tasks
<1>1. /\ list \in [Workers -> Seq(Tasks)]
      /\ list' = [list EXCEPT ![u] = Append(list[u], nsub)]
  BY DEF SubHook, TypeOK
<1>2. \A w \in Workers : w # u => list'[w] = list[w]
  BY <1>1
<1>3. /\ DOMAIN list[u] = 1 .. Len(list[u]) /\ Len(list[u]) \in Nat
      /\ DOMAIN list'[u] = 1 .. Len(list[u]) + 1
      /\ \A i \in 1 .. Len(list[u]) : list'[u][i] = list[u][i]
      /\ list'[u][Len(list[u]) + 1] = nsub
  BY <1>0, <1>1
<1>4. \A w \in Workers : \A i \in DOMAIN list'[w] :
          \/ i \in DOMAIN list[w] /\ list'[w][i] = list[w][i]
          \/ w = u /\ i = Len(list[u]) + 1 /\ list'[w][i] = nsub
  BY <1>0, <1>2, <1>3, SMTT(30)
<1>5. \A w \in Workers : \A i \in DOMAIN list[w] : list[w][i] # nsub
  BY <1>0 DEF LinkedInv
<1>6. TidInv'
  BY <1>0 DEF TidInv
<1>7. BusyInv'
  BY <1>0, <1>1, <1>2, SMTT(30) DEF BusyInv, Busy, Retired
<1>8. LinkedInv'
  BY <1>0, <1>4, <1>5 DEF LinkedInv
<1>9. DoneInv'
  <2>1. list[u] = <<>> => ~Retired(u)
    BY <1>0 DEF BusyInv, Busy
  <2>2. Len(list[u]) + 1 = 1 => ~Retired(u)
    BY <2>1, <1>1, <1>0, <1>3
  <2>3. nsub \notin done
    BY <1>0 DEF DoneInv
  <2>4. \A w \in Workers : Retired(w)' <=> Retired(w)
    BY <1>0 DEF Retired
  <2>5. ASSUME NEW w \in Workers, NEW i \in DOMAIN list'[w]
        PROVE  list'[w][i] \in done' <=> i = 1 /\ Retired(w)'
    BY <1>0, <1>4, <2>2, <2>3, <2>4 DEF DoneInv
  <2> QED
    BY <1>0, <2>5 DEF DoneInv
<1>10. Accounting'
  <2>1. Retiring' = Retiring
    BY <1>0 DEF Retiring, Retired
  <2> QED
    BY <1>0, <2>1 DEF Accounting
<1> QED
  BY <1>6, <1>7, <1>8, <1>9, <1>10

LEMMA SubCountNext == PoolInv /\ TypeOK' /\ SubCount => PoolInv'
<1> SUFFICES ASSUME PoolInv, TypeOK', SubCount PROVE PoolInv'
  OBVIOUS
<1> USE DEF PoolInv
<1>1. /\ UNCHANGED <<list, nsub, done, wpc, workercnt>>
      /\ taskcnt' = taskcnt + 1 /\ taskcnt \in Int /\ nsub \in Int
      /\ Submitting /\ ~Submitting' /\ ~Unlinked /\ ~Unlinked' /\ ~Destroying /\ ~Destroying'
  BY PoolAssumption DEF SubCount, TypeOK, Unlinked, Submitting, Destroying
<1>2. TidInv' /\ BusyInv' /\ LinkedInv' /\ DoneInv'
  BY <1>1 DEF TidInv, BusyInv, Busy, Retired, LinkedInv, DoneInv
<1>3. Accounting'
  <2>1. Retiring' = Retiring
    BY <1>1 DEF Retiring, Retired
  <2>2. Cardinality(done) \in Int /\ Cardinality(Retiring) \in Int
    BY DoneFinite, RetiringFinite
  <2>3. taskcnt = nsub - 1 - Cardinality(done) + Cardinality(Retiring)
    BY <1>1 DEF Accounting
  <2> QED
    BY <1>1, <2>1, <2>2, <2>3 DEF Accounting
<1> QED
  BY <1>2, <1>3

LEMMA DStoreNext ==
  ASSUME PoolInv, TypeOK', NEW cleaner \in {"join", "destroy"}, DStore(cleaner)
  PROVE  PoolInv'
<1> USE DEF PoolInv
<1>1. /\ UNCHANGED <<list, nsub, done, wpc>>
      /\ ~Submitting' /\ ~Unlinked /\ ~Unlinked' /\ Destroying'
  BY DEF DStore, TypeOK, Unlinked, Submitting, Destroying
<1> QED
  BY <1>1 DEF TidInv, BusyInv, Busy, Retired, LinkedInv, DoneInv, Accounting

\* Neither a task nor the caller is concerned when a worker passes or fails the
\* exit test: before the destructor runs it cannot fail it.
LEMMA WCheckNext ==
  ASSUME PoolInv, TypeOK', NEW w \in Workers, WCheck(w)
  PROVE  PoolInv'
<1> USE DEF PoolInv
<1>0. wpc \in [Workers -> WorkerPc] /\ wpc[w] = "check"
  BY DEF TypeOK, WCheck
<1>1. /\ UNCHANGED <<list, nsub, done, sub, taskcnt>>
      /\ Submitting' <=> Submitting
      /\ Unlinked' <=> Unlinked
      /\ Destroying' <=> Destroying
  BY DEF WCheck, Submitting, Unlinked, Destroying
<1>2. \A v \in Workers : Retired(v)' <=> Retired(v)
  BY <1>0 DEF WCheck, Retired
<1>3. \A v \in Workers : Busy(v)' => Busy(v)
  BY <1>0, <1>2 DEF WCheck, Busy
<1>4. TidInv' /\ BusyInv' /\ LinkedInv' /\ DoneInv'
  BY <1>1, <1>2, <1>3 DEF TidInv, BusyInv, LinkedInv, DoneInv
<1>5. Accounting'
  <2> SUFFICES ASSUME ~Destroying PROVE Accounting'
    BY <1>1 DEF Accounting
  <2>1. taskcnt # -1
    BY <1>0, CounterNotNegative
  <2>2. UNCHANGED workercnt /\ wpc' = [wpc EXCEPT ![w] = "running"]
    BY <2>1 DEF WCheck
  <2>3. Retiring' = Retiring
    BY <1>0, <2>2 DEF Retiring, Retired
  <2>4. \A v \in Workers : wpc'[v] # "exited"
    BY <1>0, <2>2 DEF Accounting
  <2> QED
    BY <1>1, <2>2, <2>3, <2>4 DEF Accounting
<1> QED
  BY <1>4, <1>5

LEMMA WFinishNext ==
  ASSUME PoolInv, TypeOK', NEW w \in Workers, WFinish(w)
  PROVE  PoolInv'
<1> DEFINE t == list[w][1]
<1> USE DEF PoolInv
<1>0. /\ wpc \in [Workers -> WorkerPc] /\ wpc[w] = "running"
      /\ wpc' = [wpc EXCEPT ![w] = "lock2"]
  BY DEF TypeOK, WFinish
<1>1. /\ UNCHANGED <<list, nsub, sub, taskcnt, workercnt>>
      /\ Submitting' <=> Submitting
      /\ Unlinked' <=> Unlinked
      /\ Destroying' <=> Destroying
  BY DEF WFinish, Submitting, Unlinked, Destroying
<1>2. list[w] \in Seq(Tasks) /\ list[w] # <<>>
  BY <1>0 DEF TypeOK, BusyInv, Busy
<1>3. 1 \in DOMAIN list[w] /\ t \in Tasks /\ t = Head(list[w])
  BY <1>2
<1>4. done' = done \cup {t}
  BY <1>3 DEF WFinish
<1>5. t \notin done /\ t <= nsub /\ (Unlinked => t # nsub)
  BY <1>0, <1>3 DEF DoneInv, LinkedInv, Retired
<1>6. /\ Retired(w)' /\ ~Retired(w) /\ Busy(w)
      /\ \A v \in Workers : v # w => (Retired(v)' <=> Retired(v)) /\ (Busy(v)' <=> Busy(v))
  BY <1>0 DEF Retired, Busy
<1>7. TidInv' /\ BusyInv' /\ LinkedInv'
  BY <1>1, <1>2, <1>6 DEF TidInv, BusyInv, LinkedInv
<1>8. DoneInv'
  <2>1. ASSUME NEW v \in Workers, NEW i \in DOMAIN list[v]
        PROVE  list[v][i] \in done' <=> i = 1 /\ Retired(v)'
    <3>1. list[v][i] = t => v = w /\ i = 1
      BY <1>3 DEF LinkedInv
    <3> QED
      BY <1>3, <1>4, <1>6, <3>1 DEF DoneInv
  <2> QED
    BY <1>1, <1>4, <1>5, <2>1 DEF DoneInv
<1>9. Accounting'
  <2>1. Retiring' = Retiring \cup {w} /\ w \notin Retiring
    BY <1>0, <1>6 DEF Retiring
  <2>2. Cardinality(Retiring') = Cardinality(Retiring) + 1
    BY <2>1, RetiringFinite, FS_AddElement
  <2>3. Cardinality(done') = Cardinality(done) + 1
    BY <1>4, <1>5, DoneFinite, FS_AddElement
  <2>4. \A v \in Workers : wpc'[v] = "exited" => wpc[v] = "exited"
    BY <1>0
  <2>5. Cardinality(done) \in Int /\ Cardinality(Retiring) \in Int /\ nsub \in Int
    BY DoneFinite, RetiringFinite, PoolAssumption, SMTT(30) DEF TypeOK
  <2> QED
    BY <1>1, <2>2, <2>3, <2>4, <2>5 DEF Accounting
<1> QED
  BY <1>7, <1>8, <1>9

LEMMA WUnhookNext ==
  ASSUME PoolInv, TypeOK', NEW w \in Workers, WUnhook(w)
  PROVE  PoolInv'
<1> USE DEF PoolInv
<1>0. /\ wpc \in [Workers -> WorkerPc] /\ wpc[w] = "unhook"
      /\ wpc' = [wpc EXCEPT ![w] = "count"]
      /\ list \in [Workers -> Seq(Tasks)]
      /\ list' = [list EXCEPT ![w] = Tail(list[w])]
  BY DEF TypeOK, WUnhook
<1>1. /\ UNCHANGED <<done, nsub, sub, taskcnt, workercnt>>
      /\ Submitting' <=> Submitting
      /\ Unlinked' <=> Unlinked
      /\ Destroying' <=> Destroying
  BY DEF WUnhook, Submitting, Unlinked, Destroying
<1>2. list[w] \in Seq(Tasks) /\ list[w] # <<>>
  BY <1>0 DEF BusyInv, Busy, Retired
<1>3. /\ DOMAIN list[w] = 1 .. Len(list[w]) /\ Len(list[w]) \in Nat
      /\ DOMAIN list'[w] = 1 .. Len(list[w]) - 1
      /\ \A i \in 1 .. Len(list[w]) - 1 : list'[w][i] = list[w][i + 1]
  BY <1>0, <1>2
<1>4. \A v \in Workers : v # w => list'[v] = list[v]
  BY <1>0
<1>5. /\ Retired(w) /\ ~Retired(w)' /\ ~Busy(w)'
      /\ \A v \in Workers : v # w => (Retired(v)' <=> Retired(v)) /\ (Busy(v)' <=> Busy(v))
  BY <1>0 DEF Retired, Busy
<1>6. TidInv' /\ BusyInv'
  BY <1>1, <1>4, <1>5 DEF TidInv, BusyInv
\* Node i of a list was node at(v, i) before the front of list w went.
<1> DEFINE at(v, i) == IF v = w THEN i + 1 ELSE i
<1>7. ASSUME NEW v \in Workers, NEW i \in DOMAIN list'[v]
      PROVE  /\ i \in Int
             /\ at(v, i) \in DOMAIN list[v]
             /\ list'[v][i] = list[v][at(v, i)]
  <2>1. CASE v = w
    <3>1. i \in 1 .. Len(list[w]) - 1
      BY <1>3, <2>1
    <3>2. i \in Int /\ i + 1 \in DOMAIN list[w] /\ list'[w][i] = list[w][i + 1]
      BY <1>3, <3>1
    <3> QED
      BY <2>1, <3>2
  <2>2. CASE v # w
    <3>1. list'[v] = list[v] /\ list[v] \in Seq(Tasks)
      BY <1>0, <1>4, <2>2
    <3>2. DOMAIN list[v] \subseteq Int
      BY <3>1
    <3> QED
      BY <2>2, <3>1, <3>2
  <2> QED
    BY <2>1, <2>2
<1>8. LinkedInv'
  <2>1. ASSUME NEW u \in Workers, NEW i \in DOMAIN list'[u],
               NEW v \in Workers, NEW j \in DOMAIN list'[v],
               list'[u][i] = list'[v][j]
        PROVE  v = u /\ i = j
    <3>1. list[u][at(u, i)] = list[v][at(v, j)]
      BY <1>7, <2>1
    <3>2. at(u, i) \in DOMAIN list[u] /\ at(v, j) \in DOMAIN list[v]
      BY <1>7
    <3> HIDE DEF at
    <3>3. v = u /\ at(u, i) = at(v, j)
      BY <3>1, <3>2 DEF LinkedInv
    <3>4. i \in Int /\ j \in Int
      BY <1>7
    <3> QED
      BY <3>3, <3>4 DEF at
  <2>2. ASSUME NEW u \in Workers, NEW i \in DOMAIN list'[u]
        PROVE  list'[u][i] <= nsub /\ (Unlinked => list'[u][i] # nsub)
    BY <1>7 DEF LinkedInv
  <2> QED
    BY <1>1, <2>1, <2>2 DEF LinkedInv
<1>9. DoneInv'
  <2>1. ASSUME NEW v \in Workers, NEW i \in DOMAIN list'[v]
        PROVE  list'[v][i] \in done <=> i = 1 /\ Retired(v)'
    <3>1. CASE v = w
      <4>1. i + 1 # 1 /\ i + 1 \in DOMAIN list[w] /\ list'[w][i] = list[w][i + 1]
        BY <1>3, <3>1
      <4>2. list[w][i + 1] \notin done
        BY <4>1 DEF DoneInv
      <4> QED
        BY <1>5, <3>1, <4>1, <4>2
    <3>2. CASE v # w
      BY <1>4, <1>5, <3>2 DEF DoneInv
    <3> QED
      BY <3>1, <3>2
  <2> QED
    BY <1>1, <2>1 DEF DoneInv
<1>10. Accounting'
  <2>1. Retiring' = Retiring /\ \A v \in Workers : wpc'[v] = "exited" => wpc[v] = "exited"
    BY <1>0 DEF Retiring, Retired
  <2> QED
    BY <1>1, <2>1 DEF Accounting
<1> QED
  BY <1>6, <1>8, <1>9, <1>10

LEMMA WCountNext ==
  ASSUME PoolInv, TypeOK', NEW w \in Workers, WCount(w)
  PROVE  PoolInv'
<1> USE DEF PoolInv
<1>0. /\ wpc \in [Workers -> WorkerPc] /\ wpc[w] = "count"
      /\ wpc' = [wpc EXCEPT ![w] = "lock"]
      /\ taskcnt' = taskcnt - 1 /\ taskcnt \in Int /\ nsub \in Int
  BY PoolAssumption DEF TypeOK, WCount
<1>1. /\ UNCHANGED <<list, nsub, done, sub, workercnt>>
      /\ Submitting' <=> Submitting
      /\ Unlinked' <=> Unlinked
      /\ Destroying' <=> Destroying
  BY DEF WCount, Submitting, Unlinked, Destroying
<1>2. \A v \in Workers : (Retired(v)' <=> Retired(v)) /\ (Busy(v)' <=> Busy(v))
  BY <1>0 DEF Retired, Busy
<1>3. TidInv' /\ BusyInv' /\ LinkedInv' /\ DoneInv'
  BY <1>1, <1>2 DEF TidInv, BusyInv, LinkedInv, DoneInv
<1>4. Accounting'
  <2>1. Retiring' = Retiring \ {w} /\ w \in Retiring
    BY <1>0 DEF Retiring, Retired
  <2>2. Cardinality(Retiring') = Cardinality(Retiring) - 1
    BY <2>1, RetiringFinite, FS_RemoveElement
  <2>3. \A v \in Workers : wpc'[v] = "exited" => wpc[v] = "exited"
    BY <1>0
  <2>4. Cardinality(done) \in Int /\ Cardinality(Retiring) \in Int
    BY DoneFinite, RetiringFinite
  <2> QED
    BY <1>0, <1>1, <2>2, <2>3, <2>4 DEF Accounting
<1> QED
  BY <1>3, <1>4

-----------------------------------------------------------------------------
LEMMA PoolInvNext == PoolInv /\ [Next]_pvars => PoolInv'
<1> SUFFICES ASSUME PoolInv, [Next]_pvars PROVE PoolInv'
  OBVIOUS
<1>1. CASE UNCHANGED pvars
  <2>1. TypeOK'
    BY <1>1 DEF PoolInv, TypeOK, pvars
  <2>2. Quiet
    BY <1>1 DEF Quiet, pvars, Unlinked, Submitting, Destroying, Retiring, Retired, Busy
  <2> QED
    BY <2>1, <2>2, QuietNext
<1>2. CASE Next
  <2>1. TypeOK'
    BY <1>2, TypeNext
  <2>2. CASE SubPick
    BY <2>1, <2>2, SubPickNext
  <2>0. Quiet => PoolInv'
    BY <2>1, QuietNext
  <2>3. CASE SubStep
    BY <2>0, <2>1, <2>3, QuietSteps, SubHookNext, SubCountNext DEF SubStep, PoolInv
  <2>4. ASSUME NEW w \in Workers, WorkerStep(w) \/ WSpurious(w)
        PROVE  PoolInv'
    BY <2>0, <2>1, <2>4, QuietSteps, WCheckNext, WFinishNext, WUnhookNext, WCountNext
    DEF WorkerStep, PoolInv
  <2>5. ASSUME NEW cleaner \in {"join", "destroy"}, DStore(cleaner)
        PROVE  PoolInv'
    BY <2>1, <2>5, DStoreNext
  <2>6. CASE DestroyStep
    BY <2>0, <2>6, QuietSteps DEF PoolInv
  <2> QED
    BY <1>2, <2>2, <2>3, <2>4, <2>5, <2>6 DEF Next
<1> QED
  BY <1>1, <1>2

\* Tasks, lists and the counter agree in every reachable state, whatever the
\* number of workers and of tasks and whether or not pushes hold the mutex.
THEOREM PoolInvariant == Spec => []PoolInv
<1>1. Init => PoolInv
  BY InitPoolInv
<1>2. PoolInv /\ [Next]_pvars => PoolInv'
  BY PoolInvNext
<1> QED
  BY <1>1, <1>2, PTL DEF Spec

\* The pool's variables keep their types.
THEOREM TypeCorrect == Spec => []TypeOK
<1>1. PoolInv => TypeOK
  BY DEF PoolInv
<1> QED
  BY <1>1, PoolInvariant, PTL

\* emplace_back always addresses an existing worker.
THEOREM IndexCorrect == Spec => []IndexInRange
<1>1. PoolInv => IndexInRange
  BY DEF PoolInv, TidInv, IndexInRange
<1> QED
  BY <1>1, PoolInvariant, PTL

\* No worker exits before the destructor has run.
THEOREM NoWorkerExitsEarly == Spec => []NoPrematureExit
<1>1. PoolInv => NoPrematureExit
  BY DEF PoolInv, Accounting, NoPrematureExit
<1> QED
  BY <1>1, PoolInvariant, PTL

\* No task is run twice, nor by two workers at once.
THEOREM TasksRunOnce == Spec => []RunsOnce
<1>1. PoolInv => RunsOnce
  <2> SUFFICES ASSUME PoolInv, NEW v \in Workers, NEW w \in Workers, wpc[w] = "running"
               PROVE  /\ Head(list[w]) \notin done
                      /\ wpc[v] = "running" /\ v # w => Head(list[v]) # Head(list[w])
    BY DEF RunsOnce
  <2> USE DEF PoolInv
  <2>1. ASSUME NEW u \in Workers, wpc[u] = "running"
        PROVE  1 \in DOMAIN list[u] /\ Head(list[u]) = list[u][1]
    <3>1. list[u] \in Seq(Tasks) /\ list[u] # <<>>
      BY <2>1 DEF TypeOK, BusyInv, Busy
    <3> QED
      BY <3>1
  <2>2. Head(list[w]) \notin done
    BY <2>1 DEF DoneInv, Retired
  <2>3. wpc[v] = "running" /\ v # w => Head(list[v]) # Head(list[w])
    BY <2>1 DEF LinkedInv
  <2> QED
    BY <2>2, <2>3
<1> QED
  BY <1>1, PoolInvariant, PTL

-----------------------------------------------------------------------------
(* The mutexes, node counters and condition variables, for as long as every  *)
(* push held its mutex                                                       *)

LockInvAt(w) == MutexInv(w) /\ CounterInv(w) /\ SleepInv(w)

LEMMA InitLockInv == Init => LockInv
<1> SUFFICES ASSUME Init, NEW w \in Workers PROVE LockInvAt(w)
  BY DEF LockInv, LockInvAt
<1> USE DEF Init, SubAt
<1>1. MutexInv(w)
  BY DEF MutexInv
<1>2. CounterInv(w)
  BY DEF CounterInv
<1>3. SleepInv(w)
  BY DEF SleepInv
<1> QED
  BY <1>1, <1>2, <1>3 DEF LockInvAt

LEMMA SmallMod == \A n \in 0 .. 4 : n % SizeMod = n
  BY PoolAssumption

LEMMA SubHookLocks ==
  ASSUME TypeOK, BusyInv, TidInv, NEW w \in Workers, LockInvAt(w),
         race = "none", race' = "none", SubHook
  PROVE  LockInvAt(w)'
<1>1. MutexInv(w)'
  BY DEF SubHook, LockInvAt, TypeOK, SubAt, MutexInv, CounterInv, TidInv, Submitting, Release
<1>2. CounterInv(w)'
  <2>1. CASE sub.tid # w
    BY <2>1 DEF SubHook, LockInvAt, TypeOK, SubAt, CounterInv
  <2>2. CASE sub.tid = w
    <3>1. list[w] \in Seq(Tasks) /\ list'[w] = Append(list[w], nsub)
      BY <2>2 DEF SubHook, TypeOK
    <3>2. Len(list'[w]) = Len(list[w]) + 1 /\ Len(list[w]) \in Nat
      BY <3>1
    <3>3. size[w] = Len(list[w]) - (IF wpc[w] = "unhook" THEN 1 ELSE 0) /\ size[w] <= 1
      BY <2>2 DEF SubHook, LockInvAt, TypeOK, SubAt, CounterInv
    <3> QED
      BY <2>2, <3>2, <3>3, SMTT(30) DEF SubHook, LockInvAt, TypeOK, SubAt, CounterInv
  <2> QED
    BY <2>1, <2>2
<1>3. SleepInv(w)'
  BY DEF SubHook, LockInvAt, TypeOK, SubAt, SleepInv, MutexInv, TidInv, Submitting
<1> QED
  BY <1>1, <1>2, <1>3 DEF LockInvAt

LEMMA SubStoreLocks ==
  ASSUME TypeOK, BusyInv, TidInv, NEW w \in Workers, LockInvAt(w),
         race = "none", race' = "none", SubStore
  PROVE  LockInvAt(w)'
<1>1. MutexInv(w)'
  BY DEF SubStore, LockInvAt, TypeOK, SubAt, MutexInv, CounterInv, TidInv, Submitting, Release
<1>2. CounterInv(w)'
  <2>1. CASE sub.tid # w
    BY <2>1 DEF SubStore, LockInvAt, TypeOK, SubAt, CounterInv, MutexInv, Release
  <2>2. CASE sub.tid = w
    <3>1. sub.reg = size[w] /\ size[w] \in Nat /\ size[w] <= 1 /\ mutex[w] = "sub"
      BY <2>2, PoolAssumption, SMTT(30) DEF SubStore, LockInvAt, TypeOK, SubAt, CounterInv, MutexInv
    <3>2. (sub.reg + 1) % SizeMod = size[w] + 1
      BY <3>1, SmallMod
    <3>3. size'[w] = size[w] + 1
      BY <2>2, <3>2 DEF SubStore, TypeOK
    <3>4. /\ wpc[w] \notin {"load", "store"}
          /\ wpc[w] = "unhook" => size[w] >= 1
      BY <2>2, <3>1 DEF SubStore, LockInvAt, CounterInv
    <3>6. size[w] = Len(list[w]) - 1 - (IF wpc[w] = "unhook" THEN 1 ELSE 0)
      BY <2>2 DEF SubStore, LockInvAt, TypeOK, SubAt, CounterInv
    <3>5. Len(list[w]) \in Int
      BY DEF TypeOK
    <3> QED
      BY <2>2, <3>1, <3>3, <3>4, <3>5, <3>6 DEF SubStore, LockInvAt, TypeOK, SubAt, CounterInv
  <2> QED
    BY <2>1, <2>2
<1>3. SleepInv(w)'
  BY DEF SubStore, LockInvAt, TypeOK, SubAt, SleepInv, MutexInv, TidInv, Submitting
<1> QED
  BY <1>1, <1>2, <1>3 DEF LockInvAt

LEMMA WTest2Locks ==
  ASSUME TypeOK, BusyInv, TidInv, NEW w \in Workers, LockInvAt(w),
         race = "none", race' = "none", NEW v \in Workers, WTest2(v)
  PROVE  LockInvAt(w)'
<1>1. MutexInv(w)'
  BY DEF WTest2, LockInvAt, TypeOK, SubAt, MutexInv, CounterInv, TidInv, Submitting, Release
<1>2. CounterInv(w)'
  <2>1. CASE v # w
    BY <2>1 DEF WTest2, LockInvAt, TypeOK, SubAt, CounterInv, Release
  <2>2. CASE v = w
    <3>1. mutex[w] = "wrk" /\ ~SubAt(w, {"hook", "load", "store"})
      BY <2>2 DEF WTest2, LockInvAt, TypeOK, SubAt, MutexInv
    <3>2. size[w] \in Int /\ size[w] <= 2
      BY <2>2, PoolAssumption DEF LockInvAt, TypeOK, CounterInv
    <3>3. size[w] > 1 => size[w] = 2
      BY <3>2
    <3>4. size[w] = Len(list[w])
      BY <2>2, <3>1 DEF WTest2, LockInvAt, TypeOK, SubAt, CounterInv
    <3> QED
      BY <2>2, <3>1, <3>2, <3>3, <3>4 DEF WTest2, LockInvAt, TypeOK, SubAt, CounterInv, Release
  <2> QED
    BY <2>1, <2>2
<1>3. SleepInv(w)'
  BY DEF WTest2, LockInvAt, TypeOK, SubAt, SleepInv, MutexInv, TidInv, Submitting
<1> QED
  BY <1>1, <1>2, <1>3 DEF LockInvAt

LEMMA WStoreLocks ==
  ASSUME TypeOK, BusyInv, TidInv, NEW w \in Workers, LockInvAt(w),
         race = "none", race' = "none", NEW v \in Workers, WStore(v)
  PROVE  LockInvAt(w)'
<1>1. MutexInv(w)'
  BY DEF WStore, LockInvAt, TypeOK, SubAt, MutexInv, CounterInv, TidInv, Submitting, Release
<1>2. CounterInv(w)'
  <2>1. CASE v # w
    BY <2>1 DEF WStore, LockInvAt, TypeOK, SubAt, CounterInv
  <2>2. CASE v = w
    <3>1. list[w] \in Seq(Tasks) /\ list[w] # <<>>
      BY <2>2 DEF WStore, LockInvAt, TypeOK, SubAt, BusyInv, Busy, Retired
    <3>2. Len(list[w]) \in Nat /\ Len(list[w]) >= 1
      BY <3>1
    <3>3. ~SubAt(w, {"hook", "load", "store"}) /\ size[w] = Len(list[w])
      BY <2>2 DEF WStore, LockInvAt, TypeOK, SubAt, CounterInv, MutexInv
    <3>4. wreg[w] = size[w] /\ size[w] <= 2
      BY <2>2 DEF WStore, LockInvAt, TypeOK, SubAt, CounterInv
    <3>5. size[w] \in Nat /\ size[w] >= 1
      BY <3>2, <3>3
    <3>6. (size[w] - 1) % SizeMod = size[w] - 1
      <4>1. size[w] - 1 \in 0 .. 4
        BY <3>4, <3>5
      <4> QED
        BY <4>1, SmallMod
    <3>9. size'[w] = size[w] - 1
      BY <2>2, <3>4, <3>6 DEF WStore, TypeOK
    <3>7. mutex[w] # "wrk" => size[w] = 2
      BY <2>2 DEF WStore, LockInvAt, TypeOK, SubAt, CounterInv
    <3> QED
      BY <2>2, <3>2, <3>3, <3>4, <3>7, <3>9 DEF WStore, LockInvAt, TypeOK, SubAt, CounterInv
  <2> QED
    BY <2>1, <2>2
<1>3. SleepInv(w)'
  BY DEF WStore, LockInvAt, TypeOK, SubAt, SleepInv, MutexInv, TidInv, Submitting
<1> QED
  BY <1>1, <1>2, <1>3 DEF LockInvAt

LEMMA WUnhookLocks ==
  ASSUME TypeOK, BusyInv, TidInv, NEW w \in Workers, LockInvAt(w),
         race = "none", race' = "none", NEW v \in Workers, WUnhook(v)
  PROVE  LockInvAt(w)'
<1>1. MutexInv(w)'
  BY DEF WUnhook, LockInvAt, TypeOK, SubAt, MutexInv, CounterInv, TidInv, Submitting, Release
<1>2. CounterInv(w)'
  <2>1. CASE v # w
    BY <2>1 DEF WUnhook, LockInvAt, TypeOK, SubAt, CounterInv, Release
  <2>2. CASE v = w
    <3>1. list[w] \in Seq(Tasks) /\ list[w] # <<>>
      BY <2>2 DEF WUnhook, LockInvAt, TypeOK, SubAt, BusyInv, Busy, Retired
    <3>2. list'[w] = Tail(list[w])
      BY <2>2 DEF WUnhook, TypeOK
    <3>3. Len(list'[w]) = Len(list[w]) - 1 /\ Len(list[w]) \in Nat
      BY <3>1, <3>2
    <3>4. wpc'[w] = "count" /\ size'[w] = size[w] /\ wreg' = wreg /\ sub' = sub
      BY <2>2 DEF WUnhook, TypeOK
    <3>5. size[w] = Len(list[w]) - (IF SubAt(w, {"load", "store"}) THEN 1 ELSE 0) - 1
      BY <2>2 DEF WUnhook, LockInvAt, CounterInv
    <3>6. size[w] = Len(list[w]) - 1 - (IF SubAt(w, {"load", "store"}) THEN 1 ELSE 0)
      BY <3>3, <3>5
    <3>7. size'[w] = Len(list'[w]) - (IF SubAt(w, {"load", "store"})' THEN 1 ELSE 0)
      BY <3>3, <3>4, <3>6 DEF SubAt
    <3>8. size'[w] = Len(list'[w]) - (IF SubAt(w, {"load", "store"})' THEN 1 ELSE 0)
                                  - (IF wpc'[w] = "unhook" THEN 1 ELSE 0)
      <4>1. Len(list'[w]) \in Int
        BY <3>3
      <4> QED
        BY <3>4, <3>7, <4>1
    <3>9. /\ size'[w] <= 2
          /\ SubAt(w, {"store"})' => sub'.reg = size'[w]
          /\ SubAt(w, {"hook", "load", "store"})' => size'[w] <= 1
      BY <3>4 DEF LockInvAt, CounterInv, SubAt
    <3> QED
      BY <3>4, <3>8, <3>9 DEF CounterInv
  <2> QED
    BY <2>1, <2>2
<1>3. SleepInv(w)'
  BY DEF WUnhook, LockInvAt, TypeOK, SubAt, SleepInv, MutexInv, TidInv, Submitting
<1> QED
  BY <1>1, <1>2, <1>3 DEF LockInvAt

LEMMA LockStep ==
  ASSUME TypeOK, BusyInv, TidInv, Next,
         NEW w \in Workers, LockInvAt(w), race = "none", race' = "none"
  PROVE  LockInvAt(w)'
<1> USE PoolAssumption DEF TypeOK, SubAt, TidInv, Submitting, BusyInv, Busy, Retired,
        LockInvAt, MutexInv, CounterInv, SleepInv
<1>1. CASE SubPick
  BY <1>1 DEF SubPick
<1>2. CASE SubLock
  BY <1>2 DEF SubLock
<1>3. CASE SubTest
  BY <1>3 DEF SubTest, Release
<1>4. CASE SubHook
  BY <1>4, SubHookLocks
<1>5. CASE SubLoad
  BY <1>5 DEF SubLoad
<1>6. CASE SubStore
  BY <1>6, SubStoreLocks
<1>7. CASE SubNotify
  BY <1>7 DEF SubNotify, Wake
<1>8. CASE SubCount
  BY <1>8 DEF SubCount
<1>9. CASE DMax
  BY <1>9 DEF DMax
<1>10. CASE DJoin
  BY <1>10 DEF DJoin
<1>11. ASSUME NEW v \in Workers, WorkerStep(v) \/ WSpurious(v) \/ DNotify(v)
      PROVE  LockInvAt(w)'
  <2>1. CASE WLock(v)
    <3>1. UNCHANGED <<list, size, sub, wreg>>
      BY <2>1 DEF WLock
    <3>2. v # w => wpc'[w] = wpc[w] /\ mutex'[w] = mutex[w]
      BY <2>1 DEF WLock
    <3>3. v = w => /\ wpc[w] \in {"lock", "woken"} /\ mutex[w] = "free"
                   /\ wpc'[w] = "test" /\ mutex'[w] = "wrk"
      BY <2>1 DEF WLock
    <3>4. MutexInv(w)'
      BY <3>1, <3>2, <3>3
    <3>5. CounterInv(w)'
      BY <3>1, <3>2, <3>3
    <3>6. SleepInv(w)'
      BY <3>1, <3>2, <3>3
    <3> QED
      BY <3>4, <3>5, <3>6
  <2>2. CASE WTest(v)
    <3>1. UNCHANGED <<list, size, sub, wreg>>
      BY <2>2 DEF WTest
    <3>2. v # w => wpc'[w] = wpc[w] /\ mutex'[w] = mutex[w]
      BY <2>2 DEF WTest, Release
    <3>3. v = w =>
              /\ wpc[w] = "test" /\ mutex[w] = "wrk"
              /\ \/ wpc'[w] = "block" /\ list[w] = <<>> /\ mutex'[w] = "wrk"
                 \/ wpc'[w] = "check" /\ mutex'[w] = "free"
      BY <2>2 DEF WTest, Release
    <3>4. MutexInv(w)'
      BY <3>1, <3>2, <3>3
    <3>5. CounterInv(w)'
      BY <3>1, <3>2, <3>3
    <3>6. SleepInv(w)'
      BY <3>1, <3>2, <3>3
    <3> QED
      BY <3>4, <3>5, <3>6
  <2>3. CASE WBlock(v)
    <3>1. UNCHANGED <<list, size, sub, wreg>>
      BY <2>3 DEF WBlock
    <3>2. v # w => wpc'[w] = wpc[w] /\ mutex'[w] = mutex[w]
      BY <2>3 DEF WBlock, Release
    <3>3. v = w => /\ wpc[w] = "block" /\ wpc'[w] = "waiting"
                   /\ mutex[w] = "wrk" /\ mutex'[w] = "free"
      BY <2>3 DEF WBlock, Release
    <3>4. MutexInv(w)'
      BY <3>1, <3>2, <3>3
    <3>5. CounterInv(w)'
      BY <3>1, <3>2, <3>3
    <3>6. SleepInv(w)'
      BY <3>1, <3>2, <3>3
    <3> QED
      BY <3>4, <3>5, <3>6
  <2>4. CASE WSpurious(v)
    BY <2>4 DEF WSpurious
  <2>5. CASE WCheck(v)
    <3>1. UNCHANGED <<list, size, mutex, sub, wreg>>
      BY <2>5 DEF WCheck
    <3>2. v # w => wpc'[w] = wpc[w]
      BY <2>5 DEF WCheck
    <3>3. v = w => wpc[w] = "check" /\ wpc'[w] \in {"running", "exited"}
      BY <2>5 DEF WCheck
    <3>4. MutexInv(w)'
      BY <3>1, <3>2, <3>3
    <3>5. CounterInv(w)'
      BY <3>1, <3>2, <3>3
    <3>6. SleepInv(w)'
      BY <3>1, <3>2, <3>3
    <3> QED
      BY <3>4, <3>5, <3>6
  <2>6. CASE WFinish(v)
    BY <2>6 DEF WFinish
  <2>7. CASE WLock2(v)
    BY <2>7 DEF WLock2
  <2>8. CASE WTest2(v)
    BY <2>8, WTest2Locks
  <2>9. CASE WLoad(v)
    BY <2>9 DEF WLoad
  <2>10. CASE WStore(v)
    BY <2>10, WStoreLocks
  <2>11. CASE WUnhook(v)
    BY <2>11, WUnhookLocks
  <2>12. CASE WCount(v)
    BY <2>12 DEF WCount
  <2>13. CASE DNotify(v)
    BY <2>13 DEF DNotify, Wake
  <2> QED
    BY <1>11, <2>1, <2>2, <2>3, <2>4, <2>5, <2>6, <2>7, <2>8, <2>9, <2>10, <2>11, <2>12, <2>13 DEF WorkerStep
<1>12. ASSUME NEW cleaner \in {"join", "destroy"}, DStore(cleaner)
      PROVE  LockInvAt(w)'
  BY <1>12 DEF DStore
<1> QED
  BY <1>1, <1>2, <1>3, <1>4, <1>5, <1>6, <1>7, <1>8, <1>9, <1>10, <1>11, <1>12
  DEF Next, SubStep, DestroyStep

-----------------------------------------------------------------------------
\* A push that did not hold its mutex is never forgotten.
LEMMA RaceStays == Next /\ race' = "none" => race = "none"
<1> SUFFICES ASSUME Next, race' = "none" PROVE race = "none"
  OBVIOUS
<1>1. CASE SubPick \/ SubStep
  BY <1>1 DEF SubPick, SubStep, SubLock, SubTest, SubHook, SubLoad, SubStore,
              SubNotify, SubCount
<1>2. ASSUME NEW w \in Workers, WorkerStep(w) \/ WSpurious(w)
      PROVE  race = "none"
  BY <1>2 DEF WSpurious, WorkerStep, WLock, WTest, WBlock, WCheck, WFinish,
              WLock2, WTest2, WLoad, WStore, WUnhook, WCount
<1>3. CASE DestroyStep \/ \E cleaner \in {"join", "destroy"} : DStore(cleaner)
  BY <1>3 DEF DestroyStep, DMax, DJoin, DNotify, DStore
<1> QED
  BY <1>1, <1>2, <1>3 DEF Next

LEMMA LockInvNext == PoolInv /\ LockInv /\ [Next]_pvars => LockInv'
<1> SUFFICES ASSUME PoolInv, LockInv, [Next]_pvars PROVE LockInv'
  OBVIOUS
<1>1. CASE UNCHANGED pvars
  <2> SUFFICES ASSUME race' = "none", NEW w \in Workers
               PROVE  LockInvAt(w)'
    BY DEF LockInv, LockInvAt, Workers
  <2>1. LockInvAt(w)
    BY <1>1 DEF LockInv, LockInvAt, pvars
  <2>2. MutexInv(w)'
    BY <1>1, <2>1 DEF pvars, LockInvAt, MutexInv, SubAt
  <2>3. CounterInv(w)'
    BY <1>1, <2>1 DEF pvars, LockInvAt, CounterInv, SubAt
  <2>4. SleepInv(w)'
    BY <1>1, <2>1 DEF pvars, LockInvAt, SleepInv, SubAt
  <2> QED
    BY <2>2, <2>3, <2>4 DEF LockInvAt
<1>2. CASE Next
  <2> SUFFICES ASSUME race' = "none", NEW w \in Workers
               PROVE  LockInvAt(w)'
    BY DEF LockInv, LockInvAt, Workers
  <2>1. race = "none"
    BY <1>2, RaceStays
  <2>2. LockInvAt(w)
    BY <2>1 DEF LockInv, LockInvAt
  <2> QED
    BY <1>2, <2>1, <2>2, LockStep DEF PoolInv
<1> QED
  BY <1>1, <1>2

\* While every push held its mutex: the mutexes are held by whom the code says,
\* the node counters are exact, and no worker sleeps over a task.
THEOREM LockInvariant == Spec => []LockInv
<1>1. Init => PoolInv /\ LockInv
  BY InitPoolInv, InitLockInv
<1>2. PoolInv /\ LockInv /\ [Next]_pvars => PoolInv' /\ LockInv'
  BY PoolInvNext, LockInvNext
<1> QED
  BY <1>1, <1>2, PTL DEF Spec

\* The wait of the constructor's loop misses no notification.
THEOREM WakeupsKept == Spec => []NoLostWakeup
<1>1. LockInv => NoLostWakeup
  BY DEF LockInv, SleepInv, SubAt, NoLostWakeup
<1> QED
  BY <1>1, LockInvariant, PTL

\* A pop without the mutex never reaches the back of the list.
THEOREM UnlockedPopsApart == Spec => []UnlockedPopLeavesANode
<1>1. PoolInv /\ LockInv => UnlockedPopLeavesANode
  <2> SUFFICES ASSUME PoolInv, LockInv, race = "none", NEW w \in Workers,
                      wpc[w] \in {"load", "store", "unhook"}, mutex[w] # "wrk"
               PROVE  Len(list[w]) > 1
    BY DEF UnlockedPopLeavesANode
  <2>1. /\ size[w] = Len(list[w]) - (IF SubAt(w, {"load", "store"}) THEN 1 ELSE 0)
                                  - (IF wpc[w] = "unhook" THEN 1 ELSE 0)
        /\ wpc[w] \in {"load", "store"} => size[w] = 2
        /\ wpc[w] = "unhook" => size[w] >= 1
    BY DEF LockInv, CounterInv
  <2>2. Len(list[w]) \in Nat
    BY DEF PoolInv, TypeOK
  <2> QED
    BY <2>1, <2>2
<1> QED
  BY <1>1, LockInvariant, PoolInvariant, PTL

-----------------------------------------------------------------------------
(* ThreadPool implements TaskPool.  Only SubHook, WCheck and WFinish change  *)
(* what the caller can see; every other step stutters.                       *)

mapped == <<accepted, runs, done>>

LEMMA InitRefines == Init => TP!Init
  BY DEF Init, TP!Init, Unlinked, accepted, runs

\* What a worker that holds a task has at the front of its list
LEMMA FrontTask ==
  ASSUME PoolInv, NEW w \in Workers, wpc[w] \in {"check", "running"}
  PROVE  /\ list[w] \in Seq(Tasks) /\ list[w] # <<>>
         /\ 1 \in DOMAIN list[w] /\ Head(list[w]) = list[w][1]
         /\ Head(list[w]) \in 1 .. accepted
         /\ Head(list[w]) \notin done
         /\ \A v \in Workers : v # w /\ wpc[v] = "running" => Head(list[v]) # Head(list[w])
<1> USE DEF PoolInv
<1>1. \A v \in Workers : wpc[v] \in {"check", "running"} =>
          list[v] \in Seq(Tasks) /\ list[v] # <<>>
  BY DEF TypeOK, BusyInv, Busy
<1>2. \A v \in Workers : wpc[v] \in {"check", "running"} =>
          1 \in DOMAIN list[v] /\ Head(list[v]) = list[v][1]
  BY <1>1
<1>3. list[w][1] \in Tasks
  BY <1>1, <1>2
<1>4. list[w][1] \in 1 .. accepted
  BY <1>2, <1>3, PoolAssumption DEF LinkedInv, accepted, Tasks, TypeOK
<1>5. list[w][1] \notin done
  BY <1>2 DEF DoneInv, Retired
<1>6. \A v \in Workers : v # w /\ wpc[v] = "running" => list[v][1] # list[w][1]
  BY <1>2 DEF LinkedInv
<1> QED
  BY <1>1, <1>2, <1>4, <1>5, <1>6

\* What keeps the tasks of the running workers keeps runs.
LEMMA RunsKept ==
  ASSUME \A w \in Workers : wpc'[w] = "running" <=> wpc[w] = "running",
         \A w \in Workers : wpc[w] = "running" => Head(list'[w]) = Head(list[w])
  PROVE  runs' = runs
  BY DEF runs

LEMMA QuietStutters ==
  ASSUME Quiet
  PROVE  UNCHANGED mapped
<1>1. runs' = runs
  BY RunsKept DEF Quiet
<1> QED
  BY <1>1 DEF Quiet, mapped, accepted

LEMMA SubHookAccepts ==
  ASSUME PoolInv, SubHook
  PROVE  TP!Accept
<1>0. TypeOK /\ BusyInv /\ TidInv
  BY DEF PoolInv
<1>1. /\ sub.pc = "hook" /\ sub'.pc = "load" /\ sub.tid \in Workers /\ nsub' = nsub
      /\ nsub \in Int /\ nsub \in Tasks
      /\ list' = [list EXCEPT ![sub.tid] = Append(list[sub.tid], nsub)]
      /\ UNCHANGED <<wpc, done>>
  BY <1>0, PoolAssumption DEF SubHook, TypeOK, TidInv, Submitting, Tasks
<1>2. accepted' = accepted + 1
  BY <1>1 DEF accepted, Unlinked
<1>3. ASSUME NEW w \in Workers, wpc[w] = "running"
      PROVE  Head(list'[w]) = Head(list[w])
  <2>1. list[w] \in Seq(Tasks) /\ list[w] # <<>>
    BY <1>0, <1>3 DEF TypeOK, BusyInv, Busy
  <2>2. Head(Append(list[w], nsub)) = Head(list[w])
    BY <1>1, <2>1
  <2> QED
    BY <1>0, <1>1, <2>2 DEF TypeOK
<1>4. runs' = runs
  BY <1>1, <1>3, RunsKept
<1> QED
  BY <1>1, <1>2, <1>4 DEF TP!Accept

LEMMA WCheckStarts ==
  ASSUME PoolInv, NEW w \in Workers, WCheck(w)
  PROVE  TP!Start(w, Head(list[w])) \/ UNCHANGED mapped
<1> DEFINE t == Head(list[w])
<1>0. /\ wpc \in [Workers -> WorkerPc] /\ wpc[w] = "check"
      /\ UNCHANGED <<list, nsub, done, sub>>
  BY DEF PoolInv, TypeOK, WCheck
<1>1. accepted' = accepted
  BY <1>0 DEF accepted, Unlinked
<1>2. CASE wpc' = [wpc EXCEPT ![w] = "running"]
  <2>1. runs[w] = 0 /\ runs' = [runs EXCEPT ![w] = t]
    BY <1>0, <1>2 DEF runs
  <2>2. t \notin done /\ t # 0 /\ \A v \in Workers : runs[v] # t
    BY <1>0, FrontTask DEF runs
  <2> QED
    BY <1>0, <1>1, <2>1, <2>2 DEF TP!Start
<1>3. CASE wpc' = [wpc EXCEPT ![w] = "exited"]
  <2>1. runs' = runs
    BY <1>0, <1>3, RunsKept
  <2> QED
    BY <1>0, <1>1, <2>1 DEF mapped
<1> QED
  BY <1>2, <1>3 DEF WCheck

LEMMA WFinishFinishes ==
  ASSUME PoolInv, NEW w \in Workers, WFinish(w)
  PROVE  TP!Finish(w)
<1> DEFINE t == Head(list[w])
<1>0. /\ wpc \in [Workers -> WorkerPc] /\ wpc[w] = "running"
      /\ wpc' = [wpc EXCEPT ![w] = "lock2"]
      /\ UNCHANGED <<list, nsub, sub>> /\ done' = done \cup {t}
  BY DEF PoolInv, TypeOK, WFinish
<1>1. accepted' = accepted
  BY <1>0 DEF accepted, Unlinked
<1>2. runs[w] = t /\ t # 0
  BY <1>0, FrontTask DEF runs
<1>3. runs' = [runs EXCEPT ![w] = 0]
  BY <1>0 DEF runs
<1> QED
  BY <1>0, <1>1, <1>2, <1>3 DEF TP!Finish

\* The other steps of a worker that move a task leave the running ones alone.
LEMMA WorkerStutters ==
  ASSUME PoolInv, NEW w \in Workers, WUnhook(w) \/ WCount(w)
  PROVE  UNCHANGED mapped
<1>1. UNCHANGED <<sub, nsub, done>>
  BY DEF WUnhook, WCount
<1>2. \A v \in Workers : wpc'[v] = "running" <=> wpc[v] = "running"
  BY DEF WUnhook, WCount, PoolInv, TypeOK
<1>3. \A v \in Workers : wpc[v] = "running" => list'[v] = list[v]
  BY DEF WUnhook, WCount, PoolInv, TypeOK
<1>4. runs' = runs
  BY <1>2, <1>3, RunsKept
<1> QED
  BY <1>1, <1>4 DEF mapped, accepted, Unlinked

LEMMA CallerStutters ==
  ASSUME PoolInv,
         SubPick \/ SubCount \/ \E cleaner \in {"join", "destroy"} : DStore(cleaner)
  PROVE  UNCHANGED mapped
<1>0. UNCHANGED <<list, wpc, done>>
  BY DEF SubPick, SubCount, DStore
<1>1. runs' = runs
  BY <1>0 DEF runs
<1>2. accepted' = accepted
  <2>1. CASE SubPick
    BY <2>1, PoolAssumption DEF SubPick, accepted, Unlinked, PoolInv, TypeOK
  <2>2. CASE SubCount
    BY <2>2 DEF SubCount, accepted, Unlinked, PoolInv, TypeOK
  <2>3. ASSUME NEW cleaner \in {"join", "destroy"}, DStore(cleaner)
        PROVE  accepted' = accepted
    BY <2>3 DEF DStore, accepted, Unlinked, PoolInv, TypeOK
  <2> QED
    BY <2>1, <2>2, <2>3
<1> QED
  BY <1>0, <1>1, <1>2 DEF mapped

LEMMA StepRefines == PoolInv /\ [Next]_pvars => TP!Next \/ UNCHANGED mapped
<1> SUFFICES ASSUME PoolInv, [Next]_pvars PROVE TP!Next \/ UNCHANGED mapped
  OBVIOUS
<1>0. TypeOK
  BY DEF PoolInv
<1>1. CASE UNCHANGED pvars
  BY <1>1 DEF pvars, mapped, accepted, Unlinked, runs
<1>2. CASE SubPick \/ SubCount
  BY <1>2, CallerStutters
<1>3. CASE SubHook
  BY <1>3, SubHookAccepts DEF TP!Next
<1>4. CASE SubStep /\ ~SubHook /\ ~SubCount
  BY <1>0, <1>4, QuietSteps, QuietStutters DEF SubStep
<1>5. ASSUME NEW w \in Workers, WorkerStep(w) \/ WSpurious(w)
      PROVE  TP!Next \/ UNCHANGED mapped
  <2>1. CASE WCheck(w)
    <3>1. Head(list[w]) \in 1 .. accepted
      BY <2>1, FrontTask DEF WCheck
    <3> QED
      BY <2>1, <3>1, WCheckStarts DEF TP!Next
  <2>2. CASE WFinish(w)
    <3>1. Head(list[w]) \in 1 .. accepted
      BY <2>2, FrontTask DEF WFinish
    <3> QED
      BY <2>2, <3>1, WFinishFinishes DEF TP!Next
  <2>3. CASE WUnhook(w) \/ WCount(w)
    BY <2>3, WorkerStutters
  <2> QED
    BY <1>0, <1>5, <2>1, <2>2, <2>3, QuietSteps, QuietStutters DEF WorkerStep
<1>6. ASSUME NEW cleaner \in {"join", "destroy"}, DStore(cleaner)
      PROVE  UNCHANGED mapped
  BY <1>6, CallerStutters
<1>7. CASE DestroyStep
  BY <1>0, <1>7, QuietSteps, QuietStutters
<1> QED
  BY <1>1, <1>2, <1>3, <1>4, <1>5, <1>6, <1>7 DEF Next, SubStep

\* The pool implements TaskPool: every behaviour of its threads, locks and
\* counters is, to the caller, one of the abstract pool.
THEOREM Refinement == Spec => ImplementsTaskPool
<1>1. Init => TP!Init
  BY InitRefines
<1>2. PoolInv /\ [Next]_pvars =>
          [race' # "torn" => TP!Next]_<<accepted, runs, done>>
  BY StepRefines DEF mapped
<1> QED
  BY <1>1, <1>2, PoolInvariant, PTL DEF Spec, ImplementsTaskPool
=============================================================================
