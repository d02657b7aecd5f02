------------------------------ MODULE TaskPool ------------------------------
(***************************************************************************)
(* What threadpool::ThreadPool promises to its caller, without lists,      *)
(* mutexes or condition variables: each thread runs one task at a time, a  *)
(* task that emplace_back accepted is started at most once, by one thread, *)
(* and is done only after it ran.  Nothing is said about order: each       *)
(* worker serves its own list, so two tasks may start in either order.     *)
(***************************************************************************)
EXTENDS Naturals

CONSTANT Workers

VARIABLES accepted,  \* number of tasks in the pool's lists so far
          runs,      \* the task each thread is executing, or 0
          done       \* tasks whose future is ready

tvars == <<accepted, runs, done>>

Init == accepted = 0 /\ runs = [w \in Workers |-> 0] /\ done = {}

Accept ==
    /\ accepted' = accepted + 1
    /\ UNCHANGED <<runs, done>>

Start(w, t) ==
    /\ runs[w] = 0
    /\ t \notin done
    /\ \A v \in Workers : runs[v] # t
    /\ runs' = [runs EXCEPT ![w] = t]
    /\ UNCHANGED <<accepted, done>>

Finish(w) ==
    /\ runs[w] # 0
    /\ done' = done \cup {runs[w]}
    /\ runs' = [runs EXCEPT ![w] = 0]
    /\ UNCHANGED accepted

Next ==
    \/ Accept
    \/ \E w \in Workers : Finish(w) \/ \E t \in 1 .. accepted : Start(w, t)

Spec == Init /\ [][Next]_tvars
=============================================================================
