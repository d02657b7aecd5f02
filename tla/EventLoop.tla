----------------------------- MODULE EventLoop ------------------------------
(***************************************************************************)
(* Reactor::handle_events (src/src/Reactor.cpp) on top of the thread pool: *)
(* wait for up to MaxEvents events, submit a handler for each, wait for    *)
(* all of their futures in order, then let the Logger (src/src/Logger.cpp) *)
(* write the lines the handlers queued.  The thread of the loop is the     *)
(* pool's calling thread: it is at one place, rpc, of the loop, and while  *)
(* it submits also at one place, sub.pc, of emplace_back.  The loop never  *)
(* ends, so the pool's destructor does not run here.                       *)
(*                                                                         *)
(* A handler that logs calls Logger::log once, before its future is ready. *)
(* The log level is taken to be at least Info; below it neither log nor    *)
(* write is called.                                                        *)
(***************************************************************************)
EXTENDS ThreadPool

CONSTANTS MaxEvents,  \* MAX_EVENT of Reactor.hpp
          Logging     \* tasks whose handler may log

ASSUME LoopAssumption == MaxEvents \in Nat /\ Logging \subseteq Tasks

VARIABLES
    rpc,      \* where handle_events is
    nfds,     \* events of this round
    ri,       \* the loop counter i, of both for-loops
    mess,     \* Logger::mess_list, as the set of tasks with a line in it
    written   \* tasks whose line is in the log file

evars == <<rpc, nfds, ri, mess, written>>
vars  == <<pvars, evars>>

LoopTypeOK ==
    /\ rpc \in {"wait", "submit", "gather", "write"}
    /\ nfds \in 0 .. MaxEvents
    /\ ri \in 0 .. nfds
    /\ mess \in SUBSET Tasks
    /\ written \in SUBSET Tasks

LoopInit ==
    /\ Init
    /\ rpc = "wait" /\ nfds = 0 /\ ri = 0
    /\ mess = {} /\ written = {}

\* The task behind fut[i] of the current round
Fut(i) == nsub - nfds + i + 1

-----------------------------------------------------------------------------
\* ::epoll_wait returns n events; a failed call (-1) makes the loops below
\* do nothing, like 0
EPoll(n) ==
    /\ rpc = "wait"
    /\ nsub + n <= MaxTasks
    /\ rpc' = "submit" /\ nfds' = n /\ ri' = 0
    /\ UNCHANGED <<pvars, mess, written>>

\* Mutant of ESubmit: i <= nfds
ESubmitOneMore ==
    /\ rpc = "submit" /\ ri <= nfds
    /\ SubPick
    /\ ri' = ri + 1
    /\ UNCHANGED <<rpc, nfds, mess, written>>

\* fut[i] = tp.emplace_back(...) begins; SubStep carries it through
ESubmit ==
    /\ rpc = "submit" /\ ri < nfds
    /\ SubPick
    /\ ri' = ri + 1
    /\ UNCHANGED <<rpc, nfds, mess, written>>

ESubmitted ==
    /\ rpc = "submit" /\ ri = nfds /\ sub.pc = "idle"
    /\ rpc' = "gather" /\ ri' = 0
    /\ UNCHANGED <<pvars, nfds, mess, written>>

\* Mutant of EGet: the future is not waited for
EGetNoWait ==
    /\ rpc = "gather" /\ ri < nfds
    /\ ri' = ri + 1
    /\ UNCHANGED <<pvars, rpc, nfds, mess, written>>

\* fut[i].get() blocks until the task has run
EGet ==
    /\ rpc = "gather" /\ ri < nfds
    /\ Fut(ri) \in done
    /\ ri' = ri + 1
    /\ UNCHANGED <<pvars, rpc, nfds, mess, written>>

\* Mutant of EGathered: the last future is skipped
EGatheredEarly ==
    /\ rpc = "gather" /\ ri + 1 >= nfds
    /\ rpc' = "write"
    /\ UNCHANGED <<pvars, nfds, ri, mess, written>>

EGathered ==
    /\ rpc = "gather" /\ ri = nfds
    /\ rpc' = "write"
    /\ UNCHANGED <<pvars, nfds, ri, mess, written>>

\* Logger::write empties mess_list under que_mutex
EWrite ==
    /\ rpc = "write"
    /\ written' = written \cup mess
    /\ mess' = {}
    /\ rpc' = "wait"
    /\ UNCHANGED <<pvars, nfds, ri>>

\* Logger::log, called by the handler that worker w runs
ELog(w) ==
    /\ wpc[w] = "running"
    /\ Head(list[w]) \in Logging \ (mess \cup written)
    /\ mess' = mess \cup {Head(list[w])}
    /\ UNCHANGED <<pvars, rpc, nfds, ri, written>>

LoopStep == ESubmit \/ ESubmitted \/ EGet \/ EGathered \/ EWrite

LoopNext ==
    \/ \E n \in 0 .. MaxEvents : EPoll(n)
    \/ LoopStep
    \/ SubStep /\ UNCHANGED evars
    \/ \E w \in Workers : (WorkerStep(w) \/ WSpurious(w)) /\ UNCHANGED evars
    \/ \E w \in Workers : ELog(w)

LoopSpec == LoopInit /\ [][LoopNext]_vars

\* Threads that can run do, and one that waits for a mutex gets it if it is
\* free again and again.  Nothing obliges a client to send (EPoll), a handler
\* to log, or a condition variable to wake up on its own; a handler, once
\* started, returns.
LoopFairSpec ==
    /\ LoopSpec
    /\ WF_vars(LoopStep)
    /\ WF_vars(SubStep /\ UNCHANGED evars)
    /\ SF_vars(SubLock /\ UNCHANGED evars)
    /\ \A w \in Workers :
        /\ WF_vars(WorkerStep(w) /\ UNCHANGED evars)
        /\ SF_vars((WLock(w) \/ WLock2(w)) /\ UNCHANGED evars)

-----------------------------------------------------------------------------
\* Handlers of two rounds of epoll_wait never overlap: while a round is being
\* submitted or awaited, only its own handlers run.  A descriptor that is
\* ready again in the next round is never in the hands of two threads.
RoundsDisjoint ==
    race # "torn" =>
        \A t \in Running :
            \/ rpc = "submit" /\ t > nsub - ri
            \/ rpc = "gather" /\ t > nsub - nfds

\* When the loop goes back to epoll_wait every line that a handler queued is in
\* the log file: no handler can log after Logger::write emptied the queue.
LogDrained ==
    rpc = "wait" /\ race # "torn" => mess = {} /\ 1 .. nsub \subseteq done

\* A round of events comes to an end, the loop gets every future and is back in
\* epoll_wait, unless one of its pushes left the mutex.
RoundCompletes == rpc = "submit" ~> rpc = "wait" \/ race # "none"

\* While handle_events waits for a future some worker is awake to make it ready.
SomeoneAwake ==
    rpc = "gather" /\ ri < nfds /\ Fut(ri) \notin done
        => \E w \in Workers : wpc[w] # "waiting"
=============================================================================
