-------------------------------- MODULE Host --------------------------------
(***************************************************************************)
(* simpleweb::host::serve (src/src/Gateway.cpp) on the threads of the      *)
(* pool: a request is answered with a static file, through the cache of    *)
(* module FileCaches, by a service that a shared library exports, or with  *)
(* an error.                                                               *)
(*                                                                         *)
(* Handlers share, without a mutex, the two tables of services, which the  *)
(* first request for a library fills, and the table of reasons in          *)
(* to_string(status) (src/src/http/status.hpp), which the first response   *)
(* of the process fills.  As in FileCaches a call that changes a container *)
(* is entered in one step and returns in another, raced is set when calls  *)
(* overlap and one of them changes what the other uses, and nothing        *)
(* happens after that.  The libraries are external.                        *)
(***************************************************************************)
EXTENDS FileCaches

CONSTANTS Services,  \* targets of dynamic requests
          Exports    \* the functions that the library of a service exports

ASSUME HostAssumption ==
    /\ Services \cap Files = {} /\ NoFile \notin Services
    /\ Exports \in [Services -> SUBSET {"get", "post"}]

VARIABLES
    at,       \* where a handler is; "cache": in the branch of FileCaches
    target,   \* the service its request names
    method,   \* its method
    status,   \* result of the response it writes; these three are locals of
              \* serve, and have their first values while there is no request
    getservices, postservices,  \* targets that have an entry
    reasons   \* statuses whose text is in statusTable

dvars == <<at, target, method, status, getservices, postservices, reasons>>
hostvars == <<fvars, dvars>>

Errors   == {"bad_request", "forbidden", "not_found", "internal_server_error"}
Statuses == {"ok"} \cup Errors

HostTypeOK ==
    /\ FCTypeOK
    /\ at \in [Handlers -> {"idle", "cache", "tables", "dlopen", "get", "insget", "post",
                            "inspost", "call", "reason", "fill", "fillrest"}]
    /\ target \in [Handlers -> Services \cup {NoFile}]
    /\ method \in [Handlers -> {"get", "post"}]
    /\ status \in [Handlers -> Statuses]
    /\ getservices \subseteq Services /\ postservices \subseteq Services
    /\ reasons \in {{}, {"ok"}, Statuses}

HostInit ==
    /\ FCInit
    /\ at = [h \in Handlers |-> "idle"]
    /\ target = [h \in Handlers |-> NoFile]
    /\ method = [h \in Handlers |-> "get"]
    /\ status = [h \in Handlers |-> "internal_server_error"]
    /\ getservices = {} /\ postservices = {} /\ reasons = {}

Goto(h, place) == at' = [at EXCEPT ![h] = place]

\* The steps that stay out of the cache leave its state as it is.
CacheUntouched == UNCHANGED <<capacity, cachemap, cachelist, fptr, pc, path, filenode, ub>>

\* The handler answers with st: what is left to do is the same for all branches.
Respond(h, st) ==
    /\ status' = [status EXCEPT ![h] = st]
    /\ target' = [target EXCEPT ![h] = NoFile]
    /\ method' = [method EXCEPT ![h] = "get"]
    /\ Goto(h, "reason")

\* serve returns
Return(h) ==
    /\ status' = [status EXCEPT ![h] = "internal_server_error"]
    /\ target' = [target EXCEPT ![h] = NoFile]
    /\ method' = [method EXCEPT ![h] = "get"]
    /\ Goto(h, "idle")

-----------------------------------------------------------------------------
\* access() allows the file of a static request
ServeFile(h) ==
    /\ at[h] = "idle"
    /\ \E f \in Files : Serve(h, f)
    /\ Goto(h, "cache")
    /\ UNCHANGED <<capacity, target, method, status, getservices, postservices, reasons>>

\* the library of a dynamic one: a POST, or a GET with a query
ServeService(h) ==
    /\ at[h] = "idle"
    /\ \E s \in Services : target' = [target EXCEPT ![h] = s]
    /\ \E m \in {"get", "post"} : method' = [method EXCEPT ![h] = m]
    /\ Goto(h, "tables")
    /\ CacheUntouched /\ UNCHANGED <<raced, status, getservices, postservices, reasons>>

\* access() fails: EACCES, ENOENT or another error
Refuse(h) ==
    /\ at[h] = "idle"
    /\ \E st \in {"forbidden", "not_found", "internal_server_error"} : Respond(h, st)
    /\ CacheUntouched /\ UNCHANGED <<raced, getservices, postservices, reasons>>

\* The branch of a static file: the header is written once the node is there.
CacheStep(h) ==
    /\ at[h] = "cache" /\ pc[h] # "idle"
    /\ HandlerStep(h)
    /\ IF pc'[h] = "idle" THEN Respond(h, "ok")
       ELSE UNCHANGED <<at, target, method, status>>
    /\ UNCHANGED <<capacity, getservices, postservices, reasons>>

-----------------------------------------------------------------------------
(* The branch of a service                                                  *)

\* Another handler is inside an insertion into a table.
Inserting(h) == \E g \in Handlers \ {h} : at[g] \in {"insget", "inspost"}

Step(h, place) ==
    /\ Goto(h, place)
    /\ CacheUntouched /\ UNCHANGED <<target, method, status, getservices, postservices, reasons>>

\* The library is loaded if neither table has an entry for the target.
FindServices(h) ==
    /\ at[h] = "tables"
    /\ raced' = Inserting(h)
    /\ Step(h, IF target[h] \in getservices \cup postservices THEN "call" ELSE "dlopen")

\* dlopen fails: serve returns, and nothing is sent or logged
DlopenFails(h) ==
    /\ at[h] = "dlopen"
    /\ Return(h)
    /\ CacheUntouched /\ UNCHANGED <<raced, getservices, postservices, reasons>>

Dlopen(h) == at[h] = "dlopen" /\ Step(h, "get") /\ UNCHANGED raced

\* dlsym finds the function, and it is put in its table, or it does not
Dlsym(h, name, inserts, next) ==
    /\ at[h] = name
    /\ IF name \in Exports[target[h]]
       THEN raced' = Inserting(h) /\ Step(h, inserts)
       ELSE UNCHANGED raced /\ Step(h, next)

\* Mutant of InsertedGet: "post" is not looked up when there is "get"
InsertedGetOnly(h) ==
    /\ at[h] = "insget"
    /\ getservices' = getservices \cup {target[h]}
    /\ Goto(h, "call")
    /\ CacheUntouched /\ UNCHANGED <<raced, target, method, status, postservices, reasons>>

InsertedGet(h) ==
    /\ at[h] = "insget"
    /\ getservices' = getservices \cup {target[h]}
    /\ Goto(h, "post")
    /\ CacheUntouched /\ UNCHANGED <<raced, target, method, status, postservices, reasons>>

InsertedPost(h) ==
    /\ at[h] = "inspost"
    /\ postservices' = postservices \cup {target[h]}
    /\ Goto(h, "call")
    /\ CacheUntouched /\ UNCHANGED <<raced, target, method, status, getservices, reasons>>

HasEntry(h) == target[h] \in IF method[h] = "get" THEN getservices ELSE postservices

\* The arguments are read and the service is called; without an entry a POST
\* is answered with the status res_h began with.
Call(h) ==
    /\ at[h] = "call"
    /\ raced' = Inserting(h)
    /\ Respond(h, IF HasEntry(h) THEN "ok"
                  ELSE IF method[h] = "get" THEN "bad_request"
                  ELSE "internal_server_error")
    /\ CacheUntouched /\ UNCHANGED <<getservices, postservices, reasons>>

-----------------------------------------------------------------------------
(* to_string(status), for the status line and the text of an error          *)

\* The text of status[h] is taken if the first entry is there, else the table
\* is filled, which another handler may be doing as well.
LookUp(h) ==
    /\ at[h] = "reason"
    /\ raced' = (reasons = {} /\ \E g \in Handlers : at[g] = "fill")
    /\ IF reasons = {} THEN Goto(h, "fill") /\ UNCHANGED <<target, method, status>>
       ELSE Return(h)
    /\ CacheUntouched /\ UNCHANGED <<getservices, postservices, reasons>>

\* Mutant of FillFirst: the rest is left for those who need it
FillFirstOnly(h) ==
    /\ at[h] = "fill"
    /\ reasons' = {"ok"}
    /\ Return(h)
    /\ CacheUntouched /\ UNCHANGED <<raced, getservices, postservices>>

FillFirst(h) ==
    /\ at[h] = "fill"
    /\ reasons' = {"ok"}
    /\ Goto(h, "fillrest")
    /\ CacheUntouched /\ UNCHANGED <<raced, target, method, status, getservices, postservices>>

FillRest(h) ==
    /\ at[h] = "fillrest"
    /\ reasons' = Statuses
    /\ Return(h)
    /\ CacheUntouched /\ UNCHANGED <<raced, getservices, postservices>>

-----------------------------------------------------------------------------
ServiceStep(h) ==
    \/ FindServices(h) \/ DlopenFails(h) \/ Dlopen(h)
    \/ Dlsym(h, "get", "insget", "post") \/ InsertedGet(h)
    \/ Dlsym(h, "post", "inspost", "call") \/ InsertedPost(h)
    \/ Call(h)

HostNext ==
    /\ ~ub /\ ~raced
    /\ \E h \in Handlers :
          \/ ServeFile(h) \/ ServeService(h) \/ Refuse(h)
          \/ CacheStep(h) \/ ServiceStep(h)
          \/ LookUp(h) \/ FillFirst(h) \/ FillRest(h)

HostSpec == HostInit /\ [][HostNext]_hostvars

-----------------------------------------------------------------------------
\* A request for a service that the library exports is refused, or an error has
\* an empty reason, only while another handler is in the middle of filling the
\* table: afterwards, and before, every request gets what there is
\* (Gateway.cpp:87-103, 112-128; status.hpp:18-27).
OnlyWhileFilling ==
    \A h \in Handlers :
        /\ at[h] = "call" /\ ~HasEntry(h) /\ method[h] \in Exports[target[h]] =>
              \E g \in Handlers \ {h} :
                  at[g] \in {"post", "inspost"} /\ target[g] = target[h]
        /\ at[h] = "reason" /\ reasons # {} /\ status[h] \notin reasons =>
              \E g \in Handlers \ {h} : at[g] = "fillrest"
=============================================================================
