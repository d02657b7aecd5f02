-------------------------------- MODULE Site --------------------------------
(***************************************************************************)
(* From the configuration file to the directory a request is served from:  *)
(* Conf::read, SimpleWeb's constructor and run (src/src/SimpleWeb.cpp),    *)
(* the hosts that Gateway's constructor makes (src/src/Gateway.cpp), and   *)
(* the host that its RW handler chooses for a request.                     *)
(***************************************************************************)
EXTENDS Conf

CONSTANTS Names,    \* host names that requests have
          NoHeader  \* a header that the request does not have

ASSUME SiteAssumption == NoHeader \notin Names

VARIABLES
    phase,   \* "conf", "serving", or how the process ended: "exit" by itself,
             \* "terminate" by an exception, "killed" by a signal
    Hosts,   \* servername |-> docroot, for the hosts of the gateway
    request, \* the request's headers Host and X-Forwarded-Host; NoHeader: none yet
    root     \* the docroot it is served from, or NoHeader: the host is not found

sitevars == <<pvars, phase, Hosts, request, root>>

Requests == [Host : Names \cup {NoHeader}, Forwarded : Names \cup {NoHeader}]

SiteInit ==
    /\ ConfInit
    /\ phase = "conf"
    /\ Hosts = [name \in {} |-> ""]
    /\ request = NoHeader
    /\ root = NoHeader

Configure == phase = "conf" /\ ConfNext /\ UNCHANGED <<phase, Hosts, request, root>>

\* exit(-1), or an exception out of SimpleWeb's constructor
GiveUp ==
    /\ phase = "conf" /\ outcome \in {"failed", "thrown"}
    /\ phase' = IF outcome = "failed" THEN "exit" ELSE "terminate"
    /\ UNCHANGED <<pvars, Hosts, request, root>>

Named(name) == {i \in DOMAIN hosts : hosts[i].servername = name}

\* Mutant of Inserted: a later host replaces the one of the same name
InsertedLast ==
    [name \in {hosts[i].servername : i \in DOMAIN hosts} |->
        hosts[Max(Named(name))].docroot]

\* Hosts.insert does nothing if the name is there already.
Inserted ==
    [name \in {hosts[i].servername : i \in DOMAIN hosts} |->
        hosts[Min(Named(name))].docroot]

\* run: the pool, the gateway and the listening socket
Start ==
    /\ phase = "conf" /\ outcome = "read" /\ conf.threadcnt >= 0
    /\ phase' = "serving"
    /\ Hosts' = Inserted
    /\ UNCHANGED <<pvars, request, root>>

\* The vectors of the pool cannot have the length, or openport throws.
StartFails ==
    /\ phase = "conf" /\ outcome = "read"
    /\ phase' = "terminate"
    /\ UNCHANGED <<pvars, Hosts, request, root>>

\* The first event: emplace_back divides by the number of threads.
DivideByZero ==
    /\ phase = "serving" /\ conf.threadcnt = 0
    /\ phase' = "killed"
    /\ UNCHANGED <<pvars, Hosts, request, root>>

HostOf(r) ==
    IF r.Host = NoHeader THEN ""
    ELSE IF r.Forwarded # NoHeader THEN r.Forwarded ELSE r.Host

Serve(r) ==
    /\ phase = "serving" /\ conf.threadcnt > 0
    /\ request' = r
    /\ root' = IF HostOf(r) = conf.defaulthost THEN conf.docroot
               ELSE IF HostOf(r) \in DOMAIN Hosts THEN Hosts[HostOf(r)] ELSE NoHeader
    /\ UNCHANGED <<pvars, phase, Hosts>>

SiteNext ==
    \/ Configure \/ GiveUp \/ Start \/ StartFails \/ DivideByZero
    \/ \E r \in Requests : Serve(r)

SiteSpec == SiteInit /\ [][SiteNext]_sitevars

-----------------------------------------------------------------------------
LastOf(key, i, default) ==
    LET pairs == With(key, PairsOf(i))
    IN  IF pairs = {} THEN default ELSE text[Max(pairs)].value

\* The sections of the hosts of a name
HostSections(name) == {i \in Sections("host") : LastOf("servername", i, "") = name}

\* A section has pairs, and none after its docroot.
DocrootLast(i) ==
    PairsOf(i) # {} /\ \A j \in With("docroot", PairsOf(i)) : j = Max(PairsOf(i))

\* A request is served from the docroot of the default host if it has its name,
\* else from that of the first section with its name, and from none if there is
\* no such section; in files whose host sections end with their docroot, as the
\* one in src/sw.conf does (Conf.cpp:128, Gateway.cpp:195-197, 220-232).
ServedAsWritten ==
    LET name == HostOf(request)
        sections == HostSections(name)
    IN  phase = "serving" /\ request # NoHeader
            /\ (\A i \in Sections("host") : DocrootLast(i)) =>
        root = IF name = Written("defaulthost") THEN Written("docroot")
               ELSE IF sections = {} THEN NoHeader
               ELSE LastOf("docroot", Min(sections), ".")
=============================================================================
