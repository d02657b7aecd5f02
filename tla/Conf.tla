-------------------------------- MODULE Conf --------------------------------
(***************************************************************************)
(* simpleweb::Conf (src/src/Conf.cpp): the configuration file is read once *)
(* when the server starts, line by line, by three loops over one stream.   *)
(* read expects a heading; the parser of a section stops before the next   *)
(* line that begins with '['.                                              *)
(*                                                                         *)
(* A line is a heading (what read takes the characters after its '[' for), *)
(* a pair (it has a '=') or text (neither; an empty line is one).          *)
(***************************************************************************)
EXTENDS Integers, Sequences, FiniteSetsExt

CONSTANTS Lines,      \* lines that a configuration file may have
          MaxLines,   \* bound on the lines of a file
          Number,     \* what stoi makes of a value; it throws outside the domain
          Accessible  \* paths that access(2) finds readable

ASSUME ConfAssumption ==
    /\ \A line \in Lines : line.is \in {"heading", "pair", "text"}
    /\ MaxLines \in Nat
    /\ \A value \in DOMAIN Number : Number[value] \in Int

VARIABLES
    conf_istrm,  \* the lines not read yet
    section,     \* "global" or "host": its parser runs; "none": read's own loop
    host,        \* the hostinfo that host_parser fills
    conf,        \* the other members of Conf, named by their keys in the file
    hosts,       \* hosts_
    outcome,     \* "reading"; "read", "failed" (-1) or "thrown": how read ended
    text         \* history: the whole file

pvars == <<conf_istrm, section, host, conf, hosts, outcome, text>>

-----------------------------------------------------------------------------
Defaults == [ip |-> "127.0.0.1", port |-> 8080, loglevel |-> "info", logfile |-> "",
             threadcnt |-> 4, cachesnum |-> 32, defaulthost |-> "", docroot |-> "."]

NumberKeys == {"port", "threadcnt", "cachesnum"}
PathKeys   == {"logfile", "docroot"}
TextKeys   == {"ip", "defaulthost"}
Levels     == {"debug", "info", "none"}

Values == {line.value : line \in Lines}

ConfTypeOK ==
    /\ conf_istrm \in Seq(Lines)
    /\ section \in {"none", "global", "host"}
    /\ host.servername \in Values \cup {""} /\ host.docroot \in Values \cup {"", "."}
    /\ \A key \in NumberKeys : conf[key] \in Int
    /\ conf.loglevel \in Levels
    /\ outcome \in {"reading", "read", "failed", "thrown"}

\* A file that cannot be read is not an error: read returns 0 at once.
ConfInit ==
    /\ text \in UNION {[1 .. n -> Lines] : n \in 0 .. MaxLines}
    /\ outcome \in IF text = <<>> THEN {"reading", "read"} ELSE {"reading"}
    /\ conf_istrm = text
    /\ section = "none"
    /\ host = [servername |-> "", docroot |-> ""]
    /\ conf = Defaults
    /\ hosts = <<>>

line1 == Head(conf_istrm)
HeadingAhead == conf_istrm # <<>> /\ line1.is = "heading"
LineAhead    == conf_istrm # <<>> /\ line1.is # "heading"

-----------------------------------------------------------------------------
\* Mutants of Heading: the name is not compared; the settings start afresh in
\* every section; the hostinfo of the section before is used again
HeadingAny ==
    /\ outcome = "reading" /\ section = "none" /\ HeadingAhead
    /\ section' = line1.key
    /\ host' = [servername |-> "", docroot |-> ""]
    /\ conf_istrm' = Tail(conf_istrm)
    /\ UNCHANGED <<conf, hosts, outcome, text>>

HeadingAfresh ==
    /\ outcome = "reading" /\ section = "none" /\ HeadingAhead
    /\ section' = IF line1.key \in {"global", "host"} THEN line1.key ELSE "none"
    /\ host' = [servername |-> "", docroot |-> ""]
    /\ conf' = Defaults
    /\ conf_istrm' = Tail(conf_istrm)
    /\ UNCHANGED <<hosts, outcome, text>>

\* A heading with another name is passed over.
Heading ==
    /\ outcome = "reading" /\ section = "none" /\ HeadingAhead
    /\ section' = IF line1.key \in {"global", "host"} THEN line1.key ELSE "none"
    /\ host' = [servername |-> "", docroot |-> ""]
    /\ conf_istrm' = Tail(conf_istrm)
    /\ UNCHANGED <<conf, hosts, outcome, text>>

NoHeading ==
    /\ outcome = "reading" /\ section = "none" /\ LineAhead
    /\ outcome' = "failed"
    /\ conf_istrm' = Tail(conf_istrm)
    /\ UNCHANGED <<section, host, conf, hosts, text>>

EndOfFile ==
    /\ outcome = "reading" /\ section = "none" /\ conf_istrm = <<>>
    /\ outcome' = "read"
    /\ UNCHANGED <<conf_istrm, section, host, conf, hosts, text>>

-----------------------------------------------------------------------------
Put(key, value) == conf' = [conf EXCEPT ![key] = value] /\ UNCHANGED outcome
Stop(how)       == outcome' = how /\ UNCHANGED conf

\* A pair of a global section
SetNumber(key, value) ==
    /\ key \in NumberKeys
    /\ IF value \in DOMAIN Number THEN Put(key, Number[value]) ELSE Stop("thrown")

\* Mutant of SetPath: a path that is not there is passed over
SetPathLax(key, value) ==
    /\ key \in PathKeys
    /\ IF value \in Accessible THEN Put(key, value) ELSE UNCHANGED <<conf, outcome>>

SetPath(key, value) ==
    /\ key \in PathKeys
    /\ IF value \in Accessible THEN Put(key, value) ELSE Stop("failed")

SetText(key, value) ==
    /\ key \in TextKeys \/ (key = "loglevel" /\ value \in Levels)
    /\ Put(key, value)

Ignore(key, value) ==
    /\ key \notin NumberKeys \cup PathKeys \cup TextKeys
    /\ ~(key = "loglevel" /\ value \in Levels)
    /\ UNCHANGED <<conf, outcome>>

GlobalLine ==
    /\ outcome = "reading" /\ section = "global" /\ LineAhead
    /\ \/ line1.is = "text" /\ UNCHANGED <<conf, outcome>>
       \/ /\ line1.is = "pair"
          /\ \/ SetNumber(line1.key, line1.value) \/ SetPath(line1.key, line1.value)
             \/ SetText(line1.key, line1.value)   \/ Ignore(line1.key, line1.value)
    /\ conf_istrm' = Tail(conf_istrm)
    /\ UNCHANGED <<section, host, hosts, text>>

\* Every pair, whatever its key, first sets docroot to ".".
HostLine ==
    /\ outcome = "reading" /\ section = "host" /\ LineAhead
    /\ host' = IF line1.is = "text" THEN host ELSE
                 [servername |-> IF line1.key = "servername" THEN line1.value
                                                             ELSE host.servername,
                  docroot |-> IF line1.key = "docroot" THEN line1.value ELSE "."]
    /\ conf_istrm' = Tail(conf_istrm)
    /\ UNCHANGED <<section, conf, hosts, outcome, text>>

EndSection ==
    /\ outcome = "reading" /\ section # "none" /\ ~LineAhead
    /\ section' = "none"
    /\ hosts' = IF section = "host" THEN Append(hosts, host) ELSE hosts
    /\ UNCHANGED <<conf_istrm, host, conf, outcome, text>>

ConfNext ==
    Heading \/ NoHeading \/ EndOfFile \/ GlobalLine \/ HostLine \/ EndSection

ConfSpec == ConfInit /\ [][ConfNext]_pvars

-----------------------------------------------------------------------------
(* What a file says, without reading it from top to bottom                  *)

Headings == {i \in DOMAIN text : text[i].is = "heading"}

\* The lines of the section that begins with line i, and the pairs of a key
LinesOf(i) == {j \in DOMAIN text : j > i /\ \A k \in i + 1 .. j : k \notin Headings}
PairsOf(i) == {j \in LinesOf(i) : text[j].is = "pair"}
With(key, pairs) == {j \in pairs : text[j].key = key}

Sections(name) == {i \in Headings : text[i].key = name}
GlobalPairs == UNION {PairsOf(i) : i \in Sections("global")}

\* The lines at which the reader stops with -1, and those at which it throws
Misplaced ==
    {j \in DOMAIN text \ Headings :
        \A i \in Sections("global") \cup Sections("host") : j \notin LinesOf(i)}
Failing == Misplaced \cup
    {j \in GlobalPairs : text[j].key \in PathKeys /\ text[j].value \notin Accessible}
Throwing ==
    {j \in GlobalPairs : text[j].key \in NumberKeys /\ text[j].value \notin DOMAIN Number}

\* The setting of a key: its last pair counts.
Written(key) ==
    LET pairs == {j \in With(key, GlobalPairs) :
                    key = "loglevel" => text[j].value \in Levels}
        value == text[Max(pairs)].value
    IN  IF pairs = {} THEN Defaults[key]
        ELSE IF key \in NumberKeys THEN Number[value] ELSE value

\* Every setting is what the last pair of its key says, in whichever global
\* section that is, and the default where no pair does (Conf.cpp:36-116).
SettingsAsWritten ==
    outcome = "read" => \A key \in DOMAIN Defaults : conf[key] = Written(key)

\* The reader gives up, in the way it does, because of the first line that it
\* cannot take, and it takes no such line (Conf.cpp:79-93, 98, 166-170).
EndsForCause ==
    LET bad == Failing \cup Throwing IN
    /\ outcome = "read" => bad = {}
    /\ outcome = "failed" => bad # {} /\ Min(bad) \in Failing
    /\ outcome = "thrown" => bad # {} /\ Min(bad) \in Throwing
=============================================================================
