------------------------------- MODULE Server -------------------------------
(***************************************************************************)
(* The life of a connection: the listening socket and its CONNECT handler  *)
(* (src/src/SimpleWeb.cpp), epoll as Reactor (src/src/Reactor.cpp) uses    *)
(* it, and the RW handler (src/src/Gateway.cpp).  Descriptors are watched  *)
(* edge-triggered: epoll reports one again only after something new has    *)
(* happened to it, so what a handler leaves undone must not be needed.     *)
(*                                                                         *)
(* A round of epoll_wait gives each reported descriptor to a task of the   *)
(* thread pool and ends when all have run (module EventLoop); here a task  *)
(* is a handler that is queued, runs when a worker is free, and is gone.   *)
(*                                                                         *)
(* The sockets block: a handler waits in read(2) until the client sends    *)
(* or hangs up.  Bytes are counted in segments, a request's header being   *)
(* HeaderSegs of them; what a handler has read and not used is lost with   *)
(* its fdstream.  Clients, sockets and epoll are external.  No code of the *)
(* program touches SIGPIPE, whose default is to end the process.           *)
(*                                                                         *)
(* A request is a "get", answered from its header alone (a file, an error, *)
(* a service with a query), a "post" without and a "post_delim" with a     *)
(* character that ends its arguments, "bad" if it is malformed, "unserved" *)
(* if its host is not known or its service's library does not load.        *)
(*                                                                         *)
(* accept and epoll_ctl may fail at any call; nothing is made of it, and   *)
(* history variables note whom that costs the server (stranded, lost).     *)
(***************************************************************************)
EXTENDS Naturals, FiniteSets, Sequences

CONSTANTS
    Clients,
    NoClient,
    MaxFd,        \* descriptors the process may have for connections
    WorkerCnt,    \* threads of the pool
    MaxEvent,     \* MAX_EVENT: events that one epoll_wait reports
    HeaderSegs,   \* segments of a request header
    MaxSegs,      \* bound on the segments a client sends
    Kinds,        \* kinds of requests that clients send
    MayHangUp     \* clients that may close before they are answered

ASSUME ServerAssumption ==
    /\ NoClient \notin Clients
    /\ MaxFd \in Nat /\ WorkerCnt \in Nat \ {0} /\ MaxEvent \in Nat \ {0}
    /\ HeaderSegs \in Nat \ {0} /\ MaxSegs \in Nat
    /\ Kinds \subseteq {"get", "post", "post_delim", "bad", "unserved"}
    /\ MayHangUp \subseteq Clients

Fds == 1 .. MaxFd
Listener == 0
Events == Fds \cup {Listener}

VARIABLES
    \* clients and kernel
    kind,     \* what a client asks for
    phase,    \* "new", "backlog", "open" (accepted) or "closed"
    sent,     \* segments a client has sent
    hup,      \* the client has closed its end
    arrived,  \* segments in the receive queue of its socket
    shut,     \* the server has shut the socket down
    answered, \* a response was written
    backlog,  \* clients waiting for accept, in order
    sock,     \* the client behind an open descriptor, or NoClient
    watched,  \* descriptors in the epoll set (the listener always is)
    ready,    \* descriptors on epoll's ready list
    \* the server process
    up,       \* it is alive
    hpc,      \* where the handler of a descriptor's event is
    got,      \* segments it has read
    connfd,   \* the descriptor the CONNECT handler accepted last, or Listener
    ip,       \* fd_ip_map
    owner,    \* history: the client behind the descriptor in epoll_wait
    lost,     \* history: descriptors that epoll refused to watch
    stranded  \* history: accept failed and left clients behind, with no event to come

cvars == <<kind, phase, sent, hup, arrived, shut, answered>>
kvars == <<backlog, sock, watched, ready>>
hvars == <<up, hpc, got, connfd, ip, owner, lost, stranded>>
svars == <<cvars, kvars, hvars>>

-----------------------------------------------------------------------------
Running == {e \in Events : hpc[e] \notin {"none", "queued"}}

\* What read(2) returns without blocking
Eof(c)       == arrived[c] = 0 /\ (hup[c] \/ shut[c])
ReadReady(c) == arrived[c] > 0 \/ hup[c] \/ shut[c]

\* What epoll finds when it looks at a descriptor
Readable(e) == IF e = Listener THEN backlog # <<>> ELSE ReadReady(sock[e])

\* epoll's wake-up of the descriptor of c, if it is in the epoll set
Edge(c) == ready \cup {f \in watched : sock[f] = c}

WholeRequest(c) ==
    HeaderSegs + (IF kind[c] \in {"post", "post_delim"} THEN 1 ELSE 0)

ServerTypeOK ==
    /\ kind \in [Clients -> Kinds]
    /\ phase \in [Clients -> {"new", "backlog", "open", "closed"}]
    /\ sent \in [Clients -> 0 .. MaxSegs]
    /\ arrived \in [Clients -> 0 .. MaxSegs]
    /\ {hup, shut, answered} \subseteq [Clients -> BOOLEAN]
    /\ backlog \in Seq(Clients)
    /\ sock \in [Fds -> Clients \cup {NoClient}]
    /\ watched \subseteq Fds /\ ready \subseteq Events
    /\ up \in BOOLEAN
    /\ hpc[Listener] \in {"none", "queued", "accept", "record", "watch"}
    /\ \A f \in Fds : hpc[f] \in {"none", "queued", "peek", "header", "route",
                                  "body", "respond", "shutdown", "remove", "close"}
    /\ got \in [Fds -> 0 .. MaxSegs]
    /\ hpc[Listener] \in {"record", "watch"} => connfd \in Fds
    /\ ip \in [Fds -> Clients \cup {NoClient}]
    /\ owner \in [Fds -> Clients \cup {NoClient}]
    /\ lost \subseteq Fds /\ stranded \in BOOLEAN

ServerInit ==
    /\ kind \in [Clients -> Kinds]
    /\ phase = [c \in Clients |-> "new"]
    /\ sent = [c \in Clients |-> 0]
    /\ arrived = [c \in Clients |-> 0]
    /\ hup = [c \in Clients |-> FALSE]
    /\ shut = [c \in Clients |-> FALSE]
    /\ answered = [c \in Clients |-> FALSE]
    /\ backlog = <<>>
    /\ sock = [f \in Fds |-> NoClient]
    /\ watched = {} /\ ready = {}
    /\ up = TRUE
    /\ hpc = [e \in Events |-> "none"]
    /\ got = [f \in Fds |-> 0]
    /\ connfd = Listener
    /\ ip = [f \in Fds |-> NoClient]
    /\ owner = [f \in Fds |-> NoClient]
    /\ lost = {} /\ stranded = FALSE

Goto(e, label) == hpc' = [hpc EXCEPT ![e] = label]

-----------------------------------------------------------------------------
(* Clients                                                                  *)

Connect(c) ==
    /\ phase[c] = "new"
    /\ phase' = [phase EXCEPT ![c] = "backlog"]
    /\ backlog' = Append(backlog, c)
    /\ ready' = ready \cup {Listener}
    /\ stranded' = FALSE
    /\ UNCHANGED <<kind, sent, hup, arrived, shut, answered, sock, watched,
                   up, hpc, got, connfd, ip, owner, lost>>

\* A client may send more than one whole request, up to MaxSegs.  What arrives
\* after the server's shutdown resets the connection, which was at its end.
Send(c) ==
    /\ phase[c] \in {"backlog", "open"} /\ ~hup[c] /\ ~shut[c]
    /\ sent[c] < MaxSegs
    /\ sent' = [sent EXCEPT ![c] = @ + 1]
    /\ arrived' = [arrived EXCEPT ![c] = @ + 1]
    /\ ready' = Edge(c)
    /\ UNCHANGED <<kind, phase, hup, shut, answered, backlog, sock, watched, hvars>>

\* close, or shutdown for writing
HangUp(c) ==
    /\ c \in MayHangUp
    /\ phase[c] \in {"backlog", "open"} /\ ~hup[c]
    /\ hup' = [hup EXCEPT ![c] = TRUE]
    /\ ready' = Edge(c)
    /\ UNCHANGED <<kind, phase, sent, arrived, shut, answered, backlog, sock,
                   watched, hvars>>

-----------------------------------------------------------------------------
(* Reactor::handle_events                                                   *)

\* epoll_wait takes descriptors off the ready list, reports those that are still
\* readable, and stops at MaxEvent of them; a task is submitted for each.  (An
\* error of epoll_wait is a round without events.)
Poll ==
    /\ \A e \in Events : hpc[e] = "none"
    /\ \E taken \in SUBSET ready :
        LET reported == {e \in taken : Readable(e)} IN
        /\ Cardinality(reported) \in 1 .. MaxEvent
        /\ taken # ready => Cardinality(reported) = MaxEvent
        /\ hpc' = [e \in Events |-> IF e \in reported THEN "queued" ELSE "none"]
        /\ owner' = [f \in Fds |-> IF f \in reported THEN sock[f] ELSE NoClient]
        /\ ready' = ready \ taken
    /\ UNCHANGED <<cvars, backlog, sock, watched, up, got, connfd, ip, lost,
                   stranded>>

\* a worker takes the task: the demultiplexer chose its handler
Start(e) ==
    /\ hpc[e] = "queued"
    /\ Cardinality(Running) < WorkerCnt
    /\ Goto(e, IF e = Listener THEN "accept" ELSE "peek")
    /\ UNCHANGED <<cvars, kvars, up, got, connfd, ip, owner, lost, stranded>>

-----------------------------------------------------------------------------
(* The CONNECT handler                                                      *)

\* Mutant of Accept: the handler does not record the address
AcceptUnrecorded(f) ==
    /\ hpc[Listener] = "accept"
    /\ backlog # <<>> /\ sock[f] = NoClient
    /\ backlog' = Tail(backlog)
    /\ sock' = [sock EXCEPT ![f] = Head(backlog)]
    /\ phase' = [phase EXCEPT ![Head(backlog)] = "open"]
    /\ connfd' = f
    /\ Goto(Listener, "watch")
    /\ UNCHANGED <<kind, sent, hup, arrived, shut, answered, watched, ready, up,
                   got, ip, owner, lost, stranded>>

Accept(f) ==
    /\ hpc[Listener] = "accept"
    /\ backlog # <<>> /\ sock[f] = NoClient
    /\ backlog' = Tail(backlog)
    /\ sock' = [sock EXCEPT ![f] = Head(backlog)]
    /\ phase' = [phase EXCEPT ![Head(backlog)] = "open"]
    /\ connfd' = f
    /\ Goto(Listener, "record")
    /\ UNCHANGED <<kind, sent, hup, arrived, shut, answered, watched, ready, up,
                   got, ip, owner, lost, stranded>>

\* EWOULDBLOCK
AcceptedAll ==
    /\ hpc[Listener] = "accept"
    /\ backlog = <<>>
    /\ Goto(Listener, "none")
    /\ connfd' = Listener
    /\ UNCHANGED <<cvars, kvars, up, got, ip, owner, lost, stranded>>

\* ETOOMANYREFS: once more
AcceptAgain == hpc[Listener] = "accept" /\ UNCHANGED svars

\* Mutant of AcceptFails: the error is not looked at
AcceptUnchecked ==
    /\ hpc[Listener] = "accept"
    /\ connfd' = Listener
    /\ Goto(Listener, "watch")
    /\ UNCHANGED <<cvars, kvars, up, got, ip, owner, lost, stranded>>

\* Any other error ends the loop: for want of a descriptor or of memory, or since
\* the connection that was next has been aborted
AcceptFails ==
    /\ hpc[Listener] = "accept"
    /\ \/ UNCHANGED <<backlog, phase>>
       \/ /\ backlog # <<>>
          /\ backlog' = Tail(backlog)
          /\ phase' = [phase EXCEPT ![Head(backlog)] = "closed"]
    /\ stranded' = (backlog' # <<>> /\ Listener \notin ready)
    /\ Goto(Listener, "none")
    /\ connfd' = Listener
    /\ UNCHANGED <<kind, sent, hup, arrived, shut, answered, sock, watched, ready,
                   up, got, ip, owner, lost>>

Record ==
    /\ hpc[Listener] = "record"
    /\ ip' = [ip EXCEPT ![connfd] = sock[connfd]]
    /\ Goto(Listener, "watch")
    /\ UNCHANGED <<cvars, kvars, up, got, connfd, owner, lost, stranded>>

\* Mutant of Watch: one accept per event
WatchOnce ==
    /\ hpc[Listener] = "watch"
    /\ watched' = watched \cup {connfd}
    /\ ready' = IF Readable(connfd) THEN ready \cup {connfd} ELSE ready
    /\ Goto(Listener, "none")
    /\ UNCHANGED <<cvars, backlog, sock, up, got, connfd, ip, owner, lost,
                   stranded>>

\* add_event: epoll looks at the descriptor once when it is added
Watch ==
    /\ hpc[Listener] = "watch"
    /\ watched' = watched \cup {connfd}
    /\ ready' = IF Readable(connfd) THEN ready \cup {connfd} ELSE ready
    /\ Goto(Listener, "accept")
    /\ UNCHANGED <<cvars, backlog, sock, up, got, connfd, ip, owner, lost,
                   stranded>>

\* epoll_ctl fails, and the loop goes on: nobody watches or closes the descriptor
WatchFails ==
    /\ hpc[Listener] = "watch"
    /\ lost' = lost \cup {connfd}
    /\ Goto(Listener, "accept")
    /\ UNCHANGED <<cvars, kvars, up, got, connfd, ip, owner, stranded>>

-----------------------------------------------------------------------------
(* The RW handler                                                           *)

\* read(2) returns a part of what has arrived
Read(f, to) ==
    LET c == sock[f] IN
    \E n \in 1 .. arrived[c] :
        /\ got' = [got EXCEPT ![f] = @ + n]
        /\ arrived' = [arrived EXCEPT ![c] = @ - n]
        /\ Goto(f, to)
        /\ UNCHANGED <<kind, phase, sent, hup, shut, answered, kvars, up, connfd,
                       ip, owner, lost, stranded>>

\* Nothing but the place in the handler changes
Step(f, to) == Goto(f, to) /\ UNCHANGED <<cvars, kvars, up, got, connfd, ip, owner,
                                          lost, stranded>>

Peek(f) ==
    /\ hpc[f] = "peek"
    /\ \/ Read(f, "header")
       \/ Eof(sock[f]) /\ Step(f, "remove")

\* read_header reads on until the header is complete, malformed or cut off
Header(f) ==
    LET c == sock[f] IN
    /\ hpc[f] = "header"
    /\ \/ kind[c] = "bad" /\ Step(f, "shutdown")
       \/ kind[c] # "bad" /\ got[f] >= HeaderSegs /\ Step(f, "route")
       \/ kind[c] # "bad" /\ got[f] < HeaderSegs /\ Read(f, "header")
       \/ kind[c] # "bad" /\ got[f] < HeaderSegs /\ Eof(c) /\ Step(f, "shutdown")

\* the client's address is looked up, the host found, and the kind of content
Route(f) ==
    LET c == sock[f] IN
    /\ hpc[f] = "route"
    /\ \/ kind[c] = "unserved" /\ Step(f, "shutdown")
       \/ kind[c] = "get" /\ Step(f, "respond")
       \/ kind[c] \in {"post", "post_delim"} /\ Step(f, "body")

\* Mutant of Body: the delimiter is not recognised
BodyToEof(f) ==
    LET c == sock[f] IN
    /\ hpc[f] = "body"
    /\ \/ Read(f, "body")
       \/ Eof(c) /\ Step(f, "shutdown")

\* vector_body::read knows no Content-Length: it reads until a character that
\* ends the arguments ("post_delim" has one) or until the connection ends.  The
\* end leaves the stream with eofbit, and then nothing that is inserted into it
\* is written (module Response): the service runs, but no response is sent.
Body(f) ==
    LET c == sock[f]
        delimited == kind[c] = "post_delim" /\ got[f] > HeaderSegs
    IN  /\ hpc[f] = "body"
        /\ \/ delimited /\ Step(f, "respond")
           \/ ~delimited /\ Read(f, "body")
           \/ ~delimited /\ Eof(c) /\ Step(f, "shutdown")

\* write(2) to a socket that is shut down raises SIGPIPE, and may do so when
\* the client has closed
Respond(f) ==
    LET c == sock[f] IN
    /\ hpc[f] = "respond"
    /\ \/ /\ shut[c] \/ hup[c]
          /\ up' = FALSE
          /\ UNCHANGED <<answered, hpc>>
       \/ /\ ~shut[c]
          /\ answered' = [answered EXCEPT ![c] = TRUE]
          /\ Goto(f, "shutdown")
          /\ UNCHANGED up
    /\ UNCHANGED <<kind, phase, sent, hup, arrived, shut, kvars, got, connfd, ip,
                   owner, lost, stranded>>

\* Mutant of Shutdown: none is done
ShutdownNone(f) ==
    /\ hpc[f] = "shutdown"
    /\ got' = [got EXCEPT ![f] = 0]
    /\ Goto(f, "none")
    /\ UNCHANGED <<cvars, kvars, up, connfd, ip, owner, lost, stranded>>

\* ::shutdown(fd, SHUT_RDWR) makes the descriptor readable: another event
Shutdown(f) ==
    /\ hpc[f] = "shutdown"
    /\ shut' = [shut EXCEPT ![sock[f]] = TRUE]
    /\ ready' = Edge(sock[f])
    /\ got' = [got EXCEPT ![f] = 0]
    /\ Goto(f, "none")
    /\ UNCHANGED <<kind, phase, sent, hup, arrived, answered, backlog, sock, watched,
                   up, connfd, ip, owner, lost, stranded>>

\* remove_event, then close
\* Mutants of Remove: close comes first; or does not come
RemoveClosed(f) ==
    /\ hpc[f] = "remove"
    /\ watched' = watched \ {f} /\ ready' = ready \ {f}
    /\ sock' = [sock EXCEPT ![f] = NoClient]
    /\ Goto(f, "close")
    /\ UNCHANGED <<cvars, backlog, up, got, connfd, ip, owner, lost, stranded>>

RemoveOnly(f) ==
    /\ hpc[f] = "remove"
    /\ watched' = watched \ {f} /\ ready' = ready \ {f}
    /\ Goto(f, "none")
    /\ UNCHANGED <<cvars, backlog, sock, up, got, connfd, ip, owner, lost,
                   stranded>>

Remove(f) ==
    /\ hpc[f] = "remove"
    /\ watched' = watched \ {f} /\ ready' = ready \ {f}
    /\ Goto(f, "close")
    /\ UNCHANGED <<cvars, backlog, sock, up, got, connfd, ip, owner, lost,
                   stranded>>

Close(f) ==
    /\ hpc[f] = "close"
    /\ phase' = [phase EXCEPT ![sock[f]] = "closed"]
    /\ sock' = [sock EXCEPT ![f] = NoClient]
    /\ Goto(f, "none")
    /\ UNCHANGED <<kind, sent, hup, arrived, shut, answered, backlog, watched, ready,
                   up, got, connfd, ip, owner, lost, stranded>>

-----------------------------------------------------------------------------
ConnectHandler ==
    \/ \E f \in Fds : Accept(f)
    \/ AcceptedAll \/ AcceptAgain \/ AcceptFails \/ Record \/ Watch \/ WatchFails

RWHandler(f) ==
    \/ Peek(f) \/ Header(f) \/ Route(f) \/ Body(f) \/ Respond(f)
    \/ Shutdown(f) \/ Remove(f) \/ Close(f)

ServerNext ==
    /\ up
    /\ \/ \E c \in Clients : Connect(c) \/ Send(c) \/ HangUp(c)
       \/ Poll
       \/ \E e \in Events : Start(e)
       \/ ConnectHandler
       \/ \E f \in Fds : RWHandler(f)

ServerSpec == ServerInit /\ [][ServerNext]_svars

\* The threads go on with what they do.  A client that has connected sends its
\* request; nobody has to connect, to send more, or to hang up.  That a task which
\* the pool has accepted is started is not among it (see TasksStart).
ServerFairSpec ==
    /\ ServerSpec
    /\ WF_svars(up /\ Poll)
    /\ WF_svars(up /\ ConnectHandler)
    /\ \A f \in Fds : WF_svars(up /\ RWHandler(f))
    /\ \A c \in Clients : WF_svars(up /\ sent[c] < WholeRequest(c) /\ Send(c))

-----------------------------------------------------------------------------
\* A handler works on the connection its event was for: a descriptor is not
\* closed and given to another client between epoll_wait and the handler's end.
HandlerOwnsFd ==
    \A f \in Fds : hpc[f] # "none" => sock[f] = owner[f] /\ sock[f] # NoClient

\* The address a handler logs is that of the client it serves, also when the
\* descriptor was another client's before.
AddressOfClient == \A f \in Fds : hpc[f] = "route" => ip[f] = sock[f]

\* No edge is lost on a connection: when no handler has it, and there is
\* something to read or to close, epoll will report it.
NoLostEdge ==
    \A f \in watched : hpc[f] = "none" /\ Readable(f) => f \in ready

\* A descriptor is open exactly if it is watched, or a handler is about to watch
\* it or has just stopped to, or epoll refused it: only that loses a descriptor,
\* and it does so for good.
NoFdLeak ==
    \A f \in Fds : sock[f] # NoClient <=>
        \/ f \in watched
        \/ connfd = f /\ hpc[Listener] \in {"record", "watch"}
        \/ hpc[f] = "close"
        \/ f \in lost

\* No edge is lost on the listening socket: nobody waits in the backlog unseen,
\* unless accept has failed and no client has connected since.
NobodyForgotten ==
    backlog # <<>> /\ hpc[Listener] = "none" => Listener \in ready \/ stranded

\* A client's hang-up, or what it sends, ends its connection, not the server.
ServerSurvives == up

\* The pool starts every task it has accepted. It does so unless a task was pushed
\* without the mutex (module EventLoop), so this is a hypothesis and no fairness.
TasksStart == \A e \in Events : []<>(~up \/ hpc[e] # "queued")

\* If tasks start, every connection ends, but for those that a failure of accept
\* leaves in the backlog or a failure of add_event leaves unwatched.
ConnectionEnds ==
    TasksStart => \A c \in Clients :
        phase[c] = "backlog" ~> \/ phase[c] = "closed"
                                \/ phase[c] = "backlog" /\ stranded
                                \/ \E f \in lost : sock[f] = c

\* If tasks start, a client that has sent a whole request on a connection that is
\* watched is answered, if the request is well formed, for a known host and not
\* for a service whose library does not load.
RequestAnswered ==
    TasksStart => \A c \in Clients :
        (/\ \E f \in watched : sock[f] = c
         /\ sent[c] = WholeRequest(c)
         /\ kind[c] \notin {"bad", "unserved"}) ~> answered[c]
=============================================================================
