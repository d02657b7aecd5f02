---------------------------- MODULE ServerProofs ----------------------------
(***************************************************************************)
(* Proofs about module Server, for any clients, number of descriptors,     *)
(* threads and segments: whose descriptor a handler works on, that no edge *)
(* is lost, and which descriptors and clients a failed call does lose.     *)
(***************************************************************************)
EXTENDS Server, Integers, TLAPS

Places == {"none", "queued", "accept", "record", "watch", "peek", "header", "route",
           "body", "respond", "shutdown", "remove", "close"}

\* A client is at one place: it waits once in the backlog, or is behind one
\* descriptor.
ConnInv ==
    /\ \A i \in DOMAIN backlog : phase[backlog[i]] = "backlog"
    /\ \A i, j \in DOMAIN backlog : backlog[i] = backlog[j] => i = j
    /\ \A f \in Fds : sock[f] # NoClient => phase[sock[f]] = "open"
    /\ \A f, g \in Fds : sock[f] = sock[g] /\ sock[f] # NoClient => f = g

\* The CONNECT handler has accepted connfd and not yet watched it.
Accepted(f) == connfd = f /\ hpc[Listener] \in {"record", "watch"}

\* A descriptor is watched from add_event to remove_event; it is open then, its
\* address is recorded, and only then is it reported or in a handler.
WatchInv ==
    /\ hpc \in [Events -> Places]
    /\ ready \subseteq watched \cup {Listener}
    /\ \A f \in watched : sock[f] # NoClient /\ hpc[f] # "close" /\ ip[f] = sock[f]
    /\ \A f \in Fds : hpc[f] \notin {"none", "close"} => f \in watched
    /\ \A f \in Fds : Accepted(f) =>
          /\ sock[f] # NoClient /\ f \notin watched /\ hpc[f] = "none"
          /\ hpc[Listener] = "watch" => ip[f] = sock[f]

\* What a handler has read and what is left was sent by the client.
ByteInv ==
    /\ \A c \in Clients : arrived[c] <= sent[c]
    /\ \A f \in Fds : sock[f] # NoClient => got[f] + arrived[sock[f]] <= sent[sock[f]]
    /\ \A f \in Fds : hpc[f] \in {"none", "queued", "peek", "remove", "close"} => got[f] = 0

\* Somebody has each open descriptor, but for those that epoll refused, and these
\* are open and in nobody's hands.
OpenInv ==
    /\ \A f \in Fds : sock[f] # NoClient =>
          f \in watched \/ Accepted(f) \/ hpc[f] = "close" \/ f \in lost
    /\ \A f \in lost :
          /\ f \in Fds /\ sock[f] # NoClient
          /\ f \notin watched /\ hpc[f] = "none" /\ ~Accepted(f)

ServerInv ==
    /\ ServerTypeOK /\ ConnInv /\ WatchInv /\ ByteInv
    /\ HandlerOwnsFd /\ NoLostEdge /\ OpenInv
-----------------------------------------------------------------------------
(* What the steps have in common                                            *)

LEMMA ListenerApart == Listener \notin Fds /\ Events = Fds \cup {Listener}
BY ServerAssumption DEF Fds, Listener, Events

LEMMA ClientOf ==
    ASSUME ServerTypeOK, NEW f \in Fds, sock[f] # NoClient
    PROVE  sock[f] \in Clients
BY DEF ServerTypeOK

\* A place follows a handler's place, and the others stay where they are.
LEMMA Moved ==
    ASSUME WatchInv, NEW e \in Events, NEW to \in Places, Goto(e, to)
    PROVE  /\ hpc' \in [Events -> Places] /\ hpc'[e] = to
           /\ \A d \in Events : d # e => hpc'[d] = hpc[d]
BY DEF WatchInv, Goto

\* The parts that only relate some of the variables hold as long as these do.
LEMMA ConnKept ==
    ASSUME ConnInv, UNCHANGED <<phase, backlog, sock>>
    PROVE  ConnInv'
BY DEF ConnInv

LEMMA OpenKept ==
    ASSUME OpenInv, UNCHANGED <<sock, watched, connfd, hpc, lost>>
    PROVE  OpenInv'
BY DEF OpenInv, Accepted

-----------------------------------------------------------------------------
\* Nothing a client does takes an edge from a connection, or anything else from
\* the server (epoll's wake-up of a watched descriptor is external).
LEMMA ClientStep ==
    ASSUME ServerInv, NEW c \in Clients, Connect(c) \/ Send(c) \/ HangUp(c)
    PROVE  ServerInv'
<1>. USE DEF ServerInv
<1>0. /\ UNCHANGED <<kind, shut, answered, sock, watched, up, hpc, got, connfd, ip,
                      owner, lost>>
      /\ stranded' \in BOOLEAN
  BY DEF Connect, Send, HangUp, hvars, ServerTypeOK
<1>1. CASE Connect(c)
  <2>1. /\ phase[c] = "new" /\ phase' = [phase EXCEPT ![c] = "backlog"]
        /\ backlog' = Append(backlog, c) /\ ready' = ready \cup {Listener}
        /\ UNCHANGED <<sent, hup, arrived>>
    BY <1>1 DEF Connect
  <2>2. phase' \in [Clients -> {"new", "backlog", "open", "closed"}]
    BY <2>1 DEF ServerTypeOK
  <2>3. backlog' \in Seq(Clients)
    BY <2>1 DEF ServerTypeOK
  <2>4. ServerTypeOK'
    BY <1>0, <2>1, <2>2, <2>3, ListenerApart DEF ServerTypeOK
  <2>5. ConnInv'
    <3>1. backlog \in Seq(Clients)
      BY DEF ServerTypeOK
    <3>2. \A d \in Clients : phase'[d] = IF d = c THEN "backlog" ELSE phase[d]
      BY <2>1 DEF ServerTypeOK
    <3>3. /\ DOMAIN backlog' = 1 .. Len(backlog) + 1
          /\ \A i \in DOMAIN backlog' :
                backlog'[i] = IF i = Len(backlog) + 1 THEN c ELSE backlog[i]
          /\ DOMAIN backlog = 1 .. Len(backlog) /\ Len(backlog) \in Nat
          /\ \A i \in DOMAIN backlog : backlog[i] \in Clients
      BY <2>1, <3>1
    <3>4. \A i \in DOMAIN backlog : backlog[i] # c
      BY <2>1 DEF ConnInv
    <3>5. \A f \in Fds : sock[f] # c
      BY <2>1, ServerAssumption DEF ConnInv
    <3>6. \A f \in Fds : sock[f] # NoClient => sock[f] \in Clients
      BY ClientOf
    <3>. QED  BY <1>0, <3>2, <3>3, <3>4, <3>5, <3>6 DEF ConnInv
  <2>6. WatchInv'
    BY <1>0, <2>1 DEF WatchInv, Accepted
  <2>7. ByteInv'
    BY <1>0, <2>1 DEF ByteInv
  <2>8. HandlerOwnsFd' /\ OpenInv'
    BY <1>0 DEF HandlerOwnsFd, OpenInv, Accepted
  <2>9. NoLostEdge'
    BY <1>0, <2>1, ListenerApart DEF NoLostEdge, Readable, ReadReady, ServerTypeOK
  <2>. QED  BY <2>4, <2>5, <2>6, <2>7, <2>8, <2>9
<1>2. CASE Send(c) \/ HangUp(c)
  <2>1. /\ phase[c] \in {"backlog", "open"} /\ ready' = Edge(c)
        /\ UNCHANGED <<phase, backlog>>
    BY <1>2 DEF Send, HangUp
  <2>2. /\ sent' \in [Clients -> 0 .. MaxSegs] /\ arrived' \in [Clients -> 0 .. MaxSegs]
        /\ hup' \in [Clients -> BOOLEAN]
        /\ \A d \in Clients : d # c => arrived'[d] = arrived[d] /\ hup'[d] = hup[d]
        /\ \/ sent' = sent /\ arrived' = arrived
           \/ \A d \in Clients : sent'[d] = IF d = c THEN sent[d] + 1 ELSE sent[d]
        /\ \/ sent' = sent /\ arrived' = arrived
           \/ \A d \in Clients : arrived'[d] = IF d = c THEN arrived[d] + 1 ELSE arrived[d]
    <3>1. CASE Send(c)
      <4>1. /\ sent[c] < MaxSegs /\ sent' = [sent EXCEPT ![c] = sent[c] + 1]
            /\ arrived' = [arrived EXCEPT ![c] = arrived[c] + 1] /\ hup' = hup
        BY <3>1 DEF Send
      <4>2. arrived[c] <= sent[c] /\ sent[c] \in Nat /\ arrived[c] \in Nat
        BY DEF ByteInv, ServerTypeOK
      <4>. QED  BY <4>1, <4>2, ServerAssumption, SMTT(30) DEF ServerTypeOK
    <3>2. CASE HangUp(c)
      BY <3>2 DEF HangUp, ServerTypeOK
    <3>. QED  BY <1>2, <3>1, <3>2
  <2>3. ServerTypeOK'
    BY <1>0, <2>1, <2>2, ListenerApart DEF ServerTypeOK, Edge
  <2>4. ConnInv'
    BY <1>0, <2>1, ConnKept
  <2>5. WatchInv'
    BY <1>0, <2>1 DEF WatchInv, Accepted, Edge
  <2>6. ByteInv'
    <3>1. \A f \in Fds : sock[f] # NoClient => sock[f] \in Clients
      BY ClientOf
    <3>2. /\ \A d \in Clients : arrived[d] \in Int /\ sent[d] \in Int
          /\ \A f \in Fds : got[f] \in Int
      BY DEF ServerTypeOK
    <3>. QED  BY <1>0, <2>2, <3>1, <3>2 DEF ByteInv
  <2>7. HandlerOwnsFd' /\ OpenInv'
    BY <1>0 DEF HandlerOwnsFd, OpenInv, Accepted
  <2>8. NoLostEdge'
    <3>1. \A f \in watched : f \in Fds /\ sock[f] \in Clients
      BY ClientOf DEF ServerTypeOK, WatchInv
    <3>. QED
      BY <1>0, <2>1, <2>2, <3>1, ListenerApart
      DEF NoLostEdge, Readable, ReadReady, Edge
  <2>. QED  BY <2>3, <2>4, <2>5, <2>6, <2>7, <2>8
<1>. QED  BY <1>1, <1>2

\* A round gives what is reported to handlers, and what it takes off the ready
\* list without reporting it has nothing to read (Reactor.cpp, handle_events).
LEMMA PollStep == ASSUME ServerInv, Poll PROVE ServerInv'
<1>. USE DEF ServerInv
<1>1. PICK taken \in SUBSET ready :
         LET seen == {e \in taken : Readable(e)} IN
         /\ hpc' = [e \in Events |-> IF e \in seen THEN "queued" ELSE "none"]
         /\ owner' = [f \in Fds |-> IF f \in seen THEN sock[f] ELSE NoClient]
         /\ ready' = ready \ taken
  BY DEF Poll
<1>. DEFINE reported == {e \in taken : Readable(e)}
<1>0. /\ \A e \in Events : hpc[e] = "none"
      /\ hpc' = [e \in Events |-> IF e \in reported THEN "queued" ELSE "none"]
      /\ owner' = [f \in Fds |-> IF f \in reported THEN sock[f] ELSE NoClient]
      /\ ready' = ready \ taken
      /\ UNCHANGED <<cvars, backlog, sock, watched, up, got, connfd, ip, lost, stranded>>
  BY <1>1 DEF Poll
<1>. HIDE DEF reported
<1>2. reported \subseteq watched \cup {Listener}
  BY DEF reported, WatchInv
<1>3. \A e \in Events : hpc'[e] = IF e \in reported THEN "queued" ELSE "none"
  BY <1>0
<1>4. ServerTypeOK'
  <2>1. owner' \in [Fds -> Clients \cup {NoClient}]
    BY <1>0 DEF ServerTypeOK
  <2>. QED  BY <1>0, <1>3, <2>1, ListenerApart DEF ServerTypeOK, cvars
<1>5. ConnInv'
  BY <1>0, ConnKept DEF cvars
<1>6. WatchInv'
  <2>1. hpc' \in [Events -> Places]
    BY <1>0 DEF Places
  <2>2. \A f \in Fds : ~Accepted(f)'
    BY <1>3, ListenerApart DEF Accepted
  <2>. QED
    BY <1>0, <1>2, <1>3, <2>1, <2>2, ListenerApart DEF WatchInv, ServerTypeOK
<1>7. ByteInv'
  BY <1>0, <1>3, ListenerApart DEF ByteInv, cvars
<1>8. HandlerOwnsFd'
  BY <1>0, <1>2, <1>3, ListenerApart DEF HandlerOwnsFd, WatchInv
<1>9. NoLostEdge'
  BY <1>0, <1>3, ListenerApart
  DEF NoLostEdge, Readable, ReadReady, reported, ServerTypeOK, cvars
<1>10. OpenInv'
  BY <1>0, <1>2, <1>3, ListenerApart DEF OpenInv, Accepted
<1>. QED  BY <1>4, <1>5, <1>6, <1>7, <1>8, <1>9, <1>10

-----------------------------------------------------------------------------
(* The CONNECT handler (SimpleWeb.cpp:82-111)                               *)

\* What is left when the first client of the backlog is taken from it
LEMMA FirstTaken ==
    ASSUME ServerTypeOK, ConnInv, backlog # <<>>, NEW c, c = Head(backlog),
           NEW rest, rest = Tail(backlog)
    PROVE  /\ c \in Clients /\ phase[c] = "backlog" /\ \A f \in Fds : sock[f] # c
           /\ rest \in Seq(Clients)
           /\ \A i \in DOMAIN rest :
                 rest[i] \in Clients /\ rest[i] # c /\ phase[rest[i]] = "backlog"
           /\ \A i, j \in DOMAIN rest : rest[i] = rest[j] => i = j
<1>1. /\ backlog \in Seq(Clients) /\ c \in Clients /\ c = backlog[1]
      /\ rest \in Seq(Clients) /\ Len(backlog) \in Nat \ {0}
      /\ DOMAIN backlog = 1 .. Len(backlog) /\ DOMAIN rest = 1 .. Len(backlog) - 1
      /\ \A i \in DOMAIN rest : rest[i] = backlog[i + 1]
      /\ \A i \in DOMAIN backlog : backlog[i] \in Clients
  BY DEF ServerTypeOK
<1>2. phase[c] = "backlog"
  BY <1>1 DEF ConnInv
<1>3. \A f \in Fds : sock[f] # c
  BY <1>1, <1>2, ServerAssumption DEF ConnInv
<1>4. \A i \in DOMAIN rest : i + 1 \in DOMAIN backlog /\ i + 1 # 1
  BY <1>1
<1>5. \A i \in DOMAIN rest :
         rest[i] \in Clients /\ rest[i] # c /\ phase[rest[i]] = "backlog"
  BY <1>1, <1>4 DEF ConnInv
<1>6. \A i, j \in DOMAIN rest : rest[i] = rest[j] => i = j
  BY <1>1 DEF ConnInv
<1>. QED  BY <1>1, <1>2, <1>3, <1>5, <1>6

\* It begins, or ends, without a descriptor in its hands.
LEMMA ListenMove ==
    ASSUME ServerInv, hpc[Listener] \in {"queued", "accept"},
           NEW to \in {"accept", "none"}, Goto(Listener, to),
           phase' \in [Clients -> {"new", "backlog", "open", "closed"}],
           backlog' \in Seq(Clients), ConnInv', stranded' \in BOOLEAN,
           UNCHANGED <<kind, sent, hup, arrived, shut, answered, sock, watched, ready,
                       up, got, ip, owner, lost>>
    PROVE  ServerInv'
<1>. USE DEF ServerInv
<1>1. /\ hpc' \in [Events -> Places] /\ hpc'[Listener] = to
      /\ \A f \in Fds : hpc'[f] = hpc[f]
  BY Moved, ListenerApart DEF Places
<1>2. ServerTypeOK'
  BY <1>1 DEF ServerTypeOK
<1>3. WatchInv'
  BY <1>1 DEF WatchInv, Accepted, ServerTypeOK
<1>4. ByteInv'
  BY <1>1 DEF ByteInv
<1>5. HandlerOwnsFd'
  BY <1>1 DEF HandlerOwnsFd
<1>6. NoLostEdge'
  BY <1>1, ListenerApart DEF NoLostEdge, Readable, ReadReady, ServerTypeOK
<1>7. OpenInv'
  BY <1>1 DEF OpenInv, Accepted
<1>. QED  BY <1>2, <1>3, <1>4, <1>5, <1>6, <1>7

\* accept fails, and may take the first client from the backlog with it.
LEMMA AcceptFailsStep == ASSUME ServerInv, AcceptFails PROVE ServerInv'
<1>. DEFINE c == Head(backlog)
<1>1. /\ hpc[Listener] = "accept" /\ Goto(Listener, "none") /\ stranded' \in BOOLEAN
      /\ UNCHANGED <<kind, sent, hup, arrived, shut, answered, sock, watched, ready,
                     up, got, ip, owner, lost>>
  BY DEF AcceptFails
<1>2. /\ phase' \in [Clients -> {"new", "backlog", "open", "closed"}]
      /\ backlog' \in Seq(Clients) /\ ConnInv'
  <2>0. ServerTypeOK /\ ConnInv
    BY DEF ServerInv
  <2>1. CASE UNCHANGED <<backlog, phase>>
    BY <1>1, <2>0, <2>1, ConnKept DEF ServerTypeOK
  <2>2. CASE /\ backlog # <<>> /\ backlog' = Tail(backlog)
             /\ phase' = [phase EXCEPT ![c] = "closed"]
    <3>1. /\ c \in Clients /\ \A f \in Fds : sock[f] # c
          /\ backlog' \in Seq(Clients)
          /\ \A i \in DOMAIN backlog' : /\ backlog'[i] \in Clients /\ backlog'[i] # c
                                        /\ phase[backlog'[i]] = "backlog"
          /\ \A i, j \in DOMAIN backlog' : backlog'[i] = backlog'[j] => i = j
      BY <2>0, <2>2, FirstTaken
    <3>2. /\ phase' \in [Clients -> {"new", "backlog", "open", "closed"}]
          /\ \A d \in Clients : phase'[d] = IF d = c THEN "closed" ELSE phase[d]
      BY <2>0, <2>2 DEF ServerTypeOK
    <3>3. \A f \in Fds : sock[f] # NoClient => sock[f] \in Clients
      BY <2>0, ClientOf
    <3>4. ConnInv'
      BY <1>1, <2>0, <3>1, <3>2, <3>3 DEF ConnInv
    <3>. QED  BY <3>1, <3>2, <3>4
  <2>. QED  BY <2>1, <2>2 DEF AcceptFails
<1>. QED  BY <1>1, <1>2, ListenMove

\* A client gets a descriptor that no other client and no handler has.
LEMMA AcceptStep ==
    ASSUME ServerInv, NEW f \in Fds, Accept(f)
    PROVE  ServerInv'
<1>. USE DEF ServerInv
<1>. DEFINE c == Head(backlog)
<1>1. /\ hpc[Listener] = "accept" /\ backlog # <<>> /\ sock[f] = NoClient
      /\ backlog' = Tail(backlog) /\ sock' = [sock EXCEPT ![f] = c]
      /\ phase' = [phase EXCEPT ![c] = "open"] /\ connfd' = f
      /\ Goto(Listener, "record")
      /\ UNCHANGED <<kind, sent, hup, arrived, shut, answered, watched, ready, up, got,
                     ip, owner, lost, stranded>>
  BY DEF Accept
<1>2. /\ hpc' \in [Events -> Places] /\ hpc'[Listener] = "record"
      /\ \A g \in Fds : hpc'[g] = hpc[g]
  BY <1>1, Moved, ListenerApart DEF Places
<1>3. /\ c \in Clients /\ phase[c] = "backlog" /\ \A g \in Fds : sock[g] # c
      /\ backlog' \in Seq(Clients)
      /\ \A i \in DOMAIN backlog' : /\ backlog'[i] \in Clients /\ backlog'[i] # c
                                    /\ phase[backlog'[i]] = "backlog"
      /\ \A i, j \in DOMAIN backlog' : backlog'[i] = backlog'[j] => i = j
  <2>1. ServerTypeOK /\ ConnInv /\ backlog # <<>> /\ backlog' = Tail(backlog)
    BY <1>1
  <2>. QED  BY ONLY <2>1, FirstTaken
<1>4. /\ \A g \in Fds : sock'[g] = IF g = f THEN c ELSE sock[g]
      /\ \A d \in Clients : phase'[d] = IF d = c THEN "open" ELSE phase[d]
  BY <1>1, <1>3 DEF ServerTypeOK
<1>5. c # NoClient /\ f \notin watched /\ hpc[f] = "none"
  BY <1>1, <1>3, ServerAssumption DEF WatchInv, HandlerOwnsFd
<1>6. ServerTypeOK'
  <2>1. /\ phase' \in [Clients -> {"new", "backlog", "open", "closed"}]
        /\ sock' \in [Fds -> Clients \cup {NoClient}]
    BY <1>1, <1>3 DEF ServerTypeOK
  <2>. QED  BY <1>1, <1>2, <1>3, <2>1 DEF ServerTypeOK
<1>7. ConnInv'
  <2>1. \A g \in Fds : sock[g] # NoClient => sock[g] \in Clients
    BY ClientOf
  <2>2. \A i \in DOMAIN backlog' : phase'[backlog'[i]] = "backlog"
    BY <1>3, <1>4
  <2>3. \A g \in Fds : sock'[g] # NoClient => phase'[sock'[g]] = "open"
    BY <1>3, <1>4, <2>1 DEF ConnInv
  <2>4. \A g, h \in Fds : sock'[g] = sock'[h] /\ sock'[g] # NoClient => g = h
    BY <1>3, <1>4 DEF ConnInv
  <2>. QED  BY <1>3, <2>2, <2>3, <2>4 DEF ConnInv
<1>8. WatchInv'
  BY <1>1, <1>2, <1>4, <1>5 DEF WatchInv, Accepted, ServerTypeOK
<1>9. ByteInv'
  <2>1. got[f] = 0 /\ arrived[c] <= sent[c] /\ arrived[c] \in Nat
    BY <1>3, <1>5 DEF ByteInv, ServerTypeOK
  <2>. QED  BY <1>1, <1>2, <1>4, <2>1 DEF ByteInv
<1>10. HandlerOwnsFd'
  BY <1>1, <1>2, <1>4, <1>5 DEF HandlerOwnsFd
<1>11. NoLostEdge'
  <2>1. \A g \in watched : /\ g \in Fds /\ g # Listener
                           /\ sock'[g] = sock[g] /\ hpc'[g] = hpc[g]
    BY <1>2, <1>4, <1>5, ListenerApart DEF ServerTypeOK
  <2>. QED  BY <1>1, <2>1 DEF NoLostEdge, Readable, ReadReady
<1>12. OpenInv'
  BY <1>1, <1>2, <1>4 DEF OpenInv, Accepted
<1>. QED  BY <1>6, <1>7, <1>8, <1>9, <1>10, <1>11, <1>12

LEMMA RecordStep == ASSUME ServerInv, Record PROVE ServerInv'
<1>. USE DEF ServerInv
<1>1. /\ hpc[Listener] = "record" /\ ip' = [ip EXCEPT ![connfd] = sock[connfd]]
      /\ Goto(Listener, "watch")
      /\ UNCHANGED <<cvars, kvars, up, got, connfd, owner, lost, stranded>>
  BY DEF Record
<1>2. /\ hpc' \in [Events -> Places] /\ hpc'[Listener] = "watch"
      /\ \A f \in Fds : hpc'[f] = hpc[f]
  BY <1>1, Moved, ListenerApart DEF Places
<1>3. connfd \in Fds /\ \A f \in Fds : ip'[f] = IF f = connfd THEN sock[f] ELSE ip[f]
  BY <1>1 DEF ServerTypeOK
<1>4. ServerTypeOK'
  <2>1. ip' \in [Fds -> Clients \cup {NoClient}]
    BY <1>1, <1>3 DEF ServerTypeOK
  <2>. QED  BY <1>1, <1>2, <1>3, <2>1 DEF ServerTypeOK, cvars, kvars
<1>5. ConnInv'
  BY <1>1, ConnKept DEF cvars, kvars
<1>6. WatchInv'
  BY <1>1, <1>2, <1>3 DEF WatchInv, Accepted, kvars, ServerTypeOK
<1>7. ByteInv'
  BY <1>1, <1>2 DEF ByteInv, cvars, kvars
<1>8. HandlerOwnsFd'
  BY <1>1, <1>2 DEF HandlerOwnsFd, kvars
<1>9. NoLostEdge'
  BY <1>1, <1>2, ListenerApart
  DEF NoLostEdge, Readable, ReadReady, cvars, kvars, ServerTypeOK
<1>10. OpenInv'
  BY <1>1, <1>2 DEF OpenInv, kvars, Accepted
<1>. QED  BY <1>4, <1>5, <1>6, <1>7, <1>8, <1>9, <1>10

\* add_event finds what has arrived before it.
LEMMA WatchStep == ASSUME ServerInv, Watch PROVE ServerInv'
<1>. USE DEF ServerInv
<1>1. /\ hpc[Listener] = "watch" /\ watched' = watched \cup {connfd}
      /\ ready' = IF Readable(connfd) THEN ready \cup {connfd} ELSE ready
      /\ Goto(Listener, "accept")
      /\ UNCHANGED <<cvars, backlog, sock, up, got, connfd, ip, owner, lost, stranded>>
  BY DEF Watch
<1>2. /\ hpc' \in [Events -> Places] /\ hpc'[Listener] = "accept"
      /\ \A f \in Fds : hpc'[f] = hpc[f]
  BY <1>1, Moved, ListenerApart DEF Places
<1>3. /\ connfd \in Fds /\ sock[connfd] # NoClient /\ hpc[connfd] = "none"
      /\ ip[connfd] = sock[connfd]
  BY <1>1 DEF ServerTypeOK, WatchInv, Accepted
<1>4. ServerTypeOK'
  BY <1>1, <1>2, <1>3, ListenerApart DEF ServerTypeOK, cvars
<1>5. ConnInv'
  BY <1>1, ConnKept DEF cvars
<1>6. WatchInv'
  BY <1>1, <1>2, <1>3 DEF WatchInv, Accepted, ServerTypeOK
<1>7. ByteInv'
  BY <1>1, <1>2 DEF ByteInv, cvars
<1>8. HandlerOwnsFd'
  BY <1>1, <1>2 DEF HandlerOwnsFd
<1>9. NoLostEdge'
  BY <1>1, <1>2, <1>3, ListenerApart
  DEF NoLostEdge, Readable, ReadReady, cvars, ServerTypeOK
<1>10. OpenInv'
  BY <1>1, <1>2 DEF OpenInv, Accepted
<1>. QED  BY <1>4, <1>5, <1>6, <1>7, <1>8, <1>9, <1>10

\* It fails: the descriptor is nobody's from then on.
LEMMA WatchFailsStep == ASSUME ServerInv, WatchFails PROVE ServerInv'
<1>. USE DEF ServerInv
<1>1. /\ hpc[Listener] = "watch" /\ lost' = lost \cup {connfd} /\ Goto(Listener, "accept")
      /\ UNCHANGED <<cvars, kvars, up, got, connfd, ip, owner, stranded>>
  BY DEF WatchFails
<1>2. /\ hpc' \in [Events -> Places] /\ hpc'[Listener] = "accept"
      /\ \A f \in Fds : hpc'[f] = hpc[f]
  BY <1>1, Moved, ListenerApart DEF Places
<1>3. /\ connfd \in Fds /\ sock[connfd] # NoClient /\ connfd \notin watched
      /\ hpc[connfd] = "none"
  BY <1>1 DEF ServerTypeOK, WatchInv, Accepted
<1>4. ServerTypeOK'
  BY <1>1, <1>2, <1>3 DEF ServerTypeOK, cvars, kvars
<1>5. ConnInv'
  BY <1>1, ConnKept DEF cvars, kvars
<1>6. WatchInv'
  BY <1>1, <1>2 DEF WatchInv, Accepted, kvars, ServerTypeOK
<1>7. ByteInv'
  BY <1>1, <1>2 DEF ByteInv, cvars, kvars
<1>8. HandlerOwnsFd'
  BY <1>1, <1>2 DEF HandlerOwnsFd, kvars
<1>9. NoLostEdge'
  BY <1>1, <1>2, ListenerApart
  DEF NoLostEdge, Readable, ReadReady, cvars, kvars, ServerTypeOK
<1>10. OpenInv'
  BY <1>1, <1>2, <1>3 DEF OpenInv, Accepted, kvars
<1>. QED  BY <1>4, <1>5, <1>6, <1>7, <1>8, <1>9, <1>10

-----------------------------------------------------------------------------
(* The RW handler (Gateway.cpp:198-240)                                     *)

\* Its places from the start to the shutdown or the end of the stream
Serving == {"peek", "header", "route", "body", "respond", "shutdown", "remove"}

\* Only its place changes; it has read nothing when it begins or gives up.
LEMMA MoveStep ==
    ASSUME ServerInv, NEW f \in Fds, hpc[f] \notin {"none", "close"},
           NEW to \in Serving, to \in {"peek", "remove"} => got[f] = 0, Step(f, to)
    PROVE  ServerInv'
<1>. USE DEF ServerInv
<1>1. /\ Goto(f, to)
      /\ UNCHANGED <<cvars, kvars, up, got, connfd, ip, owner, lost, stranded>>
  BY DEF Step
<1>2. /\ hpc' \in [Events -> Places] /\ hpc'[f] = to
      /\ \A e \in Events : e # f => hpc'[e] = hpc[e]
  BY <1>1, Moved, ListenerApart DEF Places, Serving
<1>3. hpc'[Listener] = hpc[Listener] /\ f \in watched /\ to \notin {"none", "close"}
  BY <1>2, ListenerApart DEF WatchInv, Serving
<1>4. ServerTypeOK'
  BY <1>1, <1>2, <1>3, ListenerApart DEF ServerTypeOK, cvars, kvars, Serving
<1>5. ConnInv'
  BY <1>1, ConnKept DEF cvars, kvars
<1>6. WatchInv'
  BY <1>1, <1>2, <1>3, ListenerApart DEF WatchInv, Accepted, kvars, ServerTypeOK
<1>7. ByteInv'
  BY <1>1, <1>2, <1>3, ListenerApart DEF ByteInv, cvars, kvars, Serving
<1>8. HandlerOwnsFd'
  BY <1>1, <1>2, <1>3, ListenerApart DEF HandlerOwnsFd, kvars
<1>9. NoLostEdge'
  BY <1>1, <1>2, <1>3, ListenerApart
  DEF NoLostEdge, Readable, ReadReady, cvars, kvars, ServerTypeOK
<1>10. OpenInv'
  BY <1>1, <1>2, <1>3, ListenerApart DEF OpenInv, WatchInv, kvars, Accepted
<1>. QED  BY <1>4, <1>5, <1>6, <1>7, <1>8, <1>9, <1>10

\* It reads: what it has and what is left stay within what was sent.
LEMMA ReadStep ==
    ASSUME ServerInv, NEW f \in Fds, hpc[f] \notin {"none", "close"},
           NEW to \in {"header", "body"}, Read(f, to)
    PROVE  ServerInv'
<1>. USE DEF ServerInv
<1>. DEFINE c == sock[f]
<1>0. c \in Clients
  BY ClientOf DEF HandlerOwnsFd
<1>1. PICK n \in 1 .. arrived[c] :
         /\ got' = [got EXCEPT ![f] = got[f] + n]
         /\ arrived' = [arrived EXCEPT ![c] = arrived[c] - n]
         /\ Goto(f, to)
         /\ UNCHANGED <<kind, phase, sent, hup, shut, answered, kvars, up, connfd, ip,
                        owner, lost, stranded>>
  BY DEF Read
<1>2. /\ hpc' \in [Events -> Places] /\ hpc'[f] = to
      /\ \A e \in Events : e # f => hpc'[e] = hpc[e]
  BY <1>1, Moved, ListenerApart DEF Places
<1>3. hpc'[Listener] = hpc[Listener] /\ f \in watched
  BY <1>2, ListenerApart DEF WatchInv
<1>4. /\ \A g \in Fds : got'[g] = IF g = f THEN got[f] + n ELSE got[g]
      /\ \A d \in Clients : arrived'[d] = IF d = c THEN arrived[c] - n ELSE arrived[d]
  BY <1>0, <1>1 DEF ServerTypeOK
<1>5. /\ \A g \in Fds : got[g] \in 0 .. MaxSegs
      /\ \A d \in Clients : arrived[d] \in 0 .. MaxSegs /\ sent[d] \in 0 .. MaxSegs
      /\ got[f] + arrived[c] <= sent[c] /\ n \in 1 .. arrived[c] /\ MaxSegs \in Nat
  BY <1>0, ServerAssumption DEF ServerTypeOK, ByteInv, HandlerOwnsFd
<1>6. ServerTypeOK'
  <2>1. got' \in [Fds -> 0 .. MaxSegs] /\ arrived' \in [Clients -> 0 .. MaxSegs]
    <3>1. got[f] + n \in 0 .. MaxSegs /\ arrived[c] - n \in 0 .. MaxSegs
      BY <1>0, <1>5
    <3>. QED  BY <1>1, <3>1 DEF ServerTypeOK
  <2>. QED  BY <1>1, <1>2, <1>3, <2>1, ListenerApart DEF ServerTypeOK, kvars
<1>7. ConnInv'
  BY <1>1, ConnKept DEF kvars
<1>8. WatchInv'
  BY <1>1, <1>2, <1>3, ListenerApart DEF WatchInv, Accepted, kvars, ServerTypeOK
<1>9. ByteInv'
  <2>1. \A g \in Fds : g # f /\ sock[g] # NoClient => sock[g] # c /\ sock[g] \in Clients
    BY ClientOf DEF ConnInv
  <2>2. \A d \in Clients : arrived'[d] <= sent'[d]
    BY <1>0, <1>1, <1>4, <1>5 DEF ByteInv
  <2>3. \A g \in Fds :
           sock'[g] # NoClient => got'[g] + arrived'[sock'[g]] <= sent'[sock'[g]]
    BY <1>0, <1>1, <1>4, <1>5, <2>1 DEF ByteInv, kvars
  <2>4. \A g \in Fds :
           hpc'[g] \in {"none", "queued", "peek", "remove", "close"} => got'[g] = 0
    BY <1>2, <1>4, ListenerApart DEF ByteInv
  <2>. QED  BY <2>2, <2>3, <2>4 DEF ByteInv
<1>10. HandlerOwnsFd'
  BY <1>1, <1>2, <1>3, ListenerApart DEF HandlerOwnsFd, kvars
<1>11. NoLostEdge'
  <2>1. \A g \in watched : g # f => sock[g] # c /\ sock[g] \in Clients
    BY <1>0, ClientOf, ServerAssumption DEF ConnInv, WatchInv, ServerTypeOK
  <2>. QED
    BY <1>1, <1>2, <1>4, <2>1, ListenerApart
    DEF NoLostEdge, Readable, ReadReady, kvars, ServerTypeOK
<1>12. OpenInv'
  BY <1>1, <1>2, <1>3, ListenerApart DEF OpenInv, WatchInv, kvars, Accepted
<1>. QED  BY <1>6, <1>7, <1>8, <1>9, <1>10, <1>11, <1>12

\* It answers, or SIGPIPE ends the process.
LEMMA RespondStep ==
    ASSUME ServerInv, NEW f \in Fds, Respond(f)
    PROVE  ServerInv'
<1>. USE DEF ServerInv
<1>1. /\ hpc[f] = "respond" /\ up' \in BOOLEAN
      /\ UNCHANGED <<kind, phase, sent, hup, arrived, shut, kvars, got, connfd, ip,
                     owner, lost, stranded>>
  BY DEF Respond, ServerTypeOK
<1>2. /\ hpc' = hpc \/ Goto(f, "shutdown")
      /\ answered' \in [Clients -> BOOLEAN]
  BY DEF Respond, ServerTypeOK
<1>3. /\ hpc' \in [Events -> Places] /\ hpc'[f] \in {"respond", "shutdown"}
      /\ \A e \in Events : e # f => hpc'[e] = hpc[e]
  BY <1>1, <1>2, Moved, ListenerApart DEF Places, WatchInv
<1>4. hpc'[Listener] = hpc[Listener] /\ f \in watched
  BY <1>1, <1>3, ListenerApart DEF WatchInv
<1>5. ServerTypeOK'
  BY <1>1, <1>2, <1>3, <1>4, ListenerApart DEF ServerTypeOK, kvars
<1>6. ConnInv'
  BY <1>1, ConnKept DEF kvars
<1>7. WatchInv'
  BY <1>1, <1>3, <1>4, ListenerApart DEF WatchInv, Accepted, kvars, ServerTypeOK
<1>8. ByteInv'
  BY <1>1, <1>3, ListenerApart DEF ByteInv, kvars
<1>9. HandlerOwnsFd'
  BY <1>1, <1>3, <1>4, ListenerApart DEF HandlerOwnsFd, kvars
<1>10. NoLostEdge'
  BY <1>1, <1>3, ListenerApart DEF NoLostEdge, Readable, ReadReady, kvars, ServerTypeOK
<1>11. OpenInv'
  BY <1>1, <1>3, <1>4, ListenerApart DEF OpenInv, WatchInv, kvars, Accepted
<1>. QED  BY <1>5, <1>6, <1>7, <1>8, <1>9, <1>10, <1>11

\* The shutdown leaves an edge behind, by which the end of the stream is seen.
LEMMA ShutdownStep ==
    ASSUME ServerInv, NEW f \in Fds, Shutdown(f)
    PROVE  ServerInv'
<1>. USE DEF ServerInv
<1>. DEFINE c == sock[f]
<1>1. /\ hpc[f] = "shutdown" /\ shut' = [shut EXCEPT ![c] = TRUE]
      /\ ready' = Edge(c) /\ got' = [got EXCEPT ![f] = 0] /\ Goto(f, "none")
      /\ UNCHANGED <<kind, phase, sent, hup, arrived, answered, backlog, sock, watched,
                     up, connfd, ip, owner, lost, stranded>>
  BY DEF Shutdown
<1>2. /\ hpc' \in [Events -> Places] /\ hpc'[f] = "none"
      /\ \A e \in Events : e # f => hpc'[e] = hpc[e]
  BY <1>1, Moved, ListenerApart DEF Places
<1>3. hpc'[Listener] = hpc[Listener] /\ f \in watched /\ c \in Clients
  BY <1>1, <1>2, ListenerApart, ClientOf DEF WatchInv
<1>4. /\ \A g \in Fds : got'[g] = IF g = f THEN 0 ELSE got[g]
      /\ \A d \in Clients : d # c => shut'[d] = shut[d]
  BY <1>1 DEF ServerTypeOK
<1>5. ServerTypeOK'
  <2>0. 0 \in 0 .. MaxSegs
    BY ServerAssumption
  <2>1. got' \in [Fds -> 0 .. MaxSegs] /\ shut' \in [Clients -> BOOLEAN]
    BY <1>1, <2>0 DEF ServerTypeOK
  <2>2. ready' \subseteq Events
    BY <1>1, ListenerApart DEF ServerTypeOK, Edge
  <2>3. /\ hpc'[Listener] \in {"none", "queued", "accept", "record", "watch"}
        /\ hpc'[Listener] \in {"record", "watch"} => connfd' \in Fds
    BY <1>1, <1>3 DEF ServerTypeOK
  <2>4. \A e \in Fds : hpc'[e] \in {"none", "queued", "peek", "header", "route", "body",
                                    "respond", "shutdown", "remove", "close"}
    BY <1>2, ListenerApart DEF ServerTypeOK
  <2>. QED  BY <1>1, <2>1, <2>2, <2>3, <2>4 DEF ServerTypeOK
<1>6. ConnInv'
  BY <1>1, ConnKept
<1>7. WatchInv'
  BY <1>1, <1>2, <1>3, ListenerApart DEF WatchInv, Accepted, Edge, ServerTypeOK
<1>8. ByteInv'
  <2>1. \A g \in Fds : sock[g] # NoClient => sock[g] \in Clients
    BY ClientOf
  <2>2. /\ \A g \in Fds : got[g] \in Nat
        /\ \A d \in Clients : arrived[d] \in Nat /\ sent[d] \in Nat
    BY DEF ServerTypeOK
  <2>3. \A g \in Fds : got'[g] \in Nat /\ got'[g] <= got[g] /\ (got[g] = 0 => got'[g] = 0)
    BY <1>4, <2>2
  <2>4. \A g \in Fds :
           sock'[g] # NoClient => got'[g] + arrived'[sock'[g]] <= sent'[sock'[g]]
    BY <1>1, <2>1, <2>2, <2>3 DEF ByteInv
  <2>. QED  BY <1>1, <1>2, <1>4, <2>3, <2>4, ListenerApart DEF ByteInv
<1>9. HandlerOwnsFd'
  BY <1>1, <1>2, ListenerApart DEF HandlerOwnsFd
<1>10. NoLostEdge'
  <2>1. \A g \in watched : g \in Fds /\ sock[g] \in Clients
    BY ClientOf DEF ServerTypeOK, WatchInv
  <2>. QED
    BY <1>1, <1>2, <1>4, <2>1, ListenerApart DEF NoLostEdge, Readable, ReadReady, Edge
<1>11. OpenInv'
  BY <1>1, <1>2, <1>3, ListenerApart DEF OpenInv, WatchInv, Accepted
<1>. QED  BY <1>5, <1>6, <1>7, <1>8, <1>9, <1>10, <1>11

\* remove_event, and then close, by the handler that has the descriptor
LEMMA RemoveStep ==
    ASSUME ServerInv, NEW f \in Fds, Remove(f)
    PROVE  ServerInv'
<1>. USE DEF ServerInv
<1>1. /\ hpc[f] = "remove" /\ watched' = watched \ {f} /\ ready' = ready \ {f}
      /\ Goto(f, "close")
      /\ UNCHANGED <<cvars, backlog, sock, up, got, connfd, ip, owner, lost, stranded>>
  BY DEF Remove
<1>2. /\ hpc' \in [Events -> Places] /\ hpc'[f] = "close"
      /\ \A e \in Events : e # f => hpc'[e] = hpc[e]
  BY <1>1, Moved, ListenerApart DEF Places
<1>3. hpc'[Listener] = hpc[Listener] /\ f # Listener
  BY <1>2, ListenerApart
<1>4. ServerTypeOK'
  BY <1>1, <1>2, <1>3, ListenerApart DEF ServerTypeOK, cvars
<1>5. ConnInv'
  BY <1>1, ConnKept DEF cvars
<1>6. WatchInv'
  BY <1>1, <1>2, <1>3, ListenerApart DEF WatchInv, Accepted, ServerTypeOK
<1>7. ByteInv'
  BY <1>1, <1>2, ListenerApart DEF ByteInv, cvars
<1>8. HandlerOwnsFd'
  BY <1>1, <1>2, ListenerApart DEF HandlerOwnsFd
<1>9. NoLostEdge'
  BY <1>1, <1>2, ListenerApart DEF NoLostEdge, Readable, ReadReady, cvars, ServerTypeOK
<1>10. OpenInv'
  BY <1>1, <1>2, <1>3, ListenerApart DEF OpenInv, Accepted
<1>. QED  BY <1>4, <1>5, <1>6, <1>7, <1>8, <1>9, <1>10

LEMMA CloseStep ==
    ASSUME ServerInv, NEW f \in Fds, Close(f)
    PROVE  ServerInv'
<1>. USE DEF ServerInv
<1>. DEFINE c == sock[f]
<1>1. /\ hpc[f] = "close" /\ phase' = [phase EXCEPT ![c] = "closed"]
      /\ sock' = [sock EXCEPT ![f] = NoClient] /\ Goto(f, "none")
      /\ UNCHANGED <<kind, sent, hup, arrived, shut, answered, backlog, watched, ready,
                     up, got, connfd, ip, owner, lost, stranded>>
  BY DEF Close
<1>2. /\ hpc' \in [Events -> Places] /\ hpc'[f] = "none"
      /\ \A e \in Events : e # f => hpc'[e] = hpc[e]
  BY <1>1, Moved, ListenerApart DEF Places
<1>3. /\ hpc'[Listener] = hpc[Listener] /\ f \notin watched
      /\ c \in Clients /\ c # NoClient
  BY <1>1, <1>2, ListenerApart, ClientOf DEF WatchInv, HandlerOwnsFd
<1>4. /\ \A g \in Fds : sock'[g] = IF g = f THEN NoClient ELSE sock[g]
      /\ \A d \in Clients : phase'[d] = IF d = c THEN "closed" ELSE phase[d]
  BY <1>1, <1>3 DEF ServerTypeOK
<1>5. ServerTypeOK'
  <2>1. /\ phase' \in [Clients -> {"new", "backlog", "open", "closed"}]
        /\ sock' \in [Fds -> Clients \cup {NoClient}]
    BY <1>1 DEF ServerTypeOK
  <2>. QED  BY <1>1, <1>2, <1>3, <2>1, ListenerApart DEF ServerTypeOK
<1>6. ConnInv'
  <2>1. \A g \in Fds : g # f /\ sock[g] # NoClient => sock[g] # c /\ sock[g] \in Clients
    BY ClientOf DEF ConnInv
  <2>2. \A i \in DOMAIN backlog : backlog[i] \in Clients /\ backlog[i] # c
    BY <1>3 DEF ConnInv, ServerTypeOK
  <2>. QED  BY <1>1, <1>4, <2>1, <2>2 DEF ConnInv
<1>7. WatchInv'
  <2>1. UNCHANGED <<ready, watched, ip, connfd, hpc[Listener]>>
    BY <1>1, <1>3
  <2>2. \A g \in watched : g \in Fds /\ g # f /\ g \in Events
    BY <1>3, ListenerApart DEF ServerTypeOK
  <2>3. \A g \in watched : sock'[g] # NoClient /\ hpc'[g] # "close" /\ ip'[g] = sock'[g]
    BY <1>2, <1>4, <2>1, <2>2 DEF WatchInv
  <2>4. \A g \in Fds : hpc'[g] \notin {"none", "close"} => g \in watched'
    BY <1>2, <2>1, ListenerApart DEF WatchInv
  <2>5. \A g \in Fds : Accepted(g)' =>
            /\ sock'[g] # NoClient /\ g \notin watched' /\ hpc'[g] = "none"
            /\ hpc'[Listener] = "watch" => ip'[g] = sock'[g]
    <3>1. \A g \in Fds : Accepted(g)' => Accepted(g) /\ g # f
      BY <1>1, <2>1 DEF Accepted, WatchInv
    <3>. QED  BY <1>2, <1>4, <2>1, <3>1, ListenerApart DEF WatchInv
  <2>. QED  BY <1>2, <2>1, <2>3, <2>4, <2>5 DEF WatchInv
<1>8. ByteInv'
  BY <1>1, <1>2, <1>4, ListenerApart DEF ByteInv
<1>9. HandlerOwnsFd'
  BY <1>1, <1>2, <1>4, ListenerApart DEF HandlerOwnsFd
<1>10. NoLostEdge'
  <2>1. SUFFICES ASSUME NEW g \in watched, hpc'[g] = "none", Readable(g)'
                 PROVE  g \in ready
    BY <1>1 DEF NoLostEdge
  <2>2. g \in Fds /\ g # f /\ g # Listener
    BY <1>3, ListenerApart DEF ServerTypeOK
  <2>3. hpc[g] = "none" /\ sock'[g] = sock[g]
    BY <1>2, <1>4, <2>1, <2>2, ListenerApart
  <2>4. Readable(g)
    BY <1>1, <2>1, <2>2, <2>3 DEF Readable, ReadReady
  <2>. QED  BY <2>3, <2>4 DEF NoLostEdge
<1>11. OpenInv'
  BY <1>1, <1>2, <1>3, <1>4, ListenerApart DEF OpenInv, Accepted
<1>. QED  BY <1>5, <1>6, <1>7, <1>8, <1>9, <1>10, <1>11

\* Up to the response the handler reads, or moves on; it gives up the descriptor
\* only at its first look.
LEMMA RWStep ==
    ASSUME ServerInv, NEW f \in Fds, RWHandler(f)
    PROVE  ServerInv'
<1>. USE DEF Serving
<1>1. CASE Peek(f)
  <2>1. hpc[f] = "peek" /\ got[f] = 0 /\ (Read(f, "header") \/ Step(f, "remove"))
    BY <1>1 DEF Peek, ServerInv, ByteInv
  <2>. QED  BY <2>1, ReadStep, MoveStep
<1>2. CASE Header(f)
  <2>1. /\ hpc[f] = "header"
        /\ Read(f, "header") \/ Step(f, "shutdown") \/ Step(f, "route")
    BY <1>2 DEF Header
  <2>. QED  BY <2>1, ReadStep, MoveStep
<1>3. CASE Route(f)
  <2>1. hpc[f] = "route" /\ (Step(f, "shutdown") \/ Step(f, "respond") \/ Step(f, "body"))
    BY <1>3 DEF Route
  <2>. QED  BY <2>1, MoveStep
<1>4. CASE Body(f)
  <2>1. hpc[f] = "body" /\ (Read(f, "body") \/ Step(f, "respond") \/ Step(f, "shutdown"))
    BY <1>4 DEF Body
  <2>. QED  BY <2>1, ReadStep, MoveStep
<1>. QED
  BY <1>1, <1>2, <1>3, <1>4, RespondStep, ShutdownStep, RemoveStep, CloseStep DEF RWHandler

-----------------------------------------------------------------------------
LEMMA ServerInitInv == ServerInit => ServerInv
<1>. SUFFICES ASSUME ServerInit PROVE ServerInv
  OBVIOUS
<1>. USE DEF ServerInit
<1>1. \A f \in Fds : f \in Events
  BY ListenerApart
<1>2. ServerTypeOK
  <2>1. 0 \in 0 .. MaxSegs /\ backlog \in Seq(Clients)
    BY ServerAssumption
  <2>. QED  BY <1>1, <2>1, ListenerApart DEF ServerTypeOK
<1>3. ConnInv
  BY DEF ConnInv
<1>4. WatchInv
  BY <1>1, ListenerApart DEF WatchInv, Accepted, Places
<1>5. ByteInv
  BY DEF ByteInv
<1>6. HandlerOwnsFd /\ NoLostEdge /\ OpenInv
  BY <1>1 DEF HandlerOwnsFd, NoLostEdge, OpenInv, Accepted
<1>. QED  BY <1>2, <1>3, <1>4, <1>5, <1>6 DEF ServerInv

LEMMA ServerStepInv == ServerInv /\ [ServerNext]_svars => ServerInv'
<1>. SUFFICES ASSUME ServerInv, [ServerNext]_svars PROVE ServerInv'
  OBVIOUS
<1>1. ASSUME NEW e \in Events, Start(e) PROVE ServerInv'
  <2>1. hpc[e] = "queued" /\ Step(e, IF e = Listener THEN "accept" ELSE "peek")
    BY <1>1 DEF Start, Step
  <2>2. CASE e = Listener
    <3>1. /\ Goto(Listener, "accept")
          /\ UNCHANGED <<cvars, kvars, up, got, ip, owner, lost, stranded>>
      BY <2>1, <2>2 DEF Step
    <3>2. ConnInv'
      BY <3>1, ConnKept DEF ServerInv, cvars, kvars
    <3>. QED
      BY <2>1, <2>2, <3>1, <3>2, ListenMove DEF ServerInv, ServerTypeOK, cvars, kvars
  <2>3. CASE e \in Fds
    BY <2>1, <2>3, MoveStep, ListenerApart DEF ServerInv, ByteInv, Serving
  <2>. QED  BY <2>2, <2>3, ListenerApart
<1>2. CASE AcceptedAll
  <2>1. /\ hpc[Listener] = "accept" /\ Goto(Listener, "none")
        /\ UNCHANGED <<cvars, kvars, up, got, ip, owner, lost, stranded>>
    BY <1>2 DEF AcceptedAll
  <2>2. ConnInv'
    BY <2>1, ConnKept DEF ServerInv, cvars, kvars
  <2>. QED
    BY <2>1, <2>2, ListenMove DEF ServerInv, ServerTypeOK, cvars, kvars
<1>3. CASE UNCHANGED svars
  BY <1>3 DEF svars, cvars, kvars, hvars, ServerInv, ServerTypeOK, ConnInv, WatchInv,
              Accepted, ByteInv, HandlerOwnsFd, NoLostEdge, Readable, ReadReady, OpenInv
<1>4. CASE ConnectHandler
  BY <1>2, <1>3, <1>4, RecordStep, WatchStep, WatchFailsStep, AcceptStep, AcceptFailsStep
  DEF ConnectHandler, AcceptAgain
<1>. QED  BY <1>1, <1>3, <1>4, ClientStep, PollStep, RWStep DEF ServerNext

\* The inductive invariant holds throughout (SimpleWeb.cpp, Gateway.cpp, Reactor.cpp).
THEOREM ServerInvariant == ServerSpec => []ServerInv
BY ServerInitInv, ServerStepInv, PTL DEF ServerSpec

\* The variables keep their types.
THEOREM ServerTypeCorrect == ServerSpec => []ServerTypeOK
<1>1. ServerInv => ServerTypeOK
  BY DEF ServerInv
<1>. QED  BY <1>1, ServerInvariant, PTL

\* A descriptor is not closed and given to another client between epoll_wait and
\* the end of the handler (Gateway.cpp:198-240).
THEOREM OwnDescriptor == ServerSpec => []HandlerOwnsFd
<1>1. ServerInv => HandlerOwnsFd
  BY DEF ServerInv
<1>. QED  BY <1>1, ServerInvariant, PTL

\* The address a handler logs is that of its client, also on a descriptor that
\* was another's before (SimpleWeb.cpp:99, Gateway.cpp:198-240).
THEOREM OwnAddress == ServerSpec => []AddressOfClient
<1>1. ServerInv => AddressOfClient
  BY DEF ServerInv, WatchInv, AddressOfClient
<1>. QED  BY <1>1, ServerInvariant, PTL

\* What has arrived, or ended, on a watched connection is in a handler's hands or
\* will be reported (Reactor.cpp, add_event and handle_events).
THEOREM EdgesKept == ServerSpec => []NoLostEdge
<1>1. ServerInv => NoLostEdge
  BY DEF ServerInv
<1>. QED  BY <1>1, ServerInvariant, PTL

\* An open descriptor always has somebody who will close it or watch it, until
\* add_event fails, and then never again (Reactor.cpp:41, Gateway.cpp:205-206).
THEOREM DescriptorsKept == ServerSpec => []NoFdLeak
<1>1. ServerInv => NoFdLeak
  BY DEF ServerInv, OpenInv, WatchInv, HandlerOwnsFd, Accepted, NoFdLeak
<1>. QED  BY <1>1, ServerInvariant, PTL

-----------------------------------------------------------------------------
(* The listening socket                                                     *)

LEMMA BacklogStep ==
    ASSUME ServerInv, NobodyForgotten, [ServerNext]_svars
    PROVE  NobodyForgotten'
<1>. USE DEF NobodyForgotten
<1>0. hpc \in [Events -> Places] /\ Listener \in Events
  BY ListenerApart DEF ServerInv, WatchInv
<1>1. ASSUME NEW c \in Clients, Connect(c) \/ Send(c) \/ HangUp(c)
      PROVE  NobodyForgotten'
  BY <1>1 DEF Connect, Send, HangUp, Edge, hvars
<1>2. CASE Poll
  BY <1>0, <1>2 DEF Poll, Readable
<1>3. ASSUME NEW e \in Events, Start(e) PROVE NobodyForgotten'
  BY <1>0, <1>3 DEF Start, Goto, kvars
<1>4. CASE UNCHANGED svars
  BY <1>4 DEF svars, kvars, hvars
<1>5. CASE ConnectHandler
  <2>1. CASE AcceptedAll
    BY <2>1 DEF AcceptedAll, kvars
  <2>2. CASE AcceptFails
    BY <2>2 DEF AcceptFails
  <2>3. CASE Record \/ Watch \/ WatchFails \/ \E f \in Fds : Accept(f)
    BY <1>0, <2>3 DEF Record, Watch, WatchFails, Accept, Goto
  <2>. QED  BY <1>4, <1>5, <2>1, <2>2, <2>3 DEF ConnectHandler, AcceptAgain
<1>6. ASSUME NEW f \in Fds, RWHandler(f) PROVE NobodyForgotten'
  <2>1. f # Listener
    BY ListenerApart
  <2>2. CASE Peek(f) \/ Header(f) \/ Route(f) \/ Body(f)
    <3>1. hpc'[Listener] = hpc[Listener] /\ UNCHANGED <<kvars, stranded>>
      BY <1>0, <2>1, <2>2 DEF Peek, Header, Route, Body, Read, Step, Goto
    <3>. QED  BY <3>1 DEF kvars
  <2>3. CASE Respond(f)
    BY <1>0, <2>1, <2>3 DEF Respond, Goto, kvars
  <2>4. CASE Shutdown(f) \/ Remove(f) \/ Close(f)
    BY <1>0, <2>1, <2>4 DEF Shutdown, Remove, Close, Goto, Edge
  <2>. QED  BY <1>6, <2>2, <2>3, <2>4 DEF RWHandler
<1>. QED  BY <1>1, <1>2, <1>3, <1>4, <1>5, <1>6 DEF ServerNext

\* A client in the backlog is in the hands of the CONNECT handler or will be
\* reported, unless accept has failed, with any error but EWOULDBLOCK and
\* ETOOMANYREFS, and nobody has connected since (SimpleWeb.cpp:82-111).
THEOREM BacklogSeen == ServerSpec => []NobodyForgotten
<1>1. ServerInit => NobodyForgotten
  BY DEF ServerInit, NobodyForgotten
<1>2. ServerInv /\ NobodyForgotten /\ [ServerNext]_svars => NobodyForgotten'
  BY BacklogStep
<1>. QED  BY <1>1, <1>2, ServerInvariant, PTL DEF ServerSpec
=============================================================================
