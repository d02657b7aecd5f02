# SimpleWeb: specifications, model checking and proofs

TLA+ modules for the server in `src/`: what its threads, sockets and caches do, the TLC
configurations that check them on small instances, and TLAPS proofs, for any number of threads,
clients, files, lines and fields, of every safety property that the passing ones check.
Line numbers are those of the sources this directory lies beside.

## 1. The system

One process. `SimpleWeb::run` builds a thread pool, a reactor and a gateway, opens the listening
socket, and turns its thread into the event loop, which never returns.

| part | source | state | operations |
|---|---|---|---|
| thread pool | `ThreadPool.hpp`, `ThreadPool.cpp` | per worker a `std::list` of tasks, a mutex, a condition variable; one atomic `taskcnt`, one atomic `workercnt` | `emplace_back`, the worker loop, `setcleaner`, the destructor |
| event loop | `Reactor.cpp` | the epoll set, the futures of the round | `handle_events`, `add_event`, `remove_event`, registration of handlers |
| logger | `Logger.cpp` | `mess_list` behind `que_mutex` | `log` (handlers), `write` (event loop) |
| accept handler | `SimpleWeb.cpp` 82-111 | the listening socket's backlog, `fd_ip_map_` | accept until it would block, record the address, watch the descriptor |
| read/write handler | `Gateway.cpp` 198-240 | the connection, `fd_ip_map_` | peek, read the header, find the host, serve, log, shut down; or remove and close at the end of the stream |
| configuration and start | `Conf.cpp`, `SimpleWeb.cpp` 22-55, `Gateway.cpp` 192-197 | the settings and the hosts' sections, read once | `read`, `global_parser`, `host_parser`, the hosts of the gateway |
| host | `Gateway.cpp` 45-190, `http/status.hpp` | file cache, service tables, the table of reasons | `serve`: static file, dynamic service, or error |
| file cache | `filecaches.hpp` | a list of nodes and a map from path to iterator | `get`, `set` |
| files and bodies | `file.cpp`, `http/file_body.cpp` | a descriptor and a mapping | open and map, write to the socket |
| parsers | `http/read.hpp`, `http/vector_body.cpp` | none beyond a call | request line and header, arguments |
| response | `http/write.hpp`, `serializer.hpp`, `fdstream.hpp` | the state of the connection's stream, which the request was read from | `write`, `write_header` |
| values | `http/message.hpp`, `fields.hpp` | none | |

How they interact. The event loop waits in `epoll_wait`, calls `emplace_back` for the handler of
each event, then waits for each future in turn, then lets the logger write, and waits again: a
*round*. Handlers run on the pool's threads, several of one round at a time. They share, with
each other and with the accept handler, the epoll set and the descriptor table (kernel), the
map of addresses, the hosts' caches and service tables (no mutex) and the logger (mutex). All
descriptors are edge-triggered; connections are blocking sockets.

What is hard, and what makes each part correct:

- *Pool.* Lists of more than one node are pushed to and popped from without the mutex; the
  counter that picks the list also is the order to exit, and is raised after the task it counts
  may have run. Correct: a task runs once; nobody leaves early; no wake-up is missed; the
  caller sees a simple pool of threads (`TaskPool`).
- *Event loop.* Correct: rounds do not overlap, so a descriptor is never in two handlers; a
  round ends; what was logged is written.
- *Connections.* Edges are reported once; descriptors are reused; clients stop in the middle.
  Correct: no edge is lost that somebody depends on; no handler works on somebody else's
  descriptor; every connection ends and gives its descriptor back.
- *Cache.* Look-up and load are separate calls, and eviction must keep two containers in
  agreement. Correct: the answer is the file asked for; the list is bounded.
- *Parsers.* Three loops over one stream, with arrays and an index that outlive a line, and an
  end of stream that looks like success. Correct: the message is the one the client sent, and
  what is not a request never becomes one with the parts of two lines.
- *Response.* Many small insertions, each a `write(2)` that may be cut short; counters of
  different widths. Correct: what arrives is a beginning of the message; the body is the file.
- *Tables.* Filled by the first request that needs them, without a mutex, entry by entry.
  Correct: nothing that exists is missed, except while somebody is filling.
- *Configuration.* Three loops over one stream, each deciding where a section ends. Correct: the
  settings are those written, and a bad file is refused for what is bad in it.

`PROJECT.json` lists the hazards with their lines and the properties about each.

## 2. The modules

    TaskPool   <-implements-  ThreadPool <-extends- ThreadPoolInv <-extends- ThreadPoolProofs
                                  ^                                             ^
                              EventLoop  <-extends-  EventLoopProofs  -extends--+
    LruCache   <-implements-  FileCaches <-extends- Host <-extends- HostProofs
    FileBody   <-extends-  Response <-extends- ResponseProofs
    Conf       <-extends-  Site     <-extends- SiteProofs
    RequestReader          <-extends- RequestReaderProofs <-extends- SentRequestProofs
    Server                 <-extends- ServerProofs
               (takes the pool at its promise: TaskPool)

**ThreadPool.** One action per access to state that another thread can see. `sub` is the calling
thread (its place in `emplace_back` or the destructor, `thread_id` and a register), `wpc[w]` the
place of worker `w` in its loop. `SubPick` is hpp:43, `SubLock` 44, `SubTest` 45 with the unlock
of 49, `SubHook`, `SubLoad` and `SubStore` the push of 46 and 50, `SubNotify` 53, `SubCount` 54;
`WLock`, `WTest` and `WBlock` are cpp:19-22, `WCheck` 24 and 36, `WFinish` the return of 25,
`WLock2` and `WTest2` 26-31, `WLoad`, `WStore` and `WUnhook` the pop of 28 and 32, `WCount` 34;
`DStore`, `DMax`, `DNotify` and `DJoin` are the destructor. `size()` of libstdc++ is a counter
of its own, and `list` and `size` are separate here: an unsynchronised push and pop can lose an
update of it. Linking and unlinking are atomic in the model, which is exact while another node
lies between the two ends. An unlocked push or pop on a shorter list sets `race` to "torn":
`std::list` promises nothing after that. `RunsOnce`, the refinement and the properties of the
event loop then claim nothing more; `TypeOK`, `IndexInRange`, `NoPrematureExit` and `PoolInv` are
about what the model does and go on to hold in it. `race` is "unlocked" after the first push
without the mutex, "none" before, and `LockInv`, `NoLostWakeup` and `UnlockedPopLeavesANode` are
about "none" only.

**TaskPool.** The abstract pool: accept, start a task that nobody has run or runs, finish it.

**ThreadPoolInv.** The inductive invariant, in the parts a reader needs (`PoolInv`, which needs no
mutex, and `LockInv`, about mutexes, node counters and sleepers while `race = "none"`), and the
refinement mapping (`ImplementsTaskPool`).

**EventLoop.** `handle_events` and the logger on top of ThreadPool: `EPoll`, `ESubmit` (with
`SubStep` carrying the call through), `EGet`, `EWrite`. `ELog` is a handler's `Logger::log`.

**Server.** The life of connections: clients (`Connect`, `Send`, `HangUp`), epoll's ready list
(`Poll`, at most `MaxEvent` events a round), the accept handler and the read/write handler
(`Peek`, `Header`, `Route`, `Body`, `Respond`, `Shutdown`, `Remove`, `Close`). Bytes are
counted in segments. `hpc[e]` is the place of the handler of descriptor `e`; that there is only
one per descriptor is what `RoundsDisjoint` says of EventLoop. Handlers start in any order when
one of `WorkerCnt` threads is free, as TaskPool allows: what the pool's lists add to that is
checked in EventLoop.

The accept handler is `Accept`, `Record` and `Watch` for each client, and `AcceptedAll`
(EWOULDBLOCK) at the end. Its calls may fail at any time. `AcceptAgain` is the retry after
ETOOMANYREFS. `AcceptFails` is every other error of `accept`, with descriptors left or without:
it ends the loop, with the backlog as it was or without the aborted connection, and the
listener's edge is used up; `stranded` notes that clients are left with no event to come, until
the next one connects. `WatchFails` is an error of `epoll_ctl`, whose result nobody looks at: the
descriptor stays open and unwatched, and `lost` keeps it.

A request is answered by `Respond`, unless it is "bad" (malformed) or "unserved": its host is not
known, or `dlopen` does not load the library of its service (Gateway.cpp:89-93 comes before the
arguments are read). Those only get the shutdown. `Body` reads the arguments: at the end of the
stream they leave it with eofbit, and the response that follows is not written, so the handler
goes on to the shutdown.

**FileCaches.** `get` and `set` as `host::serve` calls them. A node is its address; a freed address
may be given to a later node, so that an iterator left in the map leads to it (or nowhere: `ub`).
Calls of two handlers interleave; when they overlap in time and one writes, `raced` is set. After
`ub` or `raced` nothing happens.

**LruCache.** What a host expects of the cache: a bounded list, most recent first, and the answer
is the file asked for.

**Host.** `host::serve` around the cache: `ServeFile` and `CacheStep` are the branch of a static
file (the steps of FileCaches), `FindServices` to `Call` that of a service with `dlopen`, `dlsym`
and the insertions into `getservices` and `postservices`, `Refuse` the errors of `access`.
`LookUp`, `FillFirst` and `FillRest` are `to_string(status)`, whose table the first response of
the process fills. Each of these is a step of its own, so that handlers meet in the middle;
`raced` is set when one of them changes what another is using, as in FileCaches.

**FileBody.** The loop of `file_body::write` with the width of `int` as a parameter.

**Response.** One response from the first insertion to the last byte: an insertion takes all of
its part (`InsertWhole`), less or nothing, which sets badbit (`InsertCut`), or finds the stream
no longer good and does nothing (`InsertNothing`). The body of a file follows by FileBody's
loop, which goes to the buffer and does not ask.

**Conf.** `Conf::read` and the parsers of the two sections, a step for each line. A line is a
heading, a pair or text. `Heading`, `NoHeading` and `EndOfFile` are read's own loop, `GlobalLine`
and `HostLine` the lines of a section, `EndSection` the end of its parser.

**Site.** From the file to a directory: what the constructor and `run` make of the configuration
(`GiveUp`, `Start`, `StartFails`, `DivideByZero`), the hosts the gateway inserts, and the one that
serves a request (`Serve`).

**RequestReader.** The loops of `read_header_line`, `read_header` and `vector_body::read`, each
`case` of their `switch` an action on the next token (a word, a digit, or one of the characters
the code tells apart): `LineStart` to `LineMinor` are read.hpp:47-218, `HeaderStart` to
`HeaderEnd` 256-346, `ArgName` to `ArgEnd` vector_body.cpp:37-109, `BodyBegin` the choice of
Gateway.cpp:79 and read.hpp:355. `Wire` is what a client writes for a request, and `WellFormed`
says which requests are meant: a method and a path that the loops accept, names
shorter than `MaxName`, keys and values without the characters that end them. `Eof` may come
before any token, so that how segments cut the stream does not matter. `s_done` of the request
line is unreachable (the `break` of read.hpp:213 ends all cases after it) and has no action.

Each component has an MC module that only adds what TLC needs. Definitions called *mutants* in
the comments are deliberately wrong versions of the definition below them: for every property
there is one that violates it.

## 3. The runs

| run | checks | instance | result |
|---|---|---|---|
| `pool` | invariants of the pool, its inductive invariant, refinement of TaskPool | 2 workers, 4 tasks | holds, 99 000 states |
| `event_loop` | `RoundsDisjoint`, `LogDrained`, `RoundCompletes` | 2 workers, 4 events, rounds of 3 | holds, 395 000 states |
| `loop_lost_wakeup` | `SomeoneAwake` | 1 worker, a round of 3 | violated |
| `server_reuse` | `HandlerOwnsFd`, `AddressOfClient`, `NoLostEdge`, `NoFdLeak`, `NobodyForgotten` | 3 clients, 2 descriptors, 2 threads, 2 events at a time | holds, 3.0 million states |
| `server_live` | `ConnectionEnds`, `RequestAnswered` | 2 clients, 2 descriptors, 2 threads | holds, 383 000 states |
| `server_post` | `RequestAnswered` | 1 client that posts | violated |
| `server_killed` | `ServerSurvives` | 1 client, 2 requests | violated |
| `host` | `ServedWhenFits`, `MapMatchesList`, `ListSound`, `OnlyWhileFilling`, refinement of LruCache | 2 handlers, 3 files, capacity 2 and 3, 2 services | holds, 2.2 million states |
| `cache_wrong_file` | `ServedIsRequested` | 1 handler, 2 files, capacity 1 | violated |
| `response` | `ExactWhenWhole`, `FaultHasACause`, `SentIsPrefix` | int of 6 bits, sizes 0 to 70, a header of 4 insertions | holds, 21 600 states |
| `site` | `SettingsAsWritten`, `EndsForCause`, `ServedAsWritten` | every file of up to 5 of 10 lines, 2 names | holds, 598 000 states |
| `request` | `HeaderIsRead`, `ArgsAreSent`, `FieldsAreLines`, `LineIsSane` | 208 requests, any one token replaced by any of 8 | holds, 1.5 million states |

What the violations show (lines and quotations in `PROJECT.json`):

1. *A task can be missed.* With more than one node in the list, `emplace_back` pushes and notifies
   without the mutex. The worker may at that moment have found the list empty and not be waiting
   yet. It then sleeps over the task, and `handle_events` waits for its future for ever. A push
   under the mutex in both branches removes this.
2. *An evicted file is answered with another.* Nodes have no name, so eviction erases the key "".
3. *A POST waits for ever* unless its body has a character that ends the arguments:
   `Content-Length` is not used. A client that ends its side instead is not answered either, as
   the stream it is answered on has eofbit.
4. *A second request can end the server*: it is answered on a socket shut down for writing, and
   nobody handles SIGPIPE.

What the models show that no run claims:

- `~ThreadPool` does not return while a worker is idle, as its wait looks only at its list; the
  server never destroys its pool.
- After a short write `file_body::write` asks for twice as much as before instead of what is left,
  and the file's bytes may be followed by others. On a blocking socket that takes a stopped and
  continued process, or a file of 2 GiB.
- A header that is cut short drops its rest, and the body of a file is sent behind it all the same.
- An argument that no delimiter ends is dropped (the last one of a body that ends with the
  connection), while one after a line feed gets a name with a stale beginning, as `i` is not
  reset: `ArgsAreSent` says what is left.
- Every pair of a host section sets its docroot back to "." (Conf.cpp:128): only a docroot that
  is the last pair counts, and a section without pairs has an empty one. `ServedAsWritten` is
  about files whose sections end with their docroot, as the one in `src/sw.conf` does.
- A POST that is refused keeps the status 500 with a text of 400, a GET gets the status 400
  (Gateway.cpp:117, 126). A library that `dlopen` does not load leaves the client without an
  answer (Gateway.cpp:89-93).
- A descriptor that `epoll_ctl` refuses is lost to the process, and its client waits for ever;
  clients that a failed `accept` leaves in the backlog wait for the next one to connect.
  `NoFdLeak`, `NobodyForgotten` and `ConnectionEnds` say that nothing else has this effect.
- `threadcnt=0` is accepted and ends the process at the first event. A log file must exist before
  the server starts, as `access` asks for it (Conf.cpp:79).

Bounds. Two workers and four tasks are the least with which a list of two workers grows to three
nodes (`taskcnt` deals tasks out in turn), which is when the mutex is left; more tasks repeat this.
Three clients on two descriptors are the least with which a descriptor is reused while another is
in use and a client waits for one; with the listener they make three events, one more than
`MaxEvent`, which stands for 1024. Every failure of `accept` and `epoll_ctl` occurs in both
server runs, at any call. `server_live` leaves out hang-ups and has one segment more than a
request needs, and "post" without a delimiter is left to `server_post` (violation 3). Three files and room for two evict; room for three does not. The
services are one with both functions and one that, like those in `src/dllib`, has "get" only; two
handlers are the least with which one sees what another has half filled. Five lines are the least
for two hosts of one name with a docroot each and a line between, or a default host beside a
section of its name. The int of 6 bits and the threshold of 4 stand for 32 bits and 4096, with
sizes below, at and above both. In `request` two fields and two arguments are the least with which
one can take over a part of another, names of one and two tokens meet `MaxName`, and the arguments
reach `MaxTrunk`. `MaxTasks` and `MaxSegs` bound what clients do, in the guards of `SubPick`,
`EPoll` and `Send`; the program has no such bound. `SizeMod` stands for the width of the node
counter.

Deadlock is not checked: the models stop when the bounded clients have done all they may.

Fairness. Every thread that can run does (weak fairness per thread), and one that waits for a
mutex gets it if it is free again and again (strong fairness of the lock steps). A handler in
EventLoop returns. Spurious wake-ups, destruction, connecting and hanging up are never obliged.
In Server a client that has connected sends the rest of its request: a client that stops in the
middle does stop the whole server, because its handler blocks in `read(2)` and the round waits for
it (no timeout anywhere). The handlers, once begun, and the loop go on. That weak fairness is of
steps that change something, so `AcceptAgain` is not among them: ETOOMANYREFS for ever would be
a loop for ever.

A push without the mutex can leave a task unstarted (violation 1), so no fairness promises that
tasks start. `RoundCompletes` leaves out the rounds with such a push. Server has no lists to tell
them by, and a round of two events may have one; there `TasksStart`, that no task stays queued
for ever, is the hypothesis of `ConnectionEnds` and `RequestAnswered`. They say what the handlers,
epoll and the sockets contribute when the pool does its part.

## 4. The proofs

Each theorem is about the specification that the run of its property uses, for every value of the
constants that satisfies the named assumption beside their declaration, which TLC evaluates for
its instance. Where a theorem has a hypothesis of its own, it is given here.

| module | any number or value of | theorems |
|---|---|---|
| `ThreadPoolProofs` | workers (at least one), tasks, `SizeMod` above 4 | `PoolInvariant`, and from it `TypeCorrect`, `IndexCorrect`, `NoWorkerExitsEarly`, `TasksRunOnce`; `LockInvariant`, and from it `WakeupsKept`, `UnlockedPopsApart`; `Refinement` (implements TaskPool) |
| `EventLoopProofs` | the same, and events of a round | `LoopInvariant`, `LoopTypeCorrect`, `RoundsAreDisjoint`, `LogIsDrained` |
| `ServerProofs` | clients, descriptors, threads, segments | `ServerInvariant`, `ServerTypeCorrect`, `OwnDescriptor`, `OwnAddress`, `EdgesKept`, `DescriptorsKept`, `BacklogSeen` |
| `HostProofs` | handlers, files, addresses, services, exports, positive capacity | `CacheInvariant`, `ListAlwaysSound`, `MapAndListAgree`, `RequestedIsServed`, `LruImplemented` (implements LruCache); `FillInvariant`, `MissingOnlyWhileFilling`; `HostTypeCorrect` |
| `ResponseProofs` | sizes of files, even `IntMod`, `ShrinkAbove`, `Slack`, insertions | `ResponseInvariant`, `ResponseTypeCorrect`, `SentInOrder`, `WholeIsExact`, `FaultExplained` |
| `SiteProofs` | lines and names, length of the file | `ConfInvariant`, `ConfTypeCorrect`, `SettingsAreWritten`, `CauseFound` (of `ConfSpec`; `SiteReads` says the same of `SiteSpec`); `SiteInvariant`, `RequestServedAsWritten` |
| `RequestReaderProofs` | requests, words, limits, the token replaced | `ReaderInvariant`, `ReaderTypeCorrect`, `SaneLine`, `StoredFieldsAreLines` |
| `SentRequestProofs` | well-formed requests with any fields and arguments, the limits | `HeaderRead`, `ArgsSent` |

**The pool.** "No worker exits early" is not inductive: a worker exits if `taskcnt` is -1 when it
looks. `Accounting` says what `taskcnt` is: tasks counted, minus tasks done, plus done tasks that
their worker has yet to count off. A worker that looks holds a task that is linked and not done, so
`done` misses at least one of the tasks submitted, and the sum cannot be -1; it may be between
looks, when the last task was done before it was counted. That needs `LinkedInv` (each task at one
place) and `DoneInv` (a linked task is done only at the front of the list of the worker that ran
it). None of this depends on the mutexes. `LockInv` is the rest: as long as every push held its
mutex, the node counter is the list's length up to a push or pop in progress, it never exceeds 2,
and so a pop that left the mutex has a node between it and the back; and a worker that decided to
sleep saw an empty list, with a notification to come if that has changed. The refinement needs
`PoolInv` only.

**The event loop.** It goes on when it has every future, and a future is ready when its task is
done. `RoundInv` says that the tasks up to `Past`, those of earlier rounds and those that the loop
has waited for in this one, are all done, and that the logger's queue is empty while the loop waits
for events. The rest is `PoolInv`: a task runs only while it is not done, so none of `Past` runs.
The mutexes do not matter: a missed wake-up delays a round, and does not let two of them overlap.

**The server.** That a handler is on its own connection is not inductive, as descriptors are closed
and reused. `ServerInv` says who has a descriptor: it is free, or watched, or the accept handler is
between `accept` and `add_event` with it, or its handler is between `remove_event` and `close`, or
`add_event` has failed for it, and then nobody has it (`OpenInv`); and an event or a handler exists
for watched descriptors and the listener only. Since `remove_event` comes before `close`, nothing is
left that could lead to the next client. From both `NoFdLeak` follows in its two directions.
`NoLostEdge` needs what has been read, sent and shut down on each connection (`ByteInv`).
`BacklogSeen` has no hypothesis: the accept loop is left at EWOULDBLOCK, with an empty backlog, or
by a failure, which `stranded` records unless an event is on its way, and whoever connects in
between puts the listener on the ready list.

**The cache.** `ListInv` lets entries of the map go stale and says the converse only: every node of
the list has the entry of its file. So the list cannot have a file twice, and `ListSound` holds
whatever was evicted: set inserts a file that has no entry and finds one that has (`SetAgain`),
after it has made room.
With room for all the files, which for `MapMatchesList` and `ServedWhenFits` are assumed to be
finitely many (`IsFiniteSet(Files)`), nothing is evicted: the list has no file twice, so it is
full only if every file is in it, and then there is none to load (`NeverFull`). Each step is one of
LruCache or none; the steps that ask for an evicted file are left out by `ImplementsLru` itself
(violation 2). The other steps of a host leave the cache alone, which carries all this over to it.

**The tables.** That nothing is missed is not inductive, since a handler trusts one entry of a
target to vouch for the other table. `TablesInv` says that whoever made that entry either has made
the other or is at the steps that do, and `ReasonsInv` that one handler at a time begins to fill the
reasons. What the cache does meanwhile does not matter, and the proof does not look at it.

**The response.** `LoopInv` says that while every `write(2)` was whole, a file that fits an `int` is
not begun or sent, so that the doubled count is never used; `WireInv` that while the stream is
good, the insertions made are those on the wire, which makes the first cut the last.

**The configuration.** The properties compare what is left after the last line with a definition
over the whole file, and the invariant says the same of the lines read so far. `StreamInv`: the
stream is the file from there on. `SectionInv`: the parser of a section runs exactly while the
line ahead belongs to such a section of the file, which is where three loops that each decide by
their next character come to agree. `SettingsInv`: a setting is that of its last pair so far.
`CauseInv`: no line was passed that should have ended the reading. `HostsInv`: there is an
increasing sequence of sections, all that were passed, with the host of each in its place; and the
host being read is what its lines so far give it. `Inserted` takes the first of a name, which by
that sequence is the first section of the name in the file.

**The request reader.** `LineInv` says for each place in the line what is known of the method, the
path and the version by then; the array is empty before the path begins. `HeaderInv` says where
the array stands in the stream: it holds the last tokens read, `fieldname` the name of the line
they are of, with its colon and nothing but spaces between. When a field is stored, name, value and
line's end are therefore those of one line. For this nothing is assumed of the client but that it
sends tokens (`WireAssumption`).

**The request that was sent.** `HeaderIsRead` and `ArgsAreSent` compare the reader with the client,
for requests that are `WellFormed` (`RequestAssumption`) and of which no token was replaced. The
invariant has to say at each place in the loops where in `Wire(sent)` the reader is:

- `CleanInv` for the header. `LinePlace` gives the position of each part of the request line, and
  that the array is what has been read of that part; `LineRead` says what the message holds by
  then. `FieldPlace` says that for some k the first k fields are stored, the last of each name
  (`StoredFirst`), and that the reader is in the next, with the name or the value as far as read.
  The lemma of a step (`UriReads`, `ValueReads`, ...) shows that the loop cannot leave the part
  before its end: the characters that could make it do so are those that a well-formed part lacks.
- `ArgInv` for the arguments. `ArgStream` says which stream is read, the query or the rest of the
  connection; `Reading(c)` that c arguments are taken, c have been ended, and the reader is in the
  next; `LineTaken` that the first line is complete, after which a body may go on with whatever the
  stale index makes of it. Nothing is taken twice at CRLF, and `MAXTRUNK` only stops.

Where field k begins is the length of what the first k - 1 lines give, and `FlattenSeq` computes
that by a recursive function. The library's induction cannot be used (its theorems
take an operator), so `UpFromZero` states induction for a set and proves it by the least number
that is missing, from the well-foundedness of the order on the naturals. With it `FlatUnique` and
`FlatExists` show that the function is what its equations say, and `FlatSteps` that each line comes
right behind those before it; the rest of the proof uses no induction.

Only model-checked: the liveness properties `RoundCompletes`, `ConnectionEnds` and
`RequestAnswered`, which are beyond TLAPS, as their arguments rest on fairness.

## 5. Not modelled, and the plan

Left out:

- formatting of messages, headers and log lines, the content type of a file, and the values of
  messages and fields, which keep no state between calls;
- plug-ins (`dllib`), which are external to the server and wrap another library; `buffer.hpp`,
  which nothing includes; tools and pictures;
- the characters of a configuration line, and the capacity of the request parsers' arrays;
- what unsynchronised access does inside `fd_ip_map_`, the tables and the cache's containers: the
  models work entry by entry, detect overlap in the cache and the tables, and claim nothing
  beyond;
- exceptions thrown by handlers, which leave `main`.

What could come next:

- a property of the arguments behind the first line of a body, whose names begin with what the
  array still holds: `ArgsAreSent` stops at that line, because of the rest only the faulty
  behaviour itself could be stated;
- which of the hazards without a property (`PROJECT.json`) can be given one: the
  rethrown exception of a handler needs a model of what services do, the map of addresses one of
  rehashing.
