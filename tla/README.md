# A TLA+ verification of Linux_Advance

The repository is a course of small network programs in C++ on Linux: echo,
dictionary and command servers on UDP and TCP, a chat room and a calculator, a
thread pool, three servers on `select`, `poll` and `epoll`, an edge-triggered
reactor, and an HTTP server with and without sessions.  This directory models
all programs that serve somebody, with their clients, model-checks them with
TLC on small instances, and proves the safety properties of the reactor, the
thread pool, the three loops, the chat room, the echo server, the two HTTP
servers, the calculator and its protocol, the command server and the UDP
services with TLAPS for every value of the constants.

Paths below are relative to the repository; `day_01/demo_01` and so on are left
out where a program's name says which one is meant.

## 1. Inventory

| Part | State | Operations | Interacts with |
|---|---|---|---|
| **reactor** (`day_02/demo_01/reactor`) | `_connections`, per connection `_inbuffer`, `_outbuffer`, `_events`; the interest and ready lists of epoll; `errno` | `LoopOnce`, `Accepter`, `HandlerRecv`, `Parse`, `HandlerSend`, `RemoveConnection`, `EnableReadWrite` | clients through TCP; callbacks from loop to handlers |
| **thread pool** (`tcp_server_echo`, `udp_server_chatroom`) | `_instance`, `_isrunning`, `_waitnum`, `_task_queue`, the workers | `GetInstance`, `Enqueue`, `Stop`, `Wait`, `TaskHandler` | any caller; one mutex, one condition variable |
| **chat room** (`udp_server_chatroom`) | `_online_user` under `_mutex` | `Start` (recvfrom loop), `AddOnlineUser`, `DelOnlineUser`, `Route` | thread pool (Route is its task), UDP clients |
| **echo server on the pool** (`tcp_server_echo`) | descriptors handed from the main thread to tasks | `Start` (accept loop), `Service` | thread pool, TCP clients |
| **select, poll, epoll servers** (`day_02/demo_01/*_server_echo`) | `_fd_array` and `fd_set`; `_fds`; the epoll instance and `_events` | `Loop`, `HandlerRead`, `AcceptClient`, `ServiceIO` | TCP clients |
| **calculator** (`tcp_server_cal`) | server: a `recvmessage` per thread; client: status, retry count, socket | `AddService`, `Start`, `HandlerService`; `Connect`, `Process`, `ReConnect`, `DisConnect` | one detached thread per connection; `Protocol`, `Calculate` |
| **protocol** (`Protocol.hpp`, `PackageParse.hpp`) | a byte buffer; the request object of the loop | `Encode`, `Decode`, `Serialize`, `DeSerialize`, the loop around them | reactor, calculator |
| **HTTP server** (`day_01/demo_02/http`) | `_mime_type`, `_funcs`, a request and a response per thread | `Start`, `HandlerService`, `DeSerialize`, `HandlerHttpService`, `Login` | one detached thread per connection, no lock; browsers |
| **HTTP server with sessions** (`day_01/demo_02/cookie_session`) | in addition `_sessions`, a static counter, and the cookies of the browsers | `AddSession`, `GetSession` in `HandlerHttpService` | as above |
| **command server, TCP** (`tcp_server_execute`) | `buff` and `response` of each thread | `Start`, `Service`, `OnCommand`, `CheckCommand` | one detached thread per connection; `popen`; its client |
| **UDP services** (`udp_server_echo`, `udp_server_dict`, `udp_server_execute`) | the dictionary, reread for each question | `Start`, `Dict`, `Translate`, `OnCommand` | one thread; lossy datagrams; their client |
| **chat client** (`udp_server_chatroom/UdpClient.cc`) | two `Thread` objects | `Start`, `Detach`, `Join`, `RecverRoute`, `SenderRoute` | the chat room; the user |
| daemon, log, addresses, non-blocking input, JsonCpp example | none that is shared and changes | straight lines around system calls | - |

What is hard in each, and what makes it correct:

* *Reactor.*  Everything is registered with `EPOLLET`: an edge that nobody acts
  on never comes back.  Correct means: no edge is lost on the listening socket,
  on reading and on writing; the only thread never blocks outside `epoll_wait`,
  although sockets become non-blocking only after their first use; descriptor
  numbers that are closed and handed out again within one batch of events do
  not confuse connections; no byte is lost or sent twice; a connection is closed
  only after its client ended it; every client that stays is served, as long as
  the process lives.  Any client can end it for all, by a request that traps in
  `Execute`, a length `std::stoi` throws at, a payload the JSON library throws
  at, or by a reset after its FIN (`SIGPIPE`): what can be asked is that only a
  client that has left, or bytes that were not answered yet, do so.
* *Thread pool.*  The condition variable is signalled only if `_waitnum > 0`,
  and `_waitnum` lags behind the signals.  Correct means: no wakeup is lost,
  `_waitnum` is exact, accepted tasks run exactly once and in order, `Stop`
  drains the queue and ends everybody.
* *Chat room.*  Messages are routed by several threads while the main thread
  changes the list of users.  Correct means: one order of messages for
  everybody, nobody left out, nothing twice, and every message is routed.
* *Echo server.*  A descriptor number travels through a queue; reads and writes
  block a worker for as long as its client likes.  Correct means: every
  descriptor has exactly one owner, all is echoed, waiting clients wait only
  for clients that stay, only resets end the process.
* *select, poll, epoll.*  What was found ready is a copy that handlers outlive.
  Correct means: tables agree with the open descriptors, no stale readiness is
  acted upon, nobody is passed over for ever.
* *Calculator.*  Frames arrive in pieces, some hold what is no request, both
  sides may vanish at any moment, and the client retries.  Correct means: frames
  come out as they went in, answers belong to requests,
  nobody waits for ever, clients give up neither
  early nor never, and clients do not end the server.
* *HTTP.*  One `recv()` is taken for a whole request, handlers may throw in
  threads that catch nothing, and a table of MIME types is extended by lookups
  in several threads.  Correct means: a cut request is answered as what arrived
  of it, never as something else; only a request that names what has no handler
  or is a directory, or has lost its line, threads that collide in a table, as
  many connections as descriptors, or a browser that is reset after its FIN
  (`SIGPIPE`) end the server; every browser gets an answer or the end of its
  connection.
* *Sessions.*  Ids come from `rand() + time()` and may be drawn twice, cookies
  outlive the server, and the map has no lock.  Correct means: a cookie leads to
  the session of the login that set it, and one of an earlier run to nobody.  The
  code does not go as far: a login whose id had been drawn before gets a cookie
  that leads to the earlier user, since `insert` drops the second session
  (`Session.hpp:36`), and a cookie of an earlier run leads to whoever was given
  its id since.  What is checked is that nothing else goes wrong.
* *Command server, TCP.*  Lines and outputs have no frames, `exit()` in one
  thread ends all, commands may never end, and the children `popen` makes inherit
  every socket of the server, which none of them closes.  Correct means: a client
  is in step with its thread as long as TCP cuts nothing, nobody who leaves in
  order harms others, and nobody waits for the command of somebody else as long
  as the server lives.  When it has ended, a child that still runs keeps the
  connections it holds open, and the port listening: their clients see no end
  before the child ends, and none at all if it does not.
* *UDP services.*  Datagrams are lost, repeated and reordered, and carry nothing
  that pairs questions and answers.  Correct means: only a repeated datagram can
  put a client out of step, and only a lost one, an endless command or too long
  an output can keep it waiting.
* *Chat client.*  A thread detaches itself while `main` joins it, and the
  process ends with `main`.  Correct means: what arrives is shown, whichever came
  first and however the sender ended.

`PROJECT.json` lists the components with their status and, under "hazards",
each of these difficulties at the line where it bites.

## 2. Modules

| Module | Models | State and actions against the code |
|---|---|---|
| `TcpKernel` | the kernel and the clients, as far as `src/` uses them (external) | `sock[fd]` the descriptor table; `rx`, `tx` bytes in the two directions; `end` how the client ended; `interest`, `ready` the epoll instance; `Connect`, `ClientSend`, `ClientFin`, `ClientReset`, `ClientRead` |
| `Reactor` | the event loop and all callbacks | one step is one system call with the code up to the next; `pc` names the handler, `cur` its descriptor, `revs` what is left of the batch; buffers are lengths; `ParseEnds` the ends of the process while a buffer is parsed |
| `CalcService` | what the reactor promises, without descriptors, buffers or epoll | `Serve`, `Drop`, `Deliver`; `Crash` needs a served client that has left or is owed something for what it sent |
| `Threadpool` | the pool | a critical section under `_lock` is one step from one acquisition to the release or the wait; `wpc` and `cpc` are where workers and callers are; `GetInstance` in the steps of its double check |
| `Chatroom` | the chat room, over `Threadpool` (INSTANCE) | `net` the datagrams in flight; `mpc` the main thread; `Route` takes one step per `sendto` |
| `EchoServer` | the echo server, over `Threadpool` (INSTANCE) and `TcpKernel` | `fdOf` the descriptor bound into each task; one step per `read` and per part of a `write` |
| `ReadinessLoop` | what the three loops have in common, abstractly: a handler may start on any ready descriptor | `StartAccept`, `Start`, then the handler one system call at a time |
| `SelectServer`, `PollServer`, `EpollServer` | the three loops, over `ReadinessLoop`, with their tables | `fd_array`/`rfds`, `fds`/`revents`, `watched`/`events`; `lpc`, `slot` the scan of `HandlerRead` |
| `EchoServers` | the three side by side for TLC | one of them runs in each behaviour |
| `Framing` | `Encode`, `Decode`, the text form of requests and responses, and the receive loops, byte by byte, for numbers and payloads of any length | `wire` and `inbuffer` sequences of bytes; `req` the request object that outlives a failed `DeSerialize`; `stage` whether the receiver is in `recv` or in the loop of `Decode`, or has ended |
| `Calculate` | `Execute` on integers up to a given `INT_MAX` (`IntMax`), wrapping and trapping | operators only |
| `CalSession` | client and server of the calculator from end to end | `thread[k]` the server's thread of connection k; `status`, `pc`, `cnt` the client's machine; `Stop`, `Restart`, `Reset`, `Interrupt` what happens to them |
| `Http` | what the HTTP server makes of a request | operators only: a request is a sequence of pieces (lines, empty line, halves of a text), a cut one is a prefix |
| `HttpServer` | the server of `http` and its browsers, over `Http` (EXTENDS) | `thread[k]` the thread of connection k; `types` the keys of `_mime_type`; `raced[k]` it shared a table with a thread that changed it; `doomed` a thread got the `nullptr` of a failed `accept`; `Leave` and `Abort` a browser's FIN, reset, and reset after FIN |
| `HttpSession` | the sessions of `cookie_session`, over `HttpServer` (EXTENDS) | `sessions`, `number` the map and the counter; `cookie[b]` what browser b keeps and `presented[k]` what it sent on link k, each with the login it came from; `logins`, `found` histories |
| `CommandServer` | `tcp_server_execute` with its client | `worker[u]` the thread of user u; `child[u]` the connections the child of its command holds; `inbox`, `outbox` the two directions in parts; `gone`, `closed` how either side has ended |
| `UdpServices` | the three UDP servers that answer a datagram with a datagram, with their client | `kind` which of them runs; `toServer`, `toPeer` sets of datagrams in flight; `file` the dictionary on disk |
| `ChatClient` | the client of the chat room | `cmain` where `main` is; `created`, `routing`, `detached` the threads; `inbox` the socket |
| `MCReactor`, `MCThreadpool` | instances for TLC | symmetry sets |
| `MCCalculator` | `Framing` and `CalSession` in one model (EXTENDS both) | one of them moves in each behaviour (`half`) |
| `MCChatroom` | `Chatroom`, `UdpServices` (EXTENDS) and `ChatClient` (INSTANCE) in one model | one of them moves in each behaviour (`part`) |
| `MCEchoServer` | `EchoServer` and `CommandServer` in one model (EXTENDS both) | likewise: "echo" is the former; "commands", "crowded" (one descriptor) and "orphans" (a third client) are the latter |
| `MCHttp` | `HttpServer` and `HttpSession` in one model | likewise |
| `*Proofs` | theorems | section 5 |

Definitions called "Variant of X" are plausible slips in the code of X (a
dropped guard, an off-by-one, a missing reset).  No specification uses them:
they are what the properties have been tried against.  Each property of a
passing run fails when X is replaced by its variant; the pairs are in
`PROJECT.json` under "mutants".

How the modules abstract:

* Bytes are counted, except in `Framing`, where they are what matters.  In
  `CalSession` a frame is two parts, in `CommandServer` a line or an output is a
  few, in `Http` a request is its lines and the halves of its text.  Requests of
  the reactor have one length (`FrameLen`), as do responses.
* The calculator's payloads are written as text in the build with `SELF`, and by
  JsonCpp in the build of the Makefile (`Protocol.hpp:10-11`).  `Framing` has the
  text form, since its parser is the repository's own.  Every frame begins with a
  number and its payload has no NUL byte and is not empty; `std::stoi` of a
  number beyond `int` is left out.
* No program installs a signal handler, so no system call fails with `EINTR`.
  `EPOLLERR` and `EPOLLHUP` are one event, as `LoopOnce` treats them alike.
* `epoll_ctl` looks at readiness again (ADD and MOD); a full send buffer that
  gets room is an edge only where `EPOLLOUT` is watched; `epoll_wait` returns
  the whole ready list if it fits, otherwise any part of the size it may return.
* After a reset what had been received can still be read, what was being sent
  is lost, and the first `send` or `recv` that meets it fails with
  `ECONNRESET`; a `send` after FIN and reset raises `SIGPIPE`, which nobody
  ignores.  `accept` checks for a free descriptor before it looks at the queue,
  so that it fails as soon as all of them are in use, whether anybody waits or
  not.
* The sockets of the command server are not close-on-exec (`TcpServer.hpp:139`):
  the child of a command holds the connections there were when it was made, and
  the listening socket.  `Ending` says which connections end when a process
  does: those no child holds, with a reset where something was left unread.
* In the reactor, which bytes trap or throw is not told apart: any bytes that
  have arrived may (`ParseEnds`), since a length need not be complete for
  `std::stoi` to throw.
* Programs are built without optimisation, where signed overflow wraps around.
  `Calculate` takes division towards zero and the trap of `INT_MIN / -1`.
* `select`: descriptor numbers are below `FD_SETSIZE` (`SelectAssumption`),
  which is what the default limit of descriptors is.  Its branch for a full
  array cannot be reached then, and the numbers 0 to 2 are taken; the same
  branch of `poll` is reached.  Errors of `select`, `poll` and `epoll_wait`
  themselves are left out: no closed descriptor is ever watched
  (`TablesAgree`).
* What is undefined behaviour is a choice: what a request object that was never
  set leads to is left open, the trap included (`Framing`); the status code nobody set is
  any number, of which one is right and one wrong (`Http`); two threads in a
  container, one of which changes it, end the process or lose what was inserted
  (`HttpServer`, `HttpSession`).  Threads share a container from `recv` to
  `send`, which is longer than in the code, so that `raced` and `overlapped` may
  be true of threads that did not really meet.
* The file system and `popen` answer out of small sets: a page, a directory or
  nothing; an output, none, one that never ends or one too long for a datagram.
* `CalSession`: the parts of a frame in flight can be cut between any two;
  `recv` may return any prefix of what has arrived; the end of a process closes
  its sockets, with a reset where it left data unread; `accept` without a free
  descriptor returns `nullptr`, and the thread that gets it crashes the server
  (`Crash`); a thread that could not be created leaves its connection open for
  ever ("not created").  So it is in `HttpServer` and `CommandServer`, except
  that a failing `accept` of the latter only tries again.  The time for which
  `bind` fails after a restart is
  part of the time before `Restart`.

Behaviour of the code that no property denies, so that readers are not
surprised by the models:

* The reactor drops complete requests of a client whose FIN arrives before the
  first `EAGAIN` (`HandlerRecv` removes the connection before `Parse`).
* After an `accept` that failed for want of descriptors the edge of the reactor's
  listening socket is gone until the next connection.  `NoLostListenEdge` names
  this exception; `ServiceLive`, which says that every connection is taken, is
  checked with a descriptor for each client.  The three loops, the calculator and
  the HTTP servers crash when all descriptors are in use (a method of `nullptr`).
* A POST whose text comes in a segment of its own is answered as if it had no
  parameters, although `IsExec` is meant to run the callback whenever there are
  any (`http/Http.hpp:166`): `recv` is called once.  `AnswersFit` compares the
  answer with the part that arrived.
* A login that draws an id for the second time gets a cookie by which the server
  takes its browser for the earlier user (`Session.hpp:36`), against the comment
  that it knows by the cookie who is active (`cookie_session/Http.hpp:495`).
  `SessionsKept` says nothing of the cookie of such a login.
* Children of the command server's commands keep its connections and its port
  after its end; `CommandAnswered` names those of endless commands as an
  exception.
* `GetInstance` publishes the pointer before the pool is initialised and checks
  it without a lock, so that a second calling thread may find the pool not
  running (the programs call it from one thread only).
* A payload that does not parse is answered with the result of the request
  before it, or of one that was never set.
* An empty line is never answered, by the UDP servers (`n > 0`) nor by the
  command server, to which nothing is sent; its author waits.
* An empty line ends the chat client's sender like `QUIT` does, since `sendto`
  returns 0; after either the process stays, because `main` joins the receiver.
* A login that comes with a cookie makes no session, also if the cookie is one of
  an earlier run of the server; such a browser stays without one.
* A connection that is closed with a part of the request unread is reset, and the
  browser may lose the answer.
* After the end of the command server its client shows nothing, and asks again.

## 3. Runs

| Run | Question | Instance |
|---|---|---|
| `reactor_safety` | Are edges ever lost, and do numbers that are used again, or a full descriptor table, confuse the loop? | 3 clients, 1 descriptor, 2 requests of 1 byte each, answers of 2 into a send buffer of 1 |
| `reactor_service` | Does the reactor implement `CalcService`, liveness included; are bytes conserved; does anything but `epoll_wait` block? | 2 clients with a descriptor each, a request of 2 bytes read one at a time, a send buffer of 1; any bytes may trap or throw |
| `reactor_sigpipe` | *violation*: does every failing `send` reach `_excepter`? | as above, answers of 1 |
| `pool` | Is everything the pool accepted run, and does `Stop` end it? | 2 workers, 2 callers, 3 tasks |
| `chat` | Does everybody see the same conversation, once and completely; do the UDP servers answer what they were asked; does the chat client show what arrives? | 2 users, 2 messages, 2 workers; 2 clients, 2 questions of one and 1 of the other, 1 datagram lost and 1 repeated; 2 datagrams for the chat client |
| `chat_quit` | *violation*: does the chat room run for ever? | `Chatroom` alone: 2 users, 1 message, 1 worker |
| `echo` | Who owns a descriptor, is everything echoed, who waits for whom; are clients of the command server in step, and who can end it? | 2 clients, 2 descriptors, 1 worker, send buffer 1, messages of 2; command server: 2 users, 2 lines, 2 descriptors or 1; 3 users, 3 lines, 3 descriptors and the child of an endless command |
| `loops_echo` | Do the three loops implement `ReadinessLoop`, fairness included, and serve their clients? | 2 clients; a full array in `poll`, one event a round in `epoll` |
| `loops_reuse` | Are their tables right when slots, numbers and events are used again, and `accept` fails? | 3 clients, 2 descriptors |
| `calculator` | Do frames and requests survive being cut, are answers right, does every client end up connected or closed? | 3 frames out of 6 requests and 3 payloads that are none, whole or cut anywhere; 1 client, 2 requests, a reset, a restart, 2 descriptors |
| `calculator_torn` | *violation*: is what the client shows the answer to what it asked? | as above |
| `http` | Are answers what was asked for, wherever a request is cut; what ends the server; do cookies lead to the login that set them? | 2 descriptors; 2 connections and 8 kinds of requests for `http`; 3 connections, 2 browsers, 2 ids, a restart for `cookie_session` |

What the three violated properties show is told in `PROJECT.json` under
"findings": `SIGPIPE` ends the reactor with all its connections
(`IOService.hpp:52`); `QUIT` from the last user of the list ends the chat room
(`UdpServer.hpp:89`); the calculator's client throws away the first part of a
response that arrives in two, and is out of step from then on
(`TcpClient.cc:102`).  `AnswersRight` and `SurvivesClients` in the run
`calculator` are therefore about clients this has not happened to.

**Bounds.**  `MaxSent`, `MaxFrames`, `MaxChunk`, `MaxAsks`, `MaxStarts`,
`MaxResets`, `MaxLinks`, `MaxTyped`, `MaxAsked`, `MaxLost`, `MaxTwice` and
`MaxArrived` bound what the environment does, by guards of its actions only; no
state constraint is used.  They are enough because each hazard appears within them:

* Two clients are needed for one to disturb the other, and one descriptor for
  three clients (two in the loops) to make a number be handed out while an
  event of the old owner is pending.  A send buffer of one byte against answers
  of two makes each answer block or be cut.  Two requests in one buffer
  (`reactor_safety`) and one request in two (`reactor_service`), read byte by
  byte, are the pipelining and the cuts.  The proofs of section 5 free the
  reactor's safety from these bounds.
* The pool has two workers, so that one may be signalled and not yet running
  while the other goes to sleep, and three tasks, one more than workers.
* The chat room has two users and two messages, the smallest instance in which
  two messages can be out of order, and QUIT between them.
* The echo server has one worker, so that a second client has to wait and its
  number is in the queue while others are closed and handed out; that no two
  workers serve one client is proved (`DescriptorsAreOwned`), and the interplay of
  several workers is `pool` and `chat`.
* In the three loops a client sends one byte, so that what it does ends: that a
  client which never stops sending does not keep others waiting is outside the
  model.
* The calculator has one client: connections of different clients share only
  the process, whose death and restart `Stop` and `Restart` bring about at any
  moment, and descriptors, of which there are two: a connection whose thread was
  not created and the one after it use them up.  Five retries are two, and
  `INT_MAX` is 7, in which all of overflow, trap and negative remainders occur.
  Three frames are a request, a payload that is none and whatever comes behind
  them; the six requests are one for each kind of result.
* The HTTP servers have two connections where the table of MIME types is at
  stake and three where sessions are: two logins, and a visit with the cookie of
  either.  There are two descriptors, so that two open connections are enough for
  `accept` to fail.  To keep the
  run short, `MCHttp` lets the second connection of `http` ask for one page or
  for nothing and stay, and in `cookie_session` lets every thread be created, no browser
  leave and the first two requests arrive whole: what a cut request leads to is
  seen in the third.  The first browser and the first id are fixed, as they are
  interchangeable.
* The command server has two users; the first may type any of the lines, the
  second one without output or nothing, which is enough to see whether it is
  kept waiting or thrown out.  It has a descriptor for both or for one.  Three
  users are the least for an orphan: one whose endless command leaves a child,
  one who ends the server by leaving with an answer unread, and one who waits
  and sees no end of it.  There the first types `cat` and the others `cd`, and
  only the second is stopped.
* Of the UDP clients, the second asks once.  One lost and one repeated datagram
  are enough to put a client out of step or leave it waiting; both may happen to
  the same client.

TLC checks for deadlock in the `pool` run, where `SpuriousWakeup`, `Wait` or a call is always
possible; in the other runs it is off, because the environment is bounded: when
all clients have left and nothing is in flight the system rests, and a process
that was killed takes no step.

**Fairness.**  Threads that can take a step are scheduled (weak fairness for
each thread).  A critical section is one step, so that no assumption on the
fairness of mutexes is hidden in it, except in `Chatroom`, where `_mutex` is
held over several steps: `RouteLock` of each worker is weakly fair only, and
liveness holds because the messages are finitely many.  Clients read what they
have been sent, where a property is about them (`WF` of `ClientRead`); they
need not send, leave or answer.  Tasks of the pool return (in `EchoServer`,
where they need not, `WaitersServed` says exactly what this costs).
`epoll_wait` with fewer places than ready descriptors takes them round robin,
which is the strong fairness of `EpollServer`; `select` and `poll` need none.
Where several programs share a run, the fairness of each is that of its own
module, restricted to the behaviours in which it moves (`part`, `half`): a
thread of a program at rest has no step to take.  A datagram that is not lost
arrives and is taken in its turn (`UdpServices`), commands that end do so also
after their server has ended (`ChildEnds`), the others run for ever, and nobody
has to type, interrupt, stop or restart anything.

## 4. Abstract specifications

* `CalcService`: per client, the bytes it has sent, the bytes of answers it has
  got, whether it has ended, and how far the service is with it.  The process may
  die only of a served client that has left, or is owed something for bytes it
  sent.  `ServiceLive`
  says that `Reactor` implements it under a refinement mapping that counts
  bytes into frames.
* `ReadinessLoop`: the three loops without their tables.  `LoopImplemented`
  says that each of them implements it, fairness included.  `BlocksInSendOnly`
  and `EveryByteAnswered` are then said once, of `ReadinessLoop`, and checked of
  the three servers.
* `Http` is the reference of `HttpServer`: what a request may be answered with,
  as an operator.  `AnswersFit` compares it with what the author of the part
  that arrived expects (`Expected`), which knows nothing of the parser.
  In the same way `StreamKept` compares the parser with the payloads that were
  sent, and `InStep` the answers with the dictionary as a set of entries.

## 5. Theorems

The proofs are in modules of their own; all obligations are checked by TLAPS
1.4.5 (SMT, Zenon, LS4).  They assume of the constants only what the programs'
own constants satisfy:

* `KernelAssumption`, `ReactorAssumption`, `PoolAssumption`: positive sizes, a
  listening socket that is no connection, finitely many and at least one worker.
* `ServersAssumption`: the place for no descriptor (`None`, -1 in the code) is
  none, the arrays of `select` and `poll` have more than the one place of the
  listening socket, and descriptors are below `FD_SETSIZE` for `select` and
  finitely many for `epoll`.
* `RoomAssumption`, `EchoAssumption`: `QUIT` is no other message, nobody is no
  thread, no descriptor is none.
* `PagesAssumption`, `HttpServerAssumption`, `RequestsAssumption`,
  `VisitsAssumption`: there is an
  error page; bounds are natural numbers; what browsers send is a request line,
  headers, the empty line and a text or none, of which the server receives any
  prefix; in the server with sessions, the only cookie is the one a browser keeps.
* `CalculateAssumption`, `SessionAssumption`, `FramingAssumption`: `INT_MAX` is
  positive; what is asked are requests; the server is started once at least, and
  the client retries once at least; a payload that is no request is not empty
  and has bytes from 1 to 127.
* `CommandAssumption`, `ServicesAssumption`: a command is a sequence of parts, a
  dictionary file one of lines, and a line one of characters.

| Theorem | Module | Establishes |
|---|---|---|
| `TypeCorrect`, `TablesInAgreement` | `ReactorProofs` | `TypeOK`, `TablesAgree` |
| `NoReadEdgeLost`, `NoWriteEdgeLost`, `NoListenEdgeLost`, `ClosedAfterPeerEnd` | `ReactorProofs` | the three properties of edges; a step that closes a connection does so after its client ended it |
| `NoEventStale`, `BlocksNowhere`, `BytesConserved` | `ReactorProofs` | no event of an old owner; nothing blocks; conservation to the byte |
| `ServiceSafe` | `ReactorProofs` | the reactor implements the safety half of `CalcService`: served connections end through their own clients only, the process only through a client that left or bytes not answered yet |
| `TypeCorrect`, `WaitnumIsExact`, `NoWakeupLost`, `WorkersDrain` | `ThreadpoolProofs` | `TypeOK`, `WaitnumExact`, `NoLostWakeup`, `QuitDrained` |
| `TasksTakenOnce`, `NoTaskForgotten` | `ThreadpoolProofs` | `TakenOnceInOrder`; the safety half of `AcceptedRuns` |
| `TypesRight`, `TablesAlwaysAgree`, `FoundReadyStaysReady`, `OnlySendBlocks` | `EchoServersProofs` | the types of the three loops; `TablesAgree`, `NeverStale`, `BlocksInSendOnly` |
| `ImplementsLoop` | `EchoServersProofs` | each of the three implements the safety half of `ReadinessLoop` |
| `Invariance`, `OrderIsCommon`, `RoomIsWhole` | `ChatroomProofs` | the invariant of the chat room; `CommonOrder`; `WholeRoom`: a message whose task has run was sent once to everybody online when it was queued who has not quit since |
| `DescriptorsAreOwned`, `EndsByOwnClient` | `EchoServerProofs` | `DescriptorsOwned`; `EndsOnlyByReset`, and that it is the reset of the client whose task the worker runs |
| `ClientsAreInStep`, `OnlyTheUnansweredEnd`, `NoAnswerIsForgotten` | `EchoServerProofs` | the command server: `ClientInStep`; the half of `EndsOnlyByClients` about its process (`EndedByClients`); the safety half of `CommandAnswered` |
| `AnswersAreInStep`, `NobodyWaitsForNothing` | `ChatroomProofs` | the UDP services: `InStep`; the safety half of `DatagramAnswered` |
| `RequestsSurvived`, `AnswersAlwaysFit` | `HttpProofs` | `SurvivesRequests`: what may end the HTTP server, `SIGPIPE` and a failing `accept` included; `AnswersFit`: what it answers to the part that arrived, if the request line did |
| `SessionsAreKept` | `HttpProofs` | `SessionsKept`: a cookie leads to the user of the login that set it, unless its id had been drawn before; one of an earlier start to nobody until its id is drawn again |
| `FrameFound`, `RequestReadBack` | `FramingProofs` | `Decode` finds the first frame of a stream cut anywhere, or finds nothing; what `Serialize` writes is what `DeSerialize` reads |
| `StreamIsKept` | `FramingProofs` | `StreamKept`: receiver and client stay in step, byte by byte |
| `ExecuteAnswers` | `CalSessionProofs` | what `Execute` computes, for every request and every `INT_MAX` |
| `TypeCorrect`, `ServerSurvives`, `ShowsRightAnswers` | `CalSessionProofs` | `TypeOK`, `SurvivesClients`, `AnswersRight` |
| `NobodyWaitsForNothing` | `CalSessionProofs` | the safety half of `NeverLeftWaiting` |

*Reactor.*  None of the properties is inductive alone.  `Types` adds to the
types that `_connections` holds exactly the open descriptors and that a handler
works on one of them; `Tables` adds that a connection is in one place only: new,
queued, or behind a descriptor.  With `Dispatching` (no event is left over when
`epoll_wait` is called, `errno` is clear when `HandlerRecv` calls `recv`) they
are the base on which each of the three edges
is an invariant of its own: the interesting cases are `EpollWait`, which takes
edges off the ready list and must put them all into the batch, and the steps of
clients between a handler's `EAGAIN` and the next `epoll_wait`.  `Owned` is the
invariant of the batch: the ready list and the batch are about open
descriptors, so that a number that is free has no event left (`NoEventStale`),
with one exception: a connection its receiver callback has just removed, whose
`EPOLLOUT` is the very next event `LoopOnce` looks at, and skips.
`Unblocking` says that a socket which is still blocking has something to be
read when its handler is entered.  `Accounts` is the balance of a connection
between the kernel's buffers, `_inbuffer`, the history of parsed requests and
`_outbuffer`.

*The reactor as a service.*  `Covered` follows from `Accounts` as long as a
connection is served, and is kept alone when it is closed: no more requests have
been parsed than were sent completely, and the client has got no more bytes than
the answers to those.  With it each step is one of `CalcService` under the
mapping or shows nothing of it: `HandlerRecv` parsing requests is `Serve`, the
removal of a connection is `Drop`, a client reading the last byte of an answer
is `Deliver`, and what happens between kernel, buffers and epoll is a stutter.
Where the process ends, `Crash` needs its reason: a `send` that is killed meets a
client that has left, and bytes that are being parsed are not answered yet, by
`Accounts` (`UnansweredIsOwed`).

*The three loops.*  `Common` is what they share, as the handlers do: types, a
connection in one place only (`Places`), and what the handler that runs knows of
its descriptor (`Handling`).  Each loop adds the agreement of its table with the
open descriptors, but for the one its handler is about to enter or drop, and
what its scan has found ready: behind `slot` nothing matters, from there on what
is marked is in the table and ready (`SelectScan`, `PollScan`), and what `epoll_wait` has
returned and nobody has looked at is open and ready (`EpollInv`).
`StaysReady` is the lemma that carries this through handlers and clients: only
`recv` or `accept` of the descriptor itself ends its readiness, and closing
another one does not hand its number out before the next `accept`, which fills a
place that this round has not found ready.  `ImplementsLoop` then maps every
step to one of `ReadinessLoop`: the start of a handler is allowed because what
was found is ready, the scan is a stutter.

*Thread pool.*  `Inv` has the types, the phases of `GetInstance` (whoever
initialises the pool holds `_lock`, and no worker exists before that is done),
`_waitnum` as the number of workers inside `pthread_cond_wait`, and the two
facts on wakeups and on quitting.  `NoLostWakeup` is inductive with these: the
step that matters is `Enqueue`, whose signal is skipped when `_waitnum` is 0;
with `_waitnum` exact nobody sleeps then.  `FromQueue` adds that no task was
accepted twice and that what is run, or has been, was taken from the queue: so
the front task, which comes behind everything taken before it, is in nobody's
hands when a worker takes it (`TakenOnceInOrder`).  With `QuitDrained` and
`NoLostWakeup` this gives `NoTaskForgotten`: what `AcceptedRuns` waits for has
been run, is being run, or is queued where no worker has quit and whoever sleeps
has a woken worker before it.

*Chat room.*  The invariant has four parts.  `Once`: a message is in one place,
with its author, in the network, with the main thread, in the queue, with a
worker, or done.  `Holding`: the thread that is inside the list, and no other,
holds `_mutex`.  `List`: `_online_user` has nobody twice, and whoever is present
and has not quit stays listed.  `Deliveries`: a message that is done has
reached all it was meant for once, one that is being routed those before the
worker's place in the list, and is the last of each of them, and one not yet
routed nobody.  `CommonOrder` needs the last two words of that: a worker in the
middle of its loop holds `_mutex`, so that no other message comes between.

*Echo server.*  The same is said of descriptors: each open one is with the main
thread, in one task of the queue or in one of a worker (`Places`, `Holders`),
and the number bound into the task is the one the kernel has for the connection
(`Held`).  No number is closed by anybody but the worker that has it, so none is
handed out again under a task that waits.

*Command server.*  `InTurn` is the invariant of a client none of whose lines
and outputs was cut: what it typed last is in one place (`Underway`) - on its
way, with its thread before or after `OnCommand`, or on its way back as the
whole of what `OnCommand` may say - and there is nothing while nobody waits.
Who ends the process is about the others: `Leaving` says that a client with all
its lines answered leaves a thread that has nothing to write, so that only what
is written to somebody who has left with a line open comes back as a reset, and
`Waiting` and `Together`, that a client in the backlog of a server that lives has
no thread yet, that all threads end with the process, and that no client sees the
end of its connection before that.  It may see it later, when the last child
that holds the connection has ended (`ChildEndsLate`), which changes nothing of
what has been sent or shown.  What is waited for
is also there when lines and outputs are cut, if no longer in one place
(`SomethingComes`).

*UDP services.*  `OneAtATime`: of a client none of whose datagrams was
delivered twice there is at most one datagram on its way, only while it waits,
and it is the question, or an answer to it by one of the files of dict.txt there
have been since it was asked.  What `Dict` makes of a file is the entry nearest
its end (`LastEntry`).  `Awaited` does without the assumption on repetitions,
as repeated answers only ever add datagrams; what is lost, or not answered by
design, it names.

*Protocol.*  The definitions of `Framing` are recursive functions, not
operators, and the library's induction theorems are out of reach (below); what
takes their place is that a set of natural numbers which is not empty has a
least element (`LeastNatural`, from well-foundedness), applied to the lengths
and numbers for which a lemma would fail.  In this way `DecimalOf` and
`ValueOf` show that the functions exist and what they compute, `DecimalValue`
that a number of any length is read as it was written, and `ReadBack` the same
of one with a sign.  From the places of bytes in a frame (`FrameBytes`) it
follows that no line end comes before the separator, so that `Decode` meets
either the separator or the end of what has arrived (`FrameFound`), whatever the
payload holds.  `FieldsFound` says the same of the blanks of a request or a
response.  The invariant `Whole` then has the buffer and the wire
together as the frames not executed yet (`Kept`), for which `EncodedAppend` is
needed: a frame is sent at the end of the stream and taken off at its
beginning.  `Emptied` is why no frame is left behind: `ParseDone` is a `Decode`
that found nothing, and by `FrameFound` there was nothing whole to be found.

*HTTP server.*  `LinesOfPrefix` and `PartsParsed` are about the parser alone: of
any prefix that contains the request line, `DeSerialize` makes the path the
request names, and finds parameters only if the request has some.  So a cut
request throws only where the whole one would.  `HttpInv` ties this to the
threads: a link is new, then once in the backlog, and only then has a thread,
which holds a prefix of what was sent (`Progress`); a thread works on the result
of a failed `accept` only when at least as many links have been opened as there
are descriptors (`Crowded`), because every used descriptor belongs to a link that
is no longer new.  `EndsExplained` then goes through the steps that end the
process: by `ReceivedPart` and `EndsAreHarmful` an exception is that of a request
that is not harmless, and a `SIGPIPE` needs a link that was reset after its FIN.
`Answered` says of every answer that
`HandlerHttpService` may give it to the prefix that was received; `AnswersFit`
follows from what any prefix of a well-formed request that has its line is
parsed and answered as (`PartsAnswered`).

*Sessions.*  `SessionInv` has two parts.  The first holds always: a cookie, where
it is kept, sent or on its way, was handed out by the login it says (`Cookies`),
and what a link has received is a part of a request with the cookie its browser
had when it was sent (`Sent`), so that the id `GetSession` is asked for is that
cookie's or nobody's (`CookieParsed`).  The second holds as long as no login
overlapped another use of the map: users are numbered in the order of the logins
(`Numbered`), `_sessions` holds for every id the user of the first login with
that id, for `insert` does not replace (`Mapped`), and what a thread found was
what the logins up to then, the one that handed its cookie out among them, had
made of the id (`Found`).  `SessionsKept` follows: if the id had not been drawn
before, the first login with it is the one that handed it out.

*Calculator.*  `ExecuteAnswers` compares `Execute`, which wraps and divides as
the machine does, with the arithmetic of all integers; it rests on
`DivisionOfInts`, division towards zero expressed by that of TLA+, which rounds
down.  The rest is about one client and its connections, one after the other:
`Room` says that each but the last was ended by a start of the server or a
reset, so that their number is bounded; `Ends` and `Untouched`, what a
connection that one side has left, or nobody has used, still carries.  `Light` is why
no `SIGPIPE` comes:
while the client has not torn a response there is at most one frame on a link,
and on one whose client has left, less than a frame is held once the answer is
sent, so the thread calls `recv`, never `send`, next.  `Turn`, with `Underway`,
is why answers are right: while the client waits, its request or the answer to
it is on its one link, and on no other is anything it could read.  An answer is
an answer to that request by `ExecuteAnswers`.  `NobodyWaitsForNothing` rests on
`WInv`: a connection neither side has ended is in `accept`'s queue once or with a
thread (`Lined`, `Attended`), it and the text left over in its thread make
up whole frames (`WholeFrames`), and a client that waits has one coming
(`Expected`): its request, unread or in the thread's hands, or the answer.

**Model-checked only.**  Liveness and everything under fairness
(`AcceptedRuns`, `StopTerminates`, `MessagesRouted`, `DatagramAnswered`,
`Shown`, `Echoed`, `WaitersServed`, `CommandAnswered`, `EveryByteAnswered`,
`NeverLeftWaiting`, `BackOrClosed`, `Attended`, and the liveness halves of
`ServiceLive` and `LoopImplemented`, whose safety halves are proved), which is
out of reach of the prover.  Of `ServiceLive`, `LoopImplemented`,
`AcceptedRuns`, `NeverLeftWaiting`, `CommandAnswered` and `DatagramAnswered` the
safety halves are proved: what is waited for is there, and only that it comes is
left to TLC.  Every invariant
the runs check is proved, the action properties as well.  The types of
`Chatroom`, `EchoServer` and `HttpServer` are proved as far as the invariants
above rest on them (`Types`).

## 6. Not modelled

* JsonCpp (`Serialize`, `DeSerialize` of the default build): a third-party
  library, whose place the text form takes (section 2).
* `Log`, `InetAddr`, `Comm`: formatting and values.  The log's mutex is taken
  last and never held over another lock.
* `Daemon`, `nonblock`, `test_json`: straight lines of system calls.
* Memory layout: `buff[n] = 0` one past a full buffer (`UdpServer.hpp:117`,
  `TcpServer.hpp:85`), `FD_SET` beyond the set if the limit of descriptors is
  raised.
* Outputs and pages larger than the send buffer of TCP, for which a thread of
  `CommandServer` or `HttpServer` would block until its client reads; nobody else
  would notice.
* In the calculator's client: the descriptor of the previous socket, which a
  reconnection leaks, and the second `close` of a closed number.
* The wording of responses: HTTP headers other than type and cookie.

## 7. Plan

All programs that serve somebody are modelled, and every invariant the runs
check is proved.  What is left is of less weight:

1. The safety behind the last two liveness properties, as it was done for
   `CommandAnswered`, `DatagramAnswered` and `NeverLeftWaiting`: what `Shown` (the
   chat client) and `Attended` (HTTP) wait for is there.
2. That `CalSession`, whose frames have two parts, is what `Framing` makes of
   bytes: a refinement between the two, which today meet only in `MCCalculator`.
3. The response text of the two HTTP servers, byte by byte, as `Framing` has
   that of the calculator.
