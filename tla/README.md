# netPractice: a verification development

netPractice is a C++ library for TCP servers and clients (headers under
`src/src/depencies/includes`) with two programs: a server
(`src/src/EasyTcpServer/server.cpp`) and a load generator
(`src/src/EasyTcpClient/client.cpp`). A server has an accept thread and several
`CellServer`s, each with a worker thread that owns the clients it was given. The
events come from `select`, `epoll` or an I/O completion port.

File names below are relative to `src/src/depencies/includes`.

## 1. Inventory

| Component | State | Operations | Talks to |
|---|---|---|---|
| `CELLSemaphore` | `_waitNum`, `_wakeupNum`, a condition variable | `Wait`, `Wakeup` | only `CELLThread` |
| `CELLThread` | `_bRun`, `_mutex`, the semaphore, three callbacks | `Start`, `Close`, `IsRun`, `Exit`, the thread's `OnWork` | its owner (`EasyTcpServer`, `CellServer`, `CellTaskServer`, client.cpp) and the callbacks it runs |
| `CellTaskServer` | `_tasksBuf`, `_tasks`, `_mutex`, a `CELLThread` | `AddTask`, `Start`, `Close`, `OnRun` | producers; the log; every `CellServer` |
| `CELLBuffer`, `CELLReadBuffer`, `CELLWriteBuffer` | `_pBuf`, `_nLast`, the overlapped record | `push`, `pop`, reading from and writing to a socket or posted I/O, `hasMsg` | `CELLClient` |
| `CELLClient` | socket, two buffers, `_bPostRead`, `_bPostSend`, heart and send timers | `SendData`, `ReadData`, `makeRecvData`, `makeSendData`, `CheckHeart`, messages | its `CellServer` or `EasyTcpClient` |
| `CellServer` | `_clients`, `_clientsBuf`, `_mutex`, `_clientChange`, `_oldTime`, a thread, a task server | `AddClient`, `GetClientCount`, `OnRun`, `CheckTime`, `DoMsg`, `CleanClients`, `Close` | accept thread, `INetEvent` callbacks |
| `CELLSelectServer`, `CELLEpollServer`, `CELLIOCPServer` (`CELLFDSet`, `CELLEpoll`, `CELLIOCP`) | fd sets, epoll instance, completion port | `DoNetEvents` | the kernel |
| `EasyTcpServer` and its three kinds | `_cellServers`, `_clientCount`, listening socket, accept thread | `Start`, `Accept`, `AddClient2CellServer`, `OnNetJoin`, `OnNetLeave`, `Close` | everything above |
| `EasyTcpClient` and its three kinds | `_pClient`, `_bConnect` | `InitSocket`, `Connect`, `Close`, `OnRun`, `SendData`, `RecvData` | one connection |
| client.cpp | clients per thread, `g_readyCount`, counters | `workThread`, `main` | its threads |
| `CELLStream`, `CELLReadStream`, `CELLWriteStream` | buffer, position | typed writes and reads, arrays, `Finish` | message handlers |
| `CELLLog` | log file, a `CellTaskServer` | `Info` ..., `setLogPath`, destructor | everybody |
| `CELLConfig`, `CELLTimeStamp`, `CELLNetWork` | parsed arguments, a clock | reading | everybody |

What is hard, and what makes each part correct:

* **Threads and their end.** `CELLThread::Close` hands a stop flag over and waits
  on a semaphore, `Exit` leaves in the middle of `onRun`, `OnWork` touches the
  object after its `Wakeup`. Correct: `Close` returns, and not before the
  callbacks are over; nobody uses a deleted object.
* **A queue whose consumer looks without the lock.** `CellTaskServer` and
  `CellServer` test and clear their buffers outside `_mutex`. Correct: nothing is
  lost, taken twice or reordered.
* **Buffers that the kernel works on.** A posted read fills the buffer that
  `DoMsg` moves; a posted send reads from the buffer that `SendData` extends.
  Correct: both streams keep their bytes and their order.
* **A client that goes while I/O is posted.** Heart beats, closed peers, failed
  posts. Correct: deleted once, and not before its last completion.
* **Counts read elsewhere.** `_clientCount` against `_nMaxClient`,
  `GetClientCount` while clients move. Correct: the count is the number of
  clients, the limit holds.
* **Sets and answers that outlive a change.** `select`'s set is kept until
  `_clientChange`, the answer of a wait is used while clients are deleted, one
  `_oldTime` serves all hearts, and the loops erase while they count. Correct: no
  deleted client is touched or watched, every event and every silence is noticed in
  bounded time.
* **Sockets that block.** `send` waits for a peer that does not read, and with it
  everything the thread does.
* **Partial failure.** One worker ends, the rest goes on; a load thread is stopped
  while it is still making its clients.
* **A log behind everybody.** Its file belongs to main, its worker writes to it, and
  its destruction is not the last thing that logs. Correct: no line is lost or torn,
  nothing is written to a closed file.
* **Messages built from parts.** Boundaries of the buffer, arrays longer than the
  reader expects. Correct: in bounds, and what is read is what was written.

`PROJECT.json` lists the hazards at their lines, with the properties that catch
them or the reason why none does yet.

## 2. Modules

| Module | Models | EXTENDS / INSTANCE |
|---|---|---|
| `CELLSemaphore` | `CELLSemaphore.hpp` | |
| `WorkThread` | abstract: what a `CELLThread` promises its owner | |
| `CELLThread` | `CELLThread.hpp` and the `delete` of client.cpp | EXTENDS `CELLSemaphore`, refines `WorkThread` |
| `TaskQueue` | abstract: what a task server promises | |
| `CellTaskServer` | `CELLTask.hpp` | EXTENDS `WorkThread`, refines `TaskQueue` |
| `CELLLog` | `CELLLog.hpp`: loggers, main and the worker around one task server | EXTENDS `CellTaskServer` |
| `CELLBuffer` | `CELLBuffer.hpp`, as operators on a record | |
| `IOCPConnection` | one client of `CELLIOCPServer`: buffers, worker, kernel, peer | EXTENDS `CELLBuffer` |
| `EasyTcpServer` | accept thread, several `CellServer`s, `Close` | |
| `CellServer` | one worker with several clients, under `select` or `epoll` | |
| `EasyTcpClient` | a thread of the load generator with its clients, of all three kinds | |
| `CELLStream` | the three stream headers | |
| `*Proofs` | the theorems | EXTENDS the module and TLAPS |
| `MC*` | what TLC needs | EXTENDS the module or its proofs |

### CELLSemaphore and CELLThread

`bRun`, `mutex` (its holder), `waitNum`, `wakeupNum` are the code's members.
`callerPc[c]` says where a thread that calls `Start` and `Close` is, `workPc[w]`
where the worker of the w-th `Start` is in `OnWork`. A step ends where another
thread can see what it did: at an access to `_bRun`, at the mutex, at the
semaphore. `CloseCall`, `CloseStop` (flag cleared, lock kept), `CloseWaitReturns`
/ `CloseWaitBlocks` / `CloseResumes` (the semaphore), `CloseSkip` (flag was
already false) are `Close`; `OnCreate`, `RunEnds`, `RunFails`, `Exit`,
`OnDestory`, `WorkWakeup`, `WorkClear` are `OnWork`. `_bRun` is a plain `bool`
read and written by several threads; the builds the project has load and store
it as one byte, so a read returns the last value written.

### CellTaskServer

`AddTask` and the move to `_tasks` hold the mutex and are one step each; the
unlocked test of `_tasksBuf` (`CheckBuf`) and every step of the unlocked drain on
exit (`DrainTask`, `DrainEnds`, `DrainClear`) are separate. Its own thread is a
`WorkThread`: `CELLThread` is proved to be one. Walking a `std::list` while another
thread appends to it is undefined in C++; the model gives it the outcome of
node-based lists, an interleaving of the accesses.

### CELLLog

The log is a `CellTaskServer` whose task is to write a line; `CELLLog` composes the
task server's actions with main (`Construct`, the steps of `SetLogPath...` and
`Destruct...`), with any thread that logs (`WriteLog`), and with the two writes of a
line (`WriteHead`, `WriteText`), between which other threads go on. `pLogFile`,
`closed` and `written` are the pointer and the files. main makes the object before it
starts any thread, so nothing is logged before the first `setLogPath` has returned
except by `setLogPath` itself. A write to no file ends the process; one to a closed
file may end it or vanish.

### CELLBuffer and IOCPConnection

A byte is its number in the stream of its direction, so that losing, repeating or
overwriting one shows. `recvBuf`, `sendBuf` are records (`data`, `last`, `cap`) with
`Pushed`, `Popped`, `Copied`, `Room` as `push`, `pop`, `memcpy` and the free space.
`recvIo`, `sendIo` are the posted operations in the kernel, which completes them with
any number of bytes at any time (`RecvCompletes`, `SendCompletes`) and puts them on
`port`. The worker's round is `Join`, `CheckTime` or `HeartDead`, `PostIo` (or a failing
post), the `Reap...` actions for each completion it finds, `WaitTimesOut`, `HandleMsg`
for every whole message (with a reply or without), `DoMsgEnds`. `client` is where the
client is: in `_clientsBuf`, in `_clients`, closed with I/O posted, deleted. An
operation is "lost" when its flag is set although nothing is posted: the post was
refused with an error that counts as posted, or its completion was an error that the
worker does not expect. A use of a deleted client stops the worker in "uaf". `memcpy`
with overlapping regions (CELLBuffer.hpp:97) is taken as a move.

### EasyTcpServer

Thread 0 is the accept thread, thread s the worker of the s-th `CellServer`; `owner`
is the caller of `EasyTcpServer::Close`. `Accept` compares `_clientCount`;
`ReadSize` and `Compare` are the unlocked reads of `AddClient2CellServer`, one size
at a time; `AddClient` takes the `CellServer`'s mutex. The worker's `CheckBuf`
(without the mutex), `LockBuf`, `JoinClient`, `OnNetJoin`, `JoinEnds` are lines
141-152 of CELLServer.hpp. What the worker does with its clients is left out except
that one leaves (`ClientLeaves`, `EraseClient`) or that waiting for events fails
(`WaitFails`, `Exit`, `CleanClients`, `ClearBuf`). `given` remembers which server a
client went to, so that the properties can say whose clients a failed worker loses.
The kind of server matters in two places. On the blocking sockets of a select or epoll
server a send may never return (`SendHangs`, pc "hung"). `CheckTime` of an IOCP server
closes and erases a client that has I/O posted without `OnNetLeave` (`CloseInIo`); its
completion may bring that about later (`OrphanLeaves`), or nobody looks at the port any
more. `forgotten` are the clients that were erased without `OnNetLeave`: these orphans,
and those that `CleanClients` deletes. A second completion of a client that `rmClient`
has deleted is `IOCPConnection`'s finding (`iocp_freed`) and not repeated here.
The send server of a
`CellServer`, which its `Close` ends first, is never given a task by the program;
that its `Close` returns is checked in `CellTaskServer`.

### CellServer

One worker with the lists that belong to it: `clients`, `clientsBuf`, `clientChange`,
`oldTime`, the kept set (`watched`, `maxSocket`) and each client's buffers and heart.
Because nobody else touches them a step reaches from one system call to the next:
`JoinClients` and `CheckTime` are whole loops (`Visits(n)` says whether the loop of
`CheckTime` comes to the n-th client, given that it erases as it counts, and
`Erase(list, gone)` what is left; that both closed forms are what the loop computes
is proved, `VisitsLoop` and `EraseLoop`), `BuildSets`, `Wait` and
`WaitFails` the call of `select` or `epoll_wait`, `ReadNext` / `ReadFails`,
`WriteNext`, `EventIn` / `EventFails` / `EventOut` one client each in the loops over
the answer, `SendCopies` / `SendReturns` / `SendFails` a `send` that blocks,
`HandleMsg` a message. In between the peers send, read, stop reading, close or reset,
the clock ticks, and `Close` may be called. `Exit`, after a wait that failed, needs the
mutex of the `CELLThread`, which a `Close` that waits holds (CELLThread.hpp:84, 95): it is
enabled only while `bRun` is set. Bytes are counted in units, of which a
message and a reply have a fixed number: what happens to them is `CELLBuffer`'s. A
client is the number of its socket; numbers are not used again, so a stale socket in
the set shows as one that is not `Live`. `_clients[0]` of an empty list
(`BuildFromNobody`) may crash, fail, or find nothing.

### EasyTcpClient

A thread of the load generator from its first line to its last: `Create`,
`ConnectNext` / `ConnectEnds`, the rounds (`LoopTest`, `SendNext`, and for every client
`OnRun` and `checkSend`, which is `ReturnsTrue`), `CloseNext`, `CloseEnds`. `OnRun` is
`PollRun` for select and epoll, whose only differences are when they ask for
writability, and `IocpRun` for the completion port. The buffer holds message ids; how
a message is cut into pieces is `IOCPConnection`'s. The threads of the program share
only atomic counters, so one is modelled; the wait for the others (`g_readyCount`) is
at most 10 ms long and only delays. main stops the thread at any time. `UsesNull` says of
every state whether the next step would dereference a `clients[n]` that was not made or
is deleted, or a `_pClient` that is null; it is a `Crash` then, whatever the step is.

### CELLStream

A byte is a pair (item, place in the item), a value the sequence of its bytes.
Every `WriteXxx` is `Write` with the size of its type; `WriteString` is
`WriteArray`. The reader asks for the types that were written, in their order, but
with any limit for arrays; where it is not at the beginning of an array the
number of elements it reads is any number. `items` records what was written and
where, and `lost` that the reader met an array longer than it allows, which only the
properties look at. Lengths are natural numbers. The code adds and multiplies them modulo
2^32 (CELLReadStream.hpp:47-48, CELLWriteStream.hpp:53-54), which makes no difference
unless the caller's own array has nearly 4 GiB.

## 3. Model checking

Every run is listed in `PROJECT.json`; for each property of a passing run there is
a mutant of the code's model (`Mutant:` in the modules) that violates it.

| Run | Asks | Bounds |
|---|---|---|
| `thread_once` | is a thread that is started once a `WorkThread`? | 3 callers |
| `thread_general` | does `Close` return and wait for the callbacks, with `Exit` and a second `Start`? | 3 callers, 2 starts |
| `thread_deleted` (violated) | may the owner delete the object after `Close`? | 2 callers |
| `thread_deadlock` (violated) | does `Exit` avoid the deadlock? | 2 callers |
| `log_lines` | is the task server a queue that runs everything once, in order, and drains at `Close`; does the log's file get every line whole? | 5 lines, 2 calls of `setLogPath` |
| `iocp_stream` | do the streams stay intact whatever fails, do messages and replies arrive, and does a client that has gone leave? | buffers of 4 and 3, messages of 2 or 3, 5 bytes, all faults |
| `iocp_freed` (violated) | is a client with posted I/O never used after its deletion? | 3 bytes |
| `server_close` | does every client join, belong to one list, get counted and get closed, and does `Close` come to an end? | 2 epoll or IOCP servers, limit 1, 2 connections, all faults |
| `rounds` | does a select or epoll worker touch only live clients, lose no event, judge hearts in bounds, get rid of gone clients, and end? | 2 clients, buffers of 1 message and 1 reply, hearts of 2 ticks, all faults |
| `load` | are the ids of a load thread continuous, its count right, its pointers there when used, its messages sent, gone servers noticed, and does it end? | 2 clients of each kind, buffer of 2, 2 messages a round, 4 messages in all with select and 2 else, all faults |
| `server_limit` (violated) | does the limit hold? | 2 servers, limit 2, 3 connections |
| `stream_roundtrip` | is what is read what was written, in bounds? | buffer of 8, 4 values |

Why these bounds are enough to be interesting: three callers are the smallest number
with one in `Wait`, one behind it at the mutex and one that finds the thread stopped;
two starts let a second worker meet the remains of the first. Five lines allow one half
written, one moved, one waiting, and some logged while the object is destroyed; with two
files one is closed under the worker. With buffers of 3 or 4 bytes and messages of 2 and
3 the buffer is full in the middle of a message, a completion may be partial, and
replies do not fit. Two servers and two connections allow one client in hand and one
moving, one joined and one waiting at the same server, or one on each, and one server to
fail while the other goes on; the limit of one turns a connection away, or is passed by
both. A third connection repeats these cases, and the theorems on `EasyTcpServer`'s
invariants hold for any number. In `EasyTcpServer` select does not differ from epoll.
Two clients of a worker are the fewest where an erase shifts a neighbour, an answer
names a client that has gone, and one client's `send` delays another; the heart dies
after two ticks of which one round may take one, so both bounds on it are met. A load
thread with two clients has one to lose while the other counts; a kernel that takes one
message and a buffer of two make a message that does not fit. In a stream of 8 bytes,
arrays of up to two elements, scalar values and the length fill the buffer exactly.

Deadlock checking is off everywhere because every one of these systems may stop:
nobody has to call the object again, and closed servers are finished.

### Fairness

* `CELLThread`: a runnable worker takes steps (`WF` of `OnWork`), and a `Close` that
  holds the mutex goes on. Nobody has to call anything.
* `CELLLog`: `WF` of the worker and of main in the middle of `setLogPath` or the
  destructor, which includes the return of the task server's `Close`.
* `IOCPConnection`: `WF` of the worker, of the completions of reads and of sends:
  the kernel completes what it can. The peer need not send or close.
* `CellServer`: `WF` of the worker, of the clock, and of a peer reading unless it has
  stalled. Nobody sends, connects, closes or fails by fairness.
* `EasyTcpClient`: `WF` of the thread, of the kernel's completions, of a server reading
  unless it has stalled, and of the reset that answers data sent to a closed server.
* `EasyTcpServer`: `WF` of the accept thread, of every worker (not of clients
  leaving, and a worker that hangs in a send has no step that could be fair) and of the
  owner once it has begun; `SF` of `AddClient`, because the mutex it needs is free
  infinitely often and `std::mutex` is taken not to starve a thread for ever.

### What the violated runs show

* `NoUseAfterFree`: `OnWork` writes `_bRun` after `Wakeup`; `Close` can return and the
  owner delete the object in between.
* `ExitAvoidsDeadlock`: `Close` waits on the semaphore with `_mutex` held; a worker
  in `Exit` waits for that mutex and never reaches `Wakeup`.
* `PostedIsNotDeleted`: a completion without bytes deletes the client while its
  other operation is on the port.
* `LimitKept`: `_clientCount` rises when a worker takes the client over, not when it
  is accepted, so a burst exceeds the limit.

Each is quoted against the comment it contradicts in `PROJECT.json`.

### What the exceptions in the properties say

Where the code has no promise to break, a property that holds states exactly how far
the code goes; TLC finds a counterexample when one of these is taken away.

* `GoneClientLeaves` (IOCP): a client whose read was refused or lost stays until its
  heart stops; one taken from `_clients` with I/O posted (CELLServer.hpp:196) is
  forgotten when it was the last one, because the worker then does not look at the
  port; one that is given to a worker that has called `Exit` stays.
* `ClientsAreOwned`, `CloseClosesAll`: a worker that has called `Exit` may leave behind
  clients that it is given afterwards, some in `_clientsBuf` and some cleared from it
  with their connection open, but none that was given to another server.
* `CountIsRight` (`EasyTcpServer`): `_clientCount` keeps the clients that were erased
  without `OnNetLeave`, which the property adds (`forgotten`): the orphans of an IOCP
  server, for ever if the worker does not look at its port again, and the clients of a
  worker that has cleaned up.
* `EveryClientJoins`, `CloseEnds`, `StopEnds`: a worker that hangs in a send takes over no
  client and does not end; nor does one whose wait fails when `Close` already waits for it
  (`ExitAvoidsDeadlock`).
* `HeartNotEarly`, `HeartNotLate`: the hearts are charged with the time since the last
  `CheckTime`, whoever has joined or spoken in between, so a client may be deleted up
  to one round early; a client that follows an erased one is passed over, so with n
  clients one may stay n rounds too long.
* `DueIsDone`: with select, each client that leaves in a round may hide one other
  client's event until the next.
* `GoneClientLeaves`, `StopEnds` (`CellServer`), `MessagesAreSent`, `ThreadEnds`
  (`EasyTcpClient`): no socket is ever made non-blocking, so a peer that does not read
  stops the thread in `send`, and its `Close`; never with a completion port.
* `GoneServerIsNoticed`: a select or epoll client takes the 0 of `recv` for nothing and
  notices a closed server only when it sends; an IOCP client whose read was lost is
  deaf. `CountIsRight` (`EasyTcpClient`): each lost completion lowers `g_nConnect`
  although the client stays connected.
* `NoNullUsed`: a load thread that is stopped before it has made all its clients closes
  null pointers (client.cpp:213), those of the clients from there to the last. No other
  step (`InitSocket`, `IsRun`, `Close`, `SendDataReal`, a completion, `DoMsg`) meets one.
* `RoundTrip`, `MessageConsumed`: a reader that refuses an array because it is longer than
  it allows stays before it, and takes its bytes for the values that follow; until then
  it is refused nothing.
* `LogIsComplete`: for a program that calls `setLogPath` once, as both do. The last line,
  "close log file", is given to a task server that has ended and is never written. A
  second `setLogPath` closes the file under the worker.

## 4. Proofs

For every value of the constants, checked by TLAPS:

* **`CELLThreadProofs`**. `TypeCorrect`: `TypeOK`, and `FlagHasWorker`: a set `_bRun` has a
  worker inside its callbacks that will still read it, both for any callers and starts,
  with and without `Exit` (`FlagInv` puts the worker before its decision to leave).
  `WaitedCloseSynchronous`: up to the second start, a `Close` that waited returns only
  after the callbacks, with or without `Exit`. For one start (`MaxStarts = 1`) and without
  `Exit` (`ErrorExit = FALSE`): `CloseQuiet`, every return of `Close` finds the worker
  outside its callbacks, and `WorkThreadImplemented`, the refinement of `WorkThread`.
  The two assumptions are needed: without them TLC finds counterexamples to
  `CloseReturnsQuiet`. The invariant `IInv` says who holds the mutex, when a worker
  exists, that a cleared flag means a `Close` is under way or the worker is past its
  loop, and how the semaphore's two counters follow from where caller and worker
  are, all as long as only one worker was started; `RunningInv` adds that without `Exit`
  the flag is cleared by `Close` only.
* **`CellTaskServerProofs`**. `TaskQueueImplemented`: a task server implements `TaskQueue`
  for any number of tasks, and `TaskServerTypes`. The argument: as tasks are numbered in
  the order they come, `Numbered` says that what has been run, the rest of `_tasks` and
  `_tasksBuf` are consecutive numbers up to the last one added. A task that is run is
  then the head of what is pending; and what the unlocked `clear` at the end drops is
  numbered beyond what `Close` was promised (`Kept`), since the drain ran all that was in
  the buffer when it found the end of it.
* **`CELLLogProofs`**. `LogUsesTaskServer`: every step of the log is one of its task
  server, hence `LogImplementsTaskQueue`; `LogTypes`; and `LogComplete`: with one
  successful `setLogPath`, for any number of lines, the worker never writes without an open
  file, and the file ends with all that was logged before the destructor began, whole and
  in order. The invariant relates where main is to the stage of the worker and to the
  file (`MainIsAt`, `FileIsAt`), and the file to what has been run (`Contents`: two
  parts for each line, and a head if one is half written).
* **`IOCPConnectionProofs`**, which begins with the lemmas about `CELLBuffer`.
  `ConnectionTypes`, and `RecvStreamIntact` and `ReplyStreamIntact`: both streams are
  intact for all sizes of buffers, headers and messages, any number of bytes and all
  faults. The argument: while a read is posted the buffer holds no whole message, so
  `DoMsg` moves nothing under the kernel (`RecvPosted`, which `RecvDrained` establishes
  at the next post); while a send is posted `SendData` only appends behind its bytes
  (`SendInv`); and the bytes in the buffers with those in completions not yet taken add
  up to the positions in the streams.
* **`EasyTcpServerProofs`**. `Types`; `Owned`, every open connection is in the accept
  thread's hand or in the lists of the one server it was given to, unless that one's
  worker has called `Exit`; `Counting`; `Closing`. For any number of servers and accepts
  and any limit. `IInv` says why a thread may have stopped (`ThreadsOK`: it has called
  `Exit`, or `Close` has come to it), what the accept thread has in hand (`HandOK`), for
  each server where in the joining loop it is and that its lists share no client
  (`ServersOK`), and that `_clientCount` is the number of clients in `Counted`, those
  past `OnNetJoin` and not yet past `OnNetLeave`, plus that of the forgotten (`CountOK`);
  the forgotten are closed, listed nowhere and, but for the orphans of an IOCP server, of a
  worker that has cleaned up (`ForgottenOK`). As the clients on their way (`Coming`) are none of those, and none was
  accepted twice, counted and coming never add up to more than were accepted.
* **`CellServerProofs`**. `Types`; `OnlyLive`; `DueDone`; `HeartEarly` and `HeartLate`;
  `VisitsLoop` and `EraseLoop`. For any number of clients, sizes, and time of death. What
  a round may do too late is paid for by clients that it deletes, and that is the
  invariant: a listed client has been silent for no more than its heart says and `MaxLag`
  for each client deleted so far (`LateOK`: whoever is passed over by `CheckTime` has a
  deleted client right before it); and all that
  was due at the beginning of a round is done, still ahead of the loop, or belongs to
  one of at most `left` clients that were passed over (`DueOK`). `EarlyOK` is the other
  side of the hearts. `WatchOK` says when select's set is that of the listed clients,
  `EventsOK` that what is still to be handled is of listed clients: with `ListsOK` that
  no closed socket is waited for.
* **`EasyTcpClientProofs`**. `Types`; `Ids`, the ids that a client sends are continuous;
  `Counting`; `NoNull`. For any number of clients, messages and buffer sizes, and all
  three kinds. The ids in the buffer go on where the kernel is, which is `last` or,
  while a completion is not yet taken, as many ids further (`IdsOK`). An operation is
  lost once at most, as its flag then stays set, so `g_nConnect` differs from the
  connected clients by no more than the lost reads and the lost sends (`CountOK`). The
  clients are made in order and deleted in order, and all of them are there while the
  thread sends and runs (`MadeOK`); the connection it works on is there until it turns to
  the next (`ThreadOK`).
* **`CELLStreamProofs`**. `StreamTypes`, `StreamInBounds`, `StreamRoundTrip`,
  `StreamConsumed`. The layout of a message is an invariant because `items` remembers
  positions: every item begins where the one before it ends (`Layout`), its bytes are at
  its place (`Written`), and a reader that is not `lost` stands at the beginning of its
  next item (`Reading`), so that all of the item can be read.

Assumptions on constants are named `ASSUME`s of the modules: sizes are positive, no
message is shorter than its header, a stream's buffer is shorter than 2^16.

A lost operation of `IOCPConnection` only keeps its flag set: the invariant speaks of the
operations that are pending or done, and no byte is under way for one that is lost.

Every invariant and every action property of a passing run, and each refinement, is
stated by a theorem. Only model-checked are

* what must happen at last: `CloseReturns` (`CELLThread`), `MessagesAreHandled`,
  `RepliesAreSent`, `GoneClientLeaves` (both), `LinesAreWritten`, `EveryClientJoins`,
  `CloseEnds`, `StopEnds`, `MessagesAreSent`, `GoneServerIsNoticed`,
  `ThreadEnds`. They rest on fairness, hence on ENABLED, which TLAPS does not reason about;
* the violated runs, which are counterexamples;
* that the bounds of the models (`MaxQuiet`, `MaxSent`, ...) hide nothing: the theorems hold
  for every bound, but each behaviour has one.

## 5. Not modelled, and why

* `CELLReadStream` deletes a buffer it does not own: in server.cpp:92 the receive buffer
  of the client, which is read (`PopFrontMsg`) and filled again afterwards. From there
  on the program has no defined behaviour; the models of a connection stop short of
  the stream message (`CMD_C2S_STREAM`), which the load generator never sends.
* Socket numbers that the system gives out again: `CELLClient::Close` does not forget the
  socket, so that an IOCP client that `CheckTime` has closed closes its number once more
  when it is deleted (CELLClient.hpp:178), whoever has it by then.
* Undefined behaviour of `std::vector` and `std::list` under races beyond an
  interleaving of the accesses.
* `time4msg`, counters of messages, formatting, configuration, clocks: no state that
  the rest depends on. `AddSendTask` is called by nobody. A thread that logs after main
  has returned is one of `WriteLog`'s, up to the end of the log's destructor; what it
  does after that is undefined (client.cpp:244 can do it).
* A `dataLength` of 0 or beyond the buffer: `DoMsg` loops for ever, or the message never
  becomes whole. Streams longer than 2^16, and more than 10240 sockets in a `CELLFDSet`.
* The operations that an `EasyIOCPClient` has posted when `Close` deletes its `CELLClient`:
  they complete into memory that is free, which nobody looks at as the client is not run
  again; `EasyTcpClient` drops them with the connection.
* `AcceptEx` of the IOCP server and its accept thread's own completions: `EasyTcpServer`
  has the accept loops of all three kinds as one.
* Starting a `CELLThread` again: modelled (`MaxStarts`), but nothing in the
  repository promises that it works. TLC shows that it does not: the last assignment
  of one worker's `OnWork` can stop the next one, and a wakeup left in the semaphore
  lets a later `Close` return early.

## 6. Plan

1. Done: threads, task server and log, IOCP connection, server, the select and epoll
   worker, the load generator with its three kinds of client, streams.
2. Done: proofs of all safety invariants, action properties and refinements of the passing
   runs, for every value of the constants.
3. Then: abstract specifications of a server and of a connection that `EasyTcpServer`
   and `IOCPConnection` implement, with their step lemmas; several IOCP clients under
   one worker, so that the orphan can be told from one that another client's traffic
   saves; both ends of a connection composed to one end-to-end stream.
