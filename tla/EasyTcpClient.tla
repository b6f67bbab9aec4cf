---------------------------- MODULE EasyTcpClient ----------------------------
(***************************************************************************)
(* A thread of the load generator (workThread of client.cpp) with its      *)
(* EasyTcpClients, which wait with select, with epoll or with a completion *)
(* port (EasySelectClient, EasyEpollClient, EasyIOCPClient), the kernel,   *)
(* and the servers they are connected to.  The threads only share atomic   *)
(* counters, so one of them is enough.                                     *)
(*                                                                         *)
(* A message is its msgID.  The buffers are counted in messages: how a     *)
(* message is cut into pieces is IOCPConnection's.                         *)
(***************************************************************************)
EXTENDS Integers, FiniteSets, Sequences

CONSTANTS
  Kinds,     \* the base of MyClient, of {"select", "epoll", "iocp"}
  NClients,  \* nClient
  NMsg,      \* nMsg
  SendCap,   \* nSendBuffSize
  TxCap,     \* what the kernel takes before the server has read
  MaxMsgs,   \* bound: how many messages the clients of a kind send altogether
  MaxGone,   \* bound: how many of its servers are gone at a time
  Faults     \* what may go wrong, of {"refuse", "fin", "reset", "stall", "error"}

ASSUME KindsAssumption  == Kinds \subseteq {"select", "epoll", "iocp"} /\ Kinds # {}
ASSUME SizesAssumption  == {NClients, NMsg, SendCap, TxCap} \subseteq Nat \ {0}
ASSUME BoundsAssumption == MaxMsgs \in [Kinds -> Nat] /\ MaxGone \in Nat
ASSUME FaultsAssumption == Faults \subseteq {"refuse", "fin", "reset", "stall", "error"}

Clients == 1..NClients

VARIABLES
  kind,      \* the class MyClient is derived from
  bRun,      \* _bRun of the thread's CELLThread
  pc,        \* where the thread is
  at,        \* the index of the loop it is in
  canWrite,  \* select, epoll: the socket was reported writable
  copied,    \* select, epoll: what send() has copied to the kernel
  cl,        \* each client, with its connection
  nConnect,  \* g_nConnect
  errors     \* history: how often GetQueuedCompletionStatus failed

loopVars == <<kind, bRun>>
pollVars == <<canWrite, copied>>
vars == <<loopVars, pc, at, pollVars, cl, nConnect, errors>>

\* A posted operation; one is lost that was refused or whose completion was.
Ios == [st : {"none", "pending", "done", "lost"}, n : 0..SendCap]
NoIo == [st |-> "none", n |-> 0]
Lost == [st |-> "lost", n |-> 0]

TypeOK ==
  /\ kind \in Kinds /\ bRun \in BOOLEAN
  /\ pc \in {"create", "init", "loop", "send", "run", "recv", "write", "reap", "close",
             "ended", "crashed"}
  /\ at \in 1..(NMsg * NClients + 1)
  /\ canWrite \in BOOLEAN /\ copied \in 0..SendCap
  /\ nConnect \in (-2 * NClients)..NClients /\ errors \in 0..(2 * NClients)
  /\ \A c \in Clients :
       /\ cl[c].obj \in {"null", "made", "deleted"}            \* clients[n]
       /\ cl[c].pClient \in BOOLEAN /\ cl[c].bConnect \in BOOLEAN
       /\ cl[c].sendId \in 1..(MaxMsgs[kind] + 1)                     \* _nSendMsgID
       /\ cl[c].sendCount \in 0..NMsg                           \* _nSendCount
       /\ Len(cl[c].sendBuf) <= SendCap                         \* _sendBuf
       /\ cl[c].recvBuf \in 0..2                                \* _recvBuf
       /\ cl[c].postRead \in BOOLEAN /\ cl[c].postSend \in BOOLEAN
       /\ cl[c].recvIo \in Ios /\ cl[c].sendIo \in Ios          \* the posted I/O
       /\ Len(cl[c].port) <= 2                                  \* what has completed
       /\ cl[c].server \in {"none", "open", "fin", "reset", "stalled"}
       /\ cl[c].last \in 0..MaxMsgs[kind]    \* the last message that the kernel took
       /\ cl[c].tx \in 0..TxCap        \* messages that the server has not read
       /\ cl[c].rx \in 0..1            \* replies that have come

\* A client without a connection: after the constructor, and after Close.
Unconnected(client) ==
  [client EXCEPT !.pClient = FALSE, !.bConnect = FALSE, !.sendBuf = <<>>, !.recvBuf = 0,
                 !.postRead = FALSE, !.postSend = FALSE, !.recvIo = NoIo, !.sendIo = NoIo,
                 !.port = <<>>, !.server = "none", !.tx = 0, !.rx = 0]

Null == [obj |-> "null", pClient |-> FALSE, bConnect |-> FALSE, sendId |-> 1, sendCount |-> 1,
         sendBuf |-> <<>>, recvBuf |-> 0, postRead |-> FALSE, postSend |-> FALSE,
         recvIo |-> NoIo, sendIo |-> NoIo, port |-> <<>>, server |-> "none", last |-> 0,
         tx |-> 0, rx |-> 0]

Init ==
  /\ kind \in Kinds /\ bRun = TRUE /\ pc = "create" /\ at = 1
  /\ canWrite = FALSE /\ copied = 0
  /\ cl = [c \in Clients |-> Null]
  /\ nConnect = 0 /\ errors = 0

IsRun(c) == cl[c].bConnect /\ cl[c].pClient

-----------------------------------------------------------------------------
(* The servers, the kernel, and main().                                    *)

\* The server reads what has come, and may answer.
ServerReads(c) ==
  /\ cl[c].server = "open" /\ cl[c].tx > 0
  /\ \E rx \in {cl[c].rx, 1} : cl' = [cl EXCEPT ![c].tx = 0, ![c].rx = rx]

\* The server closes its end, does not read what has come, or the connection is
\* reset, as it is when data comes to a server that has closed.
ServerFails(c) ==
  /\ cl[c].server = "open"
  /\ Cardinality({d \in Clients : cl[d].server \in {"fin", "reset", "stalled"}}) < MaxGone
  /\ \/ "fin" \in Faults /\ cl' = [cl EXCEPT ![c].server = "fin"]
     \/ "stall" \in Faults /\ cl[c].tx > 0 /\ cl' = [cl EXCEPT ![c].server = "stalled"]
     \/ "reset" \in Faults /\ cl' = [cl EXCEPT ![c].server = "reset"]

ServerResets(c) ==
  /\ cl[c].server = "fin" /\ cl[c].tx > 0
  /\ cl' = [cl EXCEPT ![c].server = "reset"]

\* A posted operation completes: with data, or with nothing when the connection
\* is over.
RecvCompletes(c) ==
  /\ cl[c].recvIo.st = "pending"
  /\ \/ cl[c].rx > 0 /\ cl' = [cl EXCEPT ![c].recvIo = [st |-> "done", n |-> 1], ![c].rx = 0,
                                         ![c].port = Append(@, "recv")]
     \/ /\ cl[c].server = "reset" \/ (cl[c].server = "fin" /\ cl[c].rx = 0)
        /\ cl' = [cl EXCEPT ![c].recvIo = [st |-> "done", n |-> 0], ![c].port = Append(@, "recv")]

SendCompletes(c) ==
  /\ cl[c].sendIo.st = "pending"
  /\ \E n \in 0..cl[c].sendIo.n :
       /\ (n = 0) <=> (cl[c].server = "reset")
       /\ cl[c].tx + n <= TxCap
       /\ cl' = [cl EXCEPT ![c].sendIo = [st |-> "done", n |-> n], ![c].port = Append(@, "send"),
                           ![c].tx = @ + n, ![c].last = IF n = 0 THEN @ ELSE cl[c].sendBuf[n]]

\* main() calls Close of the thread.
MainCloses ==
  /\ bRun
  /\ bRun' = FALSE
  /\ UNCHANGED <<kind, pc, at, pollVars, cl, nConnect, errors>>

Outside(Step) ==
  /\ Step
  /\ UNCHANGED <<loopVars, pc, at, pollVars, nConnect, errors>>

Environment ==
  \/ \E c \in Clients :
       \/ Outside(ServerReads(c)) \/ Outside(ServerFails(c)) \/ Outside(ServerResets(c))
       \/ Outside(RecvCompletes(c)) \/ Outside(SendCompletes(c))
  \/ MainCloses

-----------------------------------------------------------------------------
(* workThread of client.cpp.                                               *)

\* clients[n] = new MyClient(), until the thread is told to stop.
Create ==
  /\ pc = "create"
  /\ IF bRun /\ at <= NClients
       THEN /\ cl' = [cl EXCEPT ![at].obj = "made"]
            /\ at' = at + 1 /\ UNCHANGED pc
       ELSE UNCHANGED cl /\ at' = 1 /\ pc' = "init"
  /\ UNCHANGED <<loopVars, pollVars, nConnect, errors>>

\* InitSocket and Connect of the next client.
ConnectNext ==
  /\ pc = "init" /\ bRun /\ at <= NClients
  /\ cl' = [cl EXCEPT ![at].pClient = TRUE, ![at].bConnect = TRUE, ![at].server = "open"]
  /\ nConnect' = nConnect + 1
  /\ at' = at + 1
  /\ UNCHANGED <<loopVars, pc, pollVars, errors>>

\* One that fails, of which a socket may be left, ends the loop, like a stop;
\* the clients after it are never connected.  The thread then waits at most
\* 10 ms for the other threads (g_readyCount).
ConnectEnds ==
  /\ pc = "init"
  /\ \/ (~bRun \/ at > NClients) /\ UNCHANGED cl
     \/ /\ bRun /\ at <= NClients /\ "refuse" \in Faults
        /\ \E socket \in BOOLEAN : cl' = [cl EXCEPT ![at].pClient = socket]
  /\ pc' = "loop" /\ at' = 1
  /\ UNCHANGED <<loopVars, pollVars, nConnect, errors>>

\* Mutant: the loop looks at the command thread instead of its own.
LoopForever ==
  /\ pc = "loop" /\ pc' = "send"
  /\ UNCHANGED <<loopVars, at, pollVars, cl, nConnect, errors>>

\* while (pThread->IsRun())
LoopTest ==
  /\ pc = "loop"
  /\ pc' = IF bRun THEN "send" ELSE "close"
  /\ UNCHANGED <<loopVars, at, pollVars, cl, nConnect, errors>>

\* The messages accepted so far, by client and msgID.
Accepted == {m \in Clients \X (1..MaxMsgs[kind]) : m[2] < cl[m[1]].sendId}

MayAccept(c) == cl[c].sendCount > 0 /\ Cardinality(Accepted) < MaxMsgs[kind]

\* Mutant: a message that does not fit uses up its msgID.
SendTestAlways(c) ==
  IF MayAccept(c)
    THEN [cl[c] EXCEPT !.sendBuf = IF Len(@) < SendCap THEN Append(@, cl[c].sendId) ELSE @,
                       !.sendId = @ + 1, !.sendCount = @ - 1]
    ELSE cl[c]

\* Mutant: push does not look for room.
SendTestUnchecked(c) ==
  IF MayAccept(c)
    THEN [cl[c] EXCEPT !.sendBuf = Append(@, cl[c].sendId), !.sendId = @ + 1, !.sendCount = @ - 1]
    ELSE cl[c]

\* sendTest: the next message, unless it does not fit into _sendBuf.
SendTest(c) ==
  IF MayAccept(c) /\ Len(cl[c].sendBuf) < SendCap
    THEN [cl[c] EXCEPT !.sendBuf = Append(@, cl[c].sendId), !.sendId = @ + 1, !.sendCount = @ - 1]
    ELSE cl[c]

\* NMsg times, every client that IsRun.
Sender == ((at - 1) % NClients) + 1

SendNext ==
  /\ pc = "send"
  /\ cl' = IF IsRun(Sender) THEN [cl EXCEPT ![Sender] = SendTest(Sender)] ELSE cl
  /\ IF at < NMsg * NClients THEN at' = at + 1 /\ UNCHANGED pc ELSE at' = 1 /\ pc' = "run"
  /\ UNCHANGED <<loopVars, pollVars, nConnect, errors>>

\* OnRun of client number at is over, and the loop goes on with the next.
NextClient ==
  /\ IF at < NClients THEN at' = at + 1 /\ pc' = "run" ELSE at' = 1 /\ pc' = "loop"
  /\ canWrite' = FALSE /\ copied' = 0

RunSkips ==
  /\ pc = "run" /\ ~IsRun(at)
  /\ NextClient
  /\ UNCHANGED <<loopVars, cl, nConnect, errors>>

\* It has returned true: checkSend may have the time to allow new messages.
ReturnsTrue(client) ==
  /\ \E count \in {client.sendCount, NMsg} : cl' = [cl EXCEPT ![at] = [client EXCEPT !.sendCount = count]]
  /\ NextClient
  /\ UNCHANGED <<loopVars, nConnect, errors>>

\* Mutant: a client that has closed is not taken from g_nConnect.
ReturnsFalseUncounted(client) ==
  /\ cl' = [cl EXCEPT ![at] = client]
  /\ nConnect' = nConnect
  /\ NextClient
  /\ UNCHANGED loopVars

\* It has returned false.
ReturnsFalse(client) ==
  /\ cl' = [cl EXCEPT ![at] = client]
  /\ nConnect' = nConnect - 1
  /\ NextClient
  /\ UNCHANGED loopVars

\* At the end every client is closed and deleted.
CloseNext ==
  /\ pc = "close" /\ at <= NClients
  /\ cl' = [cl EXCEPT ![at] = [Unconnected(cl[at]) EXCEPT !.obj = "deleted"]]
  /\ at' = at + 1
  /\ UNCHANGED <<loopVars, pc, pollVars, nConnect, errors>>

CloseEnds ==
  /\ pc = "close" /\ at > NClients
  /\ pc' = "ended"
  /\ UNCHANGED <<loopVars, at, pollVars, cl, nConnect, errors>>

WorkThread ==
  \/ Create \/ ConnectNext \/ ConnectEnds \/ LoopTest
  \/ SendNext \/ RunSkips \/ CloseNext \/ CloseEnds

-----------------------------------------------------------------------------
(* OnRun of EasySelectClient and EasyEpollClient, for client number at.    *)

Polls == kind \in {"select", "epoll"} /\ IsRun(at)
Me    == cl[at]

\* select, which is asked for writing only if there is something to write, or
\* epoll_wait, which is always asked for both ...
Poll ==
  /\ pc = "run" /\ Polls
  /\ canWrite' = /\ Me.tx < TxCap \/ Me.server = "reset"
                 /\ kind = "select" => Me.sendBuf # <<>>
  /\ pc' = IF Me.rx > 0 \/ Me.server \in {"fin", "reset"} THEN "recv" ELSE "write"
  /\ UNCHANGED <<loopVars, at, copied, cl, nConnect, errors>>

\* ... fails.
PollFails ==
  /\ pc = "run" /\ Polls /\ "error" \in Faults
  /\ ReturnsFalse(Unconnected(Me))
  /\ UNCHANGED errors

\* RecvData: the replies that have come are handled (DoMsg); recv may also return
\* 0, because the server has closed, which is not taken for an error.
Recv ==
  /\ pc = "recv"
  /\ Me.rx > 0 \/ Me.server = "fin"
  /\ cl' = [cl EXCEPT ![at].rx = 0]
  /\ pc' = "write"
  /\ UNCHANGED <<loopVars, at, pollVars, nConnect, errors>>

RecvFails ==
  /\ pc = "recv" /\ Me.server = "reset"
  /\ ReturnsFalse(Unconnected(Me))
  /\ UNCHANGED errors

NothingToWrite ==
  /\ pc = "write"
  /\ ~canWrite \/ Me.sendBuf = <<>>
  /\ ReturnsTrue(Me)

\* SendDataReal: the socket blocks until everything is copied to the kernel ...
WriteCopies ==
  /\ pc = "write" /\ canWrite
  /\ copied < Len(Me.sendBuf) /\ Me.tx < TxCap /\ Me.server # "reset"
  /\ copied' = copied + 1
  /\ cl' = [cl EXCEPT ![at].tx = @ + 1, ![at].last = Me.sendBuf[copied']]
  /\ UNCHANGED <<loopVars, pc, at, canWrite, nConnect, errors>>

\* ... or the connection is reset half way, or before.
WriteReturns ==
  /\ pc = "write" /\ copied > 0
  /\ copied = Len(Me.sendBuf) \/ Me.server = "reset"
  /\ ReturnsTrue([Me EXCEPT !.sendBuf = SubSeq(@, copied + 1, Len(@))])

WriteFails ==
  /\ pc = "write" /\ canWrite /\ Me.sendBuf # <<>>
  /\ copied = 0 /\ Me.server = "reset"
  /\ ReturnsFalse(Unconnected(Me))
  /\ UNCHANGED errors

PollRun ==
  \/ Poll \/ PollFails \/ Recv \/ RecvFails
  \/ NothingToWrite \/ WriteCopies \/ WriteReturns \/ WriteFails

-----------------------------------------------------------------------------
(* OnRun of EasyIOCPClient, for client number at.                          *)

\* What WSARecv and WSASend answer once the connection is reset: the operation
\* completes later, or is refused, which postRecv and postSend take for success.
Answers == IF Me.server = "reset" THEN {"pending", "refused"} ELSE {"pending"}
Posted(answer, n) == IF answer = "pending" THEN [st |-> "pending", n |-> n] ELSE Lost

WithSend(client, answer) ==
  IF client.sendBuf # <<>> /\ ~client.postSend
    THEN [client EXCEPT !.postSend = TRUE, !.sendIo = Posted(answer, Len(client.sendBuf))]
    ELSE client

WithRead(client, answer) ==
  IF ~client.postRead
    THEN [client EXCEPT !.postRead = TRUE, !.recvIo = Posted(answer, 0)]
    ELSE client

\* postWrite, if there is something to send, and postRead.
PostIo ==
  /\ pc = "run" /\ kind = "iocp" /\ IsRun(at)
  /\ \E s, r \in Answers : cl' = [cl EXCEPT ![at] = WithRead(WithSend(Me, s), r)]
  /\ pc' = "reap"
  /\ UNCHANGED <<loopVars, at, pollVars, nConnect, errors>>

\* One of them fails otherwise: Close.
PostFails ==
  /\ pc = "run" /\ kind = "iocp" /\ IsRun(at)
  /\ "error" \in Faults /\ Me.server = "reset"
  /\ ~Me.postRead \/ (~Me.postSend /\ Me.sendBuf # <<>>)
  /\ ReturnsFalse(Unconnected(Me))
  /\ UNCHANGED errors

Reaps(what) == pc = "reap" /\ Me.port # <<>> /\ Head(Me.port) = what

\* Mutant: read4iocp leaves _bPostRead set.
ReapRecvKeepsFlag ==
  /\ Reaps("recv") /\ Me.recvIo.n > 0
  /\ cl' = [cl EXCEPT ![at].port = Tail(@), ![at].recvIo = NoIo, ![at].recvBuf = @ + Me.recvIo.n]
  /\ UNCHANGED <<loopVars, pc, at, pollVars, nConnect, errors>>

\* doIocpNetEvents, again and again: a completion with data ...
ReapRecv ==
  /\ Reaps("recv") /\ Me.recvIo.n > 0
  /\ cl' = [cl EXCEPT ![at].port = Tail(@), ![at].recvIo = NoIo, ![at].postRead = FALSE,
                      ![at].recvBuf = @ + Me.recvIo.n]
  /\ UNCHANGED <<loopVars, pc, at, pollVars, nConnect, errors>>

\* Mutant: send2iocp leaves _bPostSend set.
ReapSendKeepsFlag ==
  /\ Reaps("send") /\ Me.sendIo.n > 0
  /\ cl' = [cl EXCEPT ![at].port = Tail(@), ![at].sendIo = NoIo,
                      ![at].sendBuf = SubSeq(@, Me.sendIo.n + 1, Len(@))]
  /\ UNCHANGED <<loopVars, pc, at, pollVars, nConnect, errors>>

ReapSend ==
  /\ Reaps("send") /\ Me.sendIo.n > 0
  /\ cl' = [cl EXCEPT ![at].port = Tail(@), ![at].sendIo = NoIo, ![at].postSend = FALSE,
                      ![at].sendBuf = SubSeq(@, Me.sendIo.n + 1, Len(@))]
  /\ UNCHANGED <<loopVars, pc, at, pollVars, nConnect, errors>>

ReapIsEmpty == \/ Reaps("recv") /\ Me.recvIo.n = 0
               \/ Reaps("send") /\ Me.sendIo.n = 0

\* Mutant: doIocpNetEvents closes the client and reports that it has done something.
ReapEmptyGoesOn ==
  /\ ReapIsEmpty
  /\ cl' = [cl EXCEPT ![at] = Unconnected(Me)]
  /\ UNCHANGED <<loopVars, pc, at, pollVars, nConnect, errors>>

\* ... one without: Close, whatever else is posted ...
ReapEmpty ==
  /\ ReapIsEmpty
  /\ ReturnsFalse(Unconnected(Me))
  /\ UNCHANGED errors

\* ... or one that the reset failed with an error that CELLIOCP::wait does not expect: it
\* is lost, and OnRun returns false with the client still connected.
ReapFails ==
  /\ ReapIsEmpty /\ "error" \in Faults /\ Me.server = "reset"
  /\ errors' = errors + 1
  /\ LET io == IF Head(Me.port) = "recv" THEN [Me EXCEPT !.recvIo = Lost]
                                         ELSE [Me EXCEPT !.sendIo = Lost]
     IN ReturnsFalse([io EXCEPT !.port = Tail(@)])

\* No completion is left: DoMsg.
ReapNothing ==
  /\ pc = "reap" /\ Me.port = <<>>
  /\ ReturnsTrue([Me EXCEPT !.recvBuf = 0])

IocpRun ==
  \/ PostIo \/ PostFails
  \/ ReapRecv \/ ReapSend \/ ReapEmpty \/ ReapFails \/ ReapNothing

-----------------------------------------------------------------------------
(* The pointers.                                                           *)

\* The next step dereferences clients[n]: InitSocket, IsRun, Close and delete; a
\* client that is deleted is no better than one that was never made.
NeedsClient(n) ==
  \/ pc = "init" /\ bRun /\ at <= NClients /\ n = at
  \/ pc = "send" /\ n = Sender
  \/ pc = "run" /\ n = at
  \/ pc = "close" /\ at <= NClients /\ n = at

\* The next step dereferences the client's _pClient: SendDataReal, a completion,
\* which points to it, and DoMsg.  RecvData asks whether it is there.
NeedsConnection(n) == n = at /\ (pc = "reap" \/ (pc = "write" /\ canWrite))

UsesNull ==
  \E n \in Clients : \/ NeedsClient(n) /\ cl[n].obj # "made"
                     \/ NeedsConnection(n) /\ ~cl[n].pClient

Crash ==
  /\ UsesNull
  /\ pc' = "crashed"
  /\ UNCHANGED <<loopVars, at, pollVars, cl, nConnect, errors>>

-----------------------------------------------------------------------------
Thread == Crash \/ (~UsesNull /\ (WorkThread \/ PollRun \/ IocpRun))

Next == Environment \/ Thread

\* The thread is scheduled, the kernel completes what it can, a server that has
\* not stalled reads, and one that has closed answers data with a reset.
Fairness ==
  /\ WF_vars(Thread)
  /\ \A c \in Clients : /\ WF_vars(Outside(ServerReads(c)))
                        /\ WF_vars(Outside(ServerResets(c)))
                        /\ WF_vars(Outside(RecvCompletes(c)))
                        /\ WF_vars(Outside(SendCompletes(c)))

Spec == Init /\ [][Next]_vars

FairSpec == Spec /\ Fairness

-----------------------------------------------------------------------------
(* Properties.                                                             *)

\* The server gets the messages 1, 2, 3 ... of each client, although some did
\* not fit into the buffer when they were first tried: the buffer holds those
\* from the last that the kernel took up to the next msgID.  While a send is
\* under way its messages are at the front.
IdsAreContinuous ==
  \A c \in Clients : IsRun(c) =>
    LET b == cl[c].sendBuf
        n == IF c = at /\ pc = "write" THEN copied
             ELSE IF cl[c].sendIo.st = "done" THEN cl[c].sendIo.n ELSE 0
    IN /\ \A i \in 1..Len(b) : b[i] = cl[c].last - n + i
       /\ Len(b) - n = cl[c].sendId - 1 - cl[c].last

\* g_nConnect is the number of connected clients until the thread closes them,
\* less one for every error of GetQueuedCompletionStatus: such a client stays
\* connected.
CountIsRight ==
  pc \notin {"close", "ended", "crashed"} =>
    nConnect + errors = Cardinality({c \in Clients : IsRun(c)})

\* No step of the thread uses a client or a connection that is not there, whatever
\* has failed and been closed before, but for one case: a thread that was told to
\* stop while it made its clients closes, at the end, those it had not come to.
NoNullUsed ==
  UsesNull => pc = "close" /\ \A n \in at..NClients : cl[n].obj = "null"

\* The thread hangs in a send() to a server that does not read.
Hangs ==
  /\ pc = "write" /\ canWrite /\ copied < Len(Me.sendBuf)
  /\ Me.server = "stalled" /\ Me.tx = TxCap

\* The messages that were accepted are all sent, as long as the server is there
\* and no new ones come (the bound MaxMsgs).
MessagesAreSent ==
  \A c \in Clients :
    cl[c].sendBuf # <<>> ~> cl[c].sendBuf = <<>> \/ cl[c].server # "open" \/ ~bRun \/ Hangs

\* With a completion port, a client notices that its server has gone, unless a
\* read was refused or its completion was lost: _bPostRead then stays set with
\* nothing posted, for ever.  Without, it notices a reset, but never a server that only
\* closed, as long as it has nothing to send.
Deaf(c) == cl[c].recvIo.st = "lost"
GoneServerIsNoticed ==
  \A c \in Clients :
    cl[c].server = "reset" \/ (kind = "iocp" /\ cl[c].server = "fin") ~>
      ~IsRun(c) \/ Deaf(c) \/ ~bRun \/ Hangs

\* A thread that main() closes ends, also by the crash that NoNullUsed excepts,
\* unless it hangs in a send(), which it never does with a completion port.
ThreadEnds ==
  ~bRun ~> pc \in {"ended", "crashed"} \/ (Hangs /\ kind # "iocp")

=============================================================================
