----------------------------- MODULE CellServer -----------------------------
(***************************************************************************)
(* The worker of a CellServer that waits with select (CELLSelectServer) or *)
(* with epoll (CELLEpollServer): the rounds of OnRun, the lists of         *)
(* clients, the sets that are watched, the hearts, and the buffers.        *)
(*                                                                         *)
(* The lists belong to the worker, so a step is what it does between two   *)
(* system calls; the peers, the kernel and the clock go on in between.     *)
(* How _clientsBuf is shared with the accept thread is EasyTcpServer's.    *)
(*                                                                         *)
(* Data is counted in units, of which MsgLen make a message and ReplyLen a *)
(* reply.  A client is the number of its socket.                           *)
(***************************************************************************)
EXTENDS Integers, FiniteSets, Sequences, Functions

CONSTANTS
  NClients,  \* bound: how many clients ever connect
  Kinds,     \* the kinds of server, of {"select", "epoll"}
  MsgLen,    \* units of a message
  ReplyLen,  \* units of a reply
  RecvCap,   \* _nRecvBufSize
  SendCap,   \* _nSendBufSize
  TxCap,     \* what the kernel takes before the peer has read
  MaxSent,   \* bound: how many units the peer of each client sends
  Death,     \* CLIENT_HEART_DEATH_TIME
  MaxLag,    \* bound: the longest time from one reading of the clock to the next
  Faults     \* what may go wrong, of {"fin", "reset", "stall", "error", "close"}

Clients == 1..NClients

ASSUME KindsAssumption  == Kinds \subseteq {"select", "epoll"} /\ Kinds # {}
ASSUME SizesAssumption  == /\ {MsgLen, ReplyLen, RecvCap, SendCap, TxCap} \subseteq Nat \ {0}
                           /\ RecvCap >= MsgLen /\ SendCap >= ReplyLen
ASSUME TimesAssumption  == Death \in Nat \ {0} /\ MaxLag \in Nat \ {0}
ASSUME BoundsAssumption == NClients \in Nat \ {0} /\ MaxSent \in [Clients -> Nat]
ASSUME FaultsAssumption == Faults \subseteq {"fin", "reset", "stall", "error", "close"}

VARIABLES
  kind,         \* the class of the server
  bRun,         \* _bRun of its CELLThread
  pc,           \* where the worker is
  clientsBuf,   \* _clientsBuf
  clients,      \* _clients
  clientChange, \* _clientChange
  conn,         \* each client, with its buffers, its connection and its peer
  oldTime,      \* the time since _oldTime was set
  watched,      \* select: _fdReadBack; epoll: the sockets that it watches
  maxSocket,    \* _maxSocket
  readable, writable,  \* the answer of select or epoll_wait, as far as it is unused
  at,           \* n, in the loops over _clients that use the answer
  sending,      \* the client whose send() is called, or 0
  copied,       \* what that send() has copied to the kernel
  due,          \* history: <<c, what>> could be done when the worker last waited
                \* for events, and has not been done: "msg" or "reply"
  left          \* history: how many clients have left since then

listVars  == <<clientsBuf, clients, clientChange>>
watchVars == <<watched, maxSocket>>
waitVars  == <<readable, writable, at, sending, copied>>
dueVars   == <<due, left>>
vars == <<kind, bRun, pc, listVars, conn, oldTime, watchVars, waitVars, dueVars>>

\* The longest that a silent client stays, see HeartNotLate.
MaxQuiet == Death + MaxLag * NClients

Peers == {"away", "open", "fin", "reset", "stalled", "deleted"}

TypeOK ==
  /\ kind \in Kinds /\ bRun \in BOOLEAN
  /\ pc \in {"loop", "time", "sets", "wait", "read", "write", "events", "msg",
             "exit", "clean", "ended", "crashed"}
  /\ clientsBuf \in Seq(Clients) /\ clients \in Seq(Clients) /\ clientChange \in BOOLEAN
  /\ \A c \in Clients : conn[c] \in
       [peer : Peers,            \* "deleted" when the client is
        sent : 0..MaxSent[c],    \* history: how many units the peer has sent
        rx : 0..MaxSent[c],      \* those that have not been received
        tx : 0..TxCap,           \* units in the kernel that the peer has not read
        recvBuf : 0..RecvCap,    \* _nLast of _recvBuf
        sendBuf : 0..SendCap,    \* _nLast of _sendBuf
        dtHeart : 0..(Death - 1),  \* _dtHeart
        quiet : 0..MaxQuiet]     \* history: the time since ResetDTHeart
  /\ oldTime \in 0..MaxLag
  /\ watched \subseteq Clients /\ maxSocket \in 0..NClients
  /\ readable \subseteq Clients /\ writable \subseteq Clients
  /\ at \in 1..(NClients + 1) /\ sending \in 0..NClients /\ copied \in 0..SendCap
  /\ due \subseteq Clients \X {"msg", "reply"} /\ left \in 0..NClients

New == [peer |-> "away", sent |-> 0, rx |-> 0, tx |-> 0, recvBuf |-> 0, sendBuf |-> 0,
        dtHeart |-> 0, quiet |-> 0]
Deleted == [New EXCEPT !.peer = "deleted"]

\* The clients that are constructed and not deleted.
Live   == {c \in Clients : conn[c].peer \notin {"away", "deleted"}}
Listed == Range(clients)

Init ==
  /\ kind \in Kinds /\ bRun = TRUE /\ pc = "loop"
  /\ clientsBuf = <<>> /\ clients = <<>> /\ clientChange = TRUE
  /\ conn = [c \in Clients |-> New] /\ oldTime = 0
  /\ watched = {} /\ maxSocket = 0
  /\ readable = {} /\ writable = {} /\ at = 1 /\ sending = 0 /\ copied = 0
  /\ due = {} /\ left = 0

Goes(from, to) == pc = from /\ pc' = to

-----------------------------------------------------------------------------
(* The accept thread, the peers, the clock and the owner.                  *)

\* A connection is accepted, constructed and given to AddClient.
Connect(c) ==
  /\ conn[c].peer = "away"
  /\ conn' = [conn EXCEPT ![c].peer = "open"]
  /\ clientsBuf' = Append(clientsBuf, c)
  /\ UNCHANGED <<bRun, clients, clientChange, oldTime>>

PeerSends(c) ==
  /\ conn[c].peer = "open" /\ conn[c].sent < MaxSent[c]
  /\ conn' = [conn EXCEPT ![c].sent = @ + 1, ![c].rx = @ + 1]
  /\ UNCHANGED <<bRun, listVars, oldTime>>

PeerReads(c) ==
  /\ conn[c].peer \in {"open", "fin"} /\ conn[c].tx > 0
  /\ conn' = [conn EXCEPT ![c].tx = 0]
  /\ UNCHANGED <<bRun, listVars, oldTime>>

\* The peer closes its end, does not read what has come, or resets the connection.
PeerFails(c) ==
  /\ \/ conn[c].peer = "open" /\ "fin" \in Faults /\ conn' = [conn EXCEPT ![c].peer = "fin"]
     \/ /\ conn[c].peer = "open" /\ conn[c].tx > 0 /\ "stall" \in Faults
        /\ conn' = [conn EXCEPT ![c].peer = "stalled"]
     \/ /\ conn[c].peer \in {"open", "fin"} /\ "reset" \in Faults
        /\ conn' = [conn EXCEPT ![c].peer = "reset"]
  /\ UNCHANGED <<bRun, listVars, oldTime>>

Tick ==
  /\ oldTime < MaxLag
  /\ oldTime' = oldTime + 1
  /\ conn' = [c \in Clients |-> IF c \in Live /\ conn[c].quiet < MaxQuiet
                                  THEN [conn[c] EXCEPT !.quiet = @ + 1] ELSE conn[c]]
  /\ UNCHANGED <<bRun, listVars>>

\* CELLThread::Close
CloseThread ==
  /\ "close" \in Faults /\ bRun
  /\ bRun' = FALSE
  /\ UNCHANGED <<listVars, conn, oldTime>>

\* Nothing is followed any further when the worker leaves.
Outside(Step) ==
  /\ pc \notin {"clean", "ended", "crashed"}
  /\ Step
  /\ UNCHANGED <<kind, pc, watchVars, waitVars, dueVars>>

Environment ==
  \/ \E c \in Clients : \/ Outside(Connect(c))   \/ Outside(PeerSends(c))
                       \/ Outside(PeerReads(c)) \/ Outside(PeerFails(c))
  \/ Outside(Tick) \/ Outside(CloseThread)

-----------------------------------------------------------------------------
(* CellServer::OnRun.                                                      *)

\* The new clients are put into _clients; epoll gets their sockets
\* (OnClientJoin).
MoveClients ==
  /\ clients' = clients \o clientsBuf
  /\ clientsBuf' = <<>>
  /\ watched' = IF kind = "epoll" THEN watched \cup Range(clientsBuf) ELSE watched

\* A worker without clients sleeps, and sets _oldTime.
IdleOrGoOn ==
  /\ pc' = IF clients' = <<>> THEN "loop" ELSE "time"
  /\ oldTime' = IF clients' = <<>> THEN 0 ELSE oldTime

\* Mutant: the loop does not look at _bRun.
LoopForever ==
  /\ pc = "loop"
  /\ MoveClients /\ IdleOrGoOn
  /\ clientChange' = (clientChange \/ clientsBuf # <<>>)
  /\ UNCHANGED <<kind, bRun, conn, maxSocket, waitVars, dueVars>>

\* Mutant: clients join without _clientChange = true.
JoinUnnoticed ==
  /\ pc = "loop" /\ bRun
  /\ MoveClients /\ IdleOrGoOn
  /\ UNCHANGED <<kind, bRun, clientChange, conn, maxSocket, waitVars, dueVars>>

JoinClients ==
  /\ pc = "loop" /\ bRun
  /\ MoveClients /\ IdleOrGoOn
  /\ clientChange' = (clientChange \/ clientsBuf # <<>>)
  /\ UNCHANGED <<kind, bRun, conn, maxSocket, waitVars, dueVars>>

LoopEnds ==
  /\ Goes("loop", "clean") /\ ~bRun
  /\ UNCHANGED <<kind, bRun, listVars, conn, oldTime, watchVars, waitVars, dueVars>>

\* _clients.erase: a list without some of its clients, in their order.
Erase(list, gone) ==
  LET kept    == {i \in DOMAIN list : list[i] \notin gone}
      rank(i) == Cardinality({j \in kept : j <= i})
  IN [n \in 1..Cardinality(kept) |-> list[CHOOSE i \in kept : rank(i) = n]]

\* Mutant: OnClientLeave without _clientChange = true.
LeaveUnnoticed(rest, gone) ==
  /\ conn' = [c \in Clients |-> IF c \in gone THEN Deleted ELSE rest[c]]
  /\ clients' = Erase(clients, gone)
  /\ watched' = IF kind = "epoll" THEN watched \ gone ELSE watched
  /\ UNCHANGED clientChange

\* OnClientLeave: the client is deleted, which closes its socket; epoll forgets
\* a closed socket.  The caller erases it from _clients.
OnClientLeave(rest, gone) ==
  /\ conn' = [c \in Clients |-> IF c \in gone THEN Deleted ELSE rest[c]]
  /\ clients' = Erase(clients, gone)
  /\ watched' = IF kind = "epoll" THEN watched \ gone ELSE watched
  /\ clientChange' = (clientChange \/ gone # {})

\* Mutant: ">" instead of ">=".
IsDeadLater(c) == conn[c].dtHeart + oldTime > Death

\* CheckHeart
IsDead(c) == conn[c].dtHeart + oldTime >= Death

\* The clients that the loop of CheckTime comes to: after an erase at n it goes
\* on with n + 1, so the client that moves to n is left out.  Of dead clients in
\* a row, from position k on, it comes to every other one, and to the client
\* behind them if they are even in number.
Visits(n) ==
  \E k \in 1..n : /\ k = 1 \/ ~IsDead(clients[k - 1])
                  /\ \A m \in k..(n - 1) : IsDead(clients[m])
                  /\ (n - k) % 2 = 0
Visited == {clients[n] : n \in {m \in DOMAIN clients : Visits(m)}}

\* Mutant: the time is charged only to the clients that leave.
CheckTimeForgets ==
  /\ Goes("time", "sets")
  /\ OnClientLeave(conn, {c \in Visited : IsDead(c)})
  /\ oldTime' = 0
  /\ UNCHANGED <<kind, bRun, clientsBuf, maxSocket, waitVars, dueVars>>

\* CheckTime: the time since the last one is added to the heart of every client
\* it visits, and those that are dead leave.
CheckTime ==
  /\ Goes("time", "sets")
  /\ OnClientLeave([c \in Clients |-> IF c \in Visited THEN [conn[c] EXCEPT !.dtHeart = @ + oldTime]
                                                       ELSE conn[c]],
                   {c \in Visited : IsDead(c)})
  /\ oldTime' = 0
  /\ UNCHANGED <<kind, bRun, clientsBuf, maxSocket, waitVars, dueVars>>

HasMsg(c) == conn[c].recvBuf >= MsgLen

\* Mutant: no ResetDTHeart.
OnNetMsgNoReset(c, resets, replies) ==
  LET sends == replies /\ conn[c].sendBuf + ReplyLen <= SendCap
  IN [conn[c] EXCEPT !.recvBuf = @ - MsgLen,
                     !.sendBuf = IF sends THEN @ + ReplyLen ELSE @,
                     !.quiet   = IF resets THEN 0 ELSE @]

\* OnNetMsg of the server and PopFrontMsg: a message may reset the heart, and
\* may be answered (SendData, if there is room).
OnNetMsg(c, resets, replies) ==
  LET sends == replies /\ conn[c].sendBuf + ReplyLen <= SendCap
  IN [conn[c] EXCEPT !.recvBuf = @ - MsgLen,
                     !.sendBuf = IF sends THEN @ + ReplyLen ELSE @,
                     !.dtHeart = IF resets THEN 0 ELSE @,
                     !.quiet   = IF resets THEN 0 ELSE @]

\* DoMsg: the messages of the first client that has one ...
HandleMsg(c) ==
  /\ pc = "msg" /\ HasMsg(c)
  /\ \E n \in DOMAIN clients : c = clients[n] /\ \A m \in 1..(n - 1) : ~HasMsg(clients[m])
  /\ \E resets, replies \in BOOLEAN :
       (resets \/ replies) /\ conn' = [conn EXCEPT ![c] = OnNetMsg(c, resets, replies)]
  /\ due' = due \ {<<c, "msg">>}
  /\ UNCHANGED <<kind, bRun, pc, listVars, oldTime, watchVars, waitVars, left>>

\* ... until no client has any.
DoMsgEnds ==
  /\ Goes("msg", "loop")
  /\ \A c \in Listed : ~HasMsg(c)
  /\ UNCHANGED <<kind, bRun, listVars, conn, oldTime, watchVars, waitVars, dueVars>>

\* The worker leaves OnRun: the clients of both lists are deleted.
CleanClients ==
  /\ Goes("clean", "ended")
  /\ conn' = [c \in Clients |-> IF c \in Listed \cup Range(clientsBuf) THEN Deleted ELSE conn[c]]
  /\ clients' = <<>> /\ clientsBuf' = <<>>
  /\ UNCHANGED <<kind, bRun, clientChange, oldTime, watchVars, waitVars, dueVars>>

OnRun ==
  \/ JoinClients \/ LoopEnds \/ CheckTime
  \/ (\E c \in Clients : HandleMsg(c)) \/ DoMsgEnds
  \/ CleanClients

-----------------------------------------------------------------------------
(* DoNetEvents, up to the answer of select or epoll_wait.                  *)

\* DoNetEvents has returned false: OnRun calls pThread->Exit(), and leaves its
\* loop. Exit needs the mutex of the CELLThread, which a Close that was called
\* before holds until this worker has ended.
Exit ==
  /\ Goes("exit", "clean") /\ bRun
  /\ bRun' = FALSE
  /\ UNCHANGED <<kind, listVars, conn, oldTime, watchVars, waitVars, dueVars>>

\* The sockets to read from: select keeps the set until _clientChange says that
\* it is no longer true; epoll needs none.
BuildSets ==
  /\ Goes("sets", "wait")
  /\ ~(kind = "select" /\ clients = <<>>)
  /\ IF kind = "select" /\ clientChange
       THEN /\ watched' = Listed
            /\ maxSocket' = CHOOSE c \in Listed : \A d \in Listed : d <= c
            /\ clientChange' = FALSE
       ELSE UNCHANGED <<watchVars, clientChange>>
  /\ UNCHANGED <<kind, bRun, clientsBuf, clients, conn, oldTime, waitVars, dueVars>>

\* CheckTime has deleted the last client, and _clients[0] is read all the same:
\* the program crashes, or calls select with no socket and any nfds, which
\* finds nothing or fails.
BuildFromNobody ==
  /\ pc = "sets" /\ kind = "select" /\ clients = <<>>
  /\ pc' \in {"msg", "exit", "crashed"}
  /\ clientChange' = FALSE /\ watched' = {}
  /\ UNCHANGED <<kind, bRun, clientsBuf, clients, conn, oldTime, maxSocket, waitVars, dueVars>>

\* What select and epoll_wait report.  The sockets to write to are collected
\* anew in every round (select), or set with EPOLL_CTL_MOD (epoll).
InRange(c)   == kind = "select" => c <= maxSocket
CanRead(c)   == conn[c].rx > 0 \/ conn[c].peer \in {"fin", "reset"}
CanWrite(c)  == conn[c].tx < TxCap \/ conn[c].peer = "reset"
NeedWrite(c) == conn[c].sendBuf > 0
Due == {<<c, "msg">> : c \in {d \in Listed : conn[d].recvBuf + conn[d].rx >= MsgLen}}
         \cup {<<c, "reply">> : c \in {d \in Listed : NeedWrite(d) /\ CanWrite(d)}}

\* It fails, as it does when a socket in the set has been closed ...
WaitFails ==
  /\ Goes("wait", "exit")
  /\ "error" \in Faults \/ ~(watched \subseteq Live)
  /\ UNCHANGED <<kind, bRun, listVars, conn, oldTime, watchVars, waitVars, dueVars>>

\* ... or answers, perhaps with nothing.
Wait ==
  /\ pc = "wait" /\ watched \subseteq Live
  /\ readable' = {c \in watched : InRange(c) /\ CanRead(c)}
  /\ writable' = {c \in Listed : InRange(c) /\ NeedWrite(c) /\ CanWrite(c)}
  /\ pc' = IF readable' \cup writable' = {} THEN "msg"
           ELSE IF kind = "select" THEN "read" ELSE "events"
  /\ at' = 1
  /\ due' = Due /\ left' = 0
  /\ UNCHANGED <<kind, bRun, listVars, conn, oldTime, watchVars, sending, copied>>

-----------------------------------------------------------------------------
(* DoNetEvents: recv and send.                                             *)

\* read4socket: what has come, as far as there is room; or 0, when the buffer is
\* full or the peer has closed its end, which nobody takes for an error.
RecvSome(c) ==
  LET room == RecvCap - conn[c].recvBuf
      n    == IF conn[c].rx < room THEN conn[c].rx ELSE room
  IN /\ conn[c].rx > 0 \/ conn[c].peer = "fin"
     /\ conn' = [conn EXCEPT ![c].rx = @ - n, ![c].recvBuf = @ + n]
     /\ UNCHANGED <<kind, bRun, pc, listVars, oldTime, watchVars, writable, copied, dueVars>>

\* recv fails, or send does: OnClientLeave.
Leaves(c) ==
  /\ conn[c].peer = "reset"
  /\ OnClientLeave(conn, {c})
  /\ due' = {d \in due : d[1] # c} /\ left' = left + 1
  /\ UNCHANGED <<kind, bRun, pc, clientsBuf, oldTime, maxSocket>>

\* HandleReadEvent and HandleWriteEvent walk over _clients: the next position
\* whose socket is in the set.
IsNext(n, set) ==
  /\ n \in at..Len(clients) /\ clients[n] \in set
  /\ \A m \in at..(n - 1) : clients[m] \notin set

ReadNext(n) ==
  /\ pc = "read" /\ IsNext(n, readable)
  /\ RecvSome(clients[n])
  /\ at' = n + 1
  /\ UNCHANGED <<readable, sending>>

\* After the erase at n the loop goes on with n + 1.
ReadFails(n) ==
  /\ pc = "read" /\ IsNext(n, readable)
  /\ Leaves(clients[n])
  /\ at' = n + 1
  /\ UNCHANGED <<readable, writable, sending, copied>>

ReadEnds ==
  /\ Goes("read", "write")
  /\ \A n \in at..Len(clients) : clients[n] \notin readable
  /\ readable' = {} /\ at' = 1
  /\ UNCHANGED <<kind, bRun, listVars, conn, oldTime, watchVars, writable, sending, copied, dueVars>>

WriteNext(n) ==
  /\ pc = "write" /\ sending = 0 /\ IsNext(n, writable)
  /\ sending' = clients[n]
  /\ at' = n
  /\ UNCHANGED <<kind, bRun, pc, listVars, conn, oldTime, watchVars, readable, writable, copied, dueVars>>

WriteEnds ==
  /\ Goes("write", "msg") /\ sending = 0
  /\ \A n \in at..Len(clients) : clients[n] \notin writable
  /\ writable' = {} /\ at' = 1
  /\ UNCHANGED <<kind, bRun, listVars, conn, oldTime, watchVars, readable, sending, copied, dueVars>>

\* The events of epoll_wait, one client after the other: read, then write.
EventIn(c) ==
  /\ pc = "events" /\ sending = 0 /\ c \in readable
  /\ RecvSome(c)
  /\ readable' = readable \ {c}
  /\ sending' = IF c \in writable THEN c ELSE 0
  /\ UNCHANGED at

\* Mutant: no "continue" after rmClient.
EventFailsGoesOn(c) ==
  /\ pc = "events" /\ sending = 0 /\ c \in readable
  /\ Leaves(c)
  /\ readable' = readable \ {c}
  /\ sending' = IF c \in writable THEN c ELSE 0
  /\ UNCHANGED <<writable, at, copied>>

\* rmClient, and on to the next event.
EventFails(c) ==
  /\ pc = "events" /\ sending = 0 /\ c \in readable
  /\ Leaves(c)
  /\ readable' = readable \ {c} /\ writable' = writable \ {c}
  /\ UNCHANGED <<at, sending, copied>>

EventOut(c) ==
  /\ pc = "events" /\ sending = 0 /\ c \in writable \ readable
  /\ sending' = c
  /\ UNCHANGED <<kind, bRun, pc, listVars, conn, oldTime, watchVars, readable, writable, at, copied,
                 dueVars>>

EventsEnd ==
  /\ Goes("events", "msg") /\ sending = 0
  /\ readable \cup writable = {}
  /\ UNCHANGED <<kind, bRun, listVars, conn, oldTime, watchVars, waitVars, dueVars>>

\* SendDataReal: no socket is ever made non-blocking, so send() copies what the
\* kernel has room for and waits for the peer to read ...
SendCopies ==
  /\ sending # 0 /\ copied < conn[sending].sendBuf
  /\ conn[sending].peer # "reset" /\ conn[sending].tx < TxCap
  /\ LET room == TxCap - conn[sending].tx
         rest == conn[sending].sendBuf - copied
         n    == IF room < rest THEN room ELSE rest
     IN /\ conn' = [conn EXCEPT ![sending].tx = @ + n]
        /\ copied' = copied + n
  /\ UNCHANGED <<kind, bRun, pc, listVars, oldTime, watchVars, readable, writable, at, sending, dueVars>>

SendIsOver ==
  /\ sending' = 0 /\ copied' = 0
  /\ writable' = writable \ {sending}
  /\ at' = IF kind = "select" THEN at + 1 ELSE at
  /\ UNCHANGED readable

\* ... until everything is copied, or the connection is reset half way; the
\* rest moves to the front of the buffer.
SendReturns ==
  /\ sending # 0
  /\ copied = conn[sending].sendBuf \/ (copied > 0 /\ conn[sending].peer = "reset")
  /\ conn' = [conn EXCEPT ![sending].sendBuf = @ - copied]
  /\ due' = due \ {<<sending, "reply">>}
  /\ SendIsOver
  /\ UNCHANGED <<kind, bRun, pc, listVars, oldTime, watchVars, left>>

SendFails ==
  /\ sending # 0 /\ copied = 0
  /\ Leaves(sending)
  /\ SendIsOver

DoNetEvents ==
  \/ BuildSets \/ BuildFromNobody \/ Wait \/ WaitFails \/ Exit
  \/ (\E n \in DOMAIN clients : ReadNext(n) \/ ReadFails(n) \/ WriteNext(n))
  \/ ReadEnds \/ WriteEnds
  \/ (\E c \in Clients : EventIn(c) \/ EventFails(c) \/ EventOut(c)) \/ EventsEnd
  \/ SendCopies \/ SendReturns \/ SendFails

-----------------------------------------------------------------------------
Worker == OnRun \/ DoNetEvents

Next == Environment \/ Worker

\* The worker is scheduled, time passes, and a peer that has not stalled reads.
Fairness ==
  /\ WF_vars(Worker)
  /\ WF_vars(Outside(Tick))
  /\ \A c \in Clients : WF_vars(Outside(PeerReads(c)))

Spec == Init /\ [][Next]_vars

FairSpec == Spec /\ Fairness

-----------------------------------------------------------------------------
(* Properties.                                                             *)

\* The sockets that are waited for are those of the listed clients, although
\* select's set is only made anew when _clientChange says so.
WatchedAreListed ==
  pc = "wait" => watched = Listed /\ \A c \in Listed : InRange(c)

\* Every client the worker may still touch is alive and is listed once: those
\* in its lists, the one it sends to, those it waits for and those in epoll's
\* events.
OnlyLiveClients ==
  /\ WatchedAreListed
  /\ IsInjective(clients \o clientsBuf)
  /\ Range(clients \o clientsBuf) \subseteq Live
  /\ sending # 0 => sending \in Listed
  /\ pc = "events" => readable \cup writable \subseteq Listed

\* A message that has come completely is handled, and a reply the kernel has
\* room for is sent, in the round that finds it, whatever happens to other
\* clients; only with select as many clients may be passed over as have left
\* in the round.
DueIsDone ==
  pc = "loop" => Cardinality({d[1] : d \in due}) <= IF kind = "select" THEN left ELSE 0

\* A client that CheckTime deletes has been silent for
\* CLIENT_HEART_DEATH_TIME, but for the length of one round: the time before
\* it joined or spoke in that round is charged to it as well.
HeartNotEarly ==
  [][pc = "time" /\ pc' = "sets" => \A c \in Listed \ Range(clients') :
       conn[c].quiet + MaxLag >= Death]_vars

\* CheckTime leaves no client that has been silent for longer, but for the round
\* in which it was accepted, whose time is not charged to it, and for one round
\* for every client that was erased just before it, when it was passed over.
HeartNotLate ==
  [][pc = "time" /\ pc' = "sets" => \A c \in Range(clients') : conn[c].quiet < MaxQuiet]_vars

\* The worker hangs for ever: in a send() to a peer that will not read, or in
\* Exit, when Close was called before.
Hangs == \/ /\ sending # 0 /\ copied < conn[sending].sendBuf
           /\ conn[sending].peer = "stalled" /\ conn[sending].tx = TxCap
         \/ pc = "exit" /\ ~bRun
Stops == ~bRun \/ pc = "crashed" \/ Hangs

\* A client whose peer has gone, silently or not, leaves in the end, even one
\* whose recv returns 0 for ever; unless the worker stops or hangs.
GoneClientLeaves ==
  \A c \in Clients :
    conn[c].peer \notin {"away", "open"} ~> conn[c].peer = "deleted" \/ Stops

\* A worker that is told to stop deletes its clients and ends, unless it hangs
\* in a send(), or its wait fails after that and it hangs in Exit.
StopEnds == ~bRun ~> pc \in {"ended", "crashed"} \/ Hangs

=============================================================================
