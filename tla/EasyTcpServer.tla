--------------------------- MODULE EasyTcpServer ---------------------------
(***************************************************************************)
(* EasyTcpServer: the accept thread, the CellServers it distributes the    *)
(* clients to, each with a worker thread, and the owner that closes it all.*)
(* How a server waits for events is left out: a client is lost, or a wait  *)
(* fails, at any time. The kind of server (select, epoll, IOCP) matters in *)
(* two places: a send on a blocking socket may never return, and an IOCP   *)
(* client that still has an operation posted is only closed.               *)
(*                                                                         *)
(* A step is one access to what the threads share: the list _clientsBuf    *)
(* of a CellServer, which its _mutex guards except where the code reads it *)
(* without, the sizes of its lists, and the atomic _clientCount.           *)
(***************************************************************************)
EXTENDS Integers, FiniteSets, Sequences, SequencesExt, Functions

CONSTANTS
  NServers,    \* cellServerCount
  MaxClient,   \* _nMaxClient
  MaxAccepts,  \* bound: how many connections come
  Kinds,       \* the kinds of server, of {"select", "epoll", "iocp"}
  Faults       \* what may go wrong, of {"leave", "error", "hang"}

ASSUME ServersAssumption == NServers \in Nat \ {0}
ASSUME BoundsAssumption  == MaxClient \in Nat /\ MaxAccepts \in Nat
ASSUME KindsAssumption   == Kinds \subseteq {"select", "epoll", "iocp"}
ASSUME FaultsAssumption  == Faults \subseteq {"leave", "error", "hang"}

Servers  == 1..NServers
Acceptor == 0
Threads  == {Acceptor} \cup Servers
Clients  == 1..MaxAccepts    \* in the order they connect

VARIABLES
  kind,         \* which EasyTcpServer it is
  bRun,         \* _bRun of each thread's CELLThread
  pc,           \* where each thread is
  owner,        \* what EasyTcpServer::Close is doing, and with which thread
  deleted,      \* the CellServers that Close has deleted
  clientsBuf,   \* _clientsBuf of each CellServer
  clients,      \* _clients of each CellServer
  joined,       \* position in _clientsBuf of the worker's loop over it
  clientCount,  \* _clientCount
  accepted,     \* how many connections were accepted
  choice,       \* the locals of AddClient2CellServer: pMinServer, n, the sums read
  open,         \* the clients whose connection is open
  forgotten,    \* the clients erased from _clients without OnNetLeave
  exited,       \* history: the threads that have called Exit
  given         \* history: the CellServer each client was given to, or 0

listVars   == <<clientsBuf, clients, joined>>
acceptVars == <<accepted, choice>>
vars == <<kind, bRun, pc, owner, deleted, listVars, clientCount, acceptVars, open,
          forgotten, exited, given>>

\* The two sizes that GetClientCount adds up, of pMinServer and of server n.
Sizes == {"min", "other"} \X {"buf", "list"}
NoChoice == [min |-> 1, n |-> 2, unread |-> Sizes, sum |-> [min |-> 0, other |-> 0]]

AcceptorPc == {"loop", "accept", "choose", "add", "exit", "ended"}
WorkerPc   == {"loop", "check", "lock", "join", "count", "work", "leave", "hung",
               "exit", "clean", "clear", "ended"}

TypeOK ==
  /\ kind \in Kinds
  /\ bRun \in [Threads -> BOOLEAN]
  /\ pc[Acceptor] \in AcceptorPc /\ \A s \in Servers : pc[s] \in WorkerPc
  /\ owner \in [pc : {"serving", "close", "wait", "closed"}, thread : Threads]
  /\ deleted \subseteq Servers
  /\ clientsBuf \in [Servers -> Seq(Clients)]
  /\ clients \in [Servers -> Seq(Clients)]
  /\ joined \in [Servers -> 0..MaxAccepts]
  /\ clientCount \in 0..MaxAccepts
  /\ accepted \in 0..MaxAccepts
  /\ choice \in [min : Servers, n : 2..(NServers + 1), unread : SUBSET Sizes,
                 sum : [min : Nat, other : Nat]]
  /\ open \subseteq Clients /\ forgotten \subseteq Clients
  /\ exited \subseteq Threads
  /\ given \in [Clients -> Threads]

\* Start() has started all the threads.
Init ==
  /\ kind \in Kinds
  /\ bRun = [t \in Threads |-> TRUE]
  /\ pc = [t \in Threads |-> "loop"]
  /\ owner = [pc |-> "serving", thread |-> Acceptor]
  /\ deleted = {}
  /\ clientsBuf = [s \in Servers |-> <<>>]
  /\ clients = [s \in Servers |-> <<>>]
  /\ joined = [s \in Servers |-> 0]
  /\ clientCount = 0 /\ accepted = 0 /\ choice = NoChoice
  /\ open = {} /\ forgotten = {} /\ exited = {} /\ given = [c \in Clients |-> Acceptor]

\* A thread whose object has been deleted is not followed any further.
Goes(t, from, to) ==
  /\ t \notin deleted
  /\ pc[t] = from
  /\ pc' = [pc EXCEPT ![t] = to]
  /\ kind' = kind

\* The _mutex of a CellServer: its worker holds it in the loop over _clientsBuf.
Locked(s) == pc[s] \in {"join", "count"}

\* Mutant: the loop does not look at _bRun.
LoopForever(t, to, last) ==
  /\ Goes(t, "loop", to)
  /\ UNCHANGED <<bRun, owner, deleted, listVars, clientCount, acceptVars, open, forgotten, exited,
                 given>>

\* while (pThread->IsRun())
LoopTest(t, to, last) ==
  /\ Goes(t, "loop", IF bRun[t] THEN to ELSE last)
  /\ UNCHANGED <<bRun, owner, deleted, listVars, clientCount, acceptVars, open, forgotten, exited,
                 given>>

\* A wait on the sockets fails ...
WaitFails(t, from) ==
  /\ "error" \in Faults
  /\ Goes(t, from, "exit")
  /\ UNCHANGED <<bRun, owner, deleted, listVars, clientCount, acceptVars, open, forgotten, exited,
                 given>>

\* ... and the thread calls Exit(), which needs the mutex that a Close of the
\* same CELLThread holds while it waits.
Exit(t, last) ==
  /\ ~(owner.pc = "wait" /\ owner.thread = t)
  /\ Goes(t, "exit", last)
  /\ bRun' = [bRun EXCEPT ![t] = FALSE]
  /\ exited' = exited \cup {t}
  /\ UNCHANGED <<owner, deleted, listVars, clientCount, acceptVars, open, forgotten, given>>

-----------------------------------------------------------------------------
(* The accept thread: OnRun and Accept.                                    *)

\* No connection has come before the time limit.
AcceptNothing ==
  /\ Goes(Acceptor, "accept", "loop")
  /\ UNCHANGED <<bRun, owner, deleted, listVars, clientCount, acceptVars, open, forgotten, exited,
                 given>>

\* A connection, and room for it, as far as _clientCount says.
Accept ==
  /\ accepted < MaxAccepts /\ clientCount < MaxClient
  /\ accepted' = accepted + 1
  /\ open' = open \cup {accepted'}
  /\ choice' = NoChoice
  /\ Goes(Acceptor, "accept", IF NServers = 1 THEN "add" ELSE "choose")
  /\ UNCHANGED <<bRun, owner, deleted, listVars, clientCount, forgotten, exited, given>>

\* A connection too many is closed at once.
AcceptRefused ==
  /\ accepted < MaxAccepts /\ clientCount >= MaxClient
  /\ accepted' = accepted + 1
  /\ Goes(Acceptor, "accept", "loop")
  /\ UNCHANGED <<bRun, owner, deleted, listVars, clientCount, choice, open, forgotten, exited,
                 given>>

\* AddClient2CellServer reads four sizes, without a lock and in any order ...
ReadSize(side, part) ==
  LET s    == IF side = "min" THEN choice.min ELSE choice.n
      size == Len(IF part = "buf" THEN clientsBuf[s] ELSE clients[s])
  IN /\ Goes(Acceptor, "choose", "choose")
     /\ <<side, part>> \in choice.unread
     /\ choice' = [choice EXCEPT !.unread = @ \ {<<side, part>>}, !.sum[side] = @ + size]
     /\ UNCHANGED <<bRun, owner, deleted, listVars, clientCount, accepted, open, forgotten, exited,
                    given>>

\* ... and keeps the server with the smaller sum.
Compare ==
  LET min == IF choice.sum.min > choice.sum.other THEN choice.n ELSE choice.min
  IN /\ choice.unread = {}
     /\ choice' = [NoChoice EXCEPT !.min = min, !.n = choice.n + 1]
     /\ Goes(Acceptor, "choose", IF choice.n = NServers THEN "add" ELSE "choose")
     /\ UNCHANGED <<bRun, owner, deleted, listVars, clientCount, accepted, open, forgotten, exited,
                    given>>

AddClient ==
  /\ ~Locked(choice.min)
  /\ Goes(Acceptor, "add", "loop")
  /\ clientsBuf' = [clientsBuf EXCEPT ![choice.min] = Append(@, accepted)]
  /\ given' = [given EXCEPT ![accepted] = choice.min]
  /\ choice' = NoChoice
  /\ UNCHANGED <<bRun, owner, deleted, clients, joined, clientCount, accepted, open, forgotten,
                 exited>>

AcceptThread ==
  \/ LoopTest(Acceptor, "accept", "ended")
  \/ AcceptNothing \/ Accept \/ AcceptRefused
  \/ \E side \in {"min", "other"}, part \in {"buf", "list"} : ReadSize(side, part)
  \/ Compare \/ AddClient
  \/ WaitFails(Acceptor, "accept") \/ Exit(Acceptor, "ended")

-----------------------------------------------------------------------------
(* The worker of a CellServer: OnRun and CleanClients.                     *)

\* Mutant: the worker looks at _clientsBuf only while it has no client.
CheckBufWhenIdle(s) ==
  /\ Goes(s, "check", IF clients[s] # <<>> THEN "work"
                      ELSE IF clientsBuf[s] # <<>> THEN "lock" ELSE "loop")
  /\ UNCHANGED <<bRun, owner, deleted, listVars, clientCount, acceptVars, open, forgotten, exited,
                 given>>

\* if (!_clientsBuf.empty()), without _mutex; a worker without clients sleeps.
CheckBuf(s) ==
  /\ Goes(s, "check", IF clientsBuf[s] # <<>> THEN "lock"
                      ELSE IF clients[s] # <<>> THEN "work" ELSE "loop")
  /\ UNCHANGED <<bRun, owner, deleted, listVars, clientCount, acceptVars, open, forgotten, exited,
                 given>>

LockBuf(s) ==
  /\ Goes(s, "lock", "join")
  /\ joined' = [joined EXCEPT ![s] = 0]
  /\ UNCHANGED <<bRun, owner, deleted, clientsBuf, clients, clientCount, acceptVars, open,
                 forgotten, exited, given>>

\* A client is put into _clients ...
JoinClient(s) ==
  /\ Goes(s, "join", "count")
  /\ joined[s] < Len(clientsBuf[s])
  /\ joined' = [joined EXCEPT ![s] = @ + 1]
  /\ clients' = [clients EXCEPT ![s] = Append(@, clientsBuf[s][joined[s] + 1])]
  /\ UNCHANGED <<bRun, owner, deleted, clientsBuf, clientCount, acceptVars, open, forgotten,
                 exited, given>>

\* ... and OnNetJoin counts it.
OnNetJoin(s) ==
  /\ Goes(s, "count", "join")
  /\ clientCount' = clientCount + 1
  /\ UNCHANGED <<bRun, owner, deleted, listVars, acceptVars, open, forgotten, exited, given>>

\* Mutant: the loop ends without _clientsBuf.clear().
JoinEndsNoClear(s) ==
  /\ Goes(s, "join", "work")
  /\ joined[s] = Len(clientsBuf[s])
  /\ UNCHANGED <<bRun, owner, deleted, listVars, clientCount, acceptVars, open, forgotten, exited,
                 given>>

JoinEnds(s) ==
  /\ Goes(s, "join", "work")
  /\ joined[s] = Len(clientsBuf[s])
  /\ clientsBuf' = [clientsBuf EXCEPT ![s] = <<>>]
  /\ joined' = [joined EXCEPT ![s] = 0]
  /\ UNCHANGED <<bRun, owner, deleted, clients, clientCount, acceptVars, open, forgotten, exited,
                 given>>

\* Mutant: a client is deleted without OnNetLeave.
ClientLeavesUncounted(s) ==
  /\ "leave" \in Faults
  /\ Goes(s, "work", "leave")
  /\ \E c \in Range(clients[s]) : open' = open \ {c}
  /\ UNCHANGED <<bRun, owner, deleted, listVars, clientCount, acceptVars, forgotten, exited, given>>

\* CheckTime and DoNetEvents: a client leaves, is counted and deleted
\* (OnClientLeave), in CheckTime's order ...
ClientLeaves(s) ==
  /\ "leave" \in Faults
  /\ Goes(s, "work", "leave")
  /\ \E c \in Range(clients[s]) : open' = open \ {c}
  /\ clientCount' = clientCount - 1
  /\ UNCHANGED <<bRun, owner, deleted, listVars, acceptVars, forgotten, exited, given>>

\* CheckTime of an IOCP server: a client that still has an operation posted is
\* closed and erased all the same, without OnNetLeave ...
CloseInIo(s) ==
  /\ "leave" \in Faults /\ kind = "iocp"
  /\ Goes(s, "work", "leave")
  /\ \E c \in Range(clients[s]) : /\ open' = open \ {c}
                                 /\ forgotten' = forgotten \cup {c}
  /\ UNCHANGED <<bRun, owner, deleted, listVars, clientCount, acceptVars, exited, given>>

\* ... which it gets from rmClient when the operation completes, if the worker
\* still looks at its port.
OrphanLeaves(s) ==
  /\ Goes(s, "work", "work")
  /\ \E c \in forgotten : given[c] = s /\ forgotten' = forgotten \ {c}
  /\ clientCount' = clientCount - 1
  /\ UNCHANGED <<bRun, owner, deleted, listVars, acceptVars, open, exited, given>>

\* ... and is erased from _clients.
EraseClient(s) ==
  /\ Goes(s, "leave", "work")
  /\ \E i \in DOMAIN clients[s] : /\ clients[s][i] \notin open
                                /\ clients' = [clients EXCEPT ![s] = RemoveAt(@, i)]
  /\ UNCHANGED <<bRun, owner, deleted, clientsBuf, joined, clientCount, acceptVars, open,
                 forgotten, exited, given>>

\* A send on the blocking socket of a peer that does not read: the worker is
\* never heard of again.
SendHangs(s) ==
  /\ "hang" \in Faults /\ kind # "iocp" /\ clients[s] # <<>>
  /\ Goes(s, "work", "hung")
  /\ UNCHANGED <<bRun, owner, deleted, listVars, clientCount, acceptVars, open, forgotten, exited,
                 given>>

WorkEnds(s) ==
  /\ Goes(s, "work", "loop")
  /\ UNCHANGED <<bRun, owner, deleted, listVars, clientCount, acceptVars, open, forgotten, exited,
                 given>>

\* Mutant: CleanClients forgets the clients that have not joined yet.
CleanJoinedOnly(s) ==
  /\ Goes(s, "clean", "clear")
  /\ open' = open \ Range(clients[s])
  /\ clients' = [clients EXCEPT ![s] = <<>>]
  /\ forgotten' = forgotten \cup Range(clients[s])
  /\ UNCHANGED <<bRun, owner, deleted, clientsBuf, joined, clientCount, acceptVars, exited, given>>

\* CleanClients, when the worker leaves: every client of both lists is deleted,
\* without _mutex and without OnNetLeave ...
CleanClients(s) ==
  /\ Goes(s, "clean", "clear")
  /\ open' = open \ (Range(clients[s]) \cup Range(clientsBuf[s]))
  /\ clients' = [clients EXCEPT ![s] = <<>>]
  /\ forgotten' = forgotten \cup Range(clients[s])
  /\ UNCHANGED <<bRun, owner, deleted, clientsBuf, joined, clientCount, acceptVars, exited, given>>

\* ... and _clientsBuf is cleared.
ClearBuf(s) ==
  /\ Goes(s, "clear", "ended")
  /\ clientsBuf' = [clientsBuf EXCEPT ![s] = <<>>]
  /\ UNCHANGED <<bRun, owner, deleted, clients, joined, clientCount, acceptVars, open, forgotten,
                 exited, given>>

CellServer(s) ==
  \/ LoopTest(s, "check", "clean")
  \/ CheckBuf(s) \/ LockBuf(s) \/ JoinClient(s) \/ OnNetJoin(s) \/ JoinEnds(s)
  \/ ClientLeaves(s) \/ CloseInIo(s) \/ EraseClient(s) \/ OrphanLeaves(s)
  \/ SendHangs(s) \/ WorkEnds(s) \/ WaitFails(s, "work")
  \/ Exit(s, "clean") \/ CleanClients(s) \/ ClearBuf(s)

-----------------------------------------------------------------------------
(* The owner: EasyTcpServer::Close.                                        *)

CloseCall ==
  /\ owner.pc = "serving"
  /\ owner' = [owner EXCEPT !.pc = "close"]
  /\ UNCHANGED <<kind, bRun, pc, deleted, listVars, clientCount, acceptVars, open, forgotten,
                 exited, given>>

\* CELLThread::Close of the accept thread, and then of every worker in the
\* destructor of its CellServer: stop the thread and wait for its end ...
CloseStop ==
  /\ owner.pc = "close" /\ bRun[owner.thread]
  /\ owner' = [owner EXCEPT !.pc = "wait"]
  /\ bRun' = [bRun EXCEPT ![owner.thread] = FALSE]
  /\ UNCHANGED <<kind, pc, deleted, listVars, clientCount, acceptVars, open, forgotten, exited,
                 given>>

\* ... or do nothing if it has called Exit; either way the CellServer is gone.
CloseReturns ==
  /\ \/ owner.pc = "close" /\ ~bRun[owner.thread]
     \/ owner.pc = "wait" /\ pc[owner.thread] = "ended"
  /\ owner' = IF owner.thread = NServers
                THEN [owner EXCEPT !.pc = "closed"]
                ELSE [pc |-> "close", thread |-> owner.thread + 1]
  /\ deleted' = deleted \cup ({owner.thread} \ {Acceptor})
  /\ UNCHANGED <<kind, bRun, pc, listVars, clientCount, acceptVars, open, forgotten, exited, given>>

Owner == CloseCall \/ CloseStop \/ CloseReturns

-----------------------------------------------------------------------------
Next == AcceptThread \/ (\E s \in Servers : CellServer(s)) \/ Owner

\* The threads are scheduled, std::mutex is not kept from anyone for ever, and
\* the Close of the owner goes on; nobody has to call it. A worker that hangs in
\* a send has no step left, whatever is fair.
Fairness ==
  /\ WF_vars(AcceptThread)
  /\ \A s \in Servers : WF_vars(CellServer(s))
  /\ WF_vars(CloseStop \/ CloseReturns)
  /\ SF_vars(AddClient)

Spec == Init /\ [][Next]_vars

FairSpec == Spec /\ Fairness

-----------------------------------------------------------------------------
(* Properties.                                                             *)

\* The clients in _clientsBuf that the worker's loop has not come to.
Waiting(s) == SubSeq(clientsBuf[s], joined[s] + 1, Len(clientsBuf[s]))
InHand     == IF pc[Acceptor] \in {"choose", "add"} THEN <<accepted>> ELSE <<>>
Held(s)    == Waiting(s) \o clients[s]

\* An accepted client belongs to the accept thread or to the one CellServer it
\* was given to, once, and no list holds a client that has been deleted; only a
\* worker that has called Exit may leave clients behind, and only its own.
ClientsAreOwned ==
  LET Live == {s \in Servers \ deleted : pc[s] # "clear"}
  IN /\ \A s \in Live : /\ IsInjective(Held(s))
                       /\ pc[s] # "leave" => Range(Held(s)) \subseteq open
                       /\ \A c \in Range(Held(s)) : given[c] = s
     /\ \A c \in open : \/ c \in Range(InHand)
                        \/ given[c] \in exited
                        \/ given[c] \in Servers /\ c \in Range(Held(given[c]))

\* _clientCount, which the accept thread compares with the limit, counts the
\* clients that have joined and have not been erased, and the forgotten ones: the
\* IOCP clients that CheckTime closed while an operation was posted, and the
\* clients of a worker that has cleaned up.
CountIsRight ==
  /\ clientCount = Cardinality(UNION {Range(clients[s]) : s \in Servers})
                     - Cardinality({s \in Servers : pc[s] \in {"count", "leave"}})
                     + Cardinality(forgotten)
  /\ \A c \in forgotten : /\ c \notin open
                          /\ kind = "iocp" \/ pc[given[c]] \in {"clear", "ended"}

\* After Close no connection is left open, but for those of a CellServer whose
\* worker had called Exit: it cleans up once, and perhaps not before it is
\* deleted, and the accept thread goes on giving it clients.
CloseClosesAll ==
  owner.pc = "closed" =>
    \A c \in open : given[c] \in exited \cap Servers

\* A client that was given to a CellServer joins it (or the server is closed,
\* or its worker fails, or hangs in a send to another client), although
\* _clientsBuf is tested without _mutex.
EveryClientJoins ==
  \A s \in Servers, c \in Clients :
    c \in Range(clientsBuf[s]) ~> \/ c \notin Range(clientsBuf[s])
                                  \/ s \in exited \cup deleted \/ pc[s] \in {"exit", "hung"}

\* Close comes to an end, unless the very thread that it waits for calls Exit,
\* which waits for Close, or hangs in a send.
CloseEnds ==
  owner.pc = "close" ~> \/ owner.pc = "closed"
                        \/ owner.pc = "wait" /\ pc[owner.thread] \in {"exit", "hung"}

\* _nMaxClient is "the upper limit of client connections"
\* (EasyTcpServer.hpp:94).
LimitKept == Cardinality(open) <= MaxClient

=============================================================================
