------------------------ MODULE EasyTcpServerProofs ------------------------
(***************************************************************************)
(* Theorems about EasyTcpServer, for any number of servers and clients.    *)
(*                                                                         *)
(* The inductive invariant has three layers: the threads and the owner     *)
(* that stops them (ThreadsOK), the lists of each server and the client in *)
(* the accept thread's hand (ListsOK, HandOK), and the clients that have   *)
(* been counted and not counted out (ForgottenOK, CountOK).                *)
(***************************************************************************)
EXTENDS EasyTcpServer, SequenceTheorems, FiniteSetTheorems, TLAPS

-----------------------------------------------------------------------------
(* The inductive invariant.                                                *)

\* The destructor of the thread's object has gone past it.
Passed(t)  == t < owner.thread \/ owner.pc = "closed"
Awaited(t) == owner.pc = "wait" /\ owner.thread = t
Left       == {"clean", "clear", "ended"}

\* A thread stops because it called Exit or because it was closed.
StopOK(t) ==
  /\ ~bRun[t] => t \in exited \/ Passed(t) \/ Awaited(t)
  /\ t \in exited => pc[t] \in Left
  /\ pc[t] \in Left => ~bRun[t]
  /\ Passed(t) => ~bRun[t] /\ (t \in exited \/ pc[t] = "ended")

ThreadsOK ==
  /\ kind \in Kinds
  /\ bRun \in [Threads -> BOOLEAN]
  /\ pc \in [Threads -> AcceptorPc \cup WorkerPc]
  /\ pc[Acceptor] \in AcceptorPc /\ \A s \in Servers : pc[s] \in WorkerPc
  /\ owner \in [pc : {"serving", "close", "wait", "closed"}, thread : Threads]
  /\ owner.pc = "serving" => owner.thread = Acceptor
  /\ owner.pc = "closed" => owner.thread = NServers
  /\ deleted = {s \in Servers : Passed(s)}
  /\ exited \subseteq Threads
  /\ \A t \in Threads : StopOK(t)

\* The client that the accept thread is about to give to a server.
InHandNow == pc[Acceptor] \in {"choose", "add"}

HandOK ==
  /\ accepted \in 0..MaxAccepts
  /\ open \subseteq 1..accepted
  /\ given \in [Clients -> Threads]
  /\ \A c \in Clients : c > accepted => given[c] = Acceptor
  /\ InHandNow => accepted \in open /\ given[accepted] = Acceptor
  /\ \A c \in open : given[c] = Acceptor => InHandNow /\ c = accepted
  /\ choice \in [min : Servers, n : 2..(NServers + 1), unread : SUBSET Sizes,
                 sum : [min : Nat, other : Nat]]
  /\ pc[Acceptor] = "choose" => choice.n <= NServers

\* A server at "at", with its two lists and its position "n" in the first.
ListsOK(s, at, buf, list, n, opened, gave, ex) ==
  /\ buf \in Seq(Clients) /\ list \in Seq(Clients) /\ n \in 0..Len(buf)
  /\ IsInjective(buf) /\ IsInjective(list)
  /\ \A i \in 1..Len(buf) : gave[buf[i]] = s
  /\ \A j \in 1..Len(list) : gave[list[j]] = s
  /\ \A i \in (n + 1)..Len(buf), j \in 1..Len(list) : buf[i] # list[j]
  /\ at \notin {"join", "count"} => n = 0
  /\ at = "count" => Len(list) >= 1
  /\ at # "clear" => \A i \in (n + 1)..Len(buf) : buf[i] \in opened
  /\ at # "leave" => \A j \in 1..Len(list) : list[j] \in opened
  /\ at = "leave" => \E j \in 1..Len(list) :
                       \A k \in 1..Len(list) : list[k] \in opened <=> k # j
  /\ at \in {"clear", "ended"} => list = <<>>
  /\ at = "clear" /\ s \notin ex => \A i \in 1..Len(buf) : buf[i] \notin opened
  /\ at = "ended" /\ s \notin ex => buf = <<>>
  /\ \A c \in opened : gave[c] = s => \/ s \in ex
                                      \/ \E i \in (n + 1)..Len(buf) : buf[i] = c
                                      \/ \E j \in 1..Len(list) : list[j] = c

Lists(s) == ListsOK(s, pc[s], clientsBuf[s], clients[s], joined[s], open, given, exited)

ServersOK ==
  /\ clientsBuf \in [Servers -> Seq(Clients)]
  /\ clients \in [Servers -> Seq(Clients)]
  /\ joined \in [Servers -> Nat]
  /\ \A s \in Servers : Lists(s)

\* OnNetJoin has counted the clients up to this position of a list.
Full(at, list) == IF at = "count" THEN Len(list) - 1 ELSE Len(list)

IsCounted(at, list, opened, c) == c \in opened /\ \E i \in 1..Full(at, list) : list[i] = c
IsComing(at, buf, list, n, c) == \/ \E i \in (n + 1)..Len(buf) : buf[i] = c
                                 \/ at = "count" /\ list[Len(list)] = c

Counted == {c \in Clients : \E s \in Servers : IsCounted(pc[s], clients[s], open, c)}
Coming  == {c \in Clients :
              \/ InHandNow /\ c = accepted
              \/ \E s \in Servers : IsComing(pc[s], clientsBuf[s], clients[s], joined[s], c)}

\* Whoever is still counted without being in a list has been deleted or closed.
ForgottenOK ==
  /\ forgotten \subseteq Clients /\ forgotten \cap open = {}
  /\ \A c \in forgotten : /\ given[c] \in Servers
                          /\ kind = "iocp" \/ pc[given[c]] \in {"clear", "ended"}

CountOK ==
  /\ clientCount = Cardinality(Counted) + Cardinality(forgotten)
  /\ clientCount + Cardinality(Coming) <= accepted

IInv == ThreadsOK /\ HandOK /\ ServersOK /\ ForgottenOK /\ CountOK

-----------------------------------------------------------------------------
(* The next-state relation by what a step does to this state.              *)

Workings == {"loop", "check", "lock", "work", "hung", "exit", "clean"}

\* A thread moves on and leaves the lists, the count and the owner alone.
Quiet(t, from, to) ==
  /\ Goes(t, from, to)
  /\ UNCHANGED <<bRun, owner, deleted, listVars, clientCount, open, forgotten, exited, given>>
  /\ from \notin Left /\ (to \in Left => ~bRun[t])
  /\ \/ t \in Servers /\ from \in Workings /\ to \in Workings /\ UNCHANGED acceptVars
     \/ /\ t = Acceptor /\ UNCHANGED acceptVars
        /\ {from, to} \subseteq {"loop", "accept", "exit", "ended"}

\* The accept thread chooses a server.
Chooses ==
  /\ UNCHANGED <<bRun, owner, deleted, listVars, clientCount, open, forgotten, exited, given, accepted>>
  /\ \/ \E side \in {"min", "other"}, part \in {"buf", "list"} : ReadSize(side, part)
     \/ Compare

\* A client of a worker is closed, and about to be erased.
Closes(s) ==
  /\ Goes(s, "work", "leave")
  /\ \E c \in Range(clients[s]) : open' = open \ {c}
  /\ UNCHANGED <<bRun, owner, deleted, listVars, acceptVars, exited, given>>

LEMMA LeavesCloses ==
  ASSUME NEW s \in Servers, ClientLeaves(s) \/ CloseInIo(s)
  PROVE  Closes(s)
BY DEF ClientLeaves, CloseInIo, Closes

LEMMA ServerNumbers ==
  /\ NServers \in Nat \ {0} /\ MaxAccepts \in Nat /\ MaxClient \in Nat
  /\ Acceptor = 0 /\ Acceptor \in Threads /\ Acceptor \notin Servers
  /\ \A s \in Servers : s \in Threads /\ s # Acceptor /\ s \in Nat
  /\ \A t \in Threads : t = Acceptor \/ t \in Servers
  /\ Threads = 0..NServers
BY ServersAssumption, BoundsAssumption DEF Acceptor, Threads, Servers

LEMMA NextCases ==
  ASSUME Next
  PROVE  \/ \E t \in Threads, from, to \in AcceptorPc \cup WorkerPc : Quiet(t, from, to)
         \/ Exit(Acceptor, "ended") \/ \E s \in Servers : Exit(s, "clean")
         \/ Accept \/ AcceptRefused \/ Chooses \/ AddClient
         \/ \E s \in Servers : LockBuf(s) \/ JoinClient(s) \/ OnNetJoin(s) \/ JoinEnds(s)
         \/ \E s \in Servers : ClientLeaves(s) \/ CloseInIo(s) \/ OrphanLeaves(s)
         \/ \E s \in Servers : EraseClient(s) \/ CleanClients(s) \/ ClearBuf(s)
         \/ Owner
<1> USE DEF AcceptorPc, WorkerPc, Workings, Left
<1>1. ASSUME AcceptThread PROVE \/ \E t \in Threads, from, to \in AcceptorPc \cup WorkerPc : Quiet(t, from, to)
                                \/ Exit(Acceptor, "ended")
                                \/ Accept \/ AcceptRefused \/ Chooses \/ AddClient
  <2>1. CASE LoopTest(Acceptor, "accept", "ended")
    <3>1. Quiet(Acceptor, "loop", "accept") \/ Quiet(Acceptor, "loop", "ended")
      BY <2>1 DEF LoopTest, Quiet, Goes
    <3>2. QED
      BY <3>1, ServerNumbers
  <2>2. CASE AcceptNothing
    <3>1. Quiet(Acceptor, "accept", "loop")
      BY <2>2 DEF AcceptNothing, Quiet, Goes
    <3>2. QED
      BY <3>1, ServerNumbers
  <2>3. CASE WaitFails(Acceptor, "accept")
    <3>1. Quiet(Acceptor, "accept", "exit")
      BY <2>3 DEF WaitFails, Quiet, Goes
    <3>2. QED
      BY <3>1, ServerNumbers
  <2>4. CASE Compare \/ \E side \in {"min", "other"}, part \in {"buf", "list"} : ReadSize(side, part)
    BY <2>4 DEF Compare, ReadSize, Chooses
  <2>5. QED
    BY <1>1, <2>1, <2>2, <2>3, <2>4 DEF AcceptThread
<1>2. ASSUME NEW s \in Servers, CellServer(s)
      PROVE  \/ \E t \in Threads, from, to \in AcceptorPc \cup WorkerPc : Quiet(t, from, to)
             \/ Exit(s, "clean")
             \/ LockBuf(s) \/ JoinClient(s) \/ OnNetJoin(s) \/ JoinEnds(s)
             \/ ClientLeaves(s) \/ CloseInIo(s) \/ OrphanLeaves(s)
             \/ EraseClient(s) \/ CleanClients(s) \/ ClearBuf(s)
  <2>0. s \in Threads /\ s # Acceptor
    BY ServerNumbers
  <2>1. CASE LoopTest(s, "check", "clean")
    <3>1. Quiet(s, "loop", "check") \/ Quiet(s, "loop", "clean")
      BY <2>0, <2>1 DEF LoopTest, Quiet, Goes, listVars, acceptVars
    <3>2. QED
      BY <3>1, <2>0
  <2>2. CASE CheckBuf(s)
    <3>1. Quiet(s, "check", "lock") \/ Quiet(s, "check", "work") \/ Quiet(s, "check", "loop")
      BY <2>0, <2>2 DEF CheckBuf, Quiet, Goes
    <3>2. QED
      BY <3>1, <2>0
  <2>3. CASE WorkEnds(s)
    <3>1. Quiet(s, "work", "loop")
      BY <2>0, <2>3 DEF WorkEnds, Quiet, Goes
    <3>2. QED
      BY <3>1, <2>0
  <2>4. CASE WaitFails(s, "work")
    <3>1. Quiet(s, "work", "exit")
      BY <2>0, <2>4 DEF WaitFails, Quiet, Goes
    <3>2. QED
      BY <3>1, <2>0
  <2>5. CASE SendHangs(s)
    <3>1. Quiet(s, "work", "hung")
      BY <2>0, <2>5 DEF SendHangs, Quiet, Goes
    <3>2. QED
      BY <3>1, <2>0
  <2>6. QED
    BY <1>2, <2>1, <2>2, <2>3, <2>4, <2>5 DEF CellServer
<1>3. QED
  BY <1>1, <1>2 DEF Next

-----------------------------------------------------------------------------
(* The threads.                                                            *)

\* A thread that goes on, and only leaves its loop when it has been stopped.
LEMMA ThreadGoes ==
  ASSUME ThreadsOK, NEW t \in Threads, NEW from, NEW to, Goes(t, from, to),
         from # "ended", t = Acceptor => to \in AcceptorPc, t \in Servers => to \in WorkerPc,
         from \in Left => to \in Left, to \in Left => from \in Left \/ ~bRun[t],
         UNCHANGED <<bRun, owner, deleted, exited>>
  PROVE  ThreadsOK'
<1>1. /\ pc' \in [Threads -> AcceptorPc \cup WorkerPc]
      /\ pc'[Acceptor] \in AcceptorPc /\ \A s \in Servers : pc'[s] \in WorkerPc
  <2>1. pc' = [pc EXCEPT ![t] = to] /\ pc \in [Threads -> AcceptorPc \cup WorkerPc]
    BY DEF ThreadsOK, Goes
  <2>2. to \in AcceptorPc \cup WorkerPc
    BY ServerNumbers
  <2>3. pc' \in [Threads -> AcceptorPc \cup WorkerPc] /\ pc'[t] = to
    BY <2>1, <2>2
  <2>4. \A u \in Threads \ {t} : pc'[u] = pc[u]
    BY <2>1
  <2>5. QED
    BY <2>2, <2>3, <2>4, ServerNumbers DEF ThreadsOK
<1>2. \A u \in Threads : (Passed(u)' <=> Passed(u)) /\ (Awaited(u)' <=> Awaited(u))
  BY DEF Passed, Awaited
<1>3. ASSUME NEW u \in Threads PROVE StopOK(u)'
  <2>1. CASE u = t
    <3>1. pc[t] = from /\ pc'[t] = to /\ StopOK(t)
      BY DEF ThreadsOK, Goes
    <3>2. t \in exited \/ ~Passed(t)
      BY <3>1 DEF StopOK
    <3>3. QED
      BY <2>1, <3>1, <3>2, <1>2 DEF StopOK, Left
  <2>2. CASE u # t
    <3>1. pc'[u] = pc[u] /\ StopOK(u)
      BY <2>2 DEF ThreadsOK, Goes
    <3>2. QED
      BY <3>1, <1>2 DEF StopOK
  <2>3. QED
    BY <2>1, <2>2
<1>4. deleted' = {s \in Servers : Passed(s)'}
  BY <1>2, ServerNumbers DEF ThreadsOK
<1>5. QED
  BY <1>1, <1>3, <1>4 DEF ThreadsOK, Goes

LEMMA ThreadExits ==
  ASSUME ThreadsOK, NEW t \in Threads, NEW last \in Left, Exit(t, last),
         t = Acceptor => last \in AcceptorPc, t \in Servers => last \in WorkerPc
  PROVE  ThreadsOK'
<1>1. /\ pc' \in [Threads -> AcceptorPc \cup WorkerPc]
      /\ pc'[Acceptor] \in AcceptorPc /\ \A s \in Servers : pc'[s] \in WorkerPc
      /\ bRun' \in [Threads -> BOOLEAN] /\ exited' \subseteq Threads
  <2>1. pc' = [pc EXCEPT ![t] = last] /\ pc \in [Threads -> AcceptorPc \cup WorkerPc]
    BY DEF ThreadsOK, Exit, Goes
  <2>2. last \in AcceptorPc \cup WorkerPc
    BY ServerNumbers
  <2>3. pc' \in [Threads -> AcceptorPc \cup WorkerPc] /\ pc'[t] = last
    BY <2>1, <2>2
  <2>4. \A u \in Threads \ {t} : pc'[u] = pc[u]
    BY <2>1
  <2>5. bRun' \in [Threads -> BOOLEAN] /\ exited' \subseteq Threads
    BY DEF ThreadsOK, Exit
  <2>6. QED
    BY <2>2, <2>3, <2>4, <2>5, ServerNumbers DEF ThreadsOK
<1>2. \A u \in Threads : (Passed(u)' <=> Passed(u)) /\ (Awaited(u)' <=> Awaited(u))
  BY DEF Passed, Awaited, Exit
<1>3. ASSUME NEW u \in Threads PROVE StopOK(u)'
  <2>1. CASE u = t
    BY <2>1 DEF ThreadsOK, Exit, Goes, StopOK
  <2>2. CASE u # t
    <3>1. pc'[u] = pc[u] /\ StopOK(u) /\ bRun'[u] = bRun[u] /\ (u \in exited' <=> u \in exited)
      BY <2>2 DEF ThreadsOK, Exit, Goes
    <3>2. QED
      BY <3>1, <1>2 DEF StopOK
  <2>3. QED
    BY <2>1, <2>2
<1>4. deleted' = {s \in Servers : Passed(s)'}
  BY <1>2, ServerNumbers DEF ThreadsOK, Exit
<1>5. QED
  BY <1>1, <1>3, <1>4 DEF ThreadsOK, Exit, Goes

LEMMA OwnerStep ==
  ASSUME ThreadsOK, Owner
  PROVE  ThreadsOK'
<1> USE ServerNumbers
<1>1. owner.thread \in 0..NServers /\ owner = [pc |-> owner.pc, thread |-> owner.thread]
  BY DEF ThreadsOK
<1>2. CASE CloseCall
  <2>1. owner' = [pc |-> "close", thread |-> 0]
    BY <1>1, <1>2 DEF CloseCall, ThreadsOK
  <2>2. \A u \in Threads : ~Passed(u) /\ ~Passed(u)' /\ ~Awaited(u) /\ ~Awaited(u)'
    BY <2>1, <1>1, <1>2 DEF CloseCall, ThreadsOK, Passed, Awaited
  <2>3. \A u \in Threads : StopOK(u)'
    BY <2>2, <1>2 DEF ThreadsOK, CloseCall, StopOK
  <2>4. QED
    BY <2>1, <2>2, <2>3, <1>2 DEF ThreadsOK, CloseCall
<1>3. CASE CloseStop
  <2>1. owner' = [pc |-> "wait", thread |-> owner.thread]
    BY <1>1, <1>3 DEF CloseStop
  <2>2. \A u \in Threads : (Passed(u)' <=> Passed(u)) /\ (Awaited(u)' <=> u = owner.thread) /\ ~Awaited(u)
    BY <2>1, <1>1, <1>3 DEF CloseStop, Passed, Awaited
  <2>3. ASSUME NEW u \in Threads PROVE StopOK(u)'
    <3>1. CASE u = owner.thread
      <4>1. bRun'[u] = FALSE /\ StopOK(u) /\ ~Passed(u)
        BY <3>1, <1>3, <1>1 DEF CloseStop, ThreadsOK, Passed
      <4>2. QED
        BY <4>1, <3>1, <2>2, <1>3 DEF StopOK, CloseStop
    <3>2. CASE u # owner.thread
      <4>1. bRun'[u] = bRun[u] /\ StopOK(u)
        BY <3>2, <1>3 DEF CloseStop, ThreadsOK
      <4>2. QED
        BY <4>1, <3>2, <2>2, <1>3 DEF StopOK, CloseStop
    <3>3. QED
      BY <3>1, <3>2
  <2>4. bRun' \in [Threads -> BOOLEAN]
    BY <1>3 DEF CloseStop, ThreadsOK
  <2>5. QED
    BY <2>1, <2>2, <2>3, <2>4, <1>3 DEF ThreadsOK, CloseStop
<1>4. CASE CloseReturns
  <2>1. /\ owner.pc \in {"close", "wait"}
        /\ owner.thread = NServers => owner' = [pc |-> "closed", thread |-> NServers]
        /\ owner.thread # NServers => owner' = [pc |-> "close", thread |-> owner.thread + 1]
    BY <1>1, <1>4 DEF CloseReturns
  <2>2. \A u \in Threads : (Passed(u)' <=> Passed(u) \/ u = owner.thread) /\ ~Awaited(u)'
    BY <2>1, <1>1 DEF Passed, Awaited
  <2>3. ASSUME NEW u \in Threads PROVE StopOK(u)'
    <3>1. CASE u = owner.thread
      <4>1. StopOK(u) /\ ~Passed(u)
        BY <2>1, <3>1, <1>1 DEF Passed, ThreadsOK
      <4>2. ~bRun[u]
        BY <4>1, <3>1, <1>4 DEF CloseReturns, StopOK, Left
      <4>3. u \in exited \/ pc[u] = "ended"
        BY <4>1, <4>2, <3>1, <1>4 DEF CloseReturns, StopOK, Left, Awaited
      <4>4. QED
        BY <4>1, <4>2, <4>3, <3>1, <2>2, <1>4 DEF StopOK, CloseReturns
    <3>2. CASE u # owner.thread
      <4>1. StopOK(u) /\ (Passed(u)' <=> Passed(u))
        BY <3>2, <2>2 DEF ThreadsOK
      <4>2. ~Awaited(u) /\ ~Awaited(u)'
        BY <3>2, <2>2 DEF Awaited
      <4>3. QED
        BY <4>1, <4>2, <1>4 DEF StopOK, CloseReturns
    <3>3. QED
      BY <3>1, <3>2
  <2>4. deleted' = {s \in Servers : Passed(s)'}
    BY <2>2, <1>4 DEF ThreadsOK, CloseReturns
  <2>5. owner' \in [pc : {"serving", "close", "wait", "closed"}, thread : Threads]
    BY <2>1, <1>1
  <2>6. QED
    BY <2>1, <2>3, <2>4, <2>5, <1>4 DEF ThreadsOK, CloseReturns
<1>5. QED
  BY <1>2, <1>3, <1>4 DEF Owner

LEMMA ThreadsInit == Init => ThreadsOK
<1> SUFFICES ASSUME Init PROVE ThreadsOK
  OBVIOUS
<1>1. \A u \in Threads : ~Passed(u)
  BY ServerNumbers DEF Init, Passed
<1>2. \A u \in Threads : StopOK(u)
  BY <1>1 DEF Init, StopOK, Left
<1>3. deleted = {s \in Servers : Passed(s)}
  BY <1>1, ServerNumbers DEF Init
<1>4. QED
  BY <1>2, <1>3, ServerNumbers DEF Init, ThreadsOK, AcceptorPc, WorkerPc

LEMMA ThreadsStep ==
  ASSUME ThreadsOK, [Next]_vars
  PROVE  ThreadsOK'
<1> USE DEF AcceptorPc, WorkerPc
<1>1. CASE UNCHANGED vars
  BY <1>1 DEF vars, ThreadsOK, StopOK, Passed, Awaited
<1>2. ASSUME NEW t \in Threads, NEW from \in AcceptorPc \cup WorkerPc,
             NEW to \in AcceptorPc \cup WorkerPc, Quiet(t, from, to)
      PROVE  ThreadsOK'
  BY <1>2, ThreadGoes, ServerNumbers DEF Quiet, Left, Workings
<1>3. CASE Exit(Acceptor, "ended")
  BY <1>3, ThreadExits, ServerNumbers DEF Left
<1>4. ASSUME NEW s \in Servers, Exit(s, "clean") PROVE ThreadsOK'
  BY <1>4, ThreadExits, ServerNumbers DEF Left
<1>5. CASE Accept
  <2>1. PICK to \in {"add", "choose"} : Goes(Acceptor, "accept", to)
    BY <1>5 DEF Accept
  <2>2. QED
    BY <2>1, <1>5, ThreadGoes, ServerNumbers DEF Accept, Left
<1>6. CASE AcceptRefused
  BY <1>6, ThreadGoes, ServerNumbers DEF AcceptRefused, Left
<1>7. CASE Chooses
  <2>1. PICK to \in {"add", "choose"} : Goes(Acceptor, "choose", to)
    BY <1>7 DEF Chooses, ReadSize, Compare
  <2>2. QED
    BY <2>1, <1>7, ThreadGoes, ServerNumbers DEF Chooses, Left
<1>8. CASE AddClient
  BY <1>8, ThreadGoes, ServerNumbers DEF AddClient, Left
<1>9. ASSUME NEW s \in Servers, LockBuf(s) \/ JoinClient(s) \/ OnNetJoin(s) \/ JoinEnds(s)
      PROVE  ThreadsOK'
  <2>1. PICK from \in {"lock", "join", "count"}, to \in {"join", "count", "work"} : Goes(s, from, to)
    BY <1>9 DEF LockBuf, JoinClient, OnNetJoin, JoinEnds
  <2>2. UNCHANGED <<bRun, owner, deleted, exited>>
    BY <1>9 DEF LockBuf, JoinClient, OnNetJoin, JoinEnds
  <2>3. QED
    BY <2>1, <2>2, ThreadGoes, ServerNumbers DEF Left
<1>10. ASSUME NEW s \in Servers, Closes(s) \/ OrphanLeaves(s) \/ EraseClient(s) PROVE ThreadsOK'
  <2>1. PICK from \in {"work", "leave"}, to \in {"work", "leave"} : Goes(s, from, to)
    BY <1>10 DEF Closes, OrphanLeaves, EraseClient
  <2>2. UNCHANGED <<bRun, owner, deleted, exited>>
    BY <1>10 DEF Closes, OrphanLeaves, EraseClient
  <2>3. QED
    BY <2>1, <2>2, ThreadGoes, ServerNumbers DEF Left
<1>11. ASSUME NEW s \in Servers, CleanClients(s) \/ ClearBuf(s) PROVE ThreadsOK'
  <2>1. PICK from \in {"clean", "clear"}, to \in {"clear", "ended"} : Goes(s, from, to)
    BY <1>11 DEF CleanClients, ClearBuf
  <2>2. UNCHANGED <<bRun, owner, deleted, exited>>
    BY <1>11 DEF CleanClients, ClearBuf
  <2>3. QED
    BY <2>1, <2>2, ThreadGoes, ServerNumbers DEF Left
<1>12. CASE Owner
  BY <1>12, OwnerStep
<1>13. QED
  BY <1>1, <1>2, <1>3, <1>4, <1>5, <1>6, <1>7, <1>8, <1>9, <1>10, <1>11, <1>12, NextCases, LeavesCloses

\* A worker that leaves its loop without a call of Exit was closed, and the
\* accept thread before it.
LEMMA AcceptorEnded ==
  ASSUME ThreadsOK, NEW s \in Servers, pc[s] \in Left, s \notin exited
  PROVE  pc[Acceptor] = "ended"
<1>1. StopOK(s) /\ StopOK(Acceptor) /\ owner.thread \in 0..NServers /\ s \in Nat \ {0}
  BY ServerNumbers DEF ThreadsOK, Servers
<1>2. Passed(s) \/ Awaited(s)
  BY <1>1 DEF StopOK
<1>3. Passed(Acceptor)
  BY <1>1, <1>2, ServerNumbers DEF Passed, Awaited
<1>4. pc[Acceptor] \in Left
  BY <1>1, <1>3 DEF StopOK, Left
<1>5. QED
  BY <1>4 DEF ThreadsOK, AcceptorPc, Left

-----------------------------------------------------------------------------
(* The client in the accept thread's hand.                                 *)

\* The clients of a server's lists were given to that server.
LEMMA ListedClients ==
  ASSUME ServersOK, NEW s \in Servers
  PROVE  /\ \A c \in Range(clients[s]) : c \in Clients /\ given[c] = s
         /\ \A c \in Range(clientsBuf[s]) : c \in Clients /\ given[c] = s
<1> DEFINE list == clients[s]  buf == clientsBuf[s]
<1>1. ListsOK(s, pc[s], buf, list, joined[s], open, given, exited)
  BY DEF ServersOK, Lists
<1> HIDE DEF list, buf
<1>2. /\ buf \in Seq(Clients) /\ list \in Seq(Clients)
      /\ \A i \in 1..Len(buf) : given[buf[i]] = s
      /\ \A j \in 1..Len(list) : given[list[j]] = s
  BY <1>1 DEF ListsOK
<1>3. DOMAIN buf = 1..Len(buf) /\ DOMAIN list = 1..Len(list)
  BY <1>2
<1>4. /\ \A i \in 1..Len(buf) : buf[i] \in Clients
      /\ \A i \in 1..Len(list) : list[i] \in Clients
  BY <1>2
<1>5. /\ \A c \in Range(list) : c \in Clients /\ given[c] = s
      /\ \A c \in Range(buf) : c \in Clients /\ given[c] = s
  BY <1>2, <1>3, <1>4 DEF Range
<1>6. QED
  BY <1>5 DEF list, buf

\* A step that closes no client in hand and does not move the accept thread.
LEMMA HandKept ==
  ASSUME HandOK, open' \subseteq open, InHandNow => accepted \in open',
         pc'[Acceptor] = pc[Acceptor], UNCHANGED <<acceptVars, given>>
  PROVE  HandOK'
BY DEF HandOK, InHandNow, acceptVars

LEMMA HandAccept == ASSUME ThreadsOK, HandOK, Accept PROVE HandOK'
<1> USE ServerNumbers
<1>1. /\ accepted < MaxAccepts /\ accepted' = accepted + 1 /\ open' = open \cup {accepted'}
      /\ choice' = NoChoice /\ given' = given
      /\ pc'[Acceptor] = (IF NServers = 1 THEN "add" ELSE "choose")
      /\ ~InHandNow
  BY DEF Accept, ThreadsOK, Goes, InHandNow
<1>2. /\ accepted' \in 1..MaxAccepts /\ accepted' \in Clients /\ given[accepted'] = Acceptor
      /\ open' \subseteq 1..accepted'
  BY <1>1 DEF HandOK, Clients
<1>3. choice' \in [min : Servers, n : 2..(NServers + 1), unread : SUBSET Sizes,
                   sum : [min : Nat, other : Nat]]
  BY <1>1 DEF NoChoice, Servers, Sizes
<1>4. pc'[Acceptor] = "choose" => choice'.n <= NServers
  BY <1>1 DEF NoChoice
<1>5. InHandNow' /\ accepted' \in open' /\ given'[accepted'] = Acceptor
  BY <1>1, <1>2 DEF InHandNow
<1>6. \A c \in open' : given'[c] = Acceptor => InHandNow' /\ c = accepted'
  BY <1>1, <1>5 DEF HandOK
<1>7. \A c \in Clients : c > accepted' => given'[c] = Acceptor
  BY <1>1 DEF HandOK, Clients
<1>8. given' \in [Clients -> Threads] /\ accepted' \in 0..MaxAccepts
  BY <1>1, <1>2 DEF HandOK
<1>9. QED
  BY <1>2, <1>3, <1>4, <1>5, <1>6, <1>7, <1>8 DEF HandOK

LEMMA HandChooses == ASSUME ThreadsOK, HandOK, ServersOK, Chooses PROVE HandOK'
<1> USE ServerNumbers
<1> DEFINE ChoiceType == [min : Servers, n : 2..(NServers + 1), unread : SUBSET Sizes,
                          sum : [min : Nat, other : Nat]]
<1>1. pc[Acceptor] = "choose" /\ choice \in ChoiceType /\ choice.n \in Servers /\ InHandNow
      /\ choice.n + 1 \in 2..(NServers + 1) /\ choice.min \in Servers
  BY DEF Chooses, ReadSize, Compare, Goes, HandOK, InHandNow, Servers
<1>2. choice' \in ChoiceType /\ pc'[Acceptor] \in {"choose", "add"}
      /\ (pc'[Acceptor] = "choose" => choice'.n <= NServers)
  <2>1. ASSUME NEW side \in {"min", "other"}, NEW part \in {"buf", "list"}, ReadSize(side, part)
        PROVE  choice' \in ChoiceType /\ choice'.n = choice.n /\ pc'[Acceptor] = "choose"
    <3> DEFINE r    == IF side = "min" THEN choice.min ELSE choice.n
               size == Len(IF part = "buf" THEN clientsBuf[r] ELSE clients[r])
    <3>1. clientsBuf[r] \in Seq(Clients) /\ clients[r] \in Seq(Clients)
      BY <1>1 DEF ServersOK
    <3>2. size \in Nat
      BY <3>1
    <3>3. choice' = [choice EXCEPT !.unread = @ \ {<<side, part>>}, !.sum[side] = @ + size]
      BY <2>1 DEF ReadSize
    <3> HIDE DEF size
    <3>4. PICK m \in Servers, n \in 2..(NServers + 1), u \in SUBSET Sizes, a \in Nat, b \in Nat :
            choice = [min |-> m, n |-> n, unread |-> u, sum |-> [min |-> a, other |-> b]]
      BY <1>1
    <3>5. choice' = [min |-> m, n |-> n, unread |-> u \ {<<side, part>>},
                     sum |-> [[min |-> a, other |-> b] EXCEPT ![side] = @ + size]]
      BY <3>3, <3>4
    <3>6. [[min |-> a, other |-> b] EXCEPT ![side] = @ + size] \in [min : Nat, other : Nat]
      <4>1. CASE side = "min"
        BY <3>2, <4>1
      <4>2. CASE side = "other"
        BY <3>2, <4>2
      <4>3. QED
        BY <4>1, <4>2
    <3>7. choice' \in ChoiceType /\ choice'.n = choice.n
      BY <3>4, <3>5, <3>6
    <3>8. pc'[Acceptor] = "choose"
      BY <2>1 DEF ReadSize, Goes, ThreadsOK
    <3>9. QED
      BY <3>7, <3>8
  <2>2. CASE Compare
    <3>1. /\ choice' \in ChoiceType /\ choice'.n = choice.n + 1
      BY <1>1, <2>2 DEF Compare, NoChoice, Sizes, Servers
    <3>2. pc'[Acceptor] = (IF choice.n = NServers THEN "add" ELSE "choose")
      BY <2>2 DEF Compare, Goes, ThreadsOK
    <3>3. QED
      BY <3>1, <3>2, <1>1 DEF Servers
  <2>3. QED
    BY <2>1, <2>2, <1>1 DEF Chooses, Servers
<1>3. InHandNow'
  BY <1>2 DEF InHandNow
<1>4. UNCHANGED <<accepted, open, given>>
  BY DEF Chooses
<1>5. QED
  BY <1>1, <1>2, <1>3, <1>4 DEF HandOK

LEMMA HandAddClient == ASSUME ThreadsOK, HandOK, AddClient PROVE HandOK'
<1> USE ServerNumbers
<1>1. /\ pc[Acceptor] = "add" /\ pc'[Acceptor] = "loop" /\ choice' = NoChoice
      /\ given' = [given EXCEPT ![accepted] = choice.min]
      /\ UNCHANGED <<accepted, open>>
  BY DEF AddClient, Goes, ThreadsOK
<1>2. /\ InHandNow /\ ~InHandNow' /\ accepted \in open /\ choice.min \in Servers
      /\ accepted \in Clients
  BY <1>1 DEF InHandNow, HandOK, Clients
<1>3. choice' \in [min : Servers, n : 2..(NServers + 1), unread : SUBSET Sizes,
                   sum : [min : Nat, other : Nat]]
  BY <1>1 DEF NoChoice, Servers, Sizes
<1>4. given' \in [Clients -> Threads] /\ given'[accepted] # Acceptor
  BY <1>1, <1>2 DEF HandOK
<1>5. \A c \in Clients : c # accepted => given'[c] = given[c]
  BY <1>1 DEF HandOK
<1>6. \A c \in open : c \in Clients
  BY DEF HandOK, Clients
<1>7. \A c \in open' : given'[c] # Acceptor
  BY <1>1, <1>2, <1>4, <1>5, <1>6 DEF HandOK
<1>8. \A c \in Clients : c > accepted' => given'[c] = Acceptor
  BY <1>1, <1>5 DEF HandOK, Clients
<1>9. QED
  BY <1>1, <1>2, <1>3, <1>4, <1>7, <1>8 DEF HandOK

LEMMA HandInit == Init => HandOK
<1> SUFFICES ASSUME Init PROVE HandOK
  OBVIOUS
<1>1. choice \in [min : Servers, n : 2..(NServers + 1), unread : SUBSET Sizes,
                  sum : [min : Nat, other : Nat]]
  BY ServerNumbers DEF Init, NoChoice, Servers, Sizes
<1>2. QED
  BY <1>1, ServerNumbers DEF Init, HandOK, InHandNow

LEMMA HandStep ==
  ASSUME ThreadsOK, HandOK, ServersOK, [Next]_vars
  PROVE  HandOK'
<1> USE ServerNumbers
<1>1. CASE UNCHANGED vars
  BY <1>1, HandKept DEF vars, HandOK
<1>2. ASSUME NEW t \in Threads, NEW from \in AcceptorPc \cup WorkerPc,
             NEW to \in AcceptorPc \cup WorkerPc, Quiet(t, from, to)
      PROVE  HandOK'
  <2>1. CASE t \in Servers
    <3>1. pc'[Acceptor] = pc[Acceptor] /\ UNCHANGED <<acceptVars, open, given>>
      BY <1>2, <2>1 DEF Quiet, Goes, ThreadsOK
    <3>2. QED
      BY <3>1, HandKept DEF HandOK
  <2>2. CASE t = Acceptor
    <3>1. ~InHandNow /\ ~InHandNow' /\ pc'[Acceptor] # "choose"
          /\ UNCHANGED <<accepted, choice, open, given>>
      BY <1>2, <2>2 DEF Quiet, Goes, ThreadsOK, InHandNow, acceptVars
    <3>2. QED
      BY <3>1 DEF HandOK
  <2>3. QED
    BY <2>1, <2>2
<1>3. CASE Exit(Acceptor, "ended")
  <2>1. ~InHandNow /\ ~InHandNow' /\ pc'[Acceptor] # "choose"
        /\ UNCHANGED <<accepted, choice, open, given>>
    BY <1>3 DEF Exit, Goes, ThreadsOK, InHandNow, acceptVars
  <2>2. QED
    BY <2>1 DEF HandOK
<1>4. ASSUME NEW s \in Servers, Exit(s, "clean") PROVE HandOK'
  <2>1. pc'[Acceptor] = pc[Acceptor] /\ UNCHANGED <<acceptVars, open, given>>
    BY <1>4 DEF Exit, Goes, ThreadsOK
  <2>2. QED
    BY <2>1, HandKept DEF HandOK
<1>5. CASE Accept
  BY <1>5, HandAccept
<1>6. CASE AcceptRefused
  <2>1. /\ accepted < MaxAccepts /\ accepted' = accepted + 1
        /\ ~InHandNow /\ ~InHandNow' /\ pc'[Acceptor] # "choose"
        /\ UNCHANGED <<choice, open, given>>
    BY <1>6 DEF AcceptRefused, Goes, ThreadsOK, InHandNow
  <2>2. accepted' \in 0..MaxAccepts /\ open' \subseteq 1..accepted'
    BY <2>1 DEF HandOK
  <2>3. QED
    BY <2>1, <2>2 DEF HandOK, Clients
<1>7. CASE Chooses
  BY <1>7, HandChooses
<1>8. CASE AddClient
  BY <1>8, HandAddClient
<1>9. ASSUME NEW s \in Servers, LockBuf(s) \/ JoinClient(s) \/ OnNetJoin(s) \/ JoinEnds(s)
      PROVE  HandOK'
  <2>1. pc'[Acceptor] = pc[Acceptor] /\ UNCHANGED <<acceptVars, open, given>>
    BY <1>9 DEF LockBuf, JoinClient, OnNetJoin, JoinEnds, Goes, ThreadsOK
  <2>2. QED
    BY <2>1, HandKept DEF HandOK
<1>10. ASSUME NEW s \in Servers, OrphanLeaves(s) \/ EraseClient(s) \/ ClearBuf(s) PROVE HandOK'
  <2>1. pc'[Acceptor] = pc[Acceptor] /\ UNCHANGED <<acceptVars, open, given>>
    BY <1>10 DEF OrphanLeaves, EraseClient, ClearBuf, Goes, ThreadsOK
  <2>2. QED
    BY <2>1, HandKept DEF HandOK
<1>11. ASSUME NEW s \in Servers, Closes(s) \/ CleanClients(s) PROVE HandOK'
  <2>1. pc'[Acceptor] = pc[Acceptor] /\ UNCHANGED <<acceptVars, given>>
    BY <1>11 DEF Closes, CleanClients, Goes, ThreadsOK
  <2>2. /\ open' \subseteq open
        /\ \A c \in open : c \in open' \/ c \in Range(clients[s]) \/ c \in Range(clientsBuf[s])
    BY <1>11 DEF Closes, CleanClients
  <2>3. InHandNow => accepted \in open'
    BY <2>2, ListedClients DEF HandOK
  <2>4. QED
    BY <2>1, <2>2, <2>3, HandKept
<1>12. CASE Owner
  <2>1. UNCHANGED <<pc, acceptVars, open, given>>
    BY <1>12 DEF Owner, CloseCall, CloseStop, CloseReturns
  <2>2. QED
    BY <2>1, HandKept DEF HandOK
<1>13. QED
  BY <1>1, <1>2, <1>3, <1>4, <1>5, <1>6, <1>7, <1>8, <1>9, <1>10, <1>11, <1>12, NextCases, LeavesCloses

-----------------------------------------------------------------------------
(* The lists of one server.                                                *)

\* A sequence without its i-th element.
LEMMA RemoveAtFacts ==
  ASSUME NEW S, NEW list \in Seq(S), NEW i \in 1..Len(list)
  PROVE  /\ RemoveAt(list, i) \in Seq(S)
         /\ Len(RemoveAt(list, i)) = Len(list) - 1
         /\ \A j \in 1..(Len(list) - 1) : /\ j < i => RemoveAt(list, i)[j] = list[j]
                                          /\ j >= i => RemoveAt(list, i)[j] = list[j + 1]
<1> DEFINE a == SubSeq(list, 1, i - 1)  b == SubSeq(list, i + 1, Len(list))
<1>1. a \in Seq(S) /\ Len(a) = i - 1 /\ \A j \in 1..(i - 1) : a[j] = list[j]
  BY SubSeqProperties, Z3
<1>2. b \in Seq(S) /\ Len(b) = Len(list) - i /\ \A j \in 1..(Len(list) - i) : b[j] = list[i + j]
  BY SubSeqProperties, Z3
<1> HIDE DEF a, b
<1>3. Len(list) \in Nat /\ i \in Nat /\ i >= 1 /\ i <= Len(list)
  OBVIOUS
<1>4. a \o b \in Seq(S) /\ Len(a \o b) = Len(list) - 1
  <2>1. a \o b \in Seq(S) /\ Len(a \o b) = Len(a) + Len(b)
    BY <1>1, <1>2, ConcatProperties, Zenon
  <2>2. QED
    BY <2>1, <1>1, <1>2, <1>3
<1>5. ASSUME NEW j \in 1..(Len(list) - 1), j < i PROVE (a \o b)[j] = list[j]
  BY <1>1, <1>2, <1>3, <1>5
<1>6. ASSUME NEW j \in 1..(Len(list) - 1), j >= i PROVE (a \o b)[j] = list[j + 1]
  <2>1. (a \o b)[j] = b[j - (i - 1)]
    BY <1>1, <1>2, <1>3, <1>6
  <2>2. j - (i - 1) \in 1..(Len(list) - i) /\ i + (j - (i - 1)) = j + 1
    BY <1>3, <1>6
  <2>3. b[j - (i - 1)] = list[i + (j - (i - 1))]
    BY <1>2, <2>2
  <2>4. QED
    BY <2>1, <2>2, <2>3
<1>7. QED
  BY <1>4, <1>5, <1>6 DEF RemoveAt, a, b

\* What happens to clients of other servers, or moves the thread only.
LEMMA ListsKept ==
  ASSUME NEW s \in Servers, NEW at, NEW at2, NEW buf, NEW list, NEW n,
         NEW op, NEW op2, NEW gv, NEW gv2, NEW ex, NEW ex2,
         ListsOK(s, at, buf, list, n, op, gv, ex),
         at2 = at \/ (at \in Workings /\ at2 \in Workings), ex \subseteq ex2,
         op \subseteq Clients, op2 \subseteq Clients,
         \A c \in Clients : gv2[c] = s <=> gv[c] = s,
         \A c \in Clients : gv[c] = s => (c \in op2 <=> c \in op)
  PROVE  ListsOK(s, at2, buf, list, n, op2, gv2, ex2)
<1>1. /\ buf \in Seq(Clients) /\ list \in Seq(Clients) /\ n \in 0..Len(buf)
      /\ IsInjective(buf) /\ IsInjective(list)
      /\ \A i \in 1..Len(buf) : gv[buf[i]] = s
      /\ \A j \in 1..Len(list) : gv[list[j]] = s
      /\ \A i \in (n + 1)..Len(buf), j \in 1..Len(list) : buf[i] # list[j]
  BY DEF ListsOK
<1>2. /\ \A i \in 1..Len(buf) : gv2[buf[i]] = s /\ (buf[i] \in op2 <=> buf[i] \in op)
      /\ \A j \in 1..Len(list) : gv2[list[j]] = s /\ (list[j] \in op2 <=> list[j] \in op)
  BY <1>1
<1>3. /\ at2 \notin {"join", "count"} => n = 0
      /\ at2 = "count" => Len(list) >= 1
      /\ at2 \in {"clear", "ended"} => list = <<>>
      /\ at2 = "ended" /\ s \notin ex2 => buf = <<>>
  BY DEF ListsOK, Workings
<1>4. /\ at2 # "clear" => \A i \in (n + 1)..Len(buf) : buf[i] \in op2
      /\ at2 = "clear" /\ s \notin ex2 => \A i \in 1..Len(buf) : buf[i] \notin op2
  BY <1>1, <1>2 DEF ListsOK, Workings
<1>5. at2 # "leave" => \A j \in 1..Len(list) : list[j] \in op2
  BY <1>2 DEF ListsOK, Workings
<1>6. at2 = "leave" => \E j \in 1..Len(list) :
                         \A k \in 1..Len(list) : list[k] \in op2 <=> k # j
  BY <1>2 DEF ListsOK, Workings
<1>7. \A c \in op2 : gv2[c] = s => \/ s \in ex2
                                   \/ \E i \in (n + 1)..Len(buf) : buf[i] = c
                                   \/ \E j \in 1..Len(list) : list[j] = c
  BY DEF ListsOK
<1>8. QED
  BY <1>1, <1>2, <1>3, <1>4, <1>5, <1>6, <1>7 DEF ListsOK

LEMMA ListsLock ==
  ASSUME NEW s, NEW buf, NEW list, NEW n, NEW op, NEW gv, NEW ex,
         ListsOK(s, "lock", buf, list, n, op, gv, ex)
  PROVE  ListsOK(s, "join", buf, list, 0, op, gv, ex)
<1>1. n = 0
  BY DEF ListsOK
<1>2. QED
  BY <1>1 DEF ListsOK

LEMMA ListsCount ==
  ASSUME NEW s, NEW buf, NEW list, NEW n, NEW op, NEW gv, NEW ex,
         ListsOK(s, "count", buf, list, n, op, gv, ex)
  PROVE  ListsOK(s, "join", buf, list, n, op, gv, ex)
BY DEF ListsOK

LEMMA ListsJoin ==
  ASSUME NEW s, NEW buf, NEW list, NEW n, NEW op, NEW gv, NEW ex,
         ListsOK(s, "join", buf, list, n, op, gv, ex), n < Len(buf)
  PROVE  ListsOK(s, "count", buf, Append(list, buf[n + 1]), n + 1, op, gv, ex)
<1> DEFINE c == buf[n + 1]  new == Append(list, c)
<1>1. /\ buf \in Seq(Clients) /\ list \in Seq(Clients) /\ n \in 0..Len(buf)
      /\ IsInjective(buf) /\ IsInjective(list)
      /\ \A i \in 1..Len(buf) : gv[buf[i]] = s
      /\ \A j \in 1..Len(list) : gv[list[j]] = s /\ list[j] \in op
      /\ \A i \in (n + 1)..Len(buf) : buf[i] \in op
      /\ \A i \in (n + 1)..Len(buf), j \in 1..Len(list) : buf[i] # list[j]
  BY DEF ListsOK
<1>2. /\ c \in Clients /\ gv[c] = s /\ c \in op
      /\ \A j \in 1..Len(list) : list[j] # c
      /\ \A i \in ((n + 1) + 1)..Len(buf) : buf[i] # c
  BY <1>1 DEF IsInjective
<1>3. n + 1 \in 0..Len(buf)
  BY <1>1
<1> HIDE DEF c
<1>4. /\ new \in Seq(Clients) /\ Len(new) = Len(list) + 1
      /\ new[Len(list) + 1] = c /\ \A j \in 1..Len(list) : new[j] = list[j]
  BY <1>1, <1>2
<1> HIDE DEF new
<1>5. IsInjective(new)
  BY <1>1, <1>2, <1>4 DEF IsInjective
<1>6. \A j \in 1..Len(new) : gv[new[j]] = s /\ new[j] \in op
  BY <1>1, <1>2, <1>4
<1>7. \A i \in ((n + 1) + 1)..Len(buf), j \in 1..Len(new) : buf[i] # new[j]
  BY <1>1, <1>2, <1>4
<1>8. \A i \in ((n + 1) + 1)..Len(buf) : buf[i] \in op
  BY <1>1
<1>9. \A d \in op : gv[d] = s => \/ s \in ex
                                 \/ \E i \in ((n + 1) + 1)..Len(buf) : buf[i] = d
                                 \/ \E j \in 1..Len(new) : new[j] = d
  <2> SUFFICES ASSUME NEW d \in op, gv[d] = s, s \notin ex
               PROVE  \/ \E i \in ((n + 1) + 1)..Len(buf) : buf[i] = d
                      \/ \E j \in 1..Len(new) : new[j] = d
    OBVIOUS
  <2>1. CASE \E j \in 1..Len(list) : list[j] = d
    BY <2>1, <1>1, <1>4
  <2>2. CASE \E i \in (n + 1)..Len(buf) : buf[i] = d
    <3>1. PICK i \in (n + 1)..Len(buf) : buf[i] = d
      BY <2>2
    <3>2. CASE i = n + 1
      BY <3>1, <3>2, <1>1, <1>4 DEF c
    <3>3. CASE i # n + 1
      BY <3>1, <3>3, <1>1
    <3>4. QED
      BY <3>2, <3>3
  <2>3. QED
    BY <2>1, <2>2 DEF ListsOK
<1>10. ListsOK(s, "count", buf, new, n + 1, op, gv, ex)
  <2>1. Len(new) >= 1
    BY <1>1, <1>4
  <2>2. QED
    BY <2>1, <1>1, <1>3, <1>4, <1>5, <1>6, <1>7, <1>8, <1>9 DEF ListsOK
<1>11. QED
  BY <1>10 DEF new, c

LEMMA ListsJoinEnds ==
  ASSUME NEW s, NEW buf, NEW list, NEW n, NEW op, NEW gv, NEW ex,
         ListsOK(s, "join", buf, list, n, op, gv, ex), n = Len(buf)
  PROVE  ListsOK(s, "work", <<>>, list, 0, op, gv, ex)
<1>1. IsInjective(<<>>)
  BY DEF IsInjective
<1>2. buf \in Seq(Clients) /\ (n + 1)..Len(buf) = {}
  BY DEF ListsOK
<1>3. \A c \in op : gv[c] = s => s \in ex \/ \E j \in 1..Len(list) : list[j] = c
  BY <1>2 DEF ListsOK
<1>4. QED
  BY <1>1, <1>3 DEF ListsOK

LEMMA ListsLeave ==
  ASSUME NEW s, NEW buf, NEW list, NEW n, NEW op, NEW gv, NEW ex,
         ListsOK(s, "work", buf, list, n, op, gv, ex), NEW c \in Range(list)
  PROVE  ListsOK(s, "leave", buf, list, n, op \ {c}, gv, ex)
<1>1. /\ buf \in Seq(Clients) /\ list \in Seq(Clients) /\ n = 0
      /\ IsInjective(buf) /\ IsInjective(list)
      /\ \A i \in 1..Len(buf) : gv[buf[i]] = s
      /\ \A j \in 1..Len(list) : gv[list[j]] = s /\ list[j] \in op
      /\ \A i \in (n + 1)..Len(buf) : buf[i] \in op
      /\ \A i \in (n + 1)..Len(buf), j \in 1..Len(list) : buf[i] # list[j]
  BY DEF ListsOK
<1>2. PICK j \in 1..Len(list) : c = list[j]
  BY <1>1 DEF Range
<1>3. \A k \in 1..Len(list) : list[k] \in op \ {c} <=> k # j
  BY <1>1, <1>2 DEF IsInjective
<1>4. \A i \in (n + 1)..Len(buf) : buf[i] \in op \ {c}
  BY <1>1, <1>2
<1>5. \A d \in op \ {c} : gv[d] = s => \/ s \in ex
                                       \/ \E i \in (n + 1)..Len(buf) : buf[i] = d
                                       \/ \E k \in 1..Len(list) : list[k] = d
  BY DEF ListsOK
<1>6. QED
  BY <1>1, <1>3, <1>4, <1>5 DEF ListsOK

LEMMA ListsErase ==
  ASSUME NEW s, NEW buf, NEW list, NEW n, NEW op, NEW gv, NEW ex,
         ListsOK(s, "leave", buf, list, n, op, gv, ex),
         NEW i \in DOMAIN list, list[i] \notin op
  PROVE  /\ ListsOK(s, "work", buf, RemoveAt(list, i), n, op, gv, ex)
         /\ Range(RemoveAt(list, i)) = {d \in Range(list) : d \in op}
<1> DEFINE new == RemoveAt(list, i)
<1>1. /\ buf \in Seq(Clients) /\ list \in Seq(Clients) /\ n = 0
      /\ IsInjective(buf) /\ IsInjective(list)
      /\ \A k \in 1..Len(buf) : gv[buf[k]] = s
      /\ \A j \in 1..Len(list) : gv[list[j]] = s
      /\ \A k \in (n + 1)..Len(buf) : buf[k] \in op
      /\ \A k \in (n + 1)..Len(buf), j \in 1..Len(list) : buf[k] # list[j]
  BY DEF ListsOK
<1>2. i \in 1..Len(list) /\ \A k \in 1..Len(list) : list[k] \in op <=> k # i
  BY <1>1 DEF ListsOK
<1>3. /\ new \in Seq(Clients) /\ Len(new) = Len(list) - 1
      /\ \A j \in 1..(Len(list) - 1) : /\ j < i => new[j] = list[j]
                                       /\ j >= i => new[j] = list[j + 1]
  BY <1>1, <1>2, RemoveAtFacts
<1> HIDE DEF new
<1>4. ASSUME NEW j \in 1..Len(new)
      PROVE  \E k \in 1..Len(list) : k # i /\ new[j] = list[k] /\ k = IF j < i THEN j ELSE j + 1
  <2>1. CASE j < i
    <3>1. j \in 1..Len(list) /\ j # i /\ new[j] = list[j]
      BY <2>1, <1>1, <1>2, <1>3
    <3>2. QED
      BY <3>1, <2>1
  <2>2. CASE j >= i
    <3>1. j + 1 \in 1..Len(list) /\ j + 1 # i /\ new[j] = list[j + 1] /\ ~(j < i)
      BY <2>2, <1>1, <1>2, <1>3
    <3>2. QED
      BY <3>1
  <2>3. QED
    BY <2>1, <2>2, <1>2, <1>3
<1>5. \A k \in 1..Len(list) : k # i => \E j \in 1..Len(new) : new[j] = list[k]
  <2> SUFFICES ASSUME NEW k \in 1..Len(list), k # i PROVE \E j \in 1..Len(new) : new[j] = list[k]
    OBVIOUS
  <2>1. CASE k < i
    <3>1. k \in 1..Len(new) /\ new[k] = list[k]
      BY <2>1, <1>1, <1>2, <1>3
    <3>2. QED
      BY <3>1
  <2>2. CASE k > i
    <3>1. k - 1 \in 1..Len(new) /\ new[k - 1] = list[k]
      BY <2>2, <1>1, <1>2, <1>3
    <3>2. QED
      BY <3>1
  <2>3. QED
    BY <2>1, <2>2, <1>2
<1>6. IsInjective(new)
  <2>1. ASSUME NEW a \in 1..Len(new), NEW b \in 1..Len(new), new[a] = new[b] PROVE a = b
    <3>1. PICK k \in 1..Len(list) : new[a] = list[k] /\ k = IF a < i THEN a ELSE a + 1
      BY <1>4
    <3>2. PICK l \in 1..Len(list) : new[b] = list[l] /\ l = IF b < i THEN b ELSE b + 1
      BY <1>4
    <3>3. k = l
      <4>1. \A x, y \in 1..Len(list) : list[x] = list[y] => x = y
        BY <1>1 DEF IsInjective
      <4>2. list[k] = list[l]
        BY <2>1, <3>1, <3>2
      <4>3. QED
        BY <4>1, <4>2
    <3>4. QED
      BY <3>1, <3>2, <3>3, <1>2
  <2>2. QED
    BY <2>1, <1>3 DEF IsInjective
<1>7. \A j \in 1..Len(new) : gv[new[j]] = s /\ new[j] \in op
  BY <1>1, <1>2, <1>4
<1>8. \A k \in (n + 1)..Len(buf), j \in 1..Len(new) : buf[k] # new[j]
  BY <1>1, <1>4
<1>9. \A d \in op : gv[d] = s => \/ s \in ex
                                 \/ \E k \in (n + 1)..Len(buf) : buf[k] = d
                                 \/ \E j \in 1..Len(new) : new[j] = d
  <2> SUFFICES ASSUME NEW d \in op, gv[d] = s, s \notin ex, NEW k \in 1..Len(list), list[k] = d
               PROVE  \E j \in 1..Len(new) : new[j] = d
    BY DEF ListsOK
  <2>1. k # i
    BY <1>2
  <2>2. QED
    BY <2>1, <1>5
<1>10. ListsOK(s, "work", buf, new, n, op, gv, ex)
  BY <1>1, <1>3, <1>6, <1>7, <1>8, <1>9 DEF ListsOK
<1>11. Range(new) = {d \in Range(list) : d \in op}
  <2>1. DOMAIN new = 1..Len(new) /\ DOMAIN list = 1..Len(list)
    BY <1>1, <1>3
  <2>2. \A d \in Range(new) : d \in Range(list) /\ d \in op
    BY <2>1, <1>2, <1>4 DEF Range
  <2>3. \A d \in Range(list) : d \in op => d \in Range(new)
    BY <2>1, <1>2, <1>5 DEF Range
  <2>4. QED
    BY <2>2, <2>3
<1>12. QED
  BY <1>10, <1>11 DEF new

LEMMA ListsClean ==
  ASSUME NEW s, NEW buf, NEW list, NEW n, NEW op, NEW gv, NEW ex,
         ListsOK(s, "clean", buf, list, n, op, gv, ex)
  PROVE  ListsOK(s, "clear", buf, <<>>, n, op \ (Range(list) \cup Range(buf)), gv, ex)
<1> DEFINE op2 == op \ (Range(list) \cup Range(buf))
<1>1. /\ buf \in Seq(Clients) /\ list \in Seq(Clients) /\ n = 0
      /\ IsInjective(buf) /\ \A k \in 1..Len(buf) : gv[buf[k]] = s
  BY DEF ListsOK
<1>2. IsInjective(<<>>)
  BY DEF IsInjective
<1>3. DOMAIN buf = 1..Len(buf) /\ DOMAIN list = 1..Len(list)
  BY <1>1
<1>4. \A k \in 1..Len(buf) : buf[k] \notin op2
  BY <1>3 DEF Range
<1>5. \A d \in op2 : gv[d] = s => s \in ex
  BY <1>1, <1>3 DEF ListsOK, Range
<1>6. QED
  BY <1>1, <1>2, <1>4, <1>5 DEF ListsOK

LEMMA ListsClear ==
  ASSUME NEW s, NEW buf, NEW list, NEW n, NEW op, NEW gv, NEW ex,
         ListsOK(s, "clear", buf, list, n, op, gv, ex)
  PROVE  ListsOK(s, "ended", <<>>, list, n, op, gv, ex)
<1>1. IsInjective(<<>>)
  BY DEF IsInjective
<1>2. buf \in Seq(Clients) /\ list = <<>> /\ n = 0 /\ list \in Seq(Clients)
  BY DEF ListsOK
<1>3. \A d \in op : gv[d] = s => s \in ex
  BY <1>2 DEF ListsOK
<1>4. QED
  BY <1>1, <1>2, <1>3 DEF ListsOK

\* AddClient: the thread does not hold the lock.
LEMMA ListsAdd ==
  ASSUME NEW s, NEW at, NEW buf, NEW list, NEW n, NEW op, NEW gv, NEW gv2, NEW ex,
         ListsOK(s, at, buf, list, n, op, gv, ex), NEW c \in Clients,
         at \notin {"join", "count"}, at \in {"clear", "ended"} => s \in ex,
         c \in op, op \subseteq Clients, gv[c] # s, gv2[c] = s,
         \A d \in Clients : d # c => gv2[d] = gv[d]
  PROVE  ListsOK(s, at, Append(buf, c), list, n, op, gv2, ex)
<1> DEFINE new == Append(buf, c)
<1>1. /\ buf \in Seq(Clients) /\ list \in Seq(Clients) /\ n = 0
      /\ IsInjective(buf) /\ IsInjective(list)
      /\ \A i \in 1..Len(buf) : gv[buf[i]] = s
      /\ \A j \in 1..Len(list) : gv[list[j]] = s
      /\ \A i \in 1..Len(buf), j \in 1..Len(list) : buf[i] # list[j]
      /\ at # "clear" => \A i \in 1..Len(buf) : buf[i] \in op
  BY DEF ListsOK
<1>2. /\ new \in Seq(Clients) /\ Len(new) = Len(buf) + 1
      /\ new[Len(buf) + 1] = c /\ \A i \in 1..Len(buf) : new[i] = buf[i]
  BY <1>1
<1> HIDE DEF new
<1>3. /\ \A i \in 1..Len(buf) : buf[i] # c /\ buf[i] \in Clients
      /\ \A j \in 1..Len(list) : list[j] # c /\ list[j] \in Clients
  BY <1>1
<1>4. /\ \A i \in 1..Len(new) : gv2[new[i]] = s
      /\ \A j \in 1..Len(list) : gv2[list[j]] = s
  BY <1>1, <1>2, <1>3
<1>5. IsInjective(new)
  BY <1>1, <1>2, <1>3 DEF IsInjective
<1>6. \A i \in 1..Len(new), j \in 1..Len(list) : new[i] # list[j]
  BY <1>1, <1>2, <1>3
<1>7. at # "clear" => \A i \in 1..Len(new) : new[i] \in op
  BY <1>1, <1>2
<1>8. \A d \in op : gv2[d] = s => \/ s \in ex
                                  \/ \E i \in 1..Len(new) : new[i] = d
                                  \/ \E j \in 1..Len(list) : list[j] = d
  <2> SUFFICES ASSUME NEW d \in op, gv2[d] = s, s \notin ex
               PROVE  \/ \E i \in 1..Len(new) : new[i] = d
                      \/ \E j \in 1..Len(list) : list[j] = d
    OBVIOUS
  <2>1. CASE d = c
    BY <2>1, <1>1, <1>2
  <2>2. CASE d # c
    <3>1. gv[d] = s
      BY <2>2
    <3>2. \/ \E i \in 1..Len(buf) : buf[i] = d
          \/ \E j \in 1..Len(list) : list[j] = d
      BY <3>1, <1>1 DEF ListsOK
    <3>3. QED
      BY <3>2, <1>1, <1>2
  <2>3. QED
    BY <2>1, <2>2
<1>9. /\ at = "leave" => \E j \in 1..Len(list) :
                           \A k \in 1..Len(list) : list[k] \in op <=> k # j
      /\ at # "leave" => \A j \in 1..Len(list) : list[j] \in op
      /\ at \in {"clear", "ended"} => list = <<>>
  BY DEF ListsOK
<1>10. ListsOK(s, at, new, list, n, op, gv2, ex)
  BY <1>1, <1>2, <1>4, <1>5, <1>6, <1>7, <1>8, <1>9 DEF ListsOK
<1>11. QED
  BY <1>10 DEF new

-----------------------------------------------------------------------------
(* The lists of all the servers.                                           *)

ListTypes ==
  /\ clientsBuf \in [Servers -> Seq(Clients)]
  /\ clients \in [Servers -> Seq(Clients)]
  /\ joined \in [Servers -> Nat]

LEMMA OpenClients == ASSUME HandOK PROVE open \subseteq Clients
BY ServerNumbers DEF HandOK, Clients

\* A step that changes no list.
LEMMA ServersKept ==
  ASSUME HandOK, ServersOK, UNCHANGED listVars, exited \subseteq exited', open' \subseteq Clients,
         \A s \in Servers : pc'[s] = pc[s] \/ (pc[s] \in Workings /\ pc'[s] \in Workings),
         \A s \in Servers, c \in Clients :
           given'[c] = given[c] /\ (given[c] = s => (c \in open' <=> c \in open))
  PROVE  ServersOK'
<1>1. open \subseteq Clients
  BY OpenClients
<1>2. ASSUME NEW s \in Servers PROVE Lists(s)'
  <2>1. ListsOK(s, pc[s], clientsBuf[s], clients[s], joined[s], open, given, exited)
    BY DEF ServersOK, Lists
  <2>2. ListsOK(s, pc'[s], clientsBuf[s], clients[s], joined[s], open', given', exited')
    BY <1>1, <2>1, ListsKept
  <2>3. QED
    BY <2>2 DEF Lists, listVars
<1>3. ListTypes'
  BY DEF ServersOK, ListTypes, listVars
<1>4. QED
  BY <1>2, <1>3 DEF ServersOK, ListTypes

\* A step of one server, or for one server.
LEMMA ServersFrame ==
  ASSUME HandOK, ServersOK, NEW s \in Servers, Lists(s)', ListTypes',
         \A r \in Servers \ {s} : /\ pc'[r] = pc[r] /\ clientsBuf'[r] = clientsBuf[r]
                                  /\ clients'[r] = clients[r] /\ joined'[r] = joined[r],
         exited' = exited, open' \subseteq Clients,
         \A r \in Servers \ {s}, c \in Clients :
           (given'[c] = r <=> given[c] = r) /\ (given[c] = r => (c \in open' <=> c \in open))
  PROVE  ServersOK'
<1>1. open \subseteq Clients
  BY OpenClients
<1>2. ASSUME NEW r \in Servers \ {s} PROVE Lists(r)'
  <2>1. ListsOK(r, pc[r], clientsBuf[r], clients[r], joined[r], open, given, exited)
    BY DEF ServersOK, Lists
  <2>2. ListsOK(r, pc[r], clientsBuf[r], clients[r], joined[r], open', given', exited')
    BY <1>1, <2>1, ListsKept
  <2>3. QED
    BY <2>2 DEF Lists
<1>3. QED
  BY <1>2 DEF ServersOK, ListTypes

LEMMA ServersInit == Init => ServersOK
<1> SUFFICES ASSUME Init PROVE ServersOK
  OBVIOUS
<1>1. IsInjective(<<>>)
  BY DEF IsInjective
<1>2. ASSUME NEW s \in Servers PROVE Lists(s)
  <2>1. ListsOK(s, "loop", <<>>, <<>>, 0, {}, given, {})
    BY <1>1 DEF ListsOK
  <2>2. QED
    BY <2>1, ServerNumbers DEF Init, Lists
<1>3. QED
  BY <1>2 DEF Init, ServersOK

\* The worker's loop over _clientsBuf.
LEMMA ServersJoin ==
  ASSUME ThreadsOK, HandOK, ServersOK, NEW s \in Servers,
         LockBuf(s) \/ JoinClient(s) \/ OnNetJoin(s) \/ JoinEnds(s)
  PROVE  ServersOK'
<1>1. /\ UNCHANGED <<open, given, exited>> /\ open \subseteq Clients
      /\ ListTypes /\ pc \in [Threads -> AcceptorPc \cup WorkerPc] /\ s \in Threads
  BY OpenClients, ServerNumbers DEF LockBuf, JoinClient, OnNetJoin, JoinEnds, ThreadsOK,
                       ServersOK, ListTypes
<1>2. ListsOK(s, pc[s], clientsBuf[s], clients[s], joined[s], open, given, exited)
  BY DEF ServersOK, Lists
<1>3. \A r \in Servers \ {s} : pc'[r] = pc[r]
  BY <1>1, ServerNumbers DEF LockBuf, JoinClient, OnNetJoin, JoinEnds, Goes
<1>4. CASE LockBuf(s)
  <2>1. /\ pc[s] = "lock" /\ pc'[s] = "join" /\ joined' = [joined EXCEPT ![s] = 0]
        /\ UNCHANGED <<clientsBuf, clients>>
    BY <1>1, <1>4 DEF LockBuf, Goes
  <2>2. ListsOK(s, "join", clientsBuf[s], clients[s], 0, open, given, exited)
    BY <1>2, <2>1, ListsLock
  <2>3. Lists(s)' /\ ListTypes'
    BY <1>1, <2>1, <2>2 DEF Lists, ListTypes
  <2>4. QED
    BY <1>1, <1>3, <2>1, <2>3, ServersFrame DEF ListTypes
<1>5. CASE JoinClient(s)
  <2> DEFINE c == clientsBuf[s][joined[s] + 1]
  <2>1. /\ pc[s] = "join" /\ pc'[s] = "count" /\ joined' = [joined EXCEPT ![s] = joined[s] + 1]
        /\ joined[s] < Len(clientsBuf[s])
        /\ clients' = [clients EXCEPT ![s] = Append(clients[s], c)]
        /\ UNCHANGED clientsBuf
    BY <1>1, <1>5 DEF JoinClient, Goes
  <2>2. ListsOK(s, "count", clientsBuf[s], Append(clients[s], c), joined[s] + 1, open, given, exited)
    BY <1>2, <2>1, ListsJoin
  <2>3. Append(clients[s], c) \in Seq(Clients)
    BY <2>2 DEF ListsOK
  <2> HIDE DEF c
  <2>4. Lists(s)' /\ ListTypes'
    BY <1>1, <2>1, <2>2, <2>3 DEF Lists, ListTypes
  <2>5. QED
    BY <1>1, <1>3, <2>1, <2>4, ServersFrame DEF ListTypes
<1>6. CASE OnNetJoin(s)
  <2>1. pc[s] = "count" /\ pc'[s] = "join" /\ UNCHANGED <<clientsBuf, clients, joined>>
    BY <1>1, <1>6 DEF OnNetJoin, Goes, listVars
  <2>2. ListsOK(s, "join", clientsBuf[s], clients[s], joined[s], open, given, exited)
    BY <1>2, <2>1, ListsCount
  <2>3. Lists(s)' /\ ListTypes'
    BY <1>1, <2>1, <2>2 DEF Lists, ListTypes
  <2>4. QED
    BY <1>1, <1>3, <2>1, <2>3, ServersFrame
<1>7. CASE JoinEnds(s)
  <2>1. /\ pc[s] = "join" /\ pc'[s] = "work" /\ joined[s] = Len(clientsBuf[s])
        /\ clientsBuf' = [clientsBuf EXCEPT ![s] = <<>>]
        /\ joined' = [joined EXCEPT ![s] = 0] /\ UNCHANGED clients
    BY <1>1, <1>7 DEF JoinEnds, Goes
  <2>2. ListsOK(s, "work", <<>>, clients[s], 0, open, given, exited)
    BY <1>2, <2>1, ListsJoinEnds
  <2>3. Lists(s)' /\ ListTypes'
    BY <1>1, <2>1, <2>2 DEF Lists, ListTypes
  <2>4. QED
    BY <1>1, <1>3, <2>1, <2>3, ServersFrame DEF ListTypes
<1>8. QED
  BY <1>4, <1>5, <1>6, <1>7

\* A client leaves, and CleanClients.
LEMMA ServersDelete ==
  ASSUME ThreadsOK, HandOK, ServersOK, NEW s \in Servers,
         Closes(s) \/ EraseClient(s) \/ CleanClients(s) \/ ClearBuf(s)
  PROVE  ServersOK'
<1>1. /\ UNCHANGED <<given, exited, joined>> /\ open' \subseteq Clients /\ open \subseteq Clients
      /\ ListTypes /\ pc \in [Threads -> AcceptorPc \cup WorkerPc] /\ s \in Threads
  BY OpenClients, ServerNumbers DEF Closes, EraseClient, CleanClients, ClearBuf, ThreadsOK,
                       ServersOK, ListTypes, listVars
<1>2. ListsOK(s, pc[s], clientsBuf[s], clients[s], joined[s], open, given, exited)
  BY DEF ServersOK, Lists
<1>3. \A r \in Servers \ {s} : pc'[r] = pc[r]
  BY <1>1, ServerNumbers DEF Closes, EraseClient, CleanClients, ClearBuf, Goes
<1>4. CASE Closes(s)
  <2>1. PICK c \in Range(clients[s]) : open' = open \ {c}
    BY <1>4 DEF Closes
  <2>2. pc[s] = "work" /\ pc'[s] = "leave" /\ UNCHANGED <<clientsBuf, clients>>
    BY <1>1, <1>4 DEF Closes, Goes, listVars
  <2>3. ListsOK(s, "leave", clientsBuf[s], clients[s], joined[s], open \ {c}, given, exited)
    BY <1>2, <2>2, ListsLeave
  <2>4. Lists(s)' /\ ListTypes'
    BY <1>1, <2>1, <2>2, <2>3 DEF Lists, ListTypes
  <2>5. \A r \in Servers \ {s}, d \in Clients : given[d] = r => (d \in open' <=> d \in open)
    BY <2>1, ListedClients
  <2>6. QED
    BY <1>1, <1>3, <2>2, <2>4, <2>5, ServersFrame
<1>5. CASE EraseClient(s)
  <2>1. PICK i \in DOMAIN clients[s] : /\ clients[s][i] \notin open
                                       /\ clients' = [clients EXCEPT ![s] = RemoveAt(clients[s], i)]
    BY <1>5 DEF EraseClient
  <2>2. pc[s] = "leave" /\ pc'[s] = "work" /\ UNCHANGED <<clientsBuf, open>>
    BY <1>1, <1>5 DEF EraseClient, Goes
  <2>3. ListsOK(s, "work", clientsBuf[s], RemoveAt(clients[s], i), joined[s], open, given, exited)
    BY <1>2, <2>1, <2>2, ListsErase
  <2>4. RemoveAt(clients[s], i) \in Seq(Clients)
    BY <2>3 DEF ListsOK
  <2>5. Lists(s)' /\ ListTypes'
    BY <1>1, <2>1, <2>2, <2>3, <2>4 DEF Lists, ListTypes
  <2>6. QED
    BY <1>1, <1>3, <2>1, <2>2, <2>5, ServersFrame DEF ListTypes
<1>6. CASE CleanClients(s)
  <2>1. /\ pc[s] = "clean" /\ pc'[s] = "clear" /\ UNCHANGED clientsBuf
        /\ clients' = [clients EXCEPT ![s] = <<>>]
        /\ open' = open \ (Range(clients[s]) \cup Range(clientsBuf[s]))
    BY <1>1, <1>6 DEF CleanClients, Goes
  <2>2. ListsOK(s, "clear", clientsBuf[s], <<>>, joined[s], open', given, exited)
    BY <1>2, <2>1, ListsClean
  <2>3. Lists(s)' /\ ListTypes'
    BY <1>1, <2>1, <2>2 DEF Lists, ListTypes
  <2>4. \A r \in Servers \ {s}, d \in Clients : given[d] = r => (d \in open' <=> d \in open)
    BY <2>1, ListedClients
  <2>5. QED
    BY <1>1, <1>3, <2>1, <2>3, <2>4, ServersFrame DEF ListTypes
<1>7. CASE ClearBuf(s)
  <2>1. /\ pc[s] = "clear" /\ pc'[s] = "ended" /\ UNCHANGED <<clients, open>>
        /\ clientsBuf' = [clientsBuf EXCEPT ![s] = <<>>]
    BY <1>1, <1>7 DEF ClearBuf, Goes
  <2>2. ListsOK(s, "ended", <<>>, clients[s], joined[s], open, given, exited)
    BY <1>2, <2>1, ListsClear
  <2>3. Lists(s)' /\ ListTypes'
    BY <1>1, <2>1, <2>2 DEF Lists, ListTypes
  <2>4. QED
    BY <1>1, <1>3, <2>1, <2>3, ServersFrame DEF ListTypes
<1>8. QED
  BY <1>4, <1>5, <1>6, <1>7

LEMMA ServersAddClient == ASSUME ThreadsOK, HandOK, ServersOK, AddClient PROVE ServersOK'
<1>0. PICK s \in Servers, c \in Clients : s = choice.min /\ c = accepted
  <2>1. choice.min \in Servers /\ accepted \in open
    BY DEF AddClient, Goes, HandOK, InHandNow
  <2>2. QED
    BY <2>1, OpenClients
<1>1. /\ pc[Acceptor] = "add" /\ pc' = [pc EXCEPT ![Acceptor] = "loop"]
      /\ clientsBuf' = [clientsBuf EXCEPT ![s] = Append(clientsBuf[s], c)]
      /\ given' = [given EXCEPT ![c] = s]
      /\ UNCHANGED <<clients, joined, open, exited>> /\ ~Locked(s)
  BY <1>0 DEF AddClient, Goes
<1>2. c \in open /\ given[c] = Acceptor /\ open \subseteq Clients
  BY <1>0, <1>1, OpenClients DEF HandOK, InHandNow
<1>3. ListsOK(s, pc[s], clientsBuf[s], clients[s], joined[s], open, given, exited) /\ ListTypes
  BY <1>2 DEF ServersOK, Lists, ListTypes
<1>4. pc[s] \in {"clear", "ended"} => s \in exited
  BY <1>1, <1>2, AcceptorEnded DEF Left
<1>5. /\ given'[c] = s /\ given[c] # s
      /\ \A d \in Clients : d # c => given'[d] = given[d]
  BY <1>1, <1>2, ServerNumbers DEF HandOK
<1>6. pc[s] \notin {"join", "count"}
  BY <1>1 DEF Locked
<1>7. ListsOK(s, pc[s], Append(clientsBuf[s], c), clients[s], joined[s], open, given', exited)
  BY <1>2, <1>3, <1>4, <1>5, <1>6, ListsAdd
<1>8. Append(clientsBuf[s], c) \in Seq(Clients)
  BY <1>7 DEF ListsOK
<1>9. \A r \in Servers : pc'[r] = pc[r]
  BY <1>1, ServerNumbers DEF ThreadsOK
<1>10. Lists(s)' /\ ListTypes'
  BY <1>1, <1>2, <1>3, <1>7, <1>8, <1>9 DEF Lists, ListTypes
<1>11. \A r \in Servers \ {s}, d \in Clients : given'[d] = r <=> given[d] = r
  BY <1>2, <1>5, ServerNumbers
<1>12. \A r \in Servers \ {s} : clientsBuf'[r] = clientsBuf[r]
  BY <1>1, <1>3 DEF ListTypes
<1>13. QED
  BY <1>1, <1>2, <1>9, <1>10, <1>11, <1>12, ServersFrame

LEMMA ServersStep ==
  ASSUME ThreadsOK, HandOK, ServersOK, [Next]_vars
  PROVE  ServersOK'
<1>0. open \subseteq Clients
  BY OpenClients
<1>1. CASE UNCHANGED vars
  BY <1>0, <1>1, ServersKept DEF vars
<1>2. ASSUME NEW t \in Threads, NEW from \in AcceptorPc \cup WorkerPc,
             NEW to \in AcceptorPc \cup WorkerPc, Quiet(t, from, to)
      PROVE  ServersOK'
  <2>1. \A s \in Servers : pc'[s] = pc[s] \/ (pc[s] \in Workings /\ pc'[s] \in Workings)
    BY <1>2, ServerNumbers DEF Quiet, Goes, ThreadsOK
  <2>2. UNCHANGED <<listVars, exited, open, given>>
    BY <1>2 DEF Quiet
  <2>3. QED
    BY <1>0, <2>1, <2>2, ServersKept
<1>3. ASSUME NEW t \in Threads, NEW last \in {"clean", "ended"}, Exit(t, last),
             last = "ended" => t = Acceptor
      PROVE  ServersOK'
  <2>1. \A s \in Servers : pc'[s] = pc[s] \/ (pc[s] \in Workings /\ pc'[s] \in Workings)
    BY <1>3, ServerNumbers DEF Exit, Goes, ThreadsOK, Workings
  <2>2. UNCHANGED <<listVars, open, given>> /\ exited \subseteq exited'
    BY <1>3 DEF Exit
  <2>3. QED
    BY <1>0, <2>1, <2>2, ServersKept
<1>4. CASE Accept \/ AcceptRefused \/ Chooses
  <2>1. \A s \in Servers : pc'[s] = pc[s]
    BY <1>4, ServerNumbers DEF Accept, AcceptRefused, Chooses, ReadSize, Compare, Goes, ThreadsOK
  <2>2. UNCHANGED <<listVars, given, exited>>
    BY <1>4 DEF Accept, AcceptRefused, Chooses
  <2>3. /\ open' \subseteq Clients
        /\ \A s \in Servers, c \in Clients : given[c] = s => (c \in open' <=> c \in open)
    <3>1. CASE Accept
      <4>1. /\ accepted + 1 \in Clients /\ given[accepted + 1] = Acceptor
            /\ open' = open \cup {accepted + 1}
        BY <3>1, ServerNumbers DEF Accept, HandOK, Clients
      <4>2. QED
        BY <4>1, <1>0, ServerNumbers
    <3>2. CASE AcceptRefused \/ Chooses
      BY <3>2, <1>0 DEF AcceptRefused, Chooses
    <3>3. QED
      BY <1>4, <3>1, <3>2
  <2>4. QED
    BY <2>1, <2>2, <2>3, ServersKept
<1>5. CASE AddClient
  BY <1>5, ServersAddClient
<1>6. CASE Owner
  BY <1>0, <1>6, ServersKept DEF Owner, CloseCall, CloseStop, CloseReturns
<1>7. ASSUME NEW s \in Servers, OrphanLeaves(s) PROVE ServersOK'
  <2>1. \A r \in Servers : pc'[r] = pc[r]
    BY <1>7, ServerNumbers DEF OrphanLeaves, Goes, ThreadsOK
  <2>2. UNCHANGED <<listVars, exited, open, given>>
    BY <1>7 DEF OrphanLeaves
  <2>3. QED
    BY <1>0, <2>1, <2>2, ServersKept
<1>8. QED
  BY <1>1, <1>2, <1>3, <1>4, <1>5, <1>6, <1>7, NextCases, LeavesCloses, ServersJoin, ServersDelete,
     ServerNumbers

-----------------------------------------------------------------------------
(* Who has been counted, and who is still to come, in the lists of one     *)
(* server.                                                                 *)

LEMMA CountsJoin ==
  ASSUME NEW s, NEW buf, NEW list, NEW n, NEW op, NEW gv, NEW ex,
         ListsOK(s, "join", buf, list, n, op, gv, ex), n < Len(buf), NEW d
  PROVE  /\ IsCounted("count", Append(list, buf[n + 1]), op, d) <=> IsCounted("join", list, op, d)
         /\ IsComing("count", buf, Append(list, buf[n + 1]), n + 1, d)
              <=> IsComing("join", buf, list, n, d)
<1> DEFINE c == buf[n + 1]  new == Append(list, c)
<1>1. list \in Seq(Clients) /\ buf \in Seq(Clients) /\ n \in 0..Len(buf)
  BY DEF ListsOK
<1>2. c \in Clients
  BY <1>1
<1>3. /\ Len(new) = Len(list) + 1 /\ Len(list) \in Nat
      /\ new[Len(list) + 1] = c /\ \A j \in 1..Len(list) : new[j] = list[j]
  BY <1>1, <1>2
<1> HIDE DEF new
<1>4. IsCounted("count", new, op, d) <=> IsCounted("join", list, op, d)
  <2>1. Full("count", new) = Len(list) /\ Full("join", list) = Len(list)
    BY <1>3 DEF Full
  <2>2. QED
    BY <2>1, <1>3 DEF IsCounted
<1>5. IsComing("count", buf, new, n + 1, d) <=> IsComing("join", buf, list, n, d)
  <2>1. \A i \in (n + 1)..Len(buf) : i = n + 1 \/ i \in ((n + 1) + 1)..Len(buf)
    BY <1>1
  <2>2. n + 1 \in (n + 1)..Len(buf) /\ ((n + 1) + 1)..Len(buf) \subseteq (n + 1)..Len(buf)
    BY <1>1
  <2>3. new[Len(new)] = buf[n + 1]
    BY <1>3
  <2>4. QED
    BY <2>1, <2>2, <2>3 DEF IsComing
<1>6. QED
  BY <1>4, <1>5 DEF new, c

LEMMA CountsCount ==
  ASSUME NEW s, NEW buf, NEW list, NEW n, NEW op, NEW gv, NEW ex,
         ListsOK(s, "count", buf, list, n, op, gv, ex), NEW c, c = list[Len(list)], NEW d
  PROVE  /\ IsCounted("join", list, op, d) <=> IsCounted("count", list, op, d) \/ d = c
         /\ IsComing("join", buf, list, n, d) <=> IsComing("count", buf, list, n, d) /\ d # c
         /\ ~IsCounted("count", list, op, c) /\ IsComing("count", buf, list, n, c)
         /\ c \in Clients /\ gv[c] = s
<1>1. /\ list \in Seq(Clients) /\ buf \in Seq(Clients) /\ n \in 0..Len(buf) /\ Len(list) >= 1
      /\ IsInjective(list) /\ \A j \in 1..Len(list) : list[j] \in op /\ gv[list[j]] = s
      /\ \A i \in (n + 1)..Len(buf), j \in 1..Len(list) : buf[i] # list[j]
  BY DEF ListsOK
<1>2. /\ Len(list) \in 1..Len(list) /\ Len(list) \in Nat /\ c \in Clients /\ c \in op /\ gv[c] = s
  BY <1>1
<1>3. \A j \in 1..(Len(list) - 1) : j \in 1..Len(list) /\ list[j] # c
  BY <1>1, <1>2 DEF IsInjective
<1>4. \A j \in 1..Len(list) : j = Len(list) \/ j \in 1..(Len(list) - 1)
  BY <1>2
<1>5. Full("join", list) = Len(list) /\ Full("count", list) = Len(list) - 1
  BY DEF Full
<1>6. IsCounted("join", list, op, d) <=> IsCounted("count", list, op, d) \/ d = c
  BY <1>2, <1>3, <1>4, <1>5 DEF IsCounted
<1>7. ~IsCounted("count", list, op, c) /\ IsComing("count", buf, list, n, c)
  BY <1>3, <1>5 DEF IsCounted, IsComing
<1>8. \A i \in (n + 1)..Len(buf) : buf[i] # c
  BY <1>1, <1>2
<1>9. IsComing("join", buf, list, n, d) <=> IsComing("count", buf, list, n, d) /\ d # c
  BY <1>8 DEF IsComing
<1>10. QED
  BY <1>2, <1>6, <1>7, <1>9

\* Only the elements of the lists matter otherwise.
LEMMA CountsRange ==
  ASSUME NEW list \in Seq(Clients), NEW at, at # "count", NEW op, NEW d
  PROVE  IsCounted(at, list, op, d) <=> d \in op /\ d \in Range(list)
<1>1. DOMAIN list = 1..Len(list)
  OBVIOUS
<1>2. QED
  BY <1>1 DEF IsCounted, Full, Range

LEMMA ComesEmpty ==
  ASSUME NEW at, at # "count", NEW list, NEW d
  PROVE  ~IsComing(at, <<>>, list, 0, d)
BY DEF IsComing

LEMMA ComesAdd ==
  ASSUME NEW buf \in Seq(Clients), NEW n \in 0..Len(buf), NEW c \in Clients, NEW at, NEW list, NEW d
  PROVE  IsComing(at, Append(buf, c), list, n, d) <=> IsComing(at, buf, list, n, d) \/ d = c
<1> DEFINE new == Append(buf, c)
<1>1. /\ Len(new) = Len(buf) + 1 /\ Len(buf) \in Nat
      /\ new[Len(buf) + 1] = c /\ \A i \in 1..Len(buf) : new[i] = buf[i]
  OBVIOUS
<1> HIDE DEF new
<1>2. /\ \A i \in (n + 1)..Len(new) : i = Len(buf) + 1 \/ i \in (n + 1)..Len(buf)
      /\ \A i \in (n + 1)..Len(buf) : i \in (n + 1)..Len(new) /\ i \in 1..Len(buf)
      /\ Len(buf) + 1 \in (n + 1)..Len(new)
  BY <1>1
<1>3. IsComing(at, new, list, n, d) <=> IsComing(at, buf, list, n, d) \/ d = c
  BY <1>1, <1>2 DEF IsComing
<1>4. QED
  BY <1>3 DEF new

-----------------------------------------------------------------------------
(* The number of clients that have been counted.                           *)

Counts(s, c) == IsCounted(pc[s], clients[s], open, c)
Comes(s, c)  == IsComing(pc[s], clientsBuf[s], clients[s], joined[s], c)

LEMMA CountSets ==
  /\ Counted = {c \in Clients : \E s \in Servers : Counts(s, c)}
  /\ Coming = {c \in Clients : (InHandNow /\ c = accepted) \/ \E s \in Servers : Comes(s, c)}
  /\ IsFiniteSet(Clients) /\ IsFiniteSet(Counted) /\ IsFiniteSet(Coming)
  /\ Cardinality(Counted) \in Nat /\ Cardinality(Coming) \in Nat
<1>1. IsFiniteSet(Clients)
  BY ServerNumbers, FS_Interval DEF Clients
<1>2. Counted \subseteq Clients /\ Coming \subseteq Clients
  BY DEF Counted, Coming
<1>3. IsFiniteSet(Counted) /\ IsFiniteSet(Coming)
  BY <1>1, <1>2, FS_Subset
<1>4. Cardinality(Counted) \in Nat /\ Cardinality(Coming) \in Nat
  BY <1>3, FS_CardinalityType
<1>5. QED
  BY <1>1, <1>3, <1>4 DEF Counted, Coming, Counts, Comes

LEMMA CountSetsNext ==
  /\ Counted' = {c \in Clients : \E s \in Servers : Counts(s, c)'}
  /\ Coming' = {c \in Clients : ((((((((((InHandNow' /\ c = accepted')))))))))) \/ \E s \in Servers : Comes(s, c)'}
  /\ IsFiniteSet(Counted') /\ IsFiniteSet(Coming')
  /\ Cardinality(Counted') \in Nat /\ Cardinality(Coming') \in Nat
<1>1. IsFiniteSet(Clients)
  BY CountSets
<1>2. Counted' \subseteq Clients /\ Coming' \subseteq Clients
  BY DEF Counted, Coming
<1>3. IsFiniteSet(Counted') /\ IsFiniteSet(Coming')
  BY <1>1, <1>2, FS_Subset
<1>4. Cardinality(Counted') \in Nat /\ Cardinality(Coming') \in Nat
  BY <1>3, FS_CardinalityType
<1>5. QED
  BY <1>3, <1>4 DEF Counted, Coming, Counts, Comes

\* A client of a server's lists was given to it.
LEMMA CountsGiven ==
  ASSUME ServersOK, NEW s \in Servers, NEW c
  PROVE  Counts(s, c) \/ Comes(s, c) => c \in Clients /\ given[c] = s
<1>1. ListsOK(s, pc[s], clientsBuf[s], clients[s], joined[s], open, given, exited)
  BY DEF ServersOK, Lists
<1> DEFINE buf == clientsBuf[s]  list == clients[s]  n == joined[s]
<1> HIDE DEF buf, list, n
<1>2. /\ buf \in Seq(Clients) /\ list \in Seq(Clients) /\ n \in 0..Len(buf)
      /\ pc[s] = "count" => Len(list) >= 1
      /\ \A i \in 1..Len(buf) : given[buf[i]] = s /\ buf[i] \in Clients
      /\ \A i \in 1..Len(list) : given[list[i]] = s /\ list[i] \in Clients
  <2>1. ListsOK(s, pc[s], buf, list, n, open, given, exited)
    BY <1>1 DEF buf, list, n
  <2>2. QED
    BY <2>1 DEF ListsOK
<1>3. IsCounted(pc[s], list, open, c) \/ IsComing(pc[s], buf, list, n, c)
        => c \in Clients /\ given[c] = s
  BY <1>2 DEF IsCounted, IsComing, Full
<1>4. QED
  BY <1>3 DEF Counts, Comes, buf, list, n

LEMMA ForgottenFinite ==
  ASSUME ForgottenOK
  PROVE  IsFiniteSet(forgotten) /\ Cardinality(forgotten) \in Nat
BY CountSets, FS_Subset, FS_CardinalityType DEF ForgottenOK

\* Who is counted stays counted, and nobody comes.
LEMMA CountKept ==
  ASSUME HandOK, HandOK', ForgottenOK, CountOK, UNCHANGED <<clientCount, forgotten>>, accepted' >= accepted,
         \A s \in Servers, c \in Clients : Counts(s, c)' <=> Counts(s, c),
         \A c \in Clients : /\ InHandNow' /\ c = accepted' => c \in Coming
                            /\ \A s \in Servers : Comes(s, c)' => c \in Coming
  PROVE  CountOK'
<1>1. Counted' = Counted /\ Coming' \subseteq Coming
  BY CountSets, CountSetsNext
<1>2. Cardinality(Coming') <= Cardinality(Coming)
  BY <1>1, CountSets, FS_Subset
<1>3. accepted \in Nat /\ accepted' \in Nat
  BY DEF HandOK
<1>4. clientCount + Cardinality(Coming) <= accepted /\ clientCount \in Int
  BY CountSets, ForgottenFinite DEF CountOK
<1>5. clientCount' + Cardinality(Coming') <= accepted'
  BY <1>2, <1>3, <1>4, CountSets, CountSetsNext
<1>6. QED
  BY <1>1, <1>5 DEF CountOK

\* A server whose lists do not change, nor the clients in them.
LEMMA CountsSame ==
  ASSUME ServersOK, NEW r \in Servers,
         pc'[r] = pc[r] \/ (pc[r] # "count" /\ pc'[r] # "count"),
         clientsBuf'[r] = clientsBuf[r] /\ clients'[r] = clients[r] /\ joined'[r] = joined[r],
         \A c \in Clients : given[c] = r => (c \in open' <=> c \in open)
  PROVE  \A c \in Clients : (Counts(r, c)' <=> Counts(r, c)) /\ (Comes(r, c)' <=> Comes(r, c))
<1> DEFINE list == clients[r]
<1>1. /\ list \in Seq(Clients)
      /\ \A i \in 1..Len(list) : list[i] \in Clients /\ given[list[i]] = r
  <2>1. ListsOK(r, pc[r], clientsBuf[r], list, joined[r], open, given, exited)
    BY DEF ServersOK, Lists
  <2> HIDE DEF list
  <2>2. QED
    BY <2>1 DEF ListsOK
<1> HIDE DEF list
<1>2. Full(pc'[r], list) = Full(pc[r], list) /\ Full(pc[r], list) <= Len(list)
  BY <1>1 DEF Full
<1>3. Full(pc[r], list) \in Int
  BY <1>1 DEF Full
<1>4. \A i \in 1..Full(pc[r], list) : list[i] \in Clients /\ given[list[i]] = r
  BY <1>1, <1>2, <1>3
<1>5. \A c \in Clients : IsCounted(pc'[r], list, open', c) <=> IsCounted(pc[r], list, open, c)
  BY <1>2, <1>4 DEF IsCounted
<1>6. \A c \in Clients : Counts(r, c)' <=> Counts(r, c)
  BY <1>5 DEF Counts, list
<1>7. \A c \in Clients : Comes(r, c)' <=> Comes(r, c)
  BY DEF Comes, IsComing
<1>8. QED
  BY <1>6, <1>7

\* A step that changes no list, and takes no client into the hand.
LEMMA CountQuiet ==
  ASSUME HandOK, HandOK', ServersOK, ForgottenOK, CountOK,
         UNCHANGED <<listVars, clientCount, forgotten>>, accepted' >= accepted,
         InHandNow' => InHandNow /\ accepted' = accepted,
         \A r \in Servers : pc'[r] = pc[r] \/ (pc[r] \in Workings \cup {"join"} /\ pc'[r] \in Workings \cup {"join"}),
         \A r \in Servers, c \in Clients : given[c] = r => (c \in open' <=> c \in open)
  PROVE  CountOK'
<1>1. ASSUME NEW r \in Servers, NEW c \in Clients
      PROVE  (Counts(r, c)' <=> Counts(r, c)) /\ (Comes(r, c)' <=> Comes(r, c))
  BY CountsSame DEF Workings, listVars
<1>2. \A c \in Clients : /\ InHandNow' /\ c = accepted' => c \in Coming
                         /\ \A s \in Servers : Comes(s, c)' => c \in Coming
  BY <1>1, CountSets
<1>3. QED
  BY <1>1, <1>2, CountKept

LEMMA CountAccept == ASSUME ThreadsOK, HandOK, HandOK', ServersOK, ForgottenOK, CountOK, Accept PROVE CountOK'
<1>1. /\ accepted' = accepted + 1 /\ open' = open \cup {accepted'} /\ ~InHandNow /\ InHandNow'
      /\ UNCHANGED <<listVars, clientCount, forgotten, given>>
  BY ServerNumbers DEF Accept, Goes, ThreadsOK, InHandNow
<1>2. accepted' \in Clients /\ accepted \in Nat /\ given[accepted'] = Acceptor
  BY <1>1, ServerNumbers DEF HandOK, Clients, Accept
<1>3. \A r \in Servers : pc'[r] = pc[r]
  BY ServerNumbers DEF Accept, Goes, ThreadsOK
<1>4. \A r \in Servers, c \in Clients : given[c] = r => (c \in open' <=> c \in open)
  BY <1>1, <1>2, ServerNumbers
<1>5. ASSUME NEW r \in Servers, NEW c \in Clients
      PROVE  (Counts(r, c)' <=> Counts(r, c)) /\ (Comes(r, c)' <=> Comes(r, c))
  BY <1>1, <1>3, <1>4, CountsSame DEF listVars
<1>6. Counted' = Counted /\ Coming' = Coming \cup {accepted'}
  BY <1>1, <1>2, <1>5, CountSets, CountSetsNext
<1>7. Cardinality(Coming') <= Cardinality(Coming) + 1
  <2> DEFINE S == Coming  x == accepted'
  <2>1. IsFiniteSet(S) /\ Cardinality(S) \in Nat
    BY CountSets
  <2> HIDE DEF S, x
  <2>2. Cardinality(S \cup {x}) = IF x \in S THEN Cardinality(S) ELSE Cardinality(S) + 1
    BY <2>1, FS_AddElement
  <2>3. Cardinality(S \cup {x}) <= Cardinality(S) + 1
    BY <2>1, <2>2
  <2>4. QED
    BY <2>3, <1>6 DEF S, x
<1>8. QED
  BY <1>1, <1>2, <1>6, <1>7, CountSets, CountSetsNext, ForgottenFinite DEF CountOK

LEMMA CountAddClient ==
  ASSUME ThreadsOK, HandOK, HandOK', ServersOK, ForgottenOK, CountOK, AddClient
  PROVE  CountOK'
<1>0. PICK s \in Servers, c \in Clients : s = choice.min /\ c = accepted
  <2>1. choice.min \in Servers /\ accepted \in open
    BY DEF AddClient, Goes, HandOK, InHandNow
  <2>2. QED
    BY <2>1, OpenClients
<1>1. /\ InHandNow /\ ~InHandNow'
      /\ clientsBuf' = [clientsBuf EXCEPT ![s] = Append(clientsBuf[s], c)]
      /\ UNCHANGED <<clients, joined, open, clientCount, forgotten, accepted>>
  BY <1>0, ServerNumbers DEF AddClient, Goes, InHandNow, ThreadsOK
<1>2. \A r \in Servers : pc'[r] = pc[r]
  BY ServerNumbers DEF AddClient, Goes, ThreadsOK
<1>3. \A r \in Servers \ {s} : clientsBuf'[r] = clientsBuf[r]
  BY <1>1 DEF ServersOK
<1>4. ASSUME NEW r \in Servers \ {s}, NEW d \in Clients
      PROVE  (Counts(r, d)' <=> Counts(r, d)) /\ (Comes(r, d)' <=> Comes(r, d))
  BY <1>1, <1>2, <1>3, CountsSame
<1>5. clientsBuf[s] \in Seq(Clients) /\ joined[s] \in 0..Len(clientsBuf[s])
  BY DEF ServersOK, Lists, ListsOK
<1>6. ASSUME NEW d \in Clients
      PROVE  (Counts(s, d)' <=> Counts(s, d)) /\ (Comes(s, d)' <=> Comes(s, d) \/ d = c)
  <2>1. IsComing(pc[s], Append(clientsBuf[s], c), clients[s], joined[s], d)
          <=> IsComing(pc[s], clientsBuf[s], clients[s], joined[s], d) \/ d = c
    BY <1>5, ComesAdd
  <2>2. clientsBuf'[s] = Append(clientsBuf[s], c)
    BY <1>1 DEF ServersOK
  <2>3. QED
    BY <2>1, <2>2, <1>1, <1>2 DEF Counts, Comes
<1>7. \A r \in Servers, d \in Clients : /\ Counts(r, d)' <=> Counts(r, d)
                                        /\ Comes(r, d)' => Comes(r, d) \/ d = c
  BY <1>4, <1>6
<1>8. c \in Coming
  BY <1>0, <1>1, CountSets
<1>9. \A r \in Servers, d \in Clients : Comes(r, d)' => d \in Coming
  BY <1>7, <1>8, CountSets
<1>10. QED
  BY <1>1, <1>7, <1>9, CountKept DEF HandOK

\* A step of a server's worker: what the other servers count.
LEMMA CountOthers ==
  ASSUME ThreadsOK, ServersOK, NEW s \in Servers, NEW from, NEW to, Goes(s, from, to),
         \A r \in Servers \ {s} : /\ clientsBuf'[r] = clientsBuf[r] /\ clients'[r] = clients[r]
                                  /\ joined'[r] = joined[r],
         \A r \in Servers \ {s}, c \in Clients : given[c] = r => (c \in open' <=> c \in open),
         UNCHANGED acceptVars
  PROVE  /\ pc[s] = from /\ pc'[s] = to /\ (InHandNow' <=> InHandNow)
         /\ \A r \in Servers \ {s}, c \in Clients : /\ Counts(r, c)' <=> Counts(r, c)
                                                    /\ Comes(r, c)' <=> Comes(r, c)
<1>1. pc[s] = from /\ pc'[s] = to /\ \A r \in Threads \ {s} : pc'[r] = pc[r]
  BY ServerNumbers DEF Goes, ThreadsOK
<1>2. InHandNow' <=> InHandNow
  BY <1>1, ServerNumbers DEF InHandNow
<1>3. ASSUME NEW r \in Servers \ {s}, NEW c \in Clients
      PROVE  (Counts(r, c)' <=> Counts(r, c)) /\ (Comes(r, c)' <=> Comes(r, c))
  <2>1. pc'[r] = pc[r]
    BY <1>1, ServerNumbers
  <2>2. QED
    BY <2>1, CountsSame
<1>4. QED
  BY <1>1, <1>2, <1>3

LEMMA CountJoinClient ==
  ASSUME ThreadsOK, HandOK, HandOK', ServersOK, ForgottenOK, CountOK, NEW s \in Servers, JoinClient(s)
  PROVE  CountOK'
<1>1. /\ joined[s] < Len(clientsBuf[s])
      /\ joined' = [joined EXCEPT ![s] = joined[s] + 1]
      /\ clients' = [clients EXCEPT ![s] = Append(clients[s], clientsBuf[s][joined[s] + 1])]
      /\ UNCHANGED <<clientsBuf, clientCount, forgotten, acceptVars, open>>
      /\ Goes(s, "join", "count")
  BY DEF JoinClient
<1>2. ListsOK(s, "join", clientsBuf[s], clients[s], joined[s], open, given, exited)
  BY <1>1 DEF ServersOK, Lists, Goes
<1>3. \A r \in Servers \ {s} : /\ clientsBuf'[r] = clientsBuf[r] /\ clients'[r] = clients[r]
                               /\ joined'[r] = joined[r]
  BY <1>1 DEF ServersOK
<1>4. /\ pc[s] = "join" /\ pc'[s] = "count" /\ (InHandNow' <=> InHandNow)
      /\ \A r \in Servers \ {s}, c \in Clients : /\ Counts(r, c)' <=> Counts(r, c)
                                                 /\ Comes(r, c)' <=> Comes(r, c)
  BY <1>1, <1>3, CountOthers
<1>5. ASSUME NEW d \in Clients
      PROVE  (Counts(s, d)' <=> Counts(s, d)) /\ (Comes(s, d)' <=> Comes(s, d))
  <2>1. /\ clients'[s] = Append(clients[s], clientsBuf[s][joined[s] + 1])
        /\ joined'[s] = joined[s] + 1
    BY <1>1 DEF ServersOK
  <2>2. /\ IsCounted("count", clients'[s], open, d) <=> IsCounted("join", clients[s], open, d)
        /\ IsComing("count", clientsBuf[s], clients'[s], joined'[s], d)
             <=> IsComing("join", clientsBuf[s], clients[s], joined[s], d)
    BY <1>1, <1>2, <2>1, CountsJoin
  <2>3. QED
    BY <1>1, <1>4, <2>2 DEF Counts, Comes
<1>6. \A r \in Servers, c \in Clients : /\ Counts(r, c)' <=> Counts(r, c)
                                        /\ Comes(r, c)' <=> Comes(r, c)
  BY <1>4, <1>5
<1>7. \A c \in Clients : /\ InHandNow' /\ c = accepted' => c \in Coming
                         /\ \A r \in Servers : Comes(r, c)' => c \in Coming
  BY <1>1, <1>4, <1>6, CountSets DEF acceptVars
<1>8. accepted' >= accepted
  BY <1>1 DEF acceptVars, HandOK
<1>9. QED
  BY <1>1, <1>4, <1>6, <1>7, <1>8, CountKept

LEMMA CountOnNetJoin ==
  ASSUME ThreadsOK, HandOK, HandOK', ServersOK, ForgottenOK, CountOK, NEW s \in Servers, OnNetJoin(s)
  PROVE  CountOK'
<1>1. /\ clientCount' = clientCount + 1
      /\ UNCHANGED <<listVars, acceptVars, open, forgotten>> /\ Goes(s, "count", "join")
  BY DEF OnNetJoin
<1>2. ListsOK(s, "count", clientsBuf[s], clients[s], joined[s], open, given, exited)
  BY <1>1 DEF ServersOK, Lists, Goes
<1>3. /\ pc[s] = "count" /\ pc'[s] = "join" /\ (InHandNow' <=> InHandNow)
      /\ \A r \in Servers \ {s}, c \in Clients : /\ Counts(r, c)' <=> Counts(r, c)
                                                 /\ Comes(r, c)' <=> Comes(r, c)
  BY <1>1, CountOthers DEF listVars
<1> DEFINE last == clients[s][Len(clients[s])]
<1>4. PICK c : c = last
  OBVIOUS
<1>5. ASSUME NEW d
      PROVE  /\ Counts(s, d)' <=> Counts(s, d) \/ d = c
             /\ Comes(s, d)' <=> Comes(s, d) /\ d # c
             /\ ~Counts(s, c) /\ Comes(s, c) /\ c \in Clients /\ given[c] = s
  <2>1. /\ IsCounted("join", clients[s], open, d) <=> IsCounted("count", clients[s], open, d) \/ d = c
        /\ IsComing("join", clientsBuf[s], clients[s], joined[s], d)
             <=> IsComing("count", clientsBuf[s], clients[s], joined[s], d) /\ d # c
        /\ ~IsCounted("count", clients[s], open, c)
        /\ IsComing("count", clientsBuf[s], clients[s], joined[s], c)
        /\ c \in Clients /\ given[c] = s
    BY <1>2, <1>4, CountsCount
  <2>2. QED
    BY <1>1, <1>3, <2>1 DEF Counts, Comes, listVars
<1>6. /\ c \in Clients /\ c \notin Counted /\ c \in Coming
      /\ \A r \in Servers \ {s} : ~Counts(r, c) /\ ~Comes(r, c)
  BY <1>5, CountsGiven, CountSets
<1>7. ~(InHandNow /\ c = accepted)
  BY <1>5, ServerNumbers DEF HandOK
<1>8. Counted' = Counted \cup {c}
  BY <1>3, <1>5, <1>6, CountSets, CountSetsNext
<1>9. Coming' = Coming \ {c}
  <2>1. accepted' = accepted
    BY <1>1 DEF acceptVars
  <2>2. \A d \in Clients : d \in Coming' <=> d \in Coming /\ d # c
    BY <2>1, <1>3, <1>5, <1>6, <1>7, CountSets, CountSetsNext
  <2>3. Coming \subseteq Clients /\ Coming' \subseteq Clients
    BY CountSets, CountSetsNext
  <2>4. QED
    BY <2>2, <2>3
<1> HIDE DEF last
<1>10. Cardinality(Counted') = Cardinality(Counted) + 1
  BY <1>6, <1>8, CountSets, FS_AddElement
<1>11. Cardinality(Coming') = Cardinality(Coming) - 1
  BY <1>6, <1>9, CountSets, FS_RemoveElement
<1>12. accepted' = accepted /\ accepted \in Nat
  BY <1>1 DEF acceptVars, HandOK
<1>13. QED
  BY <1>1, <1>3, <1>10, <1>11, <1>12, CountSets, CountSetsNext, ForgottenFinite DEF CountOK

LEMMA CountLeaves ==
  ASSUME ThreadsOK, HandOK, HandOK', ServersOK, ForgottenOK, CountOK, NEW s \in Servers,
         ClientLeaves(s) \/ CloseInIo(s)
  PROVE  CountOK'
<1>1. PICK c \in Range(clients[s]) :
        /\ open' = open \ {c}
        /\ \/ clientCount' = clientCount - 1 /\ forgotten' = forgotten
           \/ clientCount' = clientCount /\ forgotten' = forgotten \cup {c}
  BY DEF ClientLeaves, CloseInIo
<1>2. UNCHANGED <<listVars, acceptVars>> /\ Goes(s, "work", "leave")
  BY DEF ClientLeaves, CloseInIo
<1>3. ListsOK(s, "work", clientsBuf[s], clients[s], joined[s], open, given, exited)
  BY <1>2 DEF ServersOK, Lists, Goes
<1>4. c \in Clients /\ given[c] = s
  BY ListedClients
<1>5. c \in open /\ clients[s] \in Seq(Clients)
  <2>1. /\ clients[s] \in Seq(Clients)
        /\ \A j \in 1..Len(clients[s]) : clients[s][j] \in open
    BY <1>3 DEF ListsOK
  <2>2. QED
    BY <2>1 DEF Range
<1>6. \A r \in Servers \ {s}, d \in Clients : given[d] = r => (d \in open' <=> d \in open)
  BY <1>1, <1>4
<1>7. /\ pc[s] = "work" /\ pc'[s] = "leave" /\ (InHandNow' <=> InHandNow)
      /\ \A r \in Servers \ {s}, d \in Clients : /\ Counts(r, d)' <=> Counts(r, d)
                                                 /\ Comes(r, d)' <=> Comes(r, d)
  BY <1>2, <1>6, CountOthers DEF listVars
<1>8. ASSUME NEW d \in Clients
      PROVE  /\ Counts(s, d)' <=> Counts(s, d) /\ d # c
             /\ Comes(s, d)' <=> Comes(s, d)
             /\ Counts(s, c)
  <2>1. /\ IsCounted("leave", clients[s], open \ {c}, d) <=> d \in open \ {c} /\ d \in Range(clients[s])
        /\ IsCounted("work", clients[s], open, d) <=> d \in open /\ d \in Range(clients[s])
        /\ IsCounted("work", clients[s], open, c) <=> c \in open /\ c \in Range(clients[s])
    BY <1>5, CountsRange
  <2>2. IsComing("leave", clientsBuf[s], clients[s], joined[s], d)
          <=> IsComing("work", clientsBuf[s], clients[s], joined[s], d)
    BY DEF IsComing
  <2>3. QED
    BY <1>1, <1>2, <1>5, <1>7, <2>1, <2>2 DEF Counts, Comes, listVars
<1>9. c \in Counted /\ \A r \in Servers \ {s} : ~Counts(r, c)
  BY <1>4, <1>8, CountsGiven, CountSets
<1>10. Counted' = Counted \ {c}
  BY <1>7, <1>8, <1>9, CountSets, CountSetsNext
<1>11. Coming' = Coming
  <2>1. accepted' = accepted
    BY <1>2 DEF acceptVars
  <2>2. \A r \in Servers, d \in Clients : Comes(r, d)' <=> Comes(r, d)
    BY <1>7, <1>8
  <2>3. QED
    BY <2>1, <2>2, <1>7, CountSets, CountSetsNext
<1>12. Cardinality(Counted') = Cardinality(Counted) - 1
  BY <1>9, <1>10, CountSets, FS_RemoveElement
<1>13. accepted' = accepted /\ accepted \in Nat
  BY <1>2 DEF acceptVars, HandOK
<1>14. forgotten' = forgotten \cup {c} => Cardinality(forgotten') = Cardinality(forgotten) + 1
  BY <1>5, ForgottenFinite, FS_AddElement DEF ForgottenOK
<1>15. QED
  BY <1>1, <1>11, <1>12, <1>13, <1>14, CountSets, CountSetsNext, ForgottenFinite DEF CountOK

\* A completion brings back a client that was closed before: it is counted out.
LEMMA CountOrphan ==
  ASSUME ThreadsOK, HandOK, HandOK', ServersOK, ForgottenOK, CountOK, NEW s \in Servers, OrphanLeaves(s)
  PROVE  CountOK'
<1>1. PICK c \in forgotten : forgotten' = forgotten \ {c}
  BY DEF OrphanLeaves
<1>2. clientCount' = clientCount - 1 /\ UNCHANGED <<listVars, acceptVars, open>> /\ Goes(s, "work", "work")
  BY DEF OrphanLeaves
<1>3. /\ InHandNow' <=> InHandNow
      /\ \A r \in Servers : pc'[r] = pc[r]
  BY <1>2, ServerNumbers DEF Goes, ThreadsOK, InHandNow
<1>4. \A r \in Servers, d \in Clients : /\ Counts(r, d)' <=> Counts(r, d)
                                        /\ Comes(r, d)' <=> Comes(r, d)
  BY <1>2, <1>3, CountsSame DEF listVars
<1>5. accepted' = accepted /\ accepted \in Nat
  BY <1>2 DEF acceptVars, HandOK
<1>6. Counted' = Counted /\ Coming' = Coming
  BY <1>3, <1>4, <1>5, CountSets, CountSetsNext
<1>7. Cardinality(forgotten') = Cardinality(forgotten) - 1
  BY <1>1, ForgottenFinite, FS_RemoveElement
<1>8. QED
  BY <1>2, <1>5, <1>6, <1>7, CountSets, ForgottenFinite DEF CountOK

\* The steps of a worker that delete what is counted by nobody.
LEMMA CountErases ==
  ASSUME ThreadsOK, HandOK, HandOK', ServersOK, ForgottenOK, CountOK, NEW s \in Servers,
         JoinEnds(s) \/ EraseClient(s) \/ ClearBuf(s)
  PROVE  CountOK'
<1>1. ListsOK(s, pc[s], clientsBuf[s], clients[s], joined[s], open, given, exited)
  BY DEF ServersOK, Lists
<1>2. UNCHANGED <<clientCount, forgotten, acceptVars>> /\ accepted' >= accepted
  BY DEF JoinEnds, EraseClient, ClearBuf, HandOK, acceptVars
<1>3. PICK from, to : Goes(s, from, to)
  BY DEF JoinEnds, EraseClient, ClearBuf
<1>4. \A r \in Servers \ {s} : /\ clientsBuf'[r] = clientsBuf[r] /\ clients'[r] = clients[r]
                               /\ joined'[r] = joined[r]
  BY DEF JoinEnds, EraseClient, ClearBuf, ServersOK
<1>5. \A r \in Servers \ {s}, d \in Clients : given[d] = r => (d \in open' <=> d \in open)
  BY ListedClients DEF JoinEnds, EraseClient, ClearBuf
<1>6. /\ pc[s] = from /\ pc'[s] = to /\ (InHandNow' <=> InHandNow)
      /\ \A r \in Servers \ {s}, d \in Clients : /\ Counts(r, d)' <=> Counts(r, d)
                                                 /\ Comes(r, d)' <=> Comes(r, d)
  BY <1>2, <1>3, <1>4, <1>5, CountOthers
<1>7. /\ clients[s] \in Seq(Clients) /\ joined[s] \in Nat /\ clientsBuf[s] \in Seq(Clients)
  BY <1>1 DEF ListsOK
<1>8. ASSUME NEW d \in Clients
      PROVE  /\ Counts(s, d)' <=> Counts(s, d)
             /\ Comes(s, d)' => Comes(s, d)
  <2>1. CASE JoinEnds(s)
    <3>1. /\ pc[s] = "join" /\ pc'[s] = "work" /\ clientsBuf'[s] = <<>> /\ joined'[s] = 0
          /\ UNCHANGED <<clients, open>>
      BY <2>1, ServerNumbers DEF JoinEnds, Goes, ThreadsOK, ServersOK
    <3>2. ~Comes(s, d)'
      BY <3>1, ComesEmpty DEF Comes
    <3>3. Counts(s, d)' <=> Counts(s, d)
      BY <3>1 DEF Counts, IsCounted, Full
    <3>4. QED
      BY <3>2, <3>3
  <2>2. CASE EraseClient(s)
    <3>1. PICK i \in DOMAIN clients[s] : /\ clients[s][i] \notin open
                                         /\ clients' = [clients EXCEPT ![s] = RemoveAt(clients[s], i)]
      BY <2>2 DEF EraseClient
    <3>2. /\ pc[s] = "leave" /\ pc'[s] = "work" /\ UNCHANGED <<clientsBuf, joined, open>>
          /\ clients'[s] = RemoveAt(clients[s], i)
      BY <2>2, <3>1, ServerNumbers DEF EraseClient, Goes, ThreadsOK, ServersOK
    <3>3. /\ ListsOK(s, "work", clientsBuf[s], clients'[s], joined[s], open, given, exited)
          /\ Range(clients'[s]) = {c \in Range(clients[s]) : c \in open}
      BY <1>1, <3>1, <3>2, ListsErase
    <3>4. clients'[s] \in Seq(Clients)
      BY <3>3 DEF ListsOK
    <3>5. Counts(s, d)' <=> Counts(s, d)
      BY <1>7, <3>2, <3>3, <3>4, CountsRange DEF Counts
    <3>6. Comes(s, d)' <=> Comes(s, d)
      BY <3>2 DEF Comes, IsComing
    <3>7. QED
      BY <3>5, <3>6
  <2>3. CASE ClearBuf(s)
    <3>1. /\ pc[s] = "clear" /\ pc'[s] = "ended" /\ UNCHANGED <<clients, joined, open>>
          /\ clientsBuf'[s] = <<>> /\ joined[s] = 0
      BY <1>1, <2>3, ServerNumbers DEF ClearBuf, Goes, ThreadsOK, ServersOK, ListsOK
    <3>2. Counts(s, d)' <=> Counts(s, d)
      BY <3>1 DEF Counts, IsCounted, Full
    <3>3. ~Comes(s, d)'
      BY <3>1, ComesEmpty DEF Comes
    <3>4. QED
      BY <3>2, <3>3
  <2>4. QED
    BY <2>1, <2>2, <2>3
<1>9. \A r \in Servers, d \in Clients : /\ Counts(r, d)' <=> Counts(r, d)
                                        /\ Comes(r, d)' => Comes(r, d)
  BY <1>6, <1>8
<1>10. \A c \in Clients : /\ InHandNow' /\ c = accepted' => c \in Coming
                          /\ \A r \in Servers : Comes(r, c)' => c \in Coming
  BY <1>2, <1>6, <1>9, CountSets DEF acceptVars
<1>11. QED
  BY <1>2, <1>6, <1>9, <1>10, CountKept

\* CleanClients forgets all the clients that have been counted.
LEMMA CountCleans ==
  ASSUME ThreadsOK, HandOK, HandOK', ServersOK, ForgottenOK, CountOK, NEW s \in Servers, CleanClients(s)
  PROVE  CountOK'
<1> DEFINE R == Range(clients[s])
<1>1. /\ clients' = [clients EXCEPT ![s] = <<>>]
      /\ open' = open \ (R \cup Range(clientsBuf[s])) /\ forgotten' = forgotten \cup R
      /\ UNCHANGED <<clientsBuf, joined, clientCount, acceptVars>> /\ Goes(s, "clean", "clear")
  BY DEF CleanClients
<1>2. ListsOK(s, "clean", clientsBuf[s], clients[s], joined[s], open, given, exited)
  BY <1>1 DEF ServersOK, Lists, Goes
<1>3. \A c \in R : c \in Clients /\ given[c] = s
  BY ListedClients
<1>4. clients[s] \in Seq(Clients) /\ R \subseteq open
  <2>1. clients[s] \in Seq(Clients) /\ \A j \in 1..Len(clients[s]) : clients[s][j] \in open
    BY <1>2 DEF ListsOK
  <2>2. QED
    BY <2>1 DEF Range
<1>5. \A r \in Servers \ {s}, d \in Clients : given[d] = r => (d \in open' <=> d \in open)
  BY <1>1, ListedClients
<1>6. \A r \in Servers \ {s} : clients'[r] = clients[r]
  BY <1>1 DEF ServersOK
<1>7. /\ pc[s] = "clean" /\ pc'[s] = "clear" /\ (InHandNow' <=> InHandNow)
      /\ \A r \in Servers \ {s}, d \in Clients : /\ Counts(r, d)' <=> Counts(r, d)
                                                 /\ Comes(r, d)' <=> Comes(r, d)
  BY <1>1, <1>5, <1>6, CountOthers
<1>8. ASSUME NEW d \in Clients
      PROVE  /\ ~Counts(s, d)' /\ (Counts(s, d) <=> d \in R)
             /\ Comes(s, d)' <=> Comes(s, d)
  <2>1. clients'[s] = <<>>
    BY <1>1 DEF ServersOK
  <2>2. Counts(s, d) <=> d \in open /\ d \in R
    BY <1>4, <1>7, CountsRange DEF Counts
  <2>3. ~Counts(s, d)'
    BY <1>7, <2>1 DEF Counts, IsCounted, Full
  <2>4. Comes(s, d)' <=> Comes(s, d)
    BY <1>1, <1>7 DEF Comes, IsComing
  <2>5. QED
    BY <1>4, <2>2, <2>3, <2>4
<1>9. R \subseteq Counted /\ Counted' = Counted \ R
  <2>1. R \subseteq Counted
    BY <1>3, <1>8, CountSets
  <2>2. \A d \in R, r \in Servers \ {s} : ~Counts(r, d)
    BY <1>3, CountsGiven
  <2>3. \A d \in Clients : d \in Counted' <=> d \in Counted /\ d \notin R
    BY <1>7, <1>8, <2>2, CountSets, CountSetsNext
  <2>4. Counted \subseteq Clients /\ Counted' \subseteq Clients
    BY CountSets, CountSetsNext
  <2>5. QED
    BY <2>1, <2>3, <2>4
<1>10. accepted' = accepted /\ accepted \in Nat
  BY <1>1 DEF acceptVars, HandOK
<1>11. Coming' = Coming
  BY <1>7, <1>8, <1>10, CountSets, CountSetsNext
<1> HIDE DEF R
<1>12. IsFiniteSet(R) /\ Cardinality(R) \in Nat
  BY <1>9, CountSets, FS_Subset, FS_CardinalityType
<1>13. Cardinality(Counted') = Cardinality(Counted) - Cardinality(R)
  <2>1. Cardinality(Counted \ R) = Cardinality(Counted) - Cardinality(Counted \cap R)
    BY CountSets, FS_Difference
  <2>2. Counted \cap R = R
    BY <1>9
  <2>3. QED
    BY <1>9, <2>1, <2>2
<1>14. Cardinality(forgotten') = Cardinality(forgotten) + Cardinality(R)
  <2>1. forgotten \cap R = {}
    BY <1>4 DEF ForgottenOK
  <2>2. Cardinality(forgotten \cup R)
          = Cardinality(forgotten) + Cardinality(R) - Cardinality(forgotten \cap R)
    BY <1>12, ForgottenFinite, FS_Union
  <2>3. Cardinality(forgotten \cap R) = 0
    BY <2>1, FS_EmptySet
  <2>4. QED
    BY <1>1, <1>12, <2>2, <2>3, ForgottenFinite
<1>15. QED
  BY <1>1, <1>10, <1>11, <1>12, <1>13, <1>14, CountSets, CountSetsNext, ForgottenFinite DEF CountOK

LEMMA CountInit == Init => CountOK
<1> SUFFICES ASSUME Init PROVE CountOK
  OBVIOUS
<1>1. Counted = {} /\ Coming = {}
  BY ServerNumbers DEF Init, Counted, Coming, IsCounted, IsComing, Full, InHandNow
<1>2. QED
  BY <1>1, FS_EmptySet DEF Init, CountOK

LEMMA CountStep ==
  ASSUME ThreadsOK, HandOK, ServersOK, ForgottenOK, CountOK, HandOK', [Next]_vars
  PROVE  CountOK'
<1>0. accepted \in Nat
  BY DEF HandOK
<1>1. CASE UNCHANGED vars
  BY <1>0, <1>1, CountQuiet DEF vars, acceptVars, InHandNow
<1>2. ASSUME NEW t \in Threads, NEW from \in AcceptorPc \cup WorkerPc,
             NEW to \in AcceptorPc \cup WorkerPc, Quiet(t, from, to)
      PROVE  CountOK'
  <2>1. \A s \in Servers : pc'[s] = pc[s] \/ (pc[s] \in Workings /\ pc'[s] \in Workings)
    BY <1>2, ServerNumbers DEF Quiet, Goes, ThreadsOK
  <2>2. UNCHANGED <<listVars, clientCount, forgotten, open, acceptVars>> /\ (InHandNow' => InHandNow)
    BY <1>2, ServerNumbers DEF Quiet, Goes, ThreadsOK, InHandNow
  <2>3. QED
    BY <1>0, <2>1, <2>2, CountQuiet DEF acceptVars
<1>3. ASSUME NEW t \in Threads, NEW last \in {"clean", "ended"}, Exit(t, last),
             last = "ended" => t = Acceptor
      PROVE  CountOK'
  <2>1. \A s \in Servers : pc'[s] = pc[s] \/ (pc[s] \in Workings /\ pc'[s] \in Workings)
    BY <1>3, ServerNumbers DEF Exit, Goes, ThreadsOK, Workings
  <2>2. UNCHANGED <<listVars, clientCount, forgotten, open, acceptVars>> /\ (InHandNow' => InHandNow)
    BY <1>3, ServerNumbers DEF Exit, Goes, ThreadsOK, InHandNow
  <2>3. QED
    BY <1>0, <2>1, <2>2, CountQuiet DEF acceptVars
<1>4. CASE Accept
  BY <1>4, CountAccept
<1>5. CASE AcceptRefused \/ Chooses
  <2>1. \A s \in Servers : pc'[s] = pc[s]
    BY <1>5, ServerNumbers DEF AcceptRefused, Chooses, ReadSize, Compare, Goes, ThreadsOK
  <2>2. UNCHANGED <<listVars, clientCount, forgotten, open>> /\ accepted' >= accepted
        /\ (InHandNow' => InHandNow /\ accepted' = accepted)
    BY <1>0, <1>5, ServerNumbers DEF AcceptRefused, Chooses, ReadSize, Compare, Goes, ThreadsOK, InHandNow
  <2>3. QED
    BY <2>1, <2>2, CountQuiet
<1>6. CASE AddClient
  BY <1>6, CountAddClient
<1>7. ASSUME NEW s \in Servers, LockBuf(s) PROVE CountOK'
  <2>1. pc[s] = "lock" /\ pc'[s] = "join" /\ pc'[Acceptor] = pc[Acceptor]
        /\ \A r \in Servers \ {s} : pc'[r] = pc[r]
    BY <1>7, ServerNumbers DEF LockBuf, Goes, ThreadsOK
  <2>2. joined[s] = 0
    BY <2>1 DEF ServersOK, Lists, ListsOK
  <2>3. UNCHANGED <<listVars, clientCount, forgotten, open, acceptVars>>
    BY <1>7, <2>2 DEF LockBuf, listVars, ServersOK
  <2>4. \A r \in Servers : \/ pc'[r] = pc[r]
                           \/ pc[r] \in Workings \cup {"join"} /\ pc'[r] \in Workings \cup {"join"}
    BY <2>1 DEF Workings
  <2>5. QED
    BY <1>0, <2>1, <2>3, <2>4, CountQuiet DEF InHandNow, acceptVars
<1>8. CASE Owner
  <2>1. UNCHANGED <<pc, listVars, clientCount, forgotten, open, acceptVars>>
    BY <1>8 DEF Owner, CloseCall, CloseStop, CloseReturns
  <2>2. QED
    BY <1>0, <2>1, CountQuiet DEF InHandNow, acceptVars
<1>9. QED
  BY <1>1, <1>2, <1>3, <1>4, <1>5, <1>6, <1>7, <1>8, NextCases, CountJoinClient, CountOnNetJoin,
     CountLeaves, CountOrphan, CountErases, CountCleans, ServerNumbers

-----------------------------------------------------------------------------
(* The clients that nobody lists any more, and that are still counted.     *)

LEMMA ForgottenInit == Init => ForgottenOK
BY DEF Init, ForgottenOK

\* A step that forgets no other client, and opens none that is forgotten.
LEMMA ForgottenKept ==
  ASSUME ForgottenOK, kind' = kind, forgotten' \subseteq forgotten, open' \cap forgotten = {},
         \A c \in forgotten : given'[c] = given[c],
         \A s \in Servers : pc[s] \in {"clear", "ended"} => pc'[s] \in {"clear", "ended"}
  PROVE  ForgottenOK'
BY DEF ForgottenOK

\* A worker that has cleaned up never works again.
LEMMA CleanedUp ==
  ASSUME ThreadsOK, [Next]_vars, NEW s \in Servers, pc[s] \in {"clear", "ended"}
  PROVE  pc'[s] \in {"clear", "ended"}
<1> USE DEF Goes
<1>0. pc \in [Threads -> AcceptorPc \cup WorkerPc] /\ s \in Threads /\ s # Acceptor
  BY ServerNumbers DEF ThreadsOK
<1>1. ASSUME NEW t \in Threads, NEW from, NEW to, Goes(t, from, to),
             from \in {"clear", "ended"} => to \in {"clear", "ended"}
      PROVE  pc'[s] \in {"clear", "ended"}
  BY <1>0, <1>1
<1>2. CASE UNCHANGED vars
  BY <1>2 DEF vars
<1>3. CASE AcceptThread
  <2>1. PICK from, to : Goes(Acceptor, from, to)
    BY <1>3 DEF AcceptThread, LoopTest, AcceptNothing, Accept, AcceptRefused, ReadSize, Compare,
                AddClient, WaitFails, Exit
  <2>2. QED
    BY <1>0, <2>1
<1>4. ASSUME NEW r \in Servers, CellServer(r) PROVE pc'[s] \in {"clear", "ended"}
  <2>1. PICK from, to : Goes(r, from, to) /\ (from \in {"clear", "ended"} => to \in {"clear", "ended"})
    BY <1>4 DEF CellServer, LoopTest, CheckBuf, LockBuf, JoinClient, OnNetJoin, JoinEnds, ClientLeaves,
                CloseInIo, EraseClient, OrphanLeaves, SendHangs, WorkEnds, WaitFails, Exit, CleanClients,
                ClearBuf
  <2>2. QED
    BY <2>1, <1>1, ServerNumbers
<1>5. CASE Owner
  BY <1>5 DEF Owner, CloseCall, CloseStop, CloseReturns
<1>6. QED
  BY <1>2, <1>3, <1>4, <1>5 DEF Next

LEMMA ForgottenStep ==
  ASSUME ThreadsOK, HandOK, ServersOK, ForgottenOK, [Next]_vars
  PROVE  ForgottenOK'
<1>0. \A s \in Servers : pc[s] \in {"clear", "ended"} => pc'[s] \in {"clear", "ended"}
  BY CleanedUp
<1>1. open \cap forgotten = {} /\ \A c \in forgotten : c \in Clients /\ given[c] \in Servers
  BY DEF ForgottenOK
<1>2. CASE UNCHANGED vars
  BY <1>0, <1>1, <1>2, ForgottenKept DEF vars
<1>3. ASSUME NEW t \in Threads, NEW from \in AcceptorPc \cup WorkerPc,
             NEW to \in AcceptorPc \cup WorkerPc, Quiet(t, from, to)
      PROVE  ForgottenOK'
  BY <1>0, <1>1, <1>3, ForgottenKept DEF Quiet, Goes
<1>4. ASSUME NEW t, NEW last, Exit(t, last) PROVE ForgottenOK'
  BY <1>0, <1>1, <1>4, ForgottenKept DEF Exit, Goes
<1>5. CASE AcceptRefused \/ Chooses
  BY <1>0, <1>1, <1>5, ForgottenKept DEF AcceptRefused, Chooses, ReadSize, Compare, Goes
<1>6. CASE Accept
  <2>1. open' = open \cup {accepted + 1} /\ UNCHANGED <<kind, forgotten, given>>
    BY <1>6 DEF Accept, Goes
  <2>2. accepted + 1 \in Clients /\ given[accepted + 1] = Acceptor
    BY <1>6, ServerNumbers DEF Accept, HandOK, Clients
  <2>3. accepted + 1 \notin forgotten
    BY <1>1, <2>2, ServerNumbers
  <2>4. QED
    BY <1>0, <1>1, <2>1, <2>3, ForgottenKept
<1>7. CASE AddClient
  <2>1. accepted \in open /\ given' = [given EXCEPT ![accepted] = choice.min]
    BY <1>7 DEF AddClient, Goes, HandOK, InHandNow
  <2>2. \A c \in forgotten : given'[c] = given[c]
    BY <1>1, <2>1 DEF HandOK
  <2>3. QED
    BY <1>0, <1>1, <1>7, <2>2, ForgottenKept DEF AddClient, Goes
<1>8. ASSUME NEW s \in Servers,
             \/ LockBuf(s) \/ JoinClient(s) \/ OnNetJoin(s) \/ JoinEnds(s) \/ ClientLeaves(s)
             \/ OrphanLeaves(s) \/ EraseClient(s) \/ ClearBuf(s)
      PROVE  ForgottenOK'
  <2>1. forgotten' \subseteq forgotten /\ open' \subseteq open /\ UNCHANGED <<kind, given>>
    BY <1>8 DEF LockBuf, JoinClient, OnNetJoin, JoinEnds, ClientLeaves, OrphanLeaves, EraseClient,
                ClearBuf, Goes
  <2>2. QED
    BY <1>0, <1>1, <2>1, ForgottenKept
<1>9. ASSUME NEW s \in Servers, CloseInIo(s) \/ CleanClients(s) PROVE ForgottenOK'
  <2>1. PICK R : /\ R \subseteq Range(clients[s]) /\ forgotten' = forgotten \cup R
                 /\ open' \subseteq open /\ open' \cap R = {} /\ UNCHANGED <<kind, given>>
                 /\ kind = "iocp" \/ pc'[s] \in {"clear", "ended"}
    <3>1. CASE CloseInIo(s)
      <4>1. PICK c \in Range(clients[s]) : open' = open \ {c} /\ forgotten' = forgotten \cup {c}
        BY <3>1 DEF CloseInIo
      <4>2. {c} \subseteq Range(clients[s]) /\ open' \cap {c} = {}
        BY <4>1
      <4>3. QED
        BY <3>1, <4>1, <4>2 DEF CloseInIo, Goes
    <3>2. CASE CleanClients(s)
      <4>1. pc'[s] = "clear"
        BY <3>2, ServerNumbers DEF CleanClients, Goes, ThreadsOK
      <4>2. /\ forgotten' = forgotten \cup Range(clients[s])
            /\ open' = open \ (Range(clients[s]) \cup Range(clientsBuf[s]))
        BY <3>2 DEF CleanClients
      <4>3. open' \subseteq open /\ open' \cap Range(clients[s]) = {}
        BY <4>2
      <4>4. QED
        BY <3>2, <4>1, <4>2, <4>3 DEF CleanClients, Goes
    <3>3. QED
      BY <1>9, <3>1, <3>2
  <2>2. \A c \in R : c \in Clients /\ given[c] = s
    BY <2>1, ListedClients
  <2>3. QED
    BY <1>0, <2>1, <2>2 DEF ForgottenOK
<1>10. CASE Owner
  BY <1>0, <1>1, <1>10, ForgottenKept DEF Owner, CloseCall, CloseStop, CloseReturns
<1>11. QED
  BY <1>2, <1>3, <1>4, <1>5, <1>6, <1>7, <1>8, <1>9, <1>10, NextCases

-----------------------------------------------------------------------------
(* The theorems.                                                           *)

\* The inductive invariant holds in every state.
THEOREM Inductive == Spec => []IInv
<1>1. Init => IInv
  BY ThreadsInit, HandInit, ServersInit, ForgottenInit, CountInit DEF IInv
<1>2. IInv /\ [Next]_vars => IInv'
  <2> SUFFICES ASSUME IInv, [Next]_vars PROVE IInv'
    OBVIOUS
  <2>1. ThreadsOK /\ HandOK /\ ServersOK /\ ForgottenOK /\ CountOK
    BY DEF IInv
  <2>2. ThreadsOK' /\ HandOK' /\ ServersOK' /\ ForgottenOK'
    BY <2>1, ThreadsStep, HandStep, ServersStep, ForgottenStep
  <2>3. CountOK'
    BY <2>1, <2>2, CountStep
  <2>4. QED
    BY <2>2, <2>3 DEF IInv
<1>3. QED
  BY <1>1, <1>2, PTL DEF Spec

\* The lists of a server never get longer than there are clients.
LEMMA InjectiveLength ==
  ASSUME NEW buf \in Seq(Clients), IsInjective(buf)
  PROVE  Len(buf) <= MaxAccepts
<1>1. buf \in Injection(1..Len(buf), Clients)
  BY DEF Injection
<1>2. IsFiniteSet(Clients) /\ Cardinality(Clients) = MaxAccepts
  BY ServerNumbers, FS_Interval DEF Clients
<1>3. Cardinality(1..Len(buf)) <= MaxAccepts
  BY <1>1, <1>2, FS_Injection
<1>4. Len(buf) \in Nat /\ 1 \in Int
  OBVIOUS
<1>5. Cardinality(1..Len(buf)) = IF 1 > Len(buf) THEN 0 ELSE Len(buf) - 1 + 1
  BY <1>4, FS_Interval
<1>6. QED
  BY <1>3, <1>4, <1>5, ServerNumbers

LEMMA IInvTypes == IInv => TypeOK
<1> SUFFICES ASSUME IInv PROVE TypeOK
  OBVIOUS
<1>1. ThreadsOK /\ HandOK /\ ServersOK /\ ForgottenOK /\ CountOK
  BY DEF IInv
<1>2. joined \in [Servers -> 0..MaxAccepts]
  <2>1. ASSUME NEW s \in Servers PROVE joined[s] \in 0..MaxAccepts
    <3>1. /\ clientsBuf[s] \in Seq(Clients) /\ IsInjective(clientsBuf[s])
          /\ joined[s] \in 0..Len(clientsBuf[s])
      BY <1>1 DEF ServersOK, Lists, ListsOK
    <3>2. Len(clientsBuf[s]) <= MaxAccepts
      BY <3>1, InjectiveLength
    <3>3. QED
      BY <3>1, <3>2, ServerNumbers
  <2>2. QED
    BY <1>1, <2>1 DEF ServersOK
<1>3. clientCount \in 0..MaxAccepts
  BY <1>1, CountSets, ForgottenFinite, ServerNumbers DEF CountOK, HandOK
<1>4. deleted \subseteq Servers
  BY <1>1 DEF ThreadsOK
<1>5. open \subseteq Clients /\ forgotten \subseteq Clients
  BY <1>1, OpenClients DEF ForgottenOK
<1>6. /\ kind \in Kinds
      /\ bRun \in [Threads -> BOOLEAN]
      /\ pc[Acceptor] \in AcceptorPc /\ \A s \in Servers : pc[s] \in WorkerPc
      /\ owner \in [pc : {"serving", "close", "wait", "closed"}, thread : Threads]
      /\ exited \subseteq Threads
  BY <1>1 DEF ThreadsOK
<1>7. /\ clientsBuf \in [Servers -> Seq(Clients)] /\ clients \in [Servers -> Seq(Clients)]
  BY <1>1 DEF ServersOK
<1>8. /\ accepted \in 0..MaxAccepts /\ given \in [Clients -> Threads]
      /\ choice \in [min : Servers, n : 2..(NServers + 1), unread : SUBSET Sizes,
                     sum : [min : Nat, other : Nat]]
  BY <1>1 DEF HandOK
<1>9. QED
  BY <1>2, <1>3, <1>4, <1>5, <1>6, <1>7, <1>8 DEF TypeOK

\* What a server holds: the rest of _clientsBuf, and _clients.
LEMMA HeldFacts ==
  ASSUME NEW buf \in Seq(Clients), NEW list \in Seq(Clients), NEW n \in 0..Len(buf),
         IsInjective(buf), IsInjective(list),
         \A i \in (n + 1)..Len(buf), j \in 1..Len(list) : buf[i] # list[j],
         NEW held, held = SubSeq(buf, n + 1, Len(buf)) \o list
  PROVE  /\ IsInjective(held)
         /\ Range(held) = {buf[i] : i \in (n + 1)..Len(buf)} \cup {list[j] : j \in 1..Len(list)}
<1> DEFINE a == SubSeq(buf, n + 1, Len(buf))  m == Len(buf) - n
<1>1. Len(buf) \in Nat /\ Len(list) \in Nat /\ n \in Nat /\ m \in Nat /\ n + m = Len(buf)
  OBVIOUS
<1>2. a \in Seq(Clients) /\ Len(a) = m /\ \A i \in 1..m : a[i] = buf[n + i]
  BY SubSeqProperties, Z3
<1> HIDE DEF a, m
<1>3. held \in Seq(Clients) /\ Len(held) = m + Len(list)
      /\ \A i \in 1..(m + Len(list)) : held[i] = IF i <= m THEN a[i] ELSE list[i - m]
  BY <1>2, ConcatProperties, Zenon DEF a
<1>4. DOMAIN held = 1..(m + Len(list))
  BY <1>3
<1>5. ASSUME NEW i \in 1..(m + Len(list))
      PROVE  \/ i <= m /\ n + i \in (n + 1)..Len(buf) /\ held[i] = buf[n + i]
             \/ i > m /\ i - m \in 1..Len(list) /\ held[i] = list[i - m]
  <2>1. CASE i <= m
    <3>1. held[i] = a[i]
      BY <2>1, <1>3
    <3>2. i \in 1..m /\ n + i \in (n + 1)..Len(buf)
      BY <2>1, <1>1
    <3>3. QED
      BY <2>1, <3>1, <3>2, <1>2
  <2>2. CASE ~(i <= m)
    <3>1. held[i] = list[i - m]
      BY <2>2, <1>3
    <3>2. i > m /\ i - m \in 1..Len(list)
      BY <2>2, <1>1
    <3>3. QED
      BY <3>1, <3>2
  <2>3. QED
    BY <2>1, <2>2
<1>6. IsInjective(held)
  <2>1. /\ \A i, j \in 1..Len(buf) : buf[i] = buf[j] => i = j
        /\ \A i, j \in 1..Len(list) : list[i] = list[j] => i = j
    BY DEF IsInjective
  <2>2. ASSUME NEW i \in 1..(m + Len(list)), NEW j \in 1..(m + Len(list)), held[i] = held[j]
        PROVE  i = j
    <3>1. CASE i <= m /\ j <= m
      <4>1. n + i \in 1..Len(buf) /\ n + j \in 1..Len(buf) /\ buf[n + i] = buf[n + j]
        BY <1>1, <1>5, <2>2, <3>1
      <4>2. n + i = n + j
        BY <4>1, <2>1
      <4>3. QED
        BY <4>2, <1>1
    <3>2. CASE i > m /\ j > m
      <4>0. ~(i <= m) /\ ~(j <= m)
        BY <1>1, <3>2
      <4>1. i - m \in 1..Len(list) /\ j - m \in 1..Len(list) /\ list[i - m] = list[j - m]
        BY <1>5, <2>2, <4>0
      <4>2. i - m = j - m
        BY <4>1, <2>1
      <4>3. QED
        BY <4>2, <1>1
    <3>3. CASE i <= m /\ j > m
      <4>1. i \in 1..m /\ j - m \in 1..Len(list) /\ ~(j <= m)
        BY <1>1, <3>3
      <4>2. n + i \in (n + 1)..Len(buf)
        BY <1>1, <4>1
      <4>3. buf[n + i] # list[j - m]
        BY <4>1, <4>2
      <4>4. held[i] = buf[n + i] /\ held[j] = list[j - m]
        BY <1>1, <1>5, <3>3
      <4>5. QED
        BY <2>2, <4>3, <4>4
    <3>4. CASE i > m /\ j <= m
      <4>1. j \in 1..m /\ i - m \in 1..Len(list) /\ ~(i <= m)
        BY <1>1, <3>4
      <4>2. n + j \in (n + 1)..Len(buf)
        BY <1>1, <4>1
      <4>3. buf[n + j] # list[i - m]
        BY <4>1, <4>2
      <4>4. held[j] = buf[n + j] /\ held[i] = list[i - m]
        BY <1>1, <1>5, <3>4
      <4>5. QED
        BY <2>2, <4>3, <4>4
    <3>5. QED
      BY <1>1, <3>1, <3>2, <3>3, <3>4
  <2>3. QED
    BY <1>4, <2>2 DEF IsInjective
<1>7. ASSUME NEW i \in (n + 1)..Len(buf) PROVE buf[i] \in Range(held)
  <2>1. i - n \in 1..m /\ i - n \in 1..(m + Len(list)) /\ n + (i - n) = i /\ i - n <= m
    BY <1>1
  <2>2. held[i - n] = a[i - n] /\ a[i - n] = buf[n + (i - n)]
    BY <2>1, <1>2, <1>3
  <2>3. QED
    BY <2>1, <2>2, <1>4 DEF Range
<1>8. ASSUME NEW j \in 1..Len(list) PROVE list[j] \in Range(held)
  <2>1. j + m \in 1..(m + Len(list)) /\ ~(j + m <= m) /\ (j + m) - m = j
    BY <1>1
  <2>2. held[j + m] = list[(j + m) - m]
    BY <2>1, <1>3
  <2>3. QED
    BY <2>1, <2>2, <1>4 DEF Range
<1>9. \A c : c \in Range(held) => \/ \E i \in (n + 1)..Len(buf) : buf[i] = c
                                  \/ \E j \in 1..Len(list) : list[j] = c
  BY <1>4, <1>5 DEF Range
<1>10. {buf[i] : i \in (n + 1)..Len(buf)} \cup {list[j] : j \in 1..Len(list)} \subseteq Range(held)
  BY <1>7, <1>8
<1>11. Range(held) \subseteq {buf[i] : i \in (n + 1)..Len(buf)} \cup {list[j] : j \in 1..Len(list)}
  BY <1>9
<1>12. QED
  BY <1>6, <1>10, <1>11

LEMMA HeldLists ==
  ASSUME ServersOK, NEW s \in Servers
  PROVE  /\ IsInjective(Held(s))
         /\ \A c : c \in Range(Held(s)) <=>
                     \/ \E i \in (joined[s] + 1)..Len(clientsBuf[s]) : clientsBuf[s][i] = c
                     \/ \E j \in 1..Len(clients[s]) : clients[s][j] = c
<1> DEFINE buf == clientsBuf[s]  list == clients[s]  n == joined[s]  held == Held(s)
<1>1. ListsOK(s, pc[s], buf, list, n, open, given, exited)
  BY DEF ServersOK, Lists
<1>2. held = SubSeq(buf, n + 1, Len(buf)) \o list
  BY DEF Held, Waiting
<1> HIDE DEF buf, list, n, held
<1>3. /\ buf \in Seq(Clients) /\ list \in Seq(Clients) /\ n \in 0..Len(buf)
      /\ IsInjective(buf) /\ IsInjective(list)
      /\ \A i \in (n + 1)..Len(buf), j \in 1..Len(list) : buf[i] # list[j]
  BY <1>1 DEF ListsOK
<1>4. /\ IsInjective(held)
      /\ \A c : c \in Range(held) <=> \/ \E i \in (n + 1)..Len(buf) : buf[i] = c
                                      \/ \E j \in 1..Len(list) : list[j] = c
  <2>1. PICK b \in Seq(Clients), l \in Seq(Clients), k \in 0..Len(buf), h \in {held} :
          b = buf /\ l = list /\ k = n /\ h = held
    BY <1>3
  <2>2. /\ IsInjective(b) /\ IsInjective(l) /\ k \in 0..Len(b)
        /\ \A i \in (k + 1)..Len(b), j \in 1..Len(l) : b[i] # l[j]
        /\ h = SubSeq(b, k + 1, Len(b)) \o l
    BY <1>2, <1>3, <2>1
  <2>3. IsInjective(h)
    BY <2>2, HeldFacts
  <2>4. Range(h) = {b[i] : i \in (k + 1)..Len(b)} \cup {l[j] : j \in 1..Len(l)}
    BY <2>2, HeldFacts
  <2>5. QED
    BY <2>1, <2>3, <2>4
<1>5. QED
  BY <1>4 DEF buf, list, n, held

\* An open client that was given to a server is in its lists, unless the
\* server's worker has failed.
LEMMA GivenClients ==
  ASSUME ServersOK, NEW s \in Servers, NEW c \in open, given[c] = s, s \notin exited
  PROVE  \/ \E i \in (joined[s] + 1)..Len(clientsBuf[s]) : clientsBuf[s][i] = c
         \/ \E j \in 1..Len(clients[s]) : clients[s][j] = c
<1> DEFINE buf == clientsBuf[s]  list == clients[s]  n == joined[s]
<1>1. ListsOK(s, pc[s], buf, list, n, open, given, exited)
  BY DEF ServersOK, Lists
<1> HIDE DEF buf, list, n
<1>2. \/ \E i \in (n + 1)..Len(buf) : buf[i] = c
      \/ \E j \in 1..Len(list) : list[j] = c
  BY <1>1 DEF ListsOK
<1>3. QED
  BY <1>2 DEF buf, list, n

LEMMA OpenClientsOwned ==
  ASSUME HandOK, ServersOK, NEW c \in open
  PROVE  \/ InHandNow /\ c = accepted
         \/ given[c] \in exited
         \/ given[c] \in Servers /\ c \in Range(Held(given[c]))
<1>1. c \in Clients /\ given[c] \in Threads
  BY OpenClients DEF HandOK
<1>2. CASE given[c] = Acceptor
  BY <1>2 DEF HandOK
<1>3. CASE given[c] \in Servers
  <2>1. PICK s \in Servers : s = given[c]
    BY <1>3
  <2>2. \/ s \in exited
        \/ \E i \in (joined[s] + 1)..Len(clientsBuf[s]) : clientsBuf[s][i] = c
        \/ \E j \in 1..Len(clients[s]) : clients[s][j] = c
    BY <2>1, GivenClients
  <2>3. QED
    BY <2>1, <2>2, HeldLists
<1>4. QED
  BY <1>1, <1>2, <1>3, ServerNumbers

LEMMA IInvOwned == IInv => ClientsAreOwned
<1> SUFFICES ASSUME IInv PROVE ClientsAreOwned
  OBVIOUS
<1>1. ThreadsOK /\ HandOK /\ ServersOK
  BY DEF IInv
<1>2. ASSUME NEW s \in Servers, pc[s] # "clear"
      PROVE  /\ IsInjective(Held(s))
             /\ pc[s] # "leave" => Range(Held(s)) \subseteq open
             /\ \A c \in Range(Held(s)) : given[c] = s
  <2>1. /\ joined[s] \in 0..Len(clientsBuf[s]) /\ clientsBuf[s] \in Seq(Clients)
        /\ \A i \in 1..Len(clientsBuf[s]) : given[clientsBuf[s][i]] = s
        /\ \A j \in 1..Len(clients[s]) : given[clients[s][j]] = s
        /\ \A i \in (joined[s] + 1)..Len(clientsBuf[s]) : clientsBuf[s][i] \in open
        /\ pc[s] # "leave" => \A j \in 1..Len(clients[s]) : clients[s][j] \in open
    BY <1>1, <1>2 DEF ServersOK, Lists, ListsOK
  <2>2. \A i \in (joined[s] + 1)..Len(clientsBuf[s]) : i \in 1..Len(clientsBuf[s])
    BY <2>1
  <2>3. \A c \in Range(Held(s)) : given[c] = s
    BY <1>1, <2>1, <2>2, HeldLists
  <2>4. pc[s] # "leave" => \A c \in Range(Held(s)) : c \in open
    BY <1>1, <2>1, HeldLists
  <2>5. QED
    BY <1>1, <2>3, <2>4, HeldLists
<1>3. ASSUME NEW c \in open
      PROVE  \/ c \in Range(InHand)
             \/ given[c] \in exited
             \/ given[c] \in Servers /\ c \in Range(Held(given[c]))
  <2>1. InHandNow /\ c = accepted => c \in Range(InHand)
    <3> SUFFICES ASSUME InHandNow, c = accepted PROVE c \in Range(InHand)
      OBVIOUS
    <3>1. InHand = <<accepted>>
      BY DEF InHand, InHandNow
    <3>2. 1 \in DOMAIN InHand /\ InHand[1] = accepted
      BY <3>1
    <3>3. QED
      BY <3>2 DEF Range
  <2>2. QED
    BY <1>1, <2>1, OpenClientsOwned
<1>4. QED
  BY <1>2, <1>3 DEF ClientsAreOwned

LEMMA IInvCloses == IInv => CloseClosesAll
<1> SUFFICES ASSUME IInv, owner.pc = "closed", NEW c \in open PROVE given[c] \in exited \cap Servers
  BY DEF CloseClosesAll
<1>1. ThreadsOK /\ HandOK /\ ServersOK
  BY DEF IInv
<1>2. \A t \in Threads : t \in exited \/ pc[t] = "ended"
  BY <1>1 DEF ThreadsOK, StopOK, Passed
<1>3. ~InHandNow
  BY <1>1, <1>2, ServerNumbers DEF ThreadsOK, StopOK, InHandNow, Left
<1>4. given[c] \in Servers
  BY <1>1, <1>3, OpenClients, ServerNumbers DEF HandOK
<1>5. ASSUME given[c] \notin exited PROVE FALSE
  <2>1. PICK s \in Servers : s = given[c]
    BY <1>4
  <2>2. pc[s] = "ended" /\ s \notin exited
    BY <1>2, <1>5, <2>1, ServerNumbers
  <2>3. clients[s] = <<>> /\ clientsBuf[s] = <<>> /\ joined[s] = 0
    BY <1>1, <2>2 DEF ServersOK, Lists, ListsOK
  <2>4. \/ \E i \in (joined[s] + 1)..Len(clientsBuf[s]) : clientsBuf[s][i] = c
        \/ \E j \in 1..Len(clients[s]) : clients[s][j] = c
    BY <1>1, <2>1, <2>2, GivenClients
  <2>5. QED
    BY <2>3, <2>4
<1>6. QED
  BY <1>4, <1>5

\* The clients that a list holds and OnNetJoin or OnNetLeave has not counted,
\* or has counted out, are one for each server at that point.
Joined == UNION {Range(clients[s]) : s \in Servers}
Apart  == {s \in Servers : pc[s] \in {"count", "leave"}}

LEMMA ApartLists ==
  ASSUME ServersOK, NEW s \in Servers
  PROVE  /\ \A c \in Range(clients[s]) : c \in Clients /\ given[c] = s
         /\ \A c : Counts(s, c) => c \in Range(clients[s])
         /\ s \notin Apart => \A c \in Range(clients[s]) : Counts(s, c)
         /\ s \in Apart => \E c \in Range(clients[s]) :
                             \A d \in Range(clients[s]) : Counts(s, d) <=> d # c
<1> DEFINE list == clients[s]
<1>1. ListsOK(s, pc[s], clientsBuf[s], list, joined[s], open, given, exited)
  BY DEF ServersOK, Lists
<1>2. \A c \in Range(list) : c \in Clients /\ given[c] = s
  BY ListedClients
<1> HIDE DEF list
<1>3. /\ list \in Seq(Clients) /\ IsInjective(list) /\ Len(list) \in Nat /\ DOMAIN list = 1..Len(list)
      /\ pc[s] = "count" => Len(list) >= 1
      /\ pc[s] # "leave" => \A j \in 1..Len(list) : list[j] \in open
      /\ pc[s] = "leave" => \E j \in 1..Len(list) : \A k \in 1..Len(list) : list[k] \in open <=> k # j
  BY <1>1 DEF ListsOK
<1>0. Len(list) \in Nat
  BY <1>3
<1>4. /\ Full(pc[s], list) \in Int /\ Full(pc[s], list) <= Len(list)
      /\ pc[s] # "count" => Full(pc[s], list) = Len(list)
      /\ pc[s] = "count" => Full(pc[s], list) = Len(list) - 1
  BY <1>0 DEF Full
<1>5. \A c : IsCounted(pc[s], list, open, c) => c \in Range(list)
  BY <1>3, <1>4 DEF IsCounted, Range
<1>6. s \notin Apart => \A c \in Range(list) : IsCounted(pc[s], list, open, c)
  <2> SUFFICES ASSUME s \notin Apart, NEW c \in Range(list) PROVE IsCounted(pc[s], list, open, c)
    OBVIOUS
  <2>1. pc[s] \notin {"count", "leave"}
    BY DEF Apart
  <2>2. QED
    BY <2>1, <1>3, <1>4 DEF IsCounted, Range
<1>7. ASSUME s \in Apart
      PROVE  \E c \in Range(list) : \A d \in Range(list) : IsCounted(pc[s], list, open, d) <=> d # c
  <2>1. CASE pc[s] = "leave"
    <3>1. PICK j \in 1..Len(list) : \A k \in 1..Len(list) : list[k] \in open <=> k # j
      BY <1>3, <2>1
    <3>2. \A d \in Range(list) : IsCounted(pc[s], list, open, d) <=> d # list[j]
      <4>1. \A k \in 1..Len(list) : list[k] = list[j] => k = j
        BY <1>3 DEF IsInjective
      <4>2. ASSUME NEW k \in 1..Len(list)
            PROVE  IsCounted(pc[s], list, open, list[k]) <=> list[k] # list[j]
        BY <1>4, <2>1, <3>1, <4>1 DEF IsCounted
      <4>3. QED
        BY <1>3, <4>2 DEF Range
    <3>3. list[j] \in Range(list)
      BY <1>3 DEF Range
    <3>4. QED
      BY <3>2, <3>3
  <2>2. CASE pc[s] = "count"
    <3> DEFINE c == list[Len(list)]
    <3>1. /\ Len(list) \in 1..Len(list) /\ c \in Range(list)
          /\ \A k \in 1..Len(list) : list[k] = c => k = Len(list)
      BY <1>3, <2>2 DEF IsInjective, Range
    <3>2. ASSUME NEW k \in 1..Len(list)
          PROVE  IsCounted(pc[s], list, open, list[k]) <=> list[k] # c
      <4>1. CASE k = Len(list)
        <5>1. \A i \in 1..(Len(list) - 1) : i \in 1..Len(list) /\ i # Len(list)
          BY <1>0
        <5>2. QED
          BY <1>4, <2>2, <3>1, <4>1, <5>1 DEF IsCounted
      <4>2. CASE k # Len(list)
        <5>0. k \in 1..(Len(list) - 1)
          BY <1>0, <4>2
        <5>1. k \in 1..(Len(list) - 1) /\ list[k] # c
          BY <3>1, <4>2, <5>0
        <5>2. QED
          BY <1>3, <1>4, <2>2, <5>1 DEF IsCounted
      <4>3. QED
        BY <4>1, <4>2
    <3>3. \A d \in Range(list) : IsCounted(pc[s], list, open, d) <=> d # c
      BY <1>3, <3>2 DEF Range
    <3>4. QED
      BY <3>1, <3>3
  <2>3. QED
    BY <1>7, <2>1, <2>2 DEF Apart
<1>8. QED
  BY <1>2, <1>5, <1>6, <1>7 DEF Counts, list

LEMMA JoinedCardinality ==
  ASSUME ServersOK
  PROVE  Cardinality(Joined) = Cardinality(Counted) + Cardinality(Apart)
<1> DEFINE Rest == Joined \ Counted
<1>1. Joined \subseteq Clients
  BY ApartLists DEF Joined
<1>2. IsFiniteSet(Joined) /\ Cardinality(Joined) \in Nat
  BY <1>1, CountSets, FS_Subset, FS_CardinalityType
<1>3. Counted \subseteq Joined
  BY ApartLists, CountSets DEF Joined
<1>4. \A s \in Servers : \A c \in Range(clients[s]) : c \in Rest <=> ~Counts(s, c)
  <2> SUFFICES ASSUME NEW s \in Servers, NEW c \in Range(clients[s])
               PROVE  c \in Rest <=> ~Counts(s, c)
    OBVIOUS
  <2>1. c \in Joined /\ c \in Clients /\ given[c] = s
    BY ApartLists DEF Joined
  <2>2. c \in Counted <=> Counts(s, c)
    BY <2>1, CountsGiven, CountSets
  <2>3. QED
    BY <2>1, <2>2
<1>5. \A c \in Rest : \E s \in Apart : c \in Range(clients[s]) /\ given[c] = s
  BY <1>4, ApartLists DEF Joined
<1>6. \A s \in Apart : \E c \in Rest : given[c] = s
  <2> SUFFICES ASSUME NEW s \in Apart PROVE \E c \in Rest : given[c] = s
    OBVIOUS
  <2>1. s \in Servers
    BY DEF Apart
  <2>2. PICK c \in Range(clients[s]) : ~Counts(s, c)
    BY <2>1, ApartLists
  <2>3. c \in Rest /\ given[c] = s
    BY <1>4, <2>1, <2>2, ApartLists
  <2>4. QED
    BY <2>3
<1>7. \A c, d \in Rest : given[c] = given[d] => c = d
  <2> SUFFICES ASSUME NEW c \in Rest, NEW d \in Rest, given[c] = given[d] PROVE c = d
    OBVIOUS
  <2>1. PICK s \in Apart : c \in Range(clients[s]) /\ given[c] = s
    BY <1>5
  <2>2. d \in Range(clients[s])
    BY <1>5, <2>1
  <2>3. s \in Servers
    BY DEF Apart
  <2>4. ~Counts(s, c) /\ ~Counts(s, d)
    BY <1>4, <2>1, <2>2, <2>3
  <2>5. QED
    BY <2>1, <2>2, <2>3, <2>4, ApartLists
<1> HIDE DEF Rest
<1>8. IsFiniteSet(Rest)
  BY <1>2, FS_Subset DEF Rest
<1>9. Cardinality(Apart) = Cardinality(Rest)
  <2> DEFINE f == [c \in Rest |-> given[c]]
  <2>1. f \in [Rest -> Apart]
    BY <1>5
  <2>2. \A c, d \in Rest : f[c] = f[d] => c = d
    BY <1>7
  <2>3. \A s \in Apart : \E c \in Rest : f[c] = s
    BY <1>6
  <2>4. DOMAIN f = Rest
    OBVIOUS
  <2> HIDE DEF f
  <2>5. f \in Bijection(Rest, Apart)
    BY <2>1, <2>2, <2>3, <2>4 DEF Bijection, Injection, Surjection, IsInjective, Range
  <2>6. ExistsBijection(Rest, Apart)
    BY <2>5 DEF ExistsBijection
  <2>7. QED
    BY <1>8, <2>6, FS_Bijection
<1>10. Cardinality(Rest) = Cardinality(Joined) - Cardinality(Counted)
  <2>1. Cardinality(Rest) = Cardinality(Joined) - Cardinality(Joined \cap Counted)
    BY <1>2, FS_Difference DEF Rest
  <2>2. Joined \cap Counted = Counted
    BY <1>3
  <2>3. QED
    BY <2>1, <2>2
<1>11. QED
  BY <1>2, <1>9, <1>10, CountSets

LEMMA IInvCount == IInv => CountIsRight
<1> SUFFICES ASSUME IInv
             PROVE  /\ clientCount = Cardinality(Joined) - Cardinality(Apart) + Cardinality(forgotten)
                    /\ \A c \in forgotten : /\ c \notin open
                                            /\ kind = "iocp" \/ pc[given[c]] \in {"clear", "ended"}
  BY DEF CountIsRight, Joined, Apart
<1>1. /\ ServersOK /\ ForgottenOK
      /\ clientCount = Cardinality(Counted) + Cardinality(forgotten)
  BY DEF IInv, CountOK
<1>2. IsFiniteSet(Apart) /\ Cardinality(Apart) \in Nat
  <2>1. IsFiniteSet(Servers)
    BY ServerNumbers, FS_Interval DEF Servers
  <2>2. QED
    BY <2>1, FS_Subset, FS_CardinalityType DEF Apart
<1>3. clientCount = Cardinality(Joined) - Cardinality(Apart) + Cardinality(forgotten)
  BY <1>1, <1>2, JoinedCardinality, CountSets, ForgottenFinite
<1>4. QED
  BY <1>1, <1>3 DEF ForgottenOK

\* Every variable has its type; _clientCount is never negative, and never
\* above the number of connections accepted.
THEOREM Types == Spec => []TypeOK
BY Inductive, IInvTypes, PTL

\* A client is moved from one list to the other, and deleted, without being
\* lost or listed twice (OnRun, CheckTime and CleanClients of CellServer).
THEOREM Owned == Spec => []ClientsAreOwned
BY Inductive, IInvOwned, PTL

\* OnNetJoin and OnNetLeave keep _clientCount equal to the number of clients
\* listed, but for those that CheckTime only closed, and those of a worker that
\* has cleaned up, for any number of servers and clients.
THEOREM Counting == Spec => []CountIsRight
BY Inductive, IInvCount, PTL

\* Close leaves no connection open but those of a server whose worker failed.
THEOREM Closing == Spec => []CloseClosesAll
BY Inductive, IInvCloses, PTL

=============================================================================
