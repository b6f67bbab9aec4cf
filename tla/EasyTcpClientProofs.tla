------------------------ MODULE EasyTcpClientProofs ------------------------
(***************************************************************************)
(* Theorems about EasyTcpClient, for any number of clients and any sizes.  *)
(*                                                                         *)
(* The inductive invariant has four parts: where the thread is (ThreadOK), *)
(* the buffers and the posted I/O of each client (ClientsOK), the msgIDs   *)
(* in its send buffer (IdsOK), and the connected clients (CountOK).  A     *)
(* part of its own (MadeOK) says which clients are there.                  *)
(***************************************************************************)
EXTENDS EasyTcpClient, SequenceTheorems, FiniteSetTheorems, TLAPS

-----------------------------------------------------------------------------
(* The inductive invariant.                                                *)

ClientRec ==
  [obj : {"null", "made", "deleted"}, pClient : BOOLEAN, bConnect : BOOLEAN,
   sendId : Nat \ {0}, sendCount : 0..NMsg, sendBuf : Seq(Nat), recvBuf : Nat,
   postRead : BOOLEAN, postSend : BOOLEAN, recvIo : Ios, sendIo : Ios,
   port : Seq({"recv", "send"}), server : {"none", "open", "fin", "reset", "stalled"},
   last : Nat, tx : 0..TxCap, rx : 0..1]

\* A client before it is connected.
IsFresh(client) == client = [Null EXCEPT !.obj = client.obj]

Phases == {"create", "init", "loop", "send", "run", "recv", "write", "reap", "close",
           "ended", "crashed"}

\* Where the thread is, and with which client.
ThreadOK ==
  /\ kind \in Kinds /\ bRun \in BOOLEAN /\ canWrite \in BOOLEAN
  /\ pc \in Phases /\ at \in Nat \ {0}
  /\ pc \in {"create", "init", "close", "ended", "crashed"} => at <= NClients + 1
  /\ pc \in {"loop", "run", "recv", "write", "reap"} => at <= NClients
  /\ pc = "send" => at <= NMsg * NClients
  /\ pc \in {"recv", "write"} => kind # "iocp"
  /\ pc = "reap" => kind = "iocp"
  /\ pc \in {"recv", "write", "reap"} => cl[at].bConnect /\ cl[at].pClient
  /\ copied \in Nat /\ (pc # "write" => copied = 0)
  /\ pc = "write" => copied <= Len(cl[at].sendBuf) /\ (copied > 0 => canWrite)
  /\ pc \in {"close", "ended", "crashed"} => ~bRun
  /\ \A c \in Clients : pc = "create" \/ (pc = "init" /\ c >= at) => IsFresh(cl[c])

InPort(what, port) == \E i \in 1..Len(port) : port[i] = what

\* What the port holds are the operations that are done, each once.
PortOK(client) ==
  /\ \A i, j \in 1..Len(client.port) : client.port[i] = client.port[j] => i = j
  /\ InPort("recv", client.port) <=> client.recvIo.st = "done"
  /\ InPort("send", client.port) <=> client.sendIo.st = "done"

Connected(client) == client.bConnect /\ client.pClient

\* The buffers of a client; "polled" says that there are no posted operations.
ClientOK(client, polled) ==
  /\ client \in ClientRec
  /\ PortOK(client)
  /\ Len(client.sendBuf) <= SendCap
  /\ client.last < client.sendId
  /\ ~client.postRead => client.recvIo = NoIo
  /\ ~client.postSend => client.sendIo = NoIo
  /\ ~Connected(client) => client.sendIo = NoIo
  /\ polled => client.recvIo = NoIo /\ client.sendIo = NoIo
  /\ client.recvIo.st = "done" => client.recvIo.n <= 1
  /\ client.sendIo.st \in {"pending", "done"} => client.sendIo.n <= Len(client.sendBuf)

ClientsOK ==
  /\ cl \in [Clients -> ClientRec]
  /\ \A c \in Clients : ClientOK(cl[c], kind # "iocp") /\ cl[c].sendId <= MaxMsgs[kind] + 1

\* A completion whose answer was lost leaves what was read before it.
RecvBufOK ==
  \A c \in Clients :
    cl[c].recvBuf <= (IF cl[c].sendIo.st = "lost" THEN 1 ELSE 0)
                       + (IF pc = "reap" /\ c = at /\ ~cl[c].postRead THEN 1 ELSE 0)

\* How many of the messages in the buffer the kernel has taken.
Taken(c) == IF c = at /\ pc = "write" THEN copied
            ELSE IF cl[c].sendIo.st = "done" THEN cl[c].sendIo.n ELSE 0

\* The buffer goes on where the kernel is, up to the next msgID.
Continues(client, n) ==
  Connected(client) =>
    /\ \A i \in 1..Len(client.sendBuf) : client.sendBuf[i] = client.last - n + i
    /\ Len(client.sendBuf) - n = client.sendId - 1 - client.last

IdsOK == \A c \in Clients : Continues(cl[c], Taken(c))

Running  == {c \in Clients : IsRun(c)}
LostRecv == {c \in Clients : ~IsRun(c) \/ cl[c].recvIo.st = "lost"}
LostSend == {c \in Clients : ~IsRun(c) \/ cl[c].sendIo.st = "lost"}

\* A client fails with each of its two operations once at most.
CountOK ==
  /\ errors \in Nat /\ errors <= Cardinality(LostRecv) + Cardinality(LostSend)
  /\ pc \in {"create", "init"} => errors = 0
  /\ nConnect \in (-2 * NClients)..NClients
  /\ CountIsRight

IInv == ThreadOK /\ ClientsOK /\ RecvBufOK /\ IdsOK /\ CountOK

\* The clients that are there: Create makes them in order, the loops run only when
\* all of them were made, and the end deletes them in order.
MadeOK ==
  /\ \A c, d \in Clients : c <= d /\ cl[c].obj = "null" => cl[d].obj = "null"
  /\ pc = "create" => \A c \in Clients : cl[c].obj = IF c < at THEN "made" ELSE "null"
  /\ pc \notin {"close", "ended", "crashed"} => \A c \in Clients : cl[c].obj # "deleted"
  /\ pc = "close" => \A c \in Clients : c >= at => cl[c].obj # "deleted"
  /\ pc \in {"send", "run", "recv", "write", "reap"} \/ (pc \in {"init", "loop"} /\ bRun) =>
       \A c \in Clients : cl[c].obj = "made"

-----------------------------------------------------------------------------
(* What the steps do to a client.                                          *)

LEMMA Sizes ==
  /\ NClients \in Nat \ {0} /\ NMsg \in Nat \ {0} /\ SendCap \in Nat \ {0} /\ TxCap \in Nat \ {0}
  /\ NClients <= NMsg * NClients /\ NMsg * NClients \in Nat
  /\ \A k \in Kinds : MaxMsgs[k] \in Nat
  /\ Kinds \subseteq {"select", "epoll", "iocp"}
<1>1. NClients \in Nat \ {0} /\ NMsg \in Nat \ {0} /\ SendCap \in Nat \ {0} /\ TxCap \in Nat \ {0}
  BY SizesAssumption
<1>2. NClients <= NMsg * NClients /\ NMsg * NClients \in Nat
  BY <1>1
<1>3. QED
  BY <1>1, <1>2, BoundsAssumption, KindsAssumption

\* The fields that the invariant relates.
SameData(client, new) ==
  /\ new \in ClientRec
  /\ new.pClient = client.pClient /\ new.bConnect = client.bConnect
  /\ new.sendId = client.sendId /\ new.sendBuf = client.sendBuf
  /\ new.recvBuf = client.recvBuf /\ new.last = client.last
  /\ new.postRead = client.postRead /\ new.postSend = client.postSend
  /\ new.recvIo = client.recvIo /\ new.sendIo = client.sendIo /\ new.port = client.port

LEMMA SameClient ==
  ASSUME NEW client, NEW new, SameData(client, new), NEW polled \in BOOLEAN, ClientOK(client, polled), NEW n
  PROVE  /\ ClientOK(new, polled)
         /\ Continues(client, n) => Continues(new, n)
BY DEF SameData, ClientOK, PortOK, Continues, Connected

\* A completion goes to the end of the port.
LEMMA PortAppend ==
  ASSUME NEW port \in Seq({"recv", "send"}), NEW what \in {"recv", "send"}, ~InPort(what, port),
         \A i, j \in 1..Len(port) : port[i] = port[j] => i = j
  PROVE  /\ Append(port, what) \in Seq({"recv", "send"})
         /\ \A i, j \in 1..Len(Append(port, what)) :
              Append(port, what)[i] = Append(port, what)[j] => i = j
         /\ \A w : InPort(w, Append(port, what)) <=> InPort(w, port) \/ w = what
<1> DEFINE new == Append(port, what)
<1>1. /\ new \in Seq({"recv", "send"}) /\ Len(new) = Len(port) + 1 /\ Len(port) \in Nat
      /\ new[Len(port) + 1] = what /\ \A i \in 1..Len(port) : new[i] = port[i]
  OBVIOUS
<1> HIDE DEF new
<1>2. \A i \in 1..Len(port) : port[i] # what
  BY DEF InPort
<1>3. \A i, j \in 1..Len(new) : new[i] = new[j] => i = j
  BY <1>1, <1>2
<1>4. \A w : InPort(w, new) <=> InPort(w, port) \/ w = what
  <2> SUFFICES ASSUME NEW w PROVE InPort(w, new) <=> InPort(w, port) \/ w = what
    OBVIOUS
  <2>1. InPort(w, new) => InPort(w, port) \/ w = what
    BY <1>1 DEF InPort
  <2>2. InPort(w, port) => InPort(w, new)
    <3> SUFFICES ASSUME NEW i \in 1..Len(port), port[i] = w PROVE InPort(w, new)
      BY DEF InPort
    <3>1. i \in 1..Len(new) /\ new[i] = w
      BY <1>1
    <3>2. QED
      BY <3>1 DEF InPort
  <2>3. InPort(what, new)
    BY <1>1 DEF InPort
  <2>4. QED
    BY <2>1, <2>2, <2>3
<1>5. QED
  BY <1>1, <1>3, <1>4 DEF new

\* The first completion is taken from the port.
LEMMA PortTail ==
  ASSUME NEW port \in Seq({"recv", "send"}), port # <<>>,
         \A i, j \in 1..Len(port) : port[i] = port[j] => i = j
  PROVE  /\ Tail(port) \in Seq({"recv", "send"})
         /\ Head(port) \in {"recv", "send"} /\ InPort(Head(port), port)
         /\ \A i, j \in 1..Len(Tail(port)) : Tail(port)[i] = Tail(port)[j] => i = j
         /\ \A w : InPort(w, Tail(port)) <=> InPort(w, port) /\ w # Head(port)
<1> DEFINE new == Tail(port)  head == Head(port)
<1>1. /\ new \in Seq({"recv", "send"}) /\ Len(new) = Len(port) - 1 /\ Len(port) \in Nat \ {0}
      /\ head = port[1] /\ \A i \in 1..(Len(port) - 1) : new[i] = port[i + 1]
  OBVIOUS
<1> HIDE DEF new, head
<1>2. head \in {"recv", "send"} /\ InPort(head, port)
  BY <1>1 DEF InPort
<1>3. \A i, j \in 1..Len(new) : new[i] = new[j] => i = j
  <2> SUFFICES ASSUME NEW i \in 1..Len(new), NEW j \in 1..Len(new), new[i] = new[j] PROVE i = j
    OBVIOUS
  <2>1. i + 1 \in 1..Len(port) /\ j + 1 \in 1..Len(port) /\ port[i + 1] = port[j + 1]
    BY <1>1
  <2>2. i + 1 = j + 1
    BY <2>1
  <2>3. QED
    BY <2>2, <1>1
<1>4. \A w : InPort(w, new) <=> InPort(w, port) /\ w # head
  <2> SUFFICES ASSUME NEW w PROVE InPort(w, new) <=> InPort(w, port) /\ w # head
    OBVIOUS
  <2>1. ASSUME NEW i \in 1..Len(new), new[i] = w PROVE InPort(w, port) /\ w # head
    <3>1. i + 1 \in 1..Len(port) /\ port[i + 1] = w /\ i + 1 # 1 /\ 1 \in 1..Len(port)
      BY <1>1, <2>1
    <3>2. QED
      BY <3>1, <1>1 DEF InPort
  <2>2. ASSUME NEW i \in 1..Len(port), port[i] = w, w # head PROVE InPort(w, new)
    <3>1. i - 1 \in 1..Len(new) /\ new[i - 1] = w
      BY <1>1, <2>2
    <3>2. QED
      BY <3>1 DEF InPort
  <2>3. QED
    BY <2>1, <2>2 DEF InPort
<1>5. QED
  BY <1>1, <1>2, <1>3, <1>4 DEF new, head

LEMMA RecvDone ==
  ASSUME NEW r, NEW polled \in BOOLEAN, ClientOK(r, polled), r.recvIo.st = "pending",
         NEW n \in 0..1, NEW new \in {[r EXCEPT !.recvIo = [st |-> "done", n |-> n], !.rx = x,
                                               !.port = Append(@, "recv")] : x \in {0, r.rx}}
  PROVE  ClientOK(new, polled) /\ \A k : Continues(r, k) => Continues(new, k)
<1>1. PICK x \in {0, r.rx} : new = [r EXCEPT !.recvIo = [st |-> "done", n |-> n], !.rx = x,
                                             !.port = Append(@, "recv")]
  OBVIOUS
<1>2. r \in ClientRec /\ PortOK(r) /\ ~polled /\ r.postRead /\ x \in 0..1
  BY <1>1 DEF ClientOK, NoIo, ClientRec
<1>3. [st |-> "done", n |-> n] \in Ios
  BY Sizes DEF Ios
<1>4. r.port \in Seq({"recv", "send"}) /\ ~InPort("recv", r.port)
  BY <1>2 DEF ClientRec, PortOK
<1>5. /\ Append(r.port, "recv") \in Seq({"recv", "send"})
      /\ \A i, j \in 1..Len(Append(r.port, "recv")) :
           Append(r.port, "recv")[i] = Append(r.port, "recv")[j] => i = j
      /\ \A w : InPort(w, Append(r.port, "recv")) <=> InPort(w, r.port) \/ w = "recv"
  BY <1>2, <1>4, PortAppend DEF PortOK
<1>6. new \in ClientRec
  BY <1>1, <1>2, <1>3, <1>5 DEF ClientRec
<1>7. /\ new.recvIo = [st |-> "done", n |-> n] /\ new.port = Append(r.port, "recv")
      /\ new.sendIo = r.sendIo /\ new.sendBuf = r.sendBuf /\ new.last = r.last
      /\ new.sendId = r.sendId /\ new.postRead = r.postRead /\ new.postSend = r.postSend
      /\ new.bConnect = r.bConnect /\ new.pClient = r.pClient
  BY <1>1, <1>2 DEF ClientRec
<1>8. PortOK(new)
  BY <1>2, <1>5, <1>7 DEF PortOK
<1>9. QED
  BY <1>2, <1>6, <1>7, <1>8 DEF ClientOK, Continues, Connected

\* The kernel has taken n messages of a send.
LEMMA SendDone ==
  ASSUME NEW r, NEW polled \in BOOLEAN, ClientOK(r, polled), r.sendIo.st = "pending", Continues(r, 0),
         NEW n \in 0..r.sendIo.n, r.tx + n <= TxCap,
         NEW new, new = [r EXCEPT !.sendIo = [st |-> "done", n |-> n], !.port = Append(@, "send"),
                                  !.tx = @ + n, !.last = IF n = 0 THEN @ ELSE r.sendBuf[n]]
  PROVE  ClientOK(new, polled) /\ Continues(new, n)
<1>1. r \in ClientRec /\ PortOK(r) /\ ~polled /\ r.postSend /\ Connected(r)
  BY DEF ClientOK, NoIo, ClientRec
<1>2. /\ r.sendIo \in Ios /\ r.sendIo.n \in 0..SendCap /\ r.sendIo.n <= Len(r.sendBuf)
      /\ r.sendBuf \in Seq(Nat) /\ Len(r.sendBuf) \in Nat /\ r.last \in Nat /\ r.sendId \in Nat
      /\ r.tx \in 0..TxCap /\ r.port \in Seq({"recv", "send"})
  BY <1>1 DEF ClientOK, ClientRec, Ios
<1>3. n \in Nat /\ n \in 0..SendCap /\ n <= Len(r.sendBuf)
  BY <1>2, Sizes
<1>4. [st |-> "done", n |-> n] \in Ios
  BY <1>3 DEF Ios
<1> DEFINE last == IF n = 0 THEN r.last ELSE r.sendBuf[n]
<1>5. /\ \A i \in 1..Len(r.sendBuf) : r.sendBuf[i] = r.last + i
      /\ Len(r.sendBuf) = r.sendId - 1 - r.last
  BY <1>1, <1>2 DEF Continues
<1>6. last = r.last + n
  BY <1>2, <1>3, <1>5
<1> HIDE DEF last
<1>7. last \in Nat /\ last < r.sendId
  <2>1. r.last + n <= r.last + (r.sendId - 1 - r.last)
    BY <1>2, <1>3, <1>5
  <2>2. QED
    BY <1>2, <1>3, <1>6, <2>1
<1>8. /\ Append(r.port, "send") \in Seq({"recv", "send"})
      /\ \A i, j \in 1..Len(Append(r.port, "send")) :
           Append(r.port, "send")[i] = Append(r.port, "send")[j] => i = j
      /\ \A w : InPort(w, Append(r.port, "send")) <=> InPort(w, r.port) \/ w = "send"
  BY <1>1, <1>2, PortAppend DEF PortOK
<1>9. r.tx + n \in 0..TxCap
  BY <1>2, <1>3, Sizes
<1>10. new \in ClientRec
  BY <1>1, <1>4, <1>7, <1>8, <1>9 DEF ClientRec, last
<1>11. /\ new.sendIo = [st |-> "done", n |-> n] /\ new.port = Append(r.port, "send")
       /\ new.recvIo = r.recvIo /\ new.sendBuf = r.sendBuf /\ new.last = last
       /\ new.sendId = r.sendId /\ new.postRead = r.postRead /\ new.postSend = r.postSend
       /\ new.bConnect = r.bConnect /\ new.pClient = r.pClient
  BY <1>1 DEF ClientRec, last
<1>12. PortOK(new)
  BY <1>1, <1>8, <1>11 DEF PortOK
<1>13. ClientOK(new, polled)
  BY <1>1, <1>3, <1>7, <1>10, <1>11, <1>12 DEF ClientOK, Connected
<1>14. Continues(new, n)
  <2>1. new.last - n = r.last
    BY <1>2, <1>3, <1>6, <1>11
  <2>2. Len(new.sendBuf) - n = new.sendId - 1 - new.last
    BY <1>2, <1>3, <1>5, <1>6, <1>11
  <2>3. \A i \in 1..Len(new.sendBuf) : new.sendBuf[i] = new.last - n + i
    BY <1>5, <1>11, <2>1
  <2>4. QED
    BY <2>2, <2>3 DEF Continues
<1>15. QED
  BY <1>13, <1>14

\* Close, and what a client is before it is connected.
LEMMA UnconnectedClient ==
  ASSUME NEW r, NEW polled \in BOOLEAN, ClientOK(r, polled)
  PROVE  /\ ClientOK(Unconnected(r), polled) /\ ~Connected(Unconnected(r))
         /\ Unconnected(r).sendId = r.sendId /\ Unconnected(r).recvBuf = 0
         /\ Unconnected(r).obj = r.obj
<1>1. r \in ClientRec /\ r.last < r.sendId
  BY DEF ClientOK
<1>2. NoIo \in Ios /\ 0 \in 0..TxCap /\ <<>> \in Seq(Nat) /\ <<>> \in Seq({"recv", "send"})
  BY Sizes DEF Ios, NoIo
<1> DEFINE new == Unconnected(r)
<1>3. new \in ClientRec
  <2> DEFINE half == [r EXCEPT !.pClient = FALSE, !.bConnect = FALSE, !.sendBuf = <<>>,
                               !.recvBuf = 0, !.postRead = FALSE, !.postSend = FALSE]
  <2>1. half \in ClientRec
    BY <1>1, <1>2 DEF ClientRec
  <2> DEFINE more == [half EXCEPT !.recvIo = NoIo, !.sendIo = NoIo, !.port = <<>>]
  <2>2. new = [more EXCEPT !.server = "none", !.tx = 0, !.rx = 0]
    BY <1>1 DEF Unconnected, ClientRec
  <2> HIDE DEF new, half
  <2>3. more \in ClientRec
    BY <1>2, <2>1 DEF ClientRec
  <2> HIDE DEF more
  <2>4. [more EXCEPT !.server = "none"] \in ClientRec
    BY <2>3 DEF ClientRec
  <2>5. [more EXCEPT !.server = "none", !.tx = 0] \in ClientRec
    BY <1>2, <2>4 DEF ClientRec
  <2>6. [more EXCEPT !.server = "none", !.tx = 0, !.rx = 0] \in ClientRec
    BY <1>2, <2>5, 0 \in 0..1 DEF ClientRec
  <2>7. QED
    BY <2>2, <2>6
<1>4. /\ new.obj = r.obj /\ new.pClient = FALSE /\ new.bConnect = FALSE /\ new.sendBuf = <<>>
      /\ new.recvBuf = 0 /\ new.recvIo = NoIo /\ new.sendIo = NoIo /\ new.port = <<>>
      /\ new.last = r.last /\ new.sendId = r.sendId
  BY <1>1 DEF Unconnected, ClientRec
<1> HIDE DEF new
<1>5. PortOK(new)
  BY <1>4 DEF PortOK, InPort, NoIo
<1>6. ClientOK(new, polled)
  BY <1>1, <1>3, <1>4, <1>5, Sizes DEF ClientOK, NoIo
<1>7. QED
  BY <1>4, <1>6 DEF new, Connected

\* Connect.
LEMMA ConnectedClient ==
  ASSUME NEW r, NEW polled \in BOOLEAN, ClientOK(r, polled), IsFresh(r),
         NEW new, new = [r EXCEPT !.pClient = TRUE, !.bConnect = TRUE, !.server = "open"]
  PROVE  ClientOK(new, polled) /\ Continues(new, 0)
<1>1. r \in ClientRec
  BY DEF ClientOK
<1>2. /\ r.sendId = 1 /\ r.last = 0 /\ r.sendBuf = <<>> /\ r.sendIo = NoIo
  BY DEF IsFresh, Null
<1>3. /\ new \in ClientRec /\ new.sendId = r.sendId /\ new.last = r.last /\ new.sendBuf = r.sendBuf
      /\ new.recvIo = r.recvIo /\ new.sendIo = r.sendIo /\ new.port = r.port
      /\ new.postRead = r.postRead /\ new.postSend = r.postSend
  BY <1>1 DEF ClientRec
<1>4. QED
  BY <1>2, <1>3 DEF ClientOK, PortOK, Continues, Connected

\* sendTest takes one more message.
LEMMA SentClient ==
  ASSUME NEW r, NEW polled \in BOOLEAN, ClientOK(r, polled), r.sendCount > 0,
         Len(r.sendBuf) < SendCap,
         NEW new, new = [r EXCEPT !.sendBuf = Append(@, r.sendId), !.sendId = @ + 1,
                                  !.sendCount = @ - 1]
  PROVE  /\ ClientOK(new, polled)
         /\ \A n \in Nat : Continues(r, n) => Continues(new, n)
<1>1. /\ r \in ClientRec /\ r.sendBuf \in Seq(Nat) /\ Len(r.sendBuf) \in Nat
      /\ r.sendId \in Nat \ {0} /\ r.last \in Nat /\ r.sendCount \in 0..NMsg
      /\ r.sendIo \in Ios /\ r.sendIo.n \in Nat
  BY DEF ClientOK, ClientRec, Ios
<1> DEFINE buf == Append(r.sendBuf, r.sendId)
<1>2. /\ buf \in Seq(Nat) /\ Len(buf) = Len(r.sendBuf) + 1 /\ buf[Len(r.sendBuf) + 1] = r.sendId
      /\ \A i \in 1..Len(r.sendBuf) : buf[i] = r.sendBuf[i]
  BY <1>1
<1>3. r.sendCount - 1 \in 0..NMsg /\ r.sendId + 1 \in Nat \ {0}
  <2> DEFINE count == r.sendCount  id == r.sendId
  <2>1. count \in 0..NMsg /\ count > 0 /\ id \in Nat \ {0}
    BY <1>1
  <2> HIDE DEF count, id
  <2>2. count - 1 \in 0..NMsg
    BY <2>1, Sizes
  <2>3. id + 1 \in Nat \ {0}
    BY <2>1
  <2>4. QED
    BY <2>2, <2>3 DEF count, id
<1>4. new \in ClientRec
  <2>1. new = [r EXCEPT !.sendBuf = buf, !.sendId = r.sendId + 1, !.sendCount = r.sendCount - 1]
    BY <1>1 DEF ClientRec
  <2>2. QED
    BY <1>1, <1>2, <1>3, <2>1 DEF ClientRec
<1>5. /\ new.sendId = r.sendId + 1 /\ new.last = r.last /\ new.sendBuf = buf
      /\ new.recvIo = r.recvIo /\ new.sendIo = r.sendIo /\ new.port = r.port
      /\ new.postRead = r.postRead /\ new.postSend = r.postSend
      /\ new.bConnect = r.bConnect /\ new.pClient = r.pClient
  BY <1>1 DEF ClientRec
<1> HIDE DEF buf
<1>6. PortOK(new)
  BY <1>5 DEF ClientOK, PortOK
<1>7. Len(buf) <= SendCap /\ new.last < new.sendId
  BY <1>1, <1>2, <1>5, Sizes DEF ClientOK
<1>8. new.sendIo.st \in {"pending", "done"} => new.sendIo.n <= Len(buf)
  BY <1>1, <1>2, <1>5 DEF ClientOK
<1>9. ClientOK(new, polled)
  BY <1>4, <1>5, <1>6, <1>7, <1>8 DEF ClientOK, Connected
<1>10. ASSUME NEW n \in Nat, Continues(r, n), Connected(new)
       PROVE  /\ \A i \in 1..Len(buf) : buf[i] = new.last - n + i
              /\ Len(buf) - n = new.sendId - 1 - new.last
  <2>1. /\ \A i \in 1..Len(r.sendBuf) : r.sendBuf[i] = r.last - n + i
        /\ Len(r.sendBuf) - n = r.sendId - 1 - r.last
    BY <1>5, <1>10 DEF Continues, Connected
  <2> DEFINE len == Len(r.sendBuf)  id == r.sendId  last == r.last
  <2>5. len \in Nat /\ id \in Nat /\ last \in Nat /\ n \in Nat /\ len - n = id - 1 - last
    BY <1>1, <1>10, <2>1
  <2> HIDE DEF len, id, last
  <2>6. (len + 1) - n = (id + 1) - 1 - last /\ id = last - n + (len + 1)
    BY <2>5
  <2>2. Len(buf) - n = new.sendId - 1 - new.last
    BY <1>2, <1>5, <2>6 DEF len, id, last
  <2>3. ASSUME NEW i \in 1..Len(buf) PROVE buf[i] = new.last - n + i
    <3>1. CASE i \in 1..Len(r.sendBuf)
      BY <1>2, <1>5, <2>1, <3>1
    <3>2. CASE i = Len(r.sendBuf) + 1
      <4>1. buf[i] = r.sendId
        BY <1>2, <3>2
      <4>2. r.sendId = r.last - n + (Len(r.sendBuf) + 1)
        BY <2>6 DEF len, id, last
      <4>3. QED
        BY <1>5, <3>2, <4>1, <4>2
    <3>3. QED
      BY <1>1, <1>2, <3>1, <3>2
  <2>4. QED
    BY <2>2, <2>3
<1>11. QED
  BY <1>5, <1>9, <1>10 DEF Continues

\* What is left of a buffer without its first n messages.
LEMMA RestOfBuffer ==
  ASSUME NEW buf \in Seq(Nat), NEW n \in 0..Len(buf)
  PROVE  /\ SubSeq(buf, n + 1, Len(buf)) \in Seq(Nat)
         /\ Len(SubSeq(buf, n + 1, Len(buf))) = Len(buf) - n
         /\ \A i \in 1..(Len(buf) - n) : SubSeq(buf, n + 1, Len(buf))[i] = buf[n + i]
<1>1. Len(buf) \in Nat /\ n \in Nat /\ n <= Len(buf)
  OBVIOUS
<1>2. SubSeq(buf, n + 1, Len(buf)) \in Seq(Nat)
  BY <1>1
<1>3. Len(SubSeq(buf, n + 1, Len(buf))) = Len(buf) - n
  BY <1>1
<1>4. ASSUME NEW i \in 1..(Len(buf) - n) PROVE SubSeq(buf, n + 1, Len(buf))[i] = buf[n + i]
  BY <1>1
<1>5. QED
  BY <1>2, <1>3, <1>4

\* send() has copied the first n messages.
LEMMA ReturnedClient ==
  ASSUME NEW r, ClientOK(r, TRUE), NEW n \in 0..Len(r.sendBuf),
         NEW new, new = [r EXCEPT !.sendBuf = SubSeq(@, n + 1, Len(@))]
  PROVE  ClientOK(new, TRUE) /\ (Continues(r, n) => Continues(new, 0))
<1>1. /\ r \in ClientRec /\ r.sendBuf \in Seq(Nat) /\ Len(r.sendBuf) \in Nat /\ n \in Nat
      /\ r.sendId \in Nat /\ r.last \in Nat /\ r.recvIo = NoIo /\ r.sendIo = NoIo
  BY DEF ClientOK, ClientRec
<1> DEFINE buf == SubSeq(r.sendBuf, n + 1, Len(r.sendBuf))
<1>2. /\ buf \in Seq(Nat) /\ Len(buf) = Len(r.sendBuf) - n
      /\ \A i \in 1..(Len(r.sendBuf) - n) : buf[i] = r.sendBuf[n + i]
  BY <1>1, RestOfBuffer
<1>3. new = [r EXCEPT !.sendBuf = buf]
  BY <1>1 DEF ClientRec
<1> HIDE DEF buf
<1>4. /\ new \in ClientRec /\ new.sendId = r.sendId /\ new.last = r.last /\ new.sendBuf = buf
      /\ new.recvIo = r.recvIo /\ new.sendIo = r.sendIo /\ new.port = r.port
      /\ new.postRead = r.postRead /\ new.postSend = r.postSend
      /\ new.bConnect = r.bConnect /\ new.pClient = r.pClient
  BY <1>1, <1>2, <1>3 DEF ClientRec
<1>5. Len(buf) <= SendCap
  BY <1>1, <1>2, Sizes DEF ClientOK
<1>6. ClientOK(new, TRUE)
  BY <1>4, <1>5 DEF ClientOK, PortOK, Connected, NoIo
<1>7. ASSUME Continues(r, n), Connected(new)
      PROVE  /\ \A i \in 1..Len(buf) : buf[i] = new.last - 0 + i
             /\ Len(buf) - 0 = new.sendId - 1 - new.last
  <2>1. /\ \A i \in 1..Len(r.sendBuf) : r.sendBuf[i] = r.last - n + i
        /\ Len(r.sendBuf) - n = r.sendId - 1 - r.last
    BY <1>4, <1>7 DEF Continues, Connected
  <2>2. ASSUME NEW i \in 1..Len(buf) PROVE buf[i] = new.last - 0 + i
    <3> DEFINE len == Len(r.sendBuf)
    <3>4. len \in Nat /\ n \in Nat /\ i \in 1..(len - n) /\ buf[i] = r.sendBuf[n + i]
      BY <1>1, <1>2, <2>2
    <3> HIDE DEF len
    <3>5. i \in Nat /\ n + i \in 1..len
      BY <3>4
    <3>1. i \in Nat /\ n + i \in 1..Len(r.sendBuf) /\ buf[i] = r.sendBuf[n + i]
      BY <3>4, <3>5 DEF len
    <3>2. r.sendBuf[n + i] = r.last - n + (n + i)
      BY <2>1, <3>1
    <3>3. QED
      BY <1>1, <1>4, <3>1, <3>2
  <2>3. QED
    BY <1>1, <1>2, <1>4, <2>1, <2>2
<1>8. QED
  BY <1>4, <1>6, <1>7 DEF Continues

\* send() has copied one more message.
LEMMA CopiedClient ==
  ASSUME NEW r, ClientOK(r, TRUE), Connected(r), NEW n \in Nat, n < Len(r.sendBuf), Continues(r, n),
         r.tx < TxCap, NEW new, new = [r EXCEPT !.tx = @ + 1, !.last = r.sendBuf[n + 1]]
  PROVE  ClientOK(new, TRUE) /\ Continues(new, n + 1)
<1>1. /\ r \in ClientRec /\ r.sendBuf \in Seq(Nat) /\ Len(r.sendBuf) \in Nat
      /\ r.sendId \in Nat /\ r.last \in Nat /\ r.tx \in 0..TxCap
  BY DEF ClientOK, ClientRec
<1>2. /\ \A i \in 1..Len(r.sendBuf) : r.sendBuf[i] = r.last - n + i
      /\ Len(r.sendBuf) - n = r.sendId - 1 - r.last
  BY DEF Continues
<1> DEFINE len == Len(r.sendBuf)  id == r.sendId  last == r.last  tx == r.tx
<1>3. /\ len \in Nat /\ id \in Nat /\ last \in Nat /\ tx \in 0..TxCap /\ tx < TxCap /\ n < len
      /\ \A i \in 1..len : r.sendBuf[i] = last - n + i
      /\ len - n = id - 1 - last
  BY <1>1, <1>2
<1> HIDE DEF len, id, last, tx
<1>4. r.sendBuf[n + 1] = last + 1
  <2>1. n + 1 \in 1..len
    BY <1>3
  <2>2. QED
    BY <1>3, <2>1
<1>5. /\ last + 1 < id /\ last + 1 \in Nat /\ tx + 1 \in 0..TxCap
      /\ (last + 1) - (n + 1) = last - n /\ len - (n + 1) = id - 1 - (last + 1)
  <2>1. last + 1 < id /\ last + 1 \in Nat
    BY <1>3
  <2>2. tx + 1 \in 0..TxCap
    BY <1>3, Sizes
  <2>3. (last + 1) - (n + 1) = last - n /\ len - (n + 1) = id - 1 - (last + 1)
    BY <1>3
  <2>4. QED
    BY <2>1, <2>2, <2>3
<1>6. new = [r EXCEPT !.tx = tx + 1, !.last = last + 1]
  BY <1>1, <1>4 DEF ClientRec, tx
<1>7. /\ new \in ClientRec /\ new.sendId = r.sendId /\ new.last = last + 1
      /\ new.sendBuf = r.sendBuf
      /\ new.recvIo = r.recvIo /\ new.sendIo = r.sendIo /\ new.port = r.port
      /\ new.postRead = r.postRead /\ new.postSend = r.postSend
      /\ new.bConnect = r.bConnect /\ new.pClient = r.pClient
  BY <1>1, <1>5, <1>6 DEF ClientRec
<1>8. ClientOK(new, TRUE)
  BY <1>5, <1>7 DEF ClientOK, PortOK, Connected, id
<1>9. /\ \A i \in 1..Len(new.sendBuf) : new.sendBuf[i] = new.last - (n + 1) + i
      /\ Len(new.sendBuf) - (n + 1) = new.sendId - 1 - new.last
  BY <1>3, <1>5, <1>7 DEF len, id
<1>10. QED
  BY <1>8, <1>9 DEF Continues

\* postWrite and postRead.
Posts(client, new) ==
  \E s, q \in {"pending", "refused"} : new = WithRead(WithSend(client, s), q)

LEMMA PostedClient ==
  ASSUME NEW r, ClientOK(r, FALSE), Connected(r), NEW all, Posts(r, all), NEW n, Continues(r, n)
  PROVE  /\ ClientOK(all, FALSE) /\ Connected(all) /\ Continues(all, n)
         /\ all.sendId = r.sendId /\ all.recvBuf = r.recvBuf
         /\ all.sendIo.st = "done" => r.sendIo.st = "done"
         /\ r.sendIo.st = "done" => all.sendIo = r.sendIo
         /\ r.recvIo.st = "lost" => all.recvIo.st = "lost"
         /\ r.sendIo.st = "lost" => all.sendIo.st = "lost"
<1> PICK s \in {"pending", "refused"}, q \in {"pending", "refused"} : all = WithRead(WithSend(r, s), q)
  BY DEF Posts
<1>1. /\ r \in ClientRec /\ r.sendBuf \in Seq(Nat) /\ Len(r.sendBuf) \in Nat
      /\ Len(r.sendBuf) <= SendCap /\ PortOK(r)
  BY DEF ClientOK, ClientRec
<1>2. Posted(s, Len(r.sendBuf)) \in Ios /\ Posted(q, 0) \in Ios
  BY <1>1, Sizes DEF Posted, Lost, Ios
<1>3. /\ Posted(s, Len(r.sendBuf)).st \in {"pending", "lost"}
      /\ Posted(s, Len(r.sendBuf)).st = "pending" => Posted(s, Len(r.sendBuf)).n = Len(r.sendBuf)
      /\ Posted(q, 0).st \in {"pending", "lost"}
  BY DEF Posted, Lost
<1> DEFINE mid == WithSend(r, s)
<1>4. /\ ClientOK(mid, FALSE) /\ Connected(mid)
      /\ mid.obj = r.obj /\ mid.sendBuf = r.sendBuf /\ mid.sendId = r.sendId
      /\ mid.recvBuf = r.recvBuf /\ mid.last = r.last
      /\ mid.sendIo.st = "done" <=> r.sendIo.st = "done"
      /\ r.sendIo.st = "done" => mid.sendIo = r.sendIo
      /\ r.recvIo.st = "lost" => mid.recvIo.st = "lost"
      /\ r.sendIo.st = "lost" => mid.sendIo.st = "lost"
  <2>1. CASE r.sendBuf # <<>> /\ ~r.postSend
    <3>1. r.sendIo = NoIo
      BY <2>1 DEF ClientOK
    <3>2. mid = [r EXCEPT !.postSend = TRUE, !.sendIo = Posted(s, Len(r.sendBuf))]
      BY <2>1 DEF WithSend
    <3> HIDE DEF mid
    <3>3. /\ mid \in ClientRec /\ mid.sendIo = Posted(s, Len(r.sendBuf)) /\ mid.postSend
          /\ mid.obj = r.obj /\ mid.sendBuf = r.sendBuf /\ mid.sendId = r.sendId
          /\ mid.recvBuf = r.recvBuf /\ mid.last = r.last /\ mid.recvIo = r.recvIo
          /\ mid.postRead = r.postRead /\ mid.port = r.port
          /\ mid.bConnect = r.bConnect /\ mid.pClient = r.pClient
      BY <1>1, <1>2, <3>2 DEF ClientRec
    <3>4. PortOK(mid)
      BY <1>1, <1>3, <3>1, <3>3 DEF PortOK, NoIo
    <3>5. mid.sendIo.st \in {"pending", "done"} => mid.sendIo.n <= Len(mid.sendBuf)
      BY <1>1, <1>3, <3>3
    <3>6. ClientOK(mid, FALSE) /\ Connected(mid)
      BY <3>3, <3>4, <3>5 DEF ClientOK, Connected
    <3>7. r.sendIo.st = "none" /\ mid.sendIo.st \in {"pending", "lost"}
      BY <1>3, <3>1, <3>3 DEF NoIo
    <3>8. ~(r.sendIo.st = "done") /\ ~(mid.sendIo.st = "done") /\ ~(r.sendIo.st = "lost")
      BY <3>7
    <3>9. QED
      BY <3>3, <3>6, <3>8
  <2>2. CASE ~(r.sendBuf # <<>> /\ ~r.postSend)
    BY <2>2 DEF WithSend
  <2>3. QED
    BY <2>1, <2>2
<1> HIDE DEF mid
<1> DEFINE new == WithRead(mid, q)
<1>5. /\ ClientOK(new, FALSE) /\ Connected(new)
      /\ new.obj = mid.obj /\ new.sendBuf = mid.sendBuf /\ new.sendId = mid.sendId
      /\ new.recvBuf = mid.recvBuf /\ new.last = mid.last /\ new.sendIo = mid.sendIo
      /\ mid.recvIo.st = "lost" => new.recvIo.st = "lost"
  <2>1. CASE ~mid.postRead
    <3>1. mid.recvIo = NoIo /\ mid \in ClientRec /\ PortOK(mid)
      BY <1>4, <2>1 DEF ClientOK
    <3>2. new = [mid EXCEPT !.postRead = TRUE, !.recvIo = Posted(q, 0)]
      BY <2>1 DEF WithRead
    <3> HIDE DEF new
    <3>3. /\ new \in ClientRec /\ new.recvIo = Posted(q, 0) /\ new.postRead
          /\ new.obj = mid.obj /\ new.sendBuf = mid.sendBuf /\ new.sendId = mid.sendId
          /\ new.recvBuf = mid.recvBuf /\ new.last = mid.last /\ new.sendIo = mid.sendIo
          /\ new.postSend = mid.postSend /\ new.port = mid.port
          /\ new.bConnect = mid.bConnect /\ new.pClient = mid.pClient
      BY <1>2, <3>1, <3>2 DEF ClientRec
    <3>4. PortOK(new)
      BY <1>3, <3>1, <3>3 DEF PortOK, NoIo
    <3>5. ClientOK(new, FALSE) /\ Connected(new)
      BY <1>3, <1>4, <3>3, <3>4 DEF ClientOK, Connected
    <3>6. ~(mid.recvIo.st = "lost")
      BY <3>1 DEF NoIo
    <3>7. QED
      BY <3>3, <3>5, <3>6
  <2>2. CASE mid.postRead
    BY <1>4, <2>2 DEF WithRead
  <2>3. QED
    BY <2>1, <2>2
<1> HIDE DEF new
<1>6. Continues(new, n)
  BY <1>4, <1>5 DEF Continues
<1>7. new = all
  BY DEF new, mid
<1>8. QED
  BY <1>4, <1>5, <1>6, <1>7

\* A completion with data is taken: the client has read more ...
LEMMA ReapedRecv ==
  ASSUME NEW r, ClientOK(r, FALSE), Connected(r), r.port # <<>>, Head(r.port) = "recv",
         NEW new, new = [r EXCEPT !.port = Tail(@), !.recvIo = NoIo, !.postRead = FALSE,
                                  !.recvBuf = @ + r.recvIo.n], NEW n, Continues(r, n)
  PROVE  /\ ClientOK(new, FALSE) /\ Continues(new, n)
         /\ r.postRead /\ r.recvIo.st = "done" /\ r.recvIo.n \in 0..1
         /\ new.recvBuf = r.recvBuf + r.recvIo.n /\ new.sendIo = r.sendIo /\ ~new.postRead
         /\ new.obj = r.obj /\ new.sendId = r.sendId /\ Connected(new)
<1>1. /\ r \in ClientRec /\ PortOK(r) /\ r.port \in Seq({"recv", "send"}) /\ r.recvBuf \in Nat
      /\ r.recvIo \in Ios /\ r.recvIo.n \in Nat
  BY DEF ClientOK, ClientRec, Ios
<1>2. /\ Tail(r.port) \in Seq({"recv", "send"}) /\ InPort("recv", r.port)
      /\ \A i, j \in 1..Len(Tail(r.port)) : Tail(r.port)[i] = Tail(r.port)[j] => i = j
      /\ \A w : InPort(w, Tail(r.port)) <=> InPort(w, r.port) /\ w # "recv"
  BY <1>1, PortTail DEF PortOK
<1>3. r.recvIo.st = "done" /\ r.recvIo.n \in 0..1 /\ r.postRead
  BY <1>1, <1>2 DEF PortOK, ClientOK, NoIo
<1>4. NoIo \in Ios /\ r.recvBuf + r.recvIo.n \in Nat
  BY <1>1, Sizes DEF Ios, NoIo
<1>5. new = [r EXCEPT !.port = Tail(r.port), !.recvIo = NoIo, !.postRead = FALSE,
                      !.recvBuf = r.recvBuf + r.recvIo.n]
  BY <1>1 DEF ClientRec
<1>9. new \in ClientRec
  <2> DEFINE mid == [r EXCEPT !.port = Tail(r.port), !.recvIo = NoIo]
  <2>1. mid \in ClientRec
    BY <1>1, <1>2, <1>4 DEF ClientRec
  <2>2. new = [mid EXCEPT !.postRead = FALSE, !.recvBuf = r.recvBuf + r.recvIo.n]
    BY <1>5
  <2> HIDE DEF mid
  <2>3. QED
    BY <1>4, <2>1, <2>2 DEF ClientRec
<1>6. /\ new \in ClientRec /\ new.sendId = r.sendId /\ new.last = r.last /\ new.obj = r.obj
      /\ new.recvBuf = r.recvBuf + r.recvIo.n /\ ~new.postRead
      /\ new.sendBuf = r.sendBuf /\ new.recvIo = NoIo /\ new.sendIo = r.sendIo
      /\ new.port = Tail(r.port) /\ new.postSend = r.postSend
      /\ new.bConnect = r.bConnect /\ new.pClient = r.pClient
  BY <1>1, <1>5, <1>9 DEF ClientRec
<1>7. PortOK(new)
  BY <1>1, <1>2, <1>6 DEF PortOK, NoIo
<1>8. QED
  BY <1>3, <1>6, <1>7 DEF ClientOK, Continues, Connected, NoIo

\* ... or the messages that were sent leave the buffer.
LEMMA ReapedSend ==
  ASSUME NEW r, ClientOK(r, FALSE), r.port # <<>>, Head(r.port) = "send",
         NEW new, new = [r EXCEPT !.port = Tail(@), !.sendIo = NoIo, !.postSend = FALSE,
                                  !.sendBuf = SubSeq(@, r.sendIo.n + 1, Len(@))]
  PROVE  /\ ClientOK(new, FALSE) /\ (Continues(r, r.sendIo.n) => Continues(new, 0))
         /\ r.sendIo.st = "done" /\ new.sendIo = NoIo /\ new.recvIo = r.recvIo
         /\ new.recvBuf = r.recvBuf /\ new.postRead = r.postRead
         /\ new.obj = r.obj /\ new.sendId = r.sendId /\ (Connected(new) <=> Connected(r))
<1>1. /\ r \in ClientRec /\ PortOK(r) /\ r.port \in Seq({"recv", "send"})
      /\ r.sendBuf \in Seq(Nat) /\ Len(r.sendBuf) \in Nat /\ Len(r.sendBuf) <= SendCap
      /\ r.sendIo \in Ios /\ r.sendIo.n \in Nat /\ r.sendId \in Nat /\ r.last \in Nat
  BY DEF ClientOK, ClientRec, Ios
<1>2. /\ Tail(r.port) \in Seq({"recv", "send"}) /\ InPort("send", r.port)
      /\ \A i, j \in 1..Len(Tail(r.port)) : Tail(r.port)[i] = Tail(r.port)[j] => i = j
      /\ \A w : InPort(w, Tail(r.port)) <=> InPort(w, r.port) /\ w # "send"
  BY <1>1, PortTail DEF PortOK
<1>3. r.sendIo.st = "done" /\ r.sendIo.n <= Len(r.sendBuf)
  BY <1>1, <1>2 DEF PortOK, ClientOK
<1>4. NoIo \in Ios /\ r.sendIo.n \in 0..Len(r.sendBuf)
  BY <1>1, <1>3, Sizes DEF Ios, NoIo
<1> DEFINE buf == SubSeq(r.sendBuf, r.sendIo.n + 1, Len(r.sendBuf))
<1>5. /\ buf \in Seq(Nat) /\ Len(buf) = Len(r.sendBuf) - r.sendIo.n
      /\ \A i \in 1..(Len(r.sendBuf) - r.sendIo.n) : buf[i] = r.sendBuf[r.sendIo.n + i]
  BY <1>1, <1>4, RestOfBuffer
<1>6. new = [r EXCEPT !.port = Tail(r.port), !.sendIo = NoIo, !.postSend = FALSE, !.sendBuf = buf]
  BY <1>1 DEF ClientRec
<1> HIDE DEF buf
<1>7. /\ new \in ClientRec /\ new.sendId = r.sendId /\ new.last = r.last /\ new.obj = r.obj
      /\ new.recvBuf = r.recvBuf
      /\ new.sendBuf = buf /\ new.sendIo = NoIo /\ new.recvIo = r.recvIo
      /\ new.port = Tail(r.port) /\ new.postRead = r.postRead
      /\ new.bConnect = r.bConnect /\ new.pClient = r.pClient
  BY <1>1, <1>2, <1>4, <1>5, <1>6 DEF ClientRec
<1>8. PortOK(new)
  BY <1>1, <1>2, <1>7 DEF PortOK, NoIo
<1>9. Len(buf) <= SendCap
  <2> DEFINE len == Len(r.sendBuf)  n == r.sendIo.n
  <2>1. len \in Nat /\ n \in Nat /\ Len(buf) = len - n /\ len <= SendCap
    BY <1>1, <1>5
  <2> HIDE DEF len, n
  <2>2. QED
    BY <2>1, Sizes
<1>10. ClientOK(new, FALSE)
  <2>1. new.sendIo.st = "none" /\ Len(new.sendBuf) <= SendCap
    <3>1. NoIo.st = "none"
      BY DEF NoIo
    <3>2. QED
      BY <1>7, <1>9, <3>1
  <2>2. /\ new.recvIo.st = "done" => new.recvIo.n <= 1
        /\ ~new.postRead => new.recvIo = NoIo
        /\ new.last < new.sendId
    BY <1>7 DEF ClientOK
  <2>3. QED
    BY <1>7, <1>8, <2>1, <2>2 DEF ClientOK
<1>11. ASSUME Continues(r, r.sendIo.n), Connected(new)
       PROVE  /\ \A i \in 1..Len(buf) : buf[i] = new.last - 0 + i
              /\ Len(buf) - 0 = new.sendId - 1 - new.last
  <2> DEFINE len == Len(r.sendBuf)  id == r.sendId  last == r.last  n == r.sendIo.n
  <2>1. /\ len \in Nat /\ id \in Nat /\ last \in Nat /\ n \in Nat /\ Len(buf) = len - n
        /\ \A i \in 1..len : r.sendBuf[i] = last - n + i
        /\ \A i \in 1..(len - n) : buf[i] = r.sendBuf[n + i]
        /\ len - n = id - 1 - last
    BY <1>1, <1>5, <1>7, <1>11 DEF Continues, Connected
  <2> HIDE DEF len, id, last, n
  <2>2. ASSUME NEW i \in 1..Len(buf) PROVE buf[i] = last - 0 + i
    <3>1. i \in Nat /\ i \in 1..(len - n) /\ n + i \in 1..len
      BY <2>1
    <3>2. buf[i] = r.sendBuf[n + i] /\ r.sendBuf[n + i] = last - n + (n + i)
      BY <2>1, <3>1
    <3>3. QED
      BY <2>1, <3>1, <3>2
  <2>3. Len(buf) - 0 = id - 1 - last
    BY <2>1
  <2>4. QED
    BY <1>7, <2>2, <2>3 DEF id, last
<1>12. QED
  BY <1>3, <1>7, <1>10, <1>11 DEF Continues, Connected

\* The completion of an operation is lost.
LEMMA FailedClient ==
  ASSUME NEW r, ClientOK(r, FALSE), Connected(r), r.port # <<>>
  PROVE  LET io  == IF Head(r.port) = "recv" THEN [r EXCEPT !.recvIo = Lost]
                                             ELSE [r EXCEPT !.sendIo = Lost]
             new == [io EXCEPT !.port = Tail(@)]
         IN  /\ ClientOK(new, FALSE) /\ Connected(new)
             /\ new.obj = r.obj /\ new.sendId = r.sendId /\ new.sendBuf = r.sendBuf
             /\ new.recvBuf = r.recvBuf /\ new.last = r.last
             /\ Head(r.port) = "recv" => /\ r.postRead /\ r.recvIo.st = "done"
                                         /\ new.recvIo.st = "lost" /\ new.sendIo = r.sendIo
             /\ Head(r.port) # "recv" => /\ Head(r.port) = "send" /\ r.sendIo.st = "done"
                                         /\ new.sendIo.st = "lost" /\ new.recvIo = r.recvIo
<1>1. /\ r \in ClientRec /\ PortOK(r) /\ r.port \in Seq({"recv", "send"})
  BY DEF ClientOK, ClientRec
<1>2. /\ Tail(r.port) \in Seq({"recv", "send"}) /\ InPort(Head(r.port), r.port)
      /\ Head(r.port) \in {"recv", "send"}
      /\ \A i, j \in 1..Len(Tail(r.port)) : Tail(r.port)[i] = Tail(r.port)[j] => i = j
      /\ \A w : InPort(w, Tail(r.port)) <=> InPort(w, r.port) /\ w # Head(r.port)
  BY <1>1, PortTail DEF PortOK
<1>3. Lost \in Ios /\ Lost.st = "lost"
  BY Sizes DEF Ios, Lost
<1> DEFINE io  == IF Head(r.port) = "recv" THEN [r EXCEPT !.recvIo = Lost]
                                           ELSE [r EXCEPT !.sendIo = Lost]
           new == [io EXCEPT !.port = Tail(@)]
<1>4. CASE Head(r.port) = "recv"
  <2>1. r.recvIo.st = "done" /\ r.postRead
    BY <1>1, <1>2, <1>4 DEF PortOK, ClientOK, NoIo
  <2>2. new = [r EXCEPT !.recvIo = Lost, !.port = Tail(r.port)]
    BY <1>1, <1>4 DEF ClientRec
  <2> HIDE DEF new
  <2>3. /\ new \in ClientRec /\ new.sendId = r.sendId /\ new.last = r.last /\ new.obj = r.obj
        /\ new.recvBuf = r.recvBuf /\ new.sendBuf = r.sendBuf
        /\ new.recvIo = Lost /\ new.sendIo = r.sendIo /\ new.port = Tail(r.port)
        /\ new.postSend = r.postSend /\ new.postRead = r.postRead
        /\ new.bConnect = r.bConnect /\ new.pClient = r.pClient
    BY <1>1, <1>2, <1>3, <2>2 DEF ClientRec
  <2>4. PortOK(new)
    BY <1>1, <1>2, <1>3, <1>4, <2>3 DEF PortOK
  <2>5. ClientOK(new, FALSE) /\ Connected(new)
    BY <1>3, <2>1, <2>3, <2>4 DEF ClientOK, Connected
  <2>6. QED
    BY <1>3, <1>4, <2>1, <2>3, <2>5 DEF new
<1>5. CASE Head(r.port) # "recv"
  <2>1. Head(r.port) = "send" /\ r.sendIo.st = "done" /\ r.postSend
    BY <1>1, <1>2, <1>5 DEF PortOK, ClientOK, NoIo
  <2>2. new = [r EXCEPT !.sendIo = Lost, !.port = Tail(r.port)]
    BY <1>1, <1>5 DEF ClientRec
  <2> HIDE DEF new
  <2>3. /\ new \in ClientRec /\ new.sendId = r.sendId /\ new.last = r.last /\ new.obj = r.obj
        /\ new.recvBuf = r.recvBuf /\ new.sendBuf = r.sendBuf
        /\ new.sendIo = Lost /\ new.recvIo = r.recvIo /\ new.port = Tail(r.port)
        /\ new.postSend = r.postSend /\ new.postRead = r.postRead
        /\ new.bConnect = r.bConnect /\ new.pClient = r.pClient
    BY <1>1, <1>2, <1>3, <2>2 DEF ClientRec
  <2>4. PortOK(new)
    BY <1>1, <1>2, <1>3, <2>1, <2>3 DEF PortOK
  <2>5. ClientOK(new, FALSE) /\ Connected(new)
    BY <1>3, <2>1, <2>3, <2>4 DEF ClientOK, Connected
  <2>6. QED
    BY <1>3, <1>5, <2>1, <2>3, <2>5 DEF new
<1>6. QED
  BY <1>4, <1>5

-----------------------------------------------------------------------------
(* What a step that changes one client leaves of each part.                *)

InOnRun == {"run", "recv", "write", "reap"}
Closing == {"close", "ended", "crashed"}

LEMMA FrameClients ==
  ASSUME ClientsOK, IdsOK, NEW c \in Clients, NEW new, cl' = [cl EXCEPT ![c] = new], kind' = kind,
         ClientOK(new, kind # "iocp"), new.sendId <= MaxMsgs[kind] + 1, Continues(new, Taken(c)'),
         \A d \in Clients \ {c} : Taken(d)' = Taken(d)
  PROVE  ClientsOK' /\ IdsOK'
<1>1. cl \in [Clients -> ClientRec] /\ new \in ClientRec
  BY DEF ClientsOK, ClientOK
<1>2. /\ cl' \in [Clients -> ClientRec] /\ cl'[c] = new
      /\ \A d \in Clients \ {c} : cl'[d] = cl[d]
  BY <1>1
<1>3. ASSUME NEW d \in Clients
      PROVE  /\ ClientOK(cl'[d], kind' # "iocp") /\ cl'[d].sendId <= MaxMsgs[kind'] + 1
             /\ Continues(cl'[d], Taken(d)')
  <2>1. CASE d = c
    BY <1>2, <2>1
  <2>2. CASE d # c
    BY <1>2, <2>2 DEF ClientsOK, IdsOK
  <2>3. QED
    BY <2>1, <2>2
<1>4. QED
  BY <1>2, <1>3 DEF ClientsOK, IdsOK

LEMMA FrameTaken ==
  ASSUME ClientsOK, NEW c \in Clients, NEW new, cl' = [cl EXCEPT ![c] = new],
         pc = "write" => (c = at /\ pc' # "write") \/ (at' = at /\ pc' = pc /\ (c = at \/ copied' = copied)),
         pc' = "write" => at' = at /\ (c = at \/ pc = pc')
  PROVE  \A d \in Clients \ {c} : Taken(d)' = Taken(d)
<1>1. \A d \in Clients \ {c} : cl'[d] = cl[d]
  BY DEF ClientsOK
<1>2. QED
  BY <1>1 DEF Taken

LEMMA FrameRecv ==
  ASSUME ClientsOK, RecvBufOK, NEW c \in Clients, NEW new, cl' = [cl EXCEPT ![c] = new],
         new.recvBuf <= (IF new.sendIo.st = "lost" THEN 1 ELSE 0)
                          + (IF pc' = "reap" /\ c = at' /\ ~new.postRead THEN 1 ELSE 0),
         pc = "reap" => c = at \/ (pc' = pc /\ at' = at)
  PROVE  RecvBufOK'
<1>1. \A d \in Clients : /\ cl'[d] = (IF d = c THEN new ELSE cl[d]) /\ cl[d].recvBuf \in Nat
  BY DEF ClientsOK, ClientRec
<1>2. SUFFICES ASSUME NEW d \in Clients
               PROVE  cl'[d].recvBuf <= (IF cl'[d].sendIo.st = "lost" THEN 1 ELSE 0)
                        + (IF pc' = "reap" /\ d = at' /\ ~cl'[d].postRead THEN 1 ELSE 0)
  BY DEF RecvBufOK
<1>3. CASE d = c
  BY <1>1, <1>3
<1>4. CASE d # c
  BY <1>1, <1>4 DEF RecvBufOK
<1>5. QED
  BY <1>3, <1>4

LEMMA Finite ==
  /\ IsFiniteSet(Clients) /\ Cardinality(Clients) = NClients
  /\ \A S \in SUBSET Clients : /\ IsFiniteSet(S) /\ Cardinality(S) \in Nat
                               /\ Cardinality(S) <= NClients
<1>1. IsFiniteSet(Clients) /\ Cardinality(Clients) = NClients
  BY FS_Interval, Sizes DEF Clients
<1>2. QED
  BY <1>1, FS_Subset, FS_CardinalityType

LEMMA FrameRunning ==
  ASSUME ClientsOK, NEW c \in Clients, NEW new, cl' = [cl EXCEPT ![c] = new]
  PROVE  /\ Connected(new) /\ IsRun(c) => Running' = Running
         /\ ~Connected(new) => Running' = Running \ {c}
         /\ Connected(new) => Running' = Running \union {c}
<1>1. \A d \in Clients : cl'[d] = (IF d = c THEN new ELSE cl[d])
  BY DEF ClientsOK
<1>2. \A d \in Clients : IsRun(d)' <=> IF d = c THEN Connected(new) ELSE IsRun(d)
  BY <1>1 DEF IsRun, Connected
<1>3. Running' = {d \in Clients : IsRun(d)'}
  BY DEF Running
<1>4. QED
  BY <1>2, <1>3 DEF Running

\* What is lost stays lost until the client closes.
LEMMA FrameLost ==
  ASSUME ClientsOK, NEW c \in Clients, NEW new, cl' = [cl EXCEPT ![c] = new],
         Connected(new) => /\ IsRun(c)
                           /\ cl[c].recvIo.st = "lost" => new.recvIo.st = "lost"
                           /\ cl[c].sendIo.st = "lost" => new.sendIo.st = "lost"
  PROVE  LostRecv \subseteq LostRecv' /\ LostSend \subseteq LostSend'
<1>1. \A d \in Clients : cl'[d] = (IF d = c THEN new ELSE cl[d])
  BY DEF ClientsOK
<1>2. \A d \in Clients : IsRun(d)' <=> IF d = c THEN Connected(new) ELSE IsRun(d)
  BY <1>1 DEF IsRun, Connected
<1>3. /\ LostRecv' = {d \in Clients : ~IsRun(d)' \/ cl'[d].recvIo.st = "lost"}
      /\ LostSend' = {d \in Clients : ~IsRun(d)' \/ cl'[d].sendIo.st = "lost"}
  BY DEF LostRecv, LostSend
<1>4. QED
  BY <1>1, <1>2, <1>3 DEF LostRecv, LostSend

\* g_nConnect where it is right.
LEMMA CountType ==
  ASSUME errors \in Nat, errors <= 2 * NClients, nConnect + errors = Cardinality(Running), nConnect \in Int
  PROVE  nConnect \in (-2 * NClients)..NClients
BY Finite, Sizes DEF Running

\* A step after which the same clients are connected.
LEMMA CountSame ==
  ASSUME CountOK, errors' = errors, nConnect' = nConnect, Running' = Running \/ pc' \in Closing,
         pc' \in {"create", "init"} => pc \in {"create", "init"},
         pc \in Closing => pc' \in Closing,
         pc \in {"create", "init"} \/ (LostRecv \subseteq LostRecv' /\ LostSend \subseteq LostSend')
  PROVE  CountOK'
<1>1. /\ LostRecv \in SUBSET Clients /\ LostSend \in SUBSET Clients
      /\ LostRecv' \in SUBSET Clients /\ LostSend' \in SUBSET Clients
  BY DEF LostRecv, LostSend, Clients
<1>2. /\ Cardinality(LostRecv) \in Nat /\ Cardinality(LostSend) \in Nat
      /\ Cardinality(LostRecv') \in Nat /\ Cardinality(LostSend') \in Nat
      /\ IsFiniteSet(LostRecv') /\ IsFiniteSet(LostSend')
  BY <1>1, Finite
<1>3. errors <= Cardinality(LostRecv') + Cardinality(LostSend')
  <2>1. CASE pc \in {"create", "init"}
    BY <1>2, <2>1 DEF CountOK
  <2>2. CASE LostRecv \subseteq LostRecv' /\ LostSend \subseteq LostSend'
    <3>1. /\ Cardinality(LostRecv) <= Cardinality(LostRecv')
          /\ Cardinality(LostSend) <= Cardinality(LostSend')
      BY <1>2, <2>2, FS_Subset
    <3>2. QED
      BY <1>2, <3>1 DEF CountOK
  <2>3. QED
    BY <2>1, <2>2
<1>4. CountIsRight'
  BY DEF CountOK, CountIsRight, Running, Closing
<1>5. QED
  BY <1>3, <1>4 DEF CountOK

\* A client that closes, and OnRun returns false.
LEMMA CountClosed ==
  ASSUME ClientsOK, CountOK, NEW c \in Clients, NEW new, cl' = [cl EXCEPT ![c] = new],
         IsRun(c), ~Connected(new), errors' = errors, nConnect' = nConnect - 1,
         pc \notin Closing, pc' \notin {"create", "init"}
  PROVE  CountOK'
<1>1. Running \in SUBSET Clients /\ c \in Running /\ Running' = Running \ {c}
  BY FrameRunning DEF Running
<1>2. /\ Cardinality(Running') = Cardinality(Running) - 1 /\ Cardinality(Running) \in Nat
      /\ Running' \in SUBSET Clients /\ Cardinality(Running') \in Nat
      /\ Cardinality(Running') <= NClients
  BY <1>1, Finite, FS_RemoveElement
<1>3. LostRecv \subseteq LostRecv' /\ LostSend \subseteq LostSend'
  BY FrameLost
<1>4. LostRecv' \in SUBSET Clients /\ LostSend' \in SUBSET Clients
  BY DEF LostRecv, LostSend, Clients
<1>5. /\ Cardinality(LostRecv) <= Cardinality(LostRecv') /\ Cardinality(LostRecv') \in Nat
      /\ Cardinality(LostSend) <= Cardinality(LostSend') /\ Cardinality(LostSend') \in Nat
      /\ Cardinality(LostRecv') <= NClients /\ Cardinality(LostSend') <= NClients
      /\ Cardinality(LostRecv) \in Nat /\ Cardinality(LostSend) \in Nat
  BY <1>3, <1>4, Finite, FS_Subset
<1>6. errors' \in Nat /\ errors' <= Cardinality(LostRecv') + Cardinality(LostSend')
  BY <1>5 DEF CountOK
<1>7. nConnect' + errors' = Cardinality(Running') /\ nConnect' \in Int
  BY <1>2 DEF CountOK, CountIsRight, Running, Closing
<1>8. nConnect' \in (-2 * NClients)..NClients
  BY <1>2, <1>5, <1>6, <1>7, Sizes
<1>9. QED
  BY <1>6, <1>7, <1>8 DEF CountOK, CountIsRight, Running

\* The completion of an operation is lost, and OnRun returns false.
LEMMA CountFailed ==
  ASSUME ClientsOK, CountOK, NEW c \in Clients, NEW new, cl' = [cl EXCEPT ![c] = new],
         IsRun(c), Connected(new), errors' = errors + 1, nConnect' = nConnect - 1,
         pc \notin Closing, pc' \notin {"create", "init"},
         \/ cl[c].recvIo.st = "done" /\ new.recvIo.st = "lost" /\ new.sendIo = cl[c].sendIo
         \/ cl[c].sendIo.st = "done" /\ new.sendIo.st = "lost" /\ new.recvIo = cl[c].recvIo
  PROVE  CountOK'
<1>1. Running \in SUBSET Clients /\ Running' = Running
  BY FrameRunning DEF Running
<1>2. Cardinality(Running) \in Nat /\ Cardinality(Running) <= NClients
  BY <1>1, Finite
<1>3. LostRecv \subseteq LostRecv' /\ LostSend \subseteq LostSend'
  BY FrameLost
<1>4. /\ LostRecv' \in SUBSET Clients /\ LostSend' \in SUBSET Clients
      /\ LostRecv \in SUBSET Clients /\ LostSend \in SUBSET Clients
  BY DEF LostRecv, LostSend, Clients
<1>5. /\ IsFiniteSet(LostRecv') /\ IsFiniteSet(LostSend')
      /\ Cardinality(LostRecv) <= Cardinality(LostRecv') /\ Cardinality(LostRecv') \in Nat
      /\ Cardinality(LostSend) <= Cardinality(LostSend') /\ Cardinality(LostSend') \in Nat
      /\ Cardinality(LostRecv') <= NClients /\ Cardinality(LostSend') <= NClients
      /\ Cardinality(LostRecv) \in Nat /\ Cardinality(LostSend) \in Nat
  BY <1>3, <1>4, Finite, FS_Subset
<1>6. Cardinality(LostRecv) + Cardinality(LostSend) + 1
        <= Cardinality(LostRecv') + Cardinality(LostSend')
  <2>1. cl'[c] = new
    BY DEF ClientsOK
  <2>2. CASE cl[c].recvIo.st = "done" /\ new.recvIo.st = "lost"
    <3>1. c \in LostRecv' /\ c \notin LostRecv
      BY <2>1, <2>2 DEF LostRecv
    <3>2. LostRecv \subseteq LostRecv' \ {c} /\ Cardinality(LostRecv' \ {c}) = Cardinality(LostRecv') - 1
      BY <1>3, <1>5, <3>1, FS_RemoveElement
    <3>3. IsFiniteSet(LostRecv' \ {c})
      BY <1>5, FS_RemoveElement
    <3>4. Cardinality(LostRecv) <= Cardinality(LostRecv') - 1
      BY <3>2, <3>3, FS_Subset
    <3>5. QED
      BY <1>5, <3>4
  <2>3. CASE cl[c].sendIo.st = "done" /\ new.sendIo.st = "lost"
    <3>1. c \in LostSend' /\ c \notin LostSend
      BY <2>1, <2>3 DEF LostSend
    <3>2. LostSend \subseteq LostSend' \ {c} /\ Cardinality(LostSend' \ {c}) = Cardinality(LostSend') - 1
      BY <1>3, <1>5, <3>1, FS_RemoveElement
    <3>3. IsFiniteSet(LostSend' \ {c})
      BY <1>5, FS_RemoveElement
    <3>4. Cardinality(LostSend) <= Cardinality(LostSend') - 1
      BY <3>2, <3>3, FS_Subset
    <3>5. QED
      BY <1>5, <3>4
  <2>4. QED
    BY <2>2, <2>3
<1>7. errors' \in Nat /\ errors' <= Cardinality(LostRecv') + Cardinality(LostSend')
  BY <1>5, <1>6 DEF CountOK
<1>8. nConnect' + errors' = Cardinality(Running') /\ nConnect' \in Int
  BY <1>1, <1>2 DEF CountOK, CountIsRight, Running, Closing
<1>9. nConnect' \in (-2 * NClients)..NClients
  BY <1>1, <1>2, <1>5, <1>7, <1>8, Sizes
<1>10. QED
  BY <1>7, <1>8, <1>9 DEF CountOK, CountIsRight, Running

LEMMA CountConnected ==
  ASSUME ClientsOK, CountOK, NEW c \in Clients, NEW new, cl' = [cl EXCEPT ![c] = new],
         ~IsRun(c), Connected(new), errors' = errors, nConnect' = nConnect + 1,
         pc = "init", pc' = "init"
  PROVE  CountOK'
<1>1. Running \in SUBSET Clients /\ c \notin Running /\ Running' = Running \union {c}
  BY FrameRunning DEF Running
<1>2. /\ Cardinality(Running') = Cardinality(Running) + 1 /\ Cardinality(Running) \in Nat
      /\ Running' \in SUBSET Clients /\ Cardinality(Running') \in Nat
      /\ Cardinality(Running') <= NClients
  BY <1>1, Finite, FS_AddElement
<1>3. errors = 0 /\ errors' = 0
  BY DEF CountOK
<1>4. LostRecv' \in SUBSET Clients /\ LostSend' \in SUBSET Clients
  BY DEF LostRecv, LostSend, Clients
<1>5. Cardinality(LostRecv') \in Nat /\ Cardinality(LostSend') \in Nat
  BY <1>4, Finite
<1>6. nConnect' + errors' = Cardinality(Running') /\ nConnect' \in Int
  BY <1>2, <1>3 DEF CountOK, CountIsRight, Running
<1>7. nConnect' \in (-2 * NClients)..NClients
  BY <1>2, <1>3, <1>6, Sizes
<1>8. QED
  BY <1>3, <1>5, <1>6, <1>7 DEF CountOK, CountIsRight, Running

\* The thread stays where it is.
LEMMA FrameThread ==
  ASSUME ThreadOK, ClientsOK, NEW c \in Clients, NEW new, cl' = [cl EXCEPT ![c] = new],
         UNCHANGED <<loopVars, pc, at, pollVars>>, ~IsFresh(cl[c]), new.obj = cl[c].obj,
         Connected(new) <=> IsRun(c), pc = "write" => new.sendBuf = cl[c].sendBuf
  PROVE  ThreadOK'
<1>1. \A d \in Clients : cl'[d] = (IF d = c THEN new ELSE cl[d])
  BY DEF ClientsOK
<1>2. UNCHANGED <<kind, bRun, pc, at, canWrite, copied>>
  BY DEF loopVars, pollVars
<1>3. pc \in InOnRun => at \in Clients
  BY Sizes DEF ThreadOK, InOnRun, Clients
<1>4. pc \in {"recv", "write", "reap"} => cl'[at].bConnect /\ cl'[at].pClient
  BY <1>1, <1>3 DEF ThreadOK, Connected, IsRun, InOnRun
<1>5. pc = "write" => copied <= Len(cl'[at].sendBuf)
  BY <1>1, <1>3 DEF ThreadOK, InOnRun
<1>6. \A d \in Clients : pc = "create" \/ (pc = "init" /\ d >= at) => IsFresh(cl'[d])
  BY <1>1 DEF ThreadOK
<1>7. QED
  BY <1>2, <1>4, <1>5, <1>6 DEF ThreadOK

-----------------------------------------------------------------------------
(* The servers, the kernel, and main().                                    *)

LEMMA FreshClient ==
  ASSUME NEW r, IsFresh(r)
  PROVE  /\ r.server = "none" /\ r.recvIo = NoIo /\ r.sendIo = NoIo /\ r.port = <<>>
         /\ ~Connected(r) /\ r.recvBuf = 0
BY DEF IsFresh, Null, Connected

\* A step that leaves the thread where it is.
LEMMA QuietStep ==
  ASSUME IInv, NEW c \in Clients, NEW new, cl' = [cl EXCEPT ![c] = new],
         UNCHANGED <<loopVars, pc, at, pollVars, nConnect, errors>>,
         ~IsFresh(cl[c]), new.obj = cl[c].obj, Connected(new) <=> IsRun(c),
         pc = "write" => new.sendBuf = cl[c].sendBuf,
         ClientOK(new, kind # "iocp"), new.sendId = cl[c].sendId, Continues(new, Taken(c)'),
         new.recvBuf <= (IF new.sendIo.st = "lost" THEN 1 ELSE 0)
                          + (IF pc = "reap" /\ c = at /\ ~new.postRead THEN 1 ELSE 0),
         cl[c].recvIo.st = "lost" => new.recvIo.st = "lost",
         cl[c].sendIo.st = "lost" => new.sendIo.st = "lost"
  PROVE  IInv'
<1>1. UNCHANGED <<kind, bRun, pc, at, canWrite, copied, nConnect, errors>>
  BY DEF loopVars, pollVars
<1>2. ThreadOK /\ ClientsOK /\ RecvBufOK /\ IdsOK /\ CountOK
  BY DEF IInv
<1>3. ThreadOK'
  BY <1>2, FrameThread
<1>4. \A d \in Clients \ {c} : Taken(d)' = Taken(d)
  BY <1>1, <1>2, FrameTaken
<1>5. new.sendId <= MaxMsgs[kind] + 1
  BY <1>2 DEF ClientsOK
<1>6. ClientsOK' /\ IdsOK'
  BY <1>1, <1>2, <1>4, <1>5, FrameClients
<1>7. RecvBufOK'
  BY <1>1, <1>2, FrameRecv
<1>8. LostRecv \subseteq LostRecv' /\ LostSend \subseteq LostSend'
  BY <1>2, FrameLost
<1>9. Running' = Running
  <2>1. Connected(new) /\ IsRun(c) => Running' = Running
    BY <1>2, FrameRunning
  <2>2. ~IsRun(c) => Running \ {c} = Running
    BY DEF Running
  <2>3. ~Connected(new) => Running' = Running \ {c}
    BY <1>2, FrameRunning
  <2>4. QED
    BY <2>1, <2>2, <2>3
<1>10. CountOK'
  BY <1>1, <1>2, <1>8, <1>9, CountSame
<1>11. QED
  BY <1>3, <1>6, <1>7, <1>10 DEF IInv

\* A step that changes nothing that the invariant relates.
LEMMA SameDataStep ==
  ASSUME IInv, NEW c \in Clients, NEW new, cl' = [cl EXCEPT ![c] = new],
         UNCHANGED <<loopVars, pc, at, pollVars, nConnect, errors>>,
         ~IsFresh(cl[c]), SameData(cl[c], new), new.obj = cl[c].obj
  PROVE  IInv'
<1>1. ClientOK(cl[c], kind # "iocp") /\ Continues(cl[c], Taken(c)) /\ cl'[c] = new
  BY DEF IInv, ClientsOK, IdsOK
<1>2. ClientOK(new, kind # "iocp") /\ \A n : Continues(cl[c], n) => Continues(new, n)
  BY <1>1, SameClient
<1>3. Taken(c)' = Taken(c)
  BY <1>1 DEF Taken, SameData, loopVars, pollVars
<1>4. new.recvBuf <= (IF new.sendIo.st = "lost" THEN 1 ELSE 0)
                          + (IF pc = "reap" /\ c = at /\ ~new.postRead THEN 1 ELSE 0)
  BY DEF IInv, RecvBufOK, SameData
<1>5. Connected(new) <=> IsRun(c)
  BY DEF SameData, Connected, IsRun
<1>6. QED
  BY <1>1, <1>2, <1>3, <1>4, <1>5, QuietStep DEF SameData

LEMMA ServerStep ==
  ASSUME IInv, NEW c \in Clients,
         Outside(ServerReads(c)) \/ Outside(ServerFails(c)) \/ Outside(ServerResets(c))
  PROVE  IInv'
<1> DEFINE r == cl[c]
<1>1. cl \in [Clients -> ClientRec] /\ r \in ClientRec
  BY DEF IInv, ClientsOK
<1>2. PICK server \in {r.server, "fin", "reset", "stalled"}, tx \in {0, r.tx}, rx \in {r.rx, 1} :
        cl' = [cl EXCEPT ![c] = [r EXCEPT !.server = server, !.tx = tx, !.rx = rx]]
  <2>1. CASE ServerReads(c)
    <3>1. PICK rx \in {r.rx, 1} : cl' = [cl EXCEPT ![c].tx = 0, ![c].rx = rx]
      BY <2>1 DEF ServerReads
    <3>2. cl' = [cl EXCEPT ![c] = [r EXCEPT !.server = r.server, !.tx = 0, !.rx = rx]]
      BY <1>1, <3>1 DEF ClientRec
    <3>3. QED
      BY <3>2
  <2>2. CASE ServerFails(c) \/ ServerResets(c)
    <3>1. PICK server \in {"fin", "reset", "stalled"} : cl' = [cl EXCEPT ![c].server = server]
      BY <2>2 DEF ServerFails, ServerResets
    <3>2. cl' = [cl EXCEPT ![c] = [r EXCEPT !.server = server, !.tx = r.tx, !.rx = r.rx]]
      BY <1>1, <3>1 DEF ClientRec
    <3>3. QED
      BY <3>2
  <2>3. QED
    BY <2>1, <2>2 DEF Outside
<1> DEFINE new == [r EXCEPT !.server = server, !.tx = tx, !.rx = rx]
<1>3. tx \in 0..TxCap /\ rx \in 0..1
  BY <1>1, <1>2, Sizes DEF ClientRec
<1>4. SameData(r, new) /\ new.obj = r.obj
  BY <1>1, <1>2, <1>3 DEF SameData, ClientRec
<1>5. ~IsFresh(r)
  BY FreshClient DEF Outside, ServerReads, ServerFails, ServerResets
<1>6. UNCHANGED <<loopVars, pc, at, pollVars, nConnect, errors>>
  BY DEF Outside
<1> HIDE DEF new
<1>7. cl' = [cl EXCEPT ![c] = new]
  BY <1>2 DEF new
<1>8. QED
  BY <1>4, <1>5, <1>6, <1>7, SameDataStep

LEMMA RecvStep ==
  ASSUME IInv, NEW c \in Clients, Outside(RecvCompletes(c))
  PROVE  IInv'
<1> DEFINE r == cl[c]
<1>1. cl \in [Clients -> ClientRec] /\ r \in ClientRec /\ r.recvIo.st = "pending"
  BY DEF IInv, ClientsOK, Outside, RecvCompletes
<1>2. PICK n \in 0..1, x \in {0, r.rx} :
        cl' = [cl EXCEPT ![c] = [r EXCEPT !.recvIo = [st |-> "done", n |-> n], !.rx = x,
                                          !.port = Append(@, "recv")]]
  <2>1. CASE cl' = [cl EXCEPT ![c].recvIo = [st |-> "done", n |-> 1], ![c].rx = 0,
                              ![c].port = Append(@, "recv")]
    <3>1. cl' = [cl EXCEPT ![c] = [r EXCEPT !.recvIo = [st |-> "done", n |-> 1], !.rx = 0,
                                          !.port = Append(@, "recv")]]
      BY <1>1, <2>1 DEF ClientRec
    <3>2. QED
      BY <3>1
  <2>2. CASE cl' = [cl EXCEPT ![c].recvIo = [st |-> "done", n |-> 0], ![c].port = Append(@, "recv")]
    <3>1. cl' = [cl EXCEPT ![c] = [r EXCEPT !.recvIo = [st |-> "done", n |-> 0], !.rx = r.rx,
                                          !.port = Append(@, "recv")]]
      BY <1>1, <2>2 DEF ClientRec
    <3>2. QED
      BY <3>1
  <2>3. QED
    BY <2>1, <2>2 DEF Outside, RecvCompletes
<1> DEFINE new == [r EXCEPT !.recvIo = [st |-> "done", n |-> n], !.rx = x, !.port = Append(@, "recv")]
<1>3. /\ new.obj = r.obj /\ new.bConnect = r.bConnect /\ new.pClient = r.pClient
      /\ new.sendBuf = r.sendBuf /\ new.sendId = r.sendId /\ new.recvBuf = r.recvBuf
      /\ new.sendIo = r.sendIo /\ new.postRead = r.postRead
  BY <1>1 DEF ClientRec
<1>4. new \in {[r EXCEPT !.recvIo = [st |-> "done", n |-> n], !.rx = y, !.port = Append(@, "recv")] :
                 y \in {0, r.rx}}
  BY <1>2
<1> HIDE DEF new
<1>5. cl' = [cl EXCEPT ![c] = new] /\ cl'[c] = new
  BY <1>1, <1>2 DEF new
<1>6. ClientOK(r, kind # "iocp") /\ Continues(r, Taken(c))
  BY DEF IInv, ClientsOK, IdsOK
<1>7. ClientOK(new, kind # "iocp") /\ Continues(new, Taken(c))
  BY <1>1, <1>4, <1>6, RecvDone
<1>8. UNCHANGED <<loopVars, pc, at, pollVars, nConnect, errors>>
  BY DEF Outside
<1>9. Taken(c)' = Taken(c)
  BY <1>3, <1>5, <1>8 DEF Taken, pollVars
<1>10. ~IsFresh(r)
  BY <1>1, FreshClient DEF NoIo
<1>11. Connected(new) <=> IsRun(c)
  BY <1>3 DEF Connected, IsRun
<1>12. new.recvBuf <= (IF new.sendIo.st = "lost" THEN 1 ELSE 0)
                          + (IF pc = "reap" /\ c = at /\ ~new.postRead THEN 1 ELSE 0)
  BY <1>3 DEF IInv, RecvBufOK
<1>13. ~(cl[c].recvIo.st = "lost")
  BY <1>1
<1>14. QED
  BY <1>3, <1>5, <1>7, <1>8, <1>9, <1>10, <1>11, <1>12, <1>13, QuietStep

LEMMA SendStep ==
  ASSUME IInv, NEW c \in Clients, Outside(SendCompletes(c))
  PROVE  IInv'
<1> DEFINE r == cl[c]
<1>1. /\ cl \in [Clients -> ClientRec] /\ r \in ClientRec /\ r.sendIo.st = "pending"
      /\ ClientOK(r, kind # "iocp") /\ Continues(r, Taken(c))
  BY DEF IInv, ClientsOK, IdsOK, Outside, SendCompletes
<1>2. PICK n \in 0..r.sendIo.n :
        /\ r.tx + n <= TxCap
        /\ cl' = [cl EXCEPT ![c].sendIo = [st |-> "done", n |-> n], ![c].port = Append(@, "send"),
                             ![c].tx = @ + n, ![c].last = IF n = 0 THEN @ ELSE cl[c].sendBuf[n]]
  BY DEF Outside, SendCompletes
<1> DEFINE new == [r EXCEPT !.sendIo = [st |-> "done", n |-> n], !.port = Append(@, "send"),
                            !.tx = @ + n, !.last = IF n = 0 THEN @ ELSE r.sendBuf[n]]
<1>3. /\ new.obj = r.obj /\ new.bConnect = r.bConnect /\ new.pClient = r.pClient
      /\ new.sendBuf = r.sendBuf /\ new.sendId = r.sendId /\ new.recvBuf = r.recvBuf
      /\ new.sendIo = [st |-> "done", n |-> n] /\ new.recvIo = r.recvIo /\ new.postRead = r.postRead
  BY <1>1 DEF ClientRec
<1>4. cl' = [cl EXCEPT ![c] = new]
  BY <1>1, <1>2 DEF ClientRec
<1>5. new = [r EXCEPT !.sendIo = [st |-> "done", n |-> n], !.port = Append(@, "send"),
                      !.tx = @ + n, !.last = IF n = 0 THEN @ ELSE r.sendBuf[n]]
  OBVIOUS
<1> HIDE DEF new
<1>6. cl'[c] = new
  BY <1>1, <1>4
<1>7. kind = "iocp"
  BY <1>1 DEF ClientOK, NoIo
<1>8. pc # "write" /\ Taken(c) = 0
  BY <1>1, <1>7 DEF IInv, ThreadOK, Taken
<1>9. ClientOK(new, kind # "iocp") /\ Continues(new, n)
  BY <1>1, <1>2, <1>5, <1>8, SendDone
<1>10. UNCHANGED <<loopVars, pc, at, pollVars, nConnect, errors>>
  BY DEF Outside
<1>11. Taken(c)' = n
  BY <1>3, <1>6, <1>8, <1>10 DEF Taken
<1>12. ~IsFresh(r)
  BY <1>1, FreshClient DEF NoIo
<1>13. Connected(new) <=> IsRun(c)
  BY <1>3 DEF Connected, IsRun
<1>14. r.recvBuf <= (IF r.sendIo.st = "lost" THEN 1 ELSE 0)
                          + (IF pc = "reap" /\ c = at /\ ~r.postRead THEN 1 ELSE 0)
  BY DEF IInv, RecvBufOK
<1>15. new.recvBuf <= (IF new.sendIo.st = "lost" THEN 1 ELSE 0)
                          + (IF pc = "reap" /\ c = at /\ ~new.postRead THEN 1 ELSE 0)
  BY <1>1, <1>3, <1>14
<1>16. QED
  BY <1>1, <1>3, <1>4, <1>8, <1>9, <1>10, <1>11, <1>12, <1>13, <1>15, QuietStep

LEMMA EnvironmentStep ==
  ASSUME IInv, Environment
  PROVE  IInv'
<1>1. CASE MainCloses
  <2>1. UNCHANGED <<kind, pc, at, canWrite, copied, cl, nConnect, errors>> /\ bRun' = FALSE
    BY <1>1 DEF MainCloses, pollVars
  <2>2. ThreadOK'
    BY <2>1 DEF IInv, ThreadOK, InOnRun
  <2>3. ClientsOK' /\ RecvBufOK' /\ IdsOK' /\ CountOK'
    BY <2>1 DEF IInv, ClientsOK, RecvBufOK, IdsOK, CountOK, Taken, CountIsRight, LostRecv, LostSend, IsRun
  <2>4. QED
    BY <2>2, <2>3 DEF IInv
<1>2. QED
  BY <1>1, ServerStep, RecvStep, SendStep DEF Environment

-----------------------------------------------------------------------------
(* The loop of the thread.                                                 *)

\* A step that leaves the clients as they are.
LEMMA FrameSame ==
  ASSUME IInv, UNCHANGED <<kind, cl, nConnect, errors>>,
         pc \notin {"write", "reap"}, pc' = "write" => copied' = 0 /\ kind # "iocp",
         pc' \in {"create", "init"} => pc \in {"create", "init"},
         pc \in Closing => pc' \in Closing
  PROVE  ClientsOK' /\ RecvBufOK' /\ IdsOK' /\ CountOK'
<1>1. ClientsOK'
  BY DEF IInv, ClientsOK
<1>2. RecvBufOK'
  <2>1. ASSUME NEW c \in Clients
        PROVE  cl[c].recvBuf <= (IF cl[c].sendIo.st = "lost" THEN 1 ELSE 0)
                 + (IF pc' = "reap" /\ c = at' /\ ~cl[c].postRead THEN 1 ELSE 0)
    <3>1. /\ cl[c].recvBuf \in Nat
          /\ cl[c].recvBuf <= (IF cl[c].sendIo.st = "lost" THEN 1 ELSE 0)
      BY DEF IInv, RecvBufOK, ClientsOK, ClientRec
    <3>2. QED
      BY <3>1
  <2>2. QED
    BY <2>1 DEF RecvBufOK
<1>3. IdsOK'
  <2>1. ASSUME NEW c \in Clients, kind # "iocp" PROVE cl[c].sendIo.st = "none"
    BY <2>1 DEF IInv, ClientsOK, ClientOK, NoIo
  <2>2. \A c \in Clients : Taken(c)' = Taken(c)
    BY <2>1 DEF Taken
  <2>3. QED
    BY <2>2 DEF IInv, IdsOK
<1>4. Running' = Running /\ LostRecv' = LostRecv /\ LostSend' = LostSend
  BY DEF Running, LostRecv, LostSend, IsRun
<1>5. CountOK'
  BY <1>4, CountSame DEF IInv
<1>6. QED
  BY <1>1, <1>2, <1>3, <1>5

\* A step that changes a client while the thread is not in OnRun.
LEMMA FrameOther ==
  ASSUME IInv, NEW c \in Clients, NEW new, cl' = [cl EXCEPT ![c] = new], kind' = kind,
         pc \notin InOnRun, pc' \notin InOnRun \/ pc' = "run",
         ClientOK(new, kind # "iocp"), new.sendId <= MaxMsgs[kind] + 1,
         Continues(new, IF new.sendIo.st = "done" THEN new.sendIo.n ELSE 0),
         new.recvBuf <= (IF new.sendIo.st = "lost" THEN 1 ELSE 0)
  PROVE  ClientsOK' /\ RecvBufOK' /\ IdsOK'
<1>1. pc \notin {"write", "reap"} /\ pc' \notin {"write", "reap"} /\ cl'[c] = new
  BY DEF InOnRun, IInv, ClientsOK
<1>2. new.recvBuf \in Nat
  BY DEF ClientOK, ClientRec
<1>3. \A d \in Clients \ {c} : Taken(d)' = Taken(d)
  BY <1>1, FrameTaken DEF IInv
<1>4. Taken(c)' = IF new.sendIo.st = "done" THEN new.sendIo.n ELSE 0
  BY <1>1 DEF Taken
<1>5. ClientsOK' /\ IdsOK'
  BY <1>3, <1>4, FrameClients DEF IInv
<1>6. RecvBufOK'
  <2>1. new.recvBuf <= (IF new.sendIo.st = "lost" THEN 1 ELSE 0)
                         + (IF pc' = "reap" /\ c = at' /\ ~new.postRead THEN 1 ELSE 0)
    BY <1>1, <1>2
  <2>2. QED
    BY <1>1, <2>1, FrameRecv DEF IInv
<1>7. QED
  BY <1>5, <1>6

LEMMA CreateStep ==
  ASSUME IInv, Create
  PROVE  IInv'
<1>1. /\ pc = "create" /\ UNCHANGED <<kind, bRun, canWrite, copied, nConnect, errors>>
      /\ at \in Nat \ {0} /\ \A c \in Clients : IsFresh(cl[c])
  BY DEF Create, loopVars, pollVars, IInv, ThreadOK
<1>2. CASE bRun /\ at <= NClients
  <2> DEFINE r == cl[at]  new == [r EXCEPT !.obj = "made"]
  <2>1. /\ at \in Clients /\ at' = at + 1 /\ pc' = "create"
        /\ r \in ClientRec /\ cl \in [Clients -> ClientRec]
        /\ ClientOK(r, kind # "iocp") /\ r.sendId <= MaxMsgs[kind] + 1
    BY <1>1, <1>2, Sizes DEF Create, Clients, IInv, ClientsOK
  <2>2. cl' = [cl EXCEPT ![at] = new]
    BY <1>2, <2>1 DEF Create
  <2>3. SameData(r, new)
    BY <2>1 DEF SameData, ClientRec
  <2>4. IsFresh(r)
    BY <1>1, <2>1
  <2>5. IsFresh(new)
    BY <2>4 DEF IsFresh, Null
  <2> HIDE DEF new
  <2>6. ClientOK(new, kind # "iocp")
    BY <2>1, <2>3, SameClient
  <2>7. ~Connected(new) /\ new.recvBuf = 0 /\ new.sendId = r.sendId
    BY <2>3, <2>5, FreshClient DEF SameData
  <2>14. /\ \A n : Continues(new, n)
         /\ new.recvBuf <= (IF new.sendIo.st = "lost" THEN 1 ELSE 0)
         /\ pc \notin InOnRun /\ pc' \notin InOnRun
    BY <1>1, <2>1, <2>7 DEF Continues, InOnRun
  <2>8. ClientsOK' /\ RecvBufOK' /\ IdsOK'
    BY <1>1, <2>1, <2>2, <2>6, <2>7, <2>14, FrameOther
  <2>9. \A c \in Clients : IsFresh(cl'[c])
    BY <1>1, <2>1, <2>2, <2>5
  <2>10. ThreadOK'
    BY <1>1, <1>2, <2>1, <2>9, Sizes DEF IInv, ThreadOK, Phases
  <2>11. Running' = {} /\ Running = {}
    BY <1>1, <2>9, FreshClient DEF Running, IsRun, Connected
  <2>12. CountOK'
    BY <1>1, <2>1, <2>11, CountSame DEF IInv, Closing
  <2>13. QED
    BY <2>8, <2>10, <2>12 DEF IInv
<1>3. CASE ~(bRun /\ at <= NClients)
  <2>1. UNCHANGED cl /\ at' = 1 /\ pc' = "init"
    BY <1>3 DEF Create
  <2>2. ThreadOK'
    BY <1>1, <2>1, Sizes DEF IInv, ThreadOK, Phases
  <2>3. ClientsOK' /\ RecvBufOK' /\ IdsOK' /\ CountOK'
    BY <1>1, <2>1, FrameSame DEF Closing
  <2>4. QED
    BY <2>2, <2>3 DEF IInv
<1>4. QED
  BY <1>2, <1>3

LEMMA ConnectNextStep ==
  ASSUME IInv, ConnectNext
  PROVE  IInv'
<1> DEFINE r == cl[at]  new == [r EXCEPT !.pClient = TRUE, !.bConnect = TRUE, !.server = "open"]
<1>1. /\ pc = "init" /\ pc' = "init" /\ at' = at + 1 /\ bRun /\ at \in Clients
      /\ UNCHANGED <<kind, bRun, canWrite, copied, errors>> /\ nConnect' = nConnect + 1
      /\ \A c \in Clients : c >= at => IsFresh(cl[c])
  BY Sizes DEF ConnectNext, loopVars, pollVars, IInv, ThreadOK, Clients
<1>2. /\ cl \in [Clients -> ClientRec] /\ r \in ClientRec
      /\ ClientOK(r, kind # "iocp") /\ r.sendId <= MaxMsgs[kind] + 1
  BY <1>1 DEF IInv, ClientsOK
<1>3. IsFresh(r)
  BY <1>1, Sizes DEF Clients
<1>4. cl' = [cl EXCEPT ![at] = new]
  BY <1>1, <1>2 DEF ConnectNext, ClientRec
<1>5. ClientOK(new, kind # "iocp") /\ Continues(new, 0)
  BY <1>2, <1>3, ConnectedClient
<1>6. new.sendIo = r.sendIo /\ new.recvBuf = r.recvBuf /\ new.sendId = r.sendId /\ Connected(new)
  BY <1>2 DEF ClientRec, Connected
<1> HIDE DEF new
<1>7. new.recvBuf = 0 /\ new.sendIo.st = "none" /\ ~IsRun(at)
  BY <1>3, <1>6, FreshClient DEF NoIo, IsRun, Connected
<1>13. /\ Continues(new, IF new.sendIo.st = "done" THEN new.sendIo.n ELSE 0)
       /\ new.recvBuf <= (IF new.sendIo.st = "lost" THEN 1 ELSE 0)
       /\ pc \notin InOnRun /\ pc' \notin InOnRun
  BY <1>1, <1>5, <1>7 DEF InOnRun
<1>8. ClientsOK' /\ RecvBufOK' /\ IdsOK'
  BY <1>1, <1>2, <1>4, <1>5, <1>6, <1>13, FrameOther
<1>9. \A c \in Clients : c >= at + 1 => IsFresh(cl'[c])
  BY <1>1, <1>4, <1>2, Sizes DEF Clients
<1>10. ThreadOK'
  BY <1>1, <1>9, Sizes DEF IInv, ThreadOK, Clients
<1>11. CountOK'
  BY <1>1, <1>4, <1>6, <1>7, CountConnected DEF IInv
<1>12. QED
  BY <1>8, <1>10, <1>11 DEF IInv

LEMMA ConnectEndsStep ==
  ASSUME IInv, ConnectEnds
  PROVE  IInv'
<1>1. /\ pc = "init" /\ pc' = "loop" /\ at' = 1
      /\ UNCHANGED <<kind, bRun, canWrite, copied, nConnect, errors>>
  BY DEF ConnectEnds, loopVars, pollVars
<1>2. ThreadOK'
  BY <1>1, Sizes DEF IInv, ThreadOK, Phases
<1>3. CASE UNCHANGED cl
  <2>1. ClientsOK' /\ RecvBufOK' /\ IdsOK' /\ CountOK'
    BY <1>1, <1>3, FrameSame DEF Closing
  <2>2. QED
    BY <1>2, <2>1 DEF IInv
<1>4. CASE bRun /\ at <= NClients /\ \E socket \in BOOLEAN : cl' = [cl EXCEPT ![at].pClient = socket]
  <2>1. PICK socket \in BOOLEAN : cl' = [cl EXCEPT ![at].pClient = socket]
    BY <1>4
  <2> DEFINE r == cl[at]  new == [r EXCEPT !.pClient = socket]
  <2>2. /\ at \in Clients /\ cl \in [Clients -> ClientRec] /\ r \in ClientRec /\ IsFresh(r)
        /\ ClientOK(r, kind # "iocp") /\ r.sendId <= MaxMsgs[kind] + 1
    BY <1>1, <1>4, Sizes DEF IInv, ClientsOK, ThreadOK, Clients
  <2>3. cl' = [cl EXCEPT ![at] = new]
    BY <2>1, <2>2
  <2>4. r.bConnect = FALSE /\ r.recvBuf = 0 /\ r.sendIo = NoIo
    BY <2>2 DEF IsFresh, Null
  <2>5. /\ new \in ClientRec /\ new.bConnect = FALSE /\ new.recvBuf = 0 /\ new.sendId = r.sendId
        /\ new.last = r.last /\ new.sendBuf = r.sendBuf /\ new.sendIo = r.sendIo
        /\ new.recvIo = r.recvIo /\ new.port = r.port
        /\ new.postRead = r.postRead /\ new.postSend = r.postSend
    BY <2>2, <2>4 DEF ClientRec
  <2> HIDE DEF new
  <2>6. ClientOK(new, kind # "iocp") /\ ~Connected(new)
    BY <2>2, <2>4, <2>5 DEF ClientOK, PortOK, Connected
  <2>11. /\ \A n : Continues(new, n)
         /\ new.recvBuf <= (IF new.sendIo.st = "lost" THEN 1 ELSE 0)
         /\ pc \notin InOnRun /\ pc' \notin InOnRun
    BY <1>1, <2>5, <2>6 DEF Continues, InOnRun
  <2>7. ClientsOK' /\ RecvBufOK' /\ IdsOK'
    BY <1>1, <2>2, <2>3, <2>5, <2>6, <2>11, FrameOther
  <2>8. Running' = Running
    <3>1. ~IsRun(at)
      BY <2>4 DEF IsRun
    <3>2. Running' = Running \ {at}
      BY <2>2, <2>3, <2>6, FrameRunning DEF IInv
    <3>3. QED
      BY <3>1, <3>2 DEF Running
  <2>9. CountOK'
    BY <1>1, <2>8, CountSame DEF IInv, Closing
  <2>10. QED
    BY <1>2, <2>7, <2>9 DEF IInv
<1>5. QED
  BY <1>3, <1>4 DEF ConnectEnds

LEMMA LoopTestStep ==
  ASSUME IInv, LoopTest \/ CloseEnds
  PROVE  IInv'
<1>1. /\ UNCHANGED <<kind, bRun, canWrite, copied, cl, at, nConnect, errors>>
      /\ \/ pc = "loop" /\ bRun /\ pc' = "send"
         \/ pc = "loop" /\ ~bRun /\ pc' = "close"
         \/ pc = "close" /\ pc' = "ended"
  BY DEF LoopTest, CloseEnds, loopVars, pollVars
<1>2. /\ kind \in Kinds /\ bRun \in BOOLEAN /\ canWrite \in BOOLEAN /\ at \in Nat \ {0}
      /\ pc = "loop" => at <= NClients
      /\ pc = "close" => at <= NClients + 1 /\ ~bRun
      /\ copied \in Nat /\ (pc # "write" => copied = 0)
  BY DEF IInv, ThreadOK
<1>3. at <= NClients => at <= NMsg * NClients /\ at <= NClients + 1
  BY <1>2, Sizes
<1>4. ThreadOK'
  BY <1>1, <1>2, <1>3 DEF ThreadOK, Phases
<1>5. ClientsOK' /\ RecvBufOK' /\ IdsOK' /\ CountOK'
  BY <1>1, FrameSame DEF Closing
<1>6. QED
  BY <1>4, <1>5 DEF IInv

\* The bound on the messages of all the clients bounds the msgIDs of each.
LEMMA AcceptedBound ==
  ASSUME kind \in Kinds, ClientsOK, NEW c \in Clients, Cardinality(Accepted) < MaxMsgs[kind]
  PROVE  cl[c].sendId <= MaxMsgs[kind]
<1> DEFINE max == MaxMsgs[kind]  own == {c} \X (1..max)
<1>1. max \in Nat /\ cl[c].sendId \in Nat /\ cl[c].sendId <= max + 1
  BY Sizes DEF ClientsOK, ClientRec
<1> SUFFICES ASSUME cl[c].sendId = max + 1 PROVE FALSE
  BY <1>1
<1>2. IsFiniteSet(1..max) /\ Cardinality(1..max) = max
  <2> HIDE DEF max
  <2>1. max \in Int /\ 1 \in Int /\ max \in Nat
    BY <1>1
  <2>2. IsFiniteSet(1..max) /\ Cardinality(1..max) = IF 1 > max THEN 0 ELSE max - 1 + 1
    BY <2>1, FS_Interval
  <2>3. (IF 1 > max THEN 0 ELSE max - 1 + 1) = max
    BY <2>1
  <2>4. QED
    BY <2>2, <2>3
<1>3. IsFiniteSet({c}) /\ Cardinality({c}) = 1
  BY FS_Singleton
<1>4. Cardinality(own) = 1 * max
  BY <1>2, <1>3, FS_Product
<1>5. own \subseteq Accepted
  BY <1>1 DEF Accepted
<1>6. IsFiniteSet(Clients \X (1..max))
  BY <1>2, Finite, FS_Product
<1>7. Accepted \subseteq Clients \X (1..max)
  BY DEF Accepted
<1>8. IsFiniteSet(Accepted) /\ Cardinality(Accepted) \in Nat
  BY <1>6, <1>7, FS_Subset, FS_CardinalityType
<1>9. Cardinality(own) <= Cardinality(Accepted)
  BY <1>5, <1>8, FS_Subset
<1>10. QED
  BY <1>1, <1>4, <1>8, <1>9

LEMMA SendNextStep ==
  ASSUME IInv, SendNext
  PROVE  IInv'
<1> DEFINE c == Sender  r == cl[c]
<1>1. /\ pc = "send" /\ UNCHANGED <<kind, bRun, canWrite, copied, nConnect, errors>>
      /\ at \in Nat \ {0} /\ at <= NMsg * NClients /\ kind \in Kinds
  BY DEF SendNext, loopVars, pollVars, IInv, ThreadOK
<1>2. c \in Clients
  <2>1. (at - 1) % NClients \in 0..(NClients - 1)
    BY <1>1, Sizes
  <2>2. QED
    BY <2>1, Sizes DEF Clients, Sender
<1>3. /\ at < NMsg * NClients => at' = at + 1 /\ pc' = "send"
      /\ ~(at < NMsg * NClients) => at' = 1 /\ pc' = "run"
      /\ cl' = IF IsRun(c) THEN [cl EXCEPT ![c] = SendTest(c)] ELSE cl
  BY <1>1 DEF SendNext
<1> HIDE DEF c
<1>4. pc' \in {"send", "run"} /\ at' \in Nat \ {0} /\ (pc' = "send" => at' <= NMsg * NClients)
      /\ (pc' = "run" => at' <= NClients)
  <2>1. CASE at < NMsg * NClients
    BY <1>1, <1>3, <2>1, Sizes
  <2>2. CASE ~(at < NMsg * NClients)
    BY <1>1, <1>3, <2>2, Sizes
  <2>3. QED
    BY <2>1, <2>2
<1>5. ThreadOK'
  BY <1>1, <1>4 DEF IInv, ThreadOK, Phases
<1>6. CASE UNCHANGED cl
  <2>1. ClientsOK' /\ RecvBufOK' /\ IdsOK' /\ CountOK'
    BY <1>1, <1>4, <1>6, FrameSame DEF Closing
  <2>2. QED
    BY <1>5, <2>1 DEF IInv
<1>7. CASE IsRun(c) /\ MayAccept(c) /\ Len(r.sendBuf) < SendCap
  <2> DEFINE new == [r EXCEPT !.sendBuf = Append(@, r.sendId), !.sendId = @ + 1, !.sendCount = @ - 1]
  <2>1. cl' = [cl EXCEPT ![c] = new]
    BY <1>3, <1>7 DEF SendTest
  <2>2. /\ r \in ClientRec /\ ClientOK(r, kind # "iocp") /\ Continues(r, Taken(c))
        /\ cl \in [Clients -> ClientRec] /\ r.sendCount > 0
        /\ r.recvBuf <= (IF r.sendIo.st = "lost" THEN 1 ELSE 0)
    BY <1>1, <1>2, <1>7 DEF IInv, ClientsOK, IdsOK, RecvBufOK, ClientRec, MayAccept
  <2>3. Taken(c) = (IF r.sendIo.st = "done" THEN r.sendIo.n ELSE 0) /\ Taken(c) \in Nat
    BY <1>1, <2>2 DEF Taken, ClientRec, Ios
  <2>4. r.sendId <= MaxMsgs[kind]
    BY <1>1, <1>2, <1>7, AcceptedBound DEF IInv, MayAccept
  <2>5. new = [r EXCEPT !.sendBuf = Append(@, r.sendId), !.sendId = @ + 1, !.sendCount = @ - 1]
    OBVIOUS
  <2>6. /\ new.sendId = r.sendId + 1 /\ new.sendIo = r.sendIo /\ new.recvIo = r.recvIo
        /\ new.bConnect = r.bConnect /\ new.pClient = r.pClient /\ new.recvBuf = r.recvBuf
    BY <2>2 DEF ClientRec
  <2> HIDE DEF new
  <2>7. ClientOK(new, kind # "iocp") /\ \A n \in Nat : Continues(r, n) => Continues(new, n)
    BY <1>7, <2>2, <2>5, SentClient
  <2>8. new.sendId <= MaxMsgs[kind] + 1
    BY <1>1, <2>2, <2>4, <2>6, Sizes DEF ClientRec
  <2>9. Continues(new, IF new.sendIo.st = "done" THEN new.sendIo.n ELSE 0)
    BY <2>2, <2>3, <2>6, <2>7
  <2>10. pc \notin InOnRun /\ (pc' \notin InOnRun \/ pc' = "run")
    BY <1>1, <1>4 DEF InOnRun
  <2>11. new.recvBuf <= (IF new.sendIo.st = "lost" THEN 1 ELSE 0)
    BY <2>2, <2>6
  <2>12. ClientsOK' /\ RecvBufOK' /\ IdsOK'
    BY <1>1, <1>2, <2>1, <2>7, <2>8, <2>9, <2>10, <2>11, FrameOther
  <2>13. Connected(new)
    BY <1>7, <2>6 DEF Connected, IsRun
  <2>14. Running' = Running /\ LostRecv \subseteq LostRecv' /\ LostSend \subseteq LostSend'
    BY <1>2, <1>7, <2>1, <2>6, <2>13, FrameRunning, FrameLost DEF IInv
  <2>15. CountOK'
    BY <1>1, <1>4, <2>14, CountSame DEF IInv, Closing
  <2>16. QED
    BY <1>5, <2>12, <2>15 DEF IInv
<1>8. CASE ~(IsRun(c) /\ MayAccept(c) /\ Len(r.sendBuf) < SendCap)
  <2>1. UNCHANGED cl
    BY <1>2, <1>3, <1>8 DEF SendTest, IInv, ClientsOK
  <2>2. QED
    BY <1>6, <2>1
<1>9. QED
  BY <1>7, <1>8

\* OnRun is over.
LEMMA NextClientThread ==
  ASSUME ThreadOK, pc \in InOnRun, NextClient, UNCHANGED loopVars
  PROVE  ThreadOK' /\ pc' \in {"run", "loop"}
<1>1. UNCHANGED <<kind, bRun>> /\ canWrite' = FALSE /\ copied' = 0 /\ at \in Nat \ {0} /\ at <= NClients
  BY DEF NextClient, loopVars, ThreadOK, InOnRun
<1>2. pc' \in {"run", "loop"} /\ at' \in Nat \ {0} /\ at' <= NClients
  BY <1>1, Sizes DEF NextClient
<1>3. QED
  BY <1>1, <1>2 DEF ThreadOK, Phases

LEMMA RunSkipsStep ==
  ASSUME IInv, RunSkips
  PROVE  IInv'
<1>1. /\ pc = "run" /\ NextClient /\ UNCHANGED <<kind, cl, nConnect, errors>> /\ UNCHANGED loopVars
  BY DEF RunSkips, loopVars
<1>2. ThreadOK' /\ pc' \in {"run", "loop"}
  BY <1>1, NextClientThread DEF IInv, InOnRun
<1>3. ClientsOK' /\ RecvBufOK' /\ IdsOK' /\ CountOK'
  BY <1>1, <1>2, FrameSame DEF Closing
<1>4. QED
  BY <1>2, <1>3 DEF IInv

LEMMA CloseNextStep ==
  ASSUME IInv, CloseNext
  PROVE  IInv'
<1> DEFINE r == cl[at]
<1>1. /\ pc = "close" /\ UNCHANGED <<kind, bRun, canWrite, copied, nConnect, errors>>
      /\ at \in Clients /\ at \in Nat \ {0} /\ at <= NClients /\ kind \in Kinds /\ ~bRun
      /\ bRun \in BOOLEAN /\ canWrite \in BOOLEAN /\ copied = 0
      /\ r \in ClientRec /\ ClientOK(r, kind # "iocp") /\ r.sendId <= MaxMsgs[kind] + 1
      /\ cl \in [Clients -> ClientRec]
  BY Sizes DEF CloseNext, loopVars, pollVars, IInv, ThreadOK, ClientsOK, Clients
<1> DEFINE mid == Unconnected(r)  new == [mid EXCEPT !.obj = "deleted"]
<1>2. cl' = [cl EXCEPT ![at] = new] /\ at' = at + 1 /\ pc' = "close"
  BY <1>1 DEF CloseNext
<1>3. /\ ClientOK(mid, kind # "iocp") /\ ~Connected(mid) /\ mid.sendId = r.sendId /\ mid.recvBuf = 0
  BY <1>1, UnconnectedClient
<1> HIDE DEF mid
<1>4. mid \in ClientRec
  BY <1>3 DEF ClientOK
<1>5. SameData(mid, new)
  BY <1>4 DEF SameData, ClientRec
<1> HIDE DEF new
<1>6. ClientOK(new, kind # "iocp") /\ ~Connected(new) /\ new.sendId = r.sendId /\ new.recvBuf = 0
  BY <1>3, <1>5, SameClient DEF SameData, Connected
<1>7. /\ \A n : Continues(new, n)
      /\ new.recvBuf <= (IF new.sendIo.st = "lost" THEN 1 ELSE 0)
      /\ pc \notin InOnRun /\ pc' \notin InOnRun
  BY <1>1, <1>2, <1>6 DEF Continues, InOnRun
<1>8. ClientsOK' /\ RecvBufOK' /\ IdsOK'
  BY <1>1, <1>2, <1>6, <1>7, FrameOther
<1>9. LostRecv \subseteq LostRecv' /\ LostSend \subseteq LostSend'
  BY <1>1, <1>2, <1>6, FrameLost DEF IInv
<1>10. CountOK'
  BY <1>1, <1>2, <1>9, CountSame DEF IInv, Closing
<1>11. ThreadOK'
  BY <1>1, <1>2, Sizes DEF ThreadOK, Phases
<1>12. QED
  BY <1>8, <1>10, <1>11 DEF IInv

-----------------------------------------------------------------------------
(* OnRun.                                                                  *)

\* The client whose OnRun it is.
LEMMA AtClient ==
  ASSUME IInv, pc \in InOnRun
  PROVE  /\ at \in Clients /\ cl \in [Clients -> ClientRec] /\ cl[at] \in ClientRec
         /\ ClientOK(cl[at], kind # "iocp") /\ Continues(cl[at], Taken(at))
         /\ cl[at].recvBuf <= (IF cl[at].sendIo.st = "lost" THEN 1 ELSE 0)
                                 + (IF pc = "reap" /\ ~cl[at].postRead THEN 1 ELSE 0)
<1>1. at \in Clients
  BY Sizes DEF IInv, ThreadOK, InOnRun, Clients
<1>2. QED
  BY <1>1 DEF IInv, ClientsOK, IdsOK, RecvBufOK

\* OnRun is over, and this is the client it leaves.
LEMMA ReturnedStep ==
  ASSUME IInv, pc \in InOnRun, NEW c, c = at, NEW new, cl' = [cl EXCEPT ![c] = new], NextClient,
         UNCHANGED loopVars,
         ClientOK(new, kind # "iocp"), new.sendId = cl[c].sendId,
         Continues(new, IF new.sendIo.st = "done" THEN new.sendIo.n ELSE 0),
         new.recvBuf <= (IF new.sendIo.st = "lost" THEN 1 ELSE 0), CountOK'
  PROVE  IInv'
<1>1. ThreadOK' /\ pc' \in {"run", "loop"} /\ kind' = kind
  BY NextClientThread DEF IInv, loopVars
<1>2. c \in Clients /\ cl'[c] = new
  BY Sizes DEF IInv, ThreadOK, ClientsOK, InOnRun, Clients
<1>3. \A d \in Clients \ {c} : Taken(d)' = Taken(d)
  BY <1>1, <1>2, FrameTaken DEF IInv
<1>4. Taken(c)' = IF new.sendIo.st = "done" THEN new.sendIo.n ELSE 0
  BY <1>1, <1>2 DEF Taken
<1>5. new.sendId <= MaxMsgs[kind] + 1
  BY <1>2 DEF IInv, ClientsOK
<1>6. ClientsOK' /\ IdsOK'
  BY <1>1, <1>2, <1>3, <1>4, <1>5, FrameClients DEF IInv
<1>7. new.recvBuf <= (IF new.sendIo.st = "lost" THEN 1 ELSE 0)
                       + (IF pc' = "reap" /\ c = at' /\ ~new.postRead THEN 1 ELSE 0)
  BY <1>1 DEF ClientOK, ClientRec
<1>8. RecvBufOK'
  BY <1>1, <1>2, <1>7, FrameRecv DEF IInv
<1>9. QED
  BY <1>1, <1>6, <1>8 DEF IInv

LEMMA ReturnsTrueStep ==
  ASSUME IInv, pc \in InOnRun, IsRun(at), UNCHANGED errors, NEW client,
         \E count \in {client.sendCount, NMsg} :
           cl' = [cl EXCEPT ![at] = [client EXCEPT !.sendCount = count]],
         NextClient, UNCHANGED loopVars, UNCHANGED nConnect,
         ClientOK(client, kind # "iocp"), Connected(client), client.sendId = cl[at].sendId,
         Continues(client, IF client.sendIo.st = "done" THEN client.sendIo.n ELSE 0),
         client.recvBuf <= (IF client.sendIo.st = "lost" THEN 1 ELSE 0),
         client.recvIo = cl[at].recvIo, client.sendIo = cl[at].sendIo
  PROVE  IInv'
<1>1. PICK c : c = at
  OBVIOUS
<1>2. PICK count \in {client.sendCount, NMsg} :
        cl' = [cl EXCEPT ![c] = [client EXCEPT !.sendCount = count]]
  BY <1>1
<1> DEFINE new == [client EXCEPT !.sendCount = count]
<1>3. client \in ClientRec /\ count \in 0..NMsg
  BY <1>2, Sizes DEF ClientOK, ClientRec
<1>4. SameData(client, new)
  BY <1>3 DEF SameData, ClientRec
<1> HIDE DEF new
<1>5. ClientOK(new, kind # "iocp") /\ \A n : Continues(client, n) => Continues(new, n)
  BY <1>4, SameClient
<1>6. c \in Clients /\ cl' = [cl EXCEPT ![c] = new]
  BY <1>1, <1>2, AtClient DEF new
<1>7. ThreadOK' /\ pc' \in {"run", "loop"}
  BY NextClientThread DEF IInv
<1>8. Connected(new) /\ IsRun(c) /\ new.recvIo = cl[c].recvIo /\ new.sendIo = cl[c].sendIo
  BY <1>1, <1>4 DEF SameData, Connected
<1>9. Running' = Running /\ LostRecv \subseteq LostRecv' /\ LostSend \subseteq LostSend'
  BY <1>6, <1>8, FrameRunning, FrameLost DEF IInv
<1>10. CountOK'
  BY <1>7, <1>9, CountSame DEF IInv, Closing, InOnRun
<1>11. /\ new.sendId = cl[c].sendId
       /\ Continues(new, IF new.sendIo.st = "done" THEN new.sendIo.n ELSE 0)
       /\ new.recvBuf <= (IF new.sendIo.st = "lost" THEN 1 ELSE 0)
  BY <1>1, <1>4, <1>5 DEF SameData
<1>12. QED
  BY <1>1, <1>5, <1>6, <1>10, <1>11, ReturnedStep

\* The client closes, and OnRun returns false.
LEMMA ClosesStep ==
  ASSUME IInv, pc \in InOnRun, IsRun(at), UNCHANGED errors, ReturnsFalse(Unconnected(cl[at]))
  PROVE  IInv'
<1>1. PICK c : c = at
  OBVIOUS
<1> DEFINE new == Unconnected(cl[c])
<1>2. /\ cl' = [cl EXCEPT ![c] = new] /\ NextClient /\ UNCHANGED loopVars /\ nConnect' = nConnect - 1
  BY <1>1 DEF ReturnsFalse
<1>3. c \in Clients /\ ClientOK(cl[c], kind # "iocp")
  BY <1>1, AtClient
<1>4. /\ ClientOK(new, kind # "iocp") /\ ~Connected(new) /\ new.sendId = cl[c].sendId
      /\ new.recvBuf = 0
  BY <1>3, UnconnectedClient
<1> HIDE DEF new
<1>5. ThreadOK' /\ pc' \in {"run", "loop"}
  BY <1>2, NextClientThread DEF IInv
<1>6. CountOK'
  BY <1>1, <1>2, <1>3, <1>4, <1>5, CountClosed DEF IInv, Closing, InOnRun
<1>7. Continues(new, IF new.sendIo.st = "done" THEN new.sendIo.n ELSE 0)
  BY <1>4 DEF Continues
<1>8. new.recvBuf <= (IF new.sendIo.st = "lost" THEN 1 ELSE 0)
  BY <1>4
<1>9. QED
  BY <1>1, <1>2, <1>4, <1>6, <1>7, <1>8, ReturnedStep

LEMMA PollStep ==
  ASSUME IInv, Poll
  PROVE  IInv'
<1>1. /\ pc = "run" /\ IsRun(at) /\ kind \in {"select", "epoll"} /\ pc' \in {"recv", "write"}
      /\ UNCHANGED <<kind, bRun, at, copied, cl, nConnect, errors>>
  BY DEF Poll, Polls, loopVars
<1>2. canWrite' \in BOOLEAN
  BY DEF Poll
<1>3. copied = 0 /\ at \in Clients /\ Len(cl[at].sendBuf) \in Nat
  BY <1>1, AtClient DEF IInv, ThreadOK, ClientRec, InOnRun
<1>4. ThreadOK'
  BY <1>1, <1>2, <1>3 DEF IInv, ThreadOK, IsRun, Phases
<1>5. ClientsOK' /\ RecvBufOK' /\ IdsOK' /\ CountOK'
  BY <1>1, <1>3, FrameSame DEF Closing
<1>6. QED
  BY <1>4, <1>5 DEF IInv

LEMMA RecvDataStep ==
  ASSUME IInv, Recv
  PROVE  IInv'
<1>1. /\ pc = "recv" /\ pc' = "write" /\ cl' = [cl EXCEPT ![at].rx = 0]
      /\ UNCHANGED <<kind, bRun, at, canWrite, copied, nConnect, errors>>
  BY DEF Recv, loopVars, pollVars
<1>2. PICK c : c = at
  OBVIOUS
<1> DEFINE r == cl[c]  new == [r EXCEPT !.rx = 0]
<1>3. /\ c \in Clients /\ r \in ClientRec /\ cl \in [Clients -> ClientRec]
      /\ ClientOK(r, kind # "iocp") /\ Continues(r, Taken(c))
      /\ r.recvBuf <= (IF r.sendIo.st = "lost" THEN 1 ELSE 0)
  BY <1>1, <1>2, AtClient DEF InOnRun, ClientRec
<1>4. kind # "iocp" /\ copied = 0 /\ Connected(r) /\ IsRun(c)
  BY <1>1, <1>2 DEF IInv, ThreadOK, Connected, IsRun
<1>5. r.sendIo = NoIo /\ r.recvIo = NoIo
  BY <1>3, <1>4 DEF ClientOK
<1>6. Taken(c) = 0
  BY <1>1, <1>5 DEF Taken, NoIo
<1>20. cl' = [cl EXCEPT ![c] = new]
  BY <1>1, <1>2, <1>3
<1>21. SameData(r, new)
  BY <1>3, 0 \in 0..1 DEF SameData, ClientRec
<1>7. cl' = [cl EXCEPT ![c] = new] /\ SameData(r, new)
  BY <1>20, <1>21
<1> HIDE DEF new
<1>8. ClientOK(new, kind # "iocp") /\ Continues(new, 0)
  BY <1>3, <1>6, <1>7, SameClient
<1>9. Taken(c)' = 0
  BY <1>1, <1>2, <1>4 DEF Taken
<1>10. \A d \in Clients \ {c} : Taken(d)' = Taken(d)
  BY <1>1, <1>2, <1>3, <1>7, FrameTaken DEF IInv
<1>11. new.sendId <= MaxMsgs[kind] + 1
  BY <1>3, <1>7 DEF IInv, ClientsOK, SameData
<1>12. ClientsOK' /\ IdsOK'
  BY <1>1, <1>3, <1>7, <1>8, <1>9, <1>10, <1>11, FrameClients DEF IInv
<1>13. new.recvBuf <= (IF new.sendIo.st = "lost" THEN 1 ELSE 0)
                       + (IF pc' = "reap" /\ c = at' /\ ~new.postRead THEN 1 ELSE 0)
  BY <1>1, <1>3, <1>7 DEF SameData, ClientRec
<1>14. RecvBufOK'
  BY <1>1, <1>3, <1>7, <1>13, FrameRecv DEF IInv
<1>15. Running' = Running /\ LostRecv \subseteq LostRecv' /\ LostSend \subseteq LostSend'
  BY <1>3, <1>4, <1>7, FrameRunning, FrameLost DEF IInv, SameData, Connected
<1>16. CountOK'
  BY <1>1, <1>15, CountSame DEF IInv, Closing
<1>17. cl'[at].bConnect /\ cl'[at].pClient /\ Len(cl'[at].sendBuf) \in Nat
  <2>1. cl'[at] = new
    BY <1>2, <1>3, <1>7
  <2>2. Len(r.sendBuf) \in Nat
    BY <1>3 DEF ClientRec
  <2>3. QED
    BY <1>4, <1>7, <2>1, <2>2 DEF SameData, Connected
<1>18. ThreadOK'
  BY <1>1, <1>4, <1>17 DEF IInv, ThreadOK, Phases
<1>19. QED
  BY <1>12, <1>14, <1>16, <1>18 DEF IInv

LEMMA NothingToWriteStep ==
  ASSUME IInv, NothingToWrite
  PROVE  IInv'
<1>1. /\ pc = "write" /\ (~canWrite \/ Me.sendBuf = <<>>) /\ ReturnsTrue(Me) /\ pc \in InOnRun
  BY DEF NothingToWrite, InOnRun
<1>2. /\ ClientOK(Me, kind # "iocp") /\ Continues(Me, Taken(at)) /\ Me \in ClientRec
      /\ Me.recvBuf <= (IF Me.sendIo.st = "lost" THEN 1 ELSE 0)
  BY <1>1, AtClient DEF Me, ClientRec
<1>3. /\ kind # "iocp" /\ Connected(Me) /\ IsRun(at) /\ copied = 0
  BY <1>1 DEF IInv, ThreadOK, Connected, IsRun, Me
<1>4. Me.sendIo = NoIo /\ Taken(at) = 0
  BY <1>1, <1>2, <1>3 DEF ClientOK, Taken
<1>5. Continues(Me, IF Me.sendIo.st = "done" THEN Me.sendIo.n ELSE 0)
  BY <1>2, <1>4 DEF NoIo
<1>6. QED
  BY <1>1, <1>2, <1>3, <1>5, ReturnsTrueStep DEF ReturnsTrue, Me

LEMMA WriteReturnsStep ==
  ASSUME IInv, WriteReturns
  PROVE  IInv'
<1> DEFINE new == [Me EXCEPT !.sendBuf = SubSeq(@, copied + 1, Len(@))]
<1>1. /\ pc = "write" /\ ReturnsTrue(new) /\ pc \in InOnRun
  BY DEF WriteReturns, InOnRun
<1>2. /\ ClientOK(Me, kind # "iocp") /\ Continues(Me, Taken(at)) /\ Me \in ClientRec
      /\ Me.recvBuf <= (IF Me.sendIo.st = "lost" THEN 1 ELSE 0) /\ Len(Me.sendBuf) \in Nat
  BY <1>1, AtClient DEF Me, ClientRec
<1>3. /\ kind # "iocp" /\ Connected(Me) /\ IsRun(at) /\ copied \in Nat /\ copied <= Len(Me.sendBuf)
  BY <1>1 DEF IInv, ThreadOK, Connected, IsRun, Me
<1>4. Me.sendIo = NoIo /\ Taken(at) = copied /\ copied \in 0..Len(Me.sendBuf) /\ ClientOK(Me, TRUE)
  BY <1>1, <1>2, <1>3 DEF ClientOK, Taken
<1>5. ClientOK(new, TRUE) /\ Continues(new, 0)
  BY <1>2, <1>4, ReturnedClient
<1>6. /\ new.sendIo = Me.sendIo /\ new.recvIo = Me.recvIo /\ new.recvBuf = Me.recvBuf
      /\ new.sendId = Me.sendId /\ new.bConnect = Me.bConnect /\ new.pClient = Me.pClient
  BY <1>2 DEF ClientRec
<1> HIDE DEF new
<1>7. ClientOK(new, kind # "iocp")
  BY <1>3, <1>5
<1>8. Continues(new, IF new.sendIo.st = "done" THEN new.sendIo.n ELSE 0)
  BY <1>4, <1>5, <1>6 DEF NoIo
<1>9. QED
  BY <1>1, <1>2, <1>3, <1>6, <1>7, <1>8, ReturnsTrueStep DEF ReturnsTrue, Connected, Me

LEMMA WriteCopiesStep ==
  ASSUME IInv, WriteCopies
  PROVE  IInv'
<1>1. PICK c : c = at
  OBVIOUS
<1> DEFINE r == cl[c]  new == [r EXCEPT !.tx = @ + 1, !.last = r.sendBuf[copied + 1]]
<1>2. /\ pc = "write" /\ pc' = "write" /\ canWrite /\ copied < Len(r.sendBuf) /\ r.tx < TxCap
      /\ copied' = copied + 1 /\ UNCHANGED <<kind, bRun, at, canWrite, nConnect, errors>>
      /\ cl' = [cl EXCEPT ![c].tx = @ + 1, ![c].last = r.sendBuf[copied + 1]]
  BY <1>1 DEF WriteCopies, Me, loopVars
<1>3. /\ c \in Clients /\ r \in ClientRec /\ cl \in [Clients -> ClientRec]
      /\ ClientOK(r, kind # "iocp") /\ Continues(r, Taken(c)) /\ Len(r.sendBuf) \in Nat
      /\ r.recvBuf <= (IF r.sendIo.st = "lost" THEN 1 ELSE 0)
  BY <1>1, <1>2, AtClient DEF InOnRun, ClientRec
<1>4. kind # "iocp" /\ copied \in Nat /\ Connected(r) /\ IsRun(c) /\ Taken(c) = copied
  BY <1>1, <1>2 DEF IInv, ThreadOK, Connected, IsRun, Taken
<1>5. cl' = [cl EXCEPT ![c] = new]
  BY <1>2, <1>3 DEF ClientRec
<1>6. /\ new.sendIo = r.sendIo /\ new.recvIo = r.recvIo /\ new.recvBuf = r.recvBuf
      /\ new.sendId = r.sendId /\ new.bConnect = r.bConnect /\ new.pClient = r.pClient
      /\ new.sendBuf = r.sendBuf
  BY <1>3 DEF ClientRec
<1>7. new = [r EXCEPT !.tx = @ + 1, !.last = r.sendBuf[copied + 1]]
  OBVIOUS
<1> HIDE DEF new
<1>8. ClientOK(new, kind # "iocp") /\ Continues(new, copied + 1)
  BY <1>2, <1>3, <1>4, <1>7, CopiedClient
<1>9. Taken(c)' = copied + 1
  BY <1>1, <1>2 DEF Taken
<1>10. \A d \in Clients \ {c} : Taken(d)' = Taken(d)
  BY <1>1, <1>2, <1>3, <1>5, FrameTaken DEF IInv
<1>11. new.sendId <= MaxMsgs[kind] + 1
  BY <1>3, <1>6 DEF IInv, ClientsOK
<1>20. Continues(new, Taken(c)') /\ kind' = kind
  BY <1>2, <1>8, <1>9
<1>12. ClientsOK' /\ IdsOK'
  BY <1>3, <1>5, <1>8, <1>10, <1>11, <1>20, FrameClients DEF IInv
<1>13. new.recvBuf <= (IF new.sendIo.st = "lost" THEN 1 ELSE 0)
                       + (IF pc' = "reap" /\ c = at' /\ ~new.postRead THEN 1 ELSE 0)
  BY <1>2, <1>3, <1>6 DEF ClientRec
<1>14. RecvBufOK'
  BY <1>2, <1>3, <1>5, <1>13, FrameRecv DEF IInv
<1>15. Running' = Running /\ LostRecv \subseteq LostRecv' /\ LostSend \subseteq LostSend'
  BY <1>3, <1>4, <1>5, <1>6, FrameRunning, FrameLost DEF IInv, Connected
<1>16. CountOK'
  BY <1>2, <1>15, CountSame DEF IInv, Closing
<1>17. cl'[at].bConnect /\ cl'[at].pClient /\ copied + 1 <= Len(cl'[at].sendBuf) /\ copied + 1 \in Nat
  BY <1>1, <1>2, <1>3, <1>4, <1>5, <1>6 DEF Connected
<1>18. ThreadOK'
  BY <1>2, <1>4, <1>17 DEF IInv, ThreadOK, Phases
<1>19. QED
  BY <1>12, <1>14, <1>16, <1>18 DEF IInv

LEMMA PollRunStep ==
  ASSUME IInv, PollRun
  PROVE  IInv'
<1>1. CASE PollFails
  BY <1>1, ClosesStep DEF PollFails, Polls, Me, InOnRun
<1>2. CASE RecvFails \/ WriteFails
  <2>1. /\ pc \in {"recv", "write"} /\ ReturnsFalse(Unconnected(cl[at])) /\ UNCHANGED errors
    BY <1>2 DEF RecvFails, WriteFails, Me
  <2>2. IsRun(at)
    BY <2>1 DEF IInv, ThreadOK, IsRun
  <2>3. QED
    BY <2>1, <2>2, ClosesStep DEF InOnRun
<1>3. QED
  BY <1>1, <1>2, PollStep, RecvDataStep, NothingToWriteStep, WriteCopiesStep, WriteReturnsStep
     DEF PollRun

LEMMA PostIoStep ==
  ASSUME IInv, PostIo
  PROVE  IInv'
<1>1. PICK c : c = at
  OBVIOUS
<1> DEFINE r == cl[c]
<1>2. /\ pc = "run" /\ pc' = "reap" /\ kind = "iocp" /\ IsRun(c)
      /\ UNCHANGED <<kind, bRun, at, canWrite, copied, nConnect, errors>>
  BY <1>1 DEF PostIo, loopVars, pollVars
<1>3. PICK new : Posts(r, new) /\ cl' = [cl EXCEPT ![c] = new]
  BY <1>1 DEF PostIo, Answers, Me, Posts
<1>4. /\ c \in Clients /\ ClientOK(r, FALSE) /\ Continues(r, Taken(c)) /\ Connected(r)
      /\ r.recvBuf <= (IF r.sendIo.st = "lost" THEN 1 ELSE 0) /\ r \in ClientRec
  <2>1. Connected(r) /\ pc \in InOnRun
    BY <1>2 DEF Connected, IsRun, InOnRun
  <2>2. /\ c \in Clients /\ ClientOK(r, FALSE) /\ Continues(r, Taken(c)) /\ r \in ClientRec
        /\ r.recvBuf <= (IF r.sendIo.st = "lost" THEN 1 ELSE 0)
                          + (IF pc = "reap" /\ ~r.postRead THEN 1 ELSE 0)
    BY <1>1, <1>2, <2>1, AtClient
  <2>3. r.recvBuf \in Nat
    BY <2>2 DEF ClientRec
  <2>4. r.recvBuf <= (IF r.sendIo.st = "lost" THEN 1 ELSE 0)
    BY <1>2, <2>2, <2>3
  <2>5. QED
    BY <2>1, <2>2, <2>4
<1>5. /\ ClientOK(new, FALSE) /\ Connected(new)
      /\ Continues(new, Taken(c))
      /\ new.sendId = r.sendId /\ new.recvBuf = r.recvBuf
      /\ new.sendIo.st = "done" => r.sendIo.st = "done"
      /\ r.sendIo.st = "done" => new.sendIo = r.sendIo
      /\ r.recvIo.st = "lost" => new.recvIo.st = "lost"
      /\ r.sendIo.st = "lost" => new.sendIo.st = "lost"
  <2>1. PICK n : n = Taken(c)
    OBVIOUS
  <2>2. Continues(r, n)
    BY <1>4, <2>1
  <2> HIDE DEF r
  <2>3. QED
    BY <1>3, <1>4, <2>1, <2>2, PostedClient
<1>6. cl' = [cl EXCEPT ![c] = new] /\ cl'[c] = new
  BY <1>3, <1>4 DEF IInv, ClientsOK
<1>7. Taken(c)' = Taken(c)
  BY <1>2, <1>5, <1>6 DEF Taken
<1>8. Continues(new, Taken(c)')
  BY <1>4, <1>5, <1>7
<1>9. \A d \in Clients \ {c} : Taken(d)' = Taken(d)
  BY <1>2, <1>4, <1>6, FrameTaken DEF IInv
<1>10. new.sendId <= MaxMsgs[kind] + 1 /\ ClientOK(new, kind # "iocp")
  BY <1>2, <1>4, <1>5 DEF IInv, ClientsOK
<1>11. ClientsOK' /\ IdsOK'
  BY <1>2, <1>4, <1>6, <1>8, <1>9, <1>10, FrameClients DEF IInv
<1>12. new.recvBuf <= (IF new.sendIo.st = "lost" THEN 1 ELSE 0)
                        + (IF pc' = "reap" /\ c = at' /\ ~new.postRead THEN 1 ELSE 0)
  BY <1>4, <1>5 DEF ClientRec
<1>13. RecvBufOK'
  BY <1>2, <1>4, <1>6, <1>12, FrameRecv DEF IInv
<1>14. Running' = Running /\ LostRecv \subseteq LostRecv' /\ LostSend \subseteq LostSend'
  BY <1>2, <1>4, <1>5, <1>6, FrameRunning, FrameLost DEF IInv
<1>15. CountOK'
  BY <1>2, <1>14, CountSame DEF IInv, Closing
<1>16. cl'[at].bConnect /\ cl'[at].pClient
  BY <1>1, <1>5, <1>6 DEF Connected
<1>17. ThreadOK'
  BY <1>2, <1>16 DEF IInv, ThreadOK, Phases
<1>18. QED
  BY <1>11, <1>13, <1>15, <1>17 DEF IInv

\* What doIocpNetEvents starts from.
LEMMA ReapClient ==
  ASSUME IInv, NEW what, Reaps(what)
  PROVE  /\ pc = "reap" /\ pc \in InOnRun /\ kind = "iocp" /\ IsRun(at) /\ Connected(Me)
         /\ ~IsFresh(Me) /\ ClientOK(Me, FALSE) /\ Me.port # <<>> /\ Head(Me.port) = what
<1>1. /\ pc = "reap" /\ pc \in InOnRun /\ kind = "iocp" /\ IsRun(at) /\ Connected(Me)
      /\ Me.port # <<>> /\ Head(Me.port) = what
  BY DEF Reaps, IInv, ThreadOK, IsRun, Connected, Me, InOnRun
<1>2. ClientOK(Me, FALSE)
  BY <1>1, AtClient DEF Me
<1>3. QED
  BY <1>1, <1>2, FreshClient

LEMMA ReapRecvStep ==
  ASSUME IInv, ReapRecv
  PROVE  IInv'
<1>1. PICK c : c = at
  OBVIOUS
<1> DEFINE r == cl[c]
           new == [r EXCEPT !.port = Tail(@), !.recvIo = NoIo, !.postRead = FALSE,
                            !.recvBuf = @ + r.recvIo.n]
<1>2. /\ pc = "reap" /\ pc \in InOnRun /\ kind = "iocp" /\ IsRun(c) /\ Connected(r) /\ ~IsFresh(r)
      /\ ClientOK(r, FALSE) /\ r.port # <<>> /\ Head(r.port) = "recv"
  BY <1>1, ReapClient DEF ReapRecv, Me
<1>3. UNCHANGED <<loopVars, pc, at, pollVars, nConnect, errors>>
  BY DEF ReapRecv
<1>4. /\ c \in Clients /\ cl \in [Clients -> ClientRec] /\ Continues(r, Taken(c)) /\ r \in ClientRec
      /\ r.recvBuf <= (IF r.sendIo.st = "lost" THEN 1 ELSE 0) + (IF ~r.postRead THEN 1 ELSE 0)
  BY <1>1, <1>2, AtClient
<1>5. cl' = [cl EXCEPT ![c] = new]
  <2>1. cl' = [cl EXCEPT ![c].port = Tail(@), ![c].recvIo = NoIo, ![c].postRead = FALSE,
                         ![c].recvBuf = @ + r.recvIo.n]
    BY <1>1 DEF ReapRecv, Me
  <2>2. QED
    BY <1>4, <2>1 DEF ClientRec
<1>6. new = [r EXCEPT !.port = Tail(@), !.recvIo = NoIo, !.postRead = FALSE, !.recvBuf = @ + r.recvIo.n]
  OBVIOUS
<1> HIDE DEF new
<1>7. /\ ClientOK(new, FALSE) /\ Continues(new, Taken(c))
      /\ r.postRead /\ r.recvIo.st = "done" /\ r.recvIo.n \in 0..1
      /\ new.recvBuf = r.recvBuf + r.recvIo.n /\ new.sendIo = r.sendIo /\ ~new.postRead
      /\ new.obj = r.obj /\ new.sendId = r.sendId /\ Connected(new)
  <2>1. PICK n : n = Taken(c)
    OBVIOUS
  <2>2. Continues(r, n)
    BY <1>4, <2>1
  <2> HIDE DEF r
  <2>3. ClientOK(new, FALSE) /\ Continues(new, n)
    BY <1>2, <1>6, <2>2, ReapedRecv
  <2>4. /\ r.postRead /\ r.recvIo.st = "done" /\ r.recvIo.n \in 0..1
        /\ new.recvBuf = r.recvBuf + r.recvIo.n /\ new.sendIo = r.sendIo /\ ~new.postRead
    BY <1>2, <1>6, <2>2, ReapedRecv
  <2>5. /\ new.obj = r.obj /\ new.sendId = r.sendId
    BY <1>2, <1>6, <2>2, ReapedRecv
  <2>7. Connected(new)
    BY <1>2, <1>6, <2>2, ReapedRecv
  <2>6. QED
    BY <2>1, <2>3, <2>4, <2>5, <2>7
<1>8. cl'[c] = new
  BY <1>4, <1>5
<1>9. Taken(c)' = Taken(c)
  BY <1>2, <1>3, <1>7, <1>8 DEF Taken
<1>10. new.recvBuf <= (IF new.sendIo.st = "lost" THEN 1 ELSE 0)
                        + (IF pc = "reap" /\ c = at /\ ~new.postRead THEN 1 ELSE 0)
  BY <1>1, <1>2, <1>4, <1>7 DEF ClientRec
<1>11. Continues(new, Taken(c)') /\ ClientOK(new, kind # "iocp") /\ (Connected(new) <=> IsRun(c))
  BY <1>2, <1>4, <1>7, <1>9
<1>12. ~(r.recvIo.st = "lost") /\ pc # "write" /\ (r.sendIo.st = "lost" => new.sendIo.st = "lost")
  BY <1>2, <1>7
<1>13. QED
  BY <1>2, <1>3, <1>4, <1>5, <1>7, <1>10, <1>11, <1>12, QuietStep

LEMMA ReapSendStep ==
  ASSUME IInv, ReapSend
  PROVE  IInv'
<1>1. PICK c : c = at
  OBVIOUS
<1> DEFINE r == cl[c]
           new == [r EXCEPT !.port = Tail(@), !.sendIo = NoIo, !.postSend = FALSE,
                            !.sendBuf = SubSeq(@, r.sendIo.n + 1, Len(@))]
<1>2. /\ pc = "reap" /\ pc \in InOnRun /\ kind = "iocp" /\ IsRun(c) /\ Connected(r) /\ ~IsFresh(r)
      /\ ClientOK(r, FALSE) /\ r.port # <<>> /\ Head(r.port) = "send"
  BY <1>1, ReapClient DEF ReapSend, Me
<1>3. UNCHANGED <<loopVars, pc, at, pollVars, nConnect, errors>>
  BY DEF ReapSend
<1>4. /\ c \in Clients /\ cl \in [Clients -> ClientRec] /\ Continues(r, Taken(c)) /\ r \in ClientRec
      /\ r.recvBuf <= (IF r.sendIo.st = "lost" THEN 1 ELSE 0) + (IF ~r.postRead THEN 1 ELSE 0)
  BY <1>1, <1>2, AtClient
<1>5. cl' = [cl EXCEPT ![c] = new]
  <2>1. cl' = [cl EXCEPT ![c].port = Tail(@), ![c].sendIo = NoIo, ![c].postSend = FALSE,
                         ![c].sendBuf = SubSeq(@, r.sendIo.n + 1, Len(@))]
    BY <1>1 DEF ReapSend, Me
  <2>2. QED
    BY <1>4, <2>1 DEF ClientRec
<1>6. new = [r EXCEPT !.port = Tail(@), !.sendIo = NoIo, !.postSend = FALSE,
                      !.sendBuf = SubSeq(@, r.sendIo.n + 1, Len(@))]
  OBVIOUS
<1> HIDE DEF new
<1>7. /\ ClientOK(new, FALSE) /\ (Continues(r, r.sendIo.n) => Continues(new, 0))
      /\ r.sendIo.st = "done" /\ new.sendIo = NoIo /\ new.recvIo = r.recvIo
      /\ new.recvBuf = r.recvBuf /\ new.postRead = r.postRead
      /\ new.obj = r.obj /\ new.sendId = r.sendId /\ (Connected(new) <=> Connected(r))
  BY <1>2, <1>6, ReapedSend
<1>8. cl'[c] = new
  BY <1>4, <1>5
<1>9. Taken(c)' = 0 /\ Taken(c) = r.sendIo.n
  BY <1>2, <1>3, <1>7, <1>8 DEF Taken, NoIo
<1>10. new.recvBuf <= (IF new.sendIo.st = "lost" THEN 1 ELSE 0)
                        + (IF pc = "reap" /\ c = at /\ ~new.postRead THEN 1 ELSE 0)
  BY <1>1, <1>2, <1>4, <1>7 DEF ClientRec, NoIo
<1>11. Continues(new, Taken(c)') /\ ClientOK(new, kind # "iocp") /\ (Connected(new) <=> IsRun(c))
  BY <1>2, <1>4, <1>7, <1>9
<1>12. ~(r.sendIo.st = "lost") /\ pc # "write" /\ (r.recvIo.st = "lost" => new.recvIo.st = "lost")
  BY <1>2, <1>7
<1>13. QED
  BY <1>2, <1>3, <1>4, <1>5, <1>7, <1>10, <1>11, <1>12, QuietStep

LEMMA ReapFailsStep ==
  ASSUME IInv, ReapFails
  PROVE  IInv'
<1>1. PICK c : c = at
  OBVIOUS
<1> DEFINE r == cl[c]
           io  == IF Head(r.port) = "recv" THEN [r EXCEPT !.recvIo = Lost]
                                           ELSE [r EXCEPT !.sendIo = Lost]
           new == [io EXCEPT !.port = Tail(@)]
<1>2. /\ pc = "reap" /\ pc \in InOnRun /\ kind = "iocp" /\ IsRun(c) /\ Connected(r)
      /\ ClientOK(r, FALSE) /\ r.port # <<>>
  BY <1>1, ReapClient DEF ReapFails, ReapIsEmpty, Me
<1>3. /\ cl' = [cl EXCEPT ![c] = new] /\ NextClient /\ UNCHANGED loopVars
      /\ nConnect' = nConnect - 1 /\ errors' = errors + 1
  BY <1>1 DEF ReapFails, ReturnsFalse, Me
<1>4. /\ ClientOK(new, FALSE) /\ Connected(new)
      /\ new.sendId = r.sendId /\ new.sendBuf = r.sendBuf /\ new.recvBuf = r.recvBuf
      /\ new.last = r.last
      /\ Head(r.port) = "recv" => /\ r.postRead /\ r.recvIo.st = "done"
                                  /\ new.recvIo.st = "lost" /\ new.sendIo = r.sendIo
      /\ Head(r.port) # "recv" => /\ Head(r.port) = "send" /\ r.sendIo.st = "done"
                                  /\ new.sendIo.st = "lost" /\ new.recvIo = r.recvIo
  BY <1>2, FailedClient
<1> HIDE DEF new
<1>5. /\ c \in Clients /\ Continues(r, Taken(c)) /\ r \in ClientRec
      /\ r.recvBuf <= (IF r.sendIo.st = "lost" THEN 1 ELSE 0) + (IF ~r.postRead THEN 1 ELSE 0)
  BY <1>1, <1>2, AtClient
<1>6. ThreadOK' /\ pc' \in {"run", "loop"}
  BY <1>2, <1>3, NextClientThread DEF IInv
<1>7. \/ r.recvIo.st = "done" /\ new.recvIo.st = "lost" /\ new.sendIo = r.sendIo
      \/ r.sendIo.st = "done" /\ new.sendIo.st = "lost" /\ new.recvIo = r.recvIo
  BY <1>4
<1>8. pc \notin Closing /\ pc' \notin {"create", "init"}
  BY <1>2, <1>6 DEF Closing
<1>9. CountOK'
  BY <1>2, <1>3, <1>4, <1>5, <1>7, <1>8, CountFailed DEF IInv
<1>10. new.recvBuf <= (IF new.sendIo.st = "lost" THEN 1 ELSE 0)
  BY <1>4, <1>5 DEF ClientRec
<1>11. Head(r.port) = "send" => r.sendIo.n = 0
  BY <1>1 DEF ReapFails, ReapIsEmpty, Reaps, Me
<1>12. Taken(c) = IF r.sendIo.st = "done" THEN r.sendIo.n ELSE 0
  BY <1>2 DEF Taken
<1>13. Taken(c) = IF new.sendIo.st = "done" THEN new.sendIo.n ELSE 0
  <2>1. CASE Head(r.port) = "recv"
    BY <1>4, <1>12, <2>1
  <2>2. CASE Head(r.port) # "recv"
    BY <1>4, <1>11, <1>12, <2>2
  <2>3. QED
    BY <2>1, <2>2
<1>14. Continues(new, IF new.sendIo.st = "done" THEN new.sendIo.n ELSE 0)
  BY <1>2, <1>4, <1>5, <1>13 DEF Continues
<1>15. QED
  BY <1>1, <1>2, <1>3, <1>4, <1>9, <1>10, <1>14, ReturnedStep

LEMMA ReapNothingStep ==
  ASSUME IInv, ReapNothing
  PROVE  IInv'
<1> DEFINE new == [Me EXCEPT !.recvBuf = 0]
<1>1. /\ pc = "reap" /\ ReturnsTrue(new) /\ pc \in InOnRun
  BY DEF ReapNothing, InOnRun
<1>2. /\ ClientOK(Me, kind # "iocp") /\ Continues(Me, Taken(at)) /\ Me \in ClientRec
  BY <1>1, AtClient DEF Me
<1>3. Connected(Me) /\ IsRun(at)
  BY <1>1 DEF IInv, ThreadOK, Connected, IsRun, Me
<1>4. Taken(at) = IF Me.sendIo.st = "done" THEN Me.sendIo.n ELSE 0
  BY <1>1 DEF Taken, Me
<1>5. /\ new \in ClientRec /\ new.sendIo = Me.sendIo /\ new.recvIo = Me.recvIo /\ new.recvBuf = 0
      /\ new.sendId = Me.sendId /\ new.bConnect = Me.bConnect /\ new.pClient = Me.pClient
      /\ new.sendBuf = Me.sendBuf /\ new.last = Me.last /\ new.port = Me.port
      /\ new.postRead = Me.postRead /\ new.postSend = Me.postSend
  BY <1>2 DEF ClientRec
<1> HIDE DEF new
<1>6. ClientOK(new, kind # "iocp")
  BY <1>2, <1>5 DEF ClientOK, PortOK, Connected
<1>7. Continues(new, IF new.sendIo.st = "done" THEN new.sendIo.n ELSE 0)
  BY <1>2, <1>4, <1>5 DEF Continues, Connected
<1>8. Connected(new) /\ new.recvBuf <= (IF new.sendIo.st = "lost" THEN 1 ELSE 0)
  BY <1>3, <1>5 DEF Connected
<1>9. QED
  BY <1>1, <1>3, <1>5, <1>6, <1>7, <1>8, ReturnsTrueStep DEF ReturnsTrue, Me

LEMMA IocpRunStep ==
  ASSUME IInv, IocpRun
  PROVE  IInv'
<1>1. CASE PostFails
  BY <1>1, ClosesStep DEF PostFails, Me, InOnRun
<1>2. CASE ReapEmpty
  <2>1. pc \in InOnRun /\ IsRun(at)
    BY <1>2, ReapClient DEF ReapEmpty, ReapIsEmpty
  <2>2. QED
    BY <1>2, <2>1, ClosesStep DEF ReapEmpty, Me
<1>3. QED
  BY <1>1, <1>2, PostIoStep, ReapRecvStep, ReapSendStep, ReapFailsStep, ReapNothingStep DEF IocpRun

-----------------------------------------------------------------------------
(* The pointers.                                                           *)

\* With the two parts of the invariant nothing but the close of a thread that was
\* stopped early comes to a client that is not there.
LEMMA Uses ==
  ASSUME IInv, MadeOK
  PROVE  NoNullUsed
<1> SUFFICES ASSUME UsesNull
             PROVE  pc = "close" /\ \A n \in at..NClients : cl[n].obj = "null"
  BY DEF NoNullUsed
<1>1. PICK n \in Clients : \/ NeedsClient(n) /\ cl[n].obj # "made"
                           \/ NeedsConnection(n) /\ ~cl[n].pClient
  BY DEF UsesNull
<1>2. ~(NeedsConnection(n) /\ ~cl[n].pClient)
  BY DEF NeedsConnection, IInv, ThreadOK
<1>3. NeedsClient(n) /\ cl[n].obj # "made"
  BY <1>1, <1>2
<1>4. pc = "close" /\ n = at
  BY <1>3 DEF NeedsClient, MadeOK
<1>5. cl[n].obj \in {"null", "made", "deleted"} /\ at \in Nat \ {0}
  BY DEF IInv, ClientsOK, ClientRec, ThreadOK
<1>6. cl[at].obj = "null"
  BY <1>3, <1>4, <1>5 DEF MadeOK, Clients
<1>7. \A m \in at..NClients : m \in Clients /\ at <= m
  BY <1>5, Sizes DEF Clients
<1>8. QED
  BY <1>4, <1>6, <1>7 DEF MadeOK

LEMMA CrashStep ==
  ASSUME IInv, MadeOK, Crash
  PROVE  IInv'
<1>1. /\ UNCHANGED <<kind, bRun, canWrite, copied, at, cl, nConnect, errors>>
      /\ pc' = "crashed" /\ pc = "close"
  BY Uses DEF Crash, loopVars, pollVars, NoNullUsed
<1>2. ThreadOK'
  BY <1>1 DEF IInv, ThreadOK, Phases
<1>3. ClientsOK' /\ RecvBufOK' /\ IdsOK' /\ CountOK'
  BY <1>1, FrameSame DEF Closing
<1>4. QED
  BY <1>2, <1>3 DEF IInv

SameObjects == \A c \in Clients : cl'[c].obj = cl[c].obj

\* A step that neither makes nor deletes a client.
LEMMA SameObjectsStep ==
  ASSUME MadeOK, SameObjects, bRun' = bRun,
         pc \in {"init", "loop", "send", "run", "recv", "write", "reap"},
         pc' \in {"init", "loop", "send", "run", "recv", "write", "reap"},
         pc \in {"init", "loop"} /\ pc' \notin {"init", "loop"} => bRun
  PROVE  MadeOK'
BY DEF MadeOK, SameObjects

\* A client is replaced by one that is as much there.
LEMMA SameObject ==
  ASSUME ClientsOK, NEW c \in Clients, NEW new, cl' = [cl EXCEPT ![c] = new], new.obj = cl[c].obj
  PROVE  SameObjects
BY DEF SameObjects, ClientsOK

LEMMA ClosedObject ==
  ASSUME NEW r \in ClientRec
  PROVE  "obj" \in DOMAIN Unconnected(r) /\ Unconnected(r).obj = r.obj
BY DEF Unconnected, ClientRec

\* OnRun is over, with the client as it was ...
LEMMA ReturnsObject ==
  ASSUME IInv, MadeOK, pc \in InOnRun, NEW new, "obj" \in DOMAIN new, new.obj = cl[at].obj,
         ReturnsTrue(new) \/ ReturnsFalse(new)
  PROVE  MadeOK'
<1>1. at \in Clients /\ ClientsOK
  BY AtClient DEF IInv
<1>2. PICK r : cl' = [cl EXCEPT ![at] = r] /\ (r = new \/ \E n : r = [new EXCEPT !.sendCount = n])
  <2>1. CASE ReturnsFalse(new)
    BY <2>1 DEF ReturnsFalse
  <2>2. CASE ReturnsTrue(new)
    BY <2>2 DEF ReturnsTrue
  <2>3. QED
    BY <2>1, <2>2
<1>3. r.obj = cl[at].obj
  BY <1>2
<1>4. SameObjects
  BY <1>1, <1>2, <1>3, SameObject
<1>5. bRun' = bRun /\ pc' \in {"run", "loop"}
  BY DEF ReturnsTrue, ReturnsFalse, NextClient, loopVars
<1>6. QED
  BY <1>4, <1>5, SameObjectsStep DEF InOnRun

\* ... or closed.
LEMMA ReturnsClosed ==
  ASSUME IInv, MadeOK, pc \in InOnRun, ReturnsFalse(Unconnected(cl[at]))
  PROVE  MadeOK'
<1>1. cl[at] \in ClientRec
  BY AtClient
<1>2. "obj" \in DOMAIN Unconnected(cl[at]) /\ Unconnected(cl[at]).obj = cl[at].obj
  BY <1>1, ClosedObject
<1>3. QED
  BY <1>2, ReturnsObject

LEMMA MadeNext ==
  ASSUME IInv, MadeOK, [Next]_vars
  PROVE  MadeOK'
<1>1. CASE UNCHANGED vars
  BY <1>1 DEF vars, loopVars, MadeOK
<1>2. CASE Environment
  <2>1. CASE MainCloses
    BY <2>1 DEF MainCloses, MadeOK
  <2>2. ASSUME NEW c \in Clients,
               \/ Outside(ServerReads(c)) \/ Outside(ServerFails(c)) \/ Outside(ServerResets(c))
               \/ Outside(RecvCompletes(c)) \/ Outside(SendCompletes(c))
        PROVE  MadeOK'
    <3>1. UNCHANGED <<bRun, pc, at>>
      BY <2>2 DEF Outside, loopVars
    <3>2. cl \in [Clients -> ClientRec] /\ cl[c] \in ClientRec
      BY DEF IInv, ClientsOK
    <3>3. SameObjects
      <4> DEFINE r == cl[c]
      <4>1. CASE ServerReads(c)
        <5>1. PICK rx : cl' = [cl EXCEPT ![c].tx = 0, ![c].rx = rx]
          BY <4>1 DEF ServerReads
        <5>2. cl' = [cl EXCEPT ![c] = [r EXCEPT !.tx = 0, !.rx = rx]]
          BY <3>2, <5>1 DEF ClientRec
        <5>3. QED
          BY <3>2, <5>2 DEF SameObjects, ClientRec
      <4>2. CASE ServerFails(c) \/ ServerResets(c)
        <5>1. PICK server : cl' = [cl EXCEPT ![c].server = server]
          BY <4>2 DEF ServerFails, ServerResets
        <5>2. QED
          BY <3>2, <5>1 DEF SameObjects, ClientRec
      <4>3. CASE RecvCompletes(c)
        <5>1. PICK io, rx : cl' = [cl EXCEPT ![c] = [r EXCEPT !.recvIo = io, !.rx = rx,
                                                              !.port = Append(r.port, "recv")]]
          <6>1. CASE cl' = [cl EXCEPT ![c].recvIo = [st |-> "done", n |-> 1], ![c].rx = 0,
                                      ![c].port = Append(@, "recv")]
            BY <3>2, <6>1 DEF ClientRec
          <6>2. CASE cl' = [cl EXCEPT ![c].recvIo = [st |-> "done", n |-> 0],
                                      ![c].port = Append(@, "recv")]
            <7>1. cl' = [cl EXCEPT ![c] = [r EXCEPT !.recvIo = [st |-> "done", n |-> 0], !.rx = r.rx,
                                                    !.port = Append(r.port, "recv")]]
              BY <3>2, <6>2 DEF ClientRec
            <7>2. QED
              BY <7>1
          <6>3. QED
            BY <4>3, <6>1, <6>2 DEF RecvCompletes
        <5>2. QED
          BY <3>2, <5>1 DEF SameObjects, ClientRec
      <4>4. CASE SendCompletes(c)
        <5>1. PICK n : cl' = [cl EXCEPT ![c].sendIo = [st |-> "done", n |-> n],
                                        ![c].port = Append(@, "send"), ![c].tx = @ + n,
                                        ![c].last = IF n = 0 THEN @ ELSE cl[c].sendBuf[n]]
          BY <4>4 DEF SendCompletes
        <5>2. cl' = [cl EXCEPT ![c] = [r EXCEPT !.sendIo = [st |-> "done", n |-> n],
                                                !.port = Append(@, "send"), !.tx = @ + n,
                                                !.last = IF n = 0 THEN @ ELSE r.sendBuf[n]]]
          BY <3>2, <5>1 DEF ClientRec
        <5>3. QED
          BY <3>2, <5>2 DEF SameObjects, ClientRec
      <4>5. QED
        BY <2>2, <4>1, <4>2, <4>3, <4>4 DEF Outside
    <3>4. QED
      BY <3>1, <3>3 DEF MadeOK, SameObjects
  <2>3. QED
    BY <1>2, <2>1, <2>2 DEF Environment
<1>3. CASE Crash
  BY <1>3, Uses DEF Crash, NoNullUsed, loopVars, MadeOK
<1>4. CASE ~UsesNull /\ WorkThread
  <2>1. cl \in [Clients -> ClientRec] /\ at \in Nat \ {0}
    BY DEF IInv, ClientsOK, ThreadOK
  <2>2. CASE Create
    <3>1. bRun' = bRun /\ pc = "create"
      BY <2>2 DEF Create, loopVars
    <3>2. CASE bRun /\ at <= NClients
      <4>1. at \in Clients /\ at' = at + 1 /\ pc' = "create"
        BY <2>1, <2>2, <3>2, Sizes DEF Create, Clients
      <4>2. cl' = [cl EXCEPT ![at] = [cl[at] EXCEPT !.obj = "made"]]
        BY <2>1, <2>2, <3>2, <4>1 DEF Create
      <4>3. \A c \in Clients : cl'[c].obj = IF c = at THEN "made" ELSE cl[c].obj
        BY <2>1, <4>1, <4>2 DEF ClientRec
      <4>4. \A c \in Clients : cl'[c].obj = IF c < at + 1 THEN "made" ELSE "null"
        BY <2>1, <3>1, <4>3 DEF MadeOK, Clients
      <4>5. QED
        BY <2>1, <4>1, <4>4 DEF MadeOK, Clients
    <3>3. CASE ~(bRun /\ at <= NClients)
      <4>1. UNCHANGED cl /\ pc' = "init"
        BY <2>2, <3>3 DEF Create
      <4>2. bRun => \A c \in Clients : c < at
        BY <2>1, <3>3, Sizes DEF Clients
      <4>3. QED
        BY <3>1, <4>1, <4>2 DEF MadeOK
    <3>4. QED
      BY <3>2, <3>3
  <2>3. CASE ConnectNext
    <3>1. bRun' = bRun /\ pc = "init" /\ pc' = "init"
      BY <2>3 DEF ConnectNext, loopVars
    <3>2. SameObjects
      BY <2>1, <2>3 DEF ConnectNext, SameObjects, ClientRec
    <3>3. QED
      BY <3>1, <3>2, SameObjectsStep
  <2>4. CASE ConnectEnds
    <3>1. bRun' = bRun /\ pc = "init" /\ pc' = "loop"
      BY <2>4 DEF ConnectEnds, loopVars
    <3>2. SameObjects
      <4>1. CASE UNCHANGED cl
        BY <4>1 DEF SameObjects
      <4>2. CASE at <= NClients /\ \E socket \in BOOLEAN : cl' = [cl EXCEPT ![at].pClient = socket]
        BY <2>1, <4>2 DEF SameObjects, ClientRec
      <4>3. QED
        BY <2>4, <4>1, <4>2 DEF ConnectEnds
    <3>3. QED
      BY <3>1, <3>2, SameObjectsStep
  <2>5. CASE LoopTest \/ CloseEnds
    BY <2>5 DEF LoopTest, CloseEnds, loopVars, MadeOK
  <2>6. CASE SendNext
    <3>1. bRun' = bRun /\ pc = "send" /\ pc' \in {"send", "run"}
      BY <2>6 DEF SendNext, loopVars
    <3>2. SameObjects
      BY <2>1, <2>6 DEF SendNext, SendTest, SameObjects, ClientRec
    <3>3. QED
      BY <3>1, <3>2, SameObjectsStep
  <2>7. CASE RunSkips
    <3>1. bRun' = bRun /\ pc = "run" /\ pc' \in {"run", "loop"} /\ cl' = cl
      BY <2>7 DEF RunSkips, NextClient, loopVars
    <3>2. QED
      BY <3>1, SameObjectsStep DEF SameObjects
  <2>8. CASE CloseNext
    <3>1. bRun' = bRun /\ pc = "close" /\ pc' = "close" /\ at' = at + 1 /\ at \in Clients
      BY <2>1, <2>8, Sizes DEF CloseNext, loopVars, Clients
    <3>2. cl[at].obj = "made"
      BY <1>4, <3>1, Sizes DEF UsesNull, NeedsClient, Clients
    <3>3. \A c \in Clients : cl'[c].obj = IF c = at THEN "deleted" ELSE cl[c].obj
      <4> DEFINE mid == Unconnected(cl[at])
      <4>1. mid \in ClientRec
        <5>1. ClientOK(cl[at], kind # "iocp")
          BY <3>1 DEF IInv, ClientsOK
        <5>2. QED
          BY <5>1, UnconnectedClient DEF ClientOK
      <4>2. cl' = [cl EXCEPT ![at] = [mid EXCEPT !.obj = "deleted"]]
        BY <2>8 DEF CloseNext
      <4> HIDE DEF mid
      <4>3. QED
        BY <2>1, <3>1, <4>1, <4>2 DEF ClientRec
    <3>4. QED
      BY <2>1, <3>1, <3>2, <3>3 DEF MadeOK, Clients
  <2>9. QED
    BY <1>4, <2>2, <2>3, <2>4, <2>5, <2>6, <2>7, <2>8 DEF WorkThread
<1>5. CASE PollRun
  <2>1. CASE Poll
    <3>1. bRun' = bRun /\ pc = "run" /\ pc' \in {"recv", "write"} /\ cl' = cl
      BY <2>1 DEF Poll, loopVars
    <3>2. QED
      BY <3>1, SameObjectsStep DEF SameObjects
  <2>2. CASE PollFails \/ RecvFails \/ WriteFails
    <3>1. pc \in InOnRun /\ ReturnsFalse(Unconnected(cl[at]))
      BY <2>2 DEF PollFails, RecvFails, WriteFails, Me, InOnRun
    <3>2. QED
      BY <3>1, ReturnsClosed
  <2>3. CASE Recv
    <3>1. bRun' = bRun /\ pc = "recv" /\ pc' = "write" /\ pc \in InOnRun
      BY <2>3 DEF Recv, loopVars, InOnRun
    <3>2. SameObjects
      BY <2>3, <3>1, AtClient DEF Recv, SameObjects, ClientRec
    <3>3. QED
      BY <3>1, <3>2, SameObjectsStep
  <2>4. CASE NothingToWrite
    <3>1. pc \in InOnRun /\ ReturnsTrue(cl[at])
      BY <2>4 DEF NothingToWrite, Me, InOnRun
    <3>2. QED
      BY <3>1, AtClient, ReturnsObject DEF ClientRec
  <2>5. CASE WriteCopies
    <3>1. bRun' = bRun /\ pc = "write" /\ pc' = pc /\ pc \in InOnRun
      BY <2>5 DEF WriteCopies, loopVars, InOnRun
    <3>2. SameObjects
      BY <2>5, <3>1, AtClient DEF WriteCopies, SameObjects, ClientRec
    <3>3. QED
      BY <3>1, <3>2, SameObjectsStep
  <2>6. CASE WriteReturns
    <3> DEFINE rest == SubSeq(cl[at].sendBuf, copied + 1, Len(cl[at].sendBuf))
               new == [cl[at] EXCEPT !.sendBuf = rest]
    <3>1. pc \in InOnRun /\ ReturnsTrue(new)
      BY <2>6 DEF WriteReturns, Me, InOnRun
    <3>2. cl[at] \in ClientRec
      BY <3>1, AtClient
    <3>3. "obj" \in DOMAIN new /\ new.obj = cl[at].obj
      BY <3>2 DEF ClientRec
    <3> HIDE DEF new
    <3>4. QED
      BY <3>1, <3>3, ReturnsObject
  <2>7. QED
    BY <1>5, <2>1, <2>2, <2>3, <2>4, <2>5, <2>6 DEF PollRun
<1>6. CASE IocpRun
  <2>1. CASE PostIo
    <3>1. bRun' = bRun /\ pc = "run" /\ pc' = "reap" /\ pc \in InOnRun
      BY <2>1 DEF PostIo, loopVars, InOnRun
    <3>2. PICK s, r \in Answers : cl' = [cl EXCEPT ![at] = WithRead(WithSend(cl[at], s), r)]
      BY <2>1 DEF PostIo, Me
    <3> DEFINE mid == WithSend(cl[at], s)
    <3>3. cl[at] \in ClientRec /\ at \in Clients /\ ClientsOK
      BY <3>1, AtClient DEF IInv
    <3>4. mid.obj = cl[at].obj /\ DOMAIN mid = DOMAIN cl[at]
      BY <3>3 DEF WithSend, ClientRec
    <3>5. "obj" \in DOMAIN mid
      BY <3>3, <3>4 DEF ClientRec
    <3> HIDE DEF mid
    <3>6. WithRead(mid, r).obj = mid.obj
      BY <3>3, <3>4, <3>5 DEF WithRead
    <3>7. SameObjects
      BY <3>2, <3>3, <3>4, <3>6, SameObject DEF mid
    <3>8. QED
      BY <3>1, <3>7, SameObjectsStep
  <2>2. CASE PostFails
    <3>1. pc \in InOnRun /\ ReturnsFalse(Unconnected(cl[at]))
      BY <2>2 DEF PostFails, Me, InOnRun
    <3>2. QED
      BY <3>1, ReturnsClosed
  <2>3. CASE ReapRecv \/ ReapSend
    <3>1. bRun' = bRun /\ pc = "reap" /\ pc' = "reap" /\ pc \in InOnRun
      BY <2>3 DEF ReapRecv, ReapSend, Reaps, loopVars, InOnRun
    <3> DEFINE r == cl[at]
    <3>4. r \in ClientRec /\ cl \in [Clients -> ClientRec] /\ at \in Clients
      BY <3>1, AtClient
    <3>2. SameObjects
      <4>1. CASE ReapRecv
        <5>1. cl' = [cl EXCEPT ![at] = [r EXCEPT !.port = Tail(@), !.recvIo = NoIo, !.postRead = FALSE,
                                                 !.recvBuf = @ + r.recvIo.n]]
          BY <3>4, <4>1 DEF ReapRecv, Me, ClientRec
        <5>2. QED
          BY <3>4, <5>1 DEF SameObjects, ClientRec
      <4>2. CASE ReapSend
        <5>1. cl' = [cl EXCEPT ![at] = [r EXCEPT !.port = Tail(@), !.sendIo = NoIo, !.postSend = FALSE,
                                  !.sendBuf = SubSeq(@, r.sendIo.n + 1, Len(@))]]
          BY <3>4, <4>2 DEF ReapSend, Me, ClientRec
        <5>2. QED
          BY <3>4, <5>1 DEF SameObjects, ClientRec
      <4>3. QED
        BY <2>3, <4>1, <4>2
    <3>3. QED
      BY <3>1, <3>2, SameObjectsStep
  <2>4. CASE ReapEmpty
    <3>1. pc \in InOnRun /\ ReturnsFalse(Unconnected(cl[at]))
      BY <2>4 DEF ReapEmpty, ReapIsEmpty, Reaps, Me, InOnRun
    <3>2. QED
      BY <3>1, ReturnsClosed
  <2>5. CASE ReapFails
    <3>1. pc \in InOnRun
      BY <2>5 DEF ReapFails, ReapIsEmpty, Reaps, InOnRun
    <3>2. cl[at] \in ClientRec /\ at \in Clients /\ ClientsOK
      BY <3>1, AtClient DEF IInv
    <3> DEFINE io == IF Head(cl[at].port) = "recv" THEN [cl[at] EXCEPT !.recvIo = Lost]
                                                    ELSE [cl[at] EXCEPT !.sendIo = Lost]
               new == [io EXCEPT !.port = Tail(@)]
    <3>3. cl' = [cl EXCEPT ![at] = new]
      BY <2>5 DEF ReapFails, ReturnsFalse, Me
    <3>4. new.obj = cl[at].obj
      BY <3>2 DEF ClientRec
    <3> HIDE DEF new
    <3>5. SameObjects
      BY <3>2, <3>3, <3>4, SameObject
    <3>6. bRun' = bRun /\ pc' \in {"run", "loop"}
      BY <2>5 DEF ReapFails, ReturnsFalse, NextClient, loopVars
    <3>7. QED
      BY <3>1, <3>5, <3>6, SameObjectsStep DEF InOnRun
  <2>6. CASE ReapNothing
    <3> DEFINE new == [cl[at] EXCEPT !.recvBuf = 0]
    <3>1. pc \in InOnRun /\ ReturnsTrue(new)
      BY <2>6 DEF ReapNothing, Me, InOnRun
    <3>2. cl[at] \in ClientRec
      BY <3>1, AtClient
    <3>3. "obj" \in DOMAIN new /\ new.obj = cl[at].obj
      BY <3>2 DEF ClientRec
    <3> HIDE DEF new
    <3>4. QED
      BY <3>1, <3>3, ReturnsObject
  <2>7. QED
    BY <1>6, <2>1, <2>2, <2>3, <2>4, <2>5, <2>6 DEF IocpRun
<1>7. QED
  BY <1>1, <1>2, <1>3, <1>4, <1>5, <1>6 DEF Next, Thread

-----------------------------------------------------------------------------
(* The theorems.                                                           *)

LEMMA IInvInit ==
  Init => IInv
<1> SUFFICES ASSUME Init PROVE IInv
  OBVIOUS
<1>1. /\ kind \in Kinds /\ bRun = TRUE /\ pc = "create" /\ at = 1 /\ canWrite = FALSE /\ copied = 0
      /\ cl = [c \in Clients |-> Null] /\ nConnect = 0 /\ errors = 0
  BY DEF Init
<1>2. NoIo \in Ios /\ <<>> \in Seq(Nat) /\ <<>> \in Seq({"recv", "send"})
      /\ 0 \in 0..TxCap /\ 1 \in 0..NMsg /\ 0 \in 0..1
  BY Sizes DEF Ios, NoIo
<1>3. Null \in ClientRec
  BY <1>2 DEF Null, ClientRec
<1>4. IsFresh(Null)
  BY DEF IsFresh, Null
<1>5. /\ Null.sendBuf = <<>> /\ Null.port = <<>> /\ Null.last = 0 /\ Null.sendId = 1
      /\ Null.recvIo = NoIo /\ Null.sendIo = NoIo /\ Null.recvBuf = 0
      /\ Null.bConnect = FALSE /\ Null.pClient = FALSE
  BY DEF Null
<1>6. PortOK(Null)
  BY <1>5 DEF PortOK, InPort, NoIo
<1>7. \A polled \in BOOLEAN : ClientOK(Null, polled)
  BY <1>3, <1>5, <1>6, Sizes DEF ClientOK, NoIo
<1>8. \A c \in Clients : cl[c] = Null
  BY <1>1
<1>9. ThreadOK
  <2>1. at \in Nat \ {0} /\ at <= NClients + 1 /\ copied \in Nat
    BY <1>1, Sizes
  <2>2. \A c \in Clients : IsFresh(cl[c])
    BY <1>4, <1>8
  <2>3. QED
    BY <1>1, <2>1, <2>2 DEF ThreadOK, Phases
<1>10. ClientsOK
  <2>1. MaxMsgs[kind] \in Nat
    BY <1>1, Sizes
  <2>2. 1 <= MaxMsgs[kind] + 1
    BY <2>1
  <2>3. ClientOK(Null, kind # "iocp")
    BY <1>7
  <2>4. cl \in [Clients -> ClientRec]
    BY <1>1, <1>3
  <2>5. QED
    BY <1>5, <1>8, <2>2, <2>3, <2>4 DEF ClientsOK
<1>11. RecvBufOK
  BY <1>5, <1>8 DEF RecvBufOK
<1>12. IdsOK
  BY <1>5, <1>8 DEF IdsOK, Continues, Connected
<1>13. Running = {}
  BY <1>5, <1>8 DEF Running, IsRun
<1>14. Cardinality(Running) = 0 /\ CountIsRight
  BY <1>1, <1>13, FS_EmptySet DEF CountIsRight, Running
<1>15. LostRecv \in SUBSET Clients /\ LostSend \in SUBSET Clients
  BY DEF LostRecv, LostSend
<1>16. Cardinality(LostRecv) \in Nat /\ Cardinality(LostSend) \in Nat
  BY <1>15, Finite
<1>17. CountOK
  BY <1>1, <1>14, <1>16, Sizes DEF CountOK
<1>18. QED
  BY <1>9, <1>10, <1>11, <1>12, <1>17 DEF IInv

LEMMA IInvNext ==
  IInv /\ MadeOK /\ [Next]_vars => IInv'
<1> SUFFICES ASSUME IInv, MadeOK, [Next]_vars PROVE IInv'
  OBVIOUS
<1>1. CASE Environment
  BY <1>1, EnvironmentStep
<1>2. CASE WorkThread
  BY <1>2, CreateStep, ConnectNextStep, ConnectEndsStep, LoopTestStep, SendNextStep, RunSkipsStep,
     CloseNextStep DEF WorkThread
<1>3. CASE PollRun
  BY <1>3, PollRunStep
<1>4. CASE IocpRun
  BY <1>4, IocpRunStep
<1>5. CASE UNCHANGED vars
  <2>1. UNCHANGED <<kind, bRun, pc, at, canWrite, copied, cl, nConnect, errors>>
    BY <1>5 DEF vars, loopVars, pollVars
  <2>2. ThreadOK' /\ ClientsOK'
    BY <2>1 DEF IInv, ThreadOK, ClientsOK
  <2>3. RecvBufOK' /\ IdsOK' /\ CountOK'
    BY <2>1 DEF IInv, RecvBufOK, IdsOK, CountOK, Taken, CountIsRight, LostRecv, LostSend, IsRun
  <2>4. QED
    BY <2>2, <2>3 DEF IInv
<1>6. QED
  BY <1>1, <1>2, <1>3, <1>4, <1>5, CrashStep DEF Next, Thread

\* The two parts of the inductive invariant.
THEOREM Inductive == Spec => [](IInv /\ MadeOK)
<1>1. Init => MadeOK
  BY DEF Init, Null, MadeOK, Clients
<1>2. QED
  BY <1>1, IInvInit, IInvNext, MadeNext, PTL DEF Spec

LEMMA TypesHold ==
  ASSUME IInv
  PROVE  TypeOK
<1>1. /\ kind \in Kinds /\ bRun \in BOOLEAN /\ canWrite \in BOOLEAN /\ pc \in Phases
  BY DEF IInv, ThreadOK
<1>2. at \in 1..(NMsg * NClients + 1)
  <2>1. at \in Nat \ {0} /\ (at <= NClients + 1 \/ at <= NClients \/ at <= NMsg * NClients)
    BY <1>1 DEF IInv, ThreadOK, Phases
  <2>2. QED
    BY <2>1, Sizes
<1>3. copied \in 0..SendCap
  <2>1. CASE pc = "write"
    <3>1. Len(cl[at].sendBuf) \in Nat /\ Len(cl[at].sendBuf) <= SendCap
      BY <2>1, AtClient DEF InOnRun, ClientRec, ClientOK
    <3>2. QED
      BY <2>1, <3>1, Sizes DEF IInv, ThreadOK
  <2>2. CASE pc # "write"
    BY <2>2, Sizes DEF IInv, ThreadOK
  <2>3. QED
    BY <2>1, <2>2
<1>4. nConnect \in (-2 * NClients)..NClients /\ errors \in 0..(2 * NClients)
  <2>1. LostRecv \in SUBSET Clients /\ LostSend \in SUBSET Clients
    BY DEF LostRecv, LostSend
  <2>2. /\ Cardinality(LostRecv) \in Nat /\ Cardinality(LostSend) \in Nat
        /\ Cardinality(LostRecv) <= NClients /\ Cardinality(LostSend) <= NClients
    BY <2>1, Finite
  <2>3. QED
    BY <2>2, Sizes DEF IInv, CountOK
<1>5. ASSUME NEW c \in Clients
      PROVE  /\ cl[c] \in ClientRec
             /\ cl[c].sendId \in 1..(MaxMsgs[kind] + 1) /\ cl[c].last \in 0..MaxMsgs[kind]
             /\ Len(cl[c].sendBuf) <= SendCap /\ cl[c].recvBuf \in 0..2
             /\ Len(cl[c].port) <= 2
  <2> DEFINE r == cl[c]
  <2>1. /\ r \in ClientRec /\ ClientOK(r, kind # "iocp") /\ r.sendId <= MaxMsgs[kind] + 1
        /\ r.sendId \in Nat \ {0} /\ r.last \in Nat /\ r.recvBuf \in Nat /\ r.last < r.sendId
        /\ Len(r.sendBuf) <= SendCap /\ PortOK(r) /\ r.port \in Seq({"recv", "send"})
    BY <1>5 DEF IInv, ClientsOK, ClientOK, ClientRec
  <2>2. MaxMsgs[kind] \in Nat
    BY <1>1, Sizes
  <2>3. r.sendId \in 1..(MaxMsgs[kind] + 1) /\ r.last \in 0..MaxMsgs[kind]
    BY <2>1, <2>2
  <2>4. r.recvBuf \in 0..2
    BY <1>5, <2>1 DEF IInv, RecvBufOK
  <2>5. Len(r.port) <= 2
    <3> DEFINE port == r.port
    <3>1. port \in Seq({"recv", "send"}) /\ \A i, j \in 1..Len(port) : port[i] = port[j] => i = j
      BY <2>1 DEF PortOK
    <3> HIDE DEF port
    <3> SUFFICES ASSUME ~(Len(port) <= 2) PROVE FALSE
      BY DEF port
    <3>2. 1 \in 1..Len(port) /\ 2 \in 1..Len(port) /\ 3 \in 1..Len(port)
      BY <3>1
    <3>3. port[1] \in {"recv", "send"} /\ port[2] \in {"recv", "send"} /\ port[3] \in {"recv", "send"}
      BY <3>1, <3>2
    <3>4. port[1] # port[2] /\ port[1] # port[3] /\ port[2] # port[3]
      BY <3>1, <3>2
    <3>5. QED
      BY <3>3, <3>4
  <2>6. QED
    BY <2>1, <2>3, <2>4, <2>5
<1>6. QED
  BY <1>1, <1>2, <1>3, <1>4, <1>5 DEF TypeOK, Phases, ClientRec

\* Every variable has its type; among others the buffers keep to their sizes, no
\* port holds more than two completions, and g_nConnect and the errors are bounded.
THEOREM Types == Spec => []TypeOK
<1>1. QED
  BY Inductive, TypesHold, PTL

\* sendTest, SendDataReal, send2iocp: the messages that a client has sent and
\* those that it still holds are the msgIDs 1, 2, 3 ... without a gap, whatever did
\* not fit into the buffer, was sent in part, or was lost with its completion.
THEOREM Ids == Spec => []IdsAreContinuous
<1>1. ASSUME IInv PROVE IdsAreContinuous
  BY <1>1 DEF IInv, IdsOK, Continues, Taken, IdsAreContinuous, IsRun, Connected
<1>2. QED
  BY <1>1, Inductive, PTL

\* g_nConnect counts the connected clients, less one for every completion lost.
THEOREM Counting == Spec => []CountIsRight
<1>1. ASSUME IInv PROVE CountIsRight
  BY <1>1 DEF IInv, CountOK
<1>2. QED
  BY <1>1, Inductive, PTL

\* clients[n] and _pClient: no step of the thread uses a client or a connection
\* that is not there, however its clients have failed and been closed, but for the
\* close of the clients that a thread which was stopped had not made yet.
THEOREM NoNull == Spec => []NoNullUsed
<1>1. QED
  BY Inductive, Uses, PTL

=============================================================================
