--------------------------- MODULE IOCPConnection ---------------------------
(***************************************************************************)
(* One connection of the server that server.cpp runs (EasyIOCPServer): a   *)
(* CELLClient with its two buffers, the worker of the CELLIOCPServer that  *)
(* owns it, the kernel that works on the posted I/O, and the peer.         *)
(*                                                                         *)
(* The kernel writes to the receive buffer and reads from the send buffer  *)
(* at any moment while an operation is posted; the worker learns of it     *)
(* later, from the completion port, and moves the buffers' contents when   *)
(* it handles messages and completions.                                    *)
(*                                                                         *)
(* A byte is its number in the stream of its direction.  The worker stops  *)
(* in "uaf" at its first access to a deleted client.                       *)
(***************************************************************************)
EXTENDS CELLBuffer, FiniteSets, Sequences, SequencesExt

CONSTANTS
  RecvCap,     \* _nRecvBufSize
  SendCap,     \* _nSendBufSize
  HeaderLen,   \* sizeof(netmsg_DataHeader)
  MsgLens,     \* the values of dataLength, of messages and of replies
  MaxBytes,    \* bound: length of the peer's stream
  Faults       \* what may go wrong, of {"fin", "reset", "refused", "error", "heart"}

ASSUME CapAssumption    == RecvCap \in Nat \ {0} /\ SendCap \in Nat \ {0}
ASSUME LenAssumption    == HeaderLen \in Nat \ {0} /\ MsgLens \subseteq Nat
                           /\ \A l \in MsgLens : l >= HeaderLen
ASSUME MaxAssumption    == MaxBytes \in Nat
ASSUME FaultsAssumption == Faults \subseteq {"fin", "reset", "refused", "error", "heart"}

VARIABLES
  len,       \* len[p]: the dataLength that is read where byte p is the first;
             \* 0 where no message begins (a payload of zeros)
  starts,    \* history: where the peer began its messages, and begins the next
  peerNext,  \* the first byte the peer has not sent
  net,       \* the peer's end: "open", "fin" or "reset"
  recvBuf, bPostRead, recvIo,  \* _recvBuf, _bPostRead, its _ioData in the kernel
  sendBuf, bPostSend, sendIo,  \* _sendBuf, _bPostSend, its _ioData in the kernel
  got,       \* the last byte of the peer's stream the kernel put into recvBuf
  handled,   \* history: the last byte of the last message given to OnNetMsg
  accepted,  \* history: the last byte of the reply stream SendData took
  wire,      \* the last byte of the reply stream the kernel sent
  port,      \* the completion port: the operations that have completed
  client,    \* "buf" (in _clientsBuf), "listed" (in _clients), "orphan", "freed"
  workPc,    \* where the worker is in OnRun
  count      \* _clientCount, as far as this client changed it

peerVars == <<len, starts, peerNext, net>>
recvVars == <<recvBuf, bPostRead, recvIo, got, handled>>
sendVars == <<sendBuf, bPostSend, sendIo, accepted, wire>>
vars     == <<peerVars, recvVars, sendVars, port, client, workPc, count>>

NoIo == [st |-> "none", at |-> 0, size |-> 0, n |-> 0]
Lost == [NoIo EXCEPT !.st = "lost"]  \* not posted, but the flag is set
Ios  == [st : {"none", "pending", "done", "lost"}, at : Nat, size : Nat, n : Nat]

TypeOK ==
  /\ len \in [0..MaxBytes -> MsgLens \cup {0}]
  /\ starts \subseteq Nat /\ peerNext \in Nat
  /\ net \in {"open", "fin", "reset"}
  /\ recvBuf \in Buffers(RecvCap) /\ sendBuf \in Buffers(SendCap)
  /\ bPostRead \in BOOLEAN /\ bPostSend \in BOOLEAN
  /\ recvIo \in Ios /\ sendIo \in Ios
  /\ got \in Nat /\ handled \in Nat /\ accepted \in Nat /\ wire \in Nat
  /\ port \in Seq({"recv", "send"})
  /\ client \in {"buf", "listed", "orphan", "freed"}
  /\ workPc \in {"loop", "post", "wait", "msg", "uaf", "exited"}
  /\ count \in Int

\* Accept() has just given the client to AddClient.
Init ==
  /\ len = [p \in 0..MaxBytes |-> 0]
  /\ starts = {1} /\ peerNext = 1 /\ net = "open"
  /\ recvBuf = Empty(RecvCap) /\ bPostRead = FALSE /\ recvIo = NoIo
  /\ sendBuf = Empty(SendCap) /\ bPostSend = FALSE /\ sendIo = NoIo
  /\ got = 0 /\ handled = 0 /\ accepted = 0 /\ wire = 0
  /\ port = <<>> /\ client = "buf" /\ workPc = "loop" /\ count = 0

Goes(from, to) == workPc = from /\ workPc' = to

-----------------------------------------------------------------------------
(* The peer and the network.                                               *)

PeerSends ==
  /\ net = "open"
  /\ \E l \in MsgLens :
       /\ peerNext + l - 1 <= MaxBytes
       /\ len' = [len EXCEPT ![peerNext] = l]
       /\ peerNext' = peerNext + l
  /\ starts' = starts \cup {peerNext'}
  /\ UNCHANGED <<net, recvVars, sendVars, port, client, workPc, count>>

\* The peer closes its end, or the connection is reset.
PeerLeaves ==
  /\ net # "reset"
  /\ net' \in Faults \cap (IF net = "open" THEN {"fin", "reset"} ELSE {"reset"})
  /\ UNCHANGED <<len, starts, peerNext, recvVars, sendVars, port, client, workPc, count>>

-----------------------------------------------------------------------------
(* The kernel.                                                             *)

SocketClosed == client \in {"orphan", "freed"}

\* A posted WSARecv completes: with bytes of the stream, or with none because
\* the peer or the server has closed the connection.
RecvData ==
  \E n \in 1..recvIo.size :
    /\ net # "reset" /\ ~SocketClosed
    /\ got + n < peerNext
    /\ recvBuf' = [recvBuf EXCEPT !.data = Copied(recvBuf, recvIo.at, got + 1, n)]
    /\ got' = got + n
    /\ recvIo' = [recvIo EXCEPT !.st = "done", !.n = n]

RecvNothing ==
  /\ net = "reset" \/ SocketClosed \/ (net = "fin" /\ got + 1 = peerNext)
  /\ recvIo' = [recvIo EXCEPT !.st = "done", !.n = 0]
  /\ UNCHANGED <<recvBuf, got>>

RecvCompletes ==
  /\ recvIo.st = "pending"
  /\ RecvData \/ RecvNothing
  /\ port' = Append(port, "recv")
  /\ UNCHANGED <<bPostRead, handled, peerVars, sendVars, client, workPc, count>>

\* A posted WSASend completes.
SendCompletes ==
  /\ sendIo.st = "pending"
  /\ \E n \in 0..sendIo.size :
       /\ (n = 0) <=> (net = "reset" \/ SocketClosed)
       /\ sendIo' = [sendIo EXCEPT !.st = "done", !.n = n]
       /\ wire' = wire + n
  /\ port' = Append(port, "send")
  /\ UNCHANGED <<sendBuf, bPostSend, accepted, peerVars, recvVars, client, workPc, count>>

-----------------------------------------------------------------------------
(* Posting.                                                                *)

\* What WSARecv and WSASend answer: the operation is pending; "refused", the
\* connection is gone and postRecv and postSend return true all the same; or
\* an error for which they return false.
PostAnswers ==
  IF net = "open" THEN {"pending"}
  ELSE {"pending"} \cup (IF net = "reset" THEN Faults \cap {"refused", "error"} ELSE {})

\* makeRecvData and postRecv.  The flag is set even when the buffer is full,
\* when makeRecvData returns nullptr and nothing is posted.
PostRecv(answer) ==
  /\ bPostRead' = TRUE
  /\ IF Room(recvBuf) > 0
       THEN recvIo' = IF answer = "pending"
                        THEN [st |-> "pending", at |-> recvBuf.last, size |-> Room(recvBuf), n |-> 0]
                        ELSE Lost
       ELSE answer = "pending" /\ UNCHANGED recvIo
  /\ UNCHANGED <<recvBuf, got, handled>>

\* makeSendData and postSend.
PostSend(answer) ==
  /\ bPostSend' = TRUE
  /\ sendIo' = IF answer = "pending"
                 THEN [st |-> "pending", at |-> 0, size |-> sendBuf.last, n |-> 0]
                 ELSE Lost
  /\ UNCHANGED <<sendBuf, accepted, wire>>

-----------------------------------------------------------------------------
(* The worker, CellServer::OnRun.                                          *)

\* OnClientLeave: OnNetLeave and delete.
ClientLeaves ==
  /\ client' = "freed"
  /\ count' = count - 1

\* The client moves from _clientsBuf to _clients; OnClientJoin posts the first
\* read and ignores the answer.
Join ==
  /\ workPc = "loop" /\ client = "buf"
  /\ client' = "listed"
  /\ count' = count + 1
  /\ \E a \in PostAnswers : PostRecv(a)
  /\ UNCHANGED <<peerVars, sendVars, port, workPc>>

\* CheckTime finds the heart alive ...
CheckTime ==
  /\ Goes("loop", "post") /\ client = "listed"
  /\ UNCHANGED <<peerVars, recvVars, sendVars, port, client, count>>

\* ... or dead: it closes the socket if some I/O is posted, "the upper layer
\* deletes the client", and deletes the client at once otherwise.  Either way
\* the client is erased from _clients and the round goes on without it.
HeartDead ==
  /\ "heart" \in Faults
  /\ Goes("loop", "wait") /\ client = "listed"
  /\ IF bPostRead \/ bPostSend
       THEN client' = "orphan" /\ UNCHANGED count
       ELSE ClientLeaves
  /\ UNCHANGED <<peerVars, recvVars, sendVars, port>>

WantsSend == sendBuf.last > 0 /\ ~bPostSend
WantsRecv == ~bPostRead

\* Mutant: DoNetEvents forgets to post the sends.
PostIoReadOnly ==
  /\ Goes("post", "wait")
  /\ UNCHANGED sendVars
  /\ IF WantsRecv THEN PostRecv("pending") \/ ("refused" \in PostAnswers /\ PostRecv("refused"))
                  ELSE UNCHANGED recvVars
  /\ UNCHANGED <<peerVars, port, client, count>>

\* The first loop of DoNetEvents: post a send if there is something to send,
\* and a read, unless one is posted already.
PostIo ==
  /\ Goes("post", "wait")
  /\ IF WantsSend THEN PostSend("pending") \/ ("refused" \in PostAnswers /\ PostSend("refused"))
                  ELSE UNCHANGED sendVars
  /\ IF WantsRecv THEN PostRecv("pending") \/ ("refused" \in PostAnswers /\ PostRecv("refused"))
                  ELSE UNCHANGED recvVars
  /\ UNCHANGED <<peerVars, port, client, count>>

\* The read cannot be posted: rmClient.
PostRecvFails ==
  /\ Goes("post", "wait")
  /\ "error" \in PostAnswers
  /\ WantsRecv /\ PostRecv("error")
  /\ IF WantsSend THEN PostSend("pending") \/ ("refused" \in PostAnswers /\ PostSend("refused"))
                  ELSE UNCHANGED sendVars
  /\ ClientLeaves
  /\ UNCHANGED <<peerVars, port>>

\* The send cannot be posted: rmClient, and postRead on the deleted client.
PostSendFails ==
  /\ Goes("post", "uaf")
  /\ "error" \in PostAnswers
  /\ WantsSend /\ PostSend("error")
  /\ ClientLeaves
  /\ UNCHANGED <<peerVars, recvVars, port>>

\* Mutant: read4iocp leaves _bPostRead set.
ReapRecvKeepsFlag ==
  /\ workPc = "wait" /\ client # "freed"
  /\ port # <<>> /\ Head(port) = "recv" /\ recvIo.n > 0
  /\ port' = Tail(port)
  /\ recvBuf' = [recvBuf EXCEPT !.last = @ + recvIo.n]
  /\ recvIo' = NoIo
  /\ UNCHANGED <<bPostRead, got, handled, peerVars, sendVars, client, workPc, count>>

\* doIocpNetEvents takes a completion that carries bytes.
ReapRecv ==
  /\ workPc = "wait" /\ client # "freed"
  /\ port # <<>> /\ Head(port) = "recv" /\ recvIo.n > 0
  /\ port' = Tail(port)
  /\ bPostRead' = FALSE
  /\ recvBuf' = IF bPostRead /\ recvIo.n <= Room(recvBuf)
                  THEN [recvBuf EXCEPT !.last = @ + recvIo.n] ELSE recvBuf
  /\ recvIo' = NoIo
  /\ UNCHANGED <<got, handled, peerVars, sendVars, client, workPc, count>>

\* Mutant: send2iocp forgets the bytes that were not sent.
ReapSendDropsRest ==
  /\ workPc = "wait" /\ client # "freed"
  /\ port # <<>> /\ Head(port) = "send" /\ sendIo.n > 0
  /\ port' = Tail(port)
  /\ bPostSend' = FALSE
  /\ sendBuf' = IF bPostSend THEN [sendBuf EXCEPT !.last = 0] ELSE sendBuf
  /\ sendIo' = NoIo
  /\ UNCHANGED <<accepted, wire, peerVars, recvVars, client, workPc, count>>

ReapSend ==
  /\ workPc = "wait" /\ client # "freed"
  /\ port # <<>> /\ Head(port) = "send" /\ sendIo.n > 0
  /\ port' = Tail(port)
  /\ bPostSend' = FALSE
  /\ sendBuf' = IF bPostSend /\ sendIo.n <= sendBuf.last THEN Popped(sendBuf, sendIo.n) ELSE sendBuf
  /\ sendIo' = NoIo
  /\ UNCHANGED <<accepted, wire, peerVars, recvVars, client, workPc, count>>

\* Mutant: a completion without bytes is only logged.
ReapEmptyIgnored ==
  /\ workPc = "wait" /\ client # "freed"
  /\ port # <<>> /\ (IF Head(port) = "recv" THEN recvIo ELSE sendIo).n = 0
  /\ port' = Tail(port)
  /\ IF Head(port) = "recv"
       THEN recvIo' = NoIo /\ UNCHANGED sendIo
       ELSE sendIo' = NoIo /\ UNCHANGED recvIo
  /\ UNCHANGED <<recvBuf, bPostRead, got, handled, sendBuf, bPostSend, accepted, wire, peerVars,
                 client, workPc, count>>

\* It takes one without bytes: rmClient.  It only looks at the record of the
\* operation, so the flags keep their values.
ReapEmpty ==
  /\ workPc = "wait" /\ client # "freed"
  /\ port # <<>> /\ (IF Head(port) = "recv" THEN recvIo ELSE sendIo).n = 0
  /\ port' = Tail(port)
  /\ IF Head(port) = "recv"
       THEN recvIo' = NoIo /\ UNCHANGED sendIo
       ELSE sendIo' = NoIo /\ UNCHANGED recvIo
  /\ ClientLeaves
  /\ UNCHANGED <<recvBuf, bPostRead, got, handled, sendBuf, bPostSend, accepted, wire, peerVars, workPc>>

\* A completion of a client that is already deleted.
ReapFreed ==
  /\ Goes("wait", "uaf") /\ client = "freed"
  /\ port # <<>>
  /\ UNCHANGED <<peerVars, recvVars, sendVars, port, client, count>>

\* GetQueuedCompletionStatus fails with a code CELLIOCP::wait does not expect:
\* the worker calls Exit and leaves, CleanClients deletes the client.
ReapFails ==
  /\ "error" \in Faults
  /\ Goes("wait", "exited")
  /\ port # <<>> /\ net = "reset" /\ (IF Head(port) = "recv" THEN recvIo ELSE sendIo).n = 0
  /\ client' = IF client = "listed" THEN "freed" ELSE client
  /\ UNCHANGED <<peerVars, recvVars, sendVars, port, count>>

\* No completion within the time limit: DoNetEvents returns.
WaitTimesOut ==
  /\ Goes("wait", "msg")
  /\ port = <<>>
  /\ UNCHANGED <<peerVars, recvVars, sendVars, port, client, count>>

\* hasMsg
FrontLen == len[recvBuf.data[0]]
HasMsg == recvBuf.last >= HeaderLen /\ recvBuf.last >= FrontLen

\* SendData: push takes the whole message or returns -1.
SendData(n) ==
  /\ IF n <= Room(sendBuf)
       THEN sendBuf' = Pushed(sendBuf, accepted + 1, n) /\ accepted' = accepted + n
       ELSE UNCHANGED <<sendBuf, accepted>>
  /\ UNCHANGED <<bPostSend, sendIo, wire>>

\* One turn of DoMsg: OnNetMsg, which may answer, and PopFrontMsg.
HandleMsg ==
  /\ workPc = "msg" /\ client = "listed" /\ HasMsg
  /\ UNCHANGED sendVars \/ \E n \in MsgLens : SendData(n)
  /\ handled' = handled + FrontLen
  /\ recvBuf' = Popped(recvBuf, FrontLen)
  /\ UNCHANGED <<bPostRead, recvIo, got, peerVars, port, client, workPc, count>>

\* Mutant: DoMsg handles at most one message a round.
DoMsgStopsEarly ==
  /\ Goes("msg", "loop")
  /\ UNCHANGED <<peerVars, recvVars, sendVars, port, client, count>>

DoMsgEnds ==
  /\ Goes("msg", "loop")
  /\ ~(client = "listed" /\ HasMsg)
  /\ UNCHANGED <<peerVars, recvVars, sendVars, port, client, count>>

Worker ==
  \/ Join     \/ CheckTime \/ HeartDead \/ PostIo    \/ PostRecvFails \/ PostSendFails
  \/ ReapRecv \/ ReapSend  \/ ReapEmpty \/ ReapFreed \/ ReapFails
  \/ WaitTimesOut \/ HandleMsg \/ DoMsgEnds

-----------------------------------------------------------------------------
Next == PeerSends \/ PeerLeaves \/ RecvCompletes \/ SendCompletes \/ Worker

\* The worker is scheduled; the kernel completes what it can complete.
Fairness == WF_vars(Worker) /\ WF_vars(RecvCompletes) /\ WF_vars(SendCompletes)

Spec == Init /\ [][Next]_vars

FairSpec == Spec /\ Fairness

-----------------------------------------------------------------------------
(* Properties.                                                             *)

\* What OnNetMsg and hasMsg look at is the next part of the peer's stream,
\* beginning at the start of a message: no byte lost, repeated or overwritten,
\* although the kernel writes to the buffer that DoMsg moves.
RecvIntact ==
  client = "listed" => Holds(recvBuf, handled) /\ handled + 1 \in starts

\* The kernel sends the replies that SendData accepted, whole and in order,
\* although it reads them from a buffer that SendData appends to.
WireInOrder ==
  [][wire' # wire => \A i \in 0..(wire' - wire - 1) : sendBuf.data[i] = wire + 1 + i]_vars

\* The heart's countdown has taken the client from _clients: its socket is closed,
\* or it was deleted because nothing was posted.
HeartTookIt == client = "orphan" \/ (client = "freed" /\ ~bPostRead /\ ~bPostSend)

\* A message that was sent completely is handled, if no message is longer than
\* the buffer, the connection is not reset and the heart does not stop; also if
\* the peer sends it and closes the connection at once.
MessagesAreHandled ==
  \A p \in 1..MaxBytes :
    peerNext > p /\ ~SocketClosed ~> handled >= p \/ net = "reset" \/ HeartTookIt

\* An accepted reply is sent, even if the peer never says anything again, as
\* long as it stays connected and the heart does not stop.
RepliesAreSent ==
  \A p \in 1..(2 * MaxBytes) :
    accepted >= p /\ ~SocketClosed ~> wire >= p \/ net # "open" \/ HeartTookIt

\* A connection the peer has closed, or that was reset, is noticed: the client
\* leaves and _clientCount goes down, so that _nMaxClient is not used up by
\* connections that are gone.  There are three ways to miss it: the read was
\* refused, or failed in OnClientJoin, and counts as posted for ever; the heart has
\* taken the client, and nobody looks at the port (_clients is empty) or its
\* completion had bytes; or the worker has exited.
GoneClientLeaves ==
  net # "open" ~> \/ client = "freed" /\ count = 0
                  \/ recvIo.st = "lost" \/ client = "orphan" \/ workPc = "exited"

\* "If I/O is posted only close the socket, the upper layer deletes the
\* client" (CELLServer.hpp:193): a client whose I/O is posted is not deleted
\* before its completions have been taken from the port.
PostedIsNotDeleted == workPc # "uaf"

=============================================================================
