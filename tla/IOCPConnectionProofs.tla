------------------------ MODULE IOCPConnectionProofs ------------------------
(***************************************************************************)
(* What a connection does with its two buffers, for all sizes of buffers,  *)
(* headers and messages and whatever goes wrong: OnNetMsg sees the peer's  *)
(* stream, message by message, and the peer is sent the accepted replies.  *)
(***************************************************************************)
EXTENDS IOCPConnection, TLAPS

-----------------------------------------------------------------------------
(* The operations of CELLBuffer, for buffers of any size.                  *)

\* The fields of a buffer.
LEMMA BufferFields ==
  ASSUME NEW cap \in Nat, NEW buf \in Buffers(cap)
  PROVE  buf.cap = cap /\ buf.last \in 0..cap /\ buf.data \in [0..(cap - 1) -> Nat]
BY DEF Buffers

\* The array after a copy behind the last byte.
LEMMA CopiedArray ==
  ASSUME NEW cap \in Nat, NEW last \in 0..cap, NEW n \in Nat, last + n <= cap, NEW first \in Nat,
         NEW old \in [0..(cap - 1) -> Nat], NEW d,
         d = [i \in 0..(cap - 1) |->
                IF last <= i /\ i < last + n THEN first + (i - last) ELSE old[i]]
  PROVE  /\ d \in [0..(cap - 1) -> Nat]
         /\ \A i \in 0..(last - 1) : d[i] = old[i]
         /\ \A i \in last..(last + n - 1) : d[i] = first + (i - last)
<1>1. ASSUME NEW i \in 0..(cap - 1)
      PROVE  (IF last <= i /\ i < last + n THEN first + (i - last) ELSE old[i]) \in Nat
  OBVIOUS
<1>2. d \in [0..(cap - 1) -> Nat]
  BY <1>1
<1>3. \A i \in 0..(last - 1) : d[i] = old[i]
  OBVIOUS
<1>4. \A i \in last..(last + n - 1) : d[i] = first + (i - last)
  OBVIOUS
<1>5. QED
  BY <1>2, <1>3, <1>4

\* What is copied behind the last byte leaves the bytes before it alone.
LEMMA CopiedAtEnd ==
  ASSUME NEW cap \in Nat, NEW buf \in Buffers(cap), NEW first \in Nat, NEW n \in Nat,
         buf.last + n <= cap, NEW d, d = Copied(buf, buf.last, first, n)
  PROVE  /\ d \in [0..(cap - 1) -> Nat]
         /\ \A i \in 0..(buf.last - 1) : d[i] = buf.data[i]
         /\ \A i \in buf.last..(buf.last + n - 1) : d[i] = first + (i - buf.last)
<1>1. PICK last \in 0..cap, old \in [0..(cap - 1) -> Nat] :
        buf.cap = cap /\ last = buf.last /\ old = buf.data
  BY BufferFields
<1>2. d = [i \in 0..(cap - 1) |->
             IF last <= i /\ i < last + n THEN first + (i - last) ELSE old[i]]
  BY <1>1 DEF Copied
<1>3. last + n <= cap
  BY <1>1
<1>4. /\ d \in [0..(cap - 1) -> Nat]
      /\ \A i \in 0..(last - 1) : d[i] = old[i]
      /\ \A i \in last..(last + n - 1) : d[i] = first + (i - last)
  BY <1>2, <1>3, CopiedArray
<1>5. QED
  BY <1>1, <1>4

\* push keeps a buffer that holds its stream one that holds its stream.
LEMMA PushedHolds ==
  ASSUME NEW cap \in Nat, NEW buf \in Buffers(cap), NEW prev \in Int, NEW n \in Nat,
         buf.last + n <= cap, NEW first \in Nat, first = prev + buf.last + 1, Holds(buf, prev)
  PROVE  /\ Pushed(buf, first, n) \in Buffers(cap)
         /\ Pushed(buf, first, n).last = buf.last + n
         /\ Holds(Pushed(buf, first, n), prev)
<1>1. PICK last \in 0..cap, old \in [0..(cap - 1) -> Nat] :
        buf.cap = cap /\ last = buf.last /\ old = buf.data
  BY BufferFields
<1>2. PICK d : d = [i \in 0..(cap - 1) |->
                      IF last <= i /\ i < last + n THEN first + (i - last) ELSE old[i]]
  OBVIOUS
<1>3. PICK m \in 0..cap : m = last + n
  BY <1>1
<1>4. PICK b : b = Pushed(buf, first, n)
  OBVIOUS
<1>5. b = [cap |-> cap, last |-> m, data |-> d]
  BY <1>1, <1>2, <1>3, <1>4 DEF Pushed, Copied
<1>6. /\ d \in [0..(cap - 1) -> Nat]
      /\ \A i \in 0..(last - 1) : d[i] = old[i]
      /\ \A i \in last..(last + n - 1) : d[i] = first + (i - last)
  <2>1. last + n <= cap
    BY <1>3
  <2>2. QED
    BY <1>2, <2>1, CopiedArray
<1>7. \A i \in 0..(last - 1) : old[i] = prev + 1 + i
  BY <1>1 DEF Holds
<1>8. first = prev + last + 1
  BY <1>1
<1>9. \A i \in 0..(m - 1) : d[i] = prev + 1 + i
  <2> SUFFICES ASSUME NEW i \in 0..(m - 1)
               PROVE  d[i] = prev + 1 + i
    OBVIOUS
  <2>1. CASE i \in 0..(last - 1)
    BY <1>6, <1>7, <2>1
  <2>2. CASE i \in last..(last + n - 1)
    <3>1. first + (i - last) = prev + 1 + i
      BY <1>8, <2>2
    <3>2. QED
      BY <1>6, <2>2, <3>1
  <2>3. QED
    BY <1>3, <2>1, <2>2
<1>10. b \in Buffers(cap) /\ b.last = m /\ b.data = d
  BY <1>5, <1>6 DEF Buffers
<1>11. Holds(b, prev)
  BY <1>9, <1>10 DEF Holds
<1>12. QED
  BY <1>1, <1>3, <1>4, <1>10, <1>11

\* pop takes the oldest bytes.
LEMMA PoppedHolds ==
  ASSUME NEW cap \in Nat, NEW buf \in Buffers(cap), NEW n \in 0..buf.last, NEW prev \in Int,
         Holds(buf, prev)
  PROVE  /\ Popped(buf, n) \in Buffers(cap)
         /\ Popped(buf, n).last = buf.last - n
         /\ Holds(Popped(buf, n), prev + n)
<1> DEFINE d == [i \in 0..(cap - 1) |-> IF i < buf.last - n THEN buf.data[i + n] ELSE buf.data[i]]
<1>1. buf.cap = cap /\ buf.last \in 0..cap /\ buf.data \in [0..(cap - 1) -> Nat]
  BY BufferFields
<1>2. Popped(buf, n) = [cap |-> cap, last |-> buf.last - n, data |-> d]
  BY <1>1 DEF Popped
<1>3. d \in [0..(cap - 1) -> Nat]
  BY <1>1
<1>4. \A i \in 0..(buf.last - n - 1) : d[i] = prev + n + 1 + i
  <2> SUFFICES ASSUME NEW i \in 0..(buf.last - n - 1)
               PROVE  d[i] = prev + n + 1 + i
    OBVIOUS
  <2>1. i + n \in 0..(buf.last - 1) /\ i \in 0..(cap - 1)
    BY <1>1
  <2>2. buf.data[i + n] = prev + 1 + (i + n)
    BY <2>1 DEF Holds
  <2>3. QED
    BY <1>1, <2>1, <2>2
<1>5. buf.last - n \in 0..cap
  BY <1>1
<1> HIDE DEF d
<1>6. QED
  BY <1>2, <1>3, <1>4, <1>5 DEF Buffers, Holds

-----------------------------------------------------------------------------
(* The inductive invariant.                                                *)

\* What the arguments below need to know about the types.
Typed ==
  /\ recvBuf \in Buffers(RecvCap) /\ sendBuf \in Buffers(SendCap)
  /\ recvIo \in Ios /\ (recvIo.st # "done" => recvIo.n = 0)
  /\ sendIo \in Ios /\ (sendIo.st # "done" => sendIo.n = 0)
  /\ client \in {"buf", "listed", "orphan", "freed"}
  /\ len \in [0..MaxBytes -> Nat]
  /\ peerNext \in 1..(MaxBytes + 1) /\ starts \subseteq Nat
  /\ got \in Nat /\ handled \in Nat /\ accepted \in Nat /\ wire \in Nat

\* The peer's messages follow each other without a gap.
PeerInv ==
  /\ peerNext \in starts
  /\ \A s \in starts : s <= peerNext
  /\ \A s \in starts : s < peerNext => len[s] \in Nat /\ s + len[s] \in starts
  /\ got < peerNext

\* The bytes a posted operation has moved that the worker does not know of yet.
Unknown(io) == IF io.st = "done" THEN io.n ELSE 0

\* As long as a read is posted it is for the end of the receive buffer, and
\* the buffer holds no whole message: DoMsg has nothing to move until the
\* worker has taken the completion.
RecvPosted ==
  recvIo.st \in {"pending", "done"} =>
    /\ bPostRead
    /\ ~HasMsg
    /\ recvIo.at = recvBuf.last
    /\ recvIo.size = Room(recvBuf)
    /\ recvIo.n <= recvIo.size
    /\ recvIo.st = "done" =>
         \A i \in recvBuf.last..(recvBuf.last + recvIo.n - 1) :
           recvBuf.data[i] = got - recvIo.n + 1 + (i - recvBuf.last)

\* A read is only posted where DoMsg has handled every whole message.
RecvDrained == workPc \in {"loop", "post"} => ~HasMsg

RecvInv ==
  client \in {"buf", "listed"} =>
    /\ Holds(recvBuf, handled)
    /\ handled + 1 \in starts
    /\ handled + recvBuf.last + Unknown(recvIo) = got
    /\ RecvPosted
    /\ RecvDrained
    /\ client = "buf" => ~bPostRead /\ workPc = "loop"

\* As long as a send is posted its bytes stay where they were.
SendInv ==
  /\ Holds(sendBuf, accepted - sendBuf.last)
  /\ sendBuf.last <= accepted
  /\ wire = accepted - sendBuf.last + Unknown(sendIo)
  /\ sendIo.st \in {"pending", "done"} => bPostSend /\ sendIo.size <= sendBuf.last /\ sendIo.n <= sendIo.size

IInv == Typed /\ PeerInv /\ RecvInv /\ SendInv

-----------------------------------------------------------------------------
(* What an action that leaves a part alone means for its invariant.        *)

\* PeerInv only depends on the peer and on what the kernel has received.
LEMMA PeerFrame ==
  ASSUME PeerInv, UNCHANGED <<len, starts, peerNext, got>>
  PROVE  PeerInv'
BY DEF PeerInv

\* SendInv only depends on the send side.
LEMMA SendFrame ==
  ASSUME SendInv, UNCHANGED sendVars
  PROVE  SendInv'
BY DEF SendInv, sendVars, Holds, Unknown

\* RecvInv is kept by a step that leaves the receive side alone and does not
\* bring the worker to the place where it posts.
LEMMA RecvFrame ==
  ASSUME RecvInv, UNCHANGED <<recvVars, len>>, starts \subseteq starts',
         client' \in {"buf", "listed"} => client' = client,
         client' = "buf" => workPc' = workPc,
         client' \in {"buf", "listed"} /\ workPc' \in {"loop", "post"} =>
           workPc \in {"loop", "post"} \/ ~HasMsg
  PROVE  RecvInv'
BY DEF RecvInv, RecvPosted, RecvDrained, HasMsg, FrontLen, recvVars, Holds, Unknown, Room

\* So is Typed by a step that leaves both sides alone.
LEMMA TypedFrame ==
  ASSUME Typed, UNCHANGED <<recvVars, sendVars, len, starts, peerNext>>,
         client' \in {client, "listed", "orphan", "freed"}
  PROVE  Typed'
BY DEF Typed, recvVars, sendVars

\* The initial states are in the invariant.
LEMMA InitIInv == Init => IInv
<1> SUFFICES ASSUME Init
             PROVE  IInv
  OBVIOUS
<1> USE CapAssumption, LenAssumption, MaxAssumption
<1>1. Empty(RecvCap) \in Buffers(RecvCap) /\ Empty(SendCap) \in Buffers(SendCap)
  BY DEF Empty, Buffers
<1>2. Typed
  BY <1>1 DEF Init, Typed, Ios, NoIo
<1>3. PeerInv
  BY DEF Init, PeerInv
<1>4. RecvInv
  BY DEF Init, RecvInv, RecvPosted, RecvDrained, HasMsg, Empty, Holds, Unknown, NoIo
<1>5. SendInv
  BY DEF Init, SendInv, Empty, Holds, Unknown, NoIo
<1>6. QED
  BY <1>2, <1>3, <1>4, <1>5 DEF IInv

-----------------------------------------------------------------------------
(* The actions that matter.                                                *)

\* The first byte of a receive buffer that is not empty is the first byte of
\* the next message, and the peer has sent that message.
LEMMA FrontByte ==
  ASSUME Typed, PeerInv, RecvInv, client \in {"buf", "listed"}, recvBuf.last >= 1
  PROVE  recvBuf.data[0] = handled + 1 /\ handled + 1 < peerNext
<1>1. recvBuf.last \in Nat /\ recvIo.n \in Nat
  BY CapAssumption, BufferFields DEF Typed, Ios
<1>2. recvBuf.data[0] = handled + 1
  BY <1>1 DEF RecvInv, Holds, Typed
<1>3. handled + 1 <= got
  BY <1>1 DEF RecvInv, Unknown, Typed
<1>4. QED
  BY <1>2, <1>3 DEF PeerInv, Typed

\* The peer begins a message where its last one ended.
LEMMA PeerSendsIInv ==
  ASSUME IInv, PeerSends
  PROVE  IInv'
<1> USE DEF IInv
<1> USE CapAssumption, LenAssumption, MaxAssumption
<1>1. PICK l \in MsgLens : /\ peerNext + l - 1 <= MaxBytes
                           /\ len' = [len EXCEPT ![peerNext] = l]
                           /\ peerNext' = peerNext + l
  BY DEF PeerSends
<1>2. /\ l \in Nat /\ l >= 1 /\ peerNext \in 0..MaxBytes
      /\ starts' = starts \cup {peerNext'} /\ UNCHANGED <<recvVars, sendVars, client, workPc>>
  BY <1>1 DEF PeerSends, Typed
<1>3. Typed'
  BY <1>1, <1>2 DEF Typed, recvVars, sendVars
<1>4. \A p \in Nat : p < peerNext => len'[p] = len[p]
  BY <1>1, <1>2 DEF Typed
<1>5. PeerInv'
  <2>1. peerNext' \in starts' /\ (\A s \in starts' : s <= peerNext') /\ got' < peerNext'
    BY <1>1, <1>2 DEF PeerInv, Typed, recvVars
  <2>2. ASSUME NEW s \in starts', s < peerNext'
        PROVE  len'[s] \in Nat /\ s + len'[s] \in starts'
    <3>1. CASE s = peerNext
      BY <1>1, <1>2, <3>1 DEF Typed
    <3>2. CASE s # peerNext
      <4>1. s \in starts /\ s < peerNext /\ s \in Nat
        BY <1>2, <2>2, <3>2 DEF PeerInv, Typed
      <4>2. QED
        BY <1>2, <1>4, <4>1 DEF PeerInv
    <3>3. QED
      BY <3>1, <3>2
  <2>3. QED
    BY <2>1, <2>2 DEF PeerInv
<1>6. RecvInv'
  <2>1. CASE client \in {"buf", "listed"}
    <3>1. HasMsg' <=> HasMsg
      <4>1. CASE recvBuf.last >= 1
        <5>1. recvBuf.data[0] = handled + 1 /\ handled + 1 < peerNext
          BY <2>1, <4>1, FrontByte
        <5>2. len'[handled + 1] = len[handled + 1]
          BY <1>4, <5>1 DEF Typed
        <5>3. FrontLen' = FrontLen
          BY <1>2, <5>1, <5>2 DEF FrontLen, recvVars
        <5>4. QED
          BY <1>2, <5>3 DEF HasMsg, recvVars
      <4>2. CASE ~(recvBuf.last >= 1)
        BY <1>2, <4>2, BufferFields DEF HasMsg, recvVars, Typed
      <4>3. QED
        BY <4>1, <4>2
    <3>2. QED
      BY <1>2, <2>1, <3>1 DEF RecvInv, RecvPosted, RecvDrained, recvVars, Holds, Unknown, Room
  <2>2. CASE client \notin {"buf", "listed"}
    BY <1>2, <2>2 DEF RecvInv
  <2>3. QED
    BY <2>1, <2>2
<1>7. SendInv'
  BY <1>2, SendFrame
<1>8. QED
  BY <1>3, <1>5, <1>6, <1>7

\* What the kernel receives goes behind the bytes the worker knows of.
LEMMA RecvCompletesIInv ==
  ASSUME IInv, RecvCompletes
  PROVE  IInv'
<1> USE CapAssumption DEF IInv
<1>1. /\ recvIo.st = "pending" /\ recvIo.n = 0
      /\ UNCHANGED <<bPostRead, handled, len, starts, peerNext, client, workPc>> /\ UNCHANGED sendVars
  BY DEF RecvCompletes, peerVars, Typed
<1>2. recvBuf.cap = RecvCap /\ recvBuf.last \in 0..RecvCap /\ recvBuf.data \in [0..(RecvCap - 1) -> Nat]
  BY BufferFields DEF Typed
<1>3. SendInv'
  BY <1>1, SendFrame
<1>4. CASE RecvNothing
  <2>1. /\ recvIo' = [recvIo EXCEPT !.st = "done", !.n = 0]
        /\ UNCHANGED <<recvBuf, got>>
    BY <1>4 DEF RecvNothing
  <2>2. /\ recvIo' \in Ios /\ recvIo'.n = 0 /\ recvIo'.st = "done"
        /\ recvIo'.at = recvIo.at /\ recvIo'.size = recvIo.size
    BY <2>1 DEF Typed, Ios
  <2>3. Typed'
    BY <1>1, <2>1, <2>2 DEF Typed, sendVars
  <2>4. PeerInv'
    BY <1>1, <2>1, PeerFrame
  <2>5. RecvInv'
    <3> SUFFICES ASSUME client \in {"buf", "listed"}
                 PROVE  RecvInv'
      BY <1>1 DEF RecvInv
    <3>1. Holds(recvBuf, handled)' /\ (handled + 1 \in starts)' /\ HasMsg' = HasMsg
      BY <1>1, <2>1 DEF RecvInv, Holds, HasMsg, FrontLen
    <3>2. (handled + recvBuf.last + Unknown(recvIo) = got)'
      BY <1>1, <2>1, <2>2 DEF RecvInv, Unknown
    <3>3. RecvPosted'
      <4>1. bPostRead /\ ~HasMsg /\ recvIo.at = recvBuf.last /\ recvIo.size = Room(recvBuf)
            /\ Room(recvBuf) >= 0
        BY <1>1, <1>2 DEF RecvInv, RecvPosted, Room
      <4>2. Room(recvBuf)' = Room(recvBuf)
        BY <2>1 DEF Room
      <4>3. QED
        BY <1>1, <1>2, <2>1, <2>2, <3>1, <4>1, <4>2 DEF RecvPosted
    <3>4. RecvDrained' /\ (client = "buf" => ~bPostRead /\ workPc = "loop")'
      BY <1>1, <3>1 DEF RecvInv, RecvDrained
    <3>5. QED
      BY <3>1, <3>2, <3>3, <3>4 DEF RecvInv
  <2>6. QED
    BY <1>3, <2>3, <2>4, <2>5
<1>5. CASE RecvData
  <2>1. client \in {"buf", "listed"}
    BY <1>5 DEF RecvData, SocketClosed, Typed
  <2>2. recvIo.at = recvBuf.last /\ recvIo.size = RecvCap - recvBuf.last /\ bPostRead /\ ~HasMsg
    BY <1>1, <1>2, <2>1 DEF RecvInv, RecvPosted, Room
  <2>3. PICK n \in 1..recvIo.size :
          /\ got + n < peerNext
          /\ recvBuf' = [recvBuf EXCEPT !.data = Copied(recvBuf, recvIo.at, got + 1, n)]
          /\ got' = got + n
          /\ recvIo' = [recvIo EXCEPT !.st = "done", !.n = n]
    BY <1>5 DEF RecvData
  <2> n \in Nat /\ recvBuf.last + n <= RecvCap
    BY <1>2, <2>2
  <2>4. PICK d : d = Copied(recvBuf, recvBuf.last, got + 1, n)
    OBVIOUS
  <2>5. /\ d \in [0..(RecvCap - 1) -> Nat]
        /\ \A i \in 0..(recvBuf.last - 1) : d[i] = recvBuf.data[i]
        /\ \A i \in recvBuf.last..(recvBuf.last + n - 1) : d[i] = (got + 1) + (i - recvBuf.last)
    <3>1. PICK f \in Nat : f = got + 1
      BY DEF Typed
    <3>2. recvBuf \in Buffers(RecvCap) /\ RecvCap \in Nat /\ d = Copied(recvBuf, recvBuf.last, f, n)
      BY <2>4, <3>1 DEF Typed
    <3>3. /\ d \in [0..(RecvCap - 1) -> Nat]
          /\ \A i \in 0..(recvBuf.last - 1) : d[i] = recvBuf.data[i]
          /\ \A i \in recvBuf.last..(recvBuf.last + n - 1) : d[i] = f + (i - recvBuf.last)
      BY <3>2, CopiedAtEnd
    <3>4. QED
      BY <3>1, <3>3
  <2>6. /\ recvBuf' \in Buffers(RecvCap) /\ recvBuf'.last = recvBuf.last
        /\ recvBuf'.cap = recvBuf.cap /\ recvBuf'.data = d
    BY <2>2, <2>3, <2>4, <2>5 DEF Typed, Buffers
  <2>7. /\ recvIo' \in Ios /\ recvIo'.n = n /\ recvIo'.st = "done"
        /\ recvIo'.at = recvIo.at /\ recvIo'.size = recvIo.size
    BY <2>3 DEF Typed, Ios
  <2>8. Typed'
    BY <1>1, <2>3, <2>6, <2>7 DEF Typed, sendVars
  <2>9. PeerInv'
    BY <1>1, <2>3 DEF PeerInv
  <2>10. RecvInv'
    <3>1. Holds(recvBuf, handled)' /\ (handled + 1 \in starts)'
      <4>1. \A i \in 0..(recvBuf.last - 1) : recvBuf.data[i] = handled + 1 + i
        BY <2>1 DEF RecvInv, Holds
      <4>2. QED
        BY <1>1, <2>1, <2>5, <2>6, <4>1 DEF RecvInv, Holds
    <3>2. (handled + recvBuf.last + Unknown(recvIo) = got)'
      BY <1>1, <1>2, <2>1, <2>3, <2>6, <2>7 DEF RecvInv, Unknown, Typed
    <3>3. ~HasMsg'
      <4>1. CASE recvBuf.last >= 1
        <5>1. recvBuf'.data[0] = recvBuf.data[0]
          BY <1>2, <2>5, <2>6, <4>1
        <5>2. QED
          BY <1>1, <2>2, <2>6, <5>1 DEF HasMsg, FrontLen
      <4>2. CASE ~(recvBuf.last >= 1)
        BY <1>2, <2>6, <4>2, LenAssumption DEF HasMsg
      <4>3. QED
        BY <4>1, <4>2
    <3>4. RecvPosted'
      <4>1. ASSUME NEW i \in recvBuf.last..(recvBuf.last + n - 1)
            PROVE  d[i] = got' - n + 1 + (i - recvBuf.last)
        <5>1. d[i] = (got + 1) + (i - recvBuf.last)
          BY <2>5
        <5>2. got' - n + 1 = got + 1
          BY <2>3 DEF Typed
        <5>3. QED
          BY <5>1, <5>2
      <4>2. recvIo'.at = recvBuf'.last /\ recvIo'.size = Room(recvBuf)' /\ recvIo'.n <= recvIo'.size
        BY <1>2, <2>2, <2>6, <2>7 DEF Room
      <4>3. QED
        BY <1>1, <2>2, <2>6, <2>7, <3>3, <4>1, <4>2 DEF RecvPosted
    <3>5. RecvDrained' /\ (client = "buf" => ~bPostRead /\ workPc = "loop")'
      BY <1>1, <2>1, <3>3 DEF RecvInv, RecvDrained
    <3>6. QED
      BY <3>1, <3>2, <3>4, <3>5 DEF RecvInv
  <2>11. QED
    BY <1>3, <2>8, <2>9, <2>10
<1>6. QED
  BY <1>4, <1>5 DEF RecvCompletes

\* The kernel has sent the first bytes of the send buffer; the worker does not
\* know it yet.
LEMMA SendCompletesIInv ==
  ASSUME IInv, SendCompletes
  PROVE  IInv'
<1> USE CapAssumption DEF IInv
<1>1. PICK n \in 0..sendIo.size : sendIo' = [sendIo EXCEPT !.st = "done", !.n = n] /\ wire' = wire + n
  BY DEF SendCompletes
<1>2. /\ sendIo.st = "pending" /\ sendIo.n = 0 /\ n \in Nat /\ n <= sendIo.size
      /\ UNCHANGED <<sendBuf, bPostSend, accepted, recvVars, len, starts, peerNext, got, client, workPc>>
  BY <1>1 DEF SendCompletes, peerVars, recvVars, Typed, Ios
<1>3. sendIo' \in Ios /\ sendIo'.st = "done" /\ sendIo'.n = n /\ sendIo'.size = sendIo.size
  BY <1>1, <1>2 DEF Typed, Ios
<1>4. sendBuf.last \in 0..SendCap
  BY BufferFields DEF Typed
<1>5. Typed'
  BY <1>1, <1>2, <1>3 DEF Typed, recvVars
<1>6. PeerInv'
  BY <1>2, PeerFrame
<1>7. RecvInv'
  BY <1>2, RecvFrame
<1>8. SendInv'
  BY <1>1, <1>2, <1>3, <1>4 DEF SendInv, Holds, Unknown, Typed
<1>9. QED
  BY <1>5, <1>6, <1>7, <1>8

\* A read is posted for the room behind the bytes the worker knows of; a read
\* that cannot be posted changes the flag only.
LEMMA PostRecvKeeps ==
  ASSUME Typed, RecvInv, ~bPostRead, client \in {"buf", "listed"} => ~HasMsg,
         NEW a, PostRecv(a), UNCHANGED <<len, starts>>, client' # "buf",
         client' = "listed" => client \in {"buf", "listed"}
  PROVE  /\ UNCHANGED <<recvBuf, got, handled>> /\ RecvInv'
         /\ recvIo' \in Ios /\ (recvIo'.st # "done" => recvIo'.n = 0)
<1> USE CapAssumption
<1>1. recvBuf.cap = RecvCap /\ recvBuf.last \in 0..RecvCap
  BY BufferFields DEF Typed
<1>2. bPostRead' = TRUE /\ UNCHANGED <<recvBuf, got, handled>> /\ HasMsg' = HasMsg
  BY DEF PostRecv, HasMsg, FrontLen
<1>3. \/ UNCHANGED recvIo
      \/ recvIo' = [st |-> "lost", at |-> 0, size |-> 0, n |-> 0]
      \/ recvIo' = [st |-> "pending", at |-> recvBuf.last, size |-> Room(recvBuf), n |-> 0]
  BY DEF PostRecv, Lost, NoIo
<1>4. Room(recvBuf) \in Nat /\ Room(recvBuf)' = Room(recvBuf) /\ recvBuf.last \in Nat
  BY <1>1, <1>2 DEF Room
<1>5. recvIo' \in Ios /\ (recvIo'.st # "done" => recvIo'.n = 0)
  BY <1>3, <1>4 DEF Typed, Ios
<1>6. RecvInv'
  <2> SUFFICES ASSUME client' = "listed"
               PROVE  RecvInv'
    BY DEF RecvInv
  <2>1. recvIo.st \notin {"pending", "done"} /\ ~HasMsg
    BY DEF RecvInv, RecvPosted
  <2>2. RecvPosted'
    BY <1>2, <1>3, <1>4, <1>5, <2>1 DEF RecvPosted
  <2>3. Holds(recvBuf, handled)' /\ (handled + 1 \in starts)'
    BY <1>2 DEF RecvInv, Holds
  <2>4. (handled + recvBuf.last + Unknown(recvIo) = got)'
    BY <1>2, <1>3, <2>1 DEF RecvInv, Unknown
  <2>5. RecvDrained'
    BY <1>2, <2>1 DEF RecvDrained
  <2>6. QED
    BY <2>2, <2>3, <2>4, <2>5 DEF RecvInv
<1>7. QED
  BY <1>2, <1>5, <1>6

\* A send is posted for the bytes that are in the buffer.
LEMMA PostSendKeeps ==
  ASSUME Typed, SendInv, ~bPostSend, NEW a, PostSend(a)
  PROVE  /\ UNCHANGED <<sendBuf, accepted, wire>> /\ SendInv'
         /\ sendIo' \in Ios /\ (sendIo'.st # "done" => sendIo'.n = 0)
<1> USE CapAssumption
<1>1. sendBuf.last \in Nat
  BY BufferFields DEF Typed
<1>2. sendIo.st \notin {"pending", "done"} /\ sendIo.n = 0
  BY DEF SendInv, Typed
<1>3. bPostSend' = TRUE /\ UNCHANGED <<sendBuf, accepted, wire>>
  BY DEF PostSend
<1>4. \/ sendIo' = [st |-> "lost", at |-> 0, size |-> 0, n |-> 0]
      \/ sendIo' = [st |-> "pending", at |-> 0, size |-> sendBuf.last, n |-> 0]
  BY DEF PostSend, Lost, NoIo
<1>5. sendIo' \in Ios /\ sendIo'.st # "done" /\ sendIo'.n = 0
  BY <1>1, <1>2, <1>4 DEF Typed, Ios
<1>6. sendIo'.st \in {"pending", "done"} => sendIo'.size <= sendBuf.last
  BY <1>1, <1>2, <1>4
<1>7. Holds(sendBuf, accepted - sendBuf.last)'
  BY <1>3 DEF SendInv, Holds
<1>8. Unknown(sendIo) = 0 /\ Unknown(sendIo)' = 0
  BY <1>2, <1>5 DEF Unknown
<1>9. (wire = accepted - sendBuf.last + Unknown(sendIo))'
  BY <1>3, <1>8 DEF SendInv
<1>10. sendIo'.n <= sendIo'.size
  BY <1>5 DEF Ios
<1>11. SendInv'
  BY <1>3, <1>6, <1>7, <1>9, <1>10 DEF SendInv
<1>12. QED
  BY <1>3, <1>5, <1>11

\* The client joins, and its first read is posted.
LEMMA JoinIInv ==
  ASSUME IInv, Join
  PROVE  IInv'
<1> USE DEF IInv
<1>1. PICK a \in PostAnswers : PostRecv(a)
  BY DEF Join
<1>2. /\ client = "buf" /\ client' = "listed" /\ workPc = "loop"
      /\ UNCHANGED <<len, starts, peerNext, workPc>> /\ UNCHANGED sendVars
  BY DEF Join, peerVars
<1>3. ~bPostRead /\ ~HasMsg
  BY <1>2 DEF RecvInv, RecvDrained
<1>4. /\ UNCHANGED <<recvBuf, got, handled>> /\ RecvInv'
      /\ recvIo' \in Ios /\ (recvIo'.st # "done" => recvIo'.n = 0)
  BY <1>1, <1>2, <1>3, PostRecvKeeps
<1>5. Typed'
  BY <1>2, <1>4 DEF Typed, sendVars
<1>6. PeerInv' /\ SendInv'
  BY <1>2, <1>4, PeerFrame, SendFrame
<1>7. QED
  BY <1>4, <1>5, <1>6

\* The worker posts what is not posted yet, or fails to.
LEMMA PostIoIInv ==
  ASSUME IInv, PostIo \/ PostRecvFails \/ PostSendFails
  PROVE  IInv'
<1> USE DEF IInv
<1>1. /\ workPc = "post" /\ workPc' \in {"wait", "uaf"} /\ client' \in {client, "freed"}
      /\ UNCHANGED <<len, starts, peerNext>>
  BY DEF PostIo, PostRecvFails, PostSendFails, Goes, peerVars, ClientLeaves
<1>2. \/ UNCHANGED sendVars
      \/ ~bPostSend /\ \E a \in {"pending", "refused", "error"} : PostSend(a)
  BY DEF PostIo, PostRecvFails, PostSendFails, WantsSend
<1>3. \/ UNCHANGED recvVars
      \/ ~bPostRead /\ \E a \in {"pending", "refused", "error"} : PostRecv(a)
  BY DEF PostIo, PostRecvFails, PostSendFails, WantsRecv
<1>4. /\ UNCHANGED <<sendBuf, accepted, wire>> /\ SendInv'
      /\ sendIo' \in Ios /\ (sendIo'.st # "done" => sendIo'.n = 0)
  <2>1. CASE UNCHANGED sendVars
    BY <2>1, SendFrame DEF Typed, sendVars
  <2>2. CASE ~bPostSend /\ \E a \in {"pending", "refused", "error"} : PostSend(a)
    BY <2>2, PostSendKeeps
  <2>3. QED
    BY <1>2, <2>1, <2>2
<1>5. /\ UNCHANGED <<recvBuf, got, handled>> /\ RecvInv'
      /\ recvIo' \in Ios /\ (recvIo'.st # "done" => recvIo'.n = 0)
  <2>1. client \in {"buf", "listed"} => client = "listed" /\ ~HasMsg
    BY <1>1 DEF RecvInv, RecvDrained
  <2>2. CASE UNCHANGED recvVars
    BY <1>1, <2>1, <2>2, RecvFrame DEF Typed, recvVars
  <2>3. CASE ~bPostRead /\ \E a \in {"pending", "refused", "error"} : PostRecv(a)
    BY <1>1, <2>1, <2>3, PostRecvKeeps DEF Typed
  <2>4. QED
    BY <1>3, <2>2, <2>3
<1>6. Typed'
  BY <1>1, <1>4, <1>5 DEF Typed
<1>7. PeerInv'
  BY <1>1, <1>5, PeerFrame
<1>8. QED
  BY <1>4, <1>5, <1>6, <1>7

\* The worker takes the completion of a read: the bytes the kernel has put
\* behind the buffer's end are now part of it.
LEMMA ReapRecvIInv ==
  ASSUME IInv, ReapRecv
  PROVE  IInv'
<1> USE CapAssumption DEF IInv
<1>1. recvBuf.cap = RecvCap /\ recvBuf.last \in 0..RecvCap /\ recvBuf.data \in [0..(RecvCap - 1) -> Nat]
  BY BufferFields DEF Typed
<1>2. /\ workPc = "wait" /\ recvIo.n > 0 /\ recvIo' = NoIo /\ bPostRead' = FALSE
      /\ UNCHANGED <<got, handled, len, starts, peerNext, client, workPc>> /\ UNCHANGED sendVars
  BY DEF ReapRecv, peerVars
<1>3. recvIo.st = "done" /\ recvIo.n \in Nat
  BY <1>2 DEF Typed, Ios
<1>4. recvBuf' \in Buffers(RecvCap)
  <2>1. CASE recvIo.n <= Room(recvBuf)
    <3>1. recvBuf.last + recvIo.n \in 0..RecvCap
      BY <1>1, <1>3, <2>1 DEF Room
    <3>2. QED
      BY <3>1 DEF ReapRecv, Typed, Buffers
  <2>2. CASE ~(recvIo.n <= Room(recvBuf))
    BY <2>2 DEF ReapRecv, Typed
  <2>3. QED
    BY <2>1, <2>2
<1>5. Typed'
  BY <1>2, <1>4 DEF Typed, Ios, NoIo, sendVars
<1>6. PeerInv' /\ SendInv'
  BY <1>2, PeerFrame, SendFrame
<1>7. RecvInv'
  <2> SUFFICES ASSUME client = "listed"
               PROVE  RecvInv'
    BY <1>2 DEF RecvInv, Typed
  <2>1. /\ bPostRead /\ recvIo.n <= Room(recvBuf)
        /\ \A i \in recvBuf.last..(recvBuf.last + recvIo.n - 1) :
             recvBuf.data[i] = got - recvIo.n + 1 + (i - recvBuf.last)
    BY <1>3 DEF RecvInv, RecvPosted
  <2>2. recvBuf'.last = recvBuf.last + recvIo.n /\ recvBuf'.data = recvBuf.data
    BY <2>1 DEF ReapRecv, Typed, Buffers
  <2>3. /\ handled + recvBuf.last + recvIo.n = got
        /\ \A i \in 0..(recvBuf.last - 1) : recvBuf.data[i] = handled + 1 + i
    BY <1>3 DEF RecvInv, Unknown, Holds
  <2>4. ASSUME NEW i \in 0..(recvBuf.last + recvIo.n - 1)
        PROVE  recvBuf.data[i] = handled + 1 + i
    <3>1. CASE i < recvBuf.last
      BY <1>1, <2>3, <3>1
    <3>2. CASE i >= recvBuf.last
      <4>1. recvBuf.data[i] = got - recvIo.n + 1 + (i - recvBuf.last)
        BY <1>1, <1>3, <2>1, <3>2
      <4>2. got - recvIo.n + 1 + (i - recvBuf.last) = handled + 1 + i
        <5>1. got \in Int /\ recvIo.n \in Int /\ i \in Int /\ recvBuf.last \in Int /\ handled \in Int
          BY <1>1, <1>3 DEF Typed
        <5>2. got = handled + recvBuf.last + recvIo.n
          BY <2>3
        <5>3. QED
          BY <5>1, <5>2
      <4>3. QED
        BY <4>1, <4>2
    <3>3. i < recvBuf.last \/ i >= recvBuf.last
      BY <1>1, <1>3
    <3>4. QED
      BY <3>1, <3>2, <3>3
  <2>5. Holds(recvBuf, handled)'
    <3>1. \A i \in 0..(recvBuf'.last - 1) : recvBuf'.data[i] = handled' + 1 + i
      <4>1. recvBuf'.last - 1 = recvBuf.last + recvIo.n - 1
        BY <1>1, <1>3, <2>2
      <4>2. SUFFICES ASSUME NEW i \in 0..(recvBuf'.last - 1)
                     PROVE  recvBuf.data[i] = handled + 1 + i
        BY <1>2, <2>2
      <4>3. i \in 0..(recvBuf.last + recvIo.n - 1)
        BY <4>1
      <4>4. QED
        BY <2>4, <4>3
    <3>2. QED
      BY <3>1 DEF Holds
  <2>6. (handled + recvBuf.last + Unknown(recvIo) = got)'
    BY <1>1, <1>2, <1>3, <2>2, <2>3 DEF Unknown, NoIo, Typed
  <2>7. RecvPosted' /\ RecvDrained' /\ (handled + 1 \in starts)'
    BY <1>2 DEF RecvInv, RecvPosted, RecvDrained, NoIo
  <2>8. QED
    BY <1>2, <2>5, <2>6, <2>7 DEF RecvInv
<1>8. QED
  BY <1>5, <1>6, <1>7

\* The worker takes the completion of a send and drops the bytes that were
\* sent from the buffer, to which SendData may have appended others.
LEMMA ReapSendIInv ==
  ASSUME IInv, ReapSend
  PROVE  IInv'
<1> USE CapAssumption DEF IInv
<1>1. /\ workPc = "wait" /\ sendIo.n > 0 /\ sendIo' = NoIo /\ bPostSend' = FALSE
      /\ UNCHANGED <<accepted, wire, len, starts, peerNext, client, workPc>> /\ UNCHANGED recvVars
  BY DEF ReapSend, peerVars
<1>2. sendIo.st = "done" /\ sendIo.n \in Nat /\ sendIo.size \in Nat
  BY <1>1 DEF Typed, Ios
<1>3. sendBuf.last \in 0..SendCap
  BY BufferFields DEF Typed
<1>4. bPostSend /\ sendIo.n <= sendBuf.last /\ sendBuf' = Popped(sendBuf, sendIo.n)
  BY <1>2, <1>3 DEF SendInv, ReapSend
<1>5. PICK prev \in Int : prev = accepted - sendBuf.last
  BY <1>3 DEF Typed
<1>6. sendIo.n \in 0..sendBuf.last /\ sendBuf \in Buffers(SendCap) /\ Holds(sendBuf, prev)
  BY <1>2, <1>3, <1>4, <1>5 DEF SendInv, Typed
<1>7. /\ sendBuf' \in Buffers(SendCap) /\ sendBuf'.last = sendBuf.last - sendIo.n
      /\ Holds(sendBuf', prev + sendIo.n)
  BY <1>4, <1>6, PoppedHolds
<1>8. Typed'
  BY <1>1, <1>7 DEF Typed, Ios, NoIo, recvVars
<1>9. PeerInv' /\ RecvInv'
  BY <1>1, PeerFrame, RecvFrame DEF recvVars
<1>10. SendInv'
  <2>1. prev + sendIo.n = accepted' - sendBuf'.last
    BY <1>1, <1>2, <1>3, <1>5, <1>7 DEF Typed
  <2>2. Holds(sendBuf, accepted - sendBuf.last)'
    BY <1>7, <2>1
  <2>3. (wire = accepted - sendBuf.last + Unknown(sendIo))' /\ sendBuf'.last <= accepted'
    BY <1>1, <1>2, <1>3, <1>7 DEF SendInv, Unknown, NoIo, Typed
  <2>4. QED
    BY <1>1, <2>2, <2>3 DEF SendInv, NoIo
<1>11. QED
  BY <1>8, <1>9, <1>10

\* A completion without bytes deletes the client.
LEMMA ReapEmptyIInv ==
  ASSUME IInv, ReapEmpty
  PROVE  IInv'
<1> USE DEF IInv
<1>1. /\ client' = "freed"
      /\ UNCHANGED <<recvBuf, bPostRead, got, handled, sendBuf, bPostSend, accepted, wire>>
      /\ UNCHANGED <<len, starts, peerNext, workPc>>
  BY DEF ReapEmpty, ClientLeaves, peerVars
<1>2. /\ recvIo' = NoIo \/ UNCHANGED recvIo
      /\ (sendIo' = NoIo /\ sendIo.n = 0) \/ UNCHANGED sendIo
  BY DEF ReapEmpty
<1>3. NoIo \in Ios /\ NoIo.st = "none" /\ NoIo.n = 0
  BY DEF Ios, NoIo
<1>4. Typed'
  BY <1>1, <1>2, <1>3 DEF Typed
<1>5. PeerInv'
  BY <1>1, PeerFrame
<1>6. RecvInv'
  BY <1>1 DEF RecvInv
<1>7. SendInv'
  <2>1. Unknown(sendIo)' = Unknown(sendIo)
    BY <1>2, <1>3 DEF Unknown
  <2>2. Holds(sendBuf, accepted - sendBuf.last)'
    BY <1>1 DEF SendInv, Holds
  <2>3. sendIo'.st \in {"pending", "done"} => bPostSend' /\ sendIo'.size <= sendBuf'.last /\ sendIo'.n <= sendIo'.size
    BY <1>1, <1>2, <1>3 DEF SendInv
  <2>4. QED
    BY <1>1, <2>1, <2>2, <2>3 DEF SendInv
<1>8. QED
  BY <1>4, <1>5, <1>6, <1>7

\* SendData appends the whole reply or nothing.
LEMMA SendDataKeeps ==
  ASSUME Typed, SendInv, NEW n \in Nat, SendData(n)
  PROVE  SendInv' /\ UNCHANGED <<wire, sendIo>> /\ sendBuf' \in Buffers(SendCap) /\ accepted' \in Nat
<1> USE CapAssumption
<1>1. sendBuf.last \in 0..SendCap /\ sendBuf.cap = SendCap
  BY BufferFields DEF Typed
<1>2. CASE n <= Room(sendBuf)
  <2>1. /\ sendBuf' = Pushed(sendBuf, accepted + 1, n) /\ accepted' = accepted + n
        /\ UNCHANGED <<bPostSend, sendIo, wire>>
    BY <1>2 DEF SendData
  <2>2. PICK prev \in Int : prev = accepted - sendBuf.last
    BY <1>1 DEF Typed
  <2>3. PICK first \in Nat : first = accepted + 1
    BY DEF Typed
  <2>4. /\ sendBuf.last + n <= SendCap /\ first = prev + sendBuf.last + 1
        /\ sendBuf \in Buffers(SendCap) /\ Holds(sendBuf, prev)
    BY <1>1, <1>2, <2>2, <2>3 DEF Room, SendInv, Typed
  <2>5. /\ sendBuf' \in Buffers(SendCap) /\ sendBuf'.last = sendBuf.last + n /\ Holds(sendBuf', prev)
    BY <2>1, <2>3, <2>4, PushedHolds
  <2>6. prev = accepted' - sendBuf'.last /\ sendBuf'.last <= accepted' /\ accepted' \in Nat
    BY <1>1, <2>1, <2>2, <2>5 DEF Typed, SendInv
  <2>7. (wire = accepted - sendBuf.last + Unknown(sendIo))'
    BY <2>1, <2>2, <2>6 DEF SendInv, Unknown
  <2>8. sendIo.st \in {"pending", "done"} => sendIo.size <= sendBuf'.last
    <3>1. sendIo.size \in Int
      BY DEF Typed, Ios, NoIo
    <3>2. sendIo.st \in {"pending", "done"} => sendIo.size <= sendBuf.last
      BY DEF SendInv
    <3>3. QED
      BY <1>1, <2>5, <3>1, <3>2
  <2>9. QED
    BY <2>1, <2>5, <2>6, <2>7, <2>8 DEF SendInv
<1>3. CASE ~(n <= Room(sendBuf))
  BY <1>3, SendFrame DEF SendData, sendVars, Typed
<1>4. QED
  BY <1>2, <1>3

\* A message is handled and taken from the receive buffer: no read is posted
\* that the move could disturb.
LEMMA HandleMsgIInv ==
  ASSUME IInv, HandleMsg
  PROVE  IInv'
<1> USE CapAssumption, LenAssumption DEF IInv
<1>1. recvBuf.cap = RecvCap /\ recvBuf.last \in 0..RecvCap
  BY BufferFields DEF Typed
<1>2. /\ workPc = "msg" /\ client = "listed" /\ HasMsg
      /\ handled' = handled + FrontLen /\ recvBuf' = Popped(recvBuf, FrontLen)
      /\ UNCHANGED <<bPostRead, recvIo, got, len, starts, peerNext, client, workPc>>
  BY DEF HandleMsg, peerVars
<1>3. recvBuf.last >= 1 /\ recvBuf.last >= FrontLen
  BY <1>1, <1>2 DEF HasMsg
<1>4. recvBuf.data[0] = handled + 1 /\ handled + 1 < peerNext /\ handled + 1 \in starts
  BY <1>2, <1>3, FrontByte DEF RecvInv
<1>5. FrontLen \in Nat /\ handled' + 1 \in starts
  <2>1. FrontLen = len[handled + 1]
    BY <1>4 DEF FrontLen
  <2>2. FrontLen \in Nat /\ handled + 1 + FrontLen \in starts
    BY <1>4, <2>1 DEF PeerInv
  <2>3. QED
    BY <1>2, <2>2 DEF Typed
<1>6. recvIo.st \notin {"pending", "done"}
  BY <1>2 DEF RecvInv, RecvPosted
<1>7. /\ recvBuf' \in Buffers(RecvCap) /\ recvBuf'.last = recvBuf.last - FrontLen
      /\ Holds(recvBuf', handled + FrontLen)
  <2>1. FrontLen \in 0..recvBuf.last /\ recvBuf \in Buffers(RecvCap) /\ handled \in Int
        /\ Holds(recvBuf, handled)
    BY <1>1, <1>2, <1>3, <1>5 DEF RecvInv, Typed
  <2>2. QED
    BY <1>2, <2>1, PoppedHolds
<1>8. SendInv' /\ UNCHANGED <<wire, sendIo>> /\ sendBuf' \in Buffers(SendCap) /\ accepted' \in Nat
  <2>1. CASE UNCHANGED sendVars
    BY <2>1, SendFrame DEF Typed, sendVars
  <2>2. CASE \E n \in MsgLens : SendData(n)
    BY <2>2, SendDataKeeps
  <2>3. QED
    BY <2>1, <2>2 DEF HandleMsg
<1>9. Typed'
  BY <1>2, <1>5, <1>7, <1>8 DEF Typed
<1>10. PeerInv'
  BY <1>2, PeerFrame
<1>11. RecvInv'
  <2>1. Holds(recvBuf, handled)' /\ (handled + 1 \in starts)'
    BY <1>2, <1>5, <1>7
  <2>2. (handled + recvBuf.last + Unknown(recvIo) = got)'
    BY <1>1, <1>2, <1>5, <1>6, <1>7 DEF RecvInv, Unknown, Typed
  <2>3. RecvPosted' /\ RecvDrained'
    BY <1>2, <1>6 DEF RecvPosted, RecvDrained
  <2>4. QED
    BY <1>2, <2>1, <2>2, <2>3 DEF RecvInv
<1>12. QED
  BY <1>8, <1>9, <1>10, <1>11

\* The steps that touch neither buffer.
LEMMA OtherIInv ==
  ASSUME IInv,
         \/ PeerLeaves \/ CheckTime \/ HeartDead \/ ReapFreed \/ ReapFails \/ WaitTimesOut \/ DoMsgEnds
         \/ UNCHANGED vars
  PROVE  IInv'
<1> USE DEF IInv
<1>1. /\ UNCHANGED recvVars /\ UNCHANGED sendVars /\ UNCHANGED <<len, starts, peerNext>>
      /\ client' \in {client, "orphan", "freed"}
  BY DEF PeerLeaves, CheckTime, HeartDead, ReapFreed, ReapFails, WaitTimesOut, DoMsgEnds,
     ClientLeaves, peerVars, vars
<1>2. client = "buf" => workPc = "loop"
  BY DEF RecvInv
<1>3. client' = "buf" => workPc' = workPc
  BY <1>2 DEF PeerLeaves, CheckTime, HeartDead, ReapFreed, ReapFails, WaitTimesOut, DoMsgEnds,
     ClientLeaves, Goes, vars
<1>4. client' \in {"buf", "listed"} /\ workPc' \in {"loop", "post"} =>
        workPc \in {"loop", "post"} \/ ~HasMsg
  BY <1>2 DEF PeerLeaves, CheckTime, HeartDead, ReapFreed, ReapFails, WaitTimesOut, DoMsgEnds,
     ClientLeaves, Goes, vars
<1>5. RecvInv'
  BY <1>1, <1>3, <1>4, RecvFrame
<1>6. Typed' /\ SendInv'
  BY <1>1, TypedFrame, SendFrame
<1>7. PeerInv'
  BY <1>1, PeerFrame DEF recvVars
<1>8. QED
  BY <1>5, <1>6, <1>7

\* Every step keeps the invariant.
LEMMA NextIInv == IInv /\ [Next]_vars => IInv'
<1> SUFFICES ASSUME IInv, [Next]_vars
             PROVE  IInv'
  OBVIOUS
<1>1. CASE PeerSends
  BY <1>1, PeerSendsIInv
<1>2. CASE RecvCompletes
  BY <1>2, RecvCompletesIInv
<1>3. CASE SendCompletes
  BY <1>3, SendCompletesIInv
<1>4. CASE Join
  BY <1>4, JoinIInv
<1>5. CASE PostIo \/ PostRecvFails \/ PostSendFails
  BY <1>5, PostIoIInv
<1>6. CASE ReapRecv
  BY <1>6, ReapRecvIInv
<1>7. CASE ReapSend
  BY <1>7, ReapSendIInv
<1>8. CASE ReapEmpty
  BY <1>8, ReapEmptyIInv
<1>9. CASE HandleMsg
  BY <1>9, HandleMsgIInv
<1>10. CASE \/ PeerLeaves \/ CheckTime \/ HeartDead \/ ReapFreed \/ ReapFails \/ WaitTimesOut
            \/ DoMsgEnds \/ UNCHANGED vars
  BY <1>10, OtherIInv
<1>11. QED
  BY <1>1, <1>2, <1>3, <1>4, <1>5, <1>6, <1>7, <1>8, <1>9, <1>10 DEF Next, Worker

\* The invariant holds in every reachable state.
THEOREM IInvCorrect == Spec => []IInv
<1>1. QED
  BY InitIInv, NextIInv, PTL DEF Spec

-----------------------------------------------------------------------------
(* The theorems.                                                           *)

\* OnNetMsg is always given the next message of the peer's stream, whole,
\* whatever the sizes of the buffer and of the messages, and however the
\* kernel, the peer and the worker take turns (CELLServer::DoMsg, CELLBuffer).
THEOREM RecvStreamIntact == Spec => []RecvIntact
<1>1. IInv => RecvIntact
  BY DEF IInv, RecvInv, RecvIntact
<1>2. QED
  BY <1>1, IInvCorrect, PTL

\* The peer is sent the accepted replies, whole and in order, although
\* SendData appends to the buffer that the kernel is reading
\* (CELLBuffer::push, CELLWriteBuffer::send2iocp).
THEOREM ReplyStreamIntact == Spec => WireInOrder
<1>1. IInv /\ [Next]_vars =>
        [wire' # wire => \A i \in 0..(wire' - wire - 1) : sendBuf.data[i] = wire + 1 + i]_vars
  <2> SUFFICES ASSUME IInv, [Next]_vars, wire' # wire
               PROVE  \A i \in 0..(wire' - wire - 1) : sendBuf.data[i] = wire + 1 + i
    OBVIOUS
  <2>1. SendCompletes
    BY PostSendKeeps, SendDataKeeps DEF Next, Worker, PeerSends, PeerLeaves, RecvCompletes, Join, CheckTime,
       HeartDead, PostIo, PostRecvFails, PostSendFails, PostSend, ReapRecv, ReapSend, ReapEmpty, ReapFreed,
       ReapFails, WaitTimesOut, HandleMsg, SendData, DoMsgEnds, sendVars, vars
  <2>2. PICK n \in 0..sendIo.size : wire' = wire + n /\ sendIo.st = "pending"
    BY <2>1 DEF SendCompletes
  <2>3. /\ sendBuf.last \in Nat /\ sendIo.size \in Nat /\ wire \in Nat /\ accepted \in Nat
    BY BufferFields, CapAssumption DEF IInv, Typed, Ios
  <2>4. wire = accepted - sendBuf.last /\ sendIo.size <= sendBuf.last
    BY <2>2, <2>3 DEF IInv, SendInv, Unknown
  <2>5. \A i \in 0..(sendBuf.last - 1) : sendBuf.data[i] = accepted - sendBuf.last + 1 + i
    BY DEF IInv, SendInv, Holds
  <2>6. QED
    BY <2>2, <2>3, <2>4, <2>5
<1>2. QED
  BY <1>1, IInvCorrect, PTL DEF Spec, WireInOrder

-----------------------------------------------------------------------------
(* The types of what the invariant above says nothing of.                  *)

\* The operations of the completion port, the flags and the counters.
Shape ==
  /\ len \in [0..MaxBytes -> MsgLens \cup {0}]
  /\ net \in {"open", "fin", "reset"}
  /\ bPostRead \in BOOLEAN /\ bPostSend \in BOOLEAN
  /\ port \in Seq({"recv", "send"})
  /\ workPc \in {"loop", "post", "wait", "msg", "uaf", "exited"}
  /\ count \in Int

\* Every step keeps them in their types.
LEMMA ShapeStep ==
  ASSUME Shape, [Next]_vars
  PROVE  Shape'
<1> USE DEF Shape, peerVars, recvVars, sendVars
<1>1. CASE UNCHANGED vars
  BY <1>1 DEF vars
<1>2. CASE PeerSends
  <2>1. PICK l \in MsgLens : len' = [len EXCEPT ![peerNext] = l]
    BY <1>2 DEF PeerSends
  <2>2. len' \in [0..MaxBytes -> MsgLens \cup {0}]
    BY <2>1
  <2> QED
    BY <1>2, <2>2 DEF PeerSends
<1>3. CASE PeerLeaves
  BY <1>3 DEF PeerLeaves
<1>4. CASE RecvCompletes
  BY <1>4 DEF RecvCompletes
<1>5. CASE SendCompletes
  BY <1>5 DEF SendCompletes
<1>6. ASSUME NEW a, PostRecv(a)
      PROVE  bPostRead' \in BOOLEAN
  BY <1>6 DEF PostRecv
<1>7. ASSUME NEW a, PostSend(a)
      PROVE  bPostSend' \in BOOLEAN
  BY <1>7 DEF PostSend
<1>8. CASE Join
  BY <1>6, <1>8 DEF Join
<1>9. CASE CheckTime \/ HeartDead
  BY <1>9 DEF CheckTime, HeartDead, ClientLeaves, Goes
<1>10. CASE PostIo
  BY <1>6, <1>7, <1>10 DEF PostIo, Goes
<1>11. CASE PostRecvFails
  BY <1>6, <1>7, <1>11 DEF PostRecvFails, ClientLeaves, Goes
<1>12. CASE PostSendFails
  BY <1>7, <1>12 DEF PostSendFails, ClientLeaves, Goes
<1>13. CASE ReapRecv \/ ReapSend
  <2>1. bPostRead' \in BOOLEAN /\ bPostSend' \in BOOLEAN
    BY <1>13 DEF ReapRecv, ReapSend
  <2>2. port' = Tail(port) /\ port # <<>>
    BY <1>13 DEF ReapRecv, ReapSend
  <2>3. port' \in Seq({"recv", "send"})
    BY <2>2
  <2>4. UNCHANGED <<len, net, workPc, count>>
    BY <1>13 DEF ReapRecv, ReapSend
  <2> QED
    BY <2>1, <2>3, <2>4
<1>14. CASE ReapEmpty
  BY <1>14 DEF ReapEmpty, ClientLeaves
<1>15. CASE ReapFreed \/ ReapFails
  BY <1>15 DEF ReapFreed, ReapFails, Goes
<1>16. CASE WaitTimesOut \/ DoMsgEnds
  BY <1>16 DEF WaitTimesOut, DoMsgEnds, Goes
<1>17. CASE HandleMsg
  BY <1>17 DEF HandleMsg, SendData
<1> QED
  BY <1>1, <1>2, <1>3, <1>4, <1>5, <1>8, <1>9, <1>10, <1>11, <1>12, <1>13, <1>14, <1>15, <1>16,
     <1>17 DEF Next, Worker

\* Every state is well typed, for all buffer sizes, messages and faults: no
\* completion or pop drives an index of a buffer or of an I/O record out of its range.
THEOREM ConnectionTypes == Spec => []TypeOK
<1>1. ASSUME Init PROVE Shape
  <2>1. bPostRead \in BOOLEAN /\ bPostSend \in BOOLEAN
    BY <1>1 DEF Init
  <2>2. len \in [0..MaxBytes -> MsgLens \cup {0}] /\ port \in Seq({"recv", "send"})
    BY <1>1 DEF Init
  <2> QED
    BY <1>1, <2>1, <2>2 DEF Init, Shape
<1>2. IInv /\ Shape => TypeOK
  BY MaxAssumption DEF IInv, Typed, Shape, TypeOK
<1> QED
  BY <1>1, <1>2, ShapeStep, IInvCorrect, PTL DEF Spec

=============================================================================
