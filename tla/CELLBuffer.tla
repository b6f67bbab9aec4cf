----------------------------- MODULE CELLBuffer -----------------------------
(***************************************************************************)
(* CELLBuffer, the array under the receive and the send buffer of every    *)
(* client, as operators on a record.  A byte is the number of its place in *)
(* the stream it belongs to; 0 is a byte that was never written.           *)
(*                                                                         *)
(* memcpy is used on regions that overlap (pop).  The C library and the    *)
(* Windows runtime the program is built with copy towards lower addresses  *)
(* correctly, so the copy is modelled as a move.                           *)
(***************************************************************************)
EXTENDS Integers

Buffers(n) == [cap : {n}, last : 0..n, data : [0..(n - 1) -> Nat]]

\* CELLBuffer(nSize)
Empty(n) == [cap |-> n, last |-> 0, data |-> [i \in 0..(n - 1) |-> 0]]

\* n bytes of the stream, from the one numbered first on, copied to offset.
Copied(buf, offset, first, n) ==
  [i \in 0..(buf.cap - 1) |->
     IF offset <= i /\ i < offset + n THEN first + (i - offset) ELSE buf.data[i]]

\* Mutant: the bytes that are in the buffer already are forgotten.
RoomOfEmpty(buf) == buf.cap

Room(buf) == buf.cap - buf.last

\* What push appends when it returns nLen; it returns -1 when there is no Room.
Pushed(buf, first, n) ==
  [cap |-> buf.cap, last |-> buf.last + n, data |-> Copied(buf, buf.last, first, n)]

\* pop, and the end of Write2Socket and of send2iocp.
Popped(buf, n) ==
  [cap |-> buf.cap, last |-> buf.last - n,
   data |-> [i \in 0..(buf.cap - 1) |->
               IF i < buf.last - n THEN buf.data[i + n] ELSE buf.data[i]]]

\* The buffer holds the bytes of its stream that follow the one numbered prev.
Holds(buf, prev) == \A i \in 0..(buf.last - 1) : buf.data[i] = prev + 1 + i

=============================================================================
