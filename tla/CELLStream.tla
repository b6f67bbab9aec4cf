----------------------------- MODULE CELLStream -----------------------------
(***************************************************************************)
(* CELLWriteStream builds a message value by value, CELLReadStream takes   *)
(* it apart again: every read asks for a value of the type that was        *)
(* written, and an array must not be longer than the reader allows.        *)
(*                                                                         *)
(* A byte is a pair: the item it belongs to, and its place in the item.    *)
(* Item 1 is the length that Finish fills in.  A value is its bytes.       *)
(*                                                                         *)
(* Lengths are natural numbers; the code computes them modulo 2^32, which  *)
(* only a caller that asks for an array of nearly 4 GiB would notice.      *)
(***************************************************************************)
EXTENDS Integers, Sequences

CONSTANTS
  Cap,         \* _nCapacity of the writer
  LengthSize,  \* sizeof(uint16_t): the message length
  LengthMod,   \* 2^16: the length is stored modulo this
  CountSize,   \* sizeof(uint32_t): the number of elements of an array
  Sizes,       \* sizeof(T) of the values and the elements
  MaxCount,    \* bound: elements of an array, and what the reader allows
  MaxItems     \* bound: items of a message

\* The buffer of a message, of 1024 bytes by default, is shorter than 2^16.
ASSUME CapAssumption   == Cap \in Nat /\ LengthSize <= Cap /\ LengthMod \in Nat /\ Cap < LengthMod
ASSUME SizeAssumption  == /\ LengthSize \in Nat \ {0} /\ CountSize \in Nat \ {0}
                          /\ Sizes \subseteq Nat \ {0}
ASSUME BoundAssumption == MaxCount \in Nat /\ MaxItems \in Nat

VARIABLES
  data,      \* the bytes written to _pBuf, by position
  writePos,  \* _nWritePos
  items,     \* history: what was written: kind, size, number of elements, position
  length,    \* what Finish stored as the message's length; 0 before
  readPos,   \* _nReadPos
  next,      \* the item the reader asks for next
  result,    \* what the last read returned: for which item, and the value
  lost       \* history: an array was longer than the reader allows, so that the
             \*          reader did not get it and did not skip it

writerVars == <<data, writePos, items, length>>
readerVars == <<readPos, next, result, lost>>
vars == <<writerVars, readerVars>>

Zero    == <<0, 0>>    \* a byte of the length before Finish
Foreign == <<0, 1>>    \* a byte that is not in the message

Items == [kind : {"scalar", "array"}, size : Nat, n : Nat, at : Nat]
ItemLen(item) == IF item.kind = "array" THEN CountSize + item.size * item.n ELSE item.size
Bytes(k, n)   == [i \in 1..n |-> <<k, i>>]
NoResult      == [item |-> 0, value |-> <<>>]

TypeOK ==
  /\ DOMAIN data = 0..(writePos - 1)
  /\ \A p \in DOMAIN data : data[p] \in Nat \X Nat
  /\ writePos \in LengthSize..Cap
  /\ items \in Seq(Items)
  /\ length \in 0..Cap
  /\ readPos \in Nat
  /\ next \in 1..(Len(items) + 1)
  /\ result \in [item : 0..Len(items), value : Seq(Nat \X Nat)]
  /\ lost \in BOOLEAN

\* The constructors; the writer's puts a length of 0 in front.
Init ==
  /\ data = [p \in 0..(LengthSize - 1) |-> Zero]
  /\ writePos = LengthSize
  /\ items = <<[kind |-> "scalar", size |-> LengthSize, n |-> 0, at |-> 0]>>
  /\ length = 0
  /\ readPos = 0 /\ next = 1 /\ result = NoResult /\ lost = FALSE

-----------------------------------------------------------------------------
(* CELLWriteStream.                                                        *)

\* Mutant: one byte too many fits.
CanWriteOneMore(n) == writePos + n <= Cap + 1

CanWrite(n) == writePos + n <= Cap

\* memcpy of the n bytes of item k.
Copied(pos, k, n) ==
  [p \in DOMAIN data \cup pos..(pos + n - 1) |->
     IF p \in pos..(pos + n - 1) THEN <<k, p - pos + 1>> ELSE data[p]]

\* What Write and WriteArray do if there is room for all of it; a write that
\* does not fit returns false and changes nothing.
Put(item) ==
  /\ length = 0 /\ Len(items) < MaxItems
  /\ CanWrite(ItemLen(item))
  /\ data' = Copied(writePos, Len(items) + 1, ItemLen(item))
  /\ writePos' = writePos + ItemLen(item)
  /\ items' = Append(items, item)
  /\ UNCHANGED <<length, readerVars>>

Write      == \E s \in Sizes : Put([kind |-> "scalar", size |-> s, n |-> 0, at |-> writePos])
WriteArray == \E s \in Sizes, n \in 0..MaxCount :
                Put([kind |-> "array", size |-> s, n |-> n, at |-> writePos])

Finish ==
  /\ length = 0
  /\ data' = Copied(0, 1, LengthSize)
  /\ length' = writePos % LengthMod
  /\ UNCHANGED <<writePos, items, readerVars>>

-----------------------------------------------------------------------------
(* CELLReadStream, on the finished message: its capacity is the length.    *)

\* Mutant: the last byte of the message cannot be read.
CanReadBeforeEnd(n) == readPos + n < length

CanRead(n) == readPos + n <= length

\* The n bytes from readPos on.
Value(n) == [i \in 1..n |-> IF readPos + i <= length THEN data[readPos + i - 1] ELSE Foreign]

\* The reader asks for the next item, and gets a value ...
Returns(n) ==
  /\ result' = [item |-> next, value |-> Value(n)]
  /\ readPos' = readPos + n
  /\ UNCHANGED lost

\* ... or a 0, and stays where it is.  It can blame itself for that only if the
\* array was longer than it allows.
ReturnsNothing(tooLong) ==
  /\ result' = [item |-> next, value |-> <<>>]
  /\ lost' = (lost \/ tooLong)
  /\ UNCHANGED readPos

Asks(kind) ==
  /\ length > 0 /\ next <= Len(items) /\ items[next].kind = kind
  /\ next' = next + 1
  /\ UNCHANGED writerVars

Read ==
  /\ Asks("scalar")
  /\ LET n == items[next].size
     IN IF CanRead(n) THEN Returns(n) ELSE ReturnsNothing(FALSE)

\* onlyRead: the number of elements, which is any number where the reader is
\* not at the beginning of the array, and 0 at the end of the message.
OnlyRead ==
  CASE ~CanRead(CountSize)                        -> {0}
    [] Value(CountSize) = Bytes(next, CountSize)  -> {items[next].n}
    [] OTHER                                      -> 0..(MaxCount + 1)

\* Mutant: ReadArray forgets the number of elements when it looks for room.
ReadArrayNoCount ==
  /\ Asks("array")
  /\ \E n \in OnlyRead, max \in 0..MaxCount :
       LET total == items[next].size * n
       IN IF n <= max /\ CanRead(total) THEN Returns(CountSize + total) ELSE ReturnsNothing(n > max)

\* Mutant: ReadArray reads the elements and does not skip them.
ReadArrayNoPop ==
  /\ Asks("array")
  /\ \E n \in OnlyRead, max \in 0..MaxCount :
       LET total == items[next].size * n
       IN IF n <= max /\ CanRead(total + CountSize)
            THEN /\ result' = [item |-> next, value |-> Value(CountSize + total)]
                 /\ readPos' = readPos + CountSize
                 /\ UNCHANGED lost
            ELSE ReturnsNothing(n > max)

ReadArray ==
  /\ Asks("array")
  /\ \E n \in OnlyRead, max \in 0..MaxCount :
       LET total == items[next].size * n
       IN IF n <= max /\ CanRead(total + CountSize)
            THEN Returns(CountSize + total)
            ELSE ReturnsNothing(n > max)

-----------------------------------------------------------------------------
Next == Write \/ WriteArray \/ Finish \/ Read \/ ReadArray

Spec == Init /\ [][Next]_vars

-----------------------------------------------------------------------------
(* Properties.                                                             *)

\* The writer stays in its buffer and the reader in its message, whatever the
\* bytes that it takes for a number of elements.
InBounds ==
  /\ DOMAIN data \subseteq 0..(Cap - 1)
  /\ \A i \in 1..Len(result.value) : result.value[i] # Foreign

\* A reader that asks for what was written gets what was written: the values, the
\* arrays and the length.  Nothing is refused to it and every value is whole, as
\* long as it has met no array that is longer than it allows.
RoundTrip ==
  ~lost /\ result.item > 0 => result.value = Bytes(result.item, ItemLen(items[result.item]))

\* And when it has asked for everything it has reached the end of the message.
MessageConsumed == ~lost /\ next > Len(items) /\ length > 0 => readPos = length

=============================================================================
