-------------------------- MODULE CELLStreamProofs --------------------------
(***************************************************************************)
(* Proofs about CELLStream.  The history of positions in items makes the   *)
(* layout of a message an invariant that needs no induction over items:    *)
(* each item begins where the one before it ends.                          *)
(***************************************************************************)
EXTENDS CELLStream, TLAPS

End(k) == items[k].at + ItemLen(items[k])

\* The items follow each other from the length field to writePos.
Layout ==
  /\ Len(items) >= 1 /\ items[1] = [kind |-> "scalar", size |-> LengthSize, n |-> 0, at |-> 0]
  /\ \A k \in 2..Len(items) : items[k].at >= LengthSize
  /\ \A k \in 1..Len(items) :
       /\ ItemLen(items[k]) \in Nat /\ End(k) <= writePos
       /\ End(k) = IF k < Len(items) THEN items[k + 1].at ELSE writePos

\* Every item is in the buffer at its place, the length once Finish has run.
Written ==
  /\ \A k \in 2..Len(items) : \A i \in 1..ItemLen(items[k]) : data[items[k].at + i - 1] = <<k, i>>
  /\ length > 0 => \A i \in 1..LengthSize : data[i - 1] = <<1, i>>
  /\ \A p \in DOMAIN data : data[p] # Foreign

\* The reader is in the message and, unless lost, where its next item begins.
Reading ==
  /\ length \in {0, writePos}
  /\ length = 0 => readPos = 0 /\ next = 1
  /\ readPos <= length
  /\ ~lost => readPos = IF next <= Len(items) THEN items[next].at ELSE writePos

IInv == TypeOK /\ Layout /\ Written /\ Reading /\ InBounds /\ RoundTrip

LEMMA Product == \A a, b \in Nat : a * b \in Nat
OBVIOUS

\* The bytes of an item that ends before w are before w.
LEMMA PlaceBefore ==
  ASSUME NEW at \in Nat, NEW n \in Nat, NEW w \in Nat, at + n <= w, NEW i \in 1..n
  PROVE  at + i - 1 \in 0..(w - 1)
OBVIOUS

\* Both streams are empty at the start.
LEMMA InitIInv == Init => IInv
<1> SUFFICES ASSUME Init PROVE IInv
  OBVIOUS
<1> USE CapAssumption, SizeAssumption DEF Init
<1>1. TypeOK
  <2>1. items \in Seq(Items)
    BY DEF Items
  <2>2. DOMAIN data = 0..(writePos - 1) /\ \A p \in DOMAIN data : data[p] \in Nat \X Nat
    BY DEF Zero
  <2>3. result \in [item : 0..Len(items), value : Seq(Nat \X Nat)]
    BY DEF NoResult
  <2>4. Len(items) = 1 /\ next \in 1..(Len(items) + 1)
    OBVIOUS
  <2>5. writePos \in LengthSize..Cap /\ length \in 0..Cap
    OBVIOUS
  <2> QED
    BY <2>1, <2>2, <2>3, <2>4, <2>5 DEF TypeOK
<1>2. Layout
  BY DEF Layout, End, ItemLen
<1>3. Written
  BY DEF Written, Zero, Foreign
<1>4. Reading
  BY DEF Reading
<1>5. InBounds /\ RoundTrip
  BY DEF InBounds, RoundTrip, NoResult
<1> QED
  BY <1>1, <1>2, <1>3, <1>4, <1>5 DEF IInv

LEMMA ItemsTyped ==
  ASSUME IInv
  PROVE  \A k \in 1..Len(items) : items[k].at \in Nat /\ items[k].size \in Nat /\ items[k].n \in Nat
<1>1. \A k \in 1..Len(items) : items[k] \in Items
  BY DEF IInv, TypeOK
<1> QED
  BY <1>1 DEF Items

\* What a write puts behind the message keeps the message as it is.
LEMMA PutKeepsIInv ==
  ASSUME IInv, NEW item \in Items, ItemLen(item) \in Nat, item.at = writePos, Put(item)
  PROVE  IInv'
<1> DEFINE k == Len(items) + 1
           n == ItemLen(item)
<1> USE CapAssumption, SizeAssumption
<1>1. /\ length = 0 /\ UNCHANGED <<length, readPos, next, result, lost>>
      /\ items' = Append(items, item) /\ items \in Seq(Items)
      /\ writePos' = writePos + n /\ n \in Nat /\ writePos \in LengthSize..Cap
      /\ writePos \in Nat /\ writePos' \in Nat
      /\ writePos + n <= Cap
      /\ data' = Copied(writePos, k, n)
  BY DEF Put, IInv, TypeOK, readerVars, CanWrite
<1>2. /\ Len(items') = k /\ items'[k] = item /\ items' \in Seq(Items)
      /\ k \in Nat /\ \A j \in 1..Len(items) : items'[j] = items[j]
  BY <1>1
<1>3. /\ DOMAIN data' = 0..(writePos' - 1)
      /\ \A p \in 0..(writePos - 1) : data'[p] = data[p]
      /\ \A p \in writePos..(writePos' - 1) : data'[p] = <<k, p - writePos + 1>>
  <2>1. DOMAIN data = 0..(writePos - 1)
    BY DEF IInv, TypeOK
  <2> DEFINE new == writePos..(writePos + n - 1)
  <2>2. data' = [p \in DOMAIN data \cup new |->
                   IF p \in new THEN <<k, p - writePos + 1>> ELSE data[p]]
    BY <1>1 DEF Copied
  <2>3. writePos' = writePos + n /\ writePos \in Nat /\ n \in Nat
    BY <1>1
  <2> HIDE DEF k, n
  <2>4. 0..(writePos - 1) \cup new = 0..(writePos' - 1) /\ new = writePos..(writePos' - 1)
    BY <2>3
  <2>5. \A p \in 0..(writePos - 1) : p \notin new
    BY <2>3
  <2> HIDE DEF new
  <2>6. /\ DOMAIN data' = DOMAIN data \cup new
        /\ \A p \in new : data'[p] = <<k, p - writePos + 1>>
        /\ \A p \in DOMAIN data : p \notin new => data'[p] = data[p]
    BY <2>2
  <2> QED
    BY <2>1, <2>4, <2>5, <2>6
<1>4. writePos \in Nat /\ writePos' \in Nat /\ writePos <= writePos'
  BY <1>1
<1>5. TypeOK'
  <2>1. \A p \in DOMAIN data' : data'[p] \in Nat \X Nat
    <3> SUFFICES ASSUME NEW p \in DOMAIN data' PROVE data'[p] \in Nat \X Nat
      OBVIOUS
    <3>1. CASE p \in 0..(writePos - 1)
      BY <1>3, <3>1 DEF IInv, TypeOK
    <3>2. CASE p \in writePos..(writePos' - 1)
      <4>1. p - writePos + 1 \in Nat
        BY <1>1, <3>2
      <4>2. data'[p] = <<k, p - writePos + 1>>
        BY <1>3, <3>2
      <4> QED
        BY <1>2, <4>1, <4>2
    <3>3. p \in 0..(writePos - 1) \/ p \in writePos..(writePos' - 1)
      BY <1>3, <1>4
    <3> QED
      BY <3>1, <3>2, <3>3
  <2>2. result' \in [item : 0..Len(items'), value : Seq(Nat \X Nat)]
    BY <1>1, <1>2 DEF IInv, TypeOK
  <2>3. next' \in 1..(Len(items') + 1) /\ length' \in 0..Cap /\ readPos' \in Nat /\ lost' \in BOOLEAN
    BY <1>1, <1>2 DEF IInv, TypeOK
  <2> QED
    BY <1>1, <1>2, <1>3, <2>1, <2>2, <2>3 DEF TypeOK
<1>6. ItemLen(item)' = ItemLen(item) /\ \A j \in 1..Len(items) : ItemLen(items'[j]) = ItemLen(items[j])
  BY <1>2
<1>7. Layout'
  <2>1. Len(items') >= 1 /\ items'[1] = [kind |-> "scalar", size |-> LengthSize, n |-> 0, at |-> 0]
    BY <1>1, <1>2 DEF IInv, Layout
  <2>2. \A j \in 2..Len(items') : items'[j].at >= LengthSize
    BY <1>1, <1>2 DEF IInv, Layout
  <2>3. \A j \in 1..Len(items') :
          /\ ItemLen(items'[j]) \in Nat /\ End(j)' <= writePos'
          /\ End(j)' = IF j < Len(items') THEN items'[j + 1].at ELSE writePos'
    <3> SUFFICES ASSUME NEW j \in 1..Len(items')
                 PROVE  /\ ItemLen(items'[j]) \in Nat /\ End(j)' <= writePos'
                        /\ End(j)' = IF j < Len(items') THEN items'[j + 1].at ELSE writePos'
      OBVIOUS
    <3>1. CASE j = k
      BY <1>1, <1>2, <3>1 DEF End
    <3>2. CASE j \in 1..Len(items)
      <4>1. End(j)' = End(j) /\ ItemLen(items'[j]) = ItemLen(items[j])
        BY <1>2, <3>2 DEF End
      <4>2. /\ ItemLen(items[j]) \in Nat /\ End(j) <= writePos
            /\ End(j) = IF j < Len(items) THEN items[j + 1].at ELSE writePos
        BY <3>2 DEF IInv, Layout
      <4>3. j < Len(items) => items'[j + 1] = items[j + 1]
        BY <1>2, <3>2
      <4>4. End(j) \in Int
        BY ItemsTyped, <3>2, <4>2 DEF End
      <4> HIDE DEF End
      <4>5. End(j)' <= writePos'
        BY <1>1, <4>1, <4>2, <4>4
      <4>6. End(j)' = IF j < Len(items') THEN items'[j + 1].at ELSE writePos'
        BY <1>1, <1>2, <3>2, <4>1, <4>2, <4>3
      <4> QED
        BY <4>1, <4>2, <4>5, <4>6
    <3> QED
      BY <1>2, <3>1, <3>2
  <2> QED
    BY <2>1, <2>2, <2>3 DEF Layout
<1>8. Written'
  <2>1. \A j \in 2..Len(items') : \A i \in 1..ItemLen(items'[j]) : data'[items'[j].at + i - 1] = <<j, i>>
    <3> SUFFICES ASSUME NEW j \in 2..Len(items'), NEW i \in 1..ItemLen(items'[j])
                 PROVE  data'[items'[j].at + i - 1] = <<j, i>>
      OBVIOUS
    <3>1. CASE j = k
      <4>1. items'[j].at = writePos /\ i \in 1..n
        BY <1>2, <3>1
      <4>2. writePos + i - 1 \in writePos..(writePos' - 1)
        BY <1>1, <4>1
      <4>3. (writePos + i - 1) - writePos + 1 = i
        BY <1>1, <4>1
      <4> QED
        BY <1>3, <3>1, <4>1, <4>2, <4>3
    <3>2. CASE j \in 2..Len(items)
      <4>0. j \in 1..Len(items) /\ items'[j] = items[j]
        BY <1>2, <3>2
      <4>1. items[j].at \in Nat /\ i \in 1..ItemLen(items[j])
        BY ItemsTyped, <4>0
      <4>2. data[items[j].at + i - 1] = <<j, i>>
        BY <3>2, <4>1 DEF IInv, Written
      <4>3. ItemLen(items[j]) \in Nat /\ items[j].at + ItemLen(items[j]) <= writePos
        BY <4>0 DEF IInv, Layout, End
      <4>4. writePos \in Nat
        BY <1>1
      <4>5. items[j].at + i - 1 \in 0..(writePos - 1)
        BY <4>1, <4>3, <4>4, PlaceBefore
      <4> QED
        BY <1>3, <4>0, <4>2, <4>5
    <3> QED
      BY <1>2, <3>1, <3>2
  <2>2. \A p \in DOMAIN data' : data'[p] # Foreign
    <3> SUFFICES ASSUME NEW p \in DOMAIN data' PROVE data'[p] # Foreign
      OBVIOUS
    <3>1. CASE p \in 0..(writePos - 1)
      BY <1>3, <3>1 DEF IInv, Written, TypeOK
    <3>2. CASE p \in writePos..(writePos' - 1)
      BY <1>1, <1>2, <1>3, <3>2 DEF Foreign
    <3> QED
      BY <1>1, <1>3, <3>1, <3>2
  <2>3. ~(length' > 0)
    BY <1>1
  <2> QED
    BY <2>1, <2>2, <2>3, Zenon DEF Written
<1>9. Reading'
  BY <1>1, <1>2 DEF IInv, Reading, Layout
<1>10. InBounds'
  BY <1>1, <1>3 DEF IInv, InBounds
<1>11. RoundTrip'
  BY <1>1, <1>2 DEF IInv, RoundTrip, TypeOK
<1> QED
  BY <1>5, <1>7, <1>8, <1>9, <1>10, <1>11 DEF IInv

LEMMA FinishKeepsIInv == IInv /\ Finish => IInv'
<1> SUFFICES ASSUME IInv, Finish PROVE IInv'
  OBVIOUS
<1> USE CapAssumption, SizeAssumption
<1>1. /\ length = 0 /\ UNCHANGED <<writePos, items, readPos, next, result, lost>>
      /\ writePos \in LengthSize..Cap /\ writePos \in Nat
      /\ data' = Copied(0, 1, LengthSize)
  BY DEF Finish, IInv, TypeOK, readerVars
<1>2. length' = writePos
  BY <1>1 DEF Finish
<1>3. /\ DOMAIN data' = 0..(writePos - 1)
      /\ \A p \in LengthSize..(writePos - 1) : data'[p] = data[p]
      /\ \A p \in 0..(LengthSize - 1) : data'[p] = <<1, p + 1>>
  <2>1. DOMAIN data = 0..(writePos - 1)
    BY DEF IInv, TypeOK
  <2> DEFINE new == 0..(0 + LengthSize - 1)
  <2>2. data' = [p \in DOMAIN data \cup new |->
                   IF p \in new THEN <<1, p - 0 + 1>> ELSE data[p]]
    BY <1>1 DEF Copied
  <2>3. 0..(writePos - 1) \cup new = 0..(writePos - 1) /\ new = 0..(LengthSize - 1)
    BY <1>1
  <2>4. \A p \in LengthSize..(writePos - 1) : p \in 0..(writePos - 1) /\ p \notin new
    BY <1>1
  <2>5. \A p \in new : p - 0 + 1 = p + 1
    OBVIOUS
  <2> HIDE DEF new
  <2>6. /\ DOMAIN data' = DOMAIN data \cup new
        /\ \A p \in new : data'[p] = <<1, p - 0 + 1>>
        /\ \A p \in DOMAIN data : p \notin new => data'[p] = data[p]
    BY <2>2
  <2> QED
    BY <2>1, <2>3, <2>4, <2>5, <2>6
<1>4. TypeOK'
  <2>1. \A p \in DOMAIN data' : data'[p] \in Nat \X Nat
    <3> SUFFICES ASSUME NEW p \in DOMAIN data' PROVE data'[p] \in Nat \X Nat
      OBVIOUS
    <3>1. CASE p \in LengthSize..(writePos - 1)
      BY <1>1, <1>3, <3>1 DEF IInv, TypeOK
    <3>2. CASE p \in 0..(LengthSize - 1)
      <4>1. p + 1 \in Nat /\ data'[p] = <<1, p + 1>>
        BY <1>3, <3>2
      <4> QED
        BY <4>1
    <3> QED
      BY <1>1, <1>3, <3>1, <3>2
  <2> QED
    BY <1>1, <1>2, <1>3, <2>1 DEF IInv, TypeOK
<1>5. Layout'
  BY <1>1 DEF IInv, Layout, End, ItemLen
<1>6. Written'
  <2>1. \A k \in 2..Len(items) : \A i \in 1..ItemLen(items[k]) : data'[items[k].at + i - 1] = <<k, i>>
    <3> SUFFICES ASSUME NEW k \in 2..Len(items), NEW i \in 1..ItemLen(items[k])
                 PROVE  data'[items[k].at + i - 1] = <<k, i>>
      OBVIOUS
    <3>1. /\ items[k].at \in Nat /\ items[k].at >= LengthSize
          /\ ItemLen(items[k]) \in Nat /\ items[k].at + ItemLen(items[k]) <= writePos
      BY ItemsTyped DEF IInv, Layout, End
    <3>2. data[items[k].at + i - 1] = <<k, i>>
      BY DEF IInv, Written
    <3>3. items[k].at + i - 1 \in LengthSize..(writePos - 1)
      BY <1>1, <3>1
    <3> QED
      BY <1>3, <3>2, <3>3
  <2>2. \A i \in 1..LengthSize : data'[i - 1] = <<1, i>>
    BY <1>3
  <2>3. \A p \in DOMAIN data' : data'[p] # Foreign
    <3> SUFFICES ASSUME NEW p \in DOMAIN data' PROVE data'[p] # Foreign
      OBVIOUS
    <3>1. CASE p \in LengthSize..(writePos - 1)
      BY <1>1, <1>3, <3>1 DEF IInv, Written, TypeOK
    <3>2. CASE p \in 0..(LengthSize - 1)
      BY <1>3, <3>2 DEF Foreign
    <3> QED
      BY <1>1, <1>3, <3>1, <3>2
  <2>4. items' = items
    BY <1>1
  <2> QED
    BY <2>1, <2>2, <2>3, <2>4 DEF Written
<1>7. Reading'
  BY <1>1, <1>2 DEF IInv, Reading
<1>8. InBounds'
  BY <1>1, <1>3 DEF IInv, InBounds
<1>9. RoundTrip'
  BY <1>1 DEF IInv, RoundTrip
<1> QED
  BY <1>4, <1>5, <1>6, <1>7, <1>8, <1>9 DEF IInv

\* A reader that is not lost finds its next item in the bytes before it.
LEMMA ValueOfNext ==
  ASSUME IInv, length > 0, next <= Len(items), ~lost, NEW n \in Nat, n <= ItemLen(items[next])
  PROVE  CanRead(n) /\ Value(n) = Bytes(next, n)
<1> USE CapAssumption, SizeAssumption
<1>1. /\ next \in 1..Len(items) /\ readPos = items[next].at /\ readPos \in Nat
      /\ length = writePos /\ writePos \in Nat
  BY DEF IInv, TypeOK, Reading
<1>2. ItemLen(items[next]) \in Nat /\ readPos + ItemLen(items[next]) <= writePos
  BY <1>1 DEF IInv, Layout, End
<1>3. \A i \in 1..n : readPos + i <= length /\ data[readPos + i - 1] = <<next, i>>
  <2> SUFFICES ASSUME NEW i \in 1..n PROVE readPos + i <= length /\ data[readPos + i - 1] = <<next, i>>
    OBVIOUS
  <2>1. readPos + i <= length
    BY <1>1, <1>2
  <2>2. CASE next = 1
    <3>1. readPos = 0 /\ ItemLen(items[1]) = LengthSize
      BY <1>1, <2>2 DEF IInv, Layout, ItemLen
    <3>2. i \in 1..LengthSize
      BY <2>2, <3>1
    <3>3. data[i - 1] = <<1, i>>
      BY <3>2 DEF IInv, Written
    <3>4. readPos + i - 1 = i - 1
      BY <3>1
    <3> QED
      BY <2>1, <2>2, <3>3, <3>4
  <2>3. CASE next \in 2..Len(items)
    <3>1. i \in 1..ItemLen(items[next])
      BY <1>2
    <3> QED
      BY <1>1, <2>1, <2>3, <3>1 DEF IInv, Written
  <2> QED
    BY <1>1, <2>2, <2>3
<1> QED
  BY <1>1, <1>2, <1>3 DEF CanRead, Value, Bytes

LEMMA ReturnsKeepsIInv ==
  ASSUME IInv, length > 0, next <= Len(items), NEW n \in Nat, CanRead(n),
         ~lost => n = ItemLen(items[next]),
         Returns(n), next' = next + 1, UNCHANGED writerVars
  PROVE  IInv'
<1> USE CapAssumption, SizeAssumption
<1>1. /\ UNCHANGED <<data, writePos, items, length, lost>>
      /\ next' = next + 1 /\ next \in 1..Len(items) /\ Len(items) \in Nat
      /\ readPos \in Nat /\ readPos' = readPos + n /\ readPos + n <= length
      /\ result' = [item |-> next, value |-> Value(n)]
      /\ length = writePos /\ writePos \in Nat
      /\ DOMAIN data = 0..(writePos - 1)
  BY DEF IInv, TypeOK, Reading, Returns, CanRead, writerVars
<1>2. \A i \in 1..n : readPos + i <= length /\ readPos + i - 1 \in DOMAIN data
  BY <1>1
<1>3. Value(n) \in Seq(Nat \X Nat) /\ Len(Value(n)) = n
      /\ \A i \in 1..n : Value(n)[i] # Foreign
  <2>1. \A i \in 1..n : data[readPos + i - 1] \in Nat \X Nat /\ data[readPos + i - 1] # Foreign
    BY <1>2 DEF IInv, TypeOK, Written
  <2>2. Value(n) = [i \in 1..n |-> data[readPos + i - 1]]
    BY <1>2 DEF Value
  <2>3. Value(n) \in [1..n -> Nat \X Nat] /\ \A i \in 1..n : Value(n)[i] # Foreign
    BY <2>1, <2>2
  <2>4. ASSUME NEW v \in [1..n -> Nat \X Nat]
        PROVE  v \in Seq(Nat \X Nat) /\ Len(v) = n
    OBVIOUS
  <2> QED
    BY <2>3, <2>4
<1>4. TypeOK'
  <2>1. result' \in [item : 0..Len(items'), value : Seq(Nat \X Nat)]
    BY <1>1, <1>3
  <2>2. next' \in 1..(Len(items') + 1) /\ readPos' \in Nat
    BY <1>1
  <2> QED
    BY <1>1, <2>1, <2>2 DEF IInv, TypeOK
<1>5. Layout' /\ Written'
  BY <1>1 DEF IInv, Layout, Written, End, ItemLen
<1>6. Reading'
  <2>1. ASSUME ~lost
        PROVE  readPos' = IF next' <= Len(items) THEN items[next'].at ELSE writePos
    <3>1. readPos = items[next].at /\ n = ItemLen(items[next])
      BY <1>1, <2>1 DEF IInv, Reading
    <3>2. End(next) = IF next < Len(items) THEN items[next + 1].at ELSE writePos
      BY <1>1 DEF IInv, Layout
    <3> QED
      BY <1>1, <3>1, <3>2 DEF End
  <2> QED
    BY <1>1, <2>1 DEF IInv, Reading
<1>7. InBounds'
  BY <1>1, <1>3 DEF IInv, InBounds
<1>8. RoundTrip'
  <2> SUFFICES ASSUME ~lost PROVE Value(n) = Bytes(next, ItemLen(items[next]))
    BY <1>1 DEF RoundTrip
  <2> QED
    BY <1>1, ValueOfNext
<1> QED
  BY <1>4, <1>5, <1>6, <1>7, <1>8 DEF IInv

\* A refusal that the reader is not to blame for would have to come to one that
\* is lost already.
LEMMA ReturnsNothingKeepsIInv ==
  ASSUME IInv, length > 0, next <= Len(items),
         NEW tooLong \in BOOLEAN, lost \/ tooLong,
         ReturnsNothing(tooLong), next' = next + 1, UNCHANGED writerVars
  PROVE  IInv'
<1>1. /\ UNCHANGED <<data, writePos, items, length, readPos>> /\ lost' = TRUE
      /\ next' = next + 1 /\ next \in 1..Len(items) /\ Len(items) \in Nat
      /\ result' = [item |-> next, value |-> <<>>]
  BY DEF IInv, TypeOK, ReturnsNothing, writerVars
<1>2. TypeOK'
  <2>1. result' \in [item : 0..Len(items'), value : Seq(Nat \X Nat)]
    BY <1>1
  <2>2. next' \in 1..(Len(items') + 1)
    BY <1>1
  <2> QED
    BY <1>1, <2>1, <2>2 DEF IInv, TypeOK
<1>3. Layout' /\ Written'
  BY <1>1 DEF IInv, Layout, Written, End, ItemLen
<1>4. Reading'
  BY <1>1 DEF IInv, Reading
<1>5. InBounds' /\ RoundTrip'
  BY <1>1 DEF IInv, InBounds, RoundTrip
<1> QED
  BY <1>2, <1>3, <1>4, <1>5 DEF IInv

LEMMA ReadKeepsIInv == IInv /\ Read => IInv'
<1> SUFFICES ASSUME IInv, Read PROVE IInv'
  OBVIOUS
<1> DEFINE n == items[next].size
<1>1. /\ length > 0 /\ next <= Len(items) /\ items[next].kind = "scalar"
      /\ next' = next + 1 /\ UNCHANGED writerVars /\ next \in 1..Len(items)
  BY DEF Read, Asks, IInv, TypeOK
<1>2. n \in Nat /\ n = ItemLen(items[next])
  BY <1>1, ItemsTyped DEF ItemLen
<1>3. CASE CanRead(n)
  <2>1. Returns(n)
    BY <1>3, Zenon DEF Read
  <2> QED
    BY <1>1, <1>2, <1>3, <2>1, ReturnsKeepsIInv
<1>4. CASE ~CanRead(n)
  <2>1. lost
    <3>1. n <= ItemLen(items[next])
      BY <1>2
    <3> QED
      BY <1>1, <1>2, <1>4, <3>1, ValueOfNext DEF IInv, TypeOK
  <2>2. ReturnsNothing(FALSE)
    BY <1>4, Zenon DEF Read
  <2> QED
    BY <1>1, <2>1, <2>2, ReturnsNothingKeepsIInv
<1> QED
  BY <1>3, <1>4

LEMMA ReadArrayKeepsIInv == IInv /\ ReadArray => IInv'
<1> SUFFICES ASSUME IInv, ReadArray PROVE IInv'
  OBVIOUS
<1> USE SizeAssumption
<1>1. /\ length > 0 /\ next <= Len(items) /\ items[next].kind = "array"
      /\ next' = next + 1 /\ UNCHANGED writerVars /\ next \in 1..Len(items)
  BY DEF ReadArray, Asks, IInv, TypeOK
<1>2. PICK n \in OnlyRead, max \in 0..MaxCount :
        IF n <= max /\ CanRead(items[next].size * n + CountSize)
          THEN Returns(CountSize + items[next].size * n) ELSE ReturnsNothing(n > max)
  BY DEF ReadArray
<1>3. n \in Nat
  BY <1>1, ItemsTyped, BoundAssumption DEF OnlyRead
<1> DEFINE total == items[next].size * n
<1>4. total \in Nat
  BY <1>1, <1>3, ItemsTyped, Product
<1>5. ASSUME ~lost PROVE CountSize + total = ItemLen(items[next])
  <2>1. /\ items[next].size * items[next].n \in Nat
        /\ ItemLen(items[next]) = CountSize + items[next].size * items[next].n
    BY <1>1, ItemsTyped, Product DEF ItemLen
  <2>2. CanRead(CountSize) /\ Value(CountSize) = Bytes(next, CountSize)
    <3>1. CountSize <= ItemLen(items[next])
      BY <2>1
    <3> QED
      BY <1>1, <1>5, <3>1, ValueOfNext
  <2>3. n = items[next].n
    BY <2>2 DEF OnlyRead
  <2> QED
    BY <2>1, <2>3
<1> HIDE DEF total
<1>6. CASE n <= max /\ CanRead(total + CountSize)
  <2>1. Returns(CountSize + total)
    BY <1>2, <1>6 DEF total
  <2>2. CanRead(CountSize + total) /\ CountSize + total \in Nat
    <3>1. total + CountSize = CountSize + total
      BY <1>4
    <3> QED
      BY <1>4, <1>6, <3>1
  <2> QED
    BY <1>1, <1>5, <2>1, <2>2, ReturnsKeepsIInv
<1>7. CASE ~(n <= max /\ CanRead(total + CountSize))
  <2>1. ReturnsNothing(n > max)
    BY <1>2, <1>7 DEF total
  <2>2. lost \/ n > max
    <3> SUFFICES ASSUME ~lost, ~(n > max) PROVE FALSE
      OBVIOUS
    <3>1. CountSize + total <= ItemLen(items[next]) /\ CountSize + total \in Nat
      BY <1>4, <1>5
    <3>2. CanRead(CountSize + total)
      BY <1>1, <3>1, ValueOfNext
    <3>3. total + CountSize = CountSize + total
      BY <1>4
    <3>4. n <= max
      BY <1>2, <1>3, BoundAssumption
    <3> QED
      BY <1>7, <3>2, <3>3, <3>4
  <2> DEFINE tooLong == n > max
  <2>3. tooLong \in BOOLEAN
    BY <1>2, <1>3, BoundAssumption
  <2>4. ReturnsNothing(tooLong) /\ (lost \/ tooLong)
    BY <2>1, <2>2
  <2> HIDE DEF tooLong
  <2> QED
    BY <1>1, <2>3, <2>4, ReturnsNothingKeepsIInv
<1> QED
  BY <1>6, <1>7

LEMMA WritesKeepIInv == IInv /\ (Write \/ WriteArray) => IInv'
<1> SUFFICES ASSUME IInv, Write \/ WriteArray PROVE IInv'
  OBVIOUS
<1>1. writePos \in Nat
  BY CapAssumption, SizeAssumption DEF IInv, TypeOK
<1>2. CASE Write
  <2>1. PICK s \in Sizes : Put([kind |-> "scalar", size |-> s, n |-> 0, at |-> writePos])
    BY <1>2 DEF Write
  <2> DEFINE item == [kind |-> "scalar", size |-> s, n |-> 0, at |-> writePos]
  <2>2. item \in Items /\ ItemLen(item) \in Nat /\ item.at = writePos
    BY <1>1, SizeAssumption DEF Items, ItemLen
  <2> QED
    BY <2>1, <2>2, PutKeepsIInv
<1>3. CASE WriteArray
  <2>1. PICK s \in Sizes, n \in 0..MaxCount :
          Put([kind |-> "array", size |-> s, n |-> n, at |-> writePos])
    BY <1>3 DEF WriteArray
  <2> DEFINE item == [kind |-> "array", size |-> s, n |-> n, at |-> writePos]
  <2>2. s \in Nat /\ n \in Nat
    BY SizeAssumption, BoundAssumption
  <2>3. s * n \in Nat
    BY <2>2, Product
  <2>4. item \in Items /\ ItemLen(item) \in Nat /\ item.at = writePos
    BY <1>1, <2>2, <2>3, SizeAssumption DEF Items, ItemLen
  <2> QED
    BY <2>1, <2>4, PutKeepsIInv
<1> QED
  BY <1>2, <1>3

LEMMA StepKeepsIInv == IInv /\ [Next]_vars => IInv'
<1> SUFFICES ASSUME IInv, [Next]_vars PROVE IInv'
  OBVIOUS
<1>1. CASE UNCHANGED vars
  BY <1>1 DEF vars, writerVars, readerVars, IInv, TypeOK, Layout, End, ItemLen, Written, Reading,
              InBounds, RoundTrip, Bytes
<1>2. CASE Next
  BY <1>2, WritesKeepIInv, FinishKeepsIInv, ReadKeepsIInv, ReadArrayKeepsIInv DEF Next
<1> QED
  BY <1>1, <1>2

\* Writer and reader keep the invariant.
THEOREM IInvCorrect == Spec => []IInv
  BY InitIInv, StepKeepsIInv, PTL DEF Spec

\* Every state is well typed, for all sizes and contents: the writer's position
\* stays between the length field and the end of the buffer (CELLWriteStream::write).
THEOREM StreamTypes == Spec => []TypeOK
<1>1. IInv => TypeOK
  BY DEF IInv
<1> QED
  BY <1>1, IInvCorrect, PTL

\* The writer never leaves its buffer and the reader never leaves its message
\* (canWrite and canRead), for all sizes and contents.
THEOREM StreamInBounds == Spec => []InBounds
<1>1. IInv => InBounds
  BY DEF IInv
<1> QED
  BY <1>1, IInvCorrect, PTL

\* A reader that asks for the types that were written is refused nothing and gets
\* every value whole, for all sizes and all sequences of values and arrays, until
\* it meets an array that is longer than it allows (canRead, Read and ReadArray).
THEOREM StreamRoundTrip == Spec => []RoundTrip
<1>1. IInv => RoundTrip
  BY DEF IInv
<1> QED
  BY <1>1, IInvCorrect, PTL

\* A reader that got everything has read the message to its end.
THEOREM StreamConsumed == Spec => []MessageConsumed
<1>1. IInv => MessageConsumed
  BY DEF IInv, TypeOK, Reading, MessageConsumed
<1> QED
  BY <1>1, IInvCorrect, PTL

=============================================================================
