-------------------------- MODULE CellServerProofs --------------------------
(***************************************************************************)
(* Theorems about the worker of a CellServer (select and epoll), for every *)
(* number of clients, every buffer size, every heart and all faults.       *)
(***************************************************************************)
EXTENDS CellServer, SequenceTheorems, FiniteSetTheorems, WellFoundedInduction, TLAPS

-----------------------------------------------------------------------------
(* The inductive invariant.                                                *)

Pcs == {"loop", "time", "sets", "wait", "read", "write", "events", "msg",
        "exit", "clean", "ended", "crashed"}

\* The variables that are no lists and no connections.
ShapeOK ==
  /\ kind \in Kinds /\ bRun \in BOOLEAN
  /\ pc \in Pcs
  /\ clientChange \in BOOLEAN
  /\ oldTime \in 0..MaxLag
  /\ maxSocket \in 0..NClients
  /\ at \in 1..(NClients + 1)
  /\ left \in Nat
  /\ due \subseteq Clients \X {"msg", "reply"}

\* One client with its buffers, its connection and its peer; a client that does
\* not exist has no heart and no bytes.
Conns == [peer : Peers, sent : Nat, rx : Nat, tx : Nat, recvBuf : Nat, sendBuf : Nat,
          dtHeart : Nat, quiet : Nat]
ConnOK(c, r) ==
  /\ r.rx <= r.sent /\ r.sent <= MaxSent[c]
  /\ r.tx <= TxCap
  /\ r.recvBuf <= RecvCap /\ r.sendBuf <= SendCap
  /\ r.dtHeart < Death /\ r.quiet <= MaxQuiet
  /\ r.peer \in {"away", "deleted"} => r.dtHeart = 0 /\ r.quiet = 0
ConnsOK == conn \in [Clients -> Conns] /\ \A c \in Clients : ConnOK(c, conn[c])

\* No client is in the lists twice, and none that has been deleted.
ListsOK ==
  /\ clients \in Seq(Clients) /\ clientsBuf \in Seq(Clients)
  /\ IsInjective(clients) /\ IsInjective(clientsBuf)
  /\ Listed \cap Range(clientsBuf) = {}
  /\ Listed \cup Range(clientsBuf) \subseteq Live

\* epoll watches the listed clients; select's set and greatest socket are those
\* of the listed clients unless _clientChange says otherwise.
WatchOK ==
  /\ watched \subseteq Clients
  /\ kind = "epoll" /\ pc # "ended" => watched = Listed
  /\ kind = "select" /\ pc # "ended" /\ ~clientChange =>
       watched = Listed /\ \A c \in Listed : c <= maxSocket
  /\ kind = "select" /\ pc = "wait" => ~clientChange

\* The answer of select or epoll_wait and the client that is sent to: it is at
\* the position of the loop, or its event is in hand.
EventsOK ==
  /\ readable \subseteq Clients /\ writable \subseteq Clients
  /\ pc \in {"read", "write"} => kind = "select"
  /\ pc = "events" => kind = "epoll" /\ readable \cup writable \subseteq Listed
  /\ sending = 0 => copied = 0
  /\ sending # 0 =>
       /\ sending \in Listed \cap writable
       /\ copied \in 0..conn[sending].sendBuf
       /\ \/ pc = "write" /\ at \in DOMAIN clients /\ clients[at] = sending
          \/ pc = "events" /\ sending \notin readable

\* The clients that have been deleted.
Gone   == {c \in Clients : conn[c].peer = "deleted"}
LeftOK == left <= Cardinality(Gone)

\* The heart of a client and the time it has really been silent.
EarlyOK ==
  \A c \in Clients : \/ conn[c].quiet = MaxQuiet
                     \/ conn[c].dtHeart + oldTime <= conn[c].quiet + MaxLag
LateOK ==
  /\ \A c \in Listed :
       conn[c].quiet <= conn[c].dtHeart + oldTime + MaxLag * (1 + Cardinality(Gone))
  /\ \A c \in Range(clientsBuf) :
       /\ conn[c].dtHeart = 0
       /\ conn[c].quiet <= oldTime + IF pc = "time" THEN 0 ELSE MaxLag

\* What the round will still come to: a message in the buffer, or bytes that
\* make one and a read that is reported; a write that is reported.
Ahead(c) == \E i \in at..Len(clients) : clients[i] = c
Handles(c) ==
  /\ c \in Listed
  /\ pc \in {"read", "write", "events", "msg"}
  /\ \/ HasMsg(c)
     \/ /\ conn[c].recvBuf + conn[c].rx >= MsgLen
        /\ pc \in {"read", "events"} /\ c \in readable
        /\ pc = "read" => Ahead(c)
Replies(c) ==
  /\ c \in Listed
  /\ pc \in {"read", "write", "events"} /\ c \in writable
  /\ pc = "write" => Ahead(c)
Follows(d) == IF d[2] = "msg" THEN Handles(d[1]) ELSE Replies(d[1])

\* How many clients the erasing loops of select may have passed over.
MayMiss == IF kind = "select" THEN left ELSE 0
DueOK ==
  pc \notin {"exit", "clean", "ended", "crashed"} =>
    \E S \in SUBSET Clients : /\ Cardinality(S) <= MayMiss
                              /\ \A d \in due : d[1] \in S \/ Follows(d)

IInv ==
  /\ ShapeOK
  /\ ConnsOK
  /\ ListsOK
  /\ WatchOK
  /\ EventsOK
  /\ LeftOK
  /\ EarlyOK
  /\ LateOK
  /\ DueOK

-----------------------------------------------------------------------------
(* Numbers, and the list that Erase leaves.                                *)

\* The constants are what their assumptions say.
LEMMA Numbers ==
  /\ NClients \in Nat /\ NClients >= 1 /\ Clients = 1..NClients
  /\ MsgLen \in Nat /\ MsgLen >= 1 /\ ReplyLen \in Nat /\ ReplyLen >= 1
  /\ RecvCap \in Nat /\ SendCap \in Nat /\ TxCap \in Nat
  /\ RecvCap >= MsgLen /\ SendCap >= ReplyLen
  /\ Death \in Nat /\ Death >= 1 /\ MaxLag \in Nat /\ MaxLag >= 1
  /\ \A c \in Clients : MaxSent[c] \in Nat
<1>1. /\ MsgLen \in Nat \ {0} /\ ReplyLen \in Nat \ {0} /\ RecvCap \in Nat \ {0}
      /\ SendCap \in Nat \ {0} /\ TxCap \in Nat \ {0}
  BY SizesAssumption
<1>2. QED
  BY <1>1, SizesAssumption, TimesAssumption, BoundsAssumption DEF Clients

\* The clients are finitely many.
LEMMA FiniteClients ==
  ASSUME NEW S \in SUBSET Clients
  PROVE  IsFiniteSet(S) /\ Cardinality(S) \in Nat /\ Cardinality(S) <= NClients
<1>1. IsFiniteSet(Clients) /\ Cardinality(Clients) = NClients
  BY Numbers, FS_Interval
<1>2. IsFiniteSet(S) /\ Cardinality(S) <= Cardinality(Clients)
  BY <1>1, FS_Subset
<1>3. QED
  BY <1>1, <1>2, FS_CardinalityType

\* A set of natural numbers has a least one.
LEMMA Least ==
  ASSUME NEW T, T \subseteq Nat, T # {}
  PROVE  \E x \in T : \A y \in T : x <= y
<1>1. PICK x \in T : \A y \in T : ~(<<y, x>> \in OpToRel(<, Nat))
  BY WFMin, NatLessThanWellFounded
<1>2. \A y \in T : ~(y < x)
  BY <1>1 DEF OpToRel
<1>3. QED
  BY <1>2

\* A set of clients has a greatest one (the search for _maxSocket).
LEMMA Greatest ==
  ASSUME NEW S \in SUBSET Clients, S # {}
  PROVE  \E x \in S : \A y \in S : y <= x
<1> DEFINE T == {NClients - c : c \in S}
<1>1. T \subseteq Nat /\ T # {}
  <2>1. \A c \in S : NClients - c \in Nat
    BY Numbers
  <2>2. QED
    BY <2>1
<1>2. PICK t \in T : \A u \in T : t <= u
  BY <1>1, Least
<1>3. PICK x \in S : t = NClients - x
  BY <1>2
<1>4. \A y \in S : NClients - x <= NClients - y
  BY <1>2, <1>3
<1>5. \A y \in S : y <= x
  BY <1>4, Numbers
<1>6. QED
  BY <1>3, <1>5

\* The first m numbers are m.
LEMMA Interval ==
  ASSUME NEW m \in Nat
  PROVE  IsFiniteSet(1..m) /\ Cardinality(1..m) = m
<1>1. 1 \in Int /\ m \in Int
  OBVIOUS
<1>2. IsFiniteSet(1..m) /\ Cardinality(1..m) = IF 1 > m THEN 0 ELSE m - 1 + 1
  BY <1>1, FS_Interval
<1>3. QED
  BY <1>2

\* ... and without one of them, one fewer.
LEMMA IntervalWithout ==
  ASSUME NEW m \in Nat, NEW p \in 1..m
  PROVE  Cardinality((1..m) \ {p}) = m - 1
BY Interval, FS_RemoveElement

\* The positions that stay, and the new number of each.
Kept(list, gone) == {i \in DOMAIN list : list[i] \notin gone}
Rank(K, i) == Cardinality({j \in K : j <= i})

\* The ranks of the members of a set of positions are 1, 2, 3 ...
LEMMA Ranks ==
  ASSUME NEW m \in Nat, NEW K \in SUBSET (1..m)
  PROVE  /\ Cardinality(K) \in Nat
         /\ \A i \in K : Rank(K, i) \in 1..Cardinality(K)
         /\ \A i, j \in K : i < j => Rank(K, i) < Rank(K, j)
         /\ \A n \in 1..Cardinality(K) : \E i \in K : Rank(K, i) = n
<1> DEFINE below(i) == {j \in K : j <= i}
           k == Cardinality(K)
<1>0. \A i \in K : i \in Nat
  OBVIOUS
<1>1. IsFiniteSet(K) /\ k \in Nat
  <2>1. IsFiniteSet(1..m)
    BY FS_Interval
  <2>2. IsFiniteSet(K)
    BY <2>1, FS_Subset
  <2>3. QED
    BY <2>2, FS_CardinalityType
<1>2. \A i \in K : IsFiniteSet(below(i)) /\ Cardinality(below(i)) \in Nat /\ Cardinality(below(i)) <= k
  BY <1>1, FS_Subset, FS_CardinalityType
<1>3. ASSUME NEW i \in K, NEW j \in K, i < j
      PROVE  Cardinality(below(i)) < Cardinality(below(j))
  <2>1. below(i) \in SUBSET below(j)
    <3>1. \A x \in K : x <= i => x <= j
      BY <1>0, <1>3
    <3>2. QED
      BY <3>1
  <2>2. j \in below(j) /\ j \notin below(i)
    BY <1>3
  <2>3. Cardinality(below(i)) <= Cardinality(below(j)) /\ Cardinality(below(i)) # Cardinality(below(j))
    BY <1>2, <2>1, <2>2, FS_Subset
  <2>4. QED
    BY <1>2, <2>3
<1>4. \A i \in K : Cardinality(below(i)) # 0
  <2> TAKE i \in K
  <2>1. i \in below(i)
    OBVIOUS
  <2>2. QED
    BY <1>2, <2>1, FS_EmptySet
<1> DEFINE r == [i \in K |-> Cardinality(below(i))]
<1>5. r \in [K -> 1..k]
  BY <1>1, <1>2, <1>4
<1>6. \A i, j \in K : r[i] = r[j] => i = j
  BY <1>2, <1>3
<1>7. IsFiniteSet(1..k) /\ Cardinality(1..k) = k
  BY <1>1, FS_Interval
<1>8. \A n \in 1..k : \E i \in K : r[i] = n
  <2>0. DOMAIN r = K
    OBVIOUS
  <2> HIDE DEF r
  <2>1. r \in Injection(K, 1..k)
    BY <1>5, <1>6, <2>0 DEF Injection, IsInjective
  <2>2. r \in Surjection(K, 1..k)
    BY <1>7, <2>1, FS_Injection
  <2>3. QED
    BY <2>0, <2>2 DEF Surjection, Range
<1>9. QED
  BY <1>1, <1>2, <1>3, <1>4, <1>8 DEF Rank

\* Erase takes out the clients that are gone and no other, and repeats none.
LEMMA EraseFacts ==
  ASSUME NEW list \in Seq(Clients), IsInjective(list), NEW gone
  PROVE  /\ Erase(list, gone) \in Seq(Clients)
         /\ IsInjective(Erase(list, gone))
         /\ Range(Erase(list, gone)) = Range(list) \ gone
<1> DEFINE K == Kept(list, gone)
           pos(n) == CHOOSE i \in K : Rank(K, i) = n
           new == Erase(list, gone)
<1>1. K \in SUBSET (1..Len(list)) /\ Len(list) \in Nat /\ DOMAIN list = 1..Len(list)
  BY DEF Kept
<1>2. /\ Cardinality(K) \in Nat
      /\ \A i \in K : Rank(K, i) \in 1..Cardinality(K)
      /\ \A i, j \in K : i < j => Rank(K, i) < Rank(K, j)
      /\ \A n \in 1..Cardinality(K) : \E i \in K : Rank(K, i) = n
  BY <1>1, Ranks
<1>3. \A n \in 1..Cardinality(K) : pos(n) \in K /\ Rank(K, pos(n)) = n
  BY <1>2
<1>4. new = [n \in 1..Cardinality(K) |-> list[pos(n)]]
  BY Zenon DEF Erase, Kept, Rank
<1>5. \A i \in K : pos(Rank(K, i)) = i
  <2> TAKE i \in K
  <2>1. Rank(K, i) \in 1..Cardinality(K)
    BY <1>2
  <2>2. PICK j : j = pos(Rank(K, i))
    OBVIOUS
  <2>3. j \in K /\ Rank(K, j) = Rank(K, i)
    BY <1>3, <2>1, <2>2
  <2>4. i \in Nat /\ j \in Nat /\ Rank(K, i) \in Nat
    BY <1>1, <2>1, <2>3
  <2>5. ~(i < j) /\ ~(j < i)
    BY <1>2, <2>3, <2>4
  <2>6. QED
    BY <2>2, <2>4, <2>5
<1> HIDE DEF K, pos, new
<1>6. \A i \in K : list[i] \in Clients /\ i \in DOMAIN list /\ list[i] \notin gone
  BY <1>1 DEF K, Kept
<1>7. new \in Seq(Clients) /\ DOMAIN new = 1..Cardinality(K)
  BY <1>2, <1>3, <1>4, <1>6
<1>8. IsInjective(new)
  <2> SUFFICES ASSUME NEW a \in 1..Cardinality(K), NEW b \in 1..Cardinality(K), new[a] = new[b]
               PROVE  a = b
    BY <1>7 DEF IsInjective
  <2>1. list[pos(a)] = list[pos(b)]
    BY <1>4
  <2>2. pos(a) = pos(b)
    BY <1>3, <1>6, <2>1 DEF IsInjective
  <2>3. QED
    BY <1>3, <2>2
<1>9. ASSUME NEW i \in DOMAIN list, list[i] \notin gone PROVE list[i] \in Range(new)
  <2>1. i \in K
    BY <1>9 DEF K, Kept
  <2>2. Rank(K, i) \in 1..Cardinality(K) /\ new[Rank(K, i)] = list[i]
    BY <1>2, <1>4, <1>5, <2>1
  <2>3. QED
    BY <1>7, <2>2 DEF Range
<1>10. Range(new) = Range(list) \ gone
  <2>1. Range(new) \subseteq Range(list) \ gone
    BY <1>3, <1>4, <1>6, <1>7 DEF Range
  <2>2. Range(list) \ gone \subseteq Range(new)
    BY <1>9 DEF Range
  <2>3. QED
    BY <2>1, <2>2
<1>11. QED
  BY <1>7, <1>8, <1>10 DEF new

\* The rank of a position when only position p has gone.
LEMMA RankWithout ==
  ASSUME NEW m \in Nat, NEW p \in 1..m, NEW i \in (1..m) \ {p}
  PROVE  Rank((1..m) \ {p}, i) = IF i < p THEN i ELSE i - 1
<1>1. i \in Nat /\ i # p /\ Cardinality(1..i) = i
  BY Interval
<1>2. CASE i < p
  <2>1. {j \in (1..m) \ {p} : j <= i} = 1..i
    BY <1>2
  <2>2. QED
    BY <1>1, <1>2, <2>1 DEF Rank
<1>3. CASE ~(i < p)
  <2>1. {j \in (1..m) \ {p} : j <= i} = (1..i) \ {p}
    OBVIOUS
  <2>2. p \in 1..i
    BY <1>3
  <2>3. Cardinality((1..i) \ {p}) = i - 1
    BY <1>1, <2>2, IntervalWithout
  <2>4. QED
    BY <1>3, <2>1, <2>3 DEF Rank
<1>4. QED
  BY <1>2, <1>3

\* Erase of one client: those behind it move up by one position.
LEMMA EraseOne ==
  ASSUME NEW list \in Seq(Clients), IsInjective(list), NEW p \in DOMAIN list
  PROVE  \A i \in DOMAIN list \ {p} :
           LET j == IF i < p THEN i ELSE i - 1
           IN j \in DOMAIN Erase(list, {list[p]}) /\ Erase(list, {list[p]})[j] = list[i]
<1> DEFINE m == Len(list)
           K == Kept(list, {list[p]})
<1>1. m \in Nat /\ DOMAIN list = 1..m /\ p \in 1..m
  OBVIOUS
<1>2. K = (1..m) \ {p}
  BY <1>1 DEF Kept, IsInjective
<1> DEFINE pos(n) == CHOOSE i \in K : Rank(K, i) = n
<1>3. Erase(list, {list[p]}) = [n \in 1..Cardinality(K) |-> list[pos(n)]]
  BY Zenon DEF Erase, Kept, Rank
<1> HIDE DEF K, m
<1>4. Cardinality(K) = m - 1
  BY <1>1, <1>2, IntervalWithout
<1>5. \A i \in K : Rank(K, i) = IF i < p THEN i ELSE i - 1
  BY <1>1, <1>2, RankWithout
<1>6. \A i, j \in K : Rank(K, i) = Rank(K, j) => i = j
  <2>1. \A i \in K : i \in Nat /\ i # p
    BY <1>1, <1>2
  <2>2. QED
    BY <1>1, <1>5, <2>1
<1>7. \A i \in K : pos(Rank(K, i)) = i
  BY <1>6
<1> HIDE DEF pos
<1>8. ASSUME NEW i \in K, NEW j, j = IF i < p THEN i ELSE i - 1
      PROVE  j \in DOMAIN Erase(list, {list[p]}) /\ Erase(list, {list[p]})[j] = list[i]
  <2>1. pos(j) = i
    BY <1>5, <1>7, <1>8
  <2>2. j \in 1..(m - 1)
    BY <1>1, <1>2, <1>8
  <2>3. QED
    BY <1>3, <1>4, <2>1, <2>2
<1>9. QED
  BY <1>1, <1>2, <1>8

-----------------------------------------------------------------------------
(* What a step does to the clients: nothing, it changes one that is alive, *)
(* one leaves, or it is Connect, Tick, JoinClients, CheckTime or           *)
(* CleanClients.                                                           *)

NoTime == pc' = "time" => pc = "time"

Still == UNCHANGED <<kind, conn, clients, clientsBuf, oldTime>> /\ NoTime

\* Client c goes on as r.
Becomes(c, r) ==
  /\ conn' = [conn EXCEPT ![c] = r]
  /\ UNCHANGED <<kind, clients, clientsBuf, oldTime>> /\ NoTime
  /\ c \in Live
  /\ r \in Conns /\ ConnOK(c, r) /\ r.peer \notin {"away", "deleted"}
  /\ \/ r.dtHeart = conn[c].dtHeart /\ r.quiet = conn[c].quiet
     \/ r.dtHeart = 0 /\ r.quiet = 0

\* The client at position p leaves.
Parts(p) ==
  /\ p \in DOMAIN clients
  /\ conn' = [d \in Clients |-> IF d \in {clients[p]} THEN Deleted ELSE conn[d]]
  /\ clients' = Erase(clients, {clients[p]})
  /\ UNCHANGED <<kind, clientsBuf, oldTime>> /\ NoTime

\* A new and a deleted client are well formed.
LEMMA NewOK ==
  /\ New \in Conns /\ Deleted \in Conns
  /\ \A c \in Clients : ConnOK(c, New) /\ ConnOK(c, Deleted)
  /\ New.peer = "away" /\ New.quiet = 0 /\ New.dtHeart = 0
  /\ Deleted.peer = "deleted" /\ Deleted.quiet = 0 /\ Deleted.dtHeart = 0
<1>1. MaxQuiet \in Nat
  BY Numbers DEF MaxQuiet
<1>2. QED
  BY <1>1, Numbers DEF New, Deleted, Conns, ConnOK, Peers

\* The bound of LateOK grows with every client that leaves.
Lag(d) == MaxLag * (1 + d)
LEMMA LagFacts ==
  /\ \A d \in Nat : Lag(d) \in Nat /\ Lag(d + 1) = Lag(d) + MaxLag
  /\ \A d, e \in Nat : d <= e => Lag(d) <= Lag(e)
  /\ \A d \in Nat : MaxLag <= Lag(d)
<1>1. \A d \in Nat : Lag(d) \in Nat /\ Lag(d + 1) = Lag(d) + MaxLag
  BY Numbers DEF Lag
<1>2. ASSUME NEW d \in Nat, NEW e \in Nat, d <= e PROVE Lag(d) <= Lag(e)
  <2>1. PICK k \in Nat : e = d + k
    <3>1. e - d \in Nat /\ e = d + (e - d)
      BY <1>2
    <3>2. QED
      BY <3>1
  <2>2. MaxLag * k \in Nat /\ Lag(e) = Lag(d) + MaxLag * k
    BY <2>1, Numbers DEF Lag
  <2>3. QED
    BY <2>2, <1>1
<1>3. Lag(0) = MaxLag
  BY Numbers DEF Lag
<1>4. QED
  BY <1>1, <1>2, <1>3

\* The lists are no longer than there are clients.
LEMMA ListLength ==
  ASSUME ListsOK
  PROVE  Len(clients) \in 0..NClients /\ DOMAIN clients = 1..Len(clients)
         /\ Listed = {clients[i] : i \in 1..Len(clients)} /\ Listed \subseteq Clients
<1>1. clients \in Injection(1..Len(clients), Clients)
  BY DEF ListsOK, Injection
<1>2. IsFiniteSet(Clients) /\ Cardinality(Clients) = NClients
  BY Numbers, Interval
<1>3. Len(clients) \in Nat /\ DOMAIN clients = 1..Len(clients)
  BY DEF ListsOK
<1>4. Cardinality(1..Len(clients)) <= NClients
  BY <1>1, <1>2, FS_Injection
<1>5. Len(clients) <= NClients
  BY <1>3, <1>4, Interval
<1>6. Listed = {clients[i] : i \in 1..Len(clients)}
  BY <1>3 DEF Listed, Range
<1>7. QED
  BY <1>3, <1>5, <1>6, Numbers DEF ListsOK, Listed, Live

\* How many clients have been deleted.
LEMMA GoneFacts ==
  /\ Cardinality(Gone) \in Nat /\ Cardinality(Gone) <= NClients
  /\ Cardinality(Gone') \in Nat /\ Cardinality(Gone') <= NClients
  /\ Gone \subseteq Gone' => Cardinality(Gone) <= Cardinality(Gone')
  /\ Gone \subseteq Gone' /\ Gone # Gone' => Cardinality(Gone) + 1 <= Cardinality(Gone')
  /\ \A c \in Clients \ Gone : Cardinality(Gone) < NClients
  /\ \A c \in Clients \ Gone' : Cardinality(Gone') < NClients
<1>1. /\ IsFiniteSet(Gone) /\ Cardinality(Gone) \in Nat /\ Cardinality(Gone) <= NClients
      /\ IsFiniteSet(Gone') /\ Cardinality(Gone') \in Nat /\ Cardinality(Gone') <= NClients
  BY FiniteClients DEF Gone
<1>2. IsFiniteSet(Clients) /\ Cardinality(Clients) = NClients
  BY Numbers, Interval
<1>3. Gone \subseteq Clients /\ Gone' \subseteq Clients
  BY DEF Gone
<1>4. ASSUME Gone \subseteq Gone' PROVE Cardinality(Gone) <= Cardinality(Gone')
                                        /\ (Cardinality(Gone) = Cardinality(Gone') => Gone = Gone')
  BY <1>1, <1>4, FS_Subset
<1>5. /\ Cardinality(Gone) = NClients => Gone = Clients
      /\ Cardinality(Gone') = NClients => Gone' = Clients
  BY <1>2, <1>3, FS_Subset
<1>6. ASSUME NEW c \in Clients \ Gone PROVE Cardinality(Gone) < NClients
  <2>1. Cardinality(Gone) # NClients
    BY <1>5, <1>6
  <2>2. QED
    BY <2>1, <1>1, Numbers
<1>7. ASSUME NEW c \in Clients \ Gone' PROVE Cardinality(Gone') < NClients
  <2>1. Cardinality(Gone') # NClients
    BY <1>5, <1>7
  <2>2. QED
    BY <2>1, <1>1, Numbers
<1>8. ASSUME Gone \subseteq Gone', Gone # Gone' PROVE Cardinality(Gone) + 1 <= Cardinality(Gone')
  BY <1>1, <1>4, <1>8
<1>9. QED
  BY <1>1, <1>4, <1>6, <1>7, <1>8

\* The part of the invariant that is about the clients.
ClientsOK ==
  /\ ConnsOK
  /\ ListsOK
  /\ EarlyOK
  /\ LateOK
  /\ oldTime \in 0..MaxLag

\* What the types say in the arithmetic of one client.
LEMMA ConnTypes ==
  ASSUME NEW r \in Conns
  PROVE  /\ r.sent \in Nat /\ r.rx \in Nat /\ r.tx \in Nat /\ r.recvBuf \in Nat
         /\ r.sendBuf \in Nat /\ r.dtHeart \in Nat /\ r.quiet \in Nat /\ r.peer \in Peers
BY DEF Conns

\* LateOK with its bound named.
LEMMA LateTerm ==
  ASSUME LateOK
  PROVE  /\ \A c \in Listed : conn[c].quiet <= conn[c].dtHeart + oldTime + Lag(Cardinality(Gone))
         /\ \A c \in Range(clientsBuf) :
              /\ conn[c].dtHeart = 0
              /\ conn[c].quiet <= oldTime + IF pc = "time" THEN 0 ELSE MaxLag
BY DEF LateOK, Lag

\* The bound of LateOK does not shrink: it is enough to look at the clients.
LEMMA LateNext ==
  ASSUME NEW bound, bound = Lag(Cardinality(Gone')),
         \A c \in Listed' : conn'[c].quiet <= conn'[c].dtHeart + oldTime' + bound,
         \A c \in Range(clientsBuf)' :
              /\ conn'[c].dtHeart = 0
              /\ conn'[c].quiet <= oldTime' + IF pc' = "time" THEN 0 ELSE MaxLag
  PROVE  LateOK'
BY DEF LateOK, Lag

\* A step that leaves clients, lists and clock alone keeps what is known of them.
LEMMA StillKeeps ==
  ASSUME ClientsOK, Still
  PROVE  ClientsOK' /\ Listed' = Listed /\ Live' = Live /\ Gone' = Gone
<1>1. Listed' = Listed /\ Live' = Live /\ Gone' = Gone /\ Range(clientsBuf)' = Range(clientsBuf)
  BY DEF Still, Listed, Live, Gone
<1>2. ConnsOK' /\ ListsOK' /\ EarlyOK'
  BY <1>1 DEF Still, ClientsOK, ConnsOK, ListsOK, EarlyOK
<1>3. LateOK'
  <2> DEFINE bound == Lag(Cardinality(Gone))
  <2>1. /\ \A c \in Listed : conn[c].quiet <= conn[c].dtHeart + oldTime + bound
        /\ \A c \in Range(clientsBuf) :
              /\ conn[c].dtHeart = 0
              /\ conn[c].quiet <= oldTime + IF pc = "time" THEN 0 ELSE MaxLag
    BY LateTerm DEF ClientsOK
  <2>2. \A c \in Range(clientsBuf) : conn[c].quiet \in Nat /\ oldTime \in Nat /\ MaxLag \in Nat
    BY Numbers, ConnTypes DEF ClientsOK, ConnsOK, ListsOK, Live
  <2>3. bound = Lag(Cardinality(Gone'))
    BY <1>1
  <2> HIDE DEF bound
  <2>4. \A c \in Range(clientsBuf) : conn[c].quiet <= oldTime + IF pc' = "time" THEN 0 ELSE MaxLag
    BY <2>1, <2>2 DEF Still, NoTime
  <2>5. QED
    BY <1>1, <2>1, <2>3, <2>4, LateNext DEF Still
<1>4. QED
  BY <1>1, <1>2, <1>3 DEF ClientsOK, Still

\* ... and so does one that goes on with one living client as another record ...
LEMMA BecomesKeeps ==
  ASSUME ClientsOK, NEW c, NEW r, Becomes(c, r)
  PROVE  ClientsOK' /\ Listed' = Listed /\ Live' = Live /\ Gone' = Gone
<1>0. c \in Clients /\ conn \in [Clients -> Conns] /\ r \in Conns
  BY DEF ClientsOK, ConnsOK, Becomes, Live
<1>1. /\ conn' \in [Clients -> Conns] /\ conn'[c] = r
      /\ \A d \in Clients : d # c => conn'[d] = conn[d]
  BY <1>0 DEF Becomes
<1>2. Listed' = Listed /\ Live' = Live /\ Gone' = Gone /\ Range(clientsBuf)' = Range(clientsBuf)
  <2>1. Listed' = Listed /\ Range(clientsBuf)' = Range(clientsBuf)
    BY DEF Becomes, Listed
  <2>2. \A d \in Clients :
          /\ conn'[d].peer \in {"away", "deleted"} <=> conn[d].peer \in {"away", "deleted"}
          /\ conn'[d].peer = "deleted" <=> conn[d].peer = "deleted"
    BY <1>0, <1>1 DEF Becomes, Live
  <2>3. Live' = Live
    BY <2>2 DEF Live
  <2>4. Gone' = Gone
    BY <2>2 DEF Gone
  <2>5. QED
    BY <2>1, <2>3, <2>4
<1>3. ConnsOK' /\ ListsOK'
  BY <1>0, <1>1, <1>2 DEF ClientsOK, ConnsOK, ListsOK, Becomes
<1>4. \A d \in Clients :
        \/ conn'[d].dtHeart = conn[d].dtHeart /\ conn'[d].quiet = conn[d].quiet
        \/ conn'[d].dtHeart = 0 /\ conn'[d].quiet = 0
  <2> TAKE d \in Clients
  <2>1. CASE d = c
    BY <1>1, <2>1 DEF Becomes
  <2>2. CASE d # c
    BY <1>1, <2>2
  <2>3. QED
    BY <2>1, <2>2
<1>5. oldTime' = oldTime /\ oldTime \in Nat /\ oldTime <= MaxLag /\ MaxLag \in Nat
  BY Numbers DEF ClientsOK, Becomes
<1>6. EarlyOK'
  BY <1>4, <1>5 DEF ClientsOK, EarlyOK
<1>7. LateOK'
  <2> DEFINE bound == Lag(Cardinality(Gone))
  <2>1. /\ \A d \in Listed : conn[d].quiet <= conn[d].dtHeart + oldTime + bound
        /\ \A d \in Range(clientsBuf) :
              /\ conn[d].dtHeart = 0
              /\ conn[d].quiet <= oldTime + IF pc = "time" THEN 0 ELSE MaxLag
    BY LateTerm DEF ClientsOK
  <2>2. bound = Lag(Cardinality(Gone')) /\ bound \in Nat
    BY <1>2, LagFacts, GoneFacts
  <2> HIDE DEF bound
  <2>3. Listed \subseteq Clients /\ Range(clientsBuf) \subseteq Clients
    BY DEF ClientsOK, ListsOK, Live
  <2>4. \A d \in Listed : conn'[d].quiet <= conn'[d].dtHeart + oldTime + bound
    BY <1>4, <1>5, <2>1, <2>2, <2>3
  <2>5. ASSUME NEW d \in Range(clientsBuf)
        PROVE  /\ conn'[d].dtHeart = 0
               /\ conn'[d].quiet <= oldTime + IF pc' = "time" THEN 0 ELSE MaxLag
    <3>1. d \in Clients /\ conn[d].quiet \in Nat
      BY <1>0, <2>3, ConnTypes
    <3>2. CASE conn'[d].dtHeart = 0 /\ conn'[d].quiet = 0
      BY <1>5, <3>2
    <3>3. CASE conn'[d].dtHeart = conn[d].dtHeart /\ conn'[d].quiet = conn[d].quiet
      BY <1>5, <2>1, <3>1, <3>3 DEF Becomes, NoTime
    <3>4. QED
      BY <1>4, <3>1, <3>2, <3>3
  <2>6. QED
    BY <1>2, <1>5, <2>2, <2>4, <2>5, LateNext
<1>8. QED
  BY <1>2, <1>3, <1>5, <1>6, <1>7 DEF ClientsOK

\* ... and one that deletes one client of the list, of which there is then one more.
LEMMA PartsKeeps ==
  ASSUME ClientsOK, NEW p, Parts(p)
  PROVE  /\ ClientsOK'
         /\ clients[p] \in Listed /\ Listed' = Listed \ {clients[p]}
         /\ Gone \subseteq Gone' /\ Gone # Gone'
<1> DEFINE c == clients[p]
<1>0. /\ conn \in [Clients -> Conns] /\ clients \in Seq(Clients) /\ IsInjective(clients)
      /\ c \in Listed /\ Listed \cup Range(clientsBuf) \subseteq Live
      /\ Listed \cap Range(clientsBuf) = {}
  BY DEF ClientsOK, ConnsOK, ListsOK, Parts, Listed, Range
<1>1. conn' = [d \in Clients |-> IF d = c THEN Deleted ELSE conn[d]]
  BY DEF Parts
<1>2. /\ clients' \in Seq(Clients) /\ IsInjective(clients')
      /\ Range(clients') = Range(clients) \ {c}
  BY <1>0, EraseFacts DEF Parts
<1> HIDE DEF c
<1>3. Listed' = Listed \ {c} /\ Range(clientsBuf)' = Range(clientsBuf)
  BY <1>2 DEF Parts, Listed
<1>4. c \in Clients /\ conn[c].peer # "deleted"
  BY <1>0 DEF Live
<1>5. /\ conn' \in [Clients -> Conns] /\ conn'[c] = Deleted
      /\ \A d \in Clients : d # c => conn'[d] = conn[d]
  BY <1>0, <1>1, <1>4, NewOK
<1>6. Gone \subseteq Gone' /\ Gone # Gone'
  <2>1. c \in Gone' /\ c \notin Gone
    BY <1>4, <1>5, NewOK DEF Gone
  <2>2. Gone \subseteq Gone'
    BY <1>5, <2>1 DEF Gone
  <2>3. QED
    BY <2>1, <2>2
<1>7. ConnsOK'
  BY <1>5, NewOK DEF ClientsOK, ConnsOK
<1>8. ListsOK'
  <2>1. Listed' \cup Range(clientsBuf)' \subseteq Live'
    BY <1>0, <1>3, <1>5 DEF Live
  <2>2. clientsBuf' = clientsBuf
    BY DEF Parts
  <2>3. QED
    BY <1>0, <1>2, <1>3, <2>1, <2>2 DEF ClientsOK, ListsOK
<1>9. oldTime' = oldTime /\ oldTime \in Nat /\ oldTime <= MaxLag /\ MaxLag \in Nat
  BY Numbers DEF ClientsOK, Parts
<1>10. EarlyOK'
  BY <1>5, <1>9, NewOK DEF ClientsOK, EarlyOK
<1>11. LateOK'
  <2> DEFINE bound == Lag(Cardinality(Gone))
             new == Lag(Cardinality(Gone'))
  <2>1. /\ \A d \in Listed : conn[d].quiet <= conn[d].dtHeart + oldTime + bound
        /\ \A d \in Range(clientsBuf) :
              /\ conn[d].dtHeart = 0
              /\ conn[d].quiet <= oldTime + IF pc = "time" THEN 0 ELSE MaxLag
    BY LateTerm DEF ClientsOK
  <2>2. bound <= new /\ bound \in Nat /\ new \in Nat
    BY <1>6, LagFacts, GoneFacts
  <2>3. new = Lag(Cardinality(Gone'))
    OBVIOUS
  <2> HIDE DEF bound, new
  <2>4. \A d \in Listed' : d \in Listed /\ d \in Clients /\ conn'[d] = conn[d]
    BY <1>0, <1>3, <1>5 DEF Live
  <2>5. \A d \in Range(clientsBuf) : d \in Clients /\ conn'[d] = conn[d] /\ conn[d].quiet \in Nat
    BY <1>0, <1>5, ConnTypes DEF Live
  <2>6. ASSUME NEW d \in Listed' PROVE conn'[d].quiet <= conn'[d].dtHeart + oldTime + new
    <3>1. conn[d].quiet \in Nat /\ conn[d].dtHeart \in Nat
      BY <1>0, <2>4, ConnTypes
    <3>2. conn[d].quiet <= conn[d].dtHeart + oldTime + bound
      BY <2>1, <2>4
    <3>3. QED
      BY <1>9, <2>2, <2>4, <3>1, <3>2
  <2>7. ASSUME NEW d \in Range(clientsBuf)
        PROVE  /\ conn'[d].dtHeart = 0
               /\ conn'[d].quiet <= oldTime + IF pc' = "time" THEN 0 ELSE MaxLag
    BY <1>9, <2>1, <2>5 DEF Parts, NoTime
  <2>8. QED
    BY <1>3, <1>9, <2>3, <2>6, <2>7, LateNext
<1>12. QED
  BY <1>0, <1>3, <1>6, <1>7, <1>8, <1>9, <1>10, <1>11 DEF ClientsOK, c

-----------------------------------------------------------------------------
(* The steps that change several clients or the lists.                     *)

\* A client that is not in a list is put at its end.
LEMMA AppendFacts ==
  ASSUME NEW list \in Seq(Clients), IsInjective(list), NEW c \in Clients, c \notin Range(list)
  PROVE  /\ Append(list, c) \in Seq(Clients)
         /\ IsInjective(Append(list, c))
         /\ Range(Append(list, c)) = Range(list) \cup {c}
<1> DEFINE new == Append(list, c)  n == Len(list)
<1>1. n \in Nat /\ DOMAIN list = 1..n
  OBVIOUS
<1>2. new \in Seq(Clients) /\ DOMAIN new = 1..(n + 1) /\ new[n + 1] = c
      /\ \A i \in 1..n : new[i] = list[i]
  OBVIOUS
<1> HIDE DEF new, n
<1>3. \A i \in 1..(n + 1) : i \in 1..n \/ i = n + 1
  BY <1>1
<1>4. \A i \in 1..n : list[i] # c
  BY <1>1 DEF Range
<1>5. IsInjective(new)
  BY <1>1, <1>2, <1>3, <1>4 DEF IsInjective
<1>6. n + 1 \in 1..(n + 1) /\ \A i \in 1..n : i \in 1..(n + 1)
  BY <1>1
<1>7. Range(new) = Range(list) \cup {c}
  BY <1>1, <1>2, <1>3, <1>6 DEF Range
<1>8. QED
  BY <1>2, <1>5, <1>7 DEF new

\* Two lists without a common client, one behind the other.
LEMMA ConcatFacts ==
  ASSUME NEW a \in Seq(Clients), NEW b \in Seq(Clients), IsInjective(a), IsInjective(b),
         Range(a) \cap Range(b) = {}
  PROVE  /\ a \o b \in Seq(Clients)
         /\ IsInjective(a \o b)
         /\ Range(a \o b) = Range(a) \cup Range(b)
<1> DEFINE new == a \o b  m == Len(a)  n == Len(b)
<1>1. m \in Nat /\ n \in Nat /\ DOMAIN a = 1..m /\ DOMAIN b = 1..n
  OBVIOUS
<1>2. /\ new \in Seq(Clients) /\ Len(new) = m + n
      /\ \A i \in 1..(m + n) : new[i] = IF i <= m THEN a[i] ELSE b[i - m]
  BY ConcatProperties, Zenon
<1>3. DOMAIN new = 1..(m + n)
  BY <1>2
<1> HIDE DEF new, m, n
<1>4. \A i \in 1..(m + n) :
        \/ i \in 1..m /\ new[i] = a[i]
        \/ ~(i <= m) /\ i - m \in 1..n /\ new[i] = b[i - m]
  BY <1>1, <1>2
<1>5. /\ \A i \in 1..m : i \in 1..(m + n) /\ new[i] = a[i]
      /\ \A j \in 1..n : j + m \in 1..(m + n) /\ new[j + m] = b[j]
  <2>1. \A i \in 1..m : i \in 1..(m + n) /\ new[i] = a[i]
    BY <1>1, <1>2
  <2>2. ASSUME NEW j \in 1..n PROVE j + m \in 1..(m + n) /\ new[j + m] = b[j]
    <3>1. j + m \in 1..(m + n) /\ ~(j + m <= m) /\ (j + m) - m = j
      BY <1>1
    <3>2. new[j + m] = b[(j + m) - m]
      BY <1>2, <3>1
    <3>3. QED
      BY <3>1, <3>2
  <2>3. QED
    BY <2>1, <2>2
<1>6. \A i \in 1..m, j \in 1..n : a[i] # b[j]
  BY <1>1 DEF Range
<1>7. IsInjective(new)
  <2> SUFFICES ASSUME NEW i \in 1..(m + n), NEW j \in 1..(m + n), new[i] = new[j]
               PROVE  i = j
    BY <1>3 DEF IsInjective
  <2>1. CASE i \in 1..m /\ j \in 1..m
    BY <1>1, <1>5, <2>1 DEF IsInjective
  <2>2. CASE ~(i <= m) /\ ~(j <= m)
    <3>1. i - m \in 1..n /\ j - m \in 1..n /\ b[i - m] = b[j - m]
      BY <1>4, <2>2, <1>1
    <3>2. i - m = j - m
      BY <1>1, <3>1 DEF IsInjective
    <3>3. QED
      BY <1>1, <3>2
  <2>3. CASE i \in 1..m /\ ~(j <= m)
    BY <1>1, <1>4, <1>5, <1>6, <2>3
  <2>4. CASE ~(i <= m) /\ j \in 1..m
    BY <1>1, <1>4, <1>5, <1>6, <2>4
  <2>5. QED
    BY <1>4, <2>1, <2>2, <2>3, <2>4
<1>8. Range(new) = Range(a) \cup Range(b)
  <2>1. Range(new) \subseteq Range(a) \cup Range(b)
    BY <1>1, <1>3, <1>4 DEF Range
  <2>2. Range(a) \cup Range(b) \subseteq Range(new)
    BY <1>1, <1>3, <1>5 DEF Range
  <2>3. QED
    BY <2>1, <2>2
<1>9. QED
  BY <1>2, <1>7, <1>8 DEF new

\* Every position is in one row of dead clients, or behind it.
LEMMA RowStart ==
  ASSUME NEW n \in Nat, n >= 1
  PROVE  \E k \in 1..n : /\ k = 1 \/ ~IsDead(clients[k - 1])
                         /\ \A m \in k..(n - 1) : IsDead(clients[m])
<1> DEFINE T == {k \in 1..n : \A m \in k..(n - 1) : IsDead(clients[m])}
<1>1. n \in T /\ T \subseteq Nat
  <2>1. n \in 1..n /\ \A m \in n..(n - 1) : FALSE
    OBVIOUS
  <2>2. QED
    BY <2>1
<1>2. PICK k \in T : \A j \in T : k <= j
  BY <1>1, Least
<1>3. k \in 1..n /\ k \in Nat /\ \A m \in k..(n - 1) : IsDead(clients[m])
  BY <1>2
<1>4. ASSUME k # 1, IsDead(clients[k - 1]) PROVE FALSE
  <2>1. k - 1 \in 1..n /\ ~(k <= k - 1)
    BY <1>3, <1>4
  <2>2. \A m \in (k - 1)..(n - 1) : m = k - 1 \/ m \in k..(n - 1)
    BY <1>3
  <2>3. k - 1 \in T
    BY <1>3, <1>4, <2>1, <2>2
  <2>4. QED
    BY <1>2, <2>1, <2>3
<1>5. QED
  BY <1>3, <1>4

\* Who CheckTime does not come to stands behind one that it deletes.
LEMMA Skipped ==
  ASSUME ListsOK, NEW c \in Listed, c \notin Visited
  PROVE  \E d \in Visited : IsDead(d)
<1>1. Len(clients) \in Nat /\ DOMAIN clients = 1..Len(clients)
  BY ListLength
<1>2. PICK n \in 1..Len(clients) : clients[n] = c
  BY <1>1 DEF Listed, Range
<1>3. ~Visits(n) /\ n \in Nat /\ n >= 1 /\ n <= Len(clients)
  BY <1>1, <1>2 DEF Visited
<1>4. PICK k \in 1..n : /\ k = 1 \/ ~IsDead(clients[k - 1])
                        /\ \A m \in k..(n - 1) : IsDead(clients[m])
  BY <1>3, RowStart
<1>5. k \in Nat /\ k \in 1..k /\ (k - k) % 2 = 0 /\ (n - n) % 2 = 0
  BY <1>3
<1>6. k # n
  BY <1>3, <1>4, <1>5 DEF Visits
<1>7. Visits(k)
  <2>1. \A m \in k..(k - 1) : IsDead(clients[m])
    BY <1>5
  <2>2. QED
    BY <1>4, <1>5, <2>1 DEF Visits
<1>8. k \in DOMAIN clients /\ k \in k..(n - 1)
  BY <1>1, <1>3, <1>4, <1>6
<1>9. clients[k] \in Visited /\ IsDead(clients[k])
  BY <1>4, <1>7, <1>8 DEF Visited
<1>10. QED
  BY <1>9

\* A new client is alive, and in _clientsBuf only.
LEMMA ConnectKeeps ==
  ASSUME ClientsOK, NEW c \in Clients, Outside(Connect(c))
  PROVE  ClientsOK' /\ Listed' = Listed /\ Gone' = Gone
<1>0. /\ conn \in [Clients -> Conns] /\ conn[c].peer = "away" /\ ConnOK(c, conn[c])
      /\ conn' = [conn EXCEPT ![c].peer = "open"] /\ clientsBuf' = Append(clientsBuf, c)
      /\ UNCHANGED <<clients, oldTime, pc>>
  BY DEF ClientsOK, ConnsOK, Outside, Connect
<1>1. c \notin Live /\ c \notin Gone /\ c \notin Listed /\ c \notin Range(clientsBuf)
  BY <1>0 DEF ClientsOK, ListsOK, Live, Gone
<1>2. /\ conn' \in [Clients -> Conns] /\ conn'[c] = [conn[c] EXCEPT !.peer = "open"]
      /\ \A d \in Clients : d # c => conn'[d] = conn[d]
  BY <1>0 DEF Conns, Peers
<1>3. /\ conn'[c].peer = "open" /\ conn'[c].dtHeart = 0 /\ conn'[c].quiet = 0
      /\ ConnOK(c, conn'[c])
  BY <1>0, <1>2 DEF Conns, ConnOK
<1>4. Listed' = Listed
  BY <1>0 DEF Listed
<1>5. Gone' = Gone
  BY <1>0, <1>2, <1>3 DEF Gone
<1>6. Live \cup {c} \subseteq Live'
  BY <1>2, <1>3 DEF Live
<1>7. /\ clientsBuf' \in Seq(Clients) /\ IsInjective(clientsBuf')
      /\ Range(clientsBuf') = Range(clientsBuf) \cup {c}
  BY <1>0, <1>1, AppendFacts DEF ClientsOK, ListsOK
<1>8. ConnsOK'
  BY <1>2, <1>3 DEF ClientsOK, ConnsOK
<1>9. ListsOK'
  <2>1. Listed' \cap Range(clientsBuf') = {}
    BY <1>1, <1>4, <1>7 DEF ClientsOK, ListsOK
  <2>2. Listed' \cup Range(clientsBuf') \subseteq Live'
    BY <1>4, <1>6, <1>7 DEF ClientsOK, ListsOK
  <2>3. QED
    BY <1>0, <1>7, <2>1, <2>2 DEF ClientsOK, ListsOK
<1>10. oldTime' = oldTime /\ oldTime \in Nat /\ oldTime <= MaxLag /\ MaxLag \in Nat
  BY <1>0, Numbers DEF ClientsOK
<1>11. EarlyOK'
  <2> SUFFICES ASSUME NEW d \in Clients
               PROVE  \/ conn'[d].quiet = MaxQuiet
                      \/ conn'[d].dtHeart + oldTime' <= conn'[d].quiet + MaxLag
    BY DEF EarlyOK
  <2>1. CASE d = c
    BY <1>3, <1>10, <2>1
  <2>2. CASE d # c
    BY <1>2, <1>10, <2>2 DEF ClientsOK, EarlyOK
  <2>3. QED
    BY <2>1, <2>2
<1>12. LateOK'
  <2> DEFINE bound == Lag(Cardinality(Gone))
  <2>1. /\ \A d \in Listed : conn[d].quiet <= conn[d].dtHeart + oldTime + bound
        /\ \A d \in Range(clientsBuf) :
              /\ conn[d].dtHeart = 0
              /\ conn[d].quiet <= oldTime + IF pc = "time" THEN 0 ELSE MaxLag
    BY LateTerm DEF ClientsOK
  <2>2. bound = Lag(Cardinality(Gone'))
    BY <1>5
  <2> HIDE DEF bound
  <2>3. \A d \in Listed \cup Range(clientsBuf) : d \in Clients /\ d # c
    BY <1>1 DEF ClientsOK, ListsOK, Live
  <2>4. \A d \in Listed' : conn'[d].quiet <= conn'[d].dtHeart + oldTime' + bound
    BY <1>2, <1>4, <1>10, <2>1, <2>3
  <2>5. \A d \in Range(clientsBuf) :
              /\ conn'[d].dtHeart = 0
              /\ conn'[d].quiet <= oldTime' + IF pc' = "time" THEN 0 ELSE MaxLag
    BY <1>0, <1>2, <1>10, <2>1, <2>3
  <2>6. /\ conn'[c].dtHeart = 0
        /\ conn'[c].quiet <= oldTime' + IF pc' = "time" THEN 0 ELSE MaxLag
    BY <1>3, <1>10
  <2>7. QED
    BY <1>7, <2>2, <2>4, <2>5, <2>6, LateNext
<1>13. QED
  BY <1>4, <1>5, <1>8, <1>9, <1>10, <1>11, <1>12 DEF ClientsOK

\* The clock and the silence of the clients go on together.
LEMMA TickKeeps ==
  ASSUME ClientsOK, Outside(Tick)
  PROVE  ClientsOK' /\ Listed' = Listed /\ Gone' = Gone /\ Live' = Live
<1>0. /\ conn \in [Clients -> Conns] /\ UNCHANGED <<clients, clientsBuf, pc>>
      /\ oldTime < MaxLag /\ oldTime' = oldTime + 1
      /\ conn' = [c \in Clients |-> IF c \in Live /\ conn[c].quiet < MaxQuiet
                                  THEN [conn[c] EXCEPT !.quiet = @ + 1] ELSE conn[c]]
  BY DEF ClientsOK, ConnsOK, Outside, Tick, listVars
<1>1. MaxQuiet \in Nat /\ oldTime \in Nat /\ oldTime <= MaxLag /\ MaxLag \in Nat
  BY Numbers DEF ClientsOK, MaxQuiet
<1>2. ASSUME NEW c \in Clients
      PROVE  /\ conn'[c] \in Conns /\ ConnOK(c, conn'[c])
             /\ conn'[c].peer = conn[c].peer /\ conn'[c].dtHeart = conn[c].dtHeart
             /\ conn'[c].quiet = IF c \in Live /\ conn[c].quiet < MaxQuiet
                                   THEN conn[c].quiet + 1 ELSE conn[c].quiet
  <2>1. conn[c] \in Conns /\ ConnOK(c, conn[c]) /\ conn[c].quiet \in Nat
    BY <1>0, ConnTypes DEF ClientsOK, ConnsOK
  <2>2. CASE c \in Live /\ conn[c].quiet < MaxQuiet
    <3>1. conn'[c] = [conn[c] EXCEPT !.quiet = @ + 1]
      BY <1>0, <2>2
    <3>2. conn[c].quiet + 1 \in Nat /\ conn[c].quiet + 1 <= MaxQuiet
      BY <1>1, <2>1, <2>2
    <3>3. conn[c].peer \notin {"away", "deleted"}
      BY <2>2 DEF Live
    <3>4. QED
      BY <2>1, <2>2, <3>1, <3>2, <3>3 DEF Conns, ConnOK
  <2>3. CASE ~(c \in Live /\ conn[c].quiet < MaxQuiet)
    <3>1. conn'[c] = conn[c]
      BY <1>0, <2>3
    <3>2. QED
      BY <2>1, <2>3, <3>1
  <2>4. QED
    BY <2>2, <2>3
<1>3. ConnsOK'
  BY <1>0, <1>2 DEF ConnsOK
<1>4. Listed' = Listed /\ Gone' = Gone /\ Live' = Live
  <2>1. Gone' = Gone
    BY <1>2 DEF Gone
  <2>2. Live' = Live
    BY <1>2 DEF Live
  <2>3. QED
    BY <1>0, <2>1, <2>2 DEF Listed
<1>5. ListsOK'
  BY <1>0, <1>4 DEF ClientsOK, ListsOK
<1>6. \A c \in Clients : conn[c].quiet \in Nat /\ conn[c].dtHeart \in Nat /\ conn[c].quiet <= MaxQuiet
  BY <1>0, ConnTypes DEF ClientsOK, ConnsOK, ConnOK
<1>7. EarlyOK'
  <2> SUFFICES ASSUME NEW c \in Clients
               PROVE  \/ conn'[c].quiet = MaxQuiet
                      \/ conn'[c].dtHeart + oldTime' <= conn'[c].quiet + MaxLag
    BY DEF EarlyOK
  <2>1. \/ conn[c].quiet = MaxQuiet
        \/ conn[c].dtHeart + oldTime <= conn[c].quiet + MaxLag
    BY DEF ClientsOK, EarlyOK
  <2>2. CASE c \in Live
    BY <1>0, <1>1, <1>2, <1>6, <2>1, <2>2
  <2>3. CASE c \notin Live
    <3>1. conn[c].dtHeart = 0 /\ conn[c].quiet = 0
      BY <2>3 DEF Live, ClientsOK, ConnsOK, ConnOK
    <3>2. QED
      BY <1>0, <1>1, <1>2, <2>3, <3>1
  <2>4. QED
    BY <2>2, <2>3
<1>8. LateOK'
  <2> DEFINE bound == Lag(Cardinality(Gone))
  <2>1. /\ \A d \in Listed : conn[d].quiet <= conn[d].dtHeart + oldTime + bound
        /\ \A d \in Range(clientsBuf) :
              /\ conn[d].dtHeart = 0
              /\ conn[d].quiet <= oldTime + IF pc = "time" THEN 0 ELSE MaxLag
    BY LateTerm DEF ClientsOK
  <2>2. bound = Lag(Cardinality(Gone')) /\ bound \in Nat
    BY <1>4, LagFacts, GoneFacts
  <2> HIDE DEF bound
  <2>3. \A d \in Listed \cup Range(clientsBuf) : d \in Clients
    BY DEF ClientsOK, ListsOK, Live
  <2>4. ASSUME NEW d \in Listed PROVE conn'[d].quiet <= conn'[d].dtHeart + oldTime' + bound
    BY <1>0, <1>1, <1>2, <1>6, <2>1, <2>2, <2>3
  <2>5. ASSUME NEW d \in Range(clientsBuf)
        PROVE  /\ conn'[d].dtHeart = 0
               /\ conn'[d].quiet <= oldTime' + IF pc' = "time" THEN 0 ELSE MaxLag
    <3>1. d \in Clients /\ conn'[d].dtHeart = 0
      BY <1>2, <2>1, <2>3
    <3>2. conn'[d].quiet <= conn[d].quiet + 1 /\ conn[d].quiet \in Nat /\ conn'[d].quiet \in Nat
      BY <1>2, <1>6, <3>1
    <3>3. QED
      BY <1>0, <1>1, <2>1, <3>1, <3>2
  <2>6. QED
    BY <1>0, <1>4, <2>2, <2>4, <2>5, LateNext
<1>9. QED
  BY <1>0, <1>1, <1>3, <1>4, <1>5, <1>7, <1>8 DEF ClientsOK

\* The new clients move over; their hearts start with the time of this round.
LEMMA JoinKeeps ==
  ASSUME ClientsOK, JoinClients
  PROVE  ClientsOK' /\ Listed' = Listed \cup Range(clientsBuf) /\ Gone' = Gone
<1>0. /\ pc = "loop" /\ clients' = clients \o clientsBuf /\ clientsBuf' = <<>> /\ conn' = conn
      /\ oldTime' = IF clients' = <<>> THEN 0 ELSE oldTime
  BY DEF JoinClients, MoveClients, IdleOrGoOn
<1>1. /\ clients' \in Seq(Clients) /\ IsInjective(clients')
      /\ Range(clients') = Range(clients) \cup Range(clientsBuf)
  BY <1>0, ConcatFacts DEF ClientsOK, ListsOK, Listed
<1>2. /\ clientsBuf' \in Seq(Clients) /\ IsInjective(clientsBuf') /\ Range(clientsBuf') = {}
  BY <1>0 DEF IsInjective, Range
<1>3. Listed' = Listed \cup Range(clientsBuf) /\ Gone' = Gone /\ Live' = Live
  BY <1>0, <1>1 DEF Listed, Gone, Live
<1>4. ConnsOK'
  BY <1>0 DEF ClientsOK, ConnsOK
<1>5. ListsOK'
  BY <1>1, <1>2, <1>3 DEF ClientsOK, ListsOK
<1>6. /\ oldTime \in Nat /\ oldTime <= MaxLag /\ MaxLag \in Nat
      /\ oldTime' \in Nat /\ oldTime' <= oldTime
  BY <1>0, Numbers DEF ClientsOK
<1>7. \A c \in Clients : conn[c].quiet \in Nat /\ conn[c].dtHeart \in Nat
  BY ConnTypes DEF ClientsOK, ConnsOK
<1>8. EarlyOK'
  <2> SUFFICES ASSUME NEW c \in Clients
               PROVE  \/ conn[c].quiet = MaxQuiet
                      \/ conn[c].dtHeart + oldTime' <= conn[c].quiet + MaxLag
    BY <1>0 DEF EarlyOK
  <2>1. QED
    BY <1>6, <1>7 DEF ClientsOK, EarlyOK
<1>9. LateOK'
  <2> DEFINE bound == Lag(Cardinality(Gone))
  <2>1. /\ \A d \in Listed : conn[d].quiet <= conn[d].dtHeart + oldTime + bound
        /\ \A d \in Range(clientsBuf) :
              /\ conn[d].dtHeart = 0
              /\ conn[d].quiet <= oldTime + IF pc = "time" THEN 0 ELSE MaxLag
    BY LateTerm DEF ClientsOK
  <2>2. bound = Lag(Cardinality(Gone')) /\ bound \in Nat /\ MaxLag <= bound
    BY <1>3, LagFacts, GoneFacts
  <2> HIDE DEF bound
  <2>3. \A d \in Listed \cup Range(clientsBuf) : d \in Clients
    BY DEF ClientsOK, ListsOK, Live
  <2>4. ASSUME NEW d \in Listed' PROVE conn'[d].quiet <= conn'[d].dtHeart + oldTime' + bound
    <3>1. clients' # <<>>
      BY <2>4 DEF Listed, Range
    <3>2. oldTime' = oldTime
      BY <1>0, <3>1
    <3>3. d \in Clients
      BY <1>3, <2>3
    <3>4. CASE d \in Listed
      BY <1>0, <2>1, <3>2, <3>4
    <3>5. CASE d \in Range(clientsBuf)
      <4>1. conn[d].dtHeart = 0 /\ conn[d].quiet <= oldTime + MaxLag
        BY <1>0, <2>1, <3>5
      <4>2. QED
        BY <1>0, <1>6, <1>7, <2>2, <3>2, <3>3, <4>1
    <3>6. QED
      BY <1>3, <3>4, <3>5
  <2>5. QED
    BY <1>2, <2>2, <2>4, LateNext
<1>10. QED
  BY <1>3, <1>4, <1>5, <1>6, <1>8, <1>9 DEF ClientsOK

\* What CheckTime does to each client.
LEMMA CheckTimeFacts ==
  ASSUME ClientsOK, CheckTime
  PROVE  LET gone == {c \in Visited : IsDead(c)}
         IN /\ gone \subseteq Listed /\ Visited \subseteq Listed /\ Listed \subseteq Clients
            /\ Listed' = Listed \ gone /\ Gone' = Gone \cup gone
            /\ clients' \in Seq(Clients) /\ IsInjective(clients')
            /\ conn' \in [Clients -> Conns]
            /\ \A c \in Clients : ConnOK(c, conn'[c])
            /\ \A c \in gone : conn'[c] = Deleted
            /\ \A c \in Clients \ gone :
                 /\ conn'[c].peer = conn[c].peer /\ conn'[c].quiet = conn[c].quiet
                 /\ conn'[c].dtHeart = IF c \in Visited THEN conn[c].dtHeart + oldTime
                                                        ELSE conn[c].dtHeart
            /\ \A c \in Visited \ gone : conn[c].dtHeart + oldTime < Death
<1> DEFINE gone == {c \in Visited : IsDead(c)}
           rest == [c \in Clients |-> IF c \in Visited THEN [conn[c] EXCEPT !.dtHeart = @ + oldTime]
                                                       ELSE conn[c]]
<1>0. /\ conn \in [Clients -> Conns] /\ \A c \in Clients : ConnOK(c, conn[c])
      /\ clients \in Seq(Clients) /\ IsInjective(clients)
      /\ oldTime \in Nat /\ Death \in Nat
  BY Numbers DEF ClientsOK, ConnsOK, ListsOK
<1>1. /\ conn' = [c \in Clients |-> IF c \in gone THEN Deleted ELSE rest[c]]
      /\ clients' = Erase(clients, gone)
  BY DEF CheckTime, OnClientLeave
<1>2. Visited \subseteq Listed /\ gone \subseteq Visited /\ Listed \subseteq Clients /\ Listed \subseteq Live
  BY DEF Visited, Listed, Range, ClientsOK, ListsOK, Live
<1>3. clients' \in Seq(Clients) /\ IsInjective(clients') /\ Range(clients') = Range(clients) \ gone
  BY <1>0, <1>1, EraseFacts
<1>4. \A c \in Visited \ gone : conn[c].dtHeart + oldTime < Death
  <2> TAKE c \in Visited \ gone
  <2>1. conn[c].dtHeart \in Nat
    BY <1>0, <1>2, ConnTypes
  <2>2. QED
    BY <1>0, <2>1 DEF IsDead
<1>5. ASSUME NEW c \in Clients \ gone
      PROVE  /\ conn'[c] \in Conns /\ ConnOK(c, conn'[c])
             /\ conn'[c].peer = conn[c].peer /\ conn'[c].quiet = conn[c].quiet
             /\ conn'[c].dtHeart = IF c \in Visited THEN conn[c].dtHeart + oldTime
                                                    ELSE conn[c].dtHeart
  <2>1. conn[c] \in Conns /\ ConnOK(c, conn[c]) /\ conn[c].dtHeart \in Nat
    BY <1>0, ConnTypes
  <2>2. CASE c \in Visited
    <3>1. conn'[c] = [conn[c] EXCEPT !.dtHeart = @ + oldTime]
      BY <1>1, <2>2
    <3>2. conn[c].dtHeart + oldTime \in Nat /\ conn[c].dtHeart + oldTime < Death
      BY <1>0, <1>4, <2>1, <2>2
    <3>3. conn[c].peer \notin {"away", "deleted"}
      BY <1>2, <2>2 DEF Live
    <3>4. QED
      BY <2>1, <2>2, <3>1, <3>2, <3>3 DEF Conns, ConnOK
  <2>3. CASE c \notin Visited
    <3>1. conn'[c] = conn[c]
      BY <1>1, <2>3
    <3>2. QED
      BY <2>1, <2>3, <3>1
  <2>4. QED
    BY <2>2, <2>3
<1>6. \A c \in gone : conn'[c] = Deleted
  BY <1>1, <1>2
<1> HIDE DEF gone, rest
<1>7. conn' \in [Clients -> Conns] /\ \A c \in Clients : ConnOK(c, conn'[c])
  <2>1. \A c \in Clients : conn'[c] \in Conns /\ ConnOK(c, conn'[c])
    BY <1>5, <1>6, NewOK
  <2>2. QED
    BY <1>1, <2>1
<1>8. Gone' = Gone \cup gone
  <2>1. \A c \in Clients : conn'[c].peer = "deleted" <=> (conn[c].peer = "deleted" \/ c \in gone)
    BY <1>5, <1>6, NewOK
  <2>2. QED
    BY <1>2, <2>1 DEF Gone
<1>9. Listed' = Listed \ gone
  BY <1>3 DEF Listed
<1>10. QED
  BY <1>2, <1>3, <1>4, <1>5, <1>6, <1>7, <1>8, <1>9 DEF gone

\* Whom CheckTime passes over is paid for by one that it deletes.
LEMMA CheckTimeKeeps ==
  ASSUME ClientsOK, CheckTime
  PROVE  ClientsOK'
<1> DEFINE gone == {c \in Visited : IsDead(c)}
<1>1. /\ gone \subseteq Listed /\ Visited \subseteq Listed /\ Listed \subseteq Clients
      /\ Listed' = Listed \ gone /\ Gone' = Gone \cup gone
      /\ clients' \in Seq(Clients) /\ IsInjective(clients')
      /\ conn' \in [Clients -> Conns]
      /\ \A c \in Clients : ConnOK(c, conn'[c])
      /\ \A c \in gone : conn'[c] = Deleted
      /\ \A c \in Clients \ gone :
           /\ conn'[c].peer = conn[c].peer /\ conn'[c].quiet = conn[c].quiet
           /\ conn'[c].dtHeart = IF c \in Visited THEN conn[c].dtHeart + oldTime
                                                  ELSE conn[c].dtHeart
  BY CheckTimeFacts
<1>2. pc = "time" /\ pc' = "sets" /\ oldTime' = 0 /\ clientsBuf' = clientsBuf
  BY DEF CheckTime, Goes
<1>3. \A c \in Listed : c \notin Visited => gone # {}
  BY Skipped DEF ClientsOK
<1> HIDE DEF gone
<1>4. oldTime \in Nat /\ oldTime <= MaxLag /\ MaxLag \in Nat
  BY Numbers DEF ClientsOK
<1>5. ConnsOK'
  BY <1>1 DEF ConnsOK
<1>6. Range(clientsBuf)' = Range(clientsBuf) /\ Range(clientsBuf) \cap gone = {}
      /\ Range(clientsBuf) \subseteq Clients /\ Range(clientsBuf) \cup Listed \subseteq Live
  BY <1>1, <1>2 DEF ClientsOK, ListsOK, Live
<1>7. ListsOK'
  <2>1. Listed' \cup Range(clientsBuf)' \subseteq Live'
    BY <1>1, <1>6 DEF Live
  <2>2. QED
    BY <1>1, <1>2, <1>6, <2>1 DEF ClientsOK, ListsOK
<1>8. \A c \in Clients : conn[c].quiet \in Nat /\ conn[c].dtHeart \in Nat
  BY ConnTypes DEF ClientsOK, ConnsOK
<1>9. EarlyOK'
  <2> SUFFICES ASSUME NEW c \in Clients
               PROVE  \/ conn'[c].quiet = MaxQuiet
                      \/ conn'[c].dtHeart + oldTime' <= conn'[c].quiet + MaxLag
    BY DEF EarlyOK
  <2>1. \/ conn[c].quiet = MaxQuiet
        \/ conn[c].dtHeart + oldTime <= conn[c].quiet + MaxLag
    BY DEF ClientsOK, EarlyOK
  <2>2. CASE c \in gone
    BY <1>1, <1>2, <1>4, <2>2, NewOK
  <2>3. CASE c \notin gone
    <3>1. conn'[c].quiet = conn[c].quiet /\ conn'[c].dtHeart <= conn[c].dtHeart + oldTime
          /\ conn'[c].dtHeart \in Nat
      BY <1>1, <1>4, <1>8, <2>3
    <3>2. QED
      BY <1>2, <1>4, <1>8, <2>1, <3>1
  <2>4. QED
    BY <2>2, <2>3
<1>10. LateOK'
  <2> DEFINE bound == Lag(Cardinality(Gone))
             new == Lag(Cardinality(Gone'))
  <2>1. /\ \A d \in Listed : conn[d].quiet <= conn[d].dtHeart + oldTime + bound
        /\ \A d \in Range(clientsBuf) :
              /\ conn[d].dtHeart = 0
              /\ conn[d].quiet <= oldTime + IF pc = "time" THEN 0 ELSE MaxLag
    BY LateTerm DEF ClientsOK
  <2>2. bound <= new /\ bound \in Nat /\ new \in Nat
    BY <1>1, LagFacts, GoneFacts
  <2>3. gone # {} => bound + MaxLag <= new
    <3> SUFFICES ASSUME gone # {} PROVE bound + MaxLag <= new
      OBVIOUS
    <3>1. Gone \subseteq Gone' /\ Gone # Gone'
      BY <1>1, <1>6 DEF Gone, Live
    <3>2. Cardinality(Gone) + 1 <= Cardinality(Gone') /\ Cardinality(Gone) \in Nat
          /\ Cardinality(Gone') \in Nat
      BY <3>1, GoneFacts
    <3>3. Lag(Cardinality(Gone) + 1) <= Lag(Cardinality(Gone'))
      BY <3>2, LagFacts
    <3>4. QED
      BY <3>2, <3>3, LagFacts
  <2>4. new = Lag(Cardinality(Gone'))
    OBVIOUS
  <2> HIDE DEF bound, new
  <2>5. ASSUME NEW d \in Listed' PROVE conn'[d].quiet <= conn'[d].dtHeart + oldTime' + new
    <3>1. d \in Listed /\ d \in Clients /\ d \notin gone
      BY <1>1
    <3>2. conn[d].quiet <= conn[d].dtHeart + oldTime + bound
      BY <2>1, <3>1
    <3>3. CASE d \in Visited
      BY <1>1, <1>2, <1>4, <1>8, <2>2, <3>1, <3>2, <3>3
    <3>4. CASE d \notin Visited
      <4>1. bound + MaxLag <= new
        BY <1>3, <2>3, <3>1, <3>4
      <4>2. conn'[d].quiet = conn[d].quiet /\ conn'[d].dtHeart = conn[d].dtHeart
        BY <1>1, <3>1, <3>4
      <4>3. QED
        BY <1>2, <1>4, <1>8, <2>2, <3>1, <3>2, <4>1, <4>2
    <3>5. QED
      BY <3>3, <3>4
  <2>6. ASSUME NEW d \in Range(clientsBuf)
        PROVE  /\ conn'[d].dtHeart = 0
               /\ conn'[d].quiet <= oldTime' + IF pc' = "time" THEN 0 ELSE MaxLag
    <3>1. d \in Clients /\ d \notin gone /\ d \notin Visited
      BY <1>1, <1>6 DEF ClientsOK, ListsOK
    <3>2. conn'[d].dtHeart = 0 /\ conn'[d].quiet = conn[d].quiet /\ conn[d].quiet <= oldTime + 0
      BY <1>1, <1>2, <2>1, <3>1
    <3>3. QED
      BY <1>2, <1>4, <1>8, <3>1, <3>2
  <2>7. QED
    BY <1>6, <2>4, <2>5, <2>6, LateNext
<1>11. QED
  BY <1>2, <1>4, <1>5, <1>7, <1>9, <1>10 DEF ClientsOK

\* After CleanClients there is nobody in the lists.
LEMMA CleanKeeps ==
  ASSUME ClientsOK, CleanClients
  PROVE  ClientsOK' /\ Gone \subseteq Gone'
<1> DEFINE gone == Listed \cup Range(clientsBuf)
<1>0. /\ conn \in [Clients -> Conns] /\ oldTime' = oldTime /\ clients' = <<>> /\ clientsBuf' = <<>>
      /\ conn' = [c \in Clients |-> IF c \in gone THEN Deleted ELSE conn[c]]
  BY DEF ClientsOK, ConnsOK, CleanClients
<1> HIDE DEF gone
<1>1. \A c \in Clients : conn'[c] = Deleted \/ conn'[c] = conn[c]
  BY <1>0
<1>2. ConnsOK'
  BY <1>0, <1>1, NewOK DEF ClientsOK, ConnsOK
<1>3. Gone \subseteq Gone'
  BY <1>1, NewOK DEF Gone
<1>4. Listed' = {} /\ Range(clientsBuf)' = {}
  BY <1>0 DEF Listed, Range
<1>5. ListsOK'
  BY <1>0, <1>4 DEF ListsOK, IsInjective
<1>6. oldTime \in Nat /\ oldTime <= MaxLag /\ MaxLag \in Nat
  BY Numbers DEF ClientsOK
<1>7. EarlyOK'
  BY <1>0, <1>1, <1>6, NewOK DEF ClientsOK, EarlyOK
<1>8. LateOK'
  BY <1>4 DEF LateOK
<1>9. QED
  BY <1>0, <1>2, <1>3, <1>5, <1>7, <1>8 DEF ClientsOK


\* Who is not in front of a later position is behind it.
LEMMA Behind ==
  ASSUME NEW a \in Nat, NEW b \in Nat, NEW m \in Nat, NEW i \in a..m, i \notin a..(b - 1)
  PROVE  i \in b..m
OBVIOUS

\* Who is in front of b and not just in front of it is in front of b - 1.
LEMMA Between ==
  ASSUME NEW a \in Nat, NEW b \in Nat, NEW i \in a..(b - 1), i # b - 1
  PROVE  i \in a..(b - 2)
OBVIOUS

-----------------------------------------------------------------------------
(* What the round will still come to.                                      *)

Running == pc \notin {"exit", "clean", "ended", "crashed"}

\* The invariant in the two parts that are proved apart.
LEMMA Split ==
  IInv <=> ShapeOK /\ ClientsOK /\ WatchOK /\ EventsOK /\ LeftOK /\ DueOK
BY DEF IInv, ClientsOK, ShapeOK
\* The same in the next state.
LEMMA SplitNext ==
  IInv' <=> ShapeOK' /\ ClientsOK' /\ WatchOK' /\ EventsOK' /\ LeftOK' /\ DueOK'
BY DEF IInv, ClientsOK, ShapeOK

\* Whatever could be done either is done or is still to come.
LEMMA DueGoesOn ==
  ASSUME ShapeOK, DueOK, Running, MayMiss' = MayMiss, due' \subseteq due,
         \A d \in due' : Follows(d) => Follows(d)'
  PROVE  DueOK'
<1>1. PICK S \in SUBSET Clients : /\ Cardinality(S) <= MayMiss
                                  /\ \A d \in due : d[1] \in S \/ Follows(d)
  BY DEF DueOK, Running
<1>2. \A d \in due' : d[1] \in S \/ Follows(d)'
  BY <1>1
<1>3. QED
  BY <1>1, <1>2 DEF DueOK

\* The same for a step that passes over one client, because one has left.
LEMMA DuePasses ==
  ASSUME ShapeOK, DueOK, Running, kind = "select", kind' = kind, left' = left + 1,
         due' \subseteq due, NEW x,
         \A d \in due' : d[1] # x => (Follows(d) => Follows(d)')
  PROVE  DueOK'
<1>1. PICK S \in SUBSET Clients : /\ Cardinality(S) <= MayMiss
                                  /\ \A d \in due : d[1] \in S \/ Follows(d)
  BY DEF DueOK, Running
<1>2. IsFiniteSet(S) /\ Cardinality(S) \in Nat
  BY FiniteClients
<1>3. MayMiss = left /\ MayMiss' = left + 1 /\ left \in Nat
  BY DEF MayMiss, ShapeOK
<1> DEFINE T == (S \cup {x}) \cap Clients
<1>4. T \in SUBSET Clients /\ Cardinality(T) <= Cardinality(S) + 1
  <2>1. IsFiniteSet(S \cup {x}) /\ Cardinality(S \cup {x}) <= Cardinality(S) + 1
    BY <1>2, FS_AddElement
  <2>2. Cardinality(T) <= Cardinality(S \cup {x})
    BY <2>1, FS_Subset
  <2>3. Cardinality(S \cup {x}) \in Nat /\ Cardinality(T) \in Nat
    BY <2>1, FS_CardinalityType, FiniteClients
  <2>4. QED
    BY <1>2, <2>1, <2>2, <2>3
<1>5. Cardinality(T) \in Nat
  BY FiniteClients
<1>6. Cardinality(T) <= MayMiss'
  BY <1>1, <1>2, <1>3, <1>4, <1>5
<1>7. \A d \in due' : d[1] \in T \/ Follows(d)'
  <2> TAKE d \in due'
  <2>1. d \in due /\ d[1] \in Clients
    BY DEF ShapeOK
  <2>2. QED
    BY <1>1, <2>1
<1> HIDE DEF T
<1>8. QED
  BY <1>4, <1>6, <1>7 DEF DueOK

\* Nothing is expected of a worker that is not in the second half of its round.
LEMMA NothingFollows ==
  ASSUME pc \in {"loop", "time", "sets", "wait"}, NEW d
  PROVE  ~Follows(d)
BY DEF Follows, Handles, Replies

-----------------------------------------------------------------------------
(* The steps of the others.                                                *)

\* They touch no more than connections, the list of new clients, _bRun and the
\* clock, take no bytes that have come and give no client away.
LEMMA OutsideKeeps ==
  ASSUME IInv, ClientsOK', Listed' = Listed, Gone' = Gone,
         bRun' \in BOOLEAN,
         UNCHANGED <<kind, pc, clients, clientChange, watchVars, waitVars, dueVars>>,
         \A c \in Clients : /\ conn'[c].recvBuf = conn[c].recvBuf
                            /\ conn'[c].sendBuf = conn[c].sendBuf
                            /\ conn'[c].rx >= conn[c].rx
  PROVE  IInv'
<1>0. ShapeOK /\ ClientsOK /\ WatchOK /\ EventsOK /\ LeftOK /\ DueOK
  BY Split
<1>1. ShapeOK'
  BY <1>0 DEF ShapeOK, ClientsOK, watchVars, waitVars, dueVars
<1>2. WatchOK'
  BY <1>0 DEF WatchOK, watchVars
<1>3. Listed \subseteq Clients
  BY <1>0 DEF ClientsOK, ListsOK, Live
<1>4. EventsOK'
  BY <1>0, <1>3 DEF EventsOK, waitVars
<1>5. LeftOK'
  BY <1>0 DEF LeftOK, dueVars
<1>6. ASSUME NEW c, Handles(c) PROVE Handles(c)'
  <2>1. /\ c \in Clients /\ conn[c].recvBuf \in Nat /\ conn[c].rx \in Nat /\ conn'[c].rx \in Nat
        /\ MsgLen \in Nat
    BY <1>0, <1>3, <1>6, ConnTypes, Numbers DEF Handles, ClientsOK, ConnsOK
  <2>2. HasMsg(c) => HasMsg(c)'
    BY <2>1 DEF HasMsg
  <2>3. conn[c].recvBuf + conn[c].rx >= MsgLen => conn'[c].recvBuf + conn'[c].rx >= MsgLen
    BY <2>1
  <2>4. Ahead(c)' = Ahead(c)
    BY DEF Ahead, waitVars
  <2>5. QED
    BY <1>6, <2>2, <2>3, <2>4 DEF Handles, waitVars
<1>7. ASSUME NEW c, Replies(c) PROVE Replies(c)'
  BY <1>7 DEF Replies, Ahead, waitVars
<1>8. \A d \in due' : Follows(d) => Follows(d)'
  BY <1>6, <1>7 DEF Follows
<1>9. DueOK'
  <2>1. CASE Running
    BY <1>0, <1>8, <2>1, DueGoesOn DEF MayMiss, dueVars
  <2>2. CASE ~Running
    BY <2>2 DEF DueOK, Running
  <2>3. QED
    BY <2>1, <2>2
<1>10. QED
  BY <1>1, <1>2, <1>4, <1>5, <1>9, SplitNext DEF ClientsOK


\* Each step of the accept thread, the peers, the clock and the owner is such a step.
LEMMA EnvironmentKeeps ==
  ASSUME IInv, Environment
  PROVE  IInv'
<1>0. ShapeOK /\ ClientsOK /\ conn \in [Clients -> Conns] /\ \A c \in Clients : ConnOK(c, conn[c])
  BY Split DEF ClientsOK, ConnsOK
<1>1. \A c \in Clients : /\ conn[c].recvBuf \in Nat /\ conn[c].rx \in Nat /\ conn[c].sendBuf \in Nat
                         /\ conn[c].sent \in Nat /\ conn[c].tx \in Nat
  BY <1>0, ConnTypes
<1>2. ASSUME NEW c \in Clients, Outside(Connect(c)) PROVE IInv'
  <2>1. ClientsOK' /\ Listed' = Listed /\ Gone' = Gone
    BY <1>0, <1>2, ConnectKeeps
  <2>2. conn' = [conn EXCEPT ![c].peer = "open"] /\ bRun' = bRun
    BY <1>2 DEF Outside, Connect
  <2>3. \A d \in Clients : /\ conn'[d].recvBuf = conn[d].recvBuf
                           /\ conn'[d].sendBuf = conn[d].sendBuf
                           /\ conn'[d].rx = conn[d].rx
    BY <1>0, <2>2 DEF Conns
  <2>4. /\ UNCHANGED <<kind, pc, clients, clientChange, watchVars, waitVars, dueVars>>
        /\ bRun' \in BOOLEAN
    BY <1>0, <1>2, <2>2 DEF Outside, Connect, ShapeOK
  <2>5. \A d \in Clients : conn'[d].rx >= conn[d].rx
    BY <1>1, <2>3
  <2>6. QED
    BY <2>1, <2>3, <2>4, <2>5, OutsideKeeps
<1>3. ASSUME NEW c \in Clients, Outside(PeerSends(c) \/ PeerReads(c) \/ PeerFails(c)) PROVE IInv'
  <2> DEFINE r == conn'[c]
  <2>0. conn[c] \in Conns /\ ConnOK(c, conn[c])
    BY <1>0
  <2>1. /\ UNCHANGED <<kind, pc, bRun, clients, clientsBuf, clientChange, oldTime,
                       watchVars, waitVars, dueVars>>
        /\ conn[c].peer \notin {"away", "deleted"}
    BY <1>3 DEF Outside, PeerSends, PeerReads, PeerFails, listVars
  <2>2. /\ conn' = [conn EXCEPT ![c] = r] /\ r \in Conns /\ ConnOK(c, r)
        /\ r.peer \notin {"away", "deleted"}
        /\ r.dtHeart = conn[c].dtHeart /\ r.quiet = conn[c].quiet
        /\ r.recvBuf = conn[c].recvBuf /\ r.sendBuf = conn[c].sendBuf
        /\ r.rx >= conn[c].rx
    <3>1. CASE PeerSends(c)
      <4>1. r = [conn[c] EXCEPT !.sent = @ + 1, !.rx = @ + 1] /\ conn[c].peer = "open"
            /\ conn[c].sent < MaxSent[c] /\ conn' = [conn EXCEPT ![c] = r]
        BY <1>0, <3>1 DEF PeerSends
      <4>2. MaxSent[c] \in Nat
        BY Numbers
      <4>3. /\ conn[c].sent + 1 \in Nat /\ conn[c].rx + 1 \in Nat
            /\ conn[c].sent + 1 <= MaxSent[c] /\ conn[c].rx + 1 <= conn[c].sent + 1
        BY <1>1, <2>0, <4>1, <4>2 DEF ConnOK
      <4>4. r.rx = conn[c].rx + 1 /\ r.sent = conn[c].sent + 1 /\ r \in Conns
        BY <2>0, <4>1, <4>3 DEF Conns
      <4>5. ConnOK(c, r)
        BY <2>0, <4>1, <4>3, <4>4 DEF ConnOK, Conns
      <4>6. r.rx >= conn[c].rx
        BY <1>1, <4>4
      <4>7. QED
        BY <2>0, <4>1, <4>4, <4>5, <4>6 DEF Conns
    <3>2. CASE PeerReads(c)
      <4>1. r = [conn[c] EXCEPT !.tx = 0] /\ conn' = [conn EXCEPT ![c] = r]
            /\ conn[c].peer \in {"open", "fin"}
        BY <1>0, <3>2 DEF PeerReads
      <4>2. r \in Conns /\ r.tx = 0 /\ r.sent = conn[c].sent /\ r.rx = conn[c].rx
            /\ r.recvBuf = conn[c].recvBuf /\ r.sendBuf = conn[c].sendBuf
            /\ r.dtHeart = conn[c].dtHeart /\ r.quiet = conn[c].quiet /\ r.peer = conn[c].peer
        BY <2>0, <4>1 DEF Conns
      <4>3. 0 <= TxCap /\ r.rx >= conn[c].rx
        BY <1>1, <4>2, Numbers
      <4>4. ConnOK(c, r)
        BY <2>0, <4>2, <4>3 DEF ConnOK
      <4>5. QED
        BY <4>1, <4>2, <4>3, <4>4
    <3>3. CASE PeerFails(c)
      <4>1. PICK p \in {"fin", "stalled", "reset"} : conn' = [conn EXCEPT ![c].peer = p]
        BY <3>3 DEF PeerFails
      <4>2. r = [conn[c] EXCEPT !.peer = p] /\ conn' = [conn EXCEPT ![c] = r]
        BY <1>0, <4>1
      <4>3. p \in Peers /\ p \notin {"away", "deleted"}
        BY <4>1 DEF Peers
      <4>4. r \in Conns /\ r.peer = p
        BY <2>0, <4>2, <4>3 DEF Conns
      <4>5. ConnOK(c, r)
        BY <2>0, <4>2, <4>3, <4>4 DEF Conns, ConnOK
      <4>6. r.rx >= conn[c].rx
        BY <1>1, <2>0, <4>2 DEF Conns
      <4>7. QED
        BY <2>0, <4>2, <4>3, <4>4, <4>5, <4>6 DEF Conns
    <3>4. QED
      BY <1>3, <3>1, <3>2, <3>3 DEF Outside
  <2> HIDE DEF r
  <2>3. Becomes(c, r)
    BY <2>1, <2>2 DEF Becomes, NoTime, Live
  <2>4. ClientsOK' /\ Listed' = Listed /\ Gone' = Gone
    BY <1>0, <2>3, BecomesKeeps
  <2>5. \A d \in Clients : /\ conn'[d].recvBuf = conn[d].recvBuf
                           /\ conn'[d].sendBuf = conn[d].sendBuf
                           /\ conn'[d].rx >= conn[d].rx
    <3> TAKE d \in Clients
    <3>1. CASE d = c
      BY <2>2, <3>1 DEF r
    <3>2. CASE d # c
      BY <1>0, <1>1, <2>2, <3>2
    <3>3. QED
      BY <3>1, <3>2
  <2>6. bRun' \in BOOLEAN
    BY <1>0, <2>1 DEF ShapeOK
  <2>7. QED
    BY <2>1, <2>4, <2>5, <2>6, OutsideKeeps
<1>4. ASSUME Outside(Tick) PROVE IInv'
  <2>1. ClientsOK' /\ Listed' = Listed /\ Gone' = Gone
    BY <1>0, <1>4, TickKeeps
  <2>2. conn' = [c \in Clients |-> IF c \in Live /\ conn[c].quiet < MaxQuiet
                                   THEN [conn[c] EXCEPT !.quiet = @ + 1] ELSE conn[c]]
        /\ bRun' = bRun
    BY <1>4 DEF Outside, Tick
  <2>3. \A d \in Clients : /\ conn'[d].recvBuf = conn[d].recvBuf
                           /\ conn'[d].sendBuf = conn[d].sendBuf
                           /\ conn'[d].rx = conn[d].rx
    BY <1>0, <2>2 DEF Conns
  <2>4. /\ UNCHANGED <<kind, pc, clients, clientChange, watchVars, waitVars, dueVars>>
        /\ bRun' \in BOOLEAN
    BY <1>0, <1>4, <2>2 DEF Outside, Tick, ShapeOK, listVars
  <2>5. \A d \in Clients : conn'[d].rx >= conn[d].rx
    BY <1>1, <2>3
  <2>6. QED
    BY <2>1, <2>3, <2>4, <2>5, OutsideKeeps
<1>5. ASSUME Outside(CloseThread) PROVE IInv'
  <2>1. /\ UNCHANGED <<kind, pc, conn, clients, clientsBuf, clientChange, oldTime,
                       watchVars, waitVars, dueVars>>
        /\ bRun' = FALSE
    BY <1>5 DEF Outside, CloseThread, listVars
  <2>2. ClientsOK' /\ Listed' = Listed /\ Gone' = Gone
    BY <1>0, <2>1, StillKeeps DEF Still, NoTime
  <2>3. \A d \in Clients : conn'[d].rx >= conn[d].rx
    BY <1>1, <2>1
  <2>4. QED
    BY <2>1, <2>2, <2>3, OutsideKeeps
<1>6. QED
  BY <1>2, <1>3, <1>4, <1>5 DEF Environment, Outside


-----------------------------------------------------------------------------
(* The steps of the worker that leave the clients alone.                   *)

\* The worker leaves its loop.
LEMMA LoopEndsKeeps ==
  ASSUME IInv, LoopEnds \/ WaitFails \/ Exit
  PROVE  IInv'
<1>0. ShapeOK /\ ClientsOK /\ WatchOK /\ EventsOK /\ LeftOK /\ DueOK
  BY Split
<1>1. /\ UNCHANGED <<kind, clients, clientsBuf, clientChange, conn, oldTime, watched, maxSocket,
                     readable, writable, at, sending, copied, due, left>>
      /\ pc \in {"loop", "wait", "exit"} /\ pc' \in {"exit", "clean"} /\ bRun' \in BOOLEAN
  BY <1>0 DEF LoopEnds, WaitFails, Goes, Exit, ShapeOK, listVars, watchVars, waitVars, dueVars
<1>2. ClientsOK' /\ Listed' = Listed /\ Gone' = Gone
  BY <1>0, <1>1, StillKeeps DEF Still, NoTime
<1>3. ShapeOK' /\ LeftOK'
  BY <1>0, <1>1, <1>2 DEF ShapeOK, LeftOK, Pcs
<1>4. WatchOK' /\ EventsOK'
  BY <1>0, <1>1, <1>2 DEF WatchOK, EventsOK
<1>5. DueOK'
  BY <1>1 DEF DueOK
<1>6. QED
  BY <1>2, <1>3, <1>4, <1>5, SplitNext

\* Where nobody has anything to handle or to send, the round is over.
LEMMA EndsKeep ==
  ASSUME IInv, DoMsgEnds \/ WriteEnds \/ ReadEnds \/ EventsEnd
  PROVE  IInv'
<1>0. ShapeOK /\ ClientsOK /\ WatchOK /\ EventsOK /\ LeftOK /\ DueOK
  BY Split
<1>1. /\ UNCHANGED <<kind, bRun, clients, clientsBuf, clientChange, conn, oldTime,
                     watched, maxSocket, sending, copied, due, left>>
      /\ pc \in {"msg", "write", "read", "events"} /\ pc' \in {"loop", "msg", "write"}
      /\ pc' = "write" => pc = "read"
      /\ at' \in {1, at} /\ readable' \in {readable, {}} /\ writable' \in {writable, {}}
      /\ pc # "read" => sending = 0
  BY <1>0 DEF DoMsgEnds, WriteEnds, ReadEnds, EventsEnd, Goes, EventsOK, listVars, watchVars,
              waitVars, dueVars
<1>2. ClientsOK' /\ Listed' = Listed /\ Gone' = Gone
  BY <1>0, <1>1, StillKeeps DEF Still, NoTime
<1>3. ShapeOK' /\ LeftOK'
  BY <1>0, <1>1, <1>2, Numbers DEF ShapeOK, LeftOK, Pcs
<1>4. WatchOK'
  BY <1>0, <1>1, <1>2 DEF WatchOK
<1>5. sending = 0
  BY <1>0, <1>1 DEF EventsOK
<1>6. EventsOK'
  BY <1>0, <1>1, <1>5 DEF EventsOK
<1>7. MayMiss' = MayMiss /\ Running
  BY <1>1 DEF MayMiss, Running
<1>8. \A c : HasMsg(c)' = HasMsg(c)
  BY <1>1 DEF HasMsg
<1>9. ASSUME DoMsgEnds PROVE \A d : ~Follows(d)
  BY <1>9 DEF DoMsgEnds, Goes, Follows, Handles, Replies
<1>10. ASSUME WriteEnds, NEW d, Follows(d) PROVE Follows(d)'
  <2>1. pc = "write" /\ pc' = "msg" /\ \A n \in at..Len(clients) : clients[n] \notin writable
    BY <1>10 DEF WriteEnds, Goes
  <2>2. ~Replies(d[1])
    BY <2>1 DEF Replies, Ahead
  <2>3. QED
    BY <1>2, <1>8, <1>10, <2>1, <2>2 DEF Follows, Handles
<1>11. ASSUME ReadEnds, NEW d, Follows(d) PROVE Follows(d)'
  <2>1. /\ pc = "read" /\ pc' = "write" /\ at' = 1 /\ writable' = writable
        /\ \A n \in at..Len(clients) : clients[n] \notin readable
    BY <1>11 DEF ReadEnds, Goes
  <2>2. CASE d[2] = "msg"
    BY <1>2, <1>8, <1>11, <2>1, <2>2 DEF Follows, Handles, Ahead
  <2>3. CASE d[2] # "msg"
    <3>1. Replies(d[1])
      BY <1>11, <2>3 DEF Follows
    <3>2. Ahead(d[1])'
      BY <1>0, <1>1, <2>1, <3>1, ListLength DEF Replies, Ahead, ClientsOK
    <3>3. QED
      BY <1>2, <2>1, <2>3, <3>1, <3>2 DEF Follows, Replies
  <2>4. QED
    BY <2>2, <2>3
<1>12. ASSUME EventsEnd, NEW d, Follows(d) PROVE Follows(d)'
  <2>1. pc = "events" /\ pc' = "msg" /\ readable \cup writable = {}
    BY <1>12 DEF EventsEnd, Goes
  <2>2. QED
    BY <1>2, <1>8, <1>12, <2>1 DEF Follows, Handles, Replies
<1>13. DueOK'
  <2>1. \A d \in due' : Follows(d) => Follows(d)'
    BY <1>9, <1>10, <1>11, <1>12
  <2>2. QED
    BY <1>0, <1>1, <1>7, <2>1, DueGoesOn
<1>14. QED
  BY <1>2, <1>3, <1>4, <1>6, <1>13, SplitNext

\* Before the worker waits, nothing is expected of it.
LEMMA BuildKeeps ==
  ASSUME IInv, BuildSets \/ BuildFromNobody
  PROVE  IInv'
<1>0. ShapeOK /\ ClientsOK /\ WatchOK /\ EventsOK /\ LeftOK /\ DueOK
  BY Split
<1>1. /\ UNCHANGED <<kind, clients, clientsBuf, conn, oldTime, readable, writable, at, sending,
                     copied, due, left>>
      /\ pc = "sets" /\ pc' \in {"wait", "msg", "crashed", "exit"} /\ bRun' \in BOOLEAN
  BY <1>0 DEF BuildSets, BuildFromNobody, Goes, ShapeOK, listVars, watchVars, waitVars, dueVars
<1>2. ClientsOK' /\ Listed' = Listed /\ Gone' = Gone
  BY <1>0, <1>1, StillKeeps DEF Still, NoTime
<1>3. DOMAIN clients = 1..Len(clients) /\ Len(clients) \in Nat /\ Listed \subseteq Clients
      /\ clients \in Seq(Clients)
  BY <1>0, ListLength DEF ClientsOK, ListsOK
<1>4. ASSUME BuildSets, kind = "select", clientChange
      PROVE  /\ watched' = Listed /\ ~clientChange' /\ clientChange' \in BOOLEAN
             /\ maxSocket' \in Listed /\ \A c \in Listed : c <= maxSocket'
  <2>1. /\ clients # <<>> /\ watched' = Listed /\ clientChange' = FALSE
        /\ maxSocket' = CHOOSE c \in Listed : \A d \in Listed : d <= c
    BY <1>4 DEF BuildSets, watchVars
  <2>2. Len(clients) >= 1
    BY <1>3, <2>1
  <2>3. Listed # {}
    <3>1. 1 \in DOMAIN clients
      BY <1>3, <2>2
    <3>2. QED
      BY <3>1 DEF Listed, Range
  <2>4. \E c \in Listed : \A d \in Listed : d <= c
    BY <1>3, <2>3, Greatest
  <2>5. QED
    BY <2>1, <2>4
<1>5. ASSUME BuildSets, ~(kind = "select" /\ clientChange)
      PROVE  UNCHANGED <<watched, maxSocket, clientChange>>
  BY <1>5 DEF BuildSets, watchVars
<1>6. ASSUME BuildFromNobody
      PROVE  /\ kind = "select" /\ watched' = {} /\ maxSocket' = maxSocket /\ Listed = {}
             /\ pc' # "wait"
             /\ clientChange' \in BOOLEAN
  <2>1. /\ kind = "select" /\ watched' = {} /\ maxSocket' = maxSocket /\ clients = <<>>
        /\ pc' # "wait" /\ clientChange' = FALSE
    BY <1>6 DEF BuildFromNobody, Goes
  <2>2. DOMAIN clients = {}
    BY <2>1
  <2>3. Listed = {}
    BY <2>2 DEF Listed, Range
  <2>4. QED
    BY <2>1, <2>3
<1>7. ShapeOK'
  <2>1. maxSocket' \in 0..NClients
    <3>1. maxSocket \in 0..NClients
      BY <1>0 DEF ShapeOK
    <3>2. maxSocket' \in Listed \/ maxSocket' = maxSocket
      BY <1>4, <1>5, <1>6
    <3>3. Listed \subseteq 0..NClients
      BY <1>3, Numbers
    <3>4. QED
      BY <3>1, <3>2, <3>3
  <2>2. clientChange' \in BOOLEAN
    BY <1>0, <1>4, <1>5, <1>6 DEF ShapeOK
  <2>3. QED
    BY <1>0, <1>1, <2>1, <2>2 DEF ShapeOK, Pcs
<1>8. WatchOK'
  <2>1. CASE BuildSets /\ kind = "select" /\ clientChange
    BY <1>1, <1>2, <1>3, <1>4, <2>1 DEF WatchOK
  <2>2. CASE BuildSets /\ ~(kind = "select" /\ clientChange)
    BY <1>0, <1>1, <1>2, <1>5, <2>2 DEF WatchOK
  <2>3. CASE BuildFromNobody
    BY <1>1, <1>2, <1>6, <2>3 DEF WatchOK
  <2>4. QED
    BY <2>1, <2>2, <2>3
<1>9. EventsOK' /\ LeftOK'
  BY <1>0, <1>1, <1>2 DEF EventsOK, LeftOK
<1>10. DueOK'
  <2>1. MayMiss' = MayMiss /\ Running
    BY <1>1 DEF MayMiss, Running
  <2>2. \A d \in due' : Follows(d) => Follows(d)'
    BY <1>1, NothingFollows
  <2>3. QED
    BY <1>0, <1>1, <2>1, <2>2, DueGoesOn
<1>11. QED
  BY <1>2, <1>7, <1>8, <1>9, <1>10, SplitNext

\* select and epoll_wait report whatever has to be read or written.
LEMMA WaitKeeps ==
  ASSUME IInv, Wait
  PROVE  IInv'
<1>0. ShapeOK /\ ClientsOK /\ WatchOK /\ EventsOK /\ LeftOK /\ DueOK
  BY Split
<1>1. /\ UNCHANGED <<kind, bRun, clients, clientsBuf, clientChange, conn, oldTime,
                     watched, maxSocket, sending, copied>>
      /\ pc = "wait" /\ at' = 1 /\ due' = Due /\ left' = 0
      /\ readable' = {c \in watched : InRange(c) /\ CanRead(c)}
      /\ writable' = {c \in Listed : InRange(c) /\ NeedWrite(c) /\ CanWrite(c)}
      /\ pc' = IF readable' \cup writable' = {} THEN "msg"
               ELSE IF kind = "select" THEN "read" ELSE "events"
  BY DEF Wait, listVars, watchVars, waitVars, dueVars
<1>2. ClientsOK' /\ Listed' = Listed /\ Gone' = Gone
  BY <1>0, <1>1, StillKeeps DEF Still, NoTime
<1>3. kind \in {"select", "epoll"}
  BY <1>0, KindsAssumption DEF ShapeOK
<1>4. watched = Listed /\ (\A c \in Listed : InRange(c)) /\ Listed \subseteq Clients
  <2>1. Listed \subseteq Clients
    BY <1>0 DEF ClientsOK, ListsOK, Live
  <2>2. CASE kind = "select"
    BY <1>0, <1>1, <2>1, <2>2 DEF WatchOK, InRange
  <2>3. CASE kind = "epoll"
    BY <1>0, <1>1, <2>1, <2>3 DEF WatchOK, InRange
  <2>4. QED
    BY <1>3, <2>2, <2>3, <2>1
<1>5. \A c \in Listed : /\ CanRead(c) => c \in readable'
                        /\ NeedWrite(c) /\ CanWrite(c) => c \in writable'
  BY <1>1, <1>4
<1>6. readable' \subseteq Listed /\ writable' \subseteq Listed
  BY <1>1, <1>4
<1>7. ShapeOK'
  <2>1. Due \subseteq Clients \X {"msg", "reply"}
    BY <1>4 DEF Due
  <2>2. QED
    BY <1>0, <1>1, <2>1, Numbers DEF ShapeOK, Pcs
<1>8. WatchOK' /\ LeftOK'
  <2>1. LeftOK'
    BY <1>1, GoneFacts DEF LeftOK
  <2>2. QED
    BY <1>0, <1>1, <1>2, <2>1 DEF WatchOK
<1>9. EventsOK'
  <2>1. sending = 0
    BY <1>0, <1>1 DEF EventsOK
  <2>2. QED
    BY <1>0, <1>1, <1>2, <1>3, <1>4, <1>6, <2>1 DEF EventsOK
<1>10. \A c \in Listed : Ahead(c)'
  BY <1>0, <1>1, ListLength DEF Ahead, ClientsOK
<1>11. ASSUME NEW c \in Listed, conn[c].recvBuf + conn[c].rx >= MsgLen PROVE Handles(c)'
  <2>0. c \in Clients /\ conn[c].recvBuf \in Nat /\ conn[c].rx \in Nat /\ MsgLen \in Nat
    BY <1>0, <1>4, ConnTypes, Numbers DEF ClientsOK, ConnsOK
  <2>1. HasMsg(c)' = HasMsg(c)
    BY <1>1 DEF HasMsg
  <2>2. HasMsg(c) \/ CanRead(c)
    BY <1>11, <2>0 DEF HasMsg, CanRead
  <2>3. pc' \in {"read", "events", "msg"}
    BY <1>1
  <2>4. CanRead(c) => c \in readable' /\ pc' \in {"read", "events"}
    BY <1>1, <1>5
  <2>5. QED
    BY <1>1, <1>2, <1>10, <1>11, <2>1, <2>2, <2>3, <2>4 DEF Handles
<1>12. ASSUME NEW c \in Listed, NeedWrite(c), CanWrite(c) PROVE Replies(c)'
  <2>1. c \in writable' /\ pc' \in {"read", "events"}
    BY <1>1, <1>5, <1>12
  <2>2. QED
    BY <1>2, <1>10, <2>1 DEF Replies
<1>13. \A d \in due' : Follows(d)'
  <2> TAKE d \in due'
  <2>1. CASE d \in {<<c, "msg">> : c \in {e \in Listed : conn[e].recvBuf + conn[e].rx >= MsgLen}}
    BY <1>11, <2>1 DEF Follows
  <2>2. CASE d \in {<<c, "reply">> : c \in {e \in Listed : NeedWrite(e) /\ CanWrite(e)}}
    BY <1>12, <2>2 DEF Follows
  <2>3. QED
    BY <1>1, <2>1, <2>2 DEF Due
<1>14. DueOK'
  <2>1. {} \in SUBSET Clients /\ Cardinality({}) <= MayMiss'
    BY <1>1, FS_EmptySet DEF MayMiss
  <2>2. QED
    BY <1>13, <2>1 DEF DueOK
<1>15. QED
  BY <1>2, <1>7, <1>8, <1>9, <1>14, SplitNext


\* The next client to write to is chosen.
LEMMA ChooseKeeps ==
  ASSUME IInv, \/ \E n \in DOMAIN clients : WriteNext(n)
               \/ \E c \in Clients : EventOut(c)
  PROVE  IInv'
<1>0. ShapeOK /\ ClientsOK /\ WatchOK /\ EventsOK /\ LeftOK /\ DueOK
  BY Split
<1>1. /\ UNCHANGED <<kind, bRun, pc, clients, clientsBuf, clientChange, conn, oldTime,
                     watched, maxSocket, readable, writable, copied, due, left>>
      /\ pc \in {"write", "events"} /\ sending = 0
  BY DEF WriteNext, EventOut, listVars, watchVars, dueVars
<1>2. ClientsOK' /\ Listed' = Listed /\ Gone' = Gone
  BY <1>0, <1>1, StillKeeps DEF Still, NoTime
<1>3. /\ Len(clients) \in 0..NClients /\ DOMAIN clients = 1..Len(clients)
      /\ Listed = {clients[i] : i \in 1..Len(clients)} /\ Listed \subseteq Clients
  BY <1>0, ListLength DEF ClientsOK
<1>4. \/ /\ pc = "write" /\ at' \in DOMAIN clients /\ at' >= at /\ sending' = clients[at']
         /\ sending' \in writable
         /\ \A m \in at..(at' - 1) : clients[m] \notin writable
      \/ pc = "events" /\ at' = at /\ sending' \in writable \ readable /\ sending' \in Clients
  <2>1. ASSUME NEW n \in DOMAIN clients, WriteNext(n)
        PROVE  /\ pc = "write" /\ at' \in DOMAIN clients /\ at' >= at /\ sending' = clients[at']
               /\ sending' \in writable
               /\ \A m \in at..(at' - 1) : clients[m] \notin writable
    BY <1>0, <2>1 DEF WriteNext, IsNext, ShapeOK
  <2>2. ASSUME NEW c \in Clients, EventOut(c)
        PROVE  pc = "events" /\ at' = at /\ sending' \in writable \ readable /\ sending' \in Clients
    BY <2>2 DEF EventOut
  <2>3. QED
    BY <2>1, <2>2
<1>5. at' \in 1..(NClients + 1) /\ at \in 1..(NClients + 1)
  BY <1>0, <1>3, <1>4, Numbers DEF ShapeOK
<1>6. ShapeOK' /\ LeftOK' /\ WatchOK'
  <2>1. ShapeOK'
    BY <1>0, <1>1, <1>5 DEF ShapeOK
  <2>2. LeftOK'
    BY <1>0, <1>1, <1>2 DEF LeftOK
  <2>3. WatchOK'
    BY <1>0, <1>1, <1>2 DEF WatchOK
  <2>4. QED
    BY <2>1, <2>2, <2>3
<1>7. EventsOK'
  <2>1. sending' \in Listed \cap writable /\ sending' \in Clients
    BY <1>0, <1>1, <1>3, <1>4 DEF EventsOK
  <2>2. copied = 0 /\ conn[sending'].sendBuf \in Nat
    BY <1>0, <1>1, <2>1, ConnTypes DEF EventsOK, ClientsOK, ConnsOK
  <2>3. copied' \in 0..conn'[sending'].sendBuf
    BY <1>1, <2>2
  <2>4. clients' = clients /\ sending' # 0
    BY <1>1, <2>1, Numbers
  <2>5. \/ pc' = "write" /\ at' \in DOMAIN clients' /\ clients'[at'] = sending'
        \/ pc' = "events" /\ sending' \notin readable'
    BY <1>1, <1>4
  <2>6. QED
    BY <1>0, <1>1, <1>2, <2>1, <2>3, <2>4, <2>5 DEF EventsOK
<1>8. \A c : HasMsg(c)' = HasMsg(c)
  BY <1>1 DEF HasMsg
<1>9. ASSUME NEW c, Replies(c) PROVE Replies(c)'
  <2>1. CASE pc = "write"
    <3>1. PICK i \in at..Len(clients) : clients[i] = c
      BY <1>9, <2>1 DEF Replies, Ahead
    <3>2. c \in writable /\ c \in Listed
      BY <1>9 DEF Replies
    <3>3. i \notin at..(at' - 1)
      BY <1>1, <1>4, <2>1, <3>1, <3>2
    <3>4. i \in at'..Len(clients)
      <4>1. at \in Nat /\ at' \in Nat /\ Len(clients) \in Nat /\ i \in Int
        BY <1>3, <1>5, <3>1
      <4>2. i \in at..Len(clients) /\ i \notin at..(at' - 1)
        BY <3>1, <3>3
      <4>3. QED
        BY <4>1, <4>2, Behind
    <3>5. Ahead(c)'
      BY <1>1, <3>1, <3>4 DEF Ahead
    <3>6. QED
      BY <1>1, <1>2, <2>1, <3>2, <3>5 DEF Replies
  <2>2. CASE pc = "events"
    BY <1>1, <1>2, <1>9, <2>2 DEF Replies
  <2>3. QED
    BY <1>1, <2>1, <2>2
<1>10. ASSUME NEW c, Handles(c) PROVE Handles(c)'
  BY <1>1, <1>2, <1>8, <1>10 DEF Handles
<1>11. DueOK'
  <2>1. \A d \in due' : Follows(d) => Follows(d)'
    BY <1>9, <1>10 DEF Follows
  <2>2. MayMiss' = MayMiss /\ Running
    BY <1>1 DEF MayMiss, Running
  <2>3. QED
    BY <1>0, <1>1, <2>1, <2>2, DueGoesOn
<1>12. QED
  BY <1>2, <1>6, <1>7, <1>11, SplitNext

\* Nothing happens.
LEMMA StutterKeeps ==
  ASSUME IInv, UNCHANGED vars
  PROVE  IInv'
<1>0. ShapeOK /\ ClientsOK /\ WatchOK /\ EventsOK /\ LeftOK /\ DueOK
  BY Split
<1>1. UNCHANGED <<kind, bRun, pc, clients, clientsBuf, clientChange, conn, oldTime,
                  watched, maxSocket, readable, writable, at, sending, copied, due, left>>
  BY DEF vars, listVars, watchVars, waitVars, dueVars
<1>2. ClientsOK' /\ Listed' = Listed /\ Gone' = Gone
  BY <1>0, <1>1, StillKeeps DEF Still, NoTime
<1>3. ShapeOK' /\ WatchOK' /\ EventsOK' /\ LeftOK'
  BY <1>0, <1>1, <1>2 DEF ShapeOK, WatchOK, EventsOK, LeftOK
<1>4. \A d : Follows(d)' = Follows(d)
  BY <1>1, <1>2 DEF Follows, Handles, Replies, Ahead, HasMsg
<1>5. DueOK'
  BY <1>0, <1>1, <1>4 DEF DueOK, MayMiss
<1>6. QED
  BY <1>2, <1>3, <1>5, SplitNext

-----------------------------------------------------------------------------
(* The steps of the worker that move bytes.                                *)

\* One client has been read from, has handled a message or has been written to:
\* what the rest of the round does with the others is as it was.
LEMMA MoveKeeps ==
  ASSUME IInv, NEW c, Becomes(c, conn'[c]), Running,
         UNCHANGED <<bRun, pc, clientChange, watched, maxSocket, left>>,
         at' \in 1..(NClients + 1), due' \subseteq due, EventsOK',
         \A d \in due' : Follows(d) => Follows(d)'
  PROVE  IInv'
<1>0. ShapeOK /\ ClientsOK /\ WatchOK /\ EventsOK /\ LeftOK /\ DueOK
  BY Split
<1>1. ClientsOK' /\ Listed' = Listed /\ Gone' = Gone
  BY <1>0, BecomesKeeps
<1>2. kind' = kind /\ oldTime' = oldTime
  BY DEF Becomes
<1>3. ShapeOK'
  BY <1>0, <1>2 DEF ShapeOK
<1>4. WatchOK'
  BY <1>0, <1>1, <1>2 DEF WatchOK
<1>5. LeftOK'
  BY <1>0, <1>1 DEF LeftOK
<1>6. DueOK'
  BY <1>0, <1>2, DueGoesOn DEF MayMiss
<1>7. QED
  BY <1>1, <1>3, <1>4, <1>5, <1>6, SplitNext

\* What read4socket does to a client.
LEMMA RecvFacts ==
  ASSUME ClientsOK, NEW c \in Listed, RecvSome(c)
  PROVE  /\ Becomes(c, conn'[c])
         /\ conn'[c].recvBuf >= conn[c].recvBuf
         /\ conn[c].recvBuf + conn[c].rx >= MsgLen => conn'[c].recvBuf >= MsgLen
         /\ conn'[c].sendBuf = conn[c].sendBuf
         /\ \A d \in Clients \ {c} : conn'[d] = conn[d]
<1> DEFINE room == RecvCap - conn[c].recvBuf
           n == IF conn[c].rx < room THEN conn[c].rx ELSE room
           r == conn'[c]
<1>1. /\ c \in Live /\ c \in Clients /\ conn \in [Clients -> Conns]
      /\ conn[c] \in Conns /\ ConnOK(c, conn[c])
  BY DEF ClientsOK, ConnsOK, ListsOK, Live
<1>2. /\ conn' = [conn EXCEPT ![c].rx = @ - n, ![c].recvBuf = @ + n]
      /\ UNCHANGED <<kind, pc, clients, clientsBuf, oldTime>>
  BY DEF RecvSome, listVars
<1> HIDE DEF n
<1>3. /\ r = [conn[c] EXCEPT !.rx = @ - n, !.recvBuf = @ + n]
      /\ \A d \in Clients \ {c} : conn'[d] = conn[d]
      /\ conn' = [conn EXCEPT ![c] = r]
  BY <1>1, <1>2
<1>4. /\ conn[c].rx \in Nat /\ conn[c].recvBuf \in Nat /\ conn[c].sent \in Nat
      /\ conn[c].rx <= conn[c].sent /\ conn[c].recvBuf <= RecvCap
      /\ RecvCap \in Nat /\ MsgLen \in Nat /\ RecvCap >= MsgLen
  BY <1>1, ConnTypes, Numbers DEF ConnOK
<1>5. /\ n \in Nat /\ n <= conn[c].rx /\ conn[c].recvBuf + n <= RecvCap
      /\ conn[c].recvBuf + conn[c].rx >= MsgLen => conn[c].recvBuf + n >= MsgLen
  BY <1>4 DEF n
<1>6. /\ r.rx = conn[c].rx - n /\ r.recvBuf = conn[c].recvBuf + n
      /\ r.sent = conn[c].sent /\ r.tx = conn[c].tx /\ r.sendBuf = conn[c].sendBuf
      /\ r.dtHeart = conn[c].dtHeart /\ r.quiet = conn[c].quiet /\ r.peer = conn[c].peer
  BY <1>1, <1>3 DEF Conns
<1>7. /\ conn[c].rx - n \in Nat /\ conn[c].rx - n <= conn[c].sent
      /\ conn[c].recvBuf + n \in Nat /\ conn[c].recvBuf + n >= conn[c].recvBuf
  BY <1>4, <1>5
<1>8. r \in Conns
  BY <1>1, <1>3, <1>7 DEF Conns
<1> HIDE DEF r
<1>9. ConnOK(c, r)
  BY <1>1, <1>5, <1>6, <1>7 DEF ConnOK
<1>10. r.peer \notin {"away", "deleted"}
  BY <1>1, <1>6 DEF Live
<1>11. Becomes(c, r)
  BY <1>1, <1>2, <1>3, <1>6, <1>8, <1>9, <1>10 DEF Becomes, NoTime
<1>12. QED
  BY <1>3, <1>5, <1>6, <1>7, <1>11 DEF r


\* read4socket leaves a message in the buffer if there was a complete one.
LEMMA RecvKeeps ==
  ASSUME IInv, \/ \E n \in DOMAIN clients : ReadNext(n)
               \/ \E c \in Clients : EventIn(c)
  PROVE  IInv'
<1>0. ShapeOK /\ ClientsOK /\ WatchOK /\ EventsOK /\ LeftOK /\ DueOK
  BY Split
<1>1. /\ Len(clients) \in 0..NClients /\ DOMAIN clients = 1..Len(clients)
      /\ Listed = {clients[i] : i \in 1..Len(clients)} /\ Listed \subseteq Clients
  BY <1>0, ListLength DEF ClientsOK
<1>2. PICK c \in Listed :
        /\ RecvSome(c)
        /\ \/ /\ pc = "read" /\ at' - 1 \in at..Len(clients) /\ clients[at' - 1] = c
              /\ at' \in 1..(NClients + 1) /\ at' >= at
              /\ \A m \in at..(at' - 2) : clients[m] \notin readable
              /\ readable' = readable /\ sending' = sending
           \/ /\ pc = "events" /\ at' = at /\ sending = 0 /\ readable' = readable \ {c}
              /\ c \in readable
              /\ sending' = IF c \in writable THEN c ELSE 0
  <2>1. ASSUME NEW n \in DOMAIN clients, ReadNext(n)
        PROVE  /\ clients[n] \in Listed /\ RecvSome(clients[n])
               /\ pc = "read" /\ at' - 1 \in at..Len(clients) /\ clients[at' - 1] = clients[n]
               /\ at' \in 1..(NClients + 1) /\ at' >= at
               /\ \A m \in at..(at' - 2) : clients[m] \notin readable
               /\ readable' = readable /\ sending' = sending
    <3>1. /\ pc = "read" /\ n \in at..Len(clients) /\ at' = n + 1
          /\ \A m \in at..(n - 1) : clients[m] \notin readable
          /\ readable' = readable /\ sending' = sending /\ RecvSome(clients[n])
      BY <2>1 DEF ReadNext, IsNext
    <3>2. n \in Nat /\ at \in Nat /\ n <= NClients /\ NClients \in Nat
      BY <1>0, <1>1, <2>1, Numbers DEF ShapeOK
    <3>3. at' - 1 = n /\ at' - 2 = n - 1
      BY <3>1, <3>2
    <3>4. QED
      BY <1>1, <2>1, <3>1, <3>2, <3>3
  <2>2. ASSUME NEW c \in Clients, EventIn(c)
        PROVE  /\ c \in Listed /\ RecvSome(c)
               /\ pc = "events" /\ at' = at /\ sending = 0 /\ readable' = readable \ {c}
               /\ c \in readable
               /\ sending' = IF c \in writable THEN c ELSE 0
    BY <1>0, <2>2 DEF EventIn, EventsOK
  <2>3. QED
    BY <2>1, <2>2
<1>3. /\ Becomes(c, conn'[c])
      /\ conn'[c].recvBuf >= conn[c].recvBuf
      /\ conn[c].recvBuf + conn[c].rx >= MsgLen => conn'[c].recvBuf >= MsgLen
      /\ conn'[c].sendBuf = conn[c].sendBuf
      /\ \A d \in Clients \ {c} : conn'[d] = conn[d]
  BY <1>0, <1>2, RecvFacts
<1>4. /\ UNCHANGED <<kind, bRun, pc, clients, clientsBuf, clientChange, oldTime,
                     watched, maxSocket, writable, copied, due, left>>
      /\ pc \in {"read", "events"} /\ sending = 0 /\ at' \in 1..(NClients + 1)
  BY <1>0, <1>2 DEF RecvSome, listVars, watchVars, dueVars, EventsOK, ShapeOK
<1>5. Listed' = Listed
  BY <1>4 DEF Listed
<1>6. conn[c].recvBuf \in Nat /\ conn'[c].recvBuf \in Nat /\ conn'[c].sendBuf \in Nat
      /\ MsgLen \in Nat
  BY <1>0, <1>1, <1>3, ConnTypes, Numbers DEF Becomes, ClientsOK, ConnsOK
<1>7. EventsOK'
  <2>1. copied = 0 /\ readable' \subseteq readable
    BY <1>0, <1>2, <1>4 DEF EventsOK
  <2>2. CASE pc = "read"
    BY <1>0, <1>2, <1>4, <1>5, <2>1, <2>2 DEF EventsOK
  <2>3. CASE pc = "events"
    <3>1. copied' \in 0..conn'[c].sendBuf
      BY <1>4, <1>6, <2>1
    <3>2. sending' # 0 => sending' = c /\ c \in writable /\ c \notin readable'
      BY <1>2, <2>3
    <3>3. QED
      BY <1>0, <1>1, <1>2, <1>4, <1>5, <2>1, <2>3, <3>1, <3>2 DEF EventsOK
  <2>4. QED
    BY <1>4, <2>2, <2>3
<1>8. \A e \in Clients : HasMsg(e) => HasMsg(e)'
  <2> TAKE e \in Clients
  <2>1. CASE e = c
    BY <1>3, <1>6, <2>1 DEF HasMsg
  <2>2. CASE e # c
    BY <1>3, <2>2 DEF HasMsg
  <2>3. QED
    BY <2>1, <2>2
<1>9. ASSUME NEW e, Handles(e) PROVE Handles(e)'
  <2>1. e \in Listed /\ e \in Clients /\ pc' \in {"read", "write", "events", "msg"}
    BY <1>1, <1>4, <1>9 DEF Handles
  <2>2. CASE HasMsg(e)
    BY <1>5, <1>8, <2>1, <2>2 DEF Handles
  <2>3. CASE e = c
    <3>1. conn'[c].recvBuf >= MsgLen
      BY <1>3, <1>6, <1>9, <2>3 DEF Handles, HasMsg
    <3>2. QED
      BY <1>5, <2>1, <2>3, <3>1 DEF Handles, HasMsg
  <2>4. CASE ~HasMsg(e) /\ e # c
    <3>1. /\ conn[e].recvBuf + conn[e].rx >= MsgLen /\ e \in readable
          /\ pc = "read" => Ahead(e)
      BY <1>9, <2>4 DEF Handles
    <3>2. conn'[e] = conn[e] /\ e \in readable'
      BY <1>2, <1>3, <2>1, <2>4, <3>1
    <3>3. pc = "read" => Ahead(e)'
      <4> SUFFICES ASSUME pc = "read" PROVE Ahead(e)'
        OBVIOUS
      <4>1. PICK i \in at..Len(clients) : clients[i] = e
        BY <3>1 DEF Ahead
      <4>2. at \in Nat /\ at' \in Nat
        BY <1>0, <1>4 DEF ShapeOK
      <4>3. i \notin at..(at' - 2) /\ i # at' - 1
        BY <1>2, <2>4, <3>1, <4>1
      <4>4. i \in at'..Len(clients)
        <5>1. Len(clients) \in Nat /\ i \in Int
          BY <1>1, <4>1, <4>2
        <5>2. i \in at..Len(clients) /\ i \notin at..(at' - 1)
          BY <4>1, <4>2, <4>3, Between
        <5>3. QED
          BY <4>2, <5>1, <5>2, Behind
      <4>5. QED
        BY <1>4, <4>1, <4>4 DEF Ahead
    <3>4. QED
      BY <1>4, <1>5, <2>1, <3>1, <3>2, <3>3 DEF Handles
  <2>5. QED
    BY <2>2, <2>3, <2>4
<1>10. ASSUME NEW e, Replies(e) PROVE Replies(e)'
  BY <1>4, <1>5, <1>10 DEF Replies
<1>11. \A d \in due' : Follows(d) => Follows(d)'
  BY <1>9, <1>10 DEF Follows
<1>12. QED
  BY <1>3, <1>4, <1>7, <1>11, MoveKeeps DEF Running

\* One message of one client is handled.
LEMMA HandleMsgKeeps ==
  ASSUME IInv, NEW c \in Clients, HandleMsg(c)
  PROVE  IInv'
<1>0. ShapeOK /\ ClientsOK /\ WatchOK /\ EventsOK /\ LeftOK /\ DueOK
  BY Split
<1>1. /\ UNCHANGED <<kind, bRun, pc, clients, clientsBuf, clientChange, oldTime,
                     watched, maxSocket, readable, writable, at, sending, copied, left>>
      /\ pc = "msg" /\ HasMsg(c) /\ due' = due \ {<<c, "msg">>}
  BY DEF HandleMsg, listVars, watchVars, waitVars
<1>2. c \in Listed /\ c \in Live
  <2>1. PICK n \in DOMAIN clients : c = clients[n]
    BY DEF HandleMsg
  <2>2. QED
    BY <1>0, <2>1 DEF Listed, Range, ClientsOK, ListsOK
<1>3. /\ conn \in [Clients -> Conns] /\ conn[c] \in Conns /\ ConnOK(c, conn[c])
  BY <1>0 DEF ClientsOK, ConnsOK
<1>4. PICK resets \in BOOLEAN, replies \in BOOLEAN :
        conn' = [conn EXCEPT ![c] = OnNetMsg(c, resets, replies)]
  BY DEF HandleMsg
<1> DEFINE sends == replies /\ conn[c].sendBuf + ReplyLen <= SendCap
           r == OnNetMsg(c, resets, replies)
<1>5. r = [conn[c] EXCEPT !.recvBuf = @ - MsgLen,
                          !.sendBuf = IF sends THEN @ + ReplyLen ELSE @,
                          !.dtHeart = IF resets THEN 0 ELSE @,
                          !.quiet   = IF resets THEN 0 ELSE @]
  BY DEF OnNetMsg
<1>6. conn' = [conn EXCEPT ![c] = r] /\ \A d \in Clients \ {c} : conn'[d] = conn[d]
  BY <1>3, <1>4
<1> DEFINE rest == conn[c].recvBuf - MsgLen
           more == IF sends THEN conn[c].sendBuf + ReplyLen ELSE conn[c].sendBuf
           heart == IF resets THEN 0 ELSE conn[c].dtHeart
           silent == IF resets THEN 0 ELSE conn[c].quiet
<1>7. /\ conn[c].recvBuf \in Nat /\ conn[c].sendBuf \in Nat /\ conn[c].dtHeart \in Nat
      /\ conn[c].quiet \in Nat /\ conn[c].recvBuf >= MsgLen /\ conn[c].recvBuf <= RecvCap
      /\ conn[c].sendBuf <= SendCap /\ conn[c].dtHeart < Death /\ conn[c].quiet <= MaxQuiet
      /\ MsgLen \in Nat /\ ReplyLen \in Nat /\ RecvCap \in Nat /\ SendCap \in Nat
      /\ Death \in Nat /\ Death >= 1 /\ MaxQuiet \in Nat
  BY <1>1, <1>3, ConnTypes, Numbers DEF HasMsg, ConnOK, MaxQuiet
<1>8. /\ r.recvBuf = rest /\ r.sendBuf = more /\ r.dtHeart = heart /\ r.quiet = silent
      /\ r.sent = conn[c].sent /\ r.rx = conn[c].rx /\ r.tx = conn[c].tx
      /\ r.peer = conn[c].peer
  BY <1>3, <1>5 DEF Conns
<1>9. /\ rest \in Nat /\ rest <= RecvCap
      /\ more \in Nat /\ more <= SendCap
      /\ heart \in Nat /\ heart < Death
      /\ silent \in Nat /\ silent <= MaxQuiet
  BY <1>7
<1>10. \/ heart = conn[c].dtHeart /\ silent = conn[c].quiet
       \/ heart = 0 /\ silent = 0
  OBVIOUS
<1>11. r \in Conns
  BY <1>3, <1>5, <1>9 DEF Conns
<1> HIDE DEF r, rest, more, heart, silent
<1>12. r.peer \notin {"away", "deleted"}
  BY <1>2, <1>8 DEF Live
<1>13. ConnOK(c, r)
  BY <1>3, <1>8, <1>9, <1>12 DEF ConnOK
<1>14. Becomes(c, r) /\ r = conn'[c]
  BY <1>1, <1>2, <1>3, <1>6, <1>8, <1>10, <1>11, <1>12, <1>13 DEF Becomes, NoTime
<1>15. Listed' = Listed /\ Listed \subseteq Clients
  BY <1>0, <1>1 DEF Listed, ClientsOK, ListsOK, Live
<1>16. EventsOK'
  <2>1. sending = 0
    BY <1>0, <1>1 DEF EventsOK
  <2>2. QED
    BY <1>0, <1>1, <2>1 DEF EventsOK
<1>17. \A d \in due' : Follows(d) => Follows(d)'
  <2> TAKE d \in due'
  <2>1. d \in due /\ d # <<c, "msg">> /\ d \in Clients \X {"msg", "reply"}
    BY <1>0, <1>1 DEF ShapeOK
  <2>2. CASE d[2] = "msg"
    <3>1. d[1] # c /\ d[1] \in Clients
      BY <2>1, <2>2
    <3>2. HasMsg(d[1])' = HasMsg(d[1])
      BY <1>6, <3>1 DEF HasMsg
    <3>3. QED
      BY <1>1, <1>15, <2>2, <3>2 DEF Follows, Handles
  <2>3. CASE d[2] # "msg"
    BY <1>1, <2>3 DEF Follows, Replies
  <2>4. QED
    BY <2>2, <2>3
<1>18. /\ at' \in 1..(NClients + 1) /\ due' \subseteq due /\ Running
  BY <1>0, <1>1 DEF ShapeOK, Running
<1>19. Becomes(c, conn'[c])
  BY <1>14
<1>20. QED
  BY <1>1, <1>16, <1>17, <1>18, <1>19, MoveKeeps


\* The client that is sent to, and where the loop stands.
LEMMA SendingFacts ==
  ASSUME ShapeOK, ClientsOK, EventsOK, sending # 0
  PROVE  /\ sending \in Listed /\ sending \in Live /\ sending \in Clients /\ sending \in writable
         /\ copied \in Nat /\ copied <= conn[sending].sendBuf
         /\ pc \in {"write", "events"} /\ (pc = "write" <=> kind = "select")
         /\ pc = "write" => at \in DOMAIN clients /\ clients[at] = sending
         /\ pc = "events" => sending \notin readable
         /\ conn[sending] \in Conns /\ ConnOK(sending, conn[sending])
         /\ conn \in [Clients -> Conns]
<1>1. /\ sending \in Listed /\ sending \in writable
      /\ copied \in 0..conn[sending].sendBuf
      /\ \/ pc = "write" /\ at \in DOMAIN clients /\ clients[at] = sending
         \/ pc = "events" /\ sending \notin readable
      /\ pc = "write" => kind = "select"
      /\ pc = "events" => kind = "epoll"
  BY DEF EventsOK
<1>2. sending \in Live /\ sending \in Clients
  BY <1>1 DEF ClientsOK, ListsOK, Live
<1>3. /\ conn[sending] \in Conns /\ ConnOK(sending, conn[sending])
      /\ conn \in [Clients -> Conns]
  BY <1>2 DEF ClientsOK, ConnsOK
<1>4. copied \in Nat /\ copied <= conn[sending].sendBuf
  BY <1>1, <1>3, ConnTypes
<1>5. QED
  BY <1>1, <1>2, <1>3, <1>4

\* send() copies no more than the buffer holds and the kernel takes.
LEMMA SendCopiesKeeps ==
  ASSUME IInv, SendCopies
  PROVE  IInv'
<1>0. ShapeOK /\ ClientsOK /\ WatchOK /\ EventsOK /\ LeftOK /\ DueOK
  BY Split
<1> DEFINE c == sending
           room == TxCap - conn[c].tx
           rest == conn[c].sendBuf - copied
           n == IF room < rest THEN room ELSE rest
           r == conn'[c]
<1>1. /\ UNCHANGED <<kind, bRun, pc, clients, clientsBuf, clientChange, oldTime,
                     watched, maxSocket, readable, writable, at, sending, due, left>>
      /\ c # 0 /\ copied < conn[c].sendBuf /\ conn[c].tx < TxCap
      /\ conn' = [conn EXCEPT ![c].tx = @ + n] /\ copied' = copied + n
  BY DEF SendCopies, listVars, watchVars, dueVars
<1>2. /\ c \in Listed /\ c \in Live /\ c \in Clients /\ c \in writable
      /\ copied \in Nat /\ copied <= conn[c].sendBuf
      /\ pc \in {"write", "events"}
      /\ conn[c] \in Conns /\ ConnOK(c, conn[c]) /\ conn \in [Clients -> Conns]
  BY <1>0, <1>1, SendingFacts
<1>3. conn[c].tx \in Nat /\ conn[c].sendBuf \in Nat /\ TxCap \in Nat
  BY <1>2, ConnTypes, Numbers
<1>4. n \in Nat /\ conn[c].tx + n \in Nat /\ conn[c].tx + n <= TxCap
      /\ copied + n \in Nat /\ copied + n <= conn[c].sendBuf
  BY <1>1, <1>2, <1>3
<1> HIDE DEF c, n
<1>5. /\ r = [conn[c] EXCEPT !.tx = @ + n]
      /\ \A d \in Clients \ {c} : conn'[d] = conn[d]
      /\ conn' = [conn EXCEPT ![c] = r]
  BY <1>1, <1>2
<1>6. /\ r.rx = conn[c].rx /\ r.recvBuf = conn[c].recvBuf /\ r.tx = conn[c].tx + n
      /\ r.sent = conn[c].sent /\ r.sendBuf = conn[c].sendBuf
      /\ r.dtHeart = conn[c].dtHeart /\ r.quiet = conn[c].quiet /\ r.peer = conn[c].peer
      /\ r \in Conns
  BY <1>2, <1>4, <1>5 DEF Conns
<1> HIDE DEF r
<1>7. r.peer \notin {"away", "deleted"}
  BY <1>2, <1>6 DEF Live
<1>8. ConnOK(c, r)
  BY <1>2, <1>4, <1>6 DEF ConnOK
<1>9. Becomes(c, r)
  BY <1>1, <1>2, <1>5, <1>6, <1>7, <1>8 DEF Becomes, NoTime
<1>10. Listed' = Listed
  BY <1>1 DEF Listed
<1>11. \A d \in Clients : conn'[d].recvBuf = conn[d].recvBuf /\ conn'[d].rx = conn[d].rx
  <2> TAKE d \in Clients
  <2>1. CASE d = c
    BY <1>6, <2>1 DEF r
  <2>2. CASE d # c
    BY <1>5, <2>2
  <2>3. QED
    BY <2>1, <2>2
<1>12. EventsOK'
  <2>1. copied' \in 0..r.sendBuf
    BY <1>1, <1>3, <1>4, <1>6
  <2>2. sending' = c /\ conn'[sending'].sendBuf = r.sendBuf
    BY <1>1 DEF c, r
  <2>3. QED
    BY <1>0, <1>1, <1>10, <2>1, <2>2 DEF EventsOK, c
<1>13. ASSUME NEW e, Handles(e) PROVE Handles(e)'
  <2>1. e \in Clients
    BY <1>0, <1>13, ListLength DEF Handles, ClientsOK
  <2>2. conn'[e].recvBuf = conn[e].recvBuf /\ conn'[e].rx = conn[e].rx
    BY <1>11, <2>1
  <2>3. Ahead(e)' = Ahead(e)
    BY <1>1 DEF Ahead
  <2>4. QED
    BY <1>1, <1>10, <1>13, <2>2, <2>3 DEF Handles, HasMsg
<1>14. ASSUME NEW e, Replies(e) PROVE Replies(e)'
  BY <1>1, <1>10, <1>14 DEF Replies, Ahead
<1>15. \A d \in due' : Follows(d) => Follows(d)'
  BY <1>13, <1>14 DEF Follows
<1>16. /\ at' \in 1..(NClients + 1) /\ due' \subseteq due /\ Running
  BY <1>0, <1>1, <1>2 DEF ShapeOK, Running
<1>17. Becomes(c, conn'[c])
  BY <1>9 DEF r
<1>18. QED
  BY <1>1, <1>12, <1>15, <1>16, <1>17, MoveKeeps

\* What is still to come when the worker has done with the client it sends to:
\* nobody but that client is passed over.
LEMMA SendIsOverFacts ==
  ASSUME ShapeOK, ClientsOK, EventsOK, sending # 0, SendIsOver
  PROVE  /\ readable' = readable /\ writable' = writable \ {sending}
         /\ sending' = 0 /\ copied' = 0
         /\ at' \in 1..(NClients + 1)
         /\ pc = "write" => at' = at + 1
<1>1. /\ pc \in {"write", "events"} /\ (pc = "write" <=> kind = "select")
      /\ pc = "write" => at \in DOMAIN clients
  BY SendingFacts
<1>2. Len(clients) \in 0..NClients /\ DOMAIN clients = 1..Len(clients) /\ NClients \in Nat
  BY ListLength, Numbers DEF ClientsOK
<1>3. /\ readable' = readable /\ writable' = writable \ {sending}
      /\ sending' = 0 /\ copied' = 0
      /\ at' = IF kind = "select" THEN at + 1 ELSE at
  BY DEF SendIsOver
<1>4. at \in 1..(NClients + 1)
  BY DEF ShapeOK
<1>5. at' \in 1..(NClients + 1)
  BY <1>1, <1>2, <1>3, <1>4
<1>6. QED
  BY <1>1, <1>3, <1>5

\* What has been sent leaves the buffer, and the client is done.
LEMMA SendReturnsKeeps ==
  ASSUME IInv, SendReturns
  PROVE  IInv'
<1>0. ShapeOK /\ ClientsOK /\ WatchOK /\ EventsOK /\ LeftOK /\ DueOK
  BY Split
<1> DEFINE c == sending
           r == conn'[c]
<1>1. /\ UNCHANGED <<kind, bRun, pc, clients, clientsBuf, clientChange, oldTime,
                     watched, maxSocket, left>>
      /\ c # 0 /\ SendIsOver /\ due' = due \ {<<c, "reply">>}
      /\ conn' = [conn EXCEPT ![c].sendBuf = @ - copied]
  BY DEF SendReturns, listVars, watchVars
<1>2. /\ c \in Listed /\ c \in Live /\ c \in Clients
      /\ copied \in Nat /\ copied <= conn[c].sendBuf
      /\ pc \in {"write", "events"} /\ (pc = "write" <=> kind = "select")
      /\ pc = "write" => at \in DOMAIN clients /\ clients[at] = c
      /\ conn[c] \in Conns /\ ConnOK(c, conn[c]) /\ conn \in [Clients -> Conns]
  BY <1>0, <1>1, SendingFacts
<1>3. /\ readable' = readable /\ writable' = writable \ {c}
      /\ sending' = 0 /\ copied' = 0
      /\ at' \in 1..(NClients + 1)
      /\ pc = "write" => at' = at + 1
  BY <1>0, <1>1, SendIsOverFacts
<1> HIDE DEF c
<1>4. conn[c].sendBuf \in Nat /\ conn[c].sendBuf <= SendCap /\ SendCap \in Nat
  BY <1>2, ConnTypes, Numbers DEF ConnOK
<1>5. conn[c].sendBuf - copied \in Nat /\ conn[c].sendBuf - copied <= SendCap
  BY <1>2, <1>4
<1>6. /\ r = [conn[c] EXCEPT !.sendBuf = @ - copied]
      /\ \A d \in Clients \ {c} : conn'[d] = conn[d]
      /\ conn' = [conn EXCEPT ![c] = r]
  BY <1>1, <1>2
<1>7. /\ r.rx = conn[c].rx /\ r.recvBuf = conn[c].recvBuf /\ r.tx = conn[c].tx
      /\ r.sent = conn[c].sent /\ r.sendBuf = conn[c].sendBuf - copied
      /\ r.dtHeart = conn[c].dtHeart /\ r.quiet = conn[c].quiet /\ r.peer = conn[c].peer
      /\ r \in Conns
  BY <1>2, <1>5, <1>6 DEF Conns
<1> HIDE DEF r
<1>8. r.peer \notin {"away", "deleted"}
  BY <1>2, <1>7 DEF Live
<1>9. ConnOK(c, r)
  BY <1>2, <1>5, <1>7 DEF ConnOK
<1>10. Becomes(c, r)
  BY <1>1, <1>2, <1>6, <1>7, <1>8, <1>9 DEF Becomes, NoTime
<1>11. Listed' = Listed
  BY <1>1 DEF Listed
<1>12. EventsOK'
  BY <1>0, <1>1, <1>3, <1>11 DEF EventsOK
<1>13. \A d \in Clients : conn'[d].recvBuf = conn[d].recvBuf /\ conn'[d].rx = conn[d].rx
  <2> TAKE d \in Clients
  <2>1. CASE d = c
    BY <1>7, <2>1 DEF r
  <2>2. CASE d # c
    BY <1>6, <2>2
  <2>3. QED
    BY <2>1, <2>2
<1>14. ASSUME NEW e, Handles(e) PROVE Handles(e)'
  <2>1. e \in Clients
    BY <1>0, <1>14, ListLength DEF Handles, ClientsOK
  <2>2. conn'[e].recvBuf = conn[e].recvBuf /\ conn'[e].rx = conn[e].rx
    BY <1>13, <2>1
  <2>3. pc' = pc /\ pc # "read"
    BY <1>1, <1>2
  <2>4. QED
    BY <1>3, <1>11, <1>14, <2>2, <2>3 DEF Handles, HasMsg
<1>15. ASSUME NEW e, e # c, Replies(e) PROVE Replies(e)'
  <2>1. e \in Listed /\ e \in writable /\ (pc = "write" => Ahead(e))
    BY <1>15 DEF Replies
  <2>2. pc = "write" => Ahead(e)'
    <3> SUFFICES ASSUME pc = "write" PROVE Ahead(e)'
      OBVIOUS
    <3>1. PICK i \in at..Len(clients) : clients[i] = e
      BY <2>1 DEF Ahead
    <3>2. i # at /\ at \in Nat /\ at' = at + 1
      BY <1>0, <1>2, <1>3, <1>15, <3>1 DEF ShapeOK
    <3>3. i \in at'..Len(clients)
      BY <3>1, <3>2
    <3>4. QED
      BY <1>1, <3>1, <3>3 DEF Ahead
  <2>3. QED
    BY <1>1, <1>2, <1>3, <1>11, <1>15, <2>1, <2>2 DEF Replies
<1>16. \A d \in due' : Follows(d) => Follows(d)'
  <2> TAKE d \in due'
  <2>1. d \in due /\ d # <<c, "reply">> /\ d \in Clients \X {"msg", "reply"}
    BY <1>0, <1>1 DEF ShapeOK, c
  <2>2. CASE d[2] = "msg"
    BY <1>14, <2>2 DEF Follows
  <2>3. CASE d[2] # "msg"
    <3>1. d[1] # c
      BY <2>1, <2>3
    <3>2. QED
      BY <1>15, <2>3, <3>1 DEF Follows
  <2>4. QED
    BY <2>2, <2>3
<1>17. due' \subseteq due /\ Running
  BY <1>1, <1>2 DEF Running
<1>18. Becomes(c, conn'[c])
  BY <1>10 DEF r
<1>19. QED
  BY <1>1, <1>3, <1>12, <1>16, <1>17, <1>18, MoveKeeps


-----------------------------------------------------------------------------
(* The steps of the worker that delete clients.                            *)

\* The loop goes on with p + 1 after the client at p has been erased: nobody
\* behind it is passed over but the one that moves to p.
LEMMA AheadStays ==
  ASSUME ClientsOK, NEW p, Parts(p), at \in Nat, at' = p + 1,
         NEW e, Ahead(e), e # clients[p], e # clients[p + 1],
         \A m \in at..(p - 1) : clients[m] # e
  PROVE  Ahead(e)'
<1>1. /\ clients \in Seq(Clients) /\ IsInjective(clients) /\ p \in DOMAIN clients
      /\ clients' = Erase(clients, {clients[p]})
  BY DEF ClientsOK, ListsOK, Parts
<1>2. Len(clients) \in Nat /\ DOMAIN clients = 1..Len(clients) /\ p \in Nat
  BY <1>1
<1>3. PICK i \in at..Len(clients) : clients[i] = e
  BY DEF Ahead
<1>4. i # p /\ i # p + 1 /\ i \notin at..(p - 1)
  BY <1>3
<1>5. i \in p..Len(clients)
  BY <1>2, <1>3, <1>4, Behind
<1>6. i \in Nat /\ i >= p + 2 /\ i \in 1..Len(clients)
  BY <1>1, <1>2, <1>4, <1>5
<1>7. i - 1 \in DOMAIN clients' /\ clients'[i - 1] = e
  <2>1. i \in DOMAIN clients \ {p} /\ ~(i < p)
    BY <1>2, <1>6
  <2>2. LET j == IF i < p THEN i ELSE i - 1
        IN j \in DOMAIN Erase(clients, {clients[p]}) /\ Erase(clients, {clients[p]})[j] = clients[i]
    BY <1>1, <2>1, EraseOne
  <2>3. QED
    BY <1>1, <1>3, <2>1, <2>2
<1>8. clients' \in Seq(Clients)
  BY <1>1, EraseFacts
<1>9. DOMAIN clients' = 1..Len(clients') /\ Len(clients') \in Nat
  BY <1>8
<1>10. i - 1 \in at'..Len(clients')
  BY <1>2, <1>6, <1>7, <1>9
<1>11. QED
  BY <1>7, <1>10 DEF Ahead

\* One client leaves; the loop of select stands behind it, with nobody in front
\* of it that is still to be read from or to be written to.
LEMMA LeaveKeeps ==
  ASSUME IInv, NEW p \in DOMAIN clients, Leaves(clients[p]),
         pc \in {"read", "write", "events"}, EventsOK',
         at' \in 1..(NClients + 1),
         readable \ {clients[p]} \subseteq readable',
         writable \ {clients[p]} \subseteq writable',
         pc # "events" => at' = p + 1,
         pc = "read"  => \A m \in at..(p - 1) : clients[m] \notin readable,
         pc = "write" => \A m \in at..(p - 1) : clients[m] \notin writable,
         pc = "read" => writable' = writable
  PROVE  IInv'
<1>0. ShapeOK /\ ClientsOK /\ WatchOK /\ EventsOK /\ LeftOK /\ DueOK
  BY Split
<1> DEFINE c == clients[p]
<1>1. /\ UNCHANGED <<kind, bRun, pc, clientsBuf, oldTime, maxSocket>>
      /\ OnClientLeave(conn, {c})
      /\ due' = {d \in due : d[1] # c} /\ left' = left + 1
  BY DEF Leaves
<1>2. /\ conn' = [d \in Clients |-> IF d \in {c} THEN Deleted ELSE conn[d]]
      /\ clients' = Erase(clients, {c})
      /\ watched' = IF kind = "epoll" THEN watched \ {c} ELSE watched
      /\ clientChange' = (clientChange \/ {c} # {})
  BY <1>1 DEF OnClientLeave
<1>3. Parts(p)
  BY <1>1, <1>2 DEF Parts, NoTime
<1>4. /\ ClientsOK' /\ c \in Listed /\ Listed' = Listed \ {c}
      /\ Gone \subseteq Gone' /\ Gone # Gone'
  BY <1>0, <1>3, PartsKeeps
<1> HIDE DEF c
<1>5. clientChange' = TRUE
  BY <1>2
<1>6. left \in Nat /\ left' \in Nat /\ left' <= Cardinality(Gone')
  BY <1>0, <1>1, <1>4, GoneFacts DEF ShapeOK, LeftOK
<1>7. LeftOK'
  BY <1>6 DEF LeftOK
<1>8. ShapeOK'
  <2>1. oldTime' \in 0..MaxLag /\ due' \subseteq Clients \X {"msg", "reply"}
    BY <1>0, <1>1 DEF ShapeOK
  <2>2. clientChange' \in BOOLEAN
    BY <1>5
  <2>3. QED
    BY <1>0, <1>1, <1>6, <2>1, <2>2 DEF ShapeOK
<1>9. WatchOK'
  BY <1>0, <1>1, <1>2, <1>4, <1>5 DEF WatchOK
<1>10. \A e \in Listed' : e \in Clients /\ e # c /\ conn'[e] = conn[e]
  <2>1. Listed \subseteq Clients
    BY <1>0 DEF ClientsOK, ListsOK, Live
  <2>2. QED
    BY <1>2, <1>4, <2>1
<1>11. at \in Nat /\ Running /\ kind \in {"select", "epoll"}
       /\ (pc = "events" <=> kind = "epoll")
  BY <1>0, KindsAssumption DEF ShapeOK, Running, EventsOK
<1> DEFINE x == clients[p + 1]
<1>12. ASSUME NEW e, e # c, kind = "select" => e # x, Handles(e) PROVE Handles(e)'
  <2>1. e \in Listed' /\ pc' \in {"read", "write", "events", "msg"}
    BY <1>1, <1>4, <1>12 DEF Handles
  <2>2. conn'[e] = conn[e]
    BY <1>10, <2>1
  <2>3. CASE HasMsg(e)
    BY <2>1, <2>2, <2>3 DEF Handles, HasMsg
  <2>4. CASE ~HasMsg(e)
    <3>1. /\ conn[e].recvBuf + conn[e].rx >= MsgLen /\ pc \in {"read", "events"} /\ e \in readable
          /\ pc = "read" => Ahead(e)
      BY <1>12, <2>4 DEF Handles
    <3>2. e \in readable'
      BY <1>12, <3>1 DEF c
    <3>3. pc = "read" => Ahead(e)'
      <4> SUFFICES ASSUME pc = "read" PROVE Ahead(e)'
        OBVIOUS
      <4>1. \A m \in at..(p - 1) : clients[m] # e
        BY <3>1
      <4>2. kind = "select" /\ at' = p + 1 /\ e # clients[p] /\ e # clients[p + 1]
        BY <1>11, <1>12 DEF c
      <4>3. QED
        BY <1>0, <1>3, <1>11, <3>1, <4>1, <4>2, AheadStays
    <3>4. QED
      BY <1>1, <2>1, <2>2, <3>1, <3>2, <3>3 DEF Handles
  <2>5. QED
    BY <2>3, <2>4
<1>13. ASSUME NEW e, e # c, kind = "select" => e # x, Replies(e) PROVE Replies(e)'
  <2>1. e \in Listed' /\ pc' = pc /\ pc \in {"read", "write", "events"} /\ e \in writable
        /\ (pc = "write" => Ahead(e))
    BY <1>1, <1>4, <1>13 DEF Replies
  <2>2. e \in writable'
    BY <1>13, <2>1 DEF c
  <2>3. pc = "write" => Ahead(e)'
    <3> SUFFICES ASSUME pc = "write" PROVE Ahead(e)'
      OBVIOUS
    <3>1. \A m \in at..(p - 1) : clients[m] # e
      BY <2>1
    <3>2. kind = "select" /\ at' = p + 1 /\ e # clients[p] /\ e # clients[p + 1]
      BY <1>11, <1>13 DEF c
    <3>3. QED
      BY <1>0, <1>3, <1>11, <2>1, <3>1, <3>2, AheadStays
  <2>4. QED
    BY <2>1, <2>2, <2>3 DEF Replies
<1> HIDE DEF x
<1>14. due' \subseteq due /\ \A d \in due' : d[1] # c
  BY <1>1
<1>15. DueOK'
  <2>1. CASE kind = "select"
    <3>1. \A d \in due' : d[1] # x => (Follows(d) => Follows(d)')
      BY <1>12, <1>13, <1>14 DEF Follows
    <3>2. kind' = kind
      BY <1>1
    <3>3. QED
      BY <1>0, <1>1, <1>11, <1>14, <2>1, <3>1, <3>2, DuePasses
  <2>2. CASE kind = "epoll"
    <3>1. \A d \in due' : Follows(d) => Follows(d)'
      BY <1>12, <1>13, <1>14, <2>2 DEF Follows
    <3>2. MayMiss' = MayMiss
      BY <1>1, <2>2 DEF MayMiss
    <3>3. QED
      BY <1>0, <1>11, <1>14, <3>1, <3>2, DueGoesOn
  <2>3. QED
    BY <1>11, <2>1, <2>2
<1>16. QED
  BY <1>4, <1>7, <1>8, <1>9, <1>15, SplitNext

\* The three places where a client leaves are such steps.
LEMMA FailsKeep ==
  ASSUME IInv, \/ \E n \in DOMAIN clients : ReadFails(n)
               \/ \E c \in Clients : EventFails(c)
               \/ SendFails
  PROVE  IInv'
<1>0. ShapeOK /\ ClientsOK /\ WatchOK /\ EventsOK /\ LeftOK /\ DueOK
  BY Split
<1>1. /\ Len(clients) \in 0..NClients /\ DOMAIN clients = 1..Len(clients)
      /\ Listed = {clients[i] : i \in 1..Len(clients)} /\ Listed \subseteq Clients
      /\ NClients \in Nat
  BY <1>0, ListLength, Numbers DEF ClientsOK
<1>2. at \in 1..(NClients + 1)
  BY <1>0 DEF ShapeOK
<1>3. ASSUME NEW p \in DOMAIN clients, Leaves(clients[p])
      PROVE  Listed' = Listed \ {clients[p]} /\ UNCHANGED <<kind, pc>>
  <2>1. /\ UNCHANGED <<kind, pc, clientsBuf, oldTime>> /\ OnClientLeave(conn, {clients[p]})
    BY <1>3 DEF Leaves
  <2>2. Parts(p)
    BY <1>3, <2>1 DEF Parts, NoTime, OnClientLeave
  <2>3. QED
    BY <1>0, <2>1, <2>2, PartsKeeps
<1>4. ASSUME NEW n \in DOMAIN clients, ReadFails(n) PROVE IInv'
  <2>1. /\ pc = "read" /\ n \in at..Len(clients) /\ \A m \in at..(n - 1) : clients[m] \notin readable
        /\ Leaves(clients[n]) /\ at' = n + 1
        /\ UNCHANGED <<readable, writable, sending, copied>>
    BY <1>4 DEF ReadFails, IsNext
  <2>2. Listed' = Listed \ {clients[n]} /\ UNCHANGED <<kind, pc>>
    BY <1>3, <2>1
  <2>3. at' \in 1..(NClients + 1)
    BY <1>1, <2>1
  <2>4. EventsOK'
    BY <1>0, <2>1, <2>2 DEF EventsOK
  <2>5. QED
    BY <2>1, <2>3, <2>4, LeaveKeeps
<1>5. ASSUME NEW c \in Clients, EventFails(c) PROVE IInv'
  <2>1. /\ pc = "events" /\ sending = 0 /\ c \in readable /\ Leaves(c)
        /\ readable' = readable \ {c} /\ writable' = writable \ {c}
        /\ UNCHANGED <<at, sending, copied>>
    BY <1>5 DEF EventFails
  <2>2. c \in Listed
    BY <1>0, <2>1 DEF EventsOK
  <2>3. PICK p \in DOMAIN clients : clients[p] = c
    BY <1>1, <2>2
  <2>4. Listed' = Listed \ {c} /\ UNCHANGED <<kind, pc>>
    BY <1>3, <2>1, <2>3
  <2>5. EventsOK'
    BY <1>0, <2>1, <2>4 DEF EventsOK
  <2>6. QED
    BY <1>2, <2>1, <2>3, <2>5, LeaveKeeps
<1>6. ASSUME SendFails PROVE IInv'
  <2> DEFINE c == sending
  <2>1. c # 0 /\ Leaves(c) /\ SendIsOver
    BY <1>6 DEF SendFails
  <2>2. /\ c \in Listed /\ pc \in {"write", "events"}
        /\ pc = "write" => at \in DOMAIN clients /\ clients[at] = c
        /\ pc = "events" => c \notin readable
    BY <1>0, <2>1, SendingFacts
  <2>3. /\ readable' = readable /\ writable' = writable \ {c}
        /\ sending' = 0 /\ copied' = 0
        /\ at' \in 1..(NClients + 1)
        /\ pc = "write" => at' = at + 1
    BY <1>0, <2>1, SendIsOverFacts
  <2> HIDE DEF c
  <2>4. PICK p \in DOMAIN clients : clients[p] = c /\ (pc = "write" => p = at)
    <3>1. CASE pc = "write"
      BY <2>2, <3>1
    <3>2. CASE pc # "write"
      BY <1>1, <2>2, <3>2
    <3>3. QED
      BY <3>1, <3>2
  <2>5. Listed' = Listed \ {c} /\ UNCHANGED <<kind, pc>>
    BY <1>3, <2>1, <2>4
  <2>6. EventsOK'
    <3>1. pc = "events" => readable \cup writable \subseteq Listed
      BY <1>0 DEF EventsOK
    <3>2. pc' = "events" => readable' \cup writable' \subseteq Listed'
      BY <2>2, <2>3, <2>5, <3>1
    <3>3. QED
      BY <1>0, <2>2, <2>3, <2>5, <3>2 DEF EventsOK
  <2>7. pc = "write" => \A m \in at..(p - 1) : clients[m] \notin writable
    <3>1. \A m \in at..(at - 1) : FALSE
      BY <1>2
    <3>2. QED
      BY <2>4, <3>1
  <2>8. QED
    BY <2>1, <2>2, <2>3, <2>4, <2>6, <2>7, LeaveKeeps
<1>7. QED
  BY <1>4, <1>5, <1>6


\* The steps of OnRun that take clients over, check the hearts and clean up.
LEMMA ListsKeep ==
  ASSUME IInv, JoinClients \/ CheckTime \/ CleanClients
  PROVE  IInv'
<1>0. ShapeOK /\ ClientsOK /\ WatchOK /\ EventsOK /\ LeftOK /\ DueOK
  BY Split
<1>1. ASSUME JoinClients PROVE IInv'
  <2>1. /\ UNCHANGED <<kind, bRun, maxSocket, readable, writable, at, sending, copied, due, left>>
        /\ pc = "loop" /\ pc' \in {"loop", "time"}
        /\ clients' = clients \o clientsBuf
        /\ watched' = IF kind = "epoll" THEN watched \cup Range(clientsBuf) ELSE watched
        /\ clientChange' = (clientChange \/ clientsBuf # <<>>)
    BY <1>1 DEF JoinClients, MoveClients, IdleOrGoOn, waitVars, dueVars
  <2>2. ClientsOK' /\ Listed' = Listed \cup Range(clientsBuf) /\ Gone' = Gone
    BY <1>0, <1>1, JoinKeeps
  <2>3. Range(clientsBuf) \subseteq Clients /\ (clientsBuf = <<>> => Range(clientsBuf) = {})
    BY <1>0 DEF ClientsOK, ListsOK, Live, Range
  <2>4. clientChange' \in BOOLEAN
    BY <1>0, <2>1 DEF ShapeOK
  <2>5. ShapeOK'
    BY <1>0, <2>1, <2>2, <2>4 DEF ShapeOK, ClientsOK, Pcs
  <2>6. WatchOK'
    <3>1. watched' \subseteq Clients
      BY <1>0, <2>1, <2>3 DEF WatchOK
    <3>2. kind = "epoll" => watched' = Listed'
      BY <1>0, <2>1, <2>2 DEF WatchOK
    <3>3. ~clientChange' => ~clientChange /\ Listed' = Listed
      BY <2>1, <2>2, <2>3
    <3>4. kind = "select" /\ ~clientChange' => watched' = Listed' /\ \A c \in Listed' : c <= maxSocket
      BY <1>0, <2>1, <3>3 DEF WatchOK
    <3>5. QED
      BY <2>1, <3>1, <3>2, <3>4 DEF WatchOK
  <2>7. EventsOK' /\ LeftOK'
    BY <1>0, <2>1, <2>2 DEF EventsOK, LeftOK
  <2>8. DueOK'
    <3>1. \A d \in due' : Follows(d) => Follows(d)'
      BY <2>1, NothingFollows
    <3>2. MayMiss' = MayMiss /\ Running /\ due' \subseteq due
      BY <2>1 DEF MayMiss, Running
    <3>3. QED
      BY <1>0, <3>1, <3>2, DueGoesOn
  <2>9. QED
    BY <2>2, <2>5, <2>6, <2>7, <2>8, SplitNext
<1>2. ASSUME CheckTime PROVE IInv'
  <2> DEFINE gone == {c \in Visited : IsDead(c)}
  <2>1. /\ UNCHANGED <<kind, bRun, maxSocket, readable, writable, at, sending, copied, due, left>>
        /\ pc = "time" /\ pc' = "sets"
        /\ watched' = IF kind = "epoll" THEN watched \ gone ELSE watched
        /\ clientChange' = (clientChange \/ gone # {})
    BY <1>2 DEF CheckTime, OnClientLeave, Goes, waitVars, dueVars
  <2>2. ClientsOK'
    BY <1>0, <1>2, CheckTimeKeeps
  <2>3. Listed' = Listed \ gone /\ Gone' = Gone \cup gone
    BY <1>0, <1>2, CheckTimeFacts
  <2> HIDE DEF gone
  <2>4. clientChange' \in BOOLEAN
    BY <1>0, <2>1 DEF ShapeOK
  <2>5. ShapeOK'
    BY <1>0, <2>1, <2>2, <2>4 DEF ShapeOK, ClientsOK, Pcs
  <2>6. WatchOK'
    <3>1. watched' \subseteq Clients
      BY <1>0, <2>1 DEF WatchOK
    <3>2. kind = "epoll" => watched' = Listed'
      BY <1>0, <2>1, <2>3 DEF WatchOK
    <3>3. ~clientChange' => ~clientChange /\ Listed' = Listed
      BY <2>1, <2>3
    <3>4. kind = "select" /\ ~clientChange' => watched' = Listed' /\ \A c \in Listed' : c <= maxSocket
      BY <1>0, <2>1, <3>3 DEF WatchOK
    <3>5. QED
      BY <2>1, <3>1, <3>2, <3>4 DEF WatchOK
  <2>7. LeftOK'
    <3>1. Cardinality(Gone) <= Cardinality(Gone') /\ Cardinality(Gone) \in Nat
          /\ Cardinality(Gone') \in Nat
      BY <2>3, GoneFacts
    <3>2. left' = left /\ left \in Nat /\ left <= Cardinality(Gone)
      BY <1>0, <2>1 DEF LeftOK, ShapeOK
    <3>3. left' <= Cardinality(Gone')
      BY <3>1, <3>2
    <3>4. QED
      BY <3>3 DEF LeftOK
  <2>8. EventsOK'
    BY <1>0, <2>1 DEF EventsOK
  <2>9. DueOK'
    <3>1. \A d \in due' : Follows(d) => Follows(d)'
      BY <2>1, NothingFollows
    <3>2. MayMiss' = MayMiss /\ Running /\ due' \subseteq due
      BY <2>1 DEF MayMiss, Running
    <3>3. QED
      BY <1>0, <3>1, <3>2, DueGoesOn
  <2>10. QED
    BY <2>2, <2>5, <2>6, <2>7, <2>8, <2>9, SplitNext
<1>3. ASSUME CleanClients PROVE IInv'
  <2>1. /\ UNCHANGED <<kind, bRun, clientChange, oldTime, watched, maxSocket, readable, writable,
                       at, sending, copied, due, left>>
        /\ pc = "clean" /\ pc' = "ended"
    BY <1>3 DEF CleanClients, Goes, watchVars, waitVars, dueVars
  <2>2. ClientsOK' /\ Gone \subseteq Gone'
    BY <1>0, <1>3, CleanKeeps
  <2>3. ShapeOK'
    BY <1>0, <2>1 DEF ShapeOK, Pcs
  <2>4. WatchOK' /\ EventsOK'
    BY <1>0, <2>1 DEF WatchOK, EventsOK
  <2>5. LeftOK'
    <3>1. Cardinality(Gone) <= Cardinality(Gone') /\ Cardinality(Gone) \in Nat
          /\ Cardinality(Gone') \in Nat
      BY <2>2, GoneFacts
    <3>2. left' = left /\ left \in Nat /\ left <= Cardinality(Gone)
      BY <1>0, <2>1 DEF LeftOK, ShapeOK
    <3>3. left' <= Cardinality(Gone')
      BY <3>1, <3>2
    <3>4. QED
      BY <3>3 DEF LeftOK
  <2>6. DueOK'
    BY <2>1 DEF DueOK
  <2>7. QED
    BY <2>2, <2>3, <2>4, <2>5, <2>6, SplitNext
<1>4. QED
  BY <1>1, <1>2, <1>3

-----------------------------------------------------------------------------
(* The theorems.                                                           *)

\* The worker starts without clients.
LEMMA InitKeeps == Init => IInv
<1> SUFFICES ASSUME Init PROVE IInv
  OBVIOUS
<1>1. /\ kind \in Kinds /\ bRun = TRUE /\ pc = "loop"
      /\ clientsBuf = <<>> /\ clients = <<>> /\ clientChange = TRUE
      /\ conn = [c \in Clients |-> New] /\ oldTime = 0
      /\ watched = {} /\ maxSocket = 0
      /\ readable = {} /\ writable = {} /\ at = 1 /\ sending = 0 /\ copied = 0
      /\ due = {} /\ left = 0
  BY DEF Init
<1>2. \A c \in Clients : conn[c] = New
  BY <1>1
<1>3. Listed = {} /\ Range(clientsBuf) = {} /\ IsInjective(<<>>)
  BY <1>1 DEF Listed, Range, IsInjective
<1>4. ShapeOK
  BY <1>1, Numbers DEF ShapeOK, Pcs
<1>5. ConnsOK
  BY <1>1, NewOK DEF ConnsOK
<1>6. ListsOK
  BY <1>1, <1>3 DEF ListsOK
<1>7. EarlyOK
  <2>1. 0 + 0 <= 0 + MaxLag
    BY Numbers
  <2>2. \A c \in Clients : conn[c].dtHeart = 0 /\ conn[c].quiet = 0
    BY <1>2, NewOK
  <2>3. QED
    BY <1>1, <2>1, <2>2 DEF EarlyOK
<1>8. LateOK
  BY <1>3 DEF LateOK
<1>9. ClientsOK
  BY <1>4, <1>5, <1>6, <1>7, <1>8 DEF ClientsOK, ShapeOK
<1>10. WatchOK /\ EventsOK
  BY <1>1, <1>3 DEF WatchOK, EventsOK
<1>11. LeftOK
  BY <1>1, GoneFacts DEF LeftOK
<1>12. DueOK
  <2>1. {} \in SUBSET Clients /\ Cardinality({}) <= MayMiss
    BY <1>1, FS_EmptySet DEF MayMiss
  <2>2. QED
    BY <1>1, <2>1 DEF DueOK
<1>13. QED
  BY <1>4, <1>9, <1>10, <1>11, <1>12, Split

\* Whatever the peers, the clock, the owner and the worker do, in every order,
\* the clients, the lists, the watched sockets, the events and the round fit
\* together.
THEOREM Inductive == Spec => []IInv
<1>1. Init => IInv
  BY InitKeeps
<1>2. IInv /\ [Next]_vars => IInv'
  <2> SUFFICES ASSUME IInv, [Next]_vars PROVE IInv'
    OBVIOUS
  <2>1. CASE Environment
    BY <2>1, EnvironmentKeeps
  <2>2. CASE OnRun
    BY <2>2, ListsKeep, LoopEndsKeeps, HandleMsgKeeps, EndsKeep DEF OnRun
  <2>3. CASE DoNetEvents
    <3>1. CASE BuildSets \/ BuildFromNobody
      BY <3>1, BuildKeeps
    <3>2. CASE Wait
      BY <3>2, WaitKeeps
    <3>3. CASE WaitFails \/ Exit
      BY <3>3, LoopEndsKeeps
    <3>4. CASE \E n \in DOMAIN clients : ReadNext(n) \/ ReadFails(n) \/ WriteNext(n)
      BY <3>4, RecvKeeps, FailsKeep, ChooseKeeps
    <3>5. CASE ReadEnds \/ WriteEnds \/ EventsEnd
      BY <3>5, EndsKeep
    <3>6. CASE \E c \in Clients : EventIn(c) \/ EventFails(c) \/ EventOut(c)
      BY <3>6, RecvKeeps, FailsKeep, ChooseKeeps
    <3>7. CASE SendCopies
      BY <3>7, SendCopiesKeeps
    <3>8. CASE SendReturns
      BY <3>8, SendReturnsKeeps
    <3>9. CASE SendFails
      BY <3>9, FailsKeep
    <3>10. QED
      BY <2>3, <3>1, <3>2, <3>3, <3>4, <3>5, <3>6, <3>7, <3>8, <3>9 DEF DoNetEvents
  <2>4. CASE UNCHANGED vars
    BY <2>4, StutterKeeps
  <2>5. QED
    BY <2>1, <2>2, <2>3, <2>4 DEF Next, Worker
<1>3. QED
  BY <1>1, <1>2, PTL DEF Spec

\* The variables have their types: no buffer is over its end, no heart over
\* CLIENT_HEART_DEATH_TIME, no position behind the lists.
THEOREM Types == Spec => []TypeOK
<1>1. IInv => TypeOK
  <2> SUFFICES ASSUME IInv PROVE TypeOK
    OBVIOUS
  <2>0. ShapeOK /\ ClientsOK /\ WatchOK /\ EventsOK /\ LeftOK /\ DueOK
    BY Split
  <2>1. \A c \in Clients : conn[c] \in
          [peer : Peers, sent : 0..MaxSent[c], rx : 0..MaxSent[c], tx : 0..TxCap,
           recvBuf : 0..RecvCap, sendBuf : 0..SendCap, dtHeart : 0..(Death - 1),
           quiet : 0..MaxQuiet]
    <3> TAKE c \in Clients
    <3>1. conn[c] \in Conns /\ ConnOK(c, conn[c])
      BY <2>0 DEF ClientsOK, ConnsOK
    <3>2. /\ MaxSent[c] \in Nat /\ TxCap \in Nat /\ RecvCap \in Nat /\ SendCap \in Nat
          /\ Death \in Nat /\ MaxQuiet \in Nat
      BY Numbers DEF MaxQuiet
    <3>3. /\ conn[c].sent \in 0..MaxSent[c] /\ conn[c].rx \in 0..MaxSent[c]
          /\ conn[c].tx \in 0..TxCap /\ conn[c].recvBuf \in 0..RecvCap
          /\ conn[c].sendBuf \in 0..SendCap /\ conn[c].dtHeart \in 0..(Death - 1)
          /\ conn[c].quiet \in 0..MaxQuiet
      BY <3>1, <3>2, ConnTypes DEF ConnOK
    <3>4. QED
      BY <3>1, <3>3 DEF Conns
  <2>2. sending \in 0..NClients /\ copied \in 0..SendCap
    <3>1. CASE sending = 0
      BY <2>0, <3>1, Numbers DEF EventsOK
    <3>2. CASE sending # 0
      <4>1. /\ sending \in Clients /\ copied \in Nat /\ copied <= conn[sending].sendBuf
            /\ conn[sending] \in Conns /\ ConnOK(sending, conn[sending])
        BY <2>0, <3>2, SendingFacts
      <4>2. conn[sending].sendBuf \in Nat /\ conn[sending].sendBuf <= SendCap /\ SendCap \in Nat
        BY <4>1, ConnTypes, Numbers DEF ConnOK
      <4>3. QED
        BY <4>1, <4>2, Numbers
    <3>3. QED
      BY <3>1, <3>2
  <2>3. left \in 0..NClients
    BY <2>0, GoneFacts, Numbers DEF LeftOK, ShapeOK
  <2>4. clients \in Seq(Clients) /\ clientsBuf \in Seq(Clients)
    BY <2>0 DEF ClientsOK, ListsOK
  <2>5. readable \subseteq Clients /\ writable \subseteq Clients /\ watched \subseteq Clients
    BY <2>0 DEF EventsOK, WatchOK
  <2>6. QED
    BY <2>0, <2>1, <2>2, <2>3, <2>4, <2>5 DEF TypeOK, ShapeOK, Pcs
<1>2. QED
  BY <1>1, Inductive, PTL

\* The worker never touches a client that has been deleted: its lists, the sets
\* it watches, the client it sends to and epoll's events hold living clients,
\* each listed once.
THEOREM OnlyLive == Spec => []OnlyLiveClients
<1>1. IInv => OnlyLiveClients
  <2> SUFFICES ASSUME IInv PROVE OnlyLiveClients
    OBVIOUS
  <2>0. ShapeOK /\ ClientsOK /\ WatchOK /\ EventsOK /\ LeftOK /\ DueOK
    BY Split
  <2>1. WatchedAreListed
    BY <2>0, KindsAssumption DEF WatchedAreListed, WatchOK, InRange, ShapeOK
  <2>2. /\ IsInjective(clients \o clientsBuf)
        /\ Range(clients \o clientsBuf) = Range(clients) \cup Range(clientsBuf)
    BY <2>0, ConcatFacts DEF ClientsOK, ListsOK, Listed
  <2>3. Range(clients) \cup Range(clientsBuf) \subseteq Live
    BY <2>0 DEF ClientsOK, ListsOK, Listed
  <2>4. sending # 0 => sending \in Listed
    BY <2>0, SendingFacts
  <2>5. pc = "events" => readable \cup writable \subseteq Listed
    BY <2>0 DEF EventsOK
  <2>6. QED
    BY <2>1, <2>2, <2>3, <2>4, <2>5 DEF OnlyLiveClients
<1>2. QED
  BY <1>1, Inductive, PTL

\* Every complete message is handled and every reply that fits is sent in the
\* round that finds it, but for one client for each that leaves a select server
\* in that round.
THEOREM DueDone == Spec => []DueIsDone
<1>1. IInv => DueIsDone
  <2> SUFFICES ASSUME IInv, pc = "loop"
               PROVE  Cardinality({d[1] : d \in due}) <= IF kind = "select" THEN left ELSE 0
    BY DEF DueIsDone
  <2>0. ShapeOK /\ DueOK
    BY DEF IInv
  <2>1. PICK S \in SUBSET Clients : /\ Cardinality(S) <= MayMiss
                                    /\ \A d \in due : d[1] \in S \/ Follows(d)
    BY <2>0 DEF DueOK
  <2>2. {d[1] : d \in due} \subseteq S
    BY <2>1, NothingFollows
  <2>3. IsFiniteSet(S) /\ Cardinality(S) \in Nat
    BY FiniteClients
  <2>4. Cardinality({d[1] : d \in due}) <= Cardinality(S)
        /\ IsFiniteSet({d[1] : d \in due})
    BY <2>2, <2>3, FS_Subset
  <2>5. Cardinality({d[1] : d \in due}) \in Nat
    BY <2>4, FS_CardinalityType
  <2>6. MayMiss \in Nat
    BY <2>0 DEF MayMiss, ShapeOK
  <2>7. Cardinality({d[1] : d \in due}) <= MayMiss
    BY <2>1, <2>3, <2>4, <2>5, <2>6
  <2>8. QED
    BY <2>7 DEF MayMiss
<1>2. QED
  BY <1>1, Inductive, PTL

\* CheckTime deletes nobody who has spoken in the last CLIENT_HEART_DEATH_TIME,
\* but for the length of one round.
THEOREM HeartEarly == Spec => HeartNotEarly
<1> DEFINE Early == pc = "time" /\ pc' = "sets" => \A c \in Listed \ Range(clients') :
                      conn[c].quiet + MaxLag >= Death
<1>1. IInv /\ [Next]_vars => [Early]_vars
  <2> SUFFICES ASSUME IInv, Next, pc = "time", pc' = "sets", NEW c \in Listed \ Range(clients')
               PROVE  conn[c].quiet + MaxLag >= Death
    OBVIOUS
  <2>0. ClientsOK
    BY Split
  <2>1. CheckTime
    BY DEF Next, Worker, OnRun, DoNetEvents, Environment, Outside, JoinClients, LoopEnds, HandleMsg,
           DoMsgEnds, CleanClients, BuildSets, BuildFromNobody, Wait, WaitFails, Exit, ReadNext, ReadFails,
           WriteNext, ReadEnds, WriteEnds, EventIn, EventFails, EventOut, EventsEnd, SendCopies,
           SendReturns, SendFails, Leaves, RecvSome, Goes
  <2>2. c \in Visited /\ IsDead(c)
    <3>1. Range(clients') = Listed \ {d \in Visited : IsDead(d)}
      BY <2>0, <2>1, CheckTimeFacts DEF Listed
    <3>2. QED
      BY <3>1
  <2>3. c \in Clients
    BY <2>0 DEF ClientsOK, ListsOK, Live
  <2>4. conn[c].dtHeart + oldTime >= Death
    BY <2>2 DEF IsDead
  <2>5. \/ conn[c].quiet = MaxQuiet
        \/ conn[c].dtHeart + oldTime <= conn[c].quiet + MaxLag
    BY <2>0, <2>3 DEF ClientsOK, EarlyOK
  <2>6. conn[c].quiet \in Nat /\ conn[c].dtHeart \in Nat /\ oldTime \in Nat
        /\ Death \in Nat /\ MaxLag \in Nat
    BY <2>0, <2>3, ConnTypes, Numbers DEF ClientsOK, ConnsOK
  <2>7. MaxQuiet \in Nat /\ MaxQuiet >= Death
    <3>1. MaxLag * NClients \in Nat
      BY Numbers
    <3>2. QED
      BY <2>6, <3>1 DEF MaxQuiet
  <2>8. QED
    BY <2>4, <2>5, <2>6, <2>7
<1>2. QED
  BY <1>1, Inductive, PTL DEF Spec, HeartNotEarly

\* CheckTime leaves nobody who has been silent for longer than
\* CLIENT_HEART_DEATH_TIME and one round for each client of the server.
THEOREM HeartLate == Spec => HeartNotLate
<1> DEFINE NotLate == pc = "time" /\ pc' = "sets" => \A c \in Range(clients') :
                        conn[c].quiet < MaxQuiet
<1>1. IInv /\ [Next]_vars => [NotLate]_vars
  <2> SUFFICES ASSUME IInv, Next, pc = "time", pc' = "sets", NEW c \in Range(clients')
               PROVE  conn[c].quiet < MaxQuiet
    OBVIOUS
  <2>0. ClientsOK
    BY Split
  <2>1. CheckTime
    BY DEF Next, Worker, OnRun, DoNetEvents, Environment, Outside, JoinClients, LoopEnds, HandleMsg,
           DoMsgEnds, CleanClients, BuildSets, BuildFromNobody, Wait, WaitFails, Exit, ReadNext, ReadFails,
           WriteNext, ReadEnds, WriteEnds, EventIn, EventFails, EventOut, EventsEnd, SendCopies,
           SendReturns, SendFails, Leaves, RecvSome, Goes
  <2>2. ClientsOK' /\ oldTime' = 0
    BY <2>0, <2>1, CheckTimeKeeps DEF CheckTime
  <2> DEFINE gone == {d \in Visited : IsDead(d)}
             bound == Lag(Cardinality(Gone'))
  <2>3. c \in Listed'
    BY DEF Listed
  <2>4. /\ c \in Clients /\ c \notin gone /\ conn'[c].quiet = conn[c].quiet
        /\ conn'[c] \in Conns /\ ConnOK(c, conn'[c])
    BY <2>0, <2>1, <2>3, CheckTimeFacts DEF Listed
  <2>5. conn'[c].quiet <= conn'[c].dtHeart + oldTime' + bound
    BY <2>2, <2>3 DEF ClientsOK, LateOK, Lag
  <2>6. c \notin Gone'
    BY <2>2, <2>3 DEF ClientsOK, ListsOK, Live, Gone
  <2>7. Cardinality(Gone') \in Nat /\ Cardinality(Gone') + 1 <= NClients
    BY <2>4, <2>6, GoneFacts, Numbers
  <2>8. bound \in Nat /\ bound <= MaxLag * NClients /\ MaxLag * NClients \in Nat
    <3> DEFINE g == Cardinality(Gone')
    <3>1. g \in Nat /\ NClients - 1 \in Nat /\ g <= NClients - 1
      BY <2>7, Numbers
    <3> HIDE DEF g
    <3>2. Lag(g) \in Nat /\ Lag(g) <= Lag(NClients - 1)
      BY <3>1, LagFacts
    <3>3. 1 + (NClients - 1) = NClients
      BY Numbers
    <3>4. Lag(NClients - 1) = MaxLag * NClients
      BY <3>3 DEF Lag
    <3>5. MaxLag * NClients \in Nat
      BY Numbers
    <3>6. QED
      BY <3>2, <3>4, <3>5 DEF g
  <2> HIDE DEF bound
  <2>9. conn'[c].quiet \in Nat /\ conn'[c].dtHeart \in Nat /\ conn'[c].dtHeart < Death
        /\ Death \in Nat
    BY <2>4, ConnTypes, Numbers DEF ConnOK
  <2> DEFINE total == MaxLag * NClients
  <2>10. MaxQuiet = Death + total
    BY DEF MaxQuiet
  <2> HIDE DEF total
  <2>11. bound <= total /\ total \in Nat
    BY <2>8 DEF total
  <2>12. QED
    BY <2>2, <2>4, <2>5, <2>8, <2>9, <2>10, <2>11
<1>2. QED
  BY <1>1, Inductive, PTL DEF Spec, HeartNotLate


-----------------------------------------------------------------------------
(* Erase and Visits are written in closed form; these are the loops of     *)
(* CheckTime that they stand for.                                          *)

\* A row has one beginning.
LEMMA RowIsOne ==
  ASSUME NEW n \in Nat, NEW k \in 1..n, NEW j \in 1..n,
         k = 1 \/ ~IsDead(clients[k - 1]), \A m \in k..(n - 1) : IsDead(clients[m]),
         j = 1 \/ ~IsDead(clients[j - 1]), \A m \in j..(n - 1) : IsDead(clients[m])
  PROVE  k = j
<1>1. ASSUME k < j PROVE FALSE
  <2>1. j - 1 \in k..(n - 1) /\ j # 1
    BY <1>1
  <2>2. QED
    BY <2>1
<1>2. ASSUME j < k PROVE FALSE
  <2>1. k - 1 \in j..(n - 1) /\ k # 1
    BY <1>2
  <2>2. QED
    BY <2>1
<1>3. QED
  BY <1>1, <1>2

\* for (n = 0; ...; n++) with an erase(begin() + n) that is followed by the n++:
\* the first client is visited, and every other one unless the client in front
\* of it has been visited and erased.
THEOREM VisitsLoop ==
  /\ Visits(1)
  /\ \A n \in Nat \ {0} : Visits(n + 1) <=> ~(Visits(n) /\ IsDead(clients[n]))
<1>1. Visits(1)
  <2>1. 1 \in 1..1 /\ (\A m \in 1..(1 - 1) : FALSE) /\ (1 - 1) % 2 = 0
    OBVIOUS
  <2>2. QED
    BY <2>1 DEF Visits
<1>2. ASSUME NEW n \in Nat, n >= 1 PROVE Visits(n + 1) <=> ~(Visits(n) /\ IsDead(clients[n]))
  <2>0. n + 1 \in Nat /\ (n + 1) - 1 = n
    BY <1>2
  <2>1. CASE ~IsDead(clients[n])
    <3>1. /\ n + 1 \in 1..(n + 1) /\ (\A m \in (n + 1)..((n + 1) - 1) : FALSE)
          /\ ((n + 1) - (n + 1)) % 2 = 0
      BY <1>2
    <3>2. Visits(n + 1)
      BY <2>0, <2>1, <3>1 DEF Visits
    <3>3. QED
      BY <2>1, <3>2
  <2>2. CASE IsDead(clients[n])
    <3>1. PICK k \in 1..n : /\ k = 1 \/ ~IsDead(clients[k - 1])
                            /\ \A m \in k..(n - 1) : IsDead(clients[m])
      BY <1>2, RowStart
    <3>2. k \in Nat /\ k \in 1..(n + 1) /\ \A m \in k..((n + 1) - 1) : IsDead(clients[m])
      <4>1. k \in Nat /\ k \in 1..(n + 1) /\ \A m \in k..((n + 1) - 1) : m \in k..(n - 1) \/ m = n
        BY <1>2, <3>1
      <4>2. QED
        BY <2>2, <3>1, <4>1
    <3>3. Visits(n) <=> (n - k) % 2 = 0
      <4>1. ASSUME NEW j \in 1..n, j = 1 \/ ~IsDead(clients[j - 1]),
                   \A m \in j..(n - 1) : IsDead(clients[m])
            PROVE  j = k
        BY <1>2, <3>1, <4>1, RowIsOne
      <4>2. QED
        BY <3>1, <4>1 DEF Visits
    <3>4. Visits(n + 1) <=> ((n + 1) - k) % 2 = 0
      <4>1. ASSUME NEW j \in 1..(n + 1), j = 1 \/ ~IsDead(clients[j - 1]),
                   \A m \in j..((n + 1) - 1) : IsDead(clients[m])
            PROVE  j = k
        BY <2>0, <3>1, <3>2, <4>1, RowIsOne
      <4>2. QED
        BY <3>1, <3>2, <4>1 DEF Visits
    <3>5. (n - k) % 2 = 0 <=> ((n + 1) - k) % 2 # 0
      BY <1>2, <3>2
    <3>6. QED
      BY <2>2, <3>3, <3>4, <3>5
  <2>3. QED
    BY <2>1, <2>2
<1>3. QED
  BY <1>1, <1>2


\* A client that stays has the number of those that stay up to it.
LEMMA EraseRanks ==
  ASSUME NEW list \in Seq(Clients), NEW gone
  PROVE  /\ Erase(list, gone) \in Seq(Clients)
         /\ Len(Erase(list, gone)) = Cardinality(Kept(list, gone))
         /\ \A i \in Kept(list, gone) : Erase(list, gone)[Rank(Kept(list, gone), i)] = list[i]
<1> DEFINE K == Kept(list, gone)
           pos(n) == CHOOSE i \in K : Rank(K, i) = n
           new == Erase(list, gone)
<1>1. K \in SUBSET (1..Len(list)) /\ Len(list) \in Nat /\ DOMAIN list = 1..Len(list)
  BY DEF Kept
<1>2. /\ Cardinality(K) \in Nat
      /\ \A i \in K : Rank(K, i) \in 1..Cardinality(K)
      /\ \A i, j \in K : i < j => Rank(K, i) < Rank(K, j)
      /\ \A n \in 1..Cardinality(K) : \E i \in K : Rank(K, i) = n
  BY <1>1, Ranks
<1>3. \A n \in 1..Cardinality(K) : pos(n) \in K /\ Rank(K, pos(n)) = n
  BY <1>2
<1>4. new = [n \in 1..Cardinality(K) |-> list[pos(n)]]
  BY Zenon DEF Erase, Kept, Rank
<1> HIDE DEF K, new, pos
<1>5. \A i, j \in K : Rank(K, i) = Rank(K, j) => i = j
  <2>1. \A i \in K : i \in Nat /\ Rank(K, i) \in Nat
    BY <1>1, <1>2
  <2>2. QED
    BY <1>2, <2>1
<1>6. \A n \in 1..Cardinality(K) : list[pos(n)] \in Clients
  <2>1. \A i \in 1..Len(list) : list[i] \in Clients
    BY ElementOfSeq
  <2>2. \A n \in 1..Cardinality(K) : pos(n) \in 1..Len(list)
    BY <1>1, <1>3
  <2>3. QED
    BY <2>1, <2>2
<1>7. new \in Seq(Clients) /\ Len(new) = Cardinality(K)
  BY <1>2, <1>4, <1>6
<1>8. \A i \in K : new[Rank(K, i)] = list[i]
  <2> TAKE i \in K
  <2>1. Rank(K, i) \in 1..Cardinality(K)
    BY <1>2
  <2>2. pos(Rank(K, i)) = i
    BY <1>3, <1>5, <2>1
  <2>3. QED
    BY <1>4, <2>1, <2>2
<1>9. QED
  BY <1>7, <1>8 DEF K, new

\* One erase after the other, from the front: a client is left out if it is gone,
\* and else comes behind those that stay.
THEOREM EraseLoop ==
  ASSUME NEW list \in Seq(Clients), NEW c \in Clients, NEW gone
  PROVE  /\ Erase(<<>>, gone) = <<>>
         /\ Erase(Append(list, c), gone) = IF c \in gone THEN Erase(list, gone)
                                                         ELSE Append(Erase(list, gone), c)
<1>1. Erase(<<>>, gone) = <<>>
  <2>1. Kept(<<>>, gone) = {}
    BY DEF Kept
  <2>2. <<>> \in Seq(Clients)
    OBVIOUS
  <2>3. /\ Erase(<<>>, gone) \in Seq(Clients)
        /\ Len(Erase(<<>>, gone)) = Cardinality(Kept(<<>>, gone))
    BY <2>2, EraseRanks
  <2>4. Len(Erase(<<>>, gone)) = 0
    BY <2>1, <2>3, FS_EmptySet
  <2>5. QED
    BY <2>3, <2>4
<1> DEFINE m == Len(list)
           longer == Append(list, c)
           K == Kept(list, gone)
           L == Kept(longer, gone)
           old == Erase(list, gone)
           new == Erase(longer, gone)
<1>2. /\ m \in Nat /\ DOMAIN list = 1..m /\ longer \in Seq(Clients) /\ DOMAIN longer = 1..(m + 1)
      /\ longer[m + 1] = c /\ \A i \in 1..m : longer[i] = list[i]
  OBVIOUS
<1>3. /\ old \in Seq(Clients) /\ Len(old) = Cardinality(K) /\ \A i \in K : old[Rank(K, i)] = list[i]
      /\ new \in Seq(Clients) /\ Len(new) = Cardinality(L) /\ \A i \in L : new[Rank(L, i)] = longer[i]
  BY <1>2, EraseRanks
<1>4. K = {i \in 1..m : list[i] \notin gone} /\ L = {i \in 1..(m + 1) : longer[i] \notin gone}
  BY <1>2 DEF Kept
<1> HIDE DEF m, longer, K, L, old, new
<1>5. \A i \in 1..(m + 1) : i \in 1..m \/ i = m + 1
  BY <1>2
<1>6. K \in SUBSET (1..m) /\ m + 1 \in 1..(m + 1) /\ m + 1 \notin K /\ \A i \in 1..m : i \in 1..(m + 1)
  BY <1>2, <1>4
<1>7. /\ Cardinality(K) \in Nat
      /\ \A i \in K : Rank(K, i) \in 1..Cardinality(K)
      /\ \A n \in 1..Cardinality(K) : \E i \in K : Rank(K, i) = n
  BY <1>2, <1>6, Ranks
<1>8. CASE c \in gone
  <2>1. L = K
    BY <1>2, <1>4, <1>5, <1>6, <1>8
  <2>2. \A n \in 1..Len(new) : new[n] = old[n]
    <3> TAKE n \in 1..Len(new)
    <3>1. PICK i \in K : Rank(K, i) = n
      BY <1>3, <1>7, <2>1
    <3>2. new[n] = longer[i] /\ old[n] = list[i] /\ i \in 1..m
      BY <1>3, <1>6, <2>1, <3>1
    <3>3. QED
      BY <1>2, <3>2
  <2>3. new = old
    BY <1>3, <2>1, <2>2, SeqEqual
  <2>4. QED
    BY <1>1, <1>8, <2>3 DEF new, old, longer
<1>9. CASE c \notin gone
  <2>1. L = K \cup {m + 1}
    BY <1>2, <1>4, <1>5, <1>6, <1>9
  <2>2. IsFiniteSet(K)
    BY <1>2, <1>6, Interval, FS_Subset
  <2>3. Cardinality(L) = Cardinality(K) + 1
    BY <1>6, <2>1, <2>2, FS_AddElement
  <2>4. ASSUME NEW i \in K PROVE Rank(L, i) = Rank(K, i)
    <3>1. i \in 1..m /\ ~(m + 1 <= i)
      BY <1>2, <1>6
    <3>2. {j \in L : j <= i} = {j \in K : j <= i}
      BY <2>1, <3>1
    <3>3. QED
      BY <3>2 DEF Rank
  <2>5. Rank(L, m + 1) = Cardinality(L)
    <3>1. \A j \in L : j <= m + 1
      BY <1>2, <1>4
    <3>2. {j \in L : j <= m + 1} = L
      BY <3>1
    <3>3. QED
      BY <3>2 DEF Rank
  <2> DEFINE app == Append(old, c)
  <2>6. /\ app \in Seq(Clients) /\ Len(app) = Cardinality(K) + 1 /\ app[Cardinality(K) + 1] = c
        /\ \A n \in 1..Cardinality(K) : app[n] = old[n]
    BY <1>3, AppendProperties
  <2> HIDE DEF app
  <2>7. ASSUME NEW n \in 1..(Cardinality(K) + 1) PROVE new[n] = app[n]
    <3>1. CASE n = Cardinality(K) + 1
      <4>1. m + 1 \in L /\ Rank(L, m + 1) = n
        BY <2>1, <2>3, <2>5, <3>1
      <4>2. new[n] = longer[m + 1]
        BY <1>3, <4>1
      <4>3. QED
        BY <1>2, <2>6, <3>1, <4>2
    <3>2. CASE n # Cardinality(K) + 1
      <4>1. n \in 1..Cardinality(K)
        BY <1>7, <2>7, <3>2
      <4>2. PICK i \in K : Rank(K, i) = n
        BY <1>7, <4>1
      <4>3. Rank(L, i) = n /\ i \in L /\ i \in 1..m
        BY <1>6, <2>1, <2>4, <4>2
      <4>4. new[n] = longer[i] /\ old[n] = list[i]
        BY <1>3, <4>2, <4>3
      <4>5. QED
        BY <1>2, <2>6, <4>1, <4>3, <4>4
    <3>3. QED
      BY <3>1, <3>2
  <2>8. Len(new) = Len(app) /\ \A n \in 1..Len(new) : new[n] = app[n]
    BY <1>3, <2>3, <2>6, <2>7
  <2>9. new = app
    BY <1>3, <2>6, <2>8, SeqEqual
  <2>10. QED
    BY <1>1, <1>9, <2>9 DEF new, old, longer, app
<1>10. QED
  BY <1>8, <1>9

=============================================================================
