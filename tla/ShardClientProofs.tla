------------------------- MODULE ShardClientProofs -------------------------
(***************************************************************************)
(* The safety of ShardClient, for any number of clients, hosts and calls:  *)
(* which connections the pool hands out (PoolInv), what the tables list    *)
(* (TickInv), and what the calls, each under its own ID (IdInv), leave in  *)
(* the shard's log (WriteInv, LeaderInv).                                  *)
(***************************************************************************)
EXTENDS ShardClient, FiniteSetTheorems, TLAPS

(* Sorting.                                                                 *)

\* A set of numbers has a least member.
LEMMA LeastMember ==
  ASSUME NEW S, S \subseteq Nat, S # {}
  PROVE  \E r \in S : \A q \in S : r <= q
<1>1. PICK r \in S : \A q \in S : <<q, r>> \notin OpToRel(<, Nat)
  BY WFMin, NatLessThanWellFounded, Zenon
<1>2. ASSUME NEW q \in S PROVE r <= q
  <2>1. q < r => <<q, r>> \in {p \in Nat \X Nat : p[1] < p[2]}
    OBVIOUS
  <2>2. <<q, r>> \notin {p \in Nat \X Nat : p[1] < p[2]}
    BY <1>1, Zenon DEF OpToRel
  <2> QED
    BY <2>1, <2>2
<1> QED
  BY <1>2, Zenon

\* A finite set whose members have distinct keys can be listed by key: a least set that
\* cannot would be one when its first member is taken away.
LEMMA SortExists ==
  ASSUME NEW S, IsFiniteSet(S), NEW f \in [S -> Nat],
         \A x, y \in S : f[x] = f[y] => x = y
  PROVE  \E s \in [1 .. Cardinality(S) -> S] :
             \A i \in 2 .. Cardinality(S) : f[s[i - 1]] < f[s[i]]
<1> DEFINE Lists(T, s) == \A i \in 2 .. Cardinality(T) : f[s[i - 1]] < f[s[i]]
           Ok(T) == \E s \in [1 .. Cardinality(T) -> T] : Lists(T, s)
           Bad == {n \in Nat : \E T \in SUBSET S : Cardinality(T) = n /\ ~Ok(T)}
<1>1. SUFFICES ASSUME ~Ok(S) PROVE FALSE
  OBVIOUS
<1>2. Cardinality(S) \in Bad
  BY <1>1, FS_CardinalityType, Zenon
<1>3. PICK n \in Bad : \A m \in Bad : n <= m
  <2>1. Bad \subseteq Nat /\ Bad # {}
    BY <1>2, Zenon
  <2> QED
    BY <2>1, LeastMember, Zenon
<1>4. PICK T \in SUBSET S : Cardinality(T) = n /\ ~Ok(T)
  BY <1>3, Zenon
<1>5. IsFiniteSet(T) /\ n \in Nat
  BY <1>3, <1>4, FS_Subset, Zenon
<1>6. T # {}
  <2>1. SUFFICES ASSUME T = {} PROVE Ok(T)
    BY Zenon, <1>4
  <2>2. Cardinality(T) = 0
    BY Zenon, <2>1, FS_EmptySet
  <2>3. [i \in 1 .. 0 |-> 0] \in [1 .. Cardinality(T) -> T] /\ 2 .. Cardinality(T) = {}
    BY <2>2
  <2> QED
    BY <2>3, Zenon
<1>7. PICK x \in T : \A y \in T : f[x] <= f[y]
  <2> DEFINE V == {f[y] : y \in T}
  <2>1. V \subseteq Nat /\ V # {}
    BY <1>6
  <2>2. PICK v \in V : \A u \in V : v <= u
    BY <2>1, LeastMember, Zenon
  <2> QED
    BY <2>2
<1> DEFINE U == T \ {x}
<1>8. IsFiniteSet(U) /\ Cardinality(U) = n - 1 /\ n - 1 \in Nat
  <2>1. IsFiniteSet(U) /\ Cardinality(U) = n - 1
    BY Zenon, <1>4, <1>5, <1>7, FS_RemoveElement
  <2>2. Cardinality(U) \in Nat
    BY Zenon, <2>1, FS_CardinalityType
  <2> QED
    BY Zenon, <2>1, <2>2
<1>9. Ok(U)
  <2>1. n - 1 \notin Bad
    BY <1>3, <1>5, <1>8
  <2>2. U \in SUBSET S
    OBVIOUS
  <2> QED
    BY <1>8, <2>1, <2>2, Zenon
<1>10. PICK s \in [1 .. Cardinality(U) -> U] : Lists(U, s)
  BY <1>9, Zenon
<1> DEFINE t == [i \in 1 .. n |-> IF i = 1 THEN x ELSE s[i - 1]]
<1>11. ASSUME NEW i \in 2 .. n PROVE t[i] = s[i - 1] /\ s[i - 1] \in U
  <2>1. i - 1 \in 1 .. Cardinality(U) /\ i \in 1 .. n /\ i # 1
    BY <1>5, <1>8
  <2>2. s[i - 1] \in U
    BY <2>1, <1>10, Zenon
  <2> QED
    BY Zenon, <2>1, <2>2
<1>12. t \in [1 .. n -> T]
  <2>1. ASSUME NEW i \in 1 .. n PROVE t[i] \in T
    <3>1. i = 1 \/ i \in 2 .. n
      BY <1>5
    <3>2. i = 1 => t[i] = x
      OBVIOUS
    <3>3. i \in 2 .. n => t[i] \in T
      BY <1>11, Zenon
    <3> QED
      BY Zenon, <1>7, <3>1, <3>2, <3>3
  <2> QED
    BY <2>1, Zenon
<1>13. ASSUME NEW i \in 2 .. n PROVE f[t[i - 1]] < f[t[i]]
  <2>1. t[i] = s[i - 1] /\ s[i - 1] \in U
    BY <1>11, Zenon
  <2>2. CASE i = 2
    <3>1. t[i - 1] = x /\ f[x] \in Nat /\ f[s[i - 1]] \in Nat /\ f[x] # f[s[i - 1]]
      BY <2>1, <2>2, <1>5, <1>7
    <3>2. f[x] <= f[s[i - 1]]
      BY Zenon, <2>1, <1>7
    <3> QED
      BY <2>1, <3>1, <3>2
  <2>3. CASE i # 2
    <3>1. t[i - 1] = s[(i - 1) - 1] /\ i - 1 \in 2 .. Cardinality(U)
      BY <2>3, <1>5, <1>8
    <3>2. f[s[(i - 1) - 1]] < f[s[i - 1]]
      BY <1>10, <3>1, Zenon
    <3> QED
      BY Zenon, <2>1, <3>1, <3>2
  <2> QED
    BY Zenon, <2>2, <2>3
<1>14. Ok(T)
  <2>1. t \in [1 .. Cardinality(T) -> T]
    BY <1>4, <1>12, Zenon
  <2>2. Lists(T, t)
    BY <1>4, <1>13, Zenon
  <2> QED
    BY <2>1, <2>2, Zenon
<1> QED
  BY <1>4, <1>14, Zenon

-----------------------------------------------------------------------------
(* The pool.                                                                *)

Entry == [host : Host, conn : Conn]

Distinct(p) ==
    \A i, j \in DOMAIN p : p[i].host = p[j].host \/ p[i].conn = p[j].conn => i = j

\* The entries have hosts and connections of their own, and no connection is closed.
PoolInv ==
    /\ pool \in Seq(Entry) /\ Len(pool) <= PoolSize /\ Distinct(pool)
    /\ closed \subseteq Conn /\ \A i \in DOMAIN pool : pool[i].conn \notin closed

\* What is left of the pool without an entry.
LEMMA OthersAre ==
  ASSUME pool \in Seq(Entry), NEW i \in DOMAIN pool
  PROVE  /\ Others(i) \in Seq(Entry) /\ Len(Others(i)) = Len(pool) - 1
         /\ \A j \in DOMAIN Others(i) :
               \E k \in DOMAIN pool : /\ k = IF j < i THEN j ELSE j + 1
                                      /\ k # i /\ Others(i)[j] = pool[k]
<1> DEFINE a == SubSeq(pool, 1, i - 1)
           b == SubSeq(pool, i + 1, Len(pool))
<1>1. i \in 1 .. Len(pool) /\ Len(pool) \in Nat
  OBVIOUS
<1>2. /\ a \in Seq(Entry) /\ Len(a) = i - 1
      /\ \A j \in 1 .. i - 1 : a[j] = pool[j]
  BY <1>1
<1>3. /\ b \in Seq(Entry) /\ Len(b) = Len(pool) - i
      /\ \A j \in 1 .. Len(pool) - i : b[j] = pool[i + j]
  BY <1>1
<1> HIDE DEF a, b
<1>4. Others(i) = a \o b
  BY Zenon DEF Others, a, b
<1>5. /\ a \o b \in Seq(Entry) /\ Len(a \o b) = Len(pool) - 1
      /\ \A j \in 1 .. i - 1 : (a \o b)[j] = a[j]
      /\ \A j \in i .. Len(pool) - 1 : (a \o b)[j] = b[j - (i - 1)]
  BY <1>1, <1>2, <1>3, SMTT(20)
<1>6. ASSUME NEW j \in 1 .. Len(pool) - 1
      PROVE  (a \o b)[j] = pool[IF j < i THEN j ELSE j + 1]
  <2>1. CASE j < i
    BY <2>1, <1>1, <1>2, <1>5
  <2>2. CASE ~(j < i)
    <3>1. j - (i - 1) \in 1 .. Len(pool) - i /\ j \in i .. Len(pool) - 1
          /\ i + (j - (i - 1)) = j + 1
      BY <2>2, <1>1
    <3> QED
      BY <2>2, <3>1, <1>3, <1>5, Zenon
  <2> QED
    BY <2>1, <2>2, Zenon
<1> HIDE DEF Others
<1> DEFINE o == a \o b
<1>7. DOMAIN o = 1 .. Len(pool) - 1 /\ DOMAIN pool = 1 .. Len(pool)
  BY <1>5
<1>8. \A j \in 1 .. Len(pool) - 1 : o[j] = pool[IF j < i THEN j ELSE j + 1]
  BY <1>6, Zenon
<1> HIDE DEF o
<1>9. ASSUME NEW j \in DOMAIN o
      PROVE  \E k \in DOMAIN pool : /\ k = IF j < i THEN j ELSE j + 1
                                    /\ k # i /\ o[j] = pool[k]
  <2> DEFINE k == IF j < i THEN j ELSE j + 1
  <2>1. k \in DOMAIN pool /\ k # i
    BY <1>1, <1>7
  <2>2. o[j] = pool[k]
    BY Zenon, <1>7, <1>8
  <2> QED
    BY Zenon, <2>1, <2>2
<1>10. /\ o \in Seq(Entry) /\ Len(o) = Len(pool) - 1
       /\ Others(i) = o
  BY Zenon, <1>4, <1>5 DEF o
<1> QED
  BY Zenon, <1>9, <1>10

\* Appending an entry with a host and a connection of its own.
LEMMA AppendDistinct ==
  ASSUME NEW p \in Seq(Entry), NEW e \in Entry, Distinct(p),
         \A i \in DOMAIN p : p[i].host # e.host /\ p[i].conn # e.conn
  PROVE  /\ Append(p, e) \in Seq(Entry) /\ Distinct(Append(p, e))
         /\ Len(Append(p, e)) = Len(p) + 1
         /\ \A i \in DOMAIN Append(p, e) :
               Append(p, e)[i] = e \/ \E j \in DOMAIN p : Append(p, e)[i] = p[j]
<1> DEFINE q == Append(p, e)
<1>1. /\ q \in Seq(Entry) /\ Len(q) = Len(p) + 1 /\ Len(p) \in Nat
      /\ DOMAIN q = 1 .. Len(p) + 1 /\ DOMAIN p = 1 .. Len(p)
      /\ q[Len(p) + 1] = e /\ \A i \in 1 .. Len(p) : q[i] = p[i]
  OBVIOUS
<1> HIDE DEF q
<1>2. \A i \in DOMAIN q : i \in DOMAIN p \/ i = Len(p) + 1
  BY <1>1
<1>3. Distinct(q)
  BY <1>1, <1>2 DEF Distinct
<1>4. \A i \in DOMAIN q : q[i] = e \/ \E j \in DOMAIN p : q[i] = p[j]
  BY Zenon, <1>1, <1>2
<1> QED
  BY Zenon, <1>1, <1>3, <1>4 DEF q

\* Taking an entry away leaves distinct entries.
LEMMA OthersDistinct ==
  ASSUME PoolInv, NEW i \in DOMAIN pool
  PROVE  /\ Others(i) \in Seq(Entry) /\ Len(Others(i)) = Len(pool) - 1
         /\ Distinct(Others(i))
         /\ \A j \in DOMAIN Others(i) : \E k \in DOMAIN pool : k # i /\ Others(i)[j] = pool[k]
<1>1. pool \in Seq(Entry) /\ Distinct(pool)
  BY Zenon DEF PoolInv
<1> DEFINE o == Others(i)
<1>2. /\ o \in Seq(Entry) /\ Len(o) = Len(pool) - 1
      /\ \A j \in DOMAIN o :
            \E k \in DOMAIN pool : /\ k = IF j < i THEN j ELSE j + 1
                                   /\ k # i /\ o[j] = pool[k]
  BY Zenon, <1>1, OthersAre
<1> HIDE DEF o
<1>3. ASSUME NEW j \in DOMAIN o, NEW l \in DOMAIN o, o[j].host = o[l].host \/ o[j].conn = o[l].conn
      PROVE  j = l
  <2>1. PICK k \in DOMAIN pool : k = (IF j < i THEN j ELSE j + 1) /\ o[j] = pool[k]
    BY Zenon, <1>2
  <2>2. PICK m \in DOMAIN pool : m = (IF l < i THEN l ELSE l + 1) /\ o[l] = pool[m]
    BY Zenon, <1>2
  <2>3. k = m
    BY <2>1, <2>2, <1>1, <1>3, Zenon DEF Distinct
  <2>4. j \in Nat /\ l \in Nat /\ i \in Nat
    BY <1>1, <1>2
  <2> QED
    BY <2>1, <2>2, <2>3, <2>4
<1>4. Distinct(o)
  BY Zenon, <1>3 DEF Distinct
<1>5. \A j \in DOMAIN o : \E k \in DOMAIN pool : k # i /\ o[j] = pool[k]
  BY Zenon, <1>2
<1> QED
  BY Zenon, <1>2, <1>4, <1>5 DEF o

\* A connection that is free is in no entry.
LEMMA FreeIsFree ==
  ASSUME Conn \ InUse # {}
  PROVE  FreeConn \in Conn /\ FreeConn \notin InUse
BY Zenon DEF FreeConn

\* An entry that is used moves to the end (lru.Get).
LEMMA UsedPool ==
  ASSUME PoolInv, NEW i \in DOMAIN pool, pool' = Used(i), closed' = closed
  PROVE  PoolInv'
<1>1. /\ pool \in Seq(Entry) /\ Distinct(pool) /\ Len(pool) \in Nat /\ pool[i] \in Entry
      /\ \A j \in DOMAIN pool : pool[j].conn \notin closed
  BY DEF PoolInv
<1> DEFINE o == Others(i)
<1>2. /\ o \in Seq(Entry) /\ Len(o) = Len(pool) - 1 /\ Distinct(o)
      /\ \A j \in DOMAIN o : \E k \in DOMAIN pool : k # i /\ o[j] = pool[k]
  BY Zenon, OthersDistinct
<1> HIDE DEF o
<1>3. \A j \in DOMAIN o : o[j].host # pool[i].host /\ o[j].conn # pool[i].conn
  BY <1>1, <1>2, Zenon DEF Distinct
<1>4. pool' = Append(o, pool[i])
  BY Zenon DEF Used, o
<1>5. /\ pool' \in Seq(Entry) /\ Distinct(pool') /\ Len(pool') = Len(o) + 1
      /\ \A j \in DOMAIN pool' : pool'[j] = pool[i] \/ \E l \in DOMAIN o : pool'[j] = o[l]
  BY <1>1, <1>2, <1>3, <1>4, AppendDistinct
<1>6. \A j \in DOMAIN pool' : pool'[j].conn \notin closed'
  BY <1>1, <1>2, <1>5
<1>7. Len(pool') = Len(pool)
  BY <1>1, <1>2, <1>5
<1> QED
  BY Zenon, <1>5, <1>6, <1>7 DEF PoolInv

\* A connection that is dialed is added, in the place of the host's entry or of the least
\* recent one, whose connection alone is closed (lru.Add).
LEMMA DialPool ==
  ASSUME PoolInv, NEW h \in Host, Dial(h)
  PROVE  PoolInv'
<1>1. /\ pool \in Seq(Entry) /\ Distinct(pool) /\ Len(pool) \in Nat /\ Len(pool) <= PoolSize
      /\ closed \subseteq Conn /\ \A j \in DOMAIN pool : pool[j].conn \notin closed
  BY DEF PoolInv
<1> DEFINE k == Kept(h)
           x == FreeConn
           e == [host |-> h, conn |-> x]
           full == Len(k) = PoolSize
           p == IF full THEN Tail(k) ELSE k
           out == IF full THEN {Head(k).conn} ELSE {}
<1>2. x \in Conn /\ x \notin InUse
  BY Zenon, FreeIsFree DEF Dial
<1>3. pool' = Append(p, e) /\ closed' = (closed \cap InUse) \cup out
  BY Zenon DEF Dial, Added
<1>4. /\ k \in Seq(Entry) /\ Len(k) <= PoolSize /\ Distinct(k)
      /\ \A j \in DOMAIN k : k[j].host # h /\ \E l \in DOMAIN pool : k[j] = pool[l]
  <2>1. CASE Pooled(h) = {}
    BY Zenon, <1>1, <2>1 DEF Kept, Pooled
  <2>2. CASE Pooled(h) # {}
    <3> DEFINE i == CHOOSE i \in Pooled(h) : TRUE
    <3>1. i \in DOMAIN pool /\ pool[i].host = h
      BY Zenon, <2>2 DEF Pooled
    <3> HIDE DEF i
    <3>2. k = Others(i)
      BY Zenon, <2>2 DEF Kept, i
    <3> DEFINE o == Others(i)
    <3>3. /\ o \in Seq(Entry) /\ Len(o) = Len(pool) - 1 /\ Distinct(o)
          /\ \A j \in DOMAIN o : \E l \in DOMAIN pool : l # i /\ o[j] = pool[l]
      BY Zenon, <3>1, OthersDistinct
    <3> HIDE DEF o
    <3>4. \A j \in DOMAIN o : o[j].host # h /\ \E l \in DOMAIN pool : o[j] = pool[l]
      BY <1>1, <3>1, <3>3, Zenon DEF Distinct
    <3>5. Len(o) <= PoolSize
      BY <1>1, <3>3, PoolSizeAssumption
    <3> QED
      BY <3>2, <3>3, <3>4, <3>5 DEF o
  <2> QED
    BY Zenon, <2>1, <2>2
<1> HIDE DEF k, x
<1>5. /\ p \in Seq(Entry) /\ Len(p) < PoolSize /\ Distinct(p) /\ out \subseteq Conn
      /\ \A j \in DOMAIN p : \E l \in DOMAIN k : p[j] = k[l]
      /\ \A j \in DOMAIN p : p[j].conn \notin out
  <2>1. CASE full
    <3> DEFINE q == Tail(k)
    <3>1. Len(k) \in Nat \ {0} /\ k # <<>> /\ DOMAIN k = 1 .. Len(k)
      BY <1>4, <2>1, PoolSizeAssumption
    <3>2. /\ q \in Seq(Entry) /\ Len(q) = Len(k) - 1 /\ DOMAIN q = 1 .. Len(k) - 1
          /\ \A j \in 1 .. Len(k) - 1 : q[j] = k[j + 1]
          /\ Head(k) = k[1] /\ k[1] \in Entry
      BY <1>4, <3>1
    <3>3. \A j \in DOMAIN q : j + 1 \in DOMAIN k /\ j + 1 # 1 /\ q[j] = k[j + 1]
      BY <3>1, <3>2
    <3> HIDE DEF q
    <3>4. \A j, l \in DOMAIN q : j + 1 = l + 1 => j = l
      BY <3>1, <3>2
    <3>5. Distinct(q)
      BY <1>4, <3>3, <3>4 DEF Distinct
    <3>6. 1 \in DOMAIN k
      BY <3>1
    <3>7. \A j \in DOMAIN q : q[j].conn # k[1].conn
      BY <1>4, <3>3, <3>6 DEF Distinct
    <3>8. p = q /\ out = {k[1].conn} /\ Len(q) < PoolSize /\ k[1].conn \in Conn
      BY <2>1, <3>1, <3>2 DEF q, Entry
    <3>9. \A j \in DOMAIN q : \E l \in DOMAIN k : q[j] = k[l]
      BY Zenon, <3>3
    <3> QED
      BY <3>2, <3>5, <3>7, <3>8, <3>9, Zenon
  <2>2. CASE ~full
    <3>1. Len(k) \in Nat /\ Len(k) < PoolSize
      BY <1>4, <2>2, PoolSizeAssumption
    <3> QED
      BY Zenon, <1>4, <2>2, <3>1
  <2> QED
    BY Zenon, <2>1, <2>2
<1> HIDE DEF p, out
<1>6. \A j \in DOMAIN p : p[j].host # h /\ p[j].conn # x /\ p[j].conn \notin closed
  <2>1. \A l \in DOMAIN pool : pool[l].conn # x /\ pool[l].conn \notin closed
    BY Zenon, <1>1, <1>2 DEF InUse
  <2> QED
    BY <1>4, <1>5, <2>1
<1>7. e \in Entry /\ e.host = h /\ e.conn = x
  BY Zenon, <1>2 DEF Entry
<1> HIDE DEF e
<1>8. /\ pool' \in Seq(Entry) /\ Distinct(pool') /\ Len(pool') = Len(p) + 1
      /\ \A j \in DOMAIN pool' : pool'[j] = e \/ \E l \in DOMAIN p : pool'[j] = p[l]
  BY <1>3, <1>5, <1>6, <1>7, AppendDistinct
<1>9. x \notin out
  <2>1. \A l \in DOMAIN k : k[l].conn # x
    BY Zenon, <1>2, <1>4 DEF InUse
  <2>2. full => 1 \in DOMAIN k /\ Head(k) = k[1]
    BY <1>4, PoolSizeAssumption
  <2> QED
    BY Zenon, <2>1, <2>2 DEF out
<1>10. \A j \in DOMAIN pool' : pool'[j].conn \notin closed'
  BY Zenon, <1>2, <1>3, <1>5, <1>6, <1>7, <1>8, <1>9
<1>11. Len(pool') <= PoolSize
  BY <1>5, <1>8, PoolSizeAssumption
<1>12. closed' \subseteq Conn
  BY Zenon, <1>1, <1>3, <1>5
<1> QED
  BY Zenon, <1>8, <1>10, <1>11, <1>12 DEF PoolInv

-----------------------------------------------------------------------------
(* The manager and its tables.                                              *)

TableTypes ==
    /\ table.ready \in BOOLEAN
    /\ table.member \in Seq(Host) /\ table.replica \in Seq(Host)
    /\ table.leader \in Host \cup {NoHost}

TickFields == {"pc", "rows", "leader", "left", "ping"}

TickTypes ==
    /\ tick = [f \in TickFields |-> tick[f]]
    /\ tick.pc \in {"idle", "ping"}
    /\ IsFiniteSet(DOMAIN tick.rows) /\ DOMAIN tick.rows \subseteq Nat
    /\ \A r \in DOMAIN tick.rows : tick.rows[r].host \in Host
    /\ tick.left \subseteq DOMAIN tick.rows
    /\ \A r \in tick.left : tick.rows[r].host # Local
    /\ DOMAIN tick.ping \subseteq Host
    /\ \A h \in DOMAIN tick.ping : tick.ping[h] \in Nat

\* A tick works on the present rows unless there is news.
TickInv ==
    /\ TickTypes /\ TableTypes
    /\ row \in Rows /\ news \in BOOLEAN
    /\ tick.pc = "ping" /\ ~news => tick.rows = row.replica /\ tick.leader = row.leader
    /\ TablesCurrent

\* A table lists hosts of the replicas it is made of.
LEMMA ByPingHosts ==
  ASSUME TickTypes, NEW rs, rs \subseteq DOMAIN tick.rows
  PROVE  /\ ByPing(rs) \in Seq(Host)
         /\ Range(ByPing(rs)) \subseteq {tick.rows[r].host : r \in rs}
<1> DEFINE S == Placed(rs)
           n == Cardinality(S)
           f == [r \in S |-> Time(r)]
           sorted == CHOOSE s \in [1 .. n -> S] :
                         \A i \in 2 .. n : Time(s[i - 1]) < Time(s[i])
<1>1. /\ S \subseteq rs /\ \A r \in S : tick.rows[r].host \in DOMAIN tick.ping
      /\ \A r, q \in S : Time(q) = Time(r) => q <= r
  BY Zenon DEF Placed
<1>2. IsFiniteSet(S) /\ n \in Nat
  BY Zenon, <1>1, FS_Subset, FS_CardinalityType DEF TickTypes
<1>3. ByPing(rs) = [i \in 1 .. n |-> tick.rows[sorted[i]].host]
  BY Zenon DEF ByPing
<1> HIDE DEF S
<1>4. f \in [S -> Nat]
  BY Zenon, <1>1 DEF Time, TickTypes
<1>5. \A x, y \in S : f[x] = f[y] => x = y
  <2>1. SUFFICES ASSUME NEW x \in S, NEW y \in S, f[x] = f[y] PROVE x = y
    OBVIOUS
  <2>2. x <= y /\ y <= x
    BY Zenon, <1>1, <2>1
  <2>3. x \in Nat /\ y \in Nat
    BY Zenon, <1>1 DEF TickTypes
  <2> QED
    BY <2>2, <2>3
<1> HIDE DEF n
<1>6. PICK s \in [1 .. n -> S] : \A i \in 2 .. n : f[s[i - 1]] < f[s[i]]
  BY <1>2, <1>4, <1>5, SortExists, Zenon DEF n
<1>7. ASSUME NEW i \in 2 .. n PROVE Time(s[i - 1]) < Time(s[i])
  <2>1. i - 1 \in 1 .. n /\ i \in 1 .. n
    BY <1>2
  <2>2. s[i - 1] \in S /\ s[i] \in S
    BY <2>1, Zenon
  <2>3. f[s[i - 1]] = Time(s[i - 1]) /\ f[s[i]] = Time(s[i])
    BY <2>2, Zenon
  <2> QED
    BY <1>6, <2>3, Zenon
<1>8. sorted \in [1 .. n -> S]
  BY <1>7, Zenon
<1> HIDE DEF sorted
<1>9. ASSUME NEW i \in 1 .. n
      PROVE  sorted[i] \in rs /\ tick.rows[sorted[i]].host \in Host
  BY Zenon, <1>1, <1>8 DEF TickTypes
<1>10. ByPing(rs) \in [1 .. n -> Host]
  BY Zenon, <1>3, <1>9
<1>11. ByPing(rs) \in Seq(Host)
  BY <1>2, <1>10
<1>12. Range(ByPing(rs)) \subseteq {tick.rows[r].host : r \in rs}
  BY <1>3, <1>9 DEF Range
<1> QED
  BY Zenon, <1>11, <1>12

\* What neither reads rows nor changes them leaves the tables as they were.
LEMMA TickSame ==
  ASSUME TickInv, UNCHANGED <<row, news, tick, table>>
  PROVE  TickInv'
BY Zenon DEF TickInv, TickTypes, TableTypes, TablesCurrent, Time, Voters

\* A tick starts with the present rows.
LEMMA TickReadTick ==
  ASSUME TickInv, TickRead
  PROVE  TickInv'
<1>1. /\ tick' = [pc |-> "ping", rows |-> row.replica, leader |-> row.leader,
                  left |-> {r \in DOMAIN row.replica : row.replica[r].host # Local},
                  ping |-> [h \in {Local} |-> 0]]
      /\ news' = FALSE /\ row' = row /\ table' = table
  BY Zenon DEF TickRead
<1>2. /\ tick'.pc = "ping" /\ tick'.rows = row.replica /\ tick'.leader = row.leader
      /\ tick'.left = {r \in DOMAIN row.replica : row.replica[r].host # Local}
      /\ tick'.ping = [h \in {Local} |-> 0] /\ tick' = [f \in TickFields |-> tick'[f]]
  BY Zenon, <1>1 DEF TickFields
<1>3. TickTypes'
  BY <1>2, RowsAssumption, HostAssumption DEF TickTypes, TickInv
<1>4. TableTypes'
  BY Zenon, <1>1 DEF TickInv, TableTypes
<1> QED
  BY <1>1, <1>2, <1>3, <1>4, Zenon DEF TickInv, TablesCurrent

\* A ping changes neither the rows of the tick nor the tables.
LEMMA PingTick ==
  ASSUME TickInv, Ping
  PROVE  TickInv'
<1>1. /\ tick.pc = "ping" /\ UNCHANGED <<row, news, table>>
  BY Zenon DEF Ping, registry
<1>2. PICK r \in tick.left :
        \/ \E t \in PingTime[tick.rows[r].host] :
              tick' = [tick EXCEPT !.ping = With(@, tick.rows[r].host, t),
                                   !.left = {q \in @ : tick.rows[q].host # tick.rows[r].host}]
        \/ tick' = [tick EXCEPT !.left = @ \ {r}]
  BY Zenon DEF Ping
<1> DEFINE h == tick.rows[r].host
<1>3. TickTypes /\ h \in Host /\ h # Local
  BY Zenon DEF TickInv, TickTypes
<1>4. tick = [f \in TickFields |-> tick[f]]
  BY Zenon, <1>3 DEF TickTypes
<1>5. TickTypes' /\ tick'.pc = "ping" /\ tick'.rows = tick.rows /\ tick'.leader = tick.leader
  <2>1. CASE tick' = [tick EXCEPT !.left = @ \ {r}]
    <3>1. /\ tick' = [f \in TickFields |-> tick'[f]] /\ tick'.left = tick.left \ {r}
          /\ tick'.pc = tick.pc /\ tick'.rows = tick.rows /\ tick'.leader = tick.leader
          /\ tick'.ping = tick.ping
      BY Zenon, <1>4, <2>1 DEF TickFields
    <3> QED
      BY Zenon, <1>1, <1>3, <3>1 DEF TickTypes
  <2>2. ASSUME NEW t \in PingTime[h],
               tick' = [tick EXCEPT !.ping = With(@, h, t),
                                    !.left = {q \in @ : tick.rows[q].host # h}]
        PROVE  TickTypes' /\ tick'.pc = "ping" /\ tick'.rows = tick.rows /\ tick'.leader = tick.leader
    <3>1. /\ tick' = [f \in TickFields |-> tick'[f]]
          /\ tick'.left = {q \in tick.left : tick.rows[q].host # h}
          /\ tick'.pc = tick.pc /\ tick'.rows = tick.rows /\ tick'.leader = tick.leader
          /\ tick'.ping = With(tick.ping, h, t)
      BY <1>4, <2>2, Zenon DEF TickFields
    <3>2. t \in Nat
      BY Zenon, <1>3, PingAssumption
    <3>3. /\ DOMAIN tick'.ping \subseteq Host
          /\ \A g \in DOMAIN tick'.ping : tick'.ping[g] \in Nat
      BY <1>3, <3>1, <3>2 DEF TickTypes, With
    <3> QED
      BY Zenon, <1>1, <1>3, <3>1, <3>3 DEF TickTypes
  <2> QED
    BY <1>2, <2>1, <2>2, Zenon
<1> QED
  BY Zenon, <1>1, <1>5 DEF TickInv, TablesCurrent, TableTypes

\* The tables of a tick are those of the rows it has read.
LEMMA PublishTick ==
  ASSUME TickInv, Publish
  PROVE  TickInv'
<1>1. tick.pc = "ping" /\ table' = Tables /\ tick' = Resting /\ UNCHANGED <<row, news>>
  BY Zenon DEF Publish, registry
<1> DEFINE voters == {r \in DOMAIN tick.rows : ~tick.rows[r].nonVoting}
<1>2. TickTypes
  BY Zenon DEF TickInv
<1>3. /\ ByPing(voters) \in Seq(Host)
      /\ Range(ByPing(voters)) \subseteq {tick.rows[r].host : r \in voters}
  <2>1. voters \subseteq DOMAIN tick.rows
    OBVIOUS
  <2> HIDE DEF voters
  <2> QED
    BY Zenon, <1>2, <2>1, ByPingHosts
<1>4. /\ ByPing(DOMAIN tick.rows) \in Seq(Host)
      /\ Range(ByPing(DOMAIN tick.rows)) \subseteq HostsIn(tick.rows)
  BY Zenon, <1>2, ByPingHosts DEF HostsIn
<1>5. /\ table'.ready = TRUE /\ table'.member = ByPing(voters)
      /\ table'.replica = ByPing(DOMAIN tick.rows)
      /\ table'.leader = IF /\ tick.leader \in DOMAIN tick.rows
                            /\ tick.rows[tick.leader].host \in DOMAIN tick.ping
                         THEN tick.rows[tick.leader].host ELSE NoHost
  BY Zenon, <1>1 DEF Tables
<1> HIDE DEF voters
<1>6. TableTypes'
  BY <1>2, <1>3, <1>4, <1>5, Zenon DEF TableTypes, TickTypes
<1>7. tick'.pc = "idle" /\ TickTypes'
  <2>1. /\ tick'.pc = "idle" /\ tick'.rows = <<>> /\ tick'.left = {} /\ tick'.ping = <<>>
        /\ tick' = [f \in TickFields |-> tick'[f]]
    BY Zenon, <1>1 DEF Resting, TickFields
  <2>2. DOMAIN tick'.rows = {} /\ DOMAIN tick'.ping = {} /\ IsFiniteSet({})
    BY <2>1, FS_EmptySet
  <2> QED
    BY Zenon, <2>1, <2>2 DEF TickTypes
<1>8. TablesCurrent'
  <2>1. SUFFICES ASSUME ~news
        PROVE  /\ Range(table'.replica) \subseteq HostsIn(row.replica)
               /\ Range(table'.member) \subseteq {row.replica[r].host : r \in Voters}
               /\ table'.leader # NoHost =>
                    /\ row.leader \in DOMAIN row.replica
                    /\ table'.leader = row.replica[row.leader].host
    BY Zenon, <1>1 DEF TablesCurrent, Voters
  <2>2. tick.rows = row.replica /\ tick.leader = row.leader
    BY Zenon, <1>1, <2>1 DEF TickInv
  <2>3. voters = Voters
    BY Zenon, <2>2 DEF voters, Voters
  <2> QED
    BY <1>3, <1>4, <1>5, <2>2, <2>3
<1> QED
  BY Zenon, <1>1, <1>6, <1>7, <1>8 DEF TickInv

\* Every step keeps the tables right.
LEMMA TickStep ==
  ASSUME TickInv, Next
  PROVE  TickInv'
<1>1. CASE Manager
  BY Zenon, <1>1, TickReadTick, PingTick, PublishTick DEF Manager
<1>2. CASE Users
  <2>1. UNCHANGED <<row, news, tick, table>>
    BY Zenon, <1>2 DEF Users, NotReady, Begin, registry
  <2> QED
    BY Zenon, <2>1, TickSame
<1>3. ASSUME NEW c \in Client, ClientStep(c) PROVE TickInv'
  <2>1. UNCHANGED <<row, news, tick, table>>
    BY <1>3, Zenon DEF ClientStep, Try, Dialed, Exhausted, Serve, ServeIndexLocal, Fail, registry
  <2> QED
    BY Zenon, <2>1, TickSame
<1>4. CASE Change
  <2>1. row' \in Rows /\ news' = TRUE /\ UNCHANGED <<tick, table>>
    BY Zenon, <1>4 DEF Change
  <2> QED
    BY <2>1, Zenon DEF TickInv, TickTypes, TableTypes, TablesCurrent
<1>5. CASE LateCommit \/ \E h \in Host : HostDown(h) \/ HostUp(h) \/ CatchUp(h)
  <2>1. UNCHANGED <<row, news, tick, table>>
    BY Zenon, <1>5 DEF LateCommit, HostDown, HostUp, CatchUp, registry
  <2> QED
    BY Zenon, <2>1, TickSame
<1> QED
  BY Zenon, <1>1, <1>2, <1>3, <1>4, <1>5 DEF Next, Environment

-----------------------------------------------------------------------------
(* Calls.                                                                   *)

CallRecord ==
    [pc : {"idle", "next", "dial", "sent"}, op : Op \cup {"none"}, id : Nat,
     toLeader : BOOLEAN, first : BOOLEAN, left : Seq(Host), conn : Conn \cup {NoConn},
     tried : Nat, since : SUBSET Nat]

Result ==
    [id : Nat, op : Op, toLeader : BOOLEAN, ok : BOOLEAN, ran : BOOLEAN, fresh : BOOLEAN]

CallTypes ==
    /\ call \in [Client -> CallRecord]
    /\ done \subseteq Result /\ IsFiniteSet(done)
    /\ log \in Seq(Nat)
    /\ late \subseteq Nat \X Nat /\ IsFiniteSet(late)
    /\ \A c \in Client : call[c].pc \in {"dial", "sent"} => call[c].left # <<>>

Active == {c \in Client : call[c].pc # "idle"}

\* A call has an ID of its own, that of no earlier call, and the log and the writes on
\* their way are of calls made.
IdInv ==
    /\ Calls <= MaxCalls
    /\ \A d \in done : d.id \in 1 .. Calls
    /\ \A c \in Client : call[c].pc = "idle" => call[c] = NoCall
    /\ \A c \in Active : /\ call[c].id \in 1 .. Calls /\ call[c].op \in Op
                         /\ \A d \in done : d.id # call[c].id
                         /\ \A b \in Active : call[b].id = call[c].id => b = c
    /\ \A i \in DOMAIN log : log[i] \in 1 .. Calls
    /\ \A w \in late : w[1] \in 1 .. Calls

\* What a step does to the calls, the results and the log: nothing, ...
Quiet == UNCHANGED <<call, done, log, late>>

\* ... a call is refused, ...
Refused(d) ==
    /\ d \in Result /\ Calls < MaxCalls /\ d.id = Calls + 1
    /\ ~d.toLeader /\ ~d.ok /\ d.fresh
    /\ done' = done \cup {d} /\ UNCHANGED <<call, log, late>>

\* ... a call begins, ...
Begins(c, k) ==
    /\ c \in Client /\ c \notin Active /\ k \in CallRecord
    /\ k.pc = "next" /\ k.op \in Op /\ Calls < MaxCalls /\ k.id = Calls + 1
    /\ k.since \subseteq Completed
    /\ k.toLeader => k.op = "write" /\ ~k.first /\ Len(k.left) = 1
    /\ call' = [call EXCEPT ![c] = k] /\ UNCHANGED <<done, log, late>>

\* ... a call goes on, ...
Goes(c, k) ==
    /\ c \in Active /\ k \in CallRecord /\ k.pc # "idle"
    /\ k.id = call[c].id /\ k.op = call[c].op /\ k.toLeader = call[c].toLeader
    /\ k.since = call[c].since
    /\ k.pc \in {"dial", "sent"} => k.left # <<>>
    /\ call' = [call EXCEPT ![c] = k] /\ UNCHANGED done

\* ... with the host it was at or, if it is a stale read, with the members, ...
Proceeds(c, k) ==
    /\ Goes(c, k) /\ UNCHANGED <<log, late>>
    /\ (k.left = call[c].left /\ k.first = call[c].first) \/ call[c].first

\* ... or with the next host, when a host has failed, ...
Fails(c, k) ==
    /\ Goes(c, k)
    /\ call[c].left # <<>> /\ k.left = Tail(call[c].left) /\ k.first = call[c].first
    /\ \/ UNCHANGED <<log, late>>
       \/ log' = Append(log, call[c].id) /\ UNCHANGED late
       \/ late' = late \cup {<<call[c].id, call[c].tried>>} /\ UNCHANGED log

\* ... or a call returns.
Ends(c, d) ==
    /\ c \in Active /\ d \in Result
    /\ d.id = call[c].id /\ d.op = call[c].op /\ d.toLeader = call[c].toLeader
    /\ call' = [call EXCEPT ![c] = NoCall] /\ done' = done \cup {d}

Returns(c, d) ==
    /\ Ends(c, d) /\ UNCHANGED late
    /\ \/ /\ UNCHANGED log /\ ~(d.op = "write" /\ d.ok /\ d.ran)
          /\ call[c].since \subseteq Range(log) => d.fresh
       \/ log' = Append(log, call[c].id) /\ call[c].left # <<>> /\ d.fresh

\* The calls are counted.
LEMMA CountCalls ==
  ASSUME CallTypes
  PROVE  /\ Calls = Cardinality(done) + Cardinality(Active) /\ Calls \in Nat
         /\ IsFiniteSet(Active)
<1>1. IsFiniteSet(Active)
  BY Zenon, ClientAssumption, FS_Subset DEF Active
<1>2. Cardinality(Active) \in Nat /\ Cardinality(done) \in Nat
  BY Zenon, <1>1, FS_CardinalityType DEF CallTypes
<1> QED
  BY <1>1, <1>2 DEF Calls, Active

\* A call that goes on is still counted once.
LEMMA GoesCount ==
  ASSUME CallTypes, NEW c, NEW k, Goes(c, k)
  PROVE  Active' = Active /\ Calls' = Calls
<1>1. Active' = Active
  BY Zenon DEF Active, Goes, CallTypes
<1> QED
  BY <1>1, Zenon DEF Goes, Calls, Active

\* A call that returns is counted among the results.
LEMMA EndsCount ==
  ASSUME CallTypes, IdInv, NEW c, NEW d, Ends(c, d)
  PROVE  Active' = Active \ {c} /\ Calls' = Calls /\ IsFiniteSet(done')
<1>1. Active' = Active \ {c}
  BY Zenon DEF Active, Ends, CallTypes, NoCall
<1>2. c \in Active /\ d \notin done /\ done' = done \cup {d}
  BY Zenon DEF Ends, IdInv
<1>3. IsFiniteSet(Active) /\ IsFiniteSet(done)
  BY Zenon, CountCalls DEF CallTypes
<1>4. Cardinality(Active') = Cardinality(Active) - 1
  BY <1>1, <1>2, <1>3, FS_RemoveElement, Zenon
<1>5. Cardinality(done') = Cardinality(done) + 1 /\ IsFiniteSet(done')
  BY Zenon, <1>2, <1>3, FS_AddElement
<1>6. Calls' = Cardinality(done') + Cardinality(Active')
  BY Zenon DEF Calls, Active
<1>7. Cardinality(done) \in Nat /\ Cardinality(Active) \in Nat
  BY Zenon, <1>3, FS_CardinalityType
<1> QED
  BY <1>1, <1>4, <1>5, <1>6, <1>7, CountCalls, SMTT(20)

\* A result of a call.
LEMMA ReturnEnds ==
  ASSUME CallTypes, IdInv, NEW c \in Client, call[c].pc # "idle",
         NEW ok \in BOOLEAN, NEW ran \in BOOLEAN, NEW fresh \in BOOLEAN,
         Return(c, ok, ran, fresh)
  PROVE  \E d : Ends(c, d) /\ d.ok = ok /\ d.ran = ran /\ d.fresh = fresh
<1> DEFINE d == [id |-> call[c].id, op |-> call[c].op, toLeader |-> call[c].toLeader, ok |-> ok,
                 ran |-> ran, fresh |-> fresh]
<1>1. c \in Active /\ call[c] \in CallRecord /\ call[c].op \in Op
  BY Zenon DEF Active, CallTypes, IdInv
<1>2. d \in Result
  BY Zenon, <1>1 DEF Result, CallRecord
<1>3. Ends(c, d)
  BY Zenon, <1>1, <1>2 DEF Ends, Return
<1> QED
  BY <1>3

\* A call goes on with a new state, connection and hosts to try.
LEMMA TryGoes ==
  ASSUME CallTypes, PoolInv, NEW c \in Client, Try(c)
  PROVE  \E k : Proceeds(c, k)
<1>1. /\ call[c] \in CallRecord /\ c \in Active /\ call[c].left # <<>>
      /\ UNCHANGED <<done, log, late>>
  BY Zenon DEF CallTypes, Active, Try, raft
<1>2. PICK pc \in {"dial", "sent"}, x \in Conn \cup {NoConn} : Moved(c, pc, x)
  <2>1. \A i \in DOMAIN pool : pool[i].conn \in Conn
    <3>1. \A i \in DOMAIN pool : pool[i] \in Entry
      BY DEF PoolInv
    <3> QED
      BY Zenon, <3>1 DEF Entry
  <2> QED
    BY Zenon, <2>1 DEF Try, Pooled
<1> DEFINE k == [call[c] EXCEPT !.pc = pc, !.conn = x]
<1>3. call' = [call EXCEPT ![c] = k]
  BY <1>2, Zenon DEF Moved, CallTypes
<1>4. /\ k \in CallRecord /\ k.pc = pc /\ k.id = call[c].id /\ k.op = call[c].op
      /\ k.toLeader = call[c].toLeader /\ k.since = call[c].since /\ k.left = call[c].left
      /\ k.first = call[c].first
  BY <1>1, Zenon DEF CallRecord
<1> HIDE DEF k
<1>5. Proceeds(c, k)
  BY Zenon, <1>1, <1>3, <1>4 DEF Proceeds, Goes
<1> QED
  BY Zenon, <1>5

\* A connection is dialed.
LEMMA DialedGoes ==
  ASSUME CallTypes, NEW c \in Client, Dialed(c)
  PROVE  \E k : Proceeds(c, k)
<1>1. /\ call[c] \in CallRecord /\ c \in Active /\ call[c].left # <<>>
      /\ UNCHANGED <<done, log, late>>
  BY Zenon DEF CallTypes, Active, Dialed, raft
<1>2. Moved(c, "sent", FreeConn) /\ FreeConn \in Conn
  BY Zenon, FreeIsFree DEF Dialed, Dial
<1> DEFINE k == [call[c] EXCEPT !.pc = "sent", !.conn = FreeConn]
<1>3. call' = [call EXCEPT ![c] = k]
  BY <1>2, Zenon DEF Moved, CallTypes
<1>4. /\ k \in CallRecord /\ k.pc = "sent" /\ k.id = call[c].id /\ k.op = call[c].op
      /\ k.toLeader = call[c].toLeader /\ k.since = call[c].since /\ k.left = call[c].left
      /\ k.first = call[c].first
  BY <1>1, <1>2, Zenon DEF CallRecord
<1> HIDE DEF k
<1>5. Proceeds(c, k)
  BY Zenon, <1>1, <1>3, <1>4 DEF Proceeds, Goes
<1> QED
  BY Zenon, <1>5

\* No host is left.
LEMMA ExhaustedGoes ==
  ASSUME CallTypes, IdInv, TableTypes, NEW c \in Client, Exhausted(c)
  PROVE  (\E k : Proceeds(c, k)) \/ (\E d : Returns(c, d))
<1>1. /\ call[c] \in CallRecord /\ c \in Active /\ call[c].pc = "next"
      /\ UNCHANGED <<log, late>>
  BY Zenon DEF CallTypes, Active, Exhausted, raft
<1>2. CASE call[c].first
  <2> DEFINE k == [call[c] EXCEPT !.first = FALSE, !.left = table.member]
  <2>1. call' = [call EXCEPT ![c] = k] /\ UNCHANGED done
    BY <1>2, Zenon DEF Exhausted, CallTypes
  <2>2. /\ k \in CallRecord /\ k.pc = "next" /\ k.id = call[c].id /\ k.op = call[c].op
        /\ k.toLeader = call[c].toLeader /\ k.since = call[c].since
    BY <1>1, Zenon DEF CallRecord, TableTypes
  <2> HIDE DEF k
  <2>3. Proceeds(c, k)
    BY Zenon, <1>1, <1>2, <2>1, <2>2 DEF Proceeds, Goes
  <2> QED
    BY Zenon, <2>3
<1>3. CASE ~call[c].first
  <2> DEFINE d == [id |-> call[c].id, op |-> call[c].op, toLeader |-> call[c].toLeader,
                   ok |-> call[c].tried = 0, ran |-> call[c].tried > 0, fresh |-> TRUE]
  <2>1. call' = [call EXCEPT ![c] = NoCall] /\ done' = done \cup {d}
    BY <1>3, ZenonT(30) DEF Exhausted, Return
  <2>2. /\ d \in Result /\ d.id = call[c].id /\ d.op = call[c].op
        /\ d.toLeader = call[c].toLeader
    BY <1>1 DEF Result, CallRecord, IdInv
  <2>3. ~(d.ok /\ d.ran) /\ d.fresh
    <3>1. (d.ok => call[c].tried = 0) /\ (d.ran => call[c].tried > 0) /\ d.fresh
      BY Zenon
    <3>2. call[c].tried \in Nat
      BY Zenon, <1>1 DEF CallRecord
    <3> HIDE DEF d
    <3> QED
      BY <3>1, <3>2
  <2> HIDE DEF d
  <2>4. Returns(c, d)
    BY Zenon, <1>1, <2>1, <2>2, <2>3 DEF Returns, Ends
  <2> QED
    BY Zenon, <2>4
<1> QED
  BY Zenon, <1>2, <1>3

\* A host answers.
LEMMA ServeEnds ==
  ASSUME CallTypes, IdInv, NEW c \in Client, Serve(c)
  PROVE  \E d : Returns(c, d)
<1>1. /\ call[c].pc = "sent" /\ call[c].pc # "idle" /\ call[c].left # <<>>
      /\ TRUE \in BOOLEAN
  BY Zenon DEF Serve, CallTypes
<1>2. CASE /\ call[c].op = "write" /\ log' = Append(log, call[c].id) /\ UNCHANGED <<applied, late>>
           /\ Return(c, TRUE, TRUE, TRUE)
  <2>1. PICK d : Ends(c, d) /\ d.ok = TRUE /\ d.ran = TRUE /\ d.fresh = TRUE
    BY <1>1, <1>2, ReturnEnds, ZenonT(30)
  <2>2. Returns(c, d)
    BY Zenon, <1>1, <1>2, <2>1 DEF Returns
  <2> QED
    BY Zenon, <2>2
<1>3. CASE call[c].op \in {"read", "index"} /\ ServeRead(c, Head(call[c].left))
  <2>1. UNCHANGED <<log, late>>
    BY Zenon, <1>3 DEF ServeRead
  <2> DEFINE d == [id |-> call[c].id, op |-> call[c].op, toLeader |-> call[c].toLeader,
                   ok |-> TRUE, ran |-> TRUE, fresh |-> Holds(c, Len(log))]
  <2>2. call' = [call EXCEPT ![c] = NoCall] /\ done' = done \cup {d}
    BY <1>3, Zenon DEF ServeRead, Return
  <2>3. c \in Active /\ call[c] \in CallRecord /\ call[c].op \in Op
    BY Zenon, <1>1 DEF Active, CallTypes, IdInv
  <2>4. SubSeq(log, 1, Len(log)) = log
    BY DEF CallTypes
  <2>5. call[c].since \subseteq Range(log) => d.fresh
    BY <2>4, ZenonT(30) DEF Holds
  <2>6. /\ d \in Result /\ d.id = call[c].id /\ d.op = call[c].op
        /\ d.toLeader = call[c].toLeader /\ d.op # "write"
    BY Zenon, <1>3, <2>3 DEF Result, CallRecord, Holds
  <2> HIDE DEF d
  <2>7. Returns(c, d)
    BY Zenon, <2>1, <2>2, <2>3, <2>5, <2>6 DEF Returns, Ends
  <2> QED
    BY Zenon, <2>7
<1>4. CASE call[c].op = "stale" /\ UNCHANGED raft /\ Return(c, TRUE, TRUE, TRUE)
  <2>1. PICK d : Ends(c, d) /\ d.ok = TRUE /\ d.ran = TRUE /\ d.fresh = TRUE
    BY <1>1, <1>4, ReturnEnds, ZenonT(30)
  <2>2. Returns(c, d)
    BY Zenon, <1>4, <2>1 DEF Returns, Ends, raft
  <2> QED
    BY Zenon, <2>2
<1> QED
  BY <1>2, <1>3, <1>4, ZenonT(30) DEF Serve

\* The agent's own host answers with its index.
LEMMA ServeIndexEnds ==
  ASSUME CallTypes, IdInv, NEW c \in Client, ServeIndexLocal(c)
  PROVE  \E d : Returns(c, d)
<1>1. /\ call[c].pc # "idle" /\ call[c].op = "index" /\ TRUE \in BOOLEAN
      /\ Return(c, TRUE, TRUE, TRUE) /\ UNCHANGED <<log, late>>
  BY Zenon DEF ServeIndexLocal, raft
<1>2. PICK d : Ends(c, d) /\ d.ok = TRUE /\ d.ran = TRUE /\ d.fresh = TRUE
  BY <1>1, ReturnEnds, ZenonT(30)
<1>3. Returns(c, d)
  BY Zenon, <1>1, <1>2 DEF Returns, Ends
<1> QED
  BY Zenon, <1>3

\* A host fails.
LEMMA FailGoes ==
  ASSUME CallTypes, NEW c \in Client, Fail(c)
  PROVE  \E k : Fails(c, k)
<1>1. /\ call[c] \in CallRecord /\ c \in Active /\ call[c].left # <<>> /\ UNCHANGED done
  BY Zenon DEF CallTypes, Active, Fail
<1> DEFINE k == Failed(c)
<1>2. call' = [call EXCEPT ![c] = k]
  BY Zenon DEF Fail
<1>3. /\ k \in CallRecord /\ k.pc = "next" /\ k.id = call[c].id /\ k.op = call[c].op
      /\ k.toLeader = call[c].toLeader /\ k.since = call[c].since
      /\ k.left = Tail(call[c].left) /\ k.first = call[c].first
  <2>1. Tail(call[c].left) \in Seq(Host) /\ call[c].tried + 1 \in Nat
    BY <1>1 DEF CallRecord
  <2> QED
    BY <1>1, <2>1, Zenon DEF CallRecord, Failed
<1>4. \/ UNCHANGED <<log, late>>
      \/ log' = Append(log, call[c].id) /\ UNCHANGED late
      \/ late' = late \cup {<<call[c].id, call[c].tried>>} /\ UNCHANGED log
  BY Zenon DEF Fail
<1> HIDE DEF k
<1>5. Fails(c, k)
  BY Zenon, <1>1, <1>2, <1>3, <1>4 DEF Fails, Goes
<1> QED
  BY Zenon, <1>5

\* A call begins.
LEMMA BeginBegins ==
  ASSUME CallTypes, TableTypes, NEW c \in Client, NEW op \in Op, Begin(c, op)
  PROVE  \E k : Begins(c, k)
<1> DEFINE toLeader == op = "write" /\ c \in LeaderClient /\ table.leader # NoHost
           since == IF op \in {"read", "index"} THEN Completed ELSE {}
           left == IF toLeader THEN <<table.leader>>
                   ELSE IF op \in {"stale", "index"} THEN table.replica
                   ELSE table.member
           first == op = "stale"
           k == [NoCall EXCEPT !.pc = "next", !.op = op, !.id = Calls + 1,
                   !.toLeader = toLeader, !.first = first, !.since = since, !.left = left]
<1>1. /\ call[c].pc = "idle" /\ Calls < MaxCalls /\ UNCHANGED <<done, log, late>>
      /\ call' = [call EXCEPT ![c] = k]
  BY Zenon DEF Begin, raft
<1>2. Completed \subseteq Nat
  BY Zenon DEF Completed, CallTypes, Result
<1>3. /\ toLeader \in BOOLEAN /\ first \in BOOLEAN /\ since \in SUBSET Nat /\ since \subseteq Completed
      /\ left \in Seq(Host) /\ (toLeader => op = "write" /\ ~first /\ Len(left) = 1)
  BY <1>2 DEF TableTypes
<1> HIDE DEF toLeader, since, left, first
<1>4. Calls \in Nat
  BY Zenon, CountCalls
<1>5. /\ k \in CallRecord /\ k.pc = "next" /\ k.op = op /\ k.id = Calls + 1
      /\ k.toLeader = toLeader /\ k.first = first /\ k.since = since /\ k.left = left
  <2>1. /\ DOMAIN k = {"pc", "op", "id", "toLeader", "first", "left", "conn", "tried", "since"}
        /\ k = [f \in DOMAIN k |-> k[f]]
    BY ZenonT(30) DEF NoCall
  <2>3. /\ k.pc = "next" /\ k.op = op /\ k.id = Calls + 1 /\ k.since = since /\ k.left = left
        /\ k.conn = NoConn /\ k.tried = 0
    BY Zenon DEF NoCall
  <2>4. k.toLeader = toLeader
    BY Zenon DEF NoCall
  <2>5. k.first = first
    BY Zenon DEF NoCall
  <2> HIDE DEF k
  <2>2. Calls + 1 \in Nat
    BY <1>4
  <2> QED
    BY <1>3, <2>1, <2>2, <2>3, <2>4, <2>5 DEF CallRecord
<1> HIDE DEF k
<1>6. Begins(c, k)
  BY Zenon, <1>1, <1>3, <1>5 DEF Begins, Active
<1> QED
  BY Zenon, <1>6

\* A call is refused.
LEMMA NotReadyRefused ==
  ASSUME CallTypes, NEW c \in Client, NEW op \in Op, NotReady(c, op)
  PROVE  \E d : Refused(d)
<1> DEFINE d == [id |-> Calls + 1, op |-> op, toLeader |-> FALSE, ok |-> FALSE,
                 ran |-> FALSE, fresh |-> TRUE]
<1>1. d \in Result
  BY CountCalls, SMTT(20) DEF Result
<1>2. Refused(d)
  BY Zenon, <1>1 DEF Refused, NotReady, raft
<1> QED
  BY Zenon, <1>2

\* Every step has one of these effects, or is a late commit.
LEMMA Effects ==
  ASSUME CallTypes, IdInv, PoolInv, TickInv, [Next]_vars
  PROVE  \/ Quiet
         \/ \E d : Refused(d)
         \/ \E c, k : Begins(c, k)
         \/ \E c, k : Proceeds(c, k)
         \/ \E c, k : Fails(c, k)
         \/ \E c, d : Returns(c, d)
         \/ LateCommit
<1>1. TableTypes
  BY Zenon DEF TickInv
<1>2. CASE UNCHANGED vars
  BY Zenon, <1>2 DEF vars, raft, Quiet
<1>3. CASE Manager
  BY <1>3, Zenon DEF Manager, TickRead, Ping, Publish, raft, Quiet
<1>4. ASSUME NEW c \in Client, NEW op \in Op, NotReady(c, op) \/ Begin(c, op)
      PROVE  (\E d : Refused(d)) \/ (\E k : Begins(c, k))
  BY <1>1, <1>4, NotReadyRefused, BeginBegins, Zenon
<1>5. ASSUME NEW c \in Client, ClientStep(c)
      PROVE  (\E k : Proceeds(c, k) \/ Fails(c, k)) \/ (\E d : Returns(c, d))
  BY <1>1, <1>5, TryGoes, DialedGoes, ExhaustedGoes, ServeEnds, ServeIndexEnds, FailGoes, ZenonT(30)
     DEF ClientStep
<1>6. CASE Change \/ \E h \in Host : HostDown(h) \/ HostUp(h) \/ CatchUp(h)
  BY Zenon, <1>6 DEF Change, HostDown, HostUp, CatchUp, raft, Quiet
<1> QED
  BY <1>2, <1>3, <1>4, <1>5, <1>6, ZenonT(30) DEF Next, Users, Environment

-----------------------------------------------------------------------------
(* Types and IDs of calls.                                                  *)

\* A log with one more write.
LEMMA Appended ==
  ASSUME NEW l \in Seq(Nat), NEW x \in Nat
  PROVE  /\ Append(l, x) \in Seq(Nat) /\ Len(l) + 1 \in DOMAIN Append(l, x)
         /\ Len(l) + 1 \notin DOMAIN l /\ Append(l, x)[Len(l) + 1] = x
         /\ DOMAIN Append(l, x) = DOMAIN l \cup {Len(l) + 1}
         /\ \A i \in DOMAIN l : Append(l, x)[i] = l[i]
<1>1. /\ Append(l, x) \in Seq(Nat) /\ Len(Append(l, x)) = Len(l) + 1 /\ Len(l) \in Nat
      /\ Append(l, x)[Len(l) + 1] = x /\ \A i \in 1 .. Len(l) : Append(l, x)[i] = l[i]
  OBVIOUS
<1>2. DOMAIN Append(l, x) = 1 .. Len(l) + 1 /\ DOMAIN l = 1 .. Len(l)
  BY <1>1
<1>3. 1 .. Len(l) + 1 = 1 .. Len(l) \cup {Len(l) + 1} /\ Len(l) + 1 \notin 1 .. Len(l)
  BY <1>1
<1> QED
  BY Zenon, <1>1, <1>2, <1>3

\* What is in a log with one more write.
LEMMA GrownLog ==
  ASSUME NEW l \in Seq(Nat), NEW x \in Nat, NEW m, m = Append(l, x)
  PROVE  m \in Seq(Nat) /\ \A i \in DOMAIN m : m[i] = x \/ (i \in DOMAIN l /\ m[i] = l[i])
<1> DEFINE a == Append(l, x)
<1>1. /\ a \in Seq(Nat) /\ a[Len(l) + 1] = x /\ DOMAIN a = DOMAIN l \cup {Len(l) + 1}
      /\ \A i \in DOMAIN l : a[i] = l[i]
  BY Appended, Zenon
<1> HIDE DEF a
<1>2. m = a
  BY Zenon DEF a
<1> QED
  BY Zenon, <1>1, <1>2

\* A call that is refused has the next ID.
LEMMA RefusedIds ==
  ASSUME CallTypes, IdInv, NEW d, Refused(d)
  PROVE  CallTypes' /\ IdInv' /\ Calls' = Calls + 1
<1>1. Calls \in Nat /\ Calls = Cardinality(done) + Cardinality(Active)
  BY Zenon, CountCalls
<1>2. d \notin done /\ IsFiniteSet(done) /\ d \in Result /\ d.id = Calls + 1
  BY <1>1 DEF Refused, IdInv, CallTypes
<1>3. done' = done \cup {d} /\ UNCHANGED <<call, log, late>> /\ Active' = Active
  BY Zenon DEF Refused, Active
<1>4. IsFiniteSet(done') /\ Cardinality(done') = Cardinality(done) + 1
  BY Zenon, <1>2, <1>3, FS_AddElement
<1>5. Calls' = Calls + 1
  <2>1. Calls' = Cardinality(done') + Cardinality(Active)
    BY Zenon, <1>3 DEF Calls, Active
  <2>2. Cardinality(done) \in Nat /\ Cardinality(Active) \in Nat
    BY Zenon, <1>2, CountCalls, FS_CardinalityType
  <2> QED
    BY <1>1, <1>4, <2>1, <2>2
<1>6. CallTypes'
  BY Zenon, <1>2, <1>3, <1>4 DEF CallTypes
<1>7. \A n \in 1 .. Calls : n \in 1 .. Calls' /\ n # d.id
  BY <1>1, <1>2, <1>5
<1>8. Calls' <= MaxCalls /\ d.id \in 1 .. Calls'
  BY <1>1, <1>2, <1>5, BoundsAssumption, SMTT(20) DEF Refused
<1>9. IdInv'
  BY <1>3, <1>7, <1>8 DEF IdInv
<1> QED
  BY Zenon, <1>5, <1>6, <1>9

\* A call that begins has the next ID.
LEMMA BeginsIds ==
  ASSUME CallTypes, IdInv, NEW c, NEW k, Begins(c, k)
  PROVE  CallTypes' /\ IdInv' /\ Calls' = Calls + 1
<1>1. Calls \in Nat /\ Calls = Cardinality(done) + Cardinality(Active) /\ IsFiniteSet(Active)
  BY Zenon, CountCalls
<1>2. /\ c \in Client /\ c \notin Active /\ k \in CallRecord /\ k.pc = "next" /\ k.op \in Op
      /\ k.id = Calls + 1 /\ Calls < MaxCalls
      /\ call' = [call EXCEPT ![c] = k] /\ UNCHANGED <<done, log, late>>
  BY Zenon DEF Begins
<1>3. call'[c] = k /\ \A b \in Client : b # c => call'[b] = call[b]
  BY Zenon, <1>2 DEF CallTypes
<1>4. Active' = Active \cup {c}
  BY Zenon, <1>2, <1>3 DEF Active
<1>5. Calls' = Calls + 1
  <2>1. Calls' = Cardinality(done) + Cardinality(Active')
    BY Zenon, <1>2 DEF Calls, Active
  <2>2. Cardinality(Active') = Cardinality(Active) + 1
    BY <1>1, <1>2, <1>4, FS_AddElement, Zenon
  <2>3. Cardinality(done) \in Nat /\ Cardinality(Active) \in Nat
    BY Zenon, <1>1, FS_CardinalityType DEF CallTypes
  <2> QED
    BY <1>1, <2>1, <2>2, <2>3
<1>6. CallTypes'
  BY Zenon, <1>2, <1>3 DEF CallTypes
<1>7. \A n \in 1 .. Calls : n \in 1 .. Calls' /\ n # k.id
  BY <1>1, <1>2, <1>5
<1>8. Calls' <= MaxCalls /\ k.id \in 1 .. Calls'
  BY <1>1, <1>2, <1>5, BoundsAssumption
<1>9. \A b \in Active' : b = c \/ (b \in Active /\ b # c /\ call'[b] = call[b])
  <2>1. Active \subseteq Client
    BY Zenon DEF Active
  <2>2. \A b \in Active : b # c /\ call'[b] = call[b]
    BY Zenon, <1>2, <1>3, <2>1
  <2> QED
    BY <1>4, <2>2, Zenon
<1>10. \A b \in Active' : /\ call'[b].id \in 1 .. Calls' /\ call'[b].op \in Op
                          /\ \A d \in done : d.id # call'[b].id
                          /\ \A a \in Active' : call'[a].id = call'[b].id => a = b
  BY <1>2, <1>3, <1>7, <1>8, <1>9 DEF IdInv
<1>11. \A b \in Client : call'[b].pc = "idle" => call'[b] = NoCall
  BY Zenon, <1>2, <1>3 DEF IdInv
<1>12. IdInv'
  BY Zenon, <1>2, <1>7, <1>8, <1>10, <1>11 DEF IdInv
<1> QED
  BY Zenon, <1>5, <1>6, <1>12

\* A call that goes on keeps its ID, and what it writes has that ID.
LEMMA GoesIds ==
  ASSUME CallTypes, IdInv, NEW c, NEW k, Proceeds(c, k) \/ Fails(c, k)
  PROVE  CallTypes' /\ IdInv' /\ Calls' = Calls
<1>1. Goes(c, k)
  BY Zenon DEF Proceeds, Fails
<1>2. Active' = Active /\ Calls' = Calls
  BY Zenon, <1>1, GoesCount
<1>3. /\ c \in Active /\ c \in Client /\ k \in CallRecord /\ k.pc # "idle" /\ k.id = call[c].id
      /\ k.op = call[c].op /\ UNCHANGED done
      /\ k.pc \in {"dial", "sent"} => k.left # <<>>
  BY Zenon, <1>1 DEF Goes, Active
<1>4. call' \in [Client -> CallRecord] /\ call'[c] = k /\ \A b \in Client : b # c => call'[b] = call[b]
  BY Zenon, <1>1, <1>3 DEF Goes, CallTypes
<1>5. call[c].id \in Nat /\ call[c].tried \in Nat /\ call[c].id \in 1 .. Calls
  BY Zenon, <1>3 DEF CallTypes, CallRecord, IdInv
<1>6. /\ log' \in Seq(Nat) /\ late' \subseteq Nat \X Nat /\ IsFiniteSet(late')
      /\ \A i \in DOMAIN log' : log'[i] \in 1 .. Calls
      /\ \A w \in late' : w[1] \in 1 .. Calls
  <2>1. CASE UNCHANGED <<log, late>>
    BY Zenon, <2>1 DEF CallTypes, IdInv
  <2>2. CASE log' = Append(log, call[c].id) /\ UNCHANGED late
    <3>1. /\ log' \in Seq(Nat)
          /\ \A i \in DOMAIN log' : log'[i] = call[c].id \/ (i \in DOMAIN log /\ log'[i] = log[i])
      <4>1. log \in Seq(Nat)
        BY Zenon DEF CallTypes
      <4> QED
        BY <1>5, <2>2, <4>1, GrownLog, SMTT(20)
    <3> QED
      BY Zenon, <1>5, <2>2, <3>1 DEF CallTypes, IdInv
  <2>3. CASE late' = late \cup {<<call[c].id, call[c].tried>>} /\ UNCHANGED log
    <3>1. IsFiniteSet(late')
      BY <2>3, FS_AddElement, Zenon DEF CallTypes
    <3> QED
      BY <1>5, <2>3, <3>1, SMTT(20) DEF CallTypes, IdInv
  <2> QED
    BY Zenon, <2>1, <2>2, <2>3 DEF Proceeds, Fails
<1>7. CallTypes'
  BY <1>3, <1>4, <1>6, ZenonT(30) DEF CallTypes
<1>8. \A b \in Active : b \in Client /\ call'[b].id = call[b].id /\ call'[b].op = call[b].op
  BY Zenon, <1>3, <1>4 DEF Active
<1>9. \A b \in Client : call'[b].pc = "idle" => call'[b] = NoCall
  BY <1>3, <1>4, SMTT(20) DEF IdInv
<1>10. \A b \in Active' : /\ call'[b].id \in 1 .. Calls' /\ call'[b].op \in Op
                          /\ \A d \in done' : d.id # call'[b].id
                          /\ \A a \in Active' : call'[a].id = call'[b].id => a = b
  BY <1>2, <1>3, <1>8, SMTT(20) DEF IdInv
<1>11. Calls' <= MaxCalls /\ \A d \in done' : d.id \in 1 .. Calls'
  BY <1>2, <1>3, Zenon DEF IdInv
<1>12. IdInv'
  BY <1>2, <1>6, <1>9, <1>10, <1>11, ZenonT(30) DEF IdInv
<1> QED
  BY Zenon, <1>2, <1>7, <1>12

\* A call that returns leaves a result with its ID.
LEMMA ReturnsIds ==
  ASSUME CallTypes, IdInv, NEW c, NEW d, Returns(c, d)
  PROVE  CallTypes' /\ IdInv' /\ Calls' = Calls
<1>1. Ends(c, d)
  BY Zenon DEF Returns
<1>2. Active' = Active \ {c} /\ Calls' = Calls /\ IsFiniteSet(done')
  BY Zenon, <1>1, EndsCount
<1>3. /\ c \in Active /\ c \in Client /\ d \in Result /\ d.id = call[c].id
      /\ done' = done \cup {d} /\ UNCHANGED late
  BY Zenon, <1>1 DEF Ends, Active, Returns
<1>4. /\ call' = [call EXCEPT ![c] = NoCall] /\ call'[c] = NoCall
      /\ \A b \in Client : b # c => call'[b] = call[b]
  BY Zenon, <1>1, <1>3 DEF Ends, CallTypes
<1>5. call[c].id \in Nat /\ call[c].id \in 1 .. Calls
  BY Zenon, <1>3 DEF CallTypes, CallRecord, IdInv
<1>6. log' \in Seq(Nat) /\ \A i \in DOMAIN log' : log'[i] \in 1 .. Calls
  <2>1. CASE UNCHANGED log
    BY Zenon, <2>1 DEF CallTypes, IdInv
  <2>2. CASE log' = Append(log, call[c].id)
    <3>1. /\ log' \in Seq(Nat)
          /\ \A i \in DOMAIN log' : log'[i] = call[c].id \/ (i \in DOMAIN log /\ log'[i] = log[i])
      <4>1. log \in Seq(Nat)
        BY Zenon DEF CallTypes
      <4> QED
        BY <1>5, <2>2, <4>1, GrownLog
    <3> QED
      BY Zenon, <1>5, <2>2, <3>1 DEF CallTypes, IdInv
  <2> QED
    BY Zenon, <2>1, <2>2 DEF Returns
<1>7. NoCall \in CallRecord /\ NoCall.pc = "idle"
  BY SMTT(20) DEF NoCall, CallRecord
<1>8. CallTypes'
  BY Zenon, <1>2, <1>3, <1>4, <1>6, <1>7 DEF CallTypes
<1>9. \A b \in Active' : b \in Active /\ b # c /\ call'[b] = call[b]
  BY Zenon, <1>2, <1>4 DEF Active
<1>10. \A b \in Active' : /\ call'[b].id \in 1 .. Calls' /\ call'[b].op \in Op
                          /\ \A e \in done' : e.id # call'[b].id
                          /\ \A a \in Active' : call'[a].id = call'[b].id => a = b
  BY <1>2, <1>3, <1>9, SMTT(20) DEF IdInv
<1>11. \A b \in Client : call'[b].pc = "idle" => call'[b] = NoCall
  BY Zenon, <1>4 DEF IdInv
<1>12. IdInv'
  BY Zenon, <1>2, <1>3, <1>5, <1>6, <1>10, <1>11 DEF IdInv
<1> QED
  BY Zenon, <1>2, <1>8, <1>12

\* A late commit writes what was on its way.
LEMMA LateIds ==
  ASSUME CallTypes, IdInv, LateCommit
  PROVE  CallTypes' /\ IdInv' /\ Calls' = Calls
<1>1. PICK w \in late : log' = Append(log, w[1]) /\ late' = late \ {w} /\ UNCHANGED <<call, done>>
  BY Zenon DEF LateCommit
<1>2. Calls' = Calls /\ Active' = Active
  BY Zenon, <1>1 DEF Calls, Active
<1>3. w[1] \in Nat /\ w[1] \in 1 .. Calls
  BY Zenon DEF CallTypes, IdInv
<1>4. /\ log' \in Seq(Nat)
      /\ \A i \in DOMAIN log' : log'[i] = w[1] \/ (i \in DOMAIN log /\ log'[i] = log[i])
  <2>1. log \in Seq(Nat)
    BY Zenon DEF CallTypes
  <2> QED
    BY <1>1, <1>3, <2>1, GrownLog, SMTT(20)
<1>5. IsFiniteSet(late')
  BY Zenon, <1>1, FS_RemoveElement DEF CallTypes
<1>6. CallTypes'
  BY Zenon, <1>1, <1>4, <1>5 DEF CallTypes
<1>7. IdInv'
  BY <1>1, <1>2, <1>3, <1>4, SMTT(20) DEF IdInv
<1> QED
  BY Zenon, <1>2, <1>6, <1>7

\* Types and IDs are kept by every step.
LEMMA IdStep ==
  ASSUME CallTypes, IdInv, PoolInv, TickInv, [Next]_vars
  PROVE  CallTypes' /\ IdInv'
<1>1. CASE Quiet
  BY Zenon, <1>1 DEF Quiet, CallTypes, IdInv, Calls, Active
<1> QED
  BY <1>1, Effects, RefusedIds, BeginsIds, GoesIds, ReturnsIds, LateIds, ZenonT(30)

-----------------------------------------------------------------------------
(* What calls leave in the log.                                             *)

\* Besides what the runs check: what a call has to find in the log is there.
WriteInv ==
    /\ WriteIsApplied /\ ReadsAreFresh
    /\ \A c \in Client : call[c].since \subseteq Range(log)

\* A write that is appended is in the log, with those before it.
LEMMA AppendRange ==
  ASSUME NEW l \in Seq(Nat), NEW x \in Nat
  PROVE  Range(l) \subseteq Range(Append(l, x)) /\ x \in Range(Append(l, x))
<1> DEFINE a == Append(l, x)
<1>1. /\ a[Len(l) + 1] = x /\ DOMAIN a = DOMAIN l \cup {Len(l) + 1}
      /\ \A i \in DOMAIN l : a[i] = l[i]
  BY Appended, Zenon
<1> HIDE DEF a
<1>2. Range(l) \subseteq Range(a) /\ x \in Range(a)
  BY Zenon, <1>1 DEF Range
<1> QED
  BY Zenon, <1>2 DEF a

\* The log only grows.
LEMMA LogGrows ==
  ASSUME CallTypes, IdInv, PoolInv, TickInv, [Next]_vars
  PROVE  Range(log) \subseteq Range(log')
<1>1. log \in Seq(Nat) /\ \A c \in Active : call[c].id \in Nat
  BY Zenon DEF CallTypes, CallRecord, Active
<1>2. ASSUME NEW c \in Active, log' = Append(log, call[c].id)
      PROVE  Range(log) \subseteq Range(log')
  BY Zenon, <1>1, <1>2, AppendRange
<1>3. CASE LateCommit
  <2>1. PICK w \in late : log' = Append(log, w[1])
    BY Zenon, <1>3 DEF LateCommit
  <2>2. w[1] \in Nat
    BY Zenon DEF CallTypes
  <2> QED
    BY Zenon, <1>1, <2>1, <2>2, AppendRange
<1>4. \/ log' = log \/ \E c \in Active : log' = Append(log, call[c].id)
      \/ LateCommit
  BY Effects, Zenon DEF Quiet, Refused, Begins, Proceeds, Fails, Goes, Returns, Ends
<1> QED
  BY Zenon, <1>2, <1>3, <1>4

\* A write returns no error only when it is in the log; what has completed before a read
\* is in what the read sees.
LEMMA WriteStep ==
  ASSUME CallTypes, IdInv, PoolInv, TickInv, WriteInv, [Next]_vars
  PROVE  WriteInv'
<1>1. Range(log) \subseteq Range(log')
  BY Zenon, LogGrows
<1>2. /\ \A d \in done : d.op = "write" /\ d.ok /\ d.ran => d.id \in Range(log')
      /\ \A d \in done : d.fresh
      /\ \A c \in Client : call[c].since \subseteq Range(log')
  BY Zenon, <1>1 DEF WriteInv, WriteIsApplied, ReadsAreFresh
<1>3. CASE UNCHANGED <<call, done>>
  BY Zenon, <1>2, <1>3 DEF WriteInv, WriteIsApplied, ReadsAreFresh
<1>4. ASSUME NEW d, Refused(d) PROVE WriteInv'
  <2>1. done' = done \cup {d} /\ ~d.ok /\ d.fresh /\ call' = call
    BY Zenon, <1>4 DEF Refused
  <2> QED
    BY Zenon, <1>2, <2>1 DEF WriteInv, WriteIsApplied, ReadsAreFresh
<1>5. ASSUME NEW c, NEW k, Begins(c, k) PROVE WriteInv'
  <2>1. k.since \subseteq Completed /\ done' = done /\ call' = [call EXCEPT ![c] = k]
    BY Zenon, <1>5 DEF Begins
  <2>2. Completed \subseteq Range(log)
    BY Zenon DEF Completed, WriteInv, WriteIsApplied
  <2>3. \A b \in Client : call'[b].since \subseteq Range(log')
    BY Zenon, <1>1, <1>2, <2>1, <2>2 DEF CallTypes
  <2> QED
    BY Zenon, <1>2, <2>1, <2>3 DEF WriteInv, WriteIsApplied, ReadsAreFresh
<1>6. ASSUME NEW c, NEW k, Goes(c, k) PROVE WriteInv'
  <2>1. c \in Client /\ k.since = call[c].since /\ done' = done /\ call' = [call EXCEPT ![c] = k]
    BY Zenon, <1>6 DEF Goes, Active
  <2>2. \A b \in Client : call'[b].since \subseteq Range(log')
    BY Zenon, <1>2, <2>1 DEF CallTypes
  <2> QED
    BY Zenon, <1>2, <2>1, <2>2 DEF WriteInv, WriteIsApplied, ReadsAreFresh
<1>7. ASSUME NEW c, NEW d, Returns(c, d) PROVE WriteInv'
  <2>1. /\ c \in Client /\ d.id = call[c].id /\ done' = done \cup {d}
        /\ call' = [call EXCEPT ![c] = NoCall]
    BY Zenon, <1>7 DEF Returns, Ends, Active
  <2>2. d.fresh /\ (d.op = "write" /\ d.ok /\ d.ran => d.id \in Range(log'))
    <3>1. CASE ~(d.op = "write" /\ d.ok /\ d.ran) /\ (call[c].since \subseteq Range(log) => d.fresh)
      BY Zenon, <2>1, <3>1 DEF WriteInv
    <3>2. CASE log' = Append(log, call[c].id) /\ d.fresh
      <4>1. log \in Seq(Nat) /\ call[c].id \in Nat
        BY Zenon, <2>1 DEF CallTypes, CallRecord
      <4>2. call[c].id \in Range(log')
        BY Zenon, <3>2, <4>1, AppendRange
      <4> QED
        BY Zenon, <2>1, <3>2, <4>2
    <3> QED
      BY Zenon, <1>7, <3>1, <3>2 DEF Returns
  <2>3. \A b \in Client : call'[b].since \subseteq Range(log')
    BY Zenon, <1>2, <2>1 DEF CallTypes, NoCall
  <2> QED
    BY Zenon, <1>2, <2>1, <2>2, <2>3 DEF WriteInv, WriteIsApplied, ReadsAreFresh
<1>8. LateCommit => UNCHANGED <<call, done>>
  BY Zenon DEF LateCommit
<1> QED
  BY <1>3, <1>4, <1>5, <1>6, <1>7, <1>8, Effects, Zenon DEF Quiet, Proceeds, Fails

-----------------------------------------------------------------------------
(* How often a write is committed.                                          *)

InLog(l, w) == {i \in DOMAIN l : l[i] = w}
OnWay(m, w) == {e \in m : e[1] = w}
TimesIn(l, m, w) == Cardinality(InLog(l, w)) + Cardinality(OnWay(m, w))

\* The places of a write are finitely many.
LEMMA FiniteTimes ==
  ASSUME NEW l \in Seq(Nat), NEW m, IsFiniteSet(m), NEW w
  PROVE  /\ IsFiniteSet(InLog(l, w)) /\ IsFiniteSet(OnWay(m, w))
         /\ Cardinality(InLog(l, w)) \in Nat /\ Cardinality(OnWay(m, w)) \in Nat
<1>1. IsFiniteSet(DOMAIN l)
  <2>1. Len(l) \in Nat /\ DOMAIN l = 1 .. Len(l) /\ 1 \in Int /\ Len(l) \in Int
    OBVIOUS
  <2> QED
    BY Zenon, <2>1, FS_Interval
<1>2. IsFiniteSet(InLog(l, w)) /\ IsFiniteSet(OnWay(m, w))
  BY Zenon, <1>1, FS_Subset DEF InLog, OnWay
<1> QED
  BY Zenon, <1>2, FS_CardinalityType

\* Appending a write counts it once more.
LEMMA AppendTimes ==
  ASSUME NEW l \in Seq(Nat), NEW x \in Nat, NEW w
  PROVE  /\ w # x => InLog(Append(l, x), w) = InLog(l, w)
         /\ w = x => Cardinality(InLog(Append(l, x), w)) = Cardinality(InLog(l, w)) + 1
<1> DEFINE n == Len(l) + 1
           a == Append(l, x)
<1>1. /\ n \in DOMAIN a /\ n \notin DOMAIN l /\ a[n] = x
      /\ DOMAIN a = DOMAIN l \cup {n} /\ \A i \in DOMAIN l : a[i] = l[i]
  BY Appended, Zenon
<1> HIDE DEF n, a
<1>2. w # x => InLog(a, w) = InLog(l, w)
  BY Zenon, <1>1 DEF InLog
<1>3. w = x => InLog(a, w) = InLog(l, w) \cup {n} /\ n \notin InLog(l, w)
  BY Zenon, <1>1 DEF InLog
<1>4. IsFiniteSet(InLog(l, w))
  BY Zenon, FiniteTimes, FS_EmptySet
<1>5. w = x => Cardinality(InLog(a, w)) = Cardinality(InLog(l, w)) + 1
  BY Zenon, <1>3, <1>4, FS_AddElement
<1> QED
  BY Zenon, <1>2, <1>5 DEF a

\* One more write on its way counts it at most once more.
LEMMA LateTimes ==
  ASSUME NEW m, IsFiniteSet(m), NEW e, NEW w
  PROVE  /\ w # e[1] => OnWay(m \cup {e}, w) = OnWay(m, w)
         /\ w = e[1] => \/ OnWay(m \cup {e}, w) = OnWay(m, w)
                        \/ Cardinality(OnWay(m \cup {e}, w)) = Cardinality(OnWay(m, w)) + 1
<1>1. w # e[1] => OnWay(m \cup {e}, w) = OnWay(m, w)
  BY Zenon DEF OnWay
<1>2. w = e[1] => OnWay(m \cup {e}, w) = OnWay(m, w) \cup {e}
  BY Zenon DEF OnWay
<1>3. IsFiniteSet(OnWay(m, w))
  BY Zenon, FS_Subset DEF OnWay
<1>4. CASE e \in OnWay(m, w)
  BY <1>1, <1>2, <1>4, Zenon
<1>5. CASE e \notin OnWay(m, w)
  BY <1>1, <1>2, <1>3, <1>5, FS_AddElement, Zenon
<1> QED
  BY Zenon, <1>4, <1>5

\* A write that comes late was on its way.
LEMMA CommitTimes ==
  ASSUME NEW m, IsFiniteSet(m), NEW e \in m, NEW w
  PROVE  /\ w # e[1] => OnWay(m \ {e}, w) = OnWay(m, w)
         /\ w = e[1] => Cardinality(OnWay(m \ {e}, w)) = Cardinality(OnWay(m, w)) - 1
<1>1. w # e[1] => OnWay(m \ {e}, w) = OnWay(m, w)
  BY Zenon DEF OnWay
<1>2. w = e[1] => OnWay(m \ {e}, w) = OnWay(m, w) \ {e} /\ e \in OnWay(m, w)
  BY Zenon DEF OnWay
<1>3. IsFiniteSet(OnWay(m, w))
  BY Zenon, FS_Subset DEF OnWay
<1> QED
  BY <1>1, <1>2, <1>3, FS_RemoveElement, Zenon

\* A write that is neither in the log nor on its way is counted zero times.
LEMMA NoTimes ==
  ASSUME NEW l, NEW m, NEW w, \A i \in DOMAIN l : l[i] # w, \A e \in m : e[1] # w
  PROVE  TimesIn(l, m, w) = 0
<1>1. InLog(l, w) = {} /\ OnWay(m, w) = {}
  BY Zenon DEF InLog, OnWay
<1>2. Cardinality({}) = 0
  BY Zenon, FS_EmptySet
<1> QED
  BY <1>1, <1>2 DEF TimesIn

\* A call that is answered or fails writes at most once, and nothing of another call.
LEMMA WriteTimes ==
  ASSUME CallTypes, NEW x \in Nat, NEW e, e[1] = x,
         \/ UNCHANGED <<log, late>>
         \/ log' = Append(log, x) /\ UNCHANGED late
         \/ late' = late \cup {e} /\ UNCHANGED log,
         NEW w \in Nat
  PROVE  /\ TimesIn(log, late, w) \in Nat /\ TimesIn(log', late', w) \in Nat
         /\ w # x => TimesIn(log', late', w) = TimesIn(log, late, w)
         /\ TimesIn(log', late', w) <= TimesIn(log, late, w) + 1
<1>1. log \in Seq(Nat) /\ IsFiniteSet(late)
  BY Zenon DEF CallTypes
<1> DEFINE a == Cardinality(InLog(log, w))
           b == Cardinality(OnWay(late, w))
           p == Cardinality(InLog(log', w))
           q == Cardinality(OnWay(late', w))
<1>2. TimesIn(log, late, w) = a + b /\ TimesIn(log', late', w) = p + q
  BY Zenon DEF TimesIn
<1>3. a \in Nat /\ b \in Nat
  BY Zenon, <1>1, FiniteTimes
<1>4. \/ p = a /\ q = b
      \/ w = x /\ p = a + 1 /\ q = b
      \/ w = x /\ p = a /\ q = b + 1
  <2>1. CASE UNCHANGED <<log, late>>
    BY Zenon, <2>1
  <2>2. CASE log' = Append(log, x) /\ UNCHANGED late
    BY <1>1, <2>2, AppendTimes
  <2>3. CASE late' = late \cup {e} /\ UNCHANGED log
    BY <1>1, <2>3, LateTimes
  <2> QED
    BY Zenon, <2>1, <2>2, <2>3
<1> HIDE DEF a, b, p, q
<1> QED
  BY <1>2, <1>3, <1>4

\* A late commit counts no write twice.
LEMMA LateCommitTimes ==
  ASSUME CallTypes, LateCommit, NEW w \in Nat
  PROVE  TimesIn(log', late', w) = TimesIn(log, late, w)
<1>1. PICK e \in late : log' = Append(log, e[1]) /\ late' = late \ {e}
  BY Zenon DEF LateCommit
<1>2. log \in Seq(Nat) /\ IsFiniteSet(late) /\ e[1] \in Nat
  BY Zenon DEF CallTypes
<1> DEFINE a == Cardinality(InLog(log, w))
           b == Cardinality(OnWay(late, w))
           p == Cardinality(InLog(log', w))
           q == Cardinality(OnWay(late', w))
<1>3. TimesIn(log, late, w) = a + b /\ TimesIn(log', late', w) = p + q
  BY Zenon DEF TimesIn
<1>4. a \in Nat /\ b \in Nat
  BY Zenon, <1>2, FiniteTimes
<1>5. (w # e[1] => p = a) /\ (w = e[1] => p = a + 1)
  BY Zenon, <1>1, <1>2, AppendTimes
<1>6. (w # e[1] => q = b) /\ (w = e[1] => q = b - 1)
  BY Zenon, <1>1, <1>2, CommitTimes
<1> HIDE DEF a, b, p, q
<1> QED
  BY <1>3, <1>4, <1>5, <1>6

\* A write sent to the leader has no other host to go to: while the leader is still to be
\* tried nothing of it is committed or on its way.
Once(l, m, k) ==
    k.toLeader => /\ ~k.first
                  /\ \/ k.left = <<>> /\ TimesIn(l, m, k.id) <= 1
                     \/ Len(k.left) = 1 /\ TimesIn(l, m, k.id) = 0

LeaderInv ==
    /\ \A d \in done : d.toLeader => TimesIn(log, late, d.id) <= 1
    /\ \A c \in Active : Once(log, late, call[c])

\* What the other calls and their results say stays true when the log and the writes on
\* their way change for call c only.
LEMMA OthersOnce ==
  ASSUME CallTypes, IdInv, LeaderInv, NEW c \in Active,
         \A w \in Nat : w # call[c].id => TimesIn(log', late', w) = TimesIn(log, late, w)
  PROVE  /\ \A d \in done : d.toLeader => TimesIn(log', late', d.id) <= 1
         /\ \A b \in Active : b # c => Once(log', late', call[b])
<1>1. /\ \A d \in done : d.id \in Nat /\ d.id # call[c].id
      /\ \A b \in Active : call[b].id \in Nat /\ (b # c => call[b].id # call[c].id)
  BY Zenon DEF CallTypes, IdInv, Result, CallRecord, Active
<1>2. \A d \in done : TimesIn(log', late', d.id) = TimesIn(log, late, d.id)
  BY Zenon, <1>1
<1>3. \A b \in Active : b # c => TimesIn(log', late', call[b].id) = TimesIn(log, late, call[b].id)
  BY Zenon, <1>1
<1> QED
  BY Zenon, <1>2, <1>3 DEF LeaderInv, Once

\* After the last host of a table none is left.
LEMMA LastTail ==
  ASSUME NEW s \in Seq(Host), Len(s) = 1
  PROVE  Tail(s) = <<>>
<1>1. Tail(s) \in Seq(Host) /\ Len(Tail(s)) = 0
  <2>1. Len(<<>>) = 0
    OBVIOUS
  <2>2. s = <<>> => Len(s) = 0
    BY <2>1, Zenon
  <2>3. s # <<>>
    BY <2>2
  <2> QED
    BY <2>3
<1>2. \A t \in Seq(Host) : Len(t) = 0 => t = <<>>
  OBVIOUS
<1> QED
  BY <1>1, <1>2, Zenon

\* No step sends a write of the leader's twice.
LEMMA LeaderStep ==
  ASSUME CallTypes, IdInv, PoolInv, TickInv, LeaderInv, [Next]_vars
  PROVE  LeaderInv'
<1>1. \A c \in Active : c \in Client /\ call[c].id \in Nat /\ call[c] \in CallRecord
  BY Zenon DEF CallTypes, CallRecord, Active
<1>2. CASE Quiet
  BY Zenon, <1>2 DEF Quiet, LeaderInv, Active
<1>3. ASSUME NEW d, Refused(d) PROVE LeaderInv'
  <2>1. done' = done \cup {d} /\ ~d.toLeader /\ UNCHANGED <<call, log, late>>
    BY Zenon, <1>3 DEF Refused
  <2> QED
    BY Zenon, <2>1 DEF LeaderInv, Active
<1>4. ASSUME NEW c, NEW k, Begins(c, k) PROVE LeaderInv'
  <2>1. /\ c \in Client /\ k.id = Calls + 1 /\ UNCHANGED <<done, log, late>>
        /\ k.toLeader => ~k.first /\ Len(k.left) = 1
        /\ call'[c] = k /\ \A b \in Client : b # c => call'[b] = call[b]
    BY Zenon, <1>4 DEF Begins, CallTypes
  <2>2. TimesIn(log, late, k.id) = 0
    <3>1. \A n \in 1 .. Calls : n # k.id
      BY <2>1, CountCalls
    <3> QED
      BY Zenon, <3>1, NoTimes DEF IdInv
  <2>3. Once(log, late, k)
    BY Zenon, <2>1, <2>2 DEF Once
  <2>4. \A b \in Active' : b = c \/ (b \in Active /\ call'[b] = call[b])
    BY Zenon, <2>1 DEF Active
  <2> QED
    BY Zenon, <2>1, <2>3, <2>4 DEF LeaderInv
<1>5. ASSUME NEW c, NEW k, Proceeds(c, k) PROVE LeaderInv'
  <2>1. Goes(c, k) /\ UNCHANGED <<log, late>>
    BY Zenon, <1>5 DEF Proceeds
  <2>2. /\ c \in Active /\ k.id = call[c].id /\ k.toLeader = call[c].toLeader /\ UNCHANGED done
        /\ call'[c] = k /\ \A b \in Client : b # c => call'[b] = call[b]
    BY Zenon, <2>1 DEF Goes, CallTypes, Active
  <2>3. Once(log, late, call[c])
    BY Zenon, <2>2 DEF LeaderInv
  <2>4. Once(log, late, k)
    BY <1>5, <2>2, <2>3, Zenon DEF Once, Proceeds
  <2>5. Active' = Active
    BY Zenon, <2>1, GoesCount
  <2>6. \A b \in Active' : Once(log, late, call'[b])
    BY <1>1, <2>2, <2>4, <2>5, ZenonT(30) DEF LeaderInv
  <2> QED
    BY Zenon, <2>1, <2>2, <2>6 DEF LeaderInv
<1>6. ASSUME NEW c, NEW k, Fails(c, k) PROVE LeaderInv'
  <2>1. Goes(c, k)
    BY Zenon, <1>6 DEF Fails
  <2>2. /\ c \in Active /\ k.id = call[c].id /\ k.toLeader = call[c].toLeader /\ UNCHANGED done
        /\ call'[c] = k /\ \A b \in Client : b # c => call'[b] = call[b]
    BY Zenon, <2>1 DEF Goes, CallTypes, Active
  <2>3. /\ call[c].left # <<>> /\ k.left = Tail(call[c].left) /\ k.first = call[c].first
        /\ \/ UNCHANGED <<log, late>>
           \/ log' = Append(log, call[c].id) /\ UNCHANGED late
           \/ late' = late \cup {<<call[c].id, call[c].tried>>} /\ UNCHANGED log
    BY Zenon, <1>6 DEF Fails
  <2>4. ASSUME NEW w \in Nat
        PROVE  /\ TimesIn(log, late, w) \in Nat /\ TimesIn(log', late', w) \in Nat
               /\ w # call[c].id => TimesIn(log', late', w) = TimesIn(log, late, w)
               /\ TimesIn(log', late', w) <= TimesIn(log, late, w) + 1
    <3> DEFINE e == <<call[c].id, call[c].tried>>
    <3>1. e[1] = call[c].id /\ call[c].id \in Nat
      BY Zenon, <1>1, <2>2
    <3> HIDE DEF e
    <3>2. \/ UNCHANGED <<log, late>>
          \/ log' = Append(log, call[c].id) /\ UNCHANGED late
          \/ late' = late \cup {e} /\ UNCHANGED log
      BY Zenon, <2>3 DEF e
    <3> QED
      BY <3>1, <3>2, WriteTimes, ZenonT(30)
  <2>5. /\ \A d \in done : d.toLeader => TimesIn(log', late', d.id) <= 1
        /\ \A b \in Active : b # c => Once(log', late', call[b])
    BY Zenon, <2>2, <2>4, OthersOnce
  <2>6. Once(log', late', k)
    <3>1. SUFFICES ASSUME k.toLeader PROVE Once(log', late', k)
      BY Zenon DEF Once
    <3>2. /\ ~call[c].first
          /\ \/ call[c].left = <<>>
             \/ Len(call[c].left) = 1 /\ TimesIn(log, late, call[c].id) = 0
      BY <2>2, <3>1, ZenonT(30) DEF LeaderInv, Once
    <3>3. call[c].left \in Seq(Host) /\ call[c].id \in Nat
      BY Zenon, <1>1, <2>2 DEF CallRecord
    <3>4. k.left = <<>>
      <4>1. Len(call[c].left) = 1
        BY Zenon, <2>3, <3>2
      <4> QED
        BY Zenon, <2>3, <3>3, <4>1, LastTail
    <3>5. TimesIn(log', late', k.id) <= 1
      <4>1. /\ TimesIn(log', late', call[c].id) \in Nat
            /\ TimesIn(log', late', call[c].id) <= TimesIn(log, late, call[c].id) + 1
        BY <2>4, <3>3, ZenonT(30)
      <4>2. TimesIn(log, late, call[c].id) = 0
        BY Zenon, <2>3, <3>2
      <4> QED
        BY <2>2, <4>1, <4>2
    <3> QED
      BY <2>3, <3>2, <3>4, <3>5, ZenonT(30) DEF Once
  <2>7. Active' = Active
    BY Zenon, <2>1, GoesCount
  <2>8. \A b \in Active' : Once(log', late', call'[b])
    BY Zenon, <1>1, <2>2, <2>5, <2>6, <2>7
  <2> QED
    BY Zenon, <2>2, <2>5, <2>8 DEF LeaderInv
<1>7. ASSUME NEW c, NEW d, Returns(c, d) PROVE LeaderInv'
  <2>1. Ends(c, d) /\ UNCHANGED late
    BY Zenon, <1>7 DEF Returns
  <2>2. /\ c \in Active /\ d.id = call[c].id /\ d.toLeader = call[c].toLeader
        /\ done' = done \cup {d} /\ \A b \in Client : b # c => call'[b] = call[b]
    BY Zenon, <2>1 DEF Ends, CallTypes, Active
  <2>3. UNCHANGED log \/ (log' = Append(log, call[c].id) /\ call[c].left # <<>>)
    BY Zenon, <1>7 DEF Returns
  <2>4. ASSUME NEW w \in Nat
        PROVE  /\ TimesIn(log, late, w) \in Nat /\ TimesIn(log', late', w) \in Nat
               /\ w # call[c].id => TimesIn(log', late', w) = TimesIn(log, late, w)
               /\ TimesIn(log', late', w) <= TimesIn(log, late, w) + 1
    <3> DEFINE e == <<call[c].id, call[c].tried>>
    <3>1. e[1] = call[c].id /\ call[c].id \in Nat
      BY Zenon, <1>1, <2>2
    <3> HIDE DEF e
    <3>2. \/ UNCHANGED <<log, late>>
          \/ log' = Append(log, call[c].id) /\ UNCHANGED late
          \/ late' = late \cup {e} /\ UNCHANGED log
      BY Zenon, <2>1, <2>3
    <3> QED
      BY <3>1, <3>2, WriteTimes, ZenonT(30)
  <2>5. /\ \A e \in done : e.toLeader => TimesIn(log', late', e.id) <= 1
        /\ \A b \in Active : b # c => Once(log', late', call[b])
    BY Zenon, <2>2, <2>4, OthersOnce
  <2>6. d.toLeader => TimesIn(log', late', d.id) <= 1
    <3>1. SUFFICES ASSUME d.toLeader PROVE TimesIn(log', late', d.id) <= 1
      OBVIOUS
    <3>2. \/ call[c].left = <<>> /\ TimesIn(log, late, call[c].id) <= 1
          \/ Len(call[c].left) = 1 /\ TimesIn(log, late, call[c].id) = 0
      BY <2>2, <3>1, ZenonT(30) DEF LeaderInv, Once
    <3>3. call[c].id \in Nat
      BY Zenon, <1>1, <2>2
    <3>4. /\ TimesIn(log', late', call[c].id) \in Nat
          /\ TimesIn(log', late', call[c].id) <= TimesIn(log, late, call[c].id) + 1
      BY <2>4, <3>3, ZenonT(30)
    <3>5. CASE UNCHANGED log
      <4>1. TimesIn(log, late, call[c].id) <= 1
        BY <3>2
      <4>2. TimesIn(log', late', d.id) = TimesIn(log, late, call[c].id)
        BY <2>1, <2>2, <3>5, ZenonT(30)
      <4> QED
        BY Zenon, <4>1, <4>2
    <3>6. CASE call[c].left # <<>>
      <4>1. TimesIn(log, late, call[c].id) = 0
        BY Zenon, <3>2, <3>6
      <4> QED
        BY <2>2, <3>4, <4>1, SMTT(20)
    <3> QED
      BY Zenon, <2>3, <3>5, <3>6
  <2>7. Active' = Active \ {c}
    BY Zenon, <2>1, EndsCount
  <2>8. \A b \in Active' : Once(log', late', call'[b])
    BY Zenon, <1>1, <2>2, <2>5, <2>7
  <2> QED
    BY Zenon, <2>2, <2>5, <2>6, <2>8 DEF LeaderInv
<1>8. CASE LateCommit
  <2>1. UNCHANGED <<call, done>> /\ Active' = Active
    BY Zenon, <1>8 DEF LateCommit, Active
  <2>2. \A w \in Nat : TimesIn(log', late', w) = TimesIn(log, late, w)
    BY Zenon, <1>8, LateCommitTimes
  <2>3. \A d \in done : d.id \in Nat
    BY Zenon DEF CallTypes, Result
  <2> QED
    BY Zenon, <1>1, <2>1, <2>2, <2>3 DEF LeaderInv, Once
<1> QED
  BY <1>2, <1>3, <1>4, <1>5, <1>6, <1>7, <1>8, Effects, ZenonT(30)

-----------------------------------------------------------------------------
(* The theorems.                                                            *)

\* Every step keeps the pool's entries apart and open.
LEMMA PoolStep ==
  ASSUME CallTypes, PoolInv, TickInv, [Next]_vars
  PROVE  PoolInv'
<1>1. CASE UNCHANGED network
  BY Zenon, <1>1 DEF network, PoolInv
<1>2. ASSUME NEW h, NEW i \in Pooled(h), pool' = Used(i), UNCHANGED closed PROVE PoolInv'
  BY Zenon, <1>2, UsedPool DEF Pooled
<1>3. CASE Ping
  <2>1. PICK r \in tick.left :
          \/ Dial(tick.rows[r].host)
          \/ \E i \in Pooled(tick.rows[r].host) : pool' = Used(i) /\ UNCHANGED closed
    BY <1>3, ZenonT(30) DEF Ping
  <2>2. tick.rows[r].host \in Host
    BY Zenon DEF TickInv, TickTypes
  <2> QED
    BY <1>2, <2>1, <2>2, DialPool, Zenon
<1>4. ASSUME NEW c \in Client, Try(c) PROVE PoolInv'
  BY <1>1, <1>2, <1>4, Zenon DEF Try
<1>5. ASSUME NEW c \in Client, Dialed(c) PROVE PoolInv'
  <2>1. Dial(Head(call[c].left)) /\ call[c].left # <<>> /\ call[c].left \in Seq(Host)
    BY Zenon, <1>5 DEF Dialed, CallTypes, CallRecord
  <2>2. Head(call[c].left) \in Host
    BY <2>1
  <2> QED
    BY <2>1, <2>2, DialPool, ZenonT(30)
<1>6. \/ UNCHANGED network \/ Ping \/ \E c \in Client : Try(c) \/ Dialed(c)
  BY Zenon DEF Next, vars, Manager, TickRead, Publish, Users, NotReady, Begin, ClientStep, Exhausted,
     Serve, ServeIndexLocal, Fail, Environment, Change, LateCommit, HostDown, HostUp, CatchUp
<1> QED
  BY <1>1, <1>3, <1>4, <1>5, <1>6, ZenonT(30)

\* What is left of the types.
RestInv ==
    /\ moves \in 0 .. MaxMoves /\ faults \in 0 .. MaxFaults
    /\ up \in [Host -> BOOLEAN] /\ applied \in [Host -> 0 .. Len(log)]

IInv ==
    /\ CallTypes /\ IdInv /\ PoolInv /\ TickInv /\ WriteInv /\ LeaderInv /\ RestInv

\* A host has applied part of the log, and faults and moves are bounded.
LEMMA RestStep ==
  ASSUME CallTypes, CallTypes', IdInv, PoolInv, TickInv, RestInv, [Next]_vars
  PROVE  RestInv'
<1>1. Len(log) \in Nat /\ Len(log') \in Nat /\ Len(log) <= Len(log')
  <2>1. \A x : log' = Append(log, x) => Len(log') = Len(log) + 1
    BY DEF CallTypes
  <2>2. log' = log \/ \E x : log' = Append(log, x)
    BY Effects, Zenon DEF Quiet, Refused, Begins, Proceeds, Fails, Goes, Returns, Ends, LateCommit
  <2>3. Len(log) \in Nat
    BY DEF CallTypes
  <2> QED
    BY <2>1, <2>2, <2>3
<1>2. faults' = faults \/ Fault
  BY Zenon DEF Next, vars, Manager, TickRead, Ping, Publish, Users, NotReady, Begin, ClientStep, Try,
     Dialed, Exhausted, Serve, ServeIndexLocal, Fail, Environment, Change, LateCommit, HostDown, HostUp,
     CatchUp
<1>3. moves' = moves \/ (moves < MaxMoves /\ moves' = moves + 1)
  BY Zenon DEF Next, vars, registry, Manager, TickRead, Ping, Publish, Users, NotReady, Begin,
     ClientStep, Try, Dialed, Exhausted, Serve, ServeIndexLocal, Fail, Environment, Change, LateCommit,
     HostDown, HostUp, CatchUp
<1>4. up' = up \/ \E h \in Host, b \in BOOLEAN : up' = [up EXCEPT ![h] = b]
  BY Zenon DEF Next, vars, Manager, TickRead, Ping, Publish, Users, NotReady, Begin, ClientStep, Try,
     Dialed, Exhausted, Serve, ServeIndexLocal, Fail, Environment, Change, LateCommit, HostDown, HostUp,
     CatchUp
<1>5. \/ applied' = applied
      \/ \E h : applied' = [applied EXCEPT ![h] = Len(log)]
      \/ \E h \in Host : /\ applied[h] < Len(log)
                         /\ applied' = [applied EXCEPT ![h] = applied[h] + 1]
  BY Zenon DEF Next, vars, raft, Manager, TickRead, Ping, Publish, Users, NotReady, Begin, ClientStep,
     Try, Dialed, Exhausted, Serve, ServeRead, ServeIndexLocal, Fail, Environment, Change, LateCommit,
     HostDown, HostUp, CatchUp
<1>6. moves' \in 0 .. MaxMoves /\ faults' \in 0 .. MaxFaults
  BY <1>2, <1>3, BoundsAssumption DEF RestInv, Fault
<1>7. up' \in [Host -> BOOLEAN]
  BY Zenon, <1>4 DEF RestInv
<1>8. applied' \in [Host -> 0 .. Len(log')]
  BY <1>1, <1>5 DEF RestInv
<1> QED
  BY Zenon, <1>6, <1>7, <1>8 DEF RestInv

\* The invariant holds before the first tick and the first call.
LEMMA InitIInv ==
  ASSUME Init
  PROVE  IInv
<1>1. /\ row = FirstRow /\ news = TRUE /\ moves = 0 /\ up = [h \in Host |-> TRUE]
      /\ log = <<>> /\ applied = [h \in Host |-> 0] /\ late = {} /\ tick = Resting
      /\ table = [ready |-> FALSE, member |-> <<>>, replica |-> <<>>, leader |-> NoHost]
      /\ pool = <<>> /\ closed = {} /\ call = [c \in Client |-> NoCall] /\ done = {} /\ faults = 0
  BY Zenon DEF Init
<1>2. NoCall \in CallRecord /\ NoCall.pc = "idle" /\ NoCall.since = {}
  BY DEF NoCall, CallRecord
<1>3. IsFiniteSet({}) /\ Cardinality({}) = 0
  BY Zenon, FS_EmptySet
<1>4. Active = {} /\ \A c \in Client : call[c] = NoCall
  BY Zenon, <1>1, <1>2 DEF Active
<1>5. CallTypes
  BY <1>1, <1>2, <1>3, <1>4, SMTT(20) DEF CallTypes
<1>6. Calls = 0
  BY <1>1, <1>3, <1>4, <1>5, CountCalls, SMTT(20)
<1>7. IdInv
  BY <1>1, <1>4, <1>6, BoundsAssumption, SMTT(20) DEF IdInv
<1>8. PoolInv
  BY <1>1, PoolSizeAssumption, SMTT(20) DEF PoolInv, Distinct
<1>9. TickInv
  <2>1. /\ tick.pc = "idle" /\ tick.rows = <<>> /\ tick.left = {} /\ tick.ping = <<>>
        /\ tick = [f \in TickFields |-> tick[f]]
    BY Zenon, <1>1 DEF Resting, TickFields
  <2>2. DOMAIN tick.rows = {} /\ DOMAIN tick.ping = {}
    BY <2>1
  <2>3. TickTypes
    BY Zenon, <1>3, <2>1, <2>2 DEF TickTypes
  <2>4. TableTypes
    BY <1>1, SMTT(20) DEF TableTypes
  <2> QED
    BY Zenon, <1>1, <2>1, <2>3, <2>4, RowsAssumption DEF TickInv, TablesCurrent
<1>10. WriteInv
  BY Zenon, <1>1, <1>2, <1>4 DEF WriteInv, WriteIsApplied, ReadsAreFresh
<1>11. LeaderInv
  BY Zenon, <1>1, <1>4 DEF LeaderInv
<1>12. RestInv
  BY <1>1, BoundsAssumption DEF RestInv
<1> QED
  BY Zenon, <1>5, <1>7, <1>8, <1>9, <1>10, <1>11, <1>12 DEF IInv

\* It is inductive.
LEMMA StepIInv ==
  ASSUME IInv, [Next]_vars
  PROVE  IInv'
<1>1. CallTypes /\ IdInv /\ PoolInv /\ TickInv /\ WriteInv /\ LeaderInv /\ RestInv
  BY Zenon DEF IInv
<1>2. CallTypes' /\ IdInv'
  BY Zenon, <1>1, IdStep
<1>3. PoolInv'
  BY Zenon, <1>1, PoolStep
<1>4. TickInv'
  <2>1. CASE UNCHANGED vars
    <3>1. UNCHANGED <<row, news, tick, table>>
      BY Zenon, <2>1 DEF vars, registry
    <3> QED
      BY Zenon, <1>1, <3>1, TickSame
  <2> QED
    BY Zenon, <1>1, <2>1, TickStep
<1>5. WriteInv' /\ LeaderInv' /\ RestInv'
  BY Zenon, <1>1, <1>2, WriteStep, LeaderStep, RestStep
<1> QED
  BY Zenon, <1>2, <1>3, <1>4, <1>5 DEF IInv

\* The invariant of the clients, the manager and the pool.
THEOREM AlwaysIInv == Spec => []IInv
BY InitIInv, StepIInv, PTL DEF Spec

\* Types, and the bound of the pool, however many callers dial at once.
THEOREM TypeCorrect == Spec => []TypeOK
<1>1. IInv => TypeOK
  <2>1. SUFFICES ASSUME IInv PROVE TypeOK
    OBVIOUS
  <2>2. CallTypes /\ IdInv /\ PoolInv /\ TickTypes /\ TableTypes /\ RestInv
        /\ row \in Rows /\ news \in BOOLEAN
    BY Zenon, <2>1 DEF IInv, TickInv
  <2>3. Range(table.member) \cup Range(table.replica) \subseteq Host
    BY <2>2 DEF TableTypes, Range
  <2>4. \A c \in Client : /\ call[c].pc \in {"idle", "next", "dial", "sent"}
                          /\ call[c].conn \in Conn \cup {NoConn}
    BY Zenon, <2>2 DEF CallTypes, CallRecord
  <2>5. \A d \in done : d.op \in Op /\ d.id \in 1 .. MaxCalls
    <3>1. Calls \in Nat /\ Calls <= MaxCalls
      BY Zenon, <2>2, CountCalls DEF IdInv
    <3>2. \A n \in 1 .. Calls : n \in 1 .. MaxCalls
      BY <3>1, BoundsAssumption
    <3> QED
      BY Zenon, <2>2, <3>2 DEF CallTypes, Result, IdInv
  <2> QED
    BY <2>2, <2>3, <2>4, <2>5, ZenonT(30) DEF TypeOK, RestInv, TickTypes, TableTypes, PoolInv
<1> QED
  BY <1>1, AlwaysIInv, PTL

\* The tables of clientManager.tick list hosts of the present replicas, of the right kind,
\* whenever the manager rests with no news.
THEOREM TablesAreCurrent == Spec => []TablesCurrent
<1>1. IInv => TablesCurrent
  BY Zenon DEF IInv, TickInv
<1> QED
  BY <1>1, AlwaysIInv, PTL

\* A write of Apply or Commit that returns no error after a host was tried is in the log.
THEOREM WritesAreApplied == Spec => []WriteIsApplied
<1>1. IInv => WriteIsApplied
  BY Zenon DEF IInv, WriteInv
<1> QED
  BY <1>1, AlwaysIInv, PTL

\* A read that is not stale, and an index barrier at another host, contain every write
\* that had completed before the call.
THEOREM FreshReads == Spec => []ReadsAreFresh
<1>1. IInv => ReadsAreFresh
  BY Zenon DEF IInv, WriteInv
<1> QED
  BY <1>1, AlwaysIInv, PTL

\* A write sent to the leader (WithWriteToLeader) is committed at most once, now or later.
THEOREM LeaderOnce == Spec => []LeaderWritesOnce
<1>1. IInv => LeaderWritesOnce
  <2>1. SUFFICES ASSUME IInv PROVE LeaderWritesOnce
    OBVIOUS
  <2>2. \A w : Times(w) = TimesIn(log, late, w)
    BY Zenon DEF Times, TimesIn, InLog, OnWay
  <2>3. LeaderInv /\ CallTypes /\ IdInv
    BY Zenon, <2>1 DEF IInv
  <2>4. \A d \in done : d.toLeader => Times(d.id) <= 1
    BY Zenon, <2>2, <2>3 DEF LeaderInv
  <2>5. ASSUME NEW c \in Client, call[c].toLeader PROVE Times(call[c].id) <= 1
    <3>1. c \in Active
      <4>1. call[c].pc = "idle" => call[c] = NoCall
        BY Zenon, <2>3 DEF IdInv
      <4>2. ~NoCall.toLeader
        BY Zenon DEF NoCall
      <4> QED
        BY Zenon, <2>5, <4>1, <4>2 DEF Active
    <3> QED
      BY <2>2, <2>3, <2>5, <3>1, SMTT(20) DEF LeaderInv, Once
  <2> QED
    BY Zenon, <2>4, <2>5 DEF LeaderWritesOnce
<1> QED
  BY <1>1, AlwaysIInv, PTL

\* The pool hands out open connections, one for a host, although its get is not atomic:
\* two callers may miss the same host and both dial it.
THEOREM PoolIsOpen == Spec => []PooledAreOpen
<1>1. IInv => PooledAreOpen
  BY Zenon DEF IInv, PoolInv, Distinct, PooledAreOpen
<1> QED
  BY <1>1, AlwaysIInv, PTL
=============================================================================
