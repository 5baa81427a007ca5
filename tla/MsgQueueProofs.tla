--------------------------- MODULE MsgQueueProofs ---------------------------
(***************************************************************************)
(* Theorems about MsgQueue: for any number of threads, blocks and messages *)
(* every block is in one place, nobody waits in vain, and the message      *)
(* queue implements BoundedQueue.                                          *)
(***************************************************************************)
EXTENDS MsgQueue, KernelProofs

-----------------------------------------------------------------------------
(* Chains of blocks *)

(* What is linked behind the block before place i of q. *)
PlaceAt(q, i) == IF i \in 1 .. Len(q) THEN q[i] ELSE NoBlock

(* The chain that begins at b links the blocks of q, in this order. *)
Links(q, b, nx) ==
    /\ q \in Seq(Block) /\ LinkedOnce(q)
    /\ b = PlaceAt(q, 1)
    /\ \A i \in 1 .. Len(q) : nx[q[i]] = PlaceAt(q, i + 1)

(* Chain, of any links between blocks. *)
ChainOf(nx, b) ==
    LET at[i \in 1 .. Cardinality(Block)] ==
            IF i = 1 THEN b
            ELSE LET last == at[i - 1] IN IF last = NoBlock THEN NoBlock ELSE nx[last]
        long == Cardinality({i \in 1 .. Cardinality(Block) : at[i] # NoBlock})
    IN  [i \in 1 .. long |-> at[i]]

(* Chain is written with a recursive function: this is its equation. *)
Follows(at, nx, b) ==
    at = [i \in 1 .. Cardinality(Block) |->
             IF i = 1 THEN b
             ELSE LET last == at[i - 1] IN IF last = NoBlock THEN NoBlock ELSE nx[last]]

(* The sequence q cannot be longer than there are blocks. *)
LEMMA ShortEnough ==
    ASSUME NEW q \in Seq(Block), LinkedOnce(q)
    PROVE  /\ Cardinality(Block) \in Nat /\ Len(q) \in Nat
           /\ Cardinality(1 .. Len(q)) = Len(q)
           /\ Len(q) <= Cardinality(Block)
<1>1. IsFiniteSet(Block)
  BY MsgQueueAssumption
<1>2. q \in Injection(1 .. Len(q), Block)
  BY DEF Injection, IsInjective, LinkedOnce
<1>3. Cardinality(1 .. Len(q)) <= Cardinality(Block)
  BY <1>1, <1>2, FS_Injection
<1>4. Len(q) \in Nat /\ Cardinality(1 .. Len(q)) = Len(q)
  <2>1. Len(q) \in Nat /\ Len(q) \in Int /\ 1 \in Int
    OBVIOUS
  <2> HIDE DEF LinkedOnce
  <2>2. Cardinality(1 .. Len(q)) = IF 1 > Len(q) THEN 0 ELSE Len(q) - 1 + 1
    BY ONLY <2>1, FS_Interval
  <2> QED BY <2>1, <2>2
<1> QED BY <1>1, <1>3, <1>4, FS_CardinalityType

(* Chain finds the blocks that are linked.  Its equation has a solution,   *)
(* the places of q, and no other one, as the least place where another one *)
(* differed would follow from the place before.                            *)
LEMMA ChainIs ==
    ASSUME NEW nx \in [Block -> Block \cup {NoBlock}], NEW q, NEW b, Links(q, b, nx)
    PROVE  ChainOf(nx, b) = q
<1> DEFINE N == Cardinality(Block)
           places == [i \in 1 .. N |-> PlaceAt(q, i)]
           at == CHOOSE f : Follows(f, nx, b)
           I == {i \in Nat : i \in 1 .. N /\ at[i] # PlaceAt(q, i)}
<1>1. /\ q \in Seq(Block) /\ LinkedOnce(q) /\ N \in Nat /\ Len(q) \in Nat /\ Len(q) <= N
      /\ b = PlaceAt(q, 1)
      /\ \A i \in 1 .. Len(q) : nx[q[i]] = PlaceAt(q, i + 1)
      /\ NoBlock \notin Block
  BY ShortEnough, MsgQueueAssumption DEF Links
<1>2. ASSUME NEW i \in 1 .. N, i # 1
      PROVE  PlaceAt(q, i) = IF PlaceAt(q, i - 1) = NoBlock THEN NoBlock
                             ELSE nx[PlaceAt(q, i - 1)]
  <2>1. CASE i - 1 \in 1 .. Len(q)
    <3>1. PlaceAt(q, i - 1) = q[i - 1] /\ q[i - 1] \in Block /\ i - 1 + 1 = i
      BY <1>1, <2>1 DEF PlaceAt
    <3> QED BY <1>1, <2>1, <3>1
  <2>2. CASE i - 1 \notin 1 .. Len(q)
    <3>1. i \notin 1 .. Len(q)
      BY <1>1, <1>2, <2>2
    <3> QED BY <2>2, <3>1 DEF PlaceAt
  <2> QED BY <2>1, <2>2
<1>3. Follows(at, nx, b)
  <2>1. \A i \in 1 .. N : i # 1 => places[i - 1] = PlaceAt(q, i - 1)
    BY <1>1
  <2>2. Follows(places, nx, b)
    BY <1>1, <1>2, <2>1 DEF Follows
  <2> QED BY <2>2, Zenon
<1>4. ChainOf(nx, b) = [i \in 1 .. Cardinality({i \in 1 .. N : at[i] # NoBlock}) |-> at[i]]
  BY DEF ChainOf, Follows
<1> HIDE DEF at, N
<1>5. I = {}
  <2> SUFFICES ASSUME I # {} PROVE FALSE
    OBVIOUS
  <2>1. PICK i \in I : \A j \in I : i <= j
    <3> HIDE DEF I
    <3>1. I \in SUBSET Nat
      BY DEF I
    <3> QED BY <3>1, MinOfIndices
  <2>2. i \in 1 .. N /\ at[i] # PlaceAt(q, i)
    OBVIOUS
  <2>3. CASE i = 1
    BY <1>1, <1>3, <2>2, <2>3 DEF Follows, N
  <2>4. CASE i # 1
    <3>1. i - 1 \in 1 .. N /\ i - 1 \notin I
      BY <1>1, <2>1, <2>2, <2>4
    <3>2. at[i - 1] = PlaceAt(q, i - 1)
      BY <1>1, <3>1
    <3>3. at[i] = IF at[i - 1] = NoBlock THEN NoBlock ELSE nx[at[i - 1]]
      BY <1>3, <2>2, <2>4 DEF Follows, N
    <3> QED BY <1>2, <2>2, <2>4, <3>2, <3>3
  <2> QED BY <2>3, <2>4
<1>6. \A i \in 1 .. N : at[i] = PlaceAt(q, i)
  BY <1>1, <1>5
<1>7. {i \in 1 .. N : at[i] # NoBlock} = 1 .. Len(q)
  BY <1>1, <1>6 DEF PlaceAt
<1>8. Cardinality(1 .. Len(q)) = Len(q)
  BY <1>1, ShortEnough
<1>9. \A i \in 1 .. Len(q) : at[i] = q[i]
  BY <1>1, <1>6 DEF PlaceAt
<1>10. ChainOf(nx, b) = [i \in 1 .. Len(q) |-> q[i]]
  BY <1>4, <1>7, <1>8, <1>9
<1> QED BY <1>1, <1>10

(* What holds of the blocks of a chain. *)
LEMMA LinksFacts ==
    ASSUME NEW nx, NEW q, NEW b, Links(q, b, nx)
    PROVE  /\ q \in Seq(Block) /\ LinkedOnce(q) /\ NoBlock \notin Block
           /\ \A x : Linked(x, q) => x \in Block
           /\ b = NoBlock <=> q = <<>>
           /\ q # <<>> => /\ b = q[1] /\ Linked(b, q) /\ b = Head(q)
                          /\ PlaceAt(q, Len(q)) = q[Len(q)] /\ nx[q[Len(q)]] = NoBlock
<1>1. /\ q \in Seq(Block) /\ LinkedOnce(q) /\ b = PlaceAt(q, 1) /\ NoBlock \notin Block
      /\ \A i \in 1 .. Len(q) : nx[q[i]] = PlaceAt(q, i + 1)
  BY MsgQueueAssumption DEF Links
<1>2. \A i \in 1 .. Len(q) : q[i] \in Block
  BY <1>1
<1>3. ASSUME q # <<>>
      PROVE  /\ b = q[1] /\ Linked(b, q) /\ b = Head(q)
             /\ PlaceAt(q, Len(q)) = q[Len(q)] /\ nx[q[Len(q)]] = NoBlock
  <2>1. Len(q) \in 1 .. Len(q) /\ 1 \in 1 .. Len(q) /\ Len(q) + 1 \notin 1 .. Len(q)
    BY <1>1, <1>3
  <2>2. b = q[1] /\ PlaceAt(q, Len(q)) = q[Len(q)] /\ nx[q[Len(q)]] = NoBlock
    BY <1>1, <2>1 DEF PlaceAt
  <2> QED BY <1>1, <1>3, <2>1, <2>2 DEF Linked
<1>4. q = <<>> => b = NoBlock
  BY <1>1 DEF PlaceAt
<1> QED BY <1>1, <1>2, <1>3, <1>4 DEF Linked

(* Other blocks may be linked anew. *)
LEMMA LinksOther ==
    ASSUME NEW nx, NEW q, NEW b, Links(q, b, nx),
           NEW nx1, \A x : Linked(x, q) => nx1[x] = nx[x]
    PROVE  Links(q, b, nx1)
BY DEF Links, Linked

(* The first block leaves the chain. *)
LEMMA LinksPop ==
    ASSUME NEW nx, NEW q, NEW b, Links(q, b, nx), q # <<>>
    PROVE  Links(Tail(q), nx[b], nx)
<1> DEFINE r == Tail(q)
<1>1. /\ q \in Seq(Block) /\ LinkedOnce(q) /\ b = q[1]
      /\ \A i \in 1 .. Len(q) : nx[q[i]] = PlaceAt(q, i + 1)
  BY LinksFacts DEF Links
<1>2. r \in Seq(Block) /\ LinkedOnce(r)
  BY <1>1, HeadFacts
<1>3. Len(q) \in Nat \ {0} /\ Len(r) = Len(q) - 1 /\ \A i \in 1 .. Len(r) : r[i] = q[i + 1]
  BY <1>1, HeadTailProperties
<1> HIDE DEF r
<1>4. ASSUME NEW i \in Nat \ {0} PROVE PlaceAt(r, i) = PlaceAt(q, i + 1)
  BY <1>3 DEF PlaceAt
<1>5. nx[b] = PlaceAt(r, 1)
  <2>1. 1 \in 1 .. Len(q)
    BY <1>3
  <2> QED BY <1>1, <1>4, <2>1
<1>6. \A i \in 1 .. Len(r) : nx[r[i]] = PlaceAt(r, i + 1)
  <2> TAKE i \in 1 .. Len(r)
  <2>1. i + 1 \in 1 .. Len(q) /\ r[i] = q[i + 1] /\ i + 1 \in Nat \ {0}
    BY <1>3
  <2> QED BY <1>1, <1>4, <2>1
<1> QED BY <1>2, <1>5, <1>6 DEF Links, r

(* A block is put before the others. *)
LEMMA LinksPush ==
    ASSUME NEW nx, NEW q, NEW b, Links(q, b, nx), NEW c \in Block, ~ Linked(c, q),
           NEW nx1, nx1[c] = b, \A x : Linked(x, q) => nx1[x] = nx[x]
    PROVE  Links(<<c>> \o q, c, nx1)
<1> DEFINE r == <<c>> \o q
<1>1. /\ q \in Seq(Block) /\ LinkedOnce(q) /\ b = PlaceAt(q, 1)
      /\ \A i \in 1 .. Len(q) : nx1[q[i]] = PlaceAt(q, i + 1)
  BY LinksOther DEF Links
<1>2. r \in Seq(Block) /\ LinkedOnce(r)
  BY <1>1, PushFacts
<1>3. /\ Len(q) \in Nat /\ Len(r) = Len(q) + 1
      /\ r[1] = c /\ \A i \in 1 .. Len(q) : r[i + 1] = q[i]
  BY <1>1
<1> HIDE DEF r
<1>4. ASSUME NEW i \in Nat \ {0} PROVE PlaceAt(r, i + 1) = PlaceAt(q, i)
  BY <1>3 DEF PlaceAt
<1>5. c = PlaceAt(r, 1)
  BY <1>3 DEF PlaceAt
<1>6. \A i \in 1 .. Len(r) : nx1[r[i]] = PlaceAt(r, i + 1)
  <2> TAKE i \in 1 .. Len(r)
  <2>1. CASE i = 1
    <3>1. PlaceAt(r, 2) = PlaceAt(q, 1)
      BY <1>4
    <3> QED BY <1>1, <1>3, <2>1, <3>1
  <2>2. CASE i # 1
    <3>1. i - 1 \in 1 .. Len(q) /\ i - 1 + 1 = i /\ i \in Nat \ {0}
      BY <1>3, <2>2
    <3>2. r[i] = q[i - 1]
      BY <1>3, <3>1
    <3> QED BY <1>1, <1>4, <3>1, <3>2
  <2> QED BY <2>1, <2>2
<1> QED BY <1>2, <1>5, <1>6 DEF Links, r

(* A block is put behind the others. *)
LEMMA LinksAppend ==
    ASSUME NEW nx, NEW q, NEW b, Links(q, b, nx), NEW c \in Block, ~ Linked(c, q),
           NEW nx1, nx1[c] = NoBlock,
           \A i \in 1 .. Len(q) : nx1[q[i]] = IF i = Len(q) THEN c ELSE nx[q[i]]
    PROVE  Links(Append(q, c), IF q = <<>> THEN c ELSE b, nx1)
<1> DEFINE r == Append(q, c)
<1>1. /\ q \in Seq(Block) /\ LinkedOnce(q) /\ b = PlaceAt(q, 1)
      /\ \A i \in 1 .. Len(q) : nx[q[i]] = PlaceAt(q, i + 1)
  BY DEF Links
<1>2. r \in Seq(Block) /\ LinkedOnce(r)
  BY <1>1, AppendFacts
<1>3. /\ Len(q) \in Nat /\ Len(r) = Len(q) + 1
      /\ r[Len(q) + 1] = c /\ \A i \in 1 .. Len(q) : r[i] = q[i]
  BY <1>1
<1> HIDE DEF r
<1>4. (IF q = <<>> THEN c ELSE b) = PlaceAt(r, 1)
  <2>1. CASE q = <<>>
    BY <1>3, <2>1 DEF PlaceAt
  <2>2. CASE q # <<>>
    <3>1. 1 \in 1 .. Len(q) /\ 1 \in 1 .. Len(r)
      BY <1>1, <1>3, <2>2
    <3> QED BY <1>1, <1>3, <2>2, <3>1 DEF PlaceAt
  <2> QED BY <2>1, <2>2
<1>5. \A i \in 1 .. Len(r) : nx1[r[i]] = PlaceAt(r, i + 1)
  <2> TAKE i \in 1 .. Len(r)
  <2>1. CASE i = Len(q) + 1
    BY <1>3, <2>1 DEF PlaceAt
  <2>2. CASE i = Len(q)
    BY <1>3, <2>2 DEF PlaceAt
  <2>3. CASE i # Len(q) + 1 /\ i # Len(q)
    <3>1. i \in 1 .. Len(q) /\ i + 1 \in 1 .. Len(q) /\ i + 1 \in 1 .. Len(r)
      BY <1>3, <2>3
    <3> QED BY <1>1, <1>3, <2>3, <3>1 DEF PlaceAt
  <2> QED BY <2>1, <2>2, <2>3
<1> QED BY <1>2, <1>4, <1>5 DEF Links, r

(* The blocks of a chain are pushed one by one on another one. *)
LEMMA LinksReverse ==
    ASSUME NEW nx, NEW q, NEW b, Links(q, b, nx), NEW f, NEW d, Links(f, d, nx),
           \A x : ~ (Linked(x, q) /\ Linked(x, f)),
           NEW nx1, \A x : Linked(x, f) => nx1[x] = nx[x],
           \A j \in 1 .. Len(q) : nx1[q[j]] = IF j = 1 THEN d ELSE q[j - 1]
    PROVE  /\ Links(Reverse(q) \o f, IF q = <<>> THEN d ELSE Last(q), nx1)
           /\ \A x : Linked(x, Reverse(q) \o f) <=> Linked(x, q) \/ Linked(x, f)
<1> DEFINE v == Reverse(q)
           r == v \o f
           n == Len(q)
<1>1. /\ q \in Seq(Block) /\ LinkedOnce(q) /\ f \in Seq(Block) /\ LinkedOnce(f)
      /\ d = PlaceAt(f, 1) /\ \A i \in 1 .. Len(f) : nx1[f[i]] = PlaceAt(f, i + 1)
      /\ n \in Nat /\ Len(f) \in Nat
  <2>1. Links(f, d, nx1)
    BY LinksOther
  <2> QED BY <2>1 DEF Links
<1>2. v \in Seq(Block) /\ Len(v) = n /\ \A i \in 1 .. n : v[i] = q[n - i + 1]
  <2>1. v = [i \in 1 .. n |-> q[n - i + 1]]
    BY DEF Reverse
  <2>2. \A i \in 1 .. n : n - i + 1 \in 1 .. n
    BY <1>1
  <2>3. \A i \in 1 .. n : q[n - i + 1] \in Block
    BY <1>1, <2>2
  <2>4. v \in [1 .. n -> Block]
    BY <2>1, <2>3
  <2> QED BY <1>1, <2>1, <2>4
<1> HIDE DEF v, n
<1>3. /\ r \in Seq(Block) /\ Len(r) = n + Len(f)
      /\ \A i \in 1 .. n + Len(f) : r[i] = IF i <= n THEN v[i] ELSE f[i - n]
  <2>1. /\ r \in Seq(Block) /\ Len(r) = Len(v) + Len(f)
        /\ \A i \in 1 .. Len(v) + Len(f) : r[i] = IF i <= Len(v) THEN v[i] ELSE f[i - Len(v)]
    BY ONLY <1>1, <1>2, ConcatProperties DEF r
  <2> QED BY <1>2, <2>1
<1> HIDE DEF r
<1>4. /\ \A i, j \in 1 .. n : i + j = n + 1 => r[i] = q[j]
      /\ \A i \in n + 1 .. n + Len(f), j \in 1 .. Len(f) : i = n + j => r[i] = f[j]
  <2>1. ASSUME NEW i \in 1 .. n, NEW j \in 1 .. n, i + j = n + 1 PROVE r[i] = q[j]
    <3>1. i \in 1 .. n + Len(f) /\ i <= n /\ n - i + 1 = j
      BY <1>1, <2>1
    <3>2. r[i] = v[i] /\ v[i] = q[n - i + 1]
      BY <1>2, <1>3, <3>1
    <3> QED BY <3>1, <3>2
  <2>2. ASSUME NEW i \in n + 1 .. n + Len(f), NEW j \in 1 .. Len(f), i = n + j
        PROVE  r[i] = f[j]
    <3>1. i \in 1 .. n + Len(f) /\ ~ (i <= n) /\ i - n = j
      BY <1>1, <2>2
    <3> QED BY <1>3, <3>1
  <2> QED BY <2>1, <2>2
<1>5. /\ \A i \in 1 .. Len(r) : i \in 1 .. n \/ i \in n + 1 .. n + Len(f)
      /\ \A i \in 1 .. n : i \in 1 .. Len(r) /\ n + 1 - i \in 1 .. n /\ i + (n + 1 - i) = n + 1
      /\ \A i \in 1 .. Len(f) : n + i \in n + 1 .. n + Len(f) /\ n + i \in 1 .. Len(r)
      /\ \A i \in n + 1 .. n + Len(f) : i - n \in 1 .. Len(f) /\ i = n + (i - n)
  BY <1>1, <1>3
<1>6. ASSUME NEW x PROVE Linked(x, r) <=> Linked(x, q) \/ Linked(x, f)
  <2>1. ASSUME Linked(x, r) PROVE Linked(x, q) \/ Linked(x, f)
    <3>1. PICK i \in 1 .. Len(r) : r[i] = x
      BY <2>1 DEF Linked
    <3>2. CASE i \in 1 .. n
      BY <1>4, <1>5, <3>1, <3>2 DEF Linked, n
    <3>3. CASE i \in n + 1 .. n + Len(f)
      BY <1>4, <1>5, <3>1, <3>3 DEF Linked
    <3> QED BY <1>5, <3>2, <3>3
  <2>2. ASSUME Linked(x, q) PROVE Linked(x, r)
    <3>1. PICK j \in 1 .. n : q[j] = x
      BY <2>2 DEF Linked, n
    <3>2. n + 1 - j \in 1 .. n /\ n + 1 - j + j = n + 1 /\ n + 1 - j \in 1 .. Len(r)
      BY <1>1, <1>3
    <3>3. r[n + 1 - j] = x
      BY <1>4, <3>1, <3>2
    <3> QED BY <3>2, <3>3 DEF Linked
  <2>3. ASSUME Linked(x, f) PROVE Linked(x, r)
    <3>1. PICK j \in 1 .. Len(f) : f[j] = x
      BY <2>3 DEF Linked
    <3> QED BY <1>4, <1>5, <3>1 DEF Linked
  <2> QED BY <2>1, <2>2, <2>3
<1>7. LinkedOnce(r)
  <2> SUFFICES ASSUME NEW i \in 1 .. Len(r), NEW j \in 1 .. Len(r), r[i] = r[j]
               PROVE  i = j
    BY DEF LinkedOnce
  <2>1. CASE i \in 1 .. n /\ j \in 1 .. n
    <3> DEFINE i1 == n + 1 - i
               j1 == n + 1 - j
    <3>1. i1 \in 1 .. n /\ j1 \in 1 .. n /\ i + i1 = n + 1 /\ j + j1 = n + 1
      BY <1>1, <2>1
    <3> HIDE DEF i1, j1
    <3>2. q[i1] = q[j1]
      BY <1>4, <2>1, <3>1
    <3>3. i1 = j1
      BY <1>1, <3>1, <3>2 DEF LinkedOnce, n
    <3> QED BY <1>1, <2>1, <3>1, <3>3
  <2>2. CASE i \in n + 1 .. n + Len(f) /\ j \in n + 1 .. n + Len(f)
    <3>1. PICK i1 \in 1 .. Len(f), j1 \in 1 .. Len(f) : i = n + i1 /\ j = n + j1
      BY <1>5, <2>2
    <3>2. f[i1] = f[j1]
      BY <1>4, <2>2, <3>1
    <3>3. i1 = j1
      BY <1>1, <3>2 DEF LinkedOnce
    <3> QED BY <3>1, <3>3
  <2>3. ASSUME NEW k \in 1 .. n, NEW l \in n + 1 .. n + Len(f) PROVE r[k] # r[l]
    <3>1. Linked(r[k], q)
      BY <1>4, <1>5 DEF Linked, n
    <3>2. Linked(r[l], f)
      BY <1>4, <1>5 DEF Linked
    <3> QED BY <3>1, <3>2
  <2> QED BY <1>5, <2>1, <2>2, <2>3
<1>8. (IF q = <<>> THEN d ELSE Last(q)) = PlaceAt(r, 1)
  <2>1. CASE q = <<>>
    <3>1. n = 0
      BY <2>1 DEF n
    <3>2. CASE Len(f) = 0
      BY <1>1, <1>3, <2>1, <3>1, <3>2 DEF PlaceAt
    <3>3. CASE Len(f) # 0
      <4>1. 1 \in n + 1 .. n + Len(f) /\ 1 \in 1 .. Len(r) /\ 1 \in 1 .. Len(f) /\ 1 = n + 1
        BY <1>1, <1>3, <3>1, <3>3
      <4>2. r[1] = f[1]
        BY <1>4, <4>1
      <4> QED BY <1>1, <2>1, <4>1, <4>2 DEF PlaceAt
    <3> QED BY <3>2, <3>3
  <2>2. CASE q # <<>>
    <3>1. n # 0
      BY <1>1, <2>2 DEF n
    <3>2. 1 \in 1 .. n /\ n \in 1 .. n /\ 1 \in 1 .. Len(r) /\ 1 + n = n + 1
      BY <1>1, <1>3, <3>1
    <3>3. r[1] = q[n]
      BY <1>4, <3>2
    <3> QED BY <2>2, <3>2, <3>3 DEF PlaceAt, Last, n
  <2> QED BY <2>1, <2>2
<1>9. ASSUME NEW i \in 1 .. Len(r) PROVE nx1[r[i]] = PlaceAt(r, i + 1)
  <2>1. CASE i \in n + 1 .. n + Len(f)
    <3>1. PICK j \in 1 .. Len(f) : i = n + j
      BY <1>5, <2>1
    <3>2. nx1[r[i]] = PlaceAt(f, j + 1)
      BY <1>1, <1>4, <2>1, <3>1
    <3>3. CASE j = Len(f)
      <4>1. j + 1 \notin 1 .. Len(f) /\ i + 1 \notin 1 .. Len(r)
        BY <1>1, <1>3, <3>1, <3>3
      <4> QED BY <3>2, <4>1 DEF PlaceAt
    <3>4. CASE j # Len(f)
      <4>1. j + 1 \in 1 .. Len(f) /\ i + 1 = n + (j + 1) /\ i + 1 \in n + 1 .. n + Len(f)
        BY <1>1, <3>1, <3>4
      <4>2. r[i + 1] = f[j + 1] /\ i + 1 \in 1 .. Len(r)
        BY <1>4, <1>5, <4>1
      <4> QED BY <3>2, <4>1, <4>2 DEF PlaceAt
    <3> QED BY <3>3, <3>4
  <2>2. CASE i \in 1 .. n
    <3>1. PICK j \in 1 .. n : i + j = n + 1
      BY <1>1, <2>2
    <3>2. nx1[r[i]] = IF j = 1 THEN d ELSE q[j - 1]
      <4>1. r[i] = q[j]
        BY <1>4, <2>2, <3>1
      <4> QED BY <4>1 DEF n
    <3>3. CASE j # 1
      <4>1. j - 1 \in 1 .. n /\ i + 1 \in 1 .. n /\ i + 1 + (j - 1) = n + 1
        BY <1>1, <2>2, <3>1, <3>3
      <4>2. r[i + 1] = q[j - 1] /\ i + 1 \in 1 .. Len(r)
        BY <1>4, <1>5, <4>1
      <4> QED BY <3>2, <3>3, <4>2 DEF PlaceAt
    <3>4. CASE j = 1 /\ Len(f) = 0
      <4>1. i + 1 \notin 1 .. Len(r) /\ 1 \notin 1 .. Len(f)
        BY <1>1, <1>3, <2>2, <3>1, <3>4
      <4> QED BY <1>1, <3>2, <3>4, <4>1 DEF PlaceAt
    <3>5. CASE j = 1 /\ Len(f) # 0
      <4>1. 1 \in 1 .. Len(f) /\ i + 1 = n + 1 /\ i + 1 \in n + 1 .. n + Len(f)
        BY <1>1, <2>2, <3>1, <3>5
      <4>2. r[i + 1] = f[1] /\ i + 1 \in 1 .. Len(r)
        BY <1>3, <1>4, <1>5, <4>1
      <4> QED BY <1>1, <3>2, <3>5, <4>1, <4>2 DEF PlaceAt
    <3> QED BY <3>3, <3>4, <3>5
  <2> QED BY <1>5, <2>1, <2>2
<1>10. Links(r, IF q = <<>> THEN d ELSE Last(q), nx1)
  BY <1>3, <1>7, <1>8, <1>9 DEF Links
<1> QED BY <1>6, <1>10 DEF r, v

-----------------------------------------------------------------------------
(* Where the blocks are *)

(* A block is in the queue q, or in the free list f, or in the hands of    *)
(* one thread, and nowhere else.                                           *)
Placed(q, f, h) ==
    \A b \in Block :
        /\ Linked(b, q) => ~ Linked(b, f) /\ \A t \in Thread : h[t] # b
        /\ Linked(b, f) => \A t \in Thread : h[t] # b
        /\ Linked(b, q) \/ Linked(b, f) \/ \E t \in Thread : h[t] = b
        /\ \A t, u \in Thread : h[t] = b /\ h[u] = b => t = u

Holding == [Thread -> Block \cup {NoBlock}]

(* The queue and the free list play the same part. *)
LEMMA PlacedSwap ==
    ASSUME NEW q, NEW f, NEW h, Placed(q, f, h)
    PROVE  Placed(f, q, h)
BY DEF Placed

(* A block is taken out of a list. *)
LEMMA PlacedTake ==
    ASSUME NEW q, NEW f, NEW h \in Holding, Placed(q, f, h), NEW t \in Thread,
           h[t] = NoBlock, NEW b \in Block, Linked(b, q),
           NEW q1, \A x : Linked(x, q1) <=> Linked(x, q) /\ x # b
    PROVE  /\ [h EXCEPT ![t] = b] \in Holding
           /\ Placed(q1, f, [h EXCEPT ![t] = b])
<1> DEFINE h1 == [h EXCEPT ![t] = b]
<1>1. /\ h1 \in Holding /\ h1[t] = b /\ \A x \in Thread \ {t} : h1[x] = h[x]
      /\ NoBlock \notin Block
  BY MsgQueueAssumption DEF Holding
<1> HIDE DEF h1
<1>2. Placed(q1, f, h1)
  BY <1>1 DEF Placed
<1> QED BY <1>1, <1>2 DEF h1

(* A block is put into a list. *)
LEMMA PlacedPut ==
    ASSUME NEW q, NEW f, NEW h \in Holding, Placed(q, f, h), NEW t \in Thread,
           h[t] \in Block,
           NEW q1, \A x : Linked(x, q1) <=> x = h[t] \/ Linked(x, q)
    PROVE  /\ [h EXCEPT ![t] = NoBlock] \in Holding
           /\ Placed(q1, f, [h EXCEPT ![t] = NoBlock])
           /\ ~ Linked(h[t], q) /\ ~ Linked(h[t], f)
<1> DEFINE h1 == [h EXCEPT ![t] = NoBlock]
<1>1. /\ h1 \in Holding /\ h1[t] = NoBlock /\ \A x \in Thread \ {t} : h1[x] = h[x]
      /\ NoBlock \notin Block
  BY MsgQueueAssumption DEF Holding
<1> HIDE DEF h1
<1>2. Placed(q1, f, h1)
  BY <1>1 DEF Placed
<1> QED BY <1>1, <1>2 DEF h1, Placed

-----------------------------------------------------------------------------
(* The invariant *)

(* The calls that have a block in their hands. *)
Copying == {"fill", "link", "ufill", "ulink", "drain", "free"}

(* The links and the counters agree on what is queued and what is free. *)
Stock(q, f) ==
    /\ Links(q, head, next) /\ Links(f, free, next)
    /\ Placed(q, f, hand)
    /\ Len(q) = entry /\ tail = PlaceAt(q, Len(q))

(* A thread has a block in its hands exactly while it copies; a block that *)
(* is about to be linked is the last one of its chain and holds a message. *)
Hands ==
    \A t \in Thread :
        /\ hand[t] # NoBlock <=> pc[t] \in Copying
        /\ pc[t] = "link" => next[hand[t]] = NoBlock
        /\ pc[t] \in {"send", "fill", "ufill"} => msg[t] \in Msg
        /\ pc[t] \in {"link", "ulink"} => data[hand[t]] \in Msg

MqInv ==
    /\ TypeOK /\ Hands
    /\ Side(MqFlag, ThreadPrio, recvq, pc, err, "recv", entry)
    /\ \E q, f : /\ Stock(q, f)
                 /\ Side(MqFlag, ThreadPrio, sendq, pc, err, "send", Len(f))

Places == {"user", "send", "fill", "link", "ufill", "ulink", "recv", "drain", "free",
           "lookr", "waker", "looks", "wakes", "wild"}
Errors == {"ok", "timeout", "error"}
Content == Msg \cup {NoMsg}

(* What every step starts from. *)
LEMMA Facts ==
    ASSUME MqInv
    PROVE  /\ next \in [Block -> Block \cup {NoBlock}] /\ data \in [Block -> Content]
           /\ pc \in [Thread -> Places] /\ limited \subseteq Thread
           /\ err \in [Thread -> Errors] /\ hand \in Holding
           /\ msg \in [Thread -> Content] /\ got \in [Thread -> Content]
           /\ alive \in BOOLEAN
           /\ entry \in Nat /\ entry \in Int
           /\ Side(MqFlag, ThreadPrio, recvq, pc, err, "recv", entry)
           /\ recvq \in Seq(Thread) /\ sendq \in Seq(Thread)
           /\ \A t \in Thread : Linked(t, recvq) => pc[t] = "recv" /\ err[t] = "ok"
<1>1. IsFiniteSet(Block) /\ Cardinality(Block) \in Nat
  BY MsgQueueAssumption, FS_CardinalityType
<1>2. entry \in Nat
  BY <1>1 DEF MqInv, TypeOK
<1> QED BY <1>2 DEF MqInv, TypeOK, Places, Errors, Content, Holding, Side, Listed

(* What the blocks are made of. *)
LEMMA StockFacts ==
    ASSUME MqInv, NEW q, NEW f, Stock(q, f)
    PROVE  /\ q \in Seq(Block) /\ LinkedOnce(q) /\ Len(q) \in Nat /\ entry = Len(q)
           /\ f \in Seq(Block) /\ LinkedOnce(f) /\ Len(f) \in Nat /\ Len(f) \in Int
           /\ Chain(head) = q /\ Chain(free) = f
           /\ NoBlock \notin Block
           /\ head = NoBlock <=> q = <<>>
           /\ free = NoBlock <=> f = <<>>
           /\ tail = NoBlock <=> q = <<>>
           /\ entry = 0 <=> q = <<>>
           /\ \A x : Linked(x, q) \/ Linked(x, f) => x \in Block
<1>1. next \in [Block -> Block \cup {NoBlock}]
  BY Facts
<1>2. Links(q, head, next) /\ Links(f, free, next) /\ tail = PlaceAt(q, Len(q)) /\ entry = Len(q)
  BY DEF Stock
<1>3. /\ q \in Seq(Block) /\ LinkedOnce(q) /\ NoBlock \notin Block
      /\ head = NoBlock <=> q = <<>>
      /\ \A x : Linked(x, q) => x \in Block
  BY <1>2, LinksFacts
<1>4. /\ f \in Seq(Block) /\ LinkedOnce(f)
      /\ free = NoBlock <=> f = <<>>
      /\ \A x : Linked(x, f) => x \in Block
  BY <1>2, LinksFacts
<1>5. Chain(head) = ChainOf(next, head) /\ Chain(free) = ChainOf(next, free)
  BY DEF Chain, ChainOf
<1>6. Chain(head) = q /\ Chain(free) = f
  BY <1>1, <1>2, <1>5, ChainIs
<1>7. Len(q) \in Nat /\ Len(f) \in Nat /\ (q = <<>> <=> Len(q) = 0)
  BY <1>3, <1>4
<1>8. tail = NoBlock <=> q = <<>>
  <2>1. CASE q = <<>>
    BY <1>2, <1>7, <2>1 DEF PlaceAt
  <2>2. CASE q # <<>>
    <3>1. Len(q) \in 1 .. Len(q)
      BY <1>7, <2>2
    <3>2. q[Len(q)] \in Block
      BY <1>3, <3>1
    <3> QED BY <1>2, <1>3, <2>2, <3>1, <3>2 DEF PlaceAt
  <2> QED BY <2>1, <2>2
<1> QED BY <1>2, <1>3, <1>4, <1>6, <1>7, <1>8

(* The invariant, put together again. *)
LEMMA Together ==
    ASSUME next' \in [Block -> Block \cup {NoBlock}], data' \in [Block -> Content],
           pc' \in [Thread -> Places], limited' \subseteq Thread,
           err' \in [Thread -> Errors], hand' \in Holding,
           msg' \in [Thread -> Content], got' \in [Thread -> Content],
           alive' \in BOOLEAN,
           Hands', NEW q, NEW f, Stock(q, f)',
           Side(MqFlag, ThreadPrio, recvq', pc', err', "recv", entry'),
           Side(MqFlag, ThreadPrio, sendq', pc', err', "send", Len(f))
    PROVE  MqInv'
<1>1. recvq' \in Seq(Thread) /\ sendq' \in Seq(Thread)
  BY DEF Side, Listed
<1>2. /\ Links(q, head', next') /\ Links(f, free', next')
      /\ Len(q) = entry' /\ tail' = PlaceAt(q, Len(q))
  BY DEF Stock, Links, PlaceAt
<1>3. q \in Seq(Block) /\ f \in Seq(Block) /\ LinkedOnce(q)
  BY <1>2 DEF Links
<1>4. entry' \in 0 .. Cardinality(Block)
  BY <1>2, <1>3, ShortEnough
<1>5. {head', tail', free'} \subseteq Block \cup {NoBlock}
  BY <1>2, <1>3 DEF Links, PlaceAt
<1>6. TypeOK'
  BY <1>1, <1>4, <1>5 DEF TypeOK, Content, Places, Errors, Holding
<1> QED BY <1>6 DEF MqInv

-----------------------------------------------------------------------------
(* The queue of the refinement *)

(* The messages of a chain of blocks. *)
Contents(q, d) == [i \in 1 .. Len(q) |-> d[q[i]]]

(* They follow the chain. *)
LEMMA ContentsFacts ==
    ASSUME NEW q \in Seq(Block), NEW d \in [Block -> Content]
    PROVE  /\ Contents(q, d) \in Seq(Content) /\ Len(Contents(q, d)) = Len(q)
           /\ \A c \in Block : /\ Contents(Append(q, c), d) = Append(Contents(q, d), d[c])
                               /\ Contents(<<c>> \o q, d) = <<d[c]>> \o Contents(q, d)
           /\ q # <<>> => /\ Contents(q, d) # <<>>
                          /\ Head(Contents(q, d)) = d[Head(q)]
                          /\ Contents(Tail(q), d) = Tail(Contents(q, d))
<1>1. ASSUME NEW r \in Seq(Block)
      PROVE  /\ Contents(r, d) \in Seq(Content) /\ Len(Contents(r, d)) = Len(r)
             /\ \A i \in 1 .. Len(r) : Contents(r, d)[i] = d[r[i]]
  <2>1. \A i \in 1 .. Len(r) : d[r[i]] \in Content
    OBVIOUS
  <2>2. Contents(r, d) \in [1 .. Len(r) -> Content]
    BY <2>1 DEF Contents
  <2> QED BY <2>2 DEF Contents
<1> DEFINE m == Contents(q, d)
<1>2. /\ m \in Seq(Content) /\ Len(m) = Len(q) /\ Len(q) \in Nat
      /\ \A i \in 1 .. Len(q) : m[i] = d[q[i]]
  BY <1>1
<1>3. ASSUME NEW c \in Block PROVE Contents(Append(q, c), d) = Append(m, d[c])
  <2> DEFINE r == Append(q, c)
             x == Contents(r, d)
             y == Append(m, d[c])
  <2>1. /\ r \in Seq(Block) /\ Len(r) = Len(q) + 1
        /\ r[Len(q) + 1] = c /\ \A i \in 1 .. Len(q) : r[i] = q[i]
    OBVIOUS
  <2>2. /\ x \in Seq(Content) /\ Len(x) = Len(r) /\ \A i \in 1 .. Len(r) : x[i] = d[r[i]]
    BY <1>1, <2>1
  <2> HIDE DEF r, x, m
  <2>3. /\ y \in Seq(Content) /\ Len(y) = Len(q) + 1
        /\ y[Len(q) + 1] = d[c] /\ \A i \in 1 .. Len(q) : y[i] = m[i]
    BY <1>2
  <2> HIDE DEF y
  <2>4. \A i \in 1 .. Len(x) : x[i] = y[i]
    <3> TAKE i \in 1 .. Len(x)
    <3>1. i = Len(q) + 1 \/ i \in 1 .. Len(q)
      BY <1>2, <2>1, <2>2
    <3> QED BY <1>2, <2>1, <2>2, <2>3, <3>1
  <2>5. x = y
    BY <2>1, <2>2, <2>3, <2>4, SeqEqual
  <2> QED BY <2>5 DEF x, y, r
<1>4. ASSUME NEW c \in Block PROVE Contents(<<c>> \o q, d) = <<d[c]>> \o m
  <2> DEFINE r == <<c>> \o q
             x == Contents(r, d)
             y == <<d[c]>> \o m
  <2>1. /\ r \in Seq(Block) /\ Len(r) = Len(q) + 1
        /\ r[1] = c /\ \A i \in 1 .. Len(q) : r[i + 1] = q[i]
    OBVIOUS
  <2>2. /\ x \in Seq(Content) /\ Len(x) = Len(r) /\ \A i \in 1 .. Len(r) : x[i] = d[r[i]]
    BY <1>1, <2>1
  <2> HIDE DEF r, x, m
  <2>3. /\ y \in Seq(Content) /\ Len(y) = Len(q) + 1
        /\ y[1] = d[c] /\ \A i \in 1 .. Len(q) : y[i + 1] = m[i]
    BY <1>2
  <2> HIDE DEF y
  <2>4. \A i \in 1 .. Len(x) : x[i] = y[i]
    <3> TAKE i \in 1 .. Len(x)
    <3>1. i = 1 \/ (i - 1 \in 1 .. Len(q) /\ i - 1 + 1 = i)
      BY <1>2, <2>1, <2>2
    <3>2. i \in 1 .. Len(r)
      BY <2>2
    <3>3. CASE i = 1
      BY <2>1, <2>2, <2>3, <3>2, <3>3
    <3>4. CASE i - 1 \in 1 .. Len(q) /\ i - 1 + 1 = i
      <4>1. r[i] = q[i - 1] /\ y[i] = m[i - 1]
        BY <2>1, <2>3, <3>4
      <4> QED BY <1>2, <2>2, <3>2, <3>4, <4>1
    <3> QED BY <3>1, <3>3, <3>4
  <2>5. x = y
    BY <2>1, <2>2, <2>3, <2>4, SeqEqual
  <2> QED BY <2>5 DEF x, y, r
<1>5. ASSUME q # <<>>
      PROVE  m # <<>> /\ Head(m) = d[Head(q)] /\ Contents(Tail(q), d) = Tail(m)
  <2> DEFINE r == Tail(q)
             x == Contents(r, d)
             y == Tail(m)
  <2>1. /\ r \in Seq(Block) /\ Len(r) = Len(q) - 1 /\ 1 \in 1 .. Len(q)
        /\ Head(q) = q[1] /\ \A i \in 1 .. Len(r) : r[i] = q[i + 1]
    BY <1>5, HeadTailProperties
  <2>2. /\ x \in Seq(Content) /\ Len(x) = Len(r) /\ \A i \in 1 .. Len(r) : x[i] = d[r[i]]
    BY <1>1, <2>1
  <2> HIDE DEF r, x, m
  <2>3. m # <<>> /\ Head(m) = d[Head(q)]
    BY <1>2, <2>1
  <2>4. /\ y \in Seq(Content) /\ Len(y) = Len(m) - 1 /\ \A i \in 1 .. Len(y) : y[i] = m[i + 1]
    BY <1>2, <2>3, HeadTailProperties
  <2> HIDE DEF y
  <2>5. \A i \in 1 .. Len(x) : x[i] = y[i]
    <3> TAKE i \in 1 .. Len(x)
    <3>1. i \in 1 .. Len(r) /\ i \in 1 .. Len(y) /\ i + 1 \in 1 .. Len(q)
      BY <1>2, <2>1, <2>2, <2>4
    <3> QED BY <1>2, <2>1, <2>2, <2>4, <3>1
  <2>6. x = y
    BY <1>2, <2>1, <2>2, <2>4, <2>5, SeqEqual
  <2> QED BY <2>3, <2>6 DEF x, y, r
<1> QED BY <1>2, <1>3, <1>4, <1>5 DEF m

queue == LET q == Chain(head) IN [i \in 1 .. Len(q) |-> data[q[i]]]
gotten == [t \in Thread |-> IF pc[t] = "drain" THEN data[hand[t]] ELSE got[t]]

QueueStep == [Queue!Next]_<<queue, gotten>>

(* The queue of the refinement is the contents of the chain. *)
LEMMA QueueIs ==
    ASSUME MqInv, NEW q, NEW f, Stock(q, f)
    PROVE  queue = Contents(q, data)
BY StockFacts DEF queue, Contents

(* So it is after a step. *)
LEMMA QueueIsAfter ==
    ASSUME next' \in [Block -> Block \cup {NoBlock}], NEW q, NEW f, Stock(q, f)'
    PROVE  queue' = Contents(q, data')
<1>1. Links(q, head', next')
  BY DEF Stock, Links, PlaceAt
<1>2. ChainOf(next', head') = q
  BY <1>1, ChainIs
<1>3. (Chain(head))' = ChainOf(next', head')
  BY DEF Chain, ChainOf
<1> QED BY <1>2, <1>3 DEF queue, Contents

(* Its length is the number of entries, which is less than the capacity    *)
(* while a block is somewhere else.                                        *)
LEMMA RoomLeft ==
    ASSUME MqInv, NEW q, NEW f, Stock(q, f), NEW b \in Block, ~ Linked(b, q)
    PROVE  Len(q) < Cardinality(Block)
<1>1. q \in Seq(Block) /\ LinkedOnce(q)
  BY StockFacts
<1>2. Append(q, b) \in Seq(Block) /\ LinkedOnce(Append(q, b)) /\ Len(Append(q, b)) = Len(q) + 1
  BY <1>1, AppendFacts
<1>3. /\ Len(q) + 1 <= Cardinality(Block) /\ Cardinality(Block) \in Nat /\ Len(q) \in Nat
  BY <1>1, <1>2, ShortEnough
<1> QED BY <1>3

-----------------------------------------------------------------------------
(* Steps that leave the blocks where they are *)

(* The blocks and the messages stay as they are, and nobody begins or ends *)
(* to copy.                                                                *)
LEMMA Still ==
    ASSUME MqInv, NEW q, NEW f, Stock(q, f), UNCHANGED <<lists, hand, got>>,
           \A t \in Thread : pc'[t] = pc[t] \/ (pc[t] \notin Copying /\ pc'[t] \notin Copying),
           \A t \in Thread : pc'[t] \in {"send", "fill", "ufill"} => msg'[t] \in Msg
    PROVE  /\ next' \in [Block -> Block \cup {NoBlock}] /\ data' \in [Block -> Content]
           /\ hand' \in Holding /\ got' \in [Thread -> Content]
           /\ entry' = entry /\ entry \in Int /\ Len(f) \in Int
           /\ Hands' /\ Stock(q, f)'
           /\ QueueStep
<1>1. UNCHANGED <<next, data, head, tail, free, entry, hand, got>>
  BY DEF lists
<1>2. Stock(q, f)'
  BY <1>1 DEF Stock
<1>3. Hands'
  BY <1>1 DEF MqInv, Hands, Copying
<1>4. queue' = queue
  BY <1>1, <1>2, Facts, QueueIs, QueueIsAfter
<1>5. gotten' = gotten
  BY <1>1 DEF gotten, Copying
<1> QED BY <1>1, <1>2, <1>3, <1>4, <1>5, Facts, StockFacts DEF QueueStep

(* A sender waits, or waits again. *)
LEMMA SendWaitStep ==
    ASSUME MqInv, NEW t \in Thread, ~ Linked(t, sendq), free = NoBlock,
           sendq' = Join(sendq, t), UNCHANGED <<lists, recvq, hand, got, alive>>,
           limited' \subseteq Thread,
           pc[t] \in {"user", "send"}, pc' = [pc EXCEPT ![t] = "send"],
           err' = [err EXCEPT ![t] = "ok"],
           NEW m \in Msg, msg' = [msg EXCEPT ![t] = m]
    PROVE  MqInv' /\ QueueStep
<1>1. PICK q, f : Stock(q, f) /\ Side(MqFlag, ThreadPrio, sendq, pc, err, "send", Len(f))
  BY DEF MqInv
<1>2. Hands
  BY DEF MqInv
<1>3. /\ pc' \in [Thread -> Places] /\ err' \in [Thread -> Errors]
      /\ msg' \in [Thread -> Content]
      /\ pc'[t] = "send" /\ err'[t] = "ok" /\ msg'[t] = m
      /\ \A x \in Thread \ {t} : pc'[x] = pc[x] /\ err'[x] = err[x] /\ msg'[x] = msg[x]
  BY Facts DEF Places, Errors, Content
<1>4. /\ \A x \in Thread : pc'[x] = pc[x] \/ (pc[x] \notin Copying /\ pc'[x] \notin Copying)
      /\ \A x \in Thread : pc'[x] \in {"send", "fill", "ufill"} => msg'[x] \in Msg
  BY <1>2, <1>3 DEF Copying, Hands
<1>5. /\ SameIn(Thread, pc, err, pc', err', "recv")
      /\ SameIn(Thread \ {t}, pc, err, pc', err', "send")
  BY <1>3 DEF SameIn
<1>6. Side(MqFlag, ThreadPrio, recvq', pc', err', "recv", entry')
  BY <1>1, <1>4, <1>5, Still, Facts, SideSame
<1>7. Side(MqFlag, ThreadPrio, sendq', pc', err', "send", Len(f))
  <2>1. Len(f) <= 0 /\ Len(f) \in Int
    BY <1>1, StockFacts
  <2> QED BY <1>1, <1>3, <1>5, <2>1, SideJoin, MsgQueueAssumption DEF Join
<1> QED BY <1>1, <1>3, <1>4, <1>6, <1>7, Still, Facts, Together

(* A receiver waits, or waits again. *)
LEMMA ReceiveWaitStep ==
    ASSUME MqInv, NEW t \in Thread, ~ Linked(t, recvq), entry = 0,
           recvq' = Join(recvq, t), UNCHANGED <<lists, sendq, hand, msg, got, alive>>,
           limited' \subseteq Thread,
           pc[t] \in {"user", "recv"}, pc' = [pc EXCEPT ![t] = "recv"],
           err' = [err EXCEPT ![t] = "ok"]
    PROVE  MqInv' /\ QueueStep
<1>1. PICK q, f : Stock(q, f) /\ Side(MqFlag, ThreadPrio, sendq, pc, err, "send", Len(f))
  BY DEF MqInv
<1>2. Hands
  BY DEF MqInv
<1>3. /\ pc' \in [Thread -> Places] /\ err' \in [Thread -> Errors]
      /\ pc'[t] = "recv" /\ err'[t] = "ok"
      /\ \A x \in Thread \ {t} : pc'[x] = pc[x] /\ err'[x] = err[x]
  BY Facts DEF Places, Errors
<1>4. /\ \A x \in Thread : pc'[x] = pc[x] \/ (pc[x] \notin Copying /\ pc'[x] \notin Copying)
      /\ \A x \in Thread : pc'[x] \in {"send", "fill", "ufill"} => msg'[x] \in Msg
  BY <1>2, <1>3 DEF Copying, Hands
<1>5. /\ SameIn(Thread, pc, err, pc', err', "send")
      /\ SameIn(Thread \ {t}, pc, err, pc', err', "recv")
  BY <1>3 DEF SameIn
<1>6. Side(MqFlag, ThreadPrio, sendq', pc', err', "send", Len(f))
  BY <1>1, <1>4, <1>5, Still, SideSame
<1>7. Side(MqFlag, ThreadPrio, recvq', pc', err', "recv", entry')
  <2>1. entry' <= 0 /\ entry' \in Int
    BY <1>1, <1>4, Still, Facts
  <2> QED BY <1>3, <1>5, <2>1, Facts, SideJoin, MsgQueueAssumption DEF Join
<1> QED BY <1>1, <1>3, <1>4, <1>6, <1>7, Still, Facts, Together

(* A call ends without a message: its wait has failed, or its time was     *)
(* over when it was woken.                                                 *)
LEMMA ReturnStep ==
    ASSUME MqInv, NEW t \in Thread, Return(t), pc[t] \in {"send", "recv"},
           UNCHANGED <<lists, recvq, sendq, err, got, alive>>,
           \/ err[t] # "ok"
           \/ pc[t] = "send" /\ ~ Linked(t, sendq) /\ free = NoBlock
           \/ pc[t] = "recv" /\ ~ Linked(t, recvq) /\ entry = 0
    PROVE  MqInv' /\ QueueStep
<1>1. PICK q, f : Stock(q, f) /\ Side(MqFlag, ThreadPrio, sendq, pc, err, "send", Len(f))
  BY DEF MqInv
<1>2. Hands
  BY DEF MqInv
<1>3. /\ pc' \in [Thread -> Places] /\ msg' \in [Thread -> Content] /\ limited' \subseteq Thread
      /\ pc'[t] = "user"
      /\ \A x \in Thread \ {t} : pc'[x] = pc[x] /\ msg'[x] = msg[x]
  BY Facts DEF Return, Goto, Places, Content
<1>4. hand' = hand
  <2>1. hand[t] = NoBlock
    BY <1>2 DEF Hands, Copying
  <2>2. hand' = [hand EXCEPT ![t] = NoBlock] /\ hand \in Holding
    BY Facts DEF Return
  <2> QED BY <2>1, <2>2 DEF Holding
<1>5. /\ \A x \in Thread : pc'[x] = pc[x] \/ (pc[x] \notin Copying /\ pc'[x] \notin Copying)
      /\ \A x \in Thread : pc'[x] \in {"send", "fill", "ufill"} => msg'[x] \in Msg
  BY <1>2, <1>3 DEF Copying, Hands
<1>6. /\ SameIn(Thread \ {t}, pc, err, pc', err', "send")
      /\ SameIn(Thread \ {t}, pc, err, pc', err', "recv")
  BY <1>3 DEF SameIn
<1>7. Side(MqFlag, ThreadPrio, recvq', pc', err', "recv", entry')
  <2>1. CASE pc[t] = "recv" /\ err[t] = "ok"
    <3>1. ~ Linked(t, recvq) /\ pc'[t] # "recv" /\ entry' <= 0 /\ entry' \in Int
      BY <1>1, <1>3, <1>4, <1>5, <2>1, Still, Facts
    <3> QED BY <1>6, <3>1, Facts, SideLeave
  <2>2. CASE ~ (pc[t] = "recv" /\ err[t] = "ok")
    <3>1. SameIn(Thread, pc, err, pc', err', "recv")
      BY <1>3, <2>2 DEF SameIn
    <3> QED BY <1>1, <1>4, <1>5, <3>1, Still, Facts, SideSame
  <2> QED BY <2>1, <2>2
<1>8. Side(MqFlag, ThreadPrio, sendq', pc', err', "send", Len(f))
  <2>1. CASE pc[t] = "send" /\ err[t] = "ok"
    <3>1. ~ Linked(t, sendq) /\ pc'[t] # "send" /\ Len(f) <= 0 /\ Len(f) \in Int
      BY <1>1, <1>3, <2>1, StockFacts
    <3> QED BY <1>1, <1>6, <3>1, SideLeave
  <2>2. CASE ~ (pc[t] = "send" /\ err[t] = "ok")
    <3>1. SameIn(Thread, pc, err, pc', err', "send")
      BY <1>3, <2>2 DEF SameIn
    <3> QED BY <1>1, <1>4, <1>5, <3>1, Still, SideSame
  <2> QED BY <2>1, <2>2
<1> QED BY <1>1, <1>3, <1>4, <1>5, <1>7, <1>8, Still, Facts, Together

(* Those who wait to send are in rt_mq_send_wait. *)
LEMMA SendqFacts ==
    ASSUME NEW n, Side(MqFlag, ThreadPrio, sendq, pc, err, "send", n)
    PROVE  \A t \in Thread : Linked(t, sendq) => pc[t] = "send" /\ err[t] = "ok"
BY DEF Side, Listed

(* _thread_timeout *)
LEMMA TimerFireStep ==
    ASSUME MqInv, NEW t \in Thread, TimerFire(t)
    PROVE  MqInv' /\ QueueStep
<1>1. PICK q, f : Stock(q, f) /\ Side(MqFlag, ThreadPrio, sendq, pc, err, "send", Len(f))
  BY DEF MqInv
<1>2. /\ Linked(t, recvq) \/ Linked(t, sendq)
      /\ recvq' = RemoveFirst(recvq, t) /\ sendq' = RemoveFirst(sendq, t)
      /\ err' = [err EXCEPT ![t] = "timeout"]
      /\ UNCHANGED <<lists, pc, limited, hand, msg, got, alive>>
  BY DEF TimerFire
<1>3. /\ err' \in [Thread -> Errors] /\ err'[t] # "ok"
      /\ \A x \in Thread \ {t} : err'[x] = err[x]
  BY <1>2, Facts DEF Errors
<1>4. /\ ~ Linked(t, recvq) => pc[t] # "recv"
      /\ ~ Linked(t, sendq) => pc[t] # "send"
  BY <1>1, <1>2, Facts, SendqFacts
<1>5. /\ SameIn(Thread \ {t}, pc, err, pc', err', "recv")
      /\ SameIn(Thread \ {t}, pc, err, pc', err', "send")
  BY <1>2, <1>3 DEF SameIn
<1>6. \A x \in Thread : pc'[x] \in {"send", "fill", "ufill"} => msg'[x] \in Msg
  BY <1>2 DEF MqInv, Hands
<1>7. Side(MqFlag, ThreadPrio, recvq', pc', err', "recv", entry)
  BY <1>2, <1>3, <1>4, <1>5, Facts, SideDrop
<1>8. Side(MqFlag, ThreadPrio, sendq', pc', err', "send", Len(f))
  <2>1. Len(f) \in Int
    BY <1>1, StockFacts
  <2> QED BY <1>1, <1>2, <1>3, <1>4, <1>5, <2>1, SideDrop
<1> QED BY <1>1, <1>2, <1>3, <1>6, <1>7, <1>8, Still, Facts, Together

(* The steps of a detach that wake nobody. *)
LEMMA DetachStep ==
    ASSUME MqInv, NEW t \in Thread, DetachBegin(t) \/ DetachLook(t) \/ DetachWild(t)
    PROVE  MqInv' /\ QueueStep
<1>1. PICK q, f : Stock(q, f) /\ Side(MqFlag, ThreadPrio, sendq, pc, err, "send", Len(f))
  BY DEF MqInv
<1> DEFINE Elsewhere == {"user", "lookr", "waker", "looks", "wakes", "wild"}
<1>2. /\ UNCHANGED <<lists, recvq, sendq, limited, err, hand, msg, got>>
      /\ alive' \in BOOLEAN /\ pc[t] \in Elsewhere
      /\ \E s \in Elsewhere : pc' = [pc EXCEPT ![t] = s]
  BY Facts DEF DetachBegin, DetachLook, DetachWild, Calls, Goto, waits
<1>3. /\ pc' \in [Thread -> Places] /\ pc'[t] \in Elsewhere
      /\ \A x \in Thread \ {t} : pc'[x] = pc[x]
  BY <1>2, Facts DEF Places
<1>4. /\ \A x \in Thread : pc'[x] = pc[x] \/ (pc[x] \notin Copying /\ pc'[x] \notin Copying)
      /\ \A x \in Thread : pc'[x] \in {"send", "fill", "ufill"} => msg'[x] \in Msg
  BY <1>2, <1>3 DEF MqInv, Copying, Hands
<1>5. /\ SameIn(Thread, pc, err, pc', err', "recv")
      /\ SameIn(Thread, pc, err, pc', err', "send")
  BY <1>2, <1>3 DEF SameIn
<1>6. Side(MqFlag, ThreadPrio, recvq', pc', err', "recv", entry')
  BY <1>1, <1>2, <1>4, <1>5, Still, Facts, SideSame
<1>7. Side(MqFlag, ThreadPrio, sendq', pc', err', "send", Len(f))
  BY <1>1, <1>2, <1>4, <1>5, Still, SideSame
<1> QED BY <1>1, <1>2, <1>3, <1>4, <1>6, <1>7, Still, Facts, Together

(* The step that wakes the first thread of one of the lists. *)
LEMMA DetachWakeStep ==
    ASSUME MqInv, NEW t \in Thread, DetachWake(t)
    PROVE  MqInv' /\ QueueStep
<1>1. PICK q, f : Stock(q, f) /\ Side(MqFlag, ThreadPrio, sendq, pc, err, "send", Len(f))
  BY DEF MqInv
<1>2. /\ UNCHANGED <<lists, limited, hand, msg, got, alive>>
      /\ pc[t] \in {"waker", "wakes"}
      /\ \E s \in {"lookr", "looks"} : pc' = [pc EXCEPT ![t] = s]
  BY DEF DetachWake, Goto
<1>3. /\ pc' \in [Thread -> Places] /\ pc'[t] \in {"lookr", "looks"}
      /\ \A x \in Thread \ {t} : pc'[x] = pc[x]
      /\ \A x \in Thread : \A c \in {"send", "recv"} : pc'[x] = c <=> pc[x] = c
  BY <1>2, Facts DEF Places
<1>4. /\ \A x \in Thread : pc'[x] = pc[x] \/ (pc[x] \notin Copying /\ pc'[x] \notin Copying)
      /\ \A x \in Thread : pc'[x] \in {"send", "fill", "ufill"} => msg'[x] \in Msg
  BY <1>2, <1>3 DEF MqInv, Copying, Hands
<1>5. entry' = entry /\ entry \in Int /\ Len(f) \in Int
  BY <1>1, <1>2, <1>4, Still
<1>6. ASSUME NEW w \in Seq(Thread), NEW n \in Int, w # <<>>,
             NEW c \in {"send", "recv"}, Side(MqFlag, ThreadPrio, w, pc, err, c, n),
             err' = [err EXCEPT ![Head(w)] = "error"]
      PROVE  /\ Side(MqFlag, ThreadPrio, Tail(w), pc', err', c, n)
             /\ \A d \in {"send", "recv"} \ {c} : SameIn(Thread, pc, err, pc', err', d)
             /\ err' \in [Thread -> Errors]
  <2> DEFINE h == Head(w)
  <2>1. /\ h \in Thread /\ Linked(h, w) /\ Tail(w) = RemoveFirst(w, h)
    BY <1>6, HeadFacts, TailFacts DEF Side, Listed
  <2>2. pc[h] = c
    BY <1>6, <2>1 DEF Side, Listed
  <2> HIDE DEF h
  <2>3. /\ err' \in [Thread -> Errors] /\ err'[h] # "ok"
        /\ \A x \in Thread \ {h} : err'[x] = err[x]
    BY <1>6, <2>1, Facts DEF Errors, h
  <2>4. /\ SameIn(Thread \ {h}, pc, err, pc', err', c)
        /\ \A d \in {"send", "recv"} \ {c} : SameIn(Thread, pc, err, pc', err', d)
    BY <1>3, <2>2, <2>3 DEF SameIn
  <2>5. Side(MqFlag, ThreadPrio, RemoveFirst(w, h), pc', err', c, n)
    BY <1>6, <2>1, <2>3, <2>4, SideDrop
  <2> QED BY <2>1, <2>3, <2>4, <2>5
<1>7. CASE /\ recvq # <<>> /\ err' = [err EXCEPT ![Head(recvq)] = "error"]
           /\ recvq' = Tail(recvq) /\ sendq' = sendq
  <2>1. /\ Side(MqFlag, ThreadPrio, recvq', pc', err', "recv", entry)
        /\ SameIn(Thread, pc, err, pc', err', "send")
        /\ err' \in [Thread -> Errors]
    BY <1>6, <1>7, Facts
  <2>2. Side(MqFlag, ThreadPrio, sendq', pc', err', "send", Len(f))
    BY <1>1, <1>5, <1>7, <2>1, SideSame
  <2> QED BY <1>1, <1>2, <1>3, <1>4, <2>1, <2>2, Still, Facts, Together
<1>8. CASE /\ sendq # <<>> /\ err' = [err EXCEPT ![Head(sendq)] = "error"]
           /\ sendq' = Tail(sendq) /\ recvq' = recvq
  <2>1. /\ Side(MqFlag, ThreadPrio, sendq', pc', err', "send", Len(f))
        /\ SameIn(Thread, pc, err, pc', err', "recv")
        /\ err' \in [Thread -> Errors]
    BY <1>1, <1>5, <1>6, <1>8, Facts
  <2>2. Side(MqFlag, ThreadPrio, recvq', pc', err', "recv", entry')
    BY <1>5, <1>8, <2>1, Facts, SideSame
  <2> QED BY <1>1, <1>2, <1>3, <1>4, <2>1, <2>2, Still, Facts, Together
<1> QED BY <1>7, <1>8 DEF DetachWake, Cancel

-----------------------------------------------------------------------------
(* Steps that move a block *)

(* A block leaves the free list. *)
LEMMA PopFreeStep ==
    ASSUME MqInv, NEW q, NEW f, Stock(q, f), NEW t \in Thread, pc[t] \notin Copying,
           NEW p \in {"fill", "ufill"}, PopFree(t, p), got' = got,
           \A x \in Thread \ {t} : msg'[x] = msg[x], msg'[t] \in Msg
    PROVE  /\ next' \in [Block -> Block \cup {NoBlock}] /\ data' \in [Block -> Content]
           /\ pc' \in [Thread -> Places] /\ hand' \in Holding
           /\ pc'[t] = p /\ \A x \in Thread \ {t} : pc'[x] = pc[x]
           /\ Hands' /\ Stock(q, Tail(f))' /\ entry' = entry
           /\ Len(f) \in Int /\ Len(Tail(f)) \in Int /\ Len(Tail(f)) = Len(f) - 1
           /\ QueueStep
<1>1. /\ free # NoBlock /\ hand' = [hand EXCEPT ![t] = free] /\ free' = next[free]
      /\ pc' = [pc EXCEPT ![t] = p]
      /\ UNCHANGED <<next, data, head, tail, entry>>
  BY DEF PopFree, Goto
<1>2. Hands
  BY DEF MqInv
<1>3. /\ f # <<>> /\ f \in Seq(Block) /\ LinkedOnce(f) /\ NoBlock \notin Block
      /\ Links(f, free, next) /\ free = Head(f) /\ free \in Block /\ Linked(free, f)
  BY <1>1, StockFacts, LinksFacts DEF Stock
<1>4. /\ Tail(f) \in Seq(Block) /\ Len(Tail(f)) = Len(f) - 1 /\ Len(f) \in Nat
      /\ \A x : Linked(x, Tail(f)) <=> Linked(x, f) /\ x # free
  BY <1>3, HeadFacts, HeadTailProperties
<1>5. hand[t] = NoBlock /\ hand \in Holding
  BY <1>2, Facts DEF Hands
<1>6. /\ hand' \in Holding /\ Placed(q, Tail(f), hand')
      /\ hand'[t] = free /\ \A x \in Thread \ {t} : hand'[x] = hand[x]
  <2>1. Placed(f, q, hand)
    BY PlacedSwap DEF Stock
  <2>2. hand' \in Holding /\ Placed(Tail(f), q, hand')
    BY <1>1, <1>3, <1>4, <1>5, <2>1, PlacedTake
  <2> QED BY <1>1, <1>5, <2>2, PlacedSwap DEF Holding
<1>7. Stock(q, Tail(f))'
  <2>1. Links(Tail(f), free', next')
    BY <1>1, <1>3, LinksPop
  <2> QED BY <1>1, <1>6, <2>1 DEF Stock, Links, PlaceAt
<1>8. pc' \in [Thread -> Places] /\ pc'[t] = p /\ \A x \in Thread \ {t} : pc'[x] = pc[x]
  BY <1>1, Facts DEF Places
<1>9. Hands'
  BY <1>1, <1>2, <1>3, <1>6, <1>8 DEF Hands, Copying
<1>10. QueueStep
  <2>1. queue' = queue
    BY <1>1, <1>7, Facts, QueueIs, QueueIsAfter
  <2>2. gotten' = gotten
    BY <1>1, <1>6, <1>8 DEF gotten, Copying
  <2> QED BY <2>1, <2>2 DEF QueueStep
<1> QED BY <1>1, <1>4, <1>6, <1>7, <1>8, <1>9, <1>10, Facts

(* rt_mq_send_wait and rt_mq_urgent, with a free block. *)
LEMMA SendTakeStep ==
    ASSUME MqInv, NEW t \in Thread, NEW m \in Msg, SendTake(t, m)
    PROVE  MqInv' /\ QueueStep
<1>1. PICK q, f : Stock(q, f) /\ Side(MqFlag, ThreadPrio, sendq, pc, err, "send", Len(f))
  BY DEF MqInv
<1>2. PICK p \in {"fill", "ufill"} : PopFree(t, p)
  BY DEF SendTake
<1>3. /\ pc[t] = "user" /\ msg' = [msg EXCEPT ![t] = m]
      /\ UNCHANGED <<recvq, sendq, limited, err, got, alive>>
  BY DEF SendTake, Calls, waits
<1>4. /\ msg' \in [Thread -> Content] /\ msg'[t] = m
      /\ \A x \in Thread \ {t} : msg'[x] = msg[x]
  BY <1>3, Facts DEF Content
<1> DEFINE r == Tail(f)
<1>5. /\ next' \in [Block -> Block \cup {NoBlock}] /\ data' \in [Block -> Content]
      /\ pc' \in [Thread -> Places] /\ hand' \in Holding
      /\ pc'[t] = p /\ \A x \in Thread \ {t} : pc'[x] = pc[x]
      /\ Hands' /\ Stock(q, r)' /\ entry' = entry
      /\ Len(f) \in Int /\ Len(r) \in Int /\ Len(r) = Len(f) - 1
      /\ QueueStep
  <2>1. pc[t] \notin Copying
    BY <1>3 DEF Copying
  <2> QED BY <1>1, <1>2, <1>3, <1>4, <2>1, PopFreeStep
<1> HIDE DEF r
<1>6. /\ SameIn(Thread, pc, err, pc', err', "recv")
      /\ SameIn(Thread, pc, err, pc', err', "send")
  BY <1>3, <1>5 DEF SameIn
<1>7. Side(MqFlag, ThreadPrio, recvq', pc', err', "recv", entry')
  BY <1>3, <1>5, <1>6, Facts, SideSame
<1>8. Side(MqFlag, ThreadPrio, sendq', pc', err', "send", Len(r))
  <2>1. Len(r) <= Len(f)
    BY <1>5
  <2> QED BY <1>1, <1>3, <1>5, <1>6, <2>1, SideSame
<1>9. limited' \subseteq Thread /\ err' \in [Thread -> Errors] /\ got' \in [Thread -> Content]
      /\ alive' \in BOOLEAN
  BY <1>3, Facts
<1> QED BY <1>4, <1>5, <1>7, <1>8, <1>9, Together

(* A woken sender finds a free block. *)
LEMMA SendWokenStep ==
    ASSUME MqInv, NEW t \in Thread, SendWoken(t)
    PROVE  MqInv' /\ QueueStep
<1>1. PICK q, f : Stock(q, f) /\ Side(MqFlag, ThreadPrio, sendq, pc, err, "send", Len(f))
  BY DEF MqInv
<1>2. /\ pc[t] = "send" /\ ~ Linked(t, sendq) /\ PopFree(t, "fill")
      /\ UNCHANGED <<recvq, sendq, limited, err, msg, got, alive>>
  BY DEF SendWoken, Woken, waits
<1>3. msg[t] \in Msg
  BY <1>2 DEF MqInv, Hands
<1> DEFINE r == Tail(f)
<1>4. /\ next' \in [Block -> Block \cup {NoBlock}] /\ data' \in [Block -> Content]
      /\ pc' \in [Thread -> Places] /\ hand' \in Holding
      /\ pc'[t] = "fill" /\ \A x \in Thread \ {t} : pc'[x] = pc[x]
      /\ Hands' /\ Stock(q, r)' /\ entry' = entry
      /\ Len(f) \in Int /\ Len(r) \in Int /\ Len(r) = Len(f) - 1
      /\ QueueStep
  <2>1. pc[t] \notin Copying /\ msg'[t] \in Msg /\ "fill" \in {"fill", "ufill"}
    BY <1>2, <1>3 DEF Copying
  <2> QED BY <1>1, <1>2, <2>1, PopFreeStep
<1> HIDE DEF r
<1>5. /\ SameIn(Thread, pc, err, pc', err', "recv")
      /\ SameIn(Thread \ {t}, pc, err, pc', err', "send")
  BY <1>2, <1>4 DEF SameIn
<1>6. Side(MqFlag, ThreadPrio, recvq', pc', err', "recv", entry')
  BY <1>2, <1>4, <1>5, Facts, SideSame
<1>7. Side(MqFlag, ThreadPrio, sendq', pc', err', "send", Len(r))
  <2>1. Len(r) <= Len(f) - 1 /\ pc'[t] # "send"
    BY <1>4
  <2> QED BY <1>1, <1>2, <1>4, <1>5, <2>1, SideLeave
<1>8. /\ limited' \subseteq Thread /\ err' \in [Thread -> Errors] /\ got' \in [Thread -> Content]
      /\ alive' \in BOOLEAN /\ msg' \in [Thread -> Content]
  BY <1>2, Facts
<1> QED BY <1>4, <1>6, <1>7, <1>8, Together

(* The block in the hands of a thread is in no list, and in no other hands. *)
LEMMA InHands ==
    ASSUME MqInv, NEW q, NEW f, Stock(q, f), NEW t \in Thread, pc[t] \in Copying
    PROVE  /\ hand[t] \in Block
           /\ ~ Linked(hand[t], q) /\ ~ Linked(hand[t], f)
           /\ \A x \in Thread \ {t} : hand[x] # hand[t]
<1>1. hand[t] \in Block
  BY Facts DEF MqInv, Hands, Holding
<1> QED BY <1>1 DEF Stock, Placed

(* The message is copied into the block. *)
LEMMA SendCopyStep ==
    ASSUME MqInv, NEW t \in Thread, SendCopy(t)
    PROVE  MqInv' /\ QueueStep
<1>1. PICK q, f : Stock(q, f) /\ Side(MqFlag, ThreadPrio, sendq, pc, err, "send", Len(f))
  BY DEF MqInv
<1> DEFINE b == hand[t]
<1>2. /\ pc[t] \in {"fill", "ufill"} /\ data' = [data EXCEPT ![b] = msg[t]]
      /\ next' = IF pc[t] = "fill" THEN [next EXCEPT ![b] = NoBlock] ELSE next
      /\ pc' = [pc EXCEPT ![t] = IF pc[t] = "fill" THEN "link" ELSE "ulink"]
      /\ UNCHANGED <<head, tail, free, entry, recvq, sendq, limited, err, hand, msg, got, alive>>
  BY DEF SendCopy, Goto, waits
<1>3. Hands
  BY DEF MqInv
<1>4. msg[t] \in Msg /\ msg[t] \in Content
  BY <1>2, <1>3 DEF Hands, Content
<1>5. /\ b \in Block /\ ~ Linked(b, q) /\ ~ Linked(b, f)
      /\ \A x \in Thread \ {t} : hand[x] # b
  BY <1>1, <1>2, InHands DEF Copying
<1> HIDE DEF b
<1>6. /\ data' \in [Block -> Content] /\ data'[b] = msg[t]
      /\ next' \in [Block -> Block \cup {NoBlock}]
      /\ pc[t] = "fill" => next'[b] = NoBlock
      /\ \A x \in Block \ {b} : data'[x] = data[x] /\ next'[x] = next[x]
  BY <1>2, <1>4, <1>5, Facts
<1>7. /\ pc' \in [Thread -> Places]
      /\ pc'[t] = IF pc[t] = "fill" THEN "link" ELSE "ulink"
      /\ \A x \in Thread \ {t} : pc'[x] = pc[x]
  BY <1>2, Facts DEF Places
<1>8. \A x : Linked(x, q) \/ Linked(x, f) => x \in Block \ {b}
  BY <1>1, <1>5, StockFacts
<1>9. Stock(q, f)'
  <2>1. Links(q, head', next') /\ Links(f, free', next')
    BY <1>1, <1>2, <1>6, <1>8, LinksOther DEF Stock
  <2> QED BY <1>1, <1>2, <2>1 DEF Stock, Links, PlaceAt, Placed
<1>10. Hands'
  <2> SUFFICES ASSUME NEW x \in Thread
               PROVE  /\ hand'[x] # NoBlock <=> pc'[x] \in Copying
                      /\ pc'[x] = "link" => next'[hand'[x]] = NoBlock
                      /\ pc'[x] \in {"send", "fill", "ufill"} => msg'[x] \in Msg
                      /\ pc'[x] \in {"link", "ulink"} => data'[hand'[x]] \in Msg
    BY DEF Hands
  <2>1. CASE x = t
    <3>1. hand'[x] = b /\ msg'[x] = msg[t]
      BY <1>2, <2>1 DEF b
    <3>2. b # NoBlock /\ pc'[x] \in {"link", "ulink"}
          /\ (pc'[x] = "link" => pc[t] = "fill")
      BY <1>2, <1>5, <1>7, <2>1, MsgQueueAssumption
    <3> QED BY <1>4, <1>6, <3>1, <3>2 DEF Copying
  <2>2. CASE x # t
    <3>1. hand'[x] = hand[x] /\ msg'[x] = msg[x] /\ pc'[x] = pc[x] /\ hand[x] # b
      BY <1>2, <1>5, <1>7, <2>2
    <3>2. hand[x] \in Block => data'[hand[x]] = data[hand[x]] /\ next'[hand[x]] = next[hand[x]]
      BY <1>6, <3>1
    <3>3. hand[x] # NoBlock => hand[x] \in Block
      BY Facts DEF Holding
    <3> QED BY <1>3, <3>1, <3>2, <3>3 DEF Hands, Copying
  <2> QED BY <2>1, <2>2
<1>11. queue' = queue
  <2>1. \A i \in 1 .. Len(q) : q[i] \in Block \ {b}
    BY <1>8 DEF Linked
  <2>2. Contents(q, data') = Contents(q, data)
    BY <1>6, <2>1 DEF Contents
  <2> QED BY <1>1, <1>6, <1>9, <2>2, QueueIs, QueueIsAfter
<1>12. gotten' = gotten
  <2>1. ASSUME NEW x \in Thread, pc[x] = "drain"
        PROVE  pc'[x] = "drain" /\ data'[hand'[x]] = data[hand[x]]
    <3>1. x # t /\ hand[x] \in Block
      BY <1>1, <1>2, <2>1, InHands DEF Copying
    <3> QED BY <1>2, <1>5, <1>6, <1>7, <2>1, <3>1
  <2>2. ASSUME NEW x \in Thread, pc[x] # "drain" PROVE pc'[x] # "drain"
    BY <1>2, <1>7, <2>2
  <2> QED BY <1>2, <2>1, <2>2 DEF gotten
<1>13. /\ SameIn(Thread, pc, err, pc', err', "recv")
       /\ SameIn(Thread, pc, err, pc', err', "send")
  BY <1>2, <1>7 DEF SameIn
<1>14. Side(MqFlag, ThreadPrio, recvq', pc', err', "recv", entry')
  BY <1>2, <1>13, Facts, SideSame
<1>15. Side(MqFlag, ThreadPrio, sendq', pc', err', "send", Len(f))
  BY <1>1, <1>2, <1>13, StockFacts, SideSame
<1>16. MqInv'
  BY <1>2, <1>6, <1>7, <1>9, <1>10, <1>14, <1>15, Facts, Together
<1> QED BY <1>11, <1>12, <1>16 DEF QueueStep

(* A call ends that has put its block into one of the lists.               *)
LEMMA PutBack ==
    ASSUME MqInv, NEW q, NEW f, Stock(q, f), NEW t \in Thread, Return(t),
           pc[t] \in {"link", "ulink", "free"}, UNCHANGED <<data, err, got, alive>>,
           \A b \in Block : b # hand[t] /\ ~ Linked(b, q) /\ ~ Linked(b, f) => next'[b] = next[b]
    PROVE  /\ data' \in [Block -> Content]
           /\ pc' \in [Thread -> Places] /\ limited' \subseteq Thread
           /\ err' \in [Thread -> Errors] /\ msg' \in [Thread -> Content]
           /\ got' \in [Thread -> Content] /\ alive' \in BOOLEAN
           /\ Hands'
           /\ gotten' = gotten
           /\ SameIn(Thread, pc, err, pc', err', "recv")
           /\ SameIn(Thread, pc, err, pc', err', "send")
<1>1. Hands
  BY DEF MqInv
<1>2. /\ pc' \in [Thread -> Places] /\ msg' \in [Thread -> Content] /\ limited' \subseteq Thread
      /\ pc'[t] = "user" /\ hand'[t] = NoBlock
      /\ \A x \in Thread \ {t} : pc'[x] = pc[x] /\ msg'[x] = msg[x] /\ hand'[x] = hand[x]
  BY Facts DEF Return, Goto, Places, Content, Holding
<1>3. ASSUME NEW x \in Thread \ {t}, pc[x] \in Copying
      PROVE  next'[hand[x]] = next[hand[x]]
  <2>1. /\ hand[x] \in Block /\ ~ Linked(hand[x], q) /\ ~ Linked(hand[x], f)
        /\ hand[t] # hand[x]
    BY <1>3, InHands
  <2> QED BY <2>1
<1>4. Hands'
  BY <1>1, <1>2, <1>3 DEF Hands, Copying
<1>5. gotten' = gotten
  BY <1>2 DEF gotten
<1>6. /\ SameIn(Thread, pc, err, pc', err', "recv")
      /\ SameIn(Thread, pc, err, pc', err', "send")
  BY <1>2 DEF SameIn
<1> QED BY <1>2, <1>4, <1>5, <1>6, Facts

(* The end of rt_mq_send_wait. *)
LEMMA SendLinkStep ==
    ASSUME MqInv, NEW t \in Thread, SendLink(t)
    PROVE  MqInv' /\ QueueStep
<1>1. PICK q, f : Stock(q, f) /\ Side(MqFlag, ThreadPrio, sendq, pc, err, "send", Len(f))
  BY DEF MqInv
<1>b. PICK b : b = hand[t]
  OBVIOUS
<1>r. PICK r : r = Append(q, b)
  OBVIOUS
<1>2. /\ pc[t] = "link" /\ Return(t)
      /\ next' = IF tail = NoBlock THEN next ELSE [next EXCEPT ![tail] = b]
      /\ tail' = b /\ head' = IF head = NoBlock THEN b ELSE head
      /\ entry' = entry + 1 /\ recvq' = WakeFirst(recvq)
      /\ UNCHANGED <<data, free, sendq, err, got, alive>>
  BY <1>b DEF SendLink
<1>3. /\ b \in Block /\ ~ Linked(b, q) /\ ~ Linked(b, f)
      /\ next[b] = NoBlock /\ data[b] \in Msg
  BY <1>b, <1>1, <1>2, InHands DEF MqInv, Hands, Copying
<1>4. hand' = [hand EXCEPT ![t] = NoBlock] /\ hand[t] = b /\ hand \in Holding
  BY <1>b, <1>2, Facts DEF Return
<1>5. /\ q \in Seq(Block) /\ LinkedOnce(q) /\ Len(q) \in Nat /\ entry = Len(q)
      /\ (tail = NoBlock <=> q = <<>>) /\ (head = NoBlock <=> q = <<>>)
      /\ Links(q, head, next) /\ Links(f, free, next)
      /\ tail = PlaceAt(q, Len(q)) /\ Len(f) \in Int
  BY <1>1, StockFacts DEF Stock
<1>6. q # <<>> => /\ Len(q) \in 1 .. Len(q) /\ tail = q[Len(q)]
                  /\ Linked(tail, q) /\ tail \in Block
  <2> SUFFICES ASSUME q # <<>> PROVE Len(q) \in 1 .. Len(q) /\ tail = q[Len(q)]
    BY <1>1, StockFacts DEF Linked
  <2>1. Len(q) \in 1 .. Len(q)
    BY <1>5
  <2> QED BY <1>5, <2>1 DEF PlaceAt
<1>7. next' \in [Block -> Block \cup {NoBlock}]
  BY <1>2, <1>3, <1>6, Facts
<1>8. \A x \in Block : ~ (q # <<>> /\ x = tail) => next'[x] = next[x]
  BY <1>2, <1>5, <1>6, Facts
<1>9. Links(r, IF q = <<>> THEN b ELSE head, next')
  <2>1. next'[b] = NoBlock
    BY <1>3, <1>6, <1>8
  <2>2. ASSUME NEW i \in 1 .. Len(q)
        PROVE  next'[q[i]] = IF i = Len(q) THEN b ELSE next[q[i]]
    <3>1. q # <<>> /\ q[i] \in Block
      BY <1>5
    <3>2. CASE i = Len(q)
      BY <1>2, <1>5, <1>6, <3>1, <3>2, Facts
    <3>3. CASE i # Len(q)
      BY <1>5, <1>6, <1>8, <3>1, <3>3 DEF LinkedOnce
    <3> QED BY <3>2, <3>3
  <2> QED BY <1>r, <1>3, <1>5, <2>1, <2>2, LinksAppend
<1>10. Links(f, free', next')
  <2>1. \A x : Linked(x, f) => x \in Block /\ ~ Linked(x, q)
    BY <1>1, StockFacts DEF Stock, Placed
  <2>2. \A x : Linked(x, f) => next'[x] = next[x]
    BY <1>6, <1>8, <2>1
  <2> QED BY <1>2, <1>5, <2>2, LinksOther
<1>11. /\ r \in Seq(Block) /\ Len(r) = Len(q) + 1 /\ r[Len(q) + 1] = b
       /\ \A x : Linked(x, r) <=> x = b \/ Linked(x, q)
  BY <1>r, <1>3, <1>5, AppendFacts
<1>12. hand' \in Holding /\ Placed(r, f, hand')
  <2>1. Placed(q, f, hand)
    BY <1>1 DEF Stock
  <2>2. hand[t] \in Block /\ \A x : Linked(x, r) <=> x = hand[t] \/ Linked(x, q)
    BY <1>3, <1>4, <1>11
  <2> QED BY <1>4, <2>1, <2>2, PlacedPut
<1>13. Stock(r, f)'
  <2>1. Links(r, head', next') /\ Len(r) = entry'
    BY <1>2, <1>5, <1>9, <1>11
  <2>2. tail' = PlaceAt(r, Len(r))
    BY <1>2, <1>5, <1>11 DEF PlaceAt
  <2> QED BY <1>10, <1>12, <2>1, <2>2 DEF Stock, Links, PlaceAt, Placed
<1>14. /\ data' \in [Block -> Content]
       /\ pc' \in [Thread -> Places] /\ limited' \subseteq Thread
       /\ err' \in [Thread -> Errors] /\ msg' \in [Thread -> Content]
       /\ got' \in [Thread -> Content] /\ alive' \in BOOLEAN
       /\ Hands'
       /\ gotten' = gotten
       /\ SameIn(Thread, pc, err, pc', err', "recv")
       /\ SameIn(Thread, pc, err, pc', err', "send")
  BY <1>b, <1>1, <1>2, <1>6, <1>8, PutBack
<1>15. Side(MqFlag, ThreadPrio, recvq', pc', err', "recv", entry')
  <2>1. entry' \in Int /\ entry' <= entry + 1
    BY <1>2, <1>5
  <2> QED BY <1>2, <1>14, <2>1, Facts, SideWake
<1>16. Side(MqFlag, ThreadPrio, sendq', pc', err', "send", Len(f))
  BY <1>1, <1>2, <1>5, <1>14, SideSame
<1>17. MqInv'
  BY <1>7, <1>12, <1>13, <1>14, <1>15, <1>16, Together
<1>18. QueueStep
  <2>1. queue = Contents(q, data) /\ queue' = Contents(r, data)
    BY <1>1, <1>2, <1>7, <1>13, QueueIs, QueueIsAfter
  <2>2. queue' = Append(queue, data[b]) /\ Len(queue) = Len(q)
    BY <1>r, <1>3, <1>5, <2>1, ContentsFacts, Facts
  <2>3. Len(queue) < Cardinality(Block)
    BY <1>1, <1>3, <2>2, RoomLeft
  <2> QED BY <1>3, <1>14, <2>2, <2>3 DEF QueueStep, Queue!Next, Queue!Send, queue, gotten
<1> QED BY <1>17, <1>18

(* The end of rt_mq_urgent. *)
LEMMA UrgentLinkStep ==
    ASSUME MqInv, NEW t \in Thread, UrgentLink(t)
    PROVE  MqInv' /\ QueueStep
<1>1. PICK q, f : Stock(q, f) /\ Side(MqFlag, ThreadPrio, sendq, pc, err, "send", Len(f))
  BY DEF MqInv
<1>b. PICK b : b = hand[t]
  OBVIOUS
<1>r. PICK r : r = <<b>> \o q
  OBVIOUS
<1>2. /\ pc[t] = "ulink" /\ Return(t)
      /\ next' = [next EXCEPT ![b] = head] /\ head' = b
      /\ tail' = IF tail = NoBlock THEN b ELSE tail
      /\ entry' = entry + 1 /\ recvq' = WakeFirst(recvq)
      /\ UNCHANGED <<data, free, sendq, err, got, alive>>
  BY <1>b DEF UrgentLink
<1>3. /\ b \in Block /\ ~ Linked(b, q) /\ ~ Linked(b, f) /\ data[b] \in Msg
  BY <1>b, <1>1, <1>2, InHands DEF MqInv, Hands, Copying
<1>4. hand' = [hand EXCEPT ![t] = NoBlock] /\ hand[t] = b /\ hand \in Holding
  BY <1>b, <1>2, Facts DEF Return
<1>5. /\ q \in Seq(Block) /\ LinkedOnce(q) /\ Len(q) \in Nat /\ entry = Len(q)
      /\ (tail = NoBlock <=> q = <<>>) /\ (head = NoBlock <=> q = <<>>)
      /\ Links(q, head, next) /\ Links(f, free, next)
      /\ tail = PlaceAt(q, Len(q)) /\ Len(f) \in Int
      /\ \A x : Linked(x, q) \/ Linked(x, f) => x \in Block
      /\ head \in Block \cup {NoBlock}
  BY <1>1, StockFacts DEF Stock, MqInv, TypeOK
<1>6. /\ next' \in [Block -> Block \cup {NoBlock}] /\ next'[b] = head
      /\ \A x \in Block \ {b} : next'[x] = next[x]
  BY <1>2, <1>3, <1>5, Facts
<1>7. Links(r, b, next')
  <2>1. \A x : Linked(x, q) => next'[x] = next[x]
    BY <1>3, <1>5, <1>6
  <2> QED BY <1>r, <1>3, <1>5, <1>6, <2>1, LinksPush
<1>8. Links(f, free', next')
  <2>1. \A x : Linked(x, f) => next'[x] = next[x]
    BY <1>3, <1>5, <1>6
  <2> QED BY <1>2, <1>5, <2>1, LinksOther
<1>9. /\ r \in Seq(Block) /\ Len(r) = Len(q) + 1 /\ r[1] = b
      /\ \A i \in 1 .. Len(q) : r[i + 1] = q[i]
      /\ \A x : Linked(x, r) <=> x = b \/ Linked(x, q)
  <2>1. \A x : Linked(x, r) <=> x = b \/ Linked(x, q)
    BY <1>r, <1>3, <1>5, PushFacts
  <2> QED BY <1>r, <1>3, <1>5, <2>1
<1>10. hand' \in Holding /\ Placed(r, f, hand')
  <2>1. Placed(q, f, hand)
    BY <1>1 DEF Stock
  <2>2. hand[t] \in Block /\ \A x : Linked(x, r) <=> x = hand[t] \/ Linked(x, q)
    BY <1>3, <1>4, <1>9
  <2> QED BY <1>4, <2>1, <2>2, PlacedPut
<1>11. Stock(r, f)'
  <2>1. Links(r, head', next') /\ Len(r) = entry'
    BY <1>2, <1>5, <1>7, <1>9
  <2>2. tail' = PlaceAt(r, Len(r))
    <3>1. CASE q = <<>>
      BY <1>2, <1>5, <1>9, <3>1 DEF PlaceAt
    <3>2. CASE q # <<>>
      <4>1. Len(q) \in 1 .. Len(q) /\ Len(r) \in 1 .. Len(r) /\ r[Len(r)] = q[Len(q)]
        BY <1>5, <1>9, <3>2
      <4> QED BY <1>2, <1>5, <3>2, <4>1 DEF PlaceAt
    <3> QED BY <3>1, <3>2
  <2> QED BY <1>8, <1>10, <2>1, <2>2 DEF Stock, Links, PlaceAt, Placed
<1>12. /\ data' \in [Block -> Content]
       /\ pc' \in [Thread -> Places] /\ limited' \subseteq Thread
       /\ err' \in [Thread -> Errors] /\ msg' \in [Thread -> Content]
       /\ got' \in [Thread -> Content] /\ alive' \in BOOLEAN
       /\ Hands'
       /\ gotten' = gotten
       /\ SameIn(Thread, pc, err, pc', err', "recv")
       /\ SameIn(Thread, pc, err, pc', err', "send")
  BY <1>b, <1>1, <1>2, <1>6, PutBack
<1>13. Side(MqFlag, ThreadPrio, recvq', pc', err', "recv", entry')
  <2>1. entry' \in Int /\ entry' <= entry + 1
    BY <1>2, <1>5
  <2> QED BY <1>2, <1>12, <2>1, Facts, SideWake
<1>14. Side(MqFlag, ThreadPrio, sendq', pc', err', "send", Len(f))
  BY <1>1, <1>2, <1>5, <1>12, SideSame
<1>15. MqInv'
  BY <1>6, <1>10, <1>11, <1>12, <1>13, <1>14, Together
<1>16. QueueStep
  <2>1. queue = Contents(q, data) /\ queue' = Contents(r, data)
    BY <1>1, <1>2, <1>6, <1>11, QueueIs, QueueIsAfter
  <2>2. queue' = <<data[b]>> \o queue /\ Len(queue) = Len(q)
    BY <1>r, <1>3, <1>5, <2>1, ContentsFacts, Facts
  <2>3. Len(queue) < Cardinality(Block)
    BY <1>1, <1>3, <2>2, RoomLeft
  <2> QED BY <1>3, <1>12, <2>2, <2>3
             DEF QueueStep, Queue!Next, Queue!SendUrgent, queue, gotten
<1> QED BY <1>15, <1>16

(* The end of rt_mq_recv. *)
LEMMA ReceiveFreeStep ==
    ASSUME MqInv, NEW t \in Thread, ReceiveFree(t)
    PROVE  MqInv' /\ QueueStep
<1>1. PICK q, f : Stock(q, f) /\ Side(MqFlag, ThreadPrio, sendq, pc, err, "send", Len(f))
  BY DEF MqInv
<1>b. PICK b : b = hand[t]
  OBVIOUS
<1>r. PICK r : r = <<b>> \o f
  OBVIOUS
<1>2. /\ pc[t] = "free" /\ Return(t)
      /\ next' = [next EXCEPT ![b] = free] /\ free' = b
      /\ sendq' = WakeFirst(sendq)
      /\ UNCHANGED <<data, head, tail, entry, recvq, err, got, alive>>
  BY <1>b DEF ReceiveFree
<1>3. /\ b \in Block /\ ~ Linked(b, q) /\ ~ Linked(b, f)
  BY <1>b, <1>1, <1>2, InHands DEF Copying
<1>4. hand' = [hand EXCEPT ![t] = NoBlock] /\ hand[t] = b /\ hand \in Holding
  BY <1>b, <1>2, Facts DEF Return
<1>5. /\ f \in Seq(Block) /\ LinkedOnce(f) /\ Len(f) \in Nat /\ Len(f) \in Int
      /\ Links(q, head, next) /\ Links(f, free, next)
      /\ \A x : Linked(x, q) \/ Linked(x, f) => x \in Block
      /\ free \in Block \cup {NoBlock}
  BY <1>1, StockFacts DEF Stock, MqInv, TypeOK
<1>6. /\ next' \in [Block -> Block \cup {NoBlock}] /\ next'[b] = free
      /\ \A x \in Block \ {b} : next'[x] = next[x]
  BY <1>2, <1>3, <1>5, Facts
<1>7. Links(r, b, next')
  <2>1. \A x : Linked(x, f) => next'[x] = next[x]
    BY <1>3, <1>5, <1>6
  <2> QED BY <1>r, <1>3, <1>5, <1>6, <2>1, LinksPush
<1>8. Links(q, head', next')
  <2>1. \A x : Linked(x, q) => next'[x] = next[x]
    BY <1>3, <1>5, <1>6
  <2> QED BY <1>2, <1>5, <2>1, LinksOther
<1>9. /\ r \in Seq(Block) /\ Len(r) = Len(f) + 1
      /\ \A x : Linked(x, r) <=> x = b \/ Linked(x, f)
  BY <1>r, <1>3, <1>5, PushFacts
<1>10. hand' \in Holding /\ Placed(q, r, hand')
  <2>1. Placed(f, q, hand)
    BY <1>1, PlacedSwap DEF Stock
  <2>2. hand' \in Holding /\ Placed(r, q, hand')
    BY <1>3, <1>4, <1>9, <2>1, PlacedPut
  <2> QED BY <2>2, PlacedSwap
<1>11. Stock(q, r)'
  BY <1>1, <1>2, <1>7, <1>8, <1>10 DEF Stock, Links, PlaceAt, Placed
<1>12. /\ data' \in [Block -> Content]
       /\ pc' \in [Thread -> Places] /\ limited' \subseteq Thread
       /\ err' \in [Thread -> Errors] /\ msg' \in [Thread -> Content]
       /\ got' \in [Thread -> Content] /\ alive' \in BOOLEAN
       /\ Hands'
       /\ gotten' = gotten
       /\ SameIn(Thread, pc, err, pc', err', "recv")
       /\ SameIn(Thread, pc, err, pc', err', "send")
  BY <1>b, <1>1, <1>2, <1>6, PutBack
<1>13. Side(MqFlag, ThreadPrio, recvq', pc', err', "recv", entry')
  BY <1>2, <1>12, Facts, SideSame
<1>14. Side(MqFlag, ThreadPrio, sendq', pc', err', "send", Len(r))
  <2>1. Len(r) \in Int /\ Len(r) <= Len(f) + 1
    BY <1>5, <1>9
  <2> QED BY <1>1, <1>2, <1>5, <1>12, <2>1, SideWake
<1>15. MqInv'
  BY <1>6, <1>10, <1>11, <1>12, <1>13, <1>14, Together
<1>16. queue' = queue
  BY <1>1, <1>2, <1>6, <1>11, QueueIs, QueueIsAfter
<1> QED BY <1>12, <1>15, <1>16 DEF QueueStep

(* A block leaves the queue. *)
LEMMA UnlinkStep ==
    ASSUME MqInv, NEW q, NEW f, Stock(q, f), NEW t \in Thread, pc[t] \notin Copying,
           Unlink(t), UNCHANGED <<msg, got>>
    PROVE  /\ next' \in [Block -> Block \cup {NoBlock}] /\ data' \in [Block -> Content]
           /\ pc' \in [Thread -> Places] /\ hand' \in Holding
           /\ pc'[t] = "drain" /\ \A x \in Thread \ {t} : pc'[x] = pc[x]
           /\ Hands' /\ Stock(Tail(q), f)'
           /\ entry' \in Int /\ entry' = entry - 1 /\ Len(f) \in Int
           /\ QueueStep
<1>b. PICK b : b = head
  OBVIOUS
<1>r. PICK r : r = Tail(q)
  OBVIOUS
<1>1. /\ entry > 0 /\ hand' = [hand EXCEPT ![t] = b] /\ head' = next[b]
      /\ tail' = IF tail = b THEN NoBlock ELSE tail
      /\ entry' = entry - 1
      /\ pc' = [pc EXCEPT ![t] = "drain"]
      /\ UNCHANGED <<next, data, free>>
  BY <1>b DEF Unlink, Goto
<1>2. Hands
  BY DEF MqInv
<1>3. /\ q \in Seq(Block) /\ LinkedOnce(q) /\ Len(q) \in Nat /\ entry = Len(q)
      /\ NoBlock \notin Block /\ Len(f) \in Int
      /\ Links(q, b, next) /\ Links(f, free, next)
      /\ tail = PlaceAt(q, Len(q)) /\ Placed(q, f, hand)
  BY <1>b, StockFacts DEF Stock
<1>4. q # <<>> /\ entry # 0
  BY <1>1, <1>3
<1>5. b = q[1] /\ b = Head(q) /\ Linked(b, q) /\ b \in Block
  BY <1>3, <1>4, LinksFacts
<1>6. /\ r \in Seq(Block) /\ Len(r) = Len(q) - 1
      /\ \A i \in 1 .. Len(r) : r[i] = q[i + 1]
      /\ \A x : Linked(x, r) <=> Linked(x, q) /\ x # b
  BY <1>r, <1>3, <1>4, <1>5, HeadFacts, HeadTailProperties
<1>7. hand[t] = NoBlock /\ hand \in Holding
  BY <1>2, Facts DEF Hands
<1>8. /\ hand' \in Holding /\ Placed(r, f, hand')
      /\ hand'[t] = b /\ \A x \in Thread \ {t} : hand'[x] = hand[x]
  <2>1. hand' \in Holding /\ Placed(r, f, hand')
    BY <1>1, <1>3, <1>5, <1>6, <1>7, PlacedTake
  <2> QED BY <1>1, <1>7, <2>1 DEF Holding
<1>9. tail' = PlaceAt(r, Len(r))
  <2>1. CASE Len(q) = 1
    BY <1>1, <1>3, <1>5, <1>6, <2>1 DEF PlaceAt
  <2>2. CASE Len(q) # 1
    <3>1. /\ Len(q) \in 1 .. Len(q) /\ 1 \in 1 .. Len(q) /\ Len(q) # 1
          /\ Len(r) \in 1 .. Len(r) /\ Len(r) + 1 = Len(q)
      BY <1>3, <1>4, <1>6, <2>2
    <3>2. tail = q[Len(q)] /\ tail # b
      BY <1>3, <1>5, <3>1 DEF PlaceAt, LinkedOnce
    <3> QED BY <1>1, <1>6, <3>1, <3>2 DEF PlaceAt
  <2> QED BY <2>1, <2>2
<1>10. Stock(r, f)'
  <2>1. Links(r, head', next')
    BY <1>r, <1>1, <1>3, <1>4, LinksPop
  <2>2. Len(r) = entry' /\ Links(f, free', next')
    BY <1>1, <1>3, <1>6
  <2> QED BY <1>8, <1>9, <2>1, <2>2 DEF Stock, Links, PlaceAt, Placed
<1>11. pc' \in [Thread -> Places] /\ pc'[t] = "drain" /\ \A x \in Thread \ {t} : pc'[x] = pc[x]
  BY <1>1, Facts DEF Places
<1>12. Hands'
  BY <1>1, <1>2, <1>3, <1>5, <1>8, <1>11 DEF Hands, Copying
<1>13. QueueStep
  <2>1. queue = Contents(q, data) /\ queue' = Contents(r, data)
    BY <1>1, <1>10, Facts, QueueIs, QueueIsAfter
  <2>2. queue # <<>> /\ Head(queue) = data[b] /\ queue' = Tail(queue)
    BY <1>r, <1>3, <1>4, <1>5, <2>1, ContentsFacts, Facts
  <2>3. gotten' = [gotten EXCEPT ![t] = Head(queue)]
    <3>1. \A x \in Thread \ {t} : pc'[x] = pc[x] /\ hand'[x] = hand[x]
      BY <1>8, <1>11
    <3>2. pc'[t] = "drain" /\ data'[hand'[t]] = Head(queue)
      BY <1>1, <1>8, <1>11, <2>2
    <3>3. /\ gotten'[t] = Head(queue) /\ DOMAIN gotten' = Thread /\ DOMAIN gotten = Thread
          /\ gotten = [x \in DOMAIN gotten |-> gotten[x]]
          /\ gotten' = [x \in DOMAIN gotten' |-> gotten'[x]]
      BY <3>2 DEF gotten
    <3>4. \A x \in Thread \ {t} : gotten'[x] = gotten[x]
      BY <1>1, <3>1 DEF gotten
    <3> QED BY <3>3, <3>4
  <2> QED BY <2>2, <2>3 DEF QueueStep, Queue!Next, Queue!Receive, queue, gotten
<1> QED BY <1>r, <1>1, <1>3, <1>8, <1>10, <1>11, <1>12, <1>13, Facts

(* rt_mq_recv, with a message. *)
LEMMA ReceiveTakeStep ==
    ASSUME MqInv, NEW t \in Thread, ReceiveTake(t)
    PROVE  MqInv' /\ QueueStep
<1>1. PICK q, f : Stock(q, f) /\ Side(MqFlag, ThreadPrio, sendq, pc, err, "send", Len(f))
  BY DEF MqInv
<1>2. /\ pc[t] = "user" /\ Unlink(t)
      /\ UNCHANGED <<recvq, sendq, limited, err, msg, got, alive>>
  BY DEF ReceiveTake, Calls, waits
<1>3. /\ next' \in [Block -> Block \cup {NoBlock}] /\ data' \in [Block -> Content]
      /\ pc' \in [Thread -> Places] /\ hand' \in Holding
      /\ pc'[t] = "drain" /\ \A x \in Thread \ {t} : pc'[x] = pc[x]
      /\ Hands' /\ Stock(Tail(q), f)'
      /\ entry' \in Int /\ entry' = entry - 1 /\ Len(f) \in Int
      /\ QueueStep
  <2>1. pc[t] \notin Copying
    BY <1>2 DEF Copying
  <2> QED BY <1>1, <1>2, <2>1, UnlinkStep
<1>4. /\ SameIn(Thread, pc, err, pc', err', "recv")
      /\ SameIn(Thread, pc, err, pc', err', "send")
  BY <1>2, <1>3 DEF SameIn
<1>5. Side(MqFlag, ThreadPrio, recvq', pc', err', "recv", entry')
  <2>1. entry' <= entry
    BY <1>3, Facts
  <2> QED BY <1>2, <1>3, <1>4, <2>1, Facts, SideSame
<1>6. Side(MqFlag, ThreadPrio, sendq', pc', err', "send", Len(f))
  BY <1>1, <1>2, <1>3, <1>4, SideSame
<1>7. /\ limited' \subseteq Thread /\ err' \in [Thread -> Errors] /\ got' \in [Thread -> Content]
      /\ alive' \in BOOLEAN /\ msg' \in [Thread -> Content]
  BY <1>2, Facts
<1> QED BY <1>3, <1>5, <1>6, <1>7, Together

(* A woken receiver finds a message. *)
LEMMA ReceiveWokenStep ==
    ASSUME MqInv, NEW t \in Thread, ReceiveWoken(t)
    PROVE  MqInv' /\ QueueStep
<1>1. PICK q, f : Stock(q, f) /\ Side(MqFlag, ThreadPrio, sendq, pc, err, "send", Len(f))
  BY DEF MqInv
<1>2. /\ pc[t] = "recv" /\ ~ Linked(t, recvq) /\ Unlink(t)
      /\ UNCHANGED <<recvq, sendq, limited, err, msg, got, alive>>
  BY DEF ReceiveWoken, Woken, waits
<1>3. /\ next' \in [Block -> Block \cup {NoBlock}] /\ data' \in [Block -> Content]
      /\ pc' \in [Thread -> Places] /\ hand' \in Holding
      /\ pc'[t] = "drain" /\ \A x \in Thread \ {t} : pc'[x] = pc[x]
      /\ Hands' /\ Stock(Tail(q), f)'
      /\ entry' \in Int /\ entry' = entry - 1 /\ Len(f) \in Int
      /\ QueueStep
  <2>1. pc[t] \notin Copying
    BY <1>2 DEF Copying
  <2> QED BY <1>1, <1>2, <2>1, UnlinkStep
<1>4. /\ SameIn(Thread \ {t}, pc, err, pc', err', "recv")
      /\ SameIn(Thread, pc, err, pc', err', "send")
  BY <1>2, <1>3 DEF SameIn
<1>5. Side(MqFlag, ThreadPrio, recvq', pc', err', "recv", entry')
  <2>1. entry' <= entry - 1 /\ pc'[t] # "recv"
    BY <1>3, Facts
  <2> QED BY <1>2, <1>3, <1>4, <2>1, Facts, SideLeave
<1>6. Side(MqFlag, ThreadPrio, sendq', pc', err', "send", Len(f))
  BY <1>1, <1>2, <1>3, <1>4, SideSame
<1>7. /\ limited' \subseteq Thread /\ err' \in [Thread -> Errors] /\ got' \in [Thread -> Content]
      /\ alive' \in BOOLEAN /\ msg' \in [Thread -> Content]
  BY <1>2, Facts
<1> QED BY <1>3, <1>5, <1>6, <1>7, Together

(* The message is copied out of the block, whose contents have not changed *)
(* since the block left the queue.                                         *)
LEMMA ReceiveCopyStep ==
    ASSUME MqInv, NEW t \in Thread, ReceiveCopy(t)
    PROVE  MqInv' /\ QueueStep
<1>1. PICK q, f : Stock(q, f) /\ Side(MqFlag, ThreadPrio, sendq, pc, err, "send", Len(f))
  BY DEF MqInv
<1>2. /\ pc[t] = "drain" /\ got' = [got EXCEPT ![t] = data[hand[t]]]
      /\ pc' = [pc EXCEPT ![t] = "free"]
      /\ UNCHANGED <<next, data, head, tail, free, entry, recvq, sendq, limited, err, hand,
                     msg, alive>>
  BY DEF ReceiveCopy, Goto, lists, waits
<1>3. Hands /\ hand[t] \in Block
  BY <1>1, <1>2, InHands DEF MqInv, Copying
<1>4. /\ pc' \in [Thread -> Places] /\ pc'[t] = "free"
      /\ got' \in [Thread -> Content] /\ got'[t] = data[hand[t]]
      /\ \A x \in Thread \ {t} : pc'[x] = pc[x] /\ got'[x] = got[x]
  BY <1>2, <1>3, Facts DEF Places
<1>5. Hands'
  BY <1>2, <1>3, <1>4 DEF Hands, Copying
<1>6. Stock(q, f)'
  BY <1>1, <1>2 DEF Stock
<1>7. queue' = queue
  BY <1>1, <1>2, <1>6, Facts, QueueIs, QueueIsAfter
<1>8. gotten' = gotten
  BY <1>2, <1>4 DEF gotten
<1>9. /\ SameIn(Thread, pc, err, pc', err', "recv")
      /\ SameIn(Thread, pc, err, pc', err', "send")
  BY <1>2, <1>4 DEF SameIn
<1>10. Side(MqFlag, ThreadPrio, recvq', pc', err', "recv", entry')
  BY <1>2, <1>9, Facts, SideSame
<1>11. Side(MqFlag, ThreadPrio, sendq', pc', err', "send", Len(f))
  BY <1>1, <1>2, <1>9, StockFacts, SideSame
<1>12. MqInv'
  BY <1>2, <1>4, <1>5, <1>6, <1>10, <1>11, Facts, Together
<1> QED BY <1>7, <1>8, <1>12 DEF QueueStep

(* RT_IPC_CMD_RESET *)
LEMMA ResetStep ==
    ASSUME MqInv, NEW t \in Thread, Reset(t)
    PROVE  MqInv' /\ QueueStep
<1>1. PICK q, f : Stock(q, f) /\ Side(MqFlag, ThreadPrio, sendq, pc, err, "send", Len(f))
  BY DEF MqInv
<1>r. PICK r : r = Reverse(q) \o f
  OBVIOUS
<1>2. /\ q \in Seq(Block) /\ LinkedOnce(q) /\ Len(q) \in Nat /\ Len(f) \in Int
      /\ Chain(head) = q /\ NoBlock \notin Block
      /\ Links(q, head, next) /\ Links(f, free, next) /\ Placed(q, f, hand)
      /\ tail = PlaceAt(q, Len(q)) /\ (tail = NoBlock <=> q = <<>>)
      /\ \A x : Linked(x, q) \/ Linked(x, f) => x \in Block
      /\ q # <<>> => head = q[1]
  BY <1>1, StockFacts, LinksFacts DEF Stock
<1>3. /\ err' = [u \in Thread |-> IF Linked(u, recvq) \/ Linked(u, sendq) THEN "error" ELSE err[u]]
      /\ recvq' = <<>> /\ sendq' = <<>>
      /\ next' = [b \in Block |->
                    IF ~ Linked(b, q) THEN next[b]
                    ELSE IF b = head THEN free ELSE q[Position(b, q) - 1]]
      /\ free' = IF q = <<>> THEN free ELSE Last(q)
      /\ tail' = IF Linked(tail, q) THEN NoBlock ELSE tail
      /\ head' = NoBlock /\ entry' = 0
      /\ UNCHANGED <<data, pc, limited, hand, msg, got, alive>>
  BY <1>2 DEF Reset
<1>4. ASSUME NEW j \in 1 .. Len(q)
      PROVE  /\ next'[q[j]] = IF j = 1 THEN free ELSE q[j - 1]
             /\ next'[q[j]] \in Block \cup {NoBlock}
  <2>1. q[j] \in Block /\ Linked(q[j], q) /\ q # <<>> /\ 1 \in 1 .. Len(q)
    BY <1>2 DEF Linked
  <2>2. q[j] = head <=> j = 1
    BY <1>2, <2>1 DEF LinkedOnce
  <2>3. Position(q[j], q) = j
    BY <1>2 DEF Position, LinkedOnce
  <2>4. j # 1 => j - 1 \in 1 .. Len(q)
    BY <1>2
  <2>5. free \in Block \cup {NoBlock}
    BY DEF MqInv, TypeOK
  <2> QED BY <1>2, <1>3, <2>1, <2>2, <2>3, <2>4, <2>5
<1>5. \A x \in Block : ~ Linked(x, q) => next'[x] = next[x]
  BY <1>3
<1>6. next' \in [Block -> Block \cup {NoBlock}]
  <2>1. \A x \in Block : next'[x] \in Block \cup {NoBlock}
    BY <1>4, <1>5, Facts DEF Linked
  <2> QED BY <1>3, <2>1
<1>7. /\ Links(r, free', next')
      /\ \A x : Linked(x, r) <=> Linked(x, q) \/ Linked(x, f)
  <2>1. \A x : ~ (Linked(x, q) /\ Linked(x, f))
    BY <1>2 DEF Placed
  <2>2. \A x : Linked(x, f) => next'[x] = next[x]
    BY <1>2, <1>5, <2>1
  <2>3. \A j \in 1 .. Len(q) : next'[q[j]] = IF j = 1 THEN free ELSE q[j - 1]
    BY <1>4
  <2>4. /\ Links(Reverse(q) \o f, IF q = <<>> THEN free ELSE Last(q), next')
        /\ \A x : Linked(x, Reverse(q) \o f) <=> Linked(x, q) \/ Linked(x, f)
    BY <1>2, <2>1, <2>2, <2>3, LinksReverse
  <2>5. free' = IF q = <<>> THEN free ELSE Last(q)
    BY <1>3
  <2> QED BY <1>r, <2>4, <2>5
<1>8. /\ Len(<<>>) = 0 /\ <<>> \in Seq(Block)
      /\ \A x : ~ Linked(x, <<>>) /\ LinkedOnce(<<>>)
      /\ \A i : PlaceAt(<<>>, i) = NoBlock
  BY DEF Linked, LinkedOnce, PlaceAt
<1>9. Links(<<>>, head', next')
  BY <1>3, <1>8 DEF Links
<1>10. tail' = NoBlock
  <2>1. q # <<>> => Linked(tail, q)
    <3> SUFFICES ASSUME q # <<>> PROVE Linked(tail, q)
      OBVIOUS
    <3>1. Len(q) \in 1 .. Len(q)
      BY <1>2
    <3> QED BY <1>2, <3>1 DEF PlaceAt, Linked
  <2> QED BY <1>2, <1>3, <2>1
<1>11. Placed(<<>>, r, hand)
  BY <1>2, <1>7, <1>8 DEF Placed
<1>12. Stock(<<>>, r)'
  BY <1>3, <1>7, <1>8, <1>9, <1>10, <1>11 DEF Stock, Links, PlaceAt, Placed
<1>13. Hands'
  <2>1. ASSUME NEW x \in Thread, pc[x] \in Copying PROVE next'[hand[x]] = next[hand[x]]
    BY <1>1, <1>5, <2>1, InHands
  <2> QED BY <1>3, <2>1 DEF MqInv, Hands, Copying
<1>14. err' \in [Thread -> Errors]
  BY <1>3, Facts DEF Errors
<1>15. ASSUME NEW w, NEW c, NEW n \in Int, NEW n1 \in Int,
              Side(MqFlag, ThreadPrio, w, pc, err, c, n),
              <<w, c>> \in {<<recvq, "recv">>, <<sendq, "send">>}
       PROVE  Side(MqFlag, ThreadPrio, <<>>, pc, err', c, n1)
  <2> DEFINE e1 == [u \in Thread |-> IF Linked(u, w) THEN "error" ELSE err[u]]
  <2>1. Side(MqFlag, ThreadPrio, <<>>, pc, e1, c, n1)
    BY <1>15, SideReset
  <2>2. SameIn(Thread, pc, e1, pc, err', c)
    BY <1>1, <1>3, <1>15, Facts, SendqFacts DEF SameIn
  <2> QED BY <2>1, <2>2, SideSame
<1>16. Side(MqFlag, ThreadPrio, recvq', pc', err', "recv", entry')
  <2>1. Side(MqFlag, ThreadPrio, <<>>, pc, err', "recv", 0)
    BY <1>15, Facts
  <2> QED BY <1>3, <2>1
<1>17. Side(MqFlag, ThreadPrio, sendq', pc', err', "send", Len(r))
  <2>1. r \in Seq(Block) /\ Len(r) \in Int
    <3>1. r \in Seq(Block)
      BY <1>7 DEF Links
    <3> QED BY <3>1
  <2>2. Side(MqFlag, ThreadPrio, <<>>, pc, err', "send", Len(r))
    BY <1>1, <1>2, <1>15, <2>1
  <2> QED BY <1>3, <2>2
<1>18. MqInv'
  BY <1>3, <1>6, <1>12, <1>13, <1>14, <1>16, <1>17, Facts, Together
<1>19. queue' = <<>>
  <2>1. queue' = Contents(<<>>, data')
    BY <1>6, <1>12, QueueIsAfter
  <2> QED BY <2>1 DEF Contents
<1>20. gotten' = gotten
  BY <1>3 DEF gotten
<1>21. QueueStep
  BY <1>19, <1>20 DEF QueueStep, Queue!Next, Queue!Reset, queue, gotten
<1> QED BY <1>18, <1>21

-----------------------------------------------------------------------------
(* All states *)

(* rt_mq_init puts every block once in the free list. *)
LEMMA InitInv == Init => MqInv
<1> SUFFICES ASSUME Init PROVE MqInv
  OBVIOUS
<1> DEFINE n == Cardinality(Block)
<1>1. PICK f \in SetToSeqs(Block) :
         /\ free = f[1]
         /\ next = [b \in Block |->
                      LET i == Position(b, f) IN IF i = Len(f) THEN NoBlock ELSE f[i + 1]]
  BY Zenon DEF Init
<1>2. /\ IsFiniteSet(Block) /\ Block # {} /\ NoBlock \notin Block /\ n \in Nat /\ n # 0
  BY MsgQueueAssumption, FS_CardinalityType, FS_EmptySet
<1>3. /\ f \in [1 .. n -> Block]
      /\ \A i, j \in 1 .. n : i # j => f[i] # f[j]
  BY <1>1, Zenon DEF SetToSeqs
<1> HIDE DEF n
<1>4. /\ f \in Seq(Block) /\ Len(f) = n /\ LinkedOnce(f)
  BY <1>2, <1>3 DEF LinkedOnce
<1>5. \A b \in Block : Linked(b, f)
  <2>1. Cardinality(1 .. n) = n
    BY <1>4, ShortEnough
  <2>2. f \in Injection(1 .. n, Block)
    BY <1>3 DEF Injection, IsInjective
  <2>3. f \in Surjection(1 .. n, Block)
    BY <1>2, <2>1, <2>2, FS_Injection DEF n
  <2> QED BY <1>4, <2>3 DEF Surjection, Linked
<1>6. ASSUME NEW i \in 1 .. n PROVE next[f[i]] = PlaceAt(f, i + 1)
  <2>1. f[i] \in Block /\ Position(f[i], f) = i
    BY <1>3, <1>4 DEF Position
  <2> QED BY <1>1, <1>2, <1>4, <2>1 DEF PlaceAt
<1>7. next \in [Block -> Block \cup {NoBlock}]
  <2>1. ASSUME NEW b \in Block PROVE next[b] \in Block \cup {NoBlock}
    <3>1. PICK i \in 1 .. n : f[i] = b
      BY <1>4, <1>5 DEF Linked
    <3> QED BY <1>3, <1>4, <1>6, <3>1 DEF PlaceAt
  <2> QED BY <1>1, <2>1
<1>8. Links(f, free, next)
  <2>1. free = PlaceAt(f, 1)
    BY <1>1, <1>2, <1>4 DEF PlaceAt
  <2>2. \A i \in 1 .. Len(f) : next[f[i]] = PlaceAt(f, i + 1)
    BY <1>4, <1>6
  <2> QED BY <1>4, <2>1, <2>2 DEF Links
<1>9. /\ head = NoBlock /\ tail = NoBlock /\ entry = 0 /\ recvq = <<>> /\ sendq = <<>>
      /\ hand = [t \in Thread |-> NoBlock] /\ pc = [t \in Thread |-> "user"]
  BY DEF Init
<1>10. /\ Len(<<>>) = 0 /\ <<>> \in Seq(Block) /\ <<>> \in Seq(Thread)
       /\ \A x : ~ Linked(x, <<>>) /\ LinkedOnce(<<>>) /\ SortedBy(<<>>, ThreadPrio)
       /\ \A i : PlaceAt(<<>>, i) = NoBlock
  BY DEF Linked, LinkedOnce, PlaceAt, SortedBy
<1>11. Stock(<<>>, f)
  <2>1. Links(<<>>, head, next)
    BY <1>9, <1>10 DEF Links
  <2>2. Placed(<<>>, f, hand)
    BY <1>2, <1>5, <1>9, <1>10 DEF Placed
  <2> QED BY <1>8, <1>9, <1>10, <2>1, <2>2 DEF Stock
<1>12. Hands
  BY <1>9 DEF Hands, Copying
<1>13. TypeOK
  <2>1. {head, tail, free} \subseteq Block \cup {NoBlock}
    BY <1>1, <1>2, <1>3, <1>9
  <2>2. entry \in 0 .. Cardinality(Block)
    BY <1>2, <1>9 DEF n
  <2> QED BY <1>7, <1>9, <1>10, <2>1, <2>2 DEF Init, TypeOK
<1>14. ASSUME NEW c \in {"send", "recv"}, NEW k PROVE Side(MqFlag, ThreadPrio, <<>>, pc, err, c, k)
  <2>1. Listed(MqFlag, ThreadPrio, <<>>, pc, err, c)
    BY <1>10 DEF Listed
  <2>2. Awoken(<<>>, pc, err, c) = {}
    BY <1>9 DEF Awoken
  <2> QED BY <2>1, <2>2, FS_EmptySet DEF Side
<1> QED BY <1>9, <1>11, <1>12, <1>13, <1>14 DEF MqInv

(* Every step keeps the invariant and is a step of BoundedQueue, or none. *)
LEMMA Step ==
    ASSUME MqInv, [Next]_vars
    PROVE  MqInv' /\ QueueStep
<1>1. Senders \subseteq Thread /\ Receivers \subseteq Thread /\ Resetters \subseteq Thread
      /\ Owners \subseteq Thread
  BY MsgQueueAssumption
<1>2. PICK q, f : Stock(q, f) /\ Side(MqFlag, ThreadPrio, sendq, pc, err, "send", Len(f))
  BY DEF MqInv
<1>3. ASSUME NEW t \in Thread, NEW m \in Msg, SendWait(t, m) PROVE MqInv' /\ QueueStep
  <2>1. ~ Linked(t, sendq)
    BY <1>2, <1>3, SendqFacts DEF SendWait, Calls
  <2>2. limited' \subseteq Thread
    BY <1>3, Facts DEF SendWait
  <2>3. /\ free = NoBlock /\ sendq' = Join(sendq, t) /\ pc[t] \in {"user", "send"}
        /\ pc' = [pc EXCEPT ![t] = "send"] /\ err' = [err EXCEPT ![t] = "ok"]
        /\ msg' = [msg EXCEPT ![t] = m]
        /\ UNCHANGED <<lists, recvq, hand, got, alive>>
    BY <1>3 DEF SendWait, Goto, Calls
  <2> QED BY <2>1, <2>2, <2>3, SendWaitStep
<1>4. ASSUME NEW t \in Thread, SendAgain(t) PROVE MqInv' /\ QueueStep
  <2>1. /\ ~ Linked(t, sendq) /\ pc[t] = "send" /\ err[t] = "ok" /\ free = NoBlock
        /\ UNCHANGED <<lists, recvq, err, got, alive>>
    BY <1>4 DEF SendAgain, Woken
  <2>2. /\ msg[t] \in Msg
        /\ pc = [pc EXCEPT ![t] = "send"] /\ err = [err EXCEPT ![t] = "ok"]
        /\ msg = [msg EXCEPT ![t] = msg[t]] /\ limited \subseteq Thread
    BY <2>1, Facts DEF MqInv, Hands
  <2>3. CASE sendq' = Join(sendq, t) /\ UNCHANGED <<pc, limited, msg, hand>>
    <3>1. /\ pc' = [pc EXCEPT ![t] = "send"] /\ err' = [err EXCEPT ![t] = "ok"]
          /\ msg' = [msg EXCEPT ![t] = msg[t]] /\ limited' \subseteq Thread
          /\ UNCHANGED <<lists, recvq, hand, got, alive>>
      BY <2>1, <2>2, <2>3
    <3> QED BY <2>1, <2>2, <2>3, <3>1, SendWaitStep
  <2>4. CASE Return(t) /\ UNCHANGED sendq
    BY <2>1, <2>4, ReturnStep
  <2> QED BY <1>4, <2>3, <2>4 DEF SendAgain
<1>5. ASSUME NEW t \in Thread, ReceiveWait(t) PROVE MqInv' /\ QueueStep
  <2>1. ~ Linked(t, recvq)
    BY <1>5, Facts DEF ReceiveWait, Calls
  <2>2. limited' \subseteq Thread
    BY <1>5, Facts DEF ReceiveWait
  <2>3. /\ entry = 0 /\ recvq' = Join(recvq, t) /\ pc[t] \in {"user", "recv"}
        /\ pc' = [pc EXCEPT ![t] = "recv"] /\ err' = [err EXCEPT ![t] = "ok"]
        /\ UNCHANGED <<lists, sendq, hand, msg, got, alive>>
    BY <1>5 DEF ReceiveWait, Goto, Calls
  <2> QED BY <2>1, <2>2, <2>3, ReceiveWaitStep
<1>6. ASSUME NEW t \in Thread, ReceiveAgain(t) PROVE MqInv' /\ QueueStep
  <2>1. /\ ~ Linked(t, recvq) /\ pc[t] = "recv" /\ err[t] = "ok" /\ entry = 0
        /\ UNCHANGED <<lists, sendq, err, got, alive>>
    BY <1>6 DEF ReceiveAgain, Woken
  <2>2. /\ pc = [pc EXCEPT ![t] = "recv"] /\ err = [err EXCEPT ![t] = "ok"]
        /\ limited \subseteq Thread
    BY <2>1, Facts
  <2>3. CASE recvq' = Join(recvq, t) /\ UNCHANGED <<pc, limited, msg, hand>>
    <3>1. /\ pc' = [pc EXCEPT ![t] = "recv"] /\ err' = [err EXCEPT ![t] = "ok"]
          /\ limited' \subseteq Thread
          /\ UNCHANGED <<lists, sendq, hand, msg, got, alive>>
      BY <2>1, <2>2, <2>3
    <3> QED BY <2>1, <2>3, <3>1, ReceiveWaitStep
  <2>4. CASE Return(t) /\ UNCHANGED recvq
    BY <2>1, <2>4, ReturnStep
  <2> QED BY <1>6, <2>3, <2>4 DEF ReceiveAgain
<1>7. ASSUME NEW t \in Thread, Fail(t) PROVE MqInv' /\ QueueStep
  <2>1. /\ Return(t) /\ pc[t] \in {"send", "recv"} /\ err[t] # "ok"
        /\ UNCHANGED <<lists, recvq, sendq, err, got, alive>>
    BY <1>7 DEF Fail, waits
  <2> QED BY <2>1, ReturnStep
<1>8. ASSUME NEW t \in Senders, Sending(t) PROVE MqInv' /\ QueueStep
  BY <1>1, <1>3, <1>4, <1>8, SendTakeStep, SendWokenStep, SendCopyStep, SendLinkStep,
     UrgentLinkStep DEF Sending
<1>9. ASSUME NEW t \in Receivers, Receiving(t) PROVE MqInv' /\ QueueStep
  BY <1>1, <1>5, <1>6, <1>9, ReceiveTakeStep, ReceiveWokenStep, ReceiveCopyStep,
     ReceiveFreeStep DEF Receiving
<1>10. ASSUME NEW t \in Owners, DetachBegin(t) \/ Detaching(t) PROVE MqInv' /\ QueueStep
  BY <1>1, <1>10, DetachStep, DetachWakeStep DEF Detaching
<1>11. ASSUME NEW t \in Resetters, Reset(t) PROVE MqInv' /\ QueueStep
  BY <1>1, <1>11, ResetStep
<1>12. CASE UNCHANGED vars
  <2>1. UNCHANGED <<lists, recvq, sendq, pc, limited, err, hand, msg, got, alive>>
    BY <1>12 DEF vars, waits
  <2>2. /\ \A x \in Thread : pc'[x] = pc[x] \/ (pc[x] \notin Copying /\ pc'[x] \notin Copying)
        /\ \A x \in Thread : pc'[x] \in {"send", "fill", "ufill"} => msg'[x] \in Msg
    BY <2>1 DEF MqInv, Hands
  <2>3. /\ next' \in [Block -> Block \cup {NoBlock}] /\ data' \in [Block -> Content]
        /\ hand' \in Holding /\ got' \in [Thread -> Content] /\ entry' = entry
        /\ Hands' /\ Stock(q, f)' /\ QueueStep
    BY <1>2, <2>1, <2>2, Still
  <2>4. /\ Side(MqFlag, ThreadPrio, recvq', pc', err', "recv", entry')
        /\ Side(MqFlag, ThreadPrio, sendq', pc', err', "send", Len(f))
    BY <1>2, <2>1, <2>3, Facts
  <2>5. MqInv'
    BY <2>1, <2>3, <2>4, Facts, Together
  <2> QED BY <2>3, <2>5
<1> QED BY <1>7, <1>8, <1>9, <1>10, <1>11, <1>12, TimerFireStep DEF Next

(* The invariant holds in every reachable state. *)
LEMMA AlwaysInv == Spec => []MqInv
<1>1. MqInv /\ [Next]_vars => MqInv'
  BY Step
<1> QED BY <1>1, InitInv, PTL DEF Spec

-----------------------------------------------------------------------------
(* Theorems *)

(* How often something occurs in a list that links nothing twice. *)
LEMMA Occurrences ==
    ASSUME NEW S, NEW q \in Seq(S), LinkedOnce(q), NEW b
    PROVE  Cardinality({i \in 1 .. Len(q) : q[i] = b}) = IF Linked(b, q) THEN 1 ELSE 0
<1>1. CASE Linked(b, q)
  <2>1. PICK i \in 1 .. Len(q) : q[i] = b
    BY <1>1 DEF Linked
  <2>2. {j \in 1 .. Len(q) : q[j] = b} = {i}
    BY <2>1 DEF LinkedOnce
  <2> QED BY <1>1, <2>2, FS_Singleton
<1>2. CASE ~ Linked(b, q)
  <2>1. {j \in 1 .. Len(q) : q[j] = b} = {}
    BY <1>2 DEF Linked
  <2> QED BY <1>2, <2>1, FS_EmptySet
<1> QED BY <1>1, <1>2

(* Every block is once in the queue or in the free list or in the hands of *)
(* one thread, with any number of threads that copy with interrupts        *)
(* enabled and resets in between; and the state keeps its types.           *)
THEOREM BlocksCorrect == Spec => []BlocksExact
<1>1. MqInv => BlocksExact
  <2> SUFFICES ASSUME MqInv, NEW b \in Block
               PROVE  Cardinality({i \in 1 .. Len(Chain(head)) : Chain(head)[i] = b})
                        + Cardinality({i \in 1 .. Len(Chain(free)) : Chain(free)[i] = b})
                        + Cardinality(InHand(b)) = 1
    BY DEF MqInv, BlocksExact
  <2>1. PICK q, f : Stock(q, f)
    BY DEF MqInv
  <2>2. /\ Chain(head) = q /\ Chain(free) = f /\ Placed(q, f, hand)
        /\ q \in Seq(Block) /\ LinkedOnce(q) /\ f \in Seq(Block) /\ LinkedOnce(f)
    BY <2>1, StockFacts DEF Stock
  <2>3. /\ Cardinality({i \in 1 .. Len(q) : q[i] = b}) = IF Linked(b, q) THEN 1 ELSE 0
        /\ Cardinality({i \in 1 .. Len(f) : f[i] = b}) = IF Linked(b, f) THEN 1 ELSE 0
    BY <2>2, Occurrences
  <2>4. Cardinality(InHand(b)) = IF Linked(b, q) \/ Linked(b, f) THEN 0 ELSE 1
    <3>1. CASE Linked(b, q) \/ Linked(b, f)
      <4>1. InHand(b) = {}
        BY <2>2, <3>1 DEF Placed, InHand
      <4> QED BY <3>1, <4>1, FS_EmptySet
    <3>2. CASE ~ (Linked(b, q) \/ Linked(b, f))
      <4>1. PICK t \in Thread : hand[t] = b
        BY <2>2, <3>2 DEF Placed
      <4>2. InHand(b) = {t}
        BY <2>2, <4>1 DEF Placed, InHand
      <4> QED BY <3>2, <4>2, FS_Singleton
    <3> QED BY <3>1, <3>2
  <2>5. ~ (Linked(b, q) /\ Linked(b, f))
    BY <2>2 DEF Placed
  <2> QED BY <2>2, <2>3, <2>4, <2>5
<1> QED BY <1>1, AlwaysInv, PTL

(* With any number of senders and receivers of any priorities, each queued *)
(* message has a woken receiver on its way to it while others wait, and    *)
(* each free block a woken sender.                                         *)
THEOREM NobodyForgotten == Spec => []NobodyWaitsInVain
<1>1. MqInv => NobodyWaitsInVain
  <2> SUFFICES ASSUME MqInv PROVE NobodyWaitsInVain
    OBVIOUS
  <2>1. PICK q, f : Stock(q, f) /\ Side(MqFlag, ThreadPrio, sendq, pc, err, "send", Len(f))
    BY DEF MqInv
  <2>2. Awoken(recvq, pc, err, "recv") = {t \in Thread : Woken(t, "recv")}
    BY <2>1, SendqFacts DEF Awoken, Woken
  <2>3. Awoken(sendq, pc, err, "send") = {t \in Thread : Woken(t, "send")}
    BY Facts DEF Awoken, Woken
  <2>4. Chain(free) = f
    BY <2>1, StockFacts
  <2> QED BY <2>1, <2>2, <2>3, <2>4, Facts DEF Side, NobodyWaitsInVain
<1> QED BY <1>1, AlwaysInv, PTL

(* The message queue implements BoundedQueue, for any number of blocks:    *)
(* what is linked is received once, in the order in which it was linked,   *)
(* urgent messages first, and is not overwritten before it has been copied *)
(* out.                                                                    *)
THEOREM QueuesMessages == Spec => ImplementsQueue
<1>1. Init => Queue!Init
  <2> SUFFICES ASSUME Init PROVE Queue!Init
    OBVIOUS
  <2>1. MqInv
    BY InitInv
  <2>2. PICK q, f : Stock(q, f)
    BY <2>1 DEF MqInv
  <2>3. /\ head = NoBlock /\ got = [t \in Thread |-> NoMsg] /\ pc = [t \in Thread |-> "user"]
    BY DEF Init
  <2>4. queue = <<>>
    <3>1. q = <<>> /\ Chain(head) = q
      BY <2>1, <2>2, <2>3, StockFacts
    <3> QED BY <3>1 DEF queue
  <2>5. gotten = [t \in Thread |-> NoMsg]
    BY <2>3 DEF gotten
  <2> QED BY <2>4, <2>5 DEF Queue!Init, queue, gotten
<1>2. MqInv /\ [Next]_vars
         => [Queue!Next]_<<LET q == Chain(head) IN [i \in 1 .. Len(q) |-> data[q[i]]],
                           [t \in Thread |-> IF pc[t] = "drain" THEN data[hand[t]] ELSE got[t]]>>
  BY Step DEF QueueStep, queue, gotten
<1> QED BY <1>1, <1>2, AlwaysInv, PTL DEF Spec, ImplementsQueue, Queue!Spec

=============================================================================
