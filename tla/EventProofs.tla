---------------------------- MODULE EventProofs ----------------------------
(***************************************************************************)
(* Theorems about Event: for any threads, bits and requests, the wait list *)
(* is exact, a send robs nobody of bits that are left, and the event       *)
(* implements EventFlags.                                                  *)
(***************************************************************************)
EXTENDS Event, KernelProofs

-----------------------------------------------------------------------------
(* The walk of rt_event_send *)

Found == [left : SUBSET Bit, stay : Seq(Thread), bits : [Thread -> SUBSET Bit]]

Start(S) == [left |-> set \cup S, stay |-> <<>>, bits |-> bits]

(* w[i] is what is found out about the first i waiters. *)
Walked(w, m, S) ==
    /\ w \in [0 .. m -> Found]
    /\ w[0] = Start(S)
    /\ \A i \in 1 .. m : w[i] = Examine(w[i - 1], waitq[i])

(* Walk is written with a recursive function: this is its equation. *)
Follows(g, S) ==
    g = [i \in 0 .. Len(waitq) |-> IF i = 0 THEN Start(S) ELSE Examine(g[i - 1], waitq[i])]

(* The waiter t has enough in what is left: it is woken, and what it gets  *)
(* is taken away if it clears.                                             *)
Enough(t, left) == Met(bits[t], option[t].all, left)

(* What it finds out about one waiter. *)
LEMMA ExamineFacts ==
    ASSUME TypeOK, NEW f \in Found, NEW t \in Thread
    PROVE  /\ Examine(f, t) \in Found
           /\ ~ Enough(t, f.left) =>
                 /\ Examine(f, t).left = f.left
                 /\ Examine(f, t).stay = Append(f.stay, t)
                 /\ Examine(f, t).bits = f.bits
           /\ Enough(t, f.left) =>
                 /\ Examine(f, t).left = IF option[t].clear THEN f.left \ bits[t] ELSE f.left
                 /\ Examine(f, t).stay = f.stay
                 /\ Examine(f, t).bits = [f.bits EXCEPT ![t] = bits[t] \cap f.left]
<1>1. /\ f.left \subseteq Bit /\ f.stay \in Seq(Thread) /\ f.bits \in [Thread -> SUBSET Bit]
      /\ bits[t] \subseteq Bit
  BY DEF Found, TypeOK
<1>2. f = [left |-> f.left, stay |-> f.stay, bits |-> f.bits]
  BY DEF Found
<1>3. CASE ~ Enough(t, f.left)
  <2>1. Examine(f, t) = [left |-> f.left, stay |-> Append(f.stay, t), bits |-> f.bits]
    BY <1>2, <1>3 DEF Examine, Enough
  <2>2. Append(f.stay, t) \in Seq(Thread)
    BY <1>1
  <2> QED BY <1>1, <1>3, <2>1, <2>2 DEF Found
<1>4. CASE Enough(t, f.left)
  <2> DEFINE given == bits[t] \cap f.left
             left1 == IF option[t].clear THEN f.left \ given ELSE f.left
             bits1 == [f.bits EXCEPT ![t] = given]
  <2>1. Examine(f, t) = [left |-> left1, stay |-> f.stay, bits |-> bits1]
    BY <1>2, <1>4 DEF Examine, Enough
  <2>2. left1 \subseteq Bit /\ bits1 \in [Thread -> SUBSET Bit]
    BY <1>1
  <2>3. left1 = IF option[t].clear THEN f.left \ bits[t] ELSE f.left
    OBVIOUS
  <2> HIDE DEF left1, bits1
  <2>4. Examine(f, t) \in Found
    BY <1>1, <2>1, <2>2 DEF Found
  <2> QED BY <1>4, <2>1, <2>3, <2>4 DEF bits1
<1> QED BY <1>3, <1>4

(* The walk can be made to any waiter. *)
LEMMA WalkExists ==
    ASSUME TypeOK, NEW S \in SUBSET Bit
    PROVE  \E w : Walked(w, Len(waitq), S)
<1> DEFINE n == Len(waitq)
           I == {m \in 0 .. n : ~ \E w : Walked(w, m, S)}
<1>1. n \in Nat /\ \A i \in 1 .. n : waitq[i] \in Thread
  BY ElementOfSeq DEF TypeOK
<1> HIDE DEF n
<1>2. Start(S) \in Found
  <2>1. /\ set \cup S \in SUBSET Bit /\ <<>> \in Seq(Thread)
        /\ bits \in [Thread -> SUBSET Bit]
    BY EmptySeq DEF TypeOK
  <2> QED BY <2>1 DEF Start, Found
<1>3. I = {}
  <2> SUFFICES ASSUME I # {} PROVE FALSE
    OBVIOUS
  <2>1. PICK m \in I : \A j \in I : m <= j
    <3>1. I \in SUBSET Nat
      BY <1>1
    <3> HIDE DEF I
    <3> QED BY <3>1, MinOfIndices
  <2>2. m \in 0 .. n /\ ~ \E w : Walked(w, m, S)
    OBVIOUS
  <2>3. CASE m = 0
    <3> DEFINE w == [j \in 0 .. 0 |-> Start(S)]
    <3>1. Walked(w, 0, S)
      BY <1>2 DEF Walked
    <3> QED BY <2>2, <2>3, <3>1
  <2>4. CASE m # 0
    <3>1. m \in 1 .. n /\ m - 1 \in 0 .. n /\ m - 1 \notin I
      BY <1>1, <2>1, <2>2, <2>4
    <3>2. PICK v : Walked(v, m - 1, S)
      BY <3>1
    <3> DEFINE w == [j \in 0 .. m |-> IF j = m THEN Examine(v[m - 1], waitq[m]) ELSE v[j]]
    <3>3. v \in [0 .. m - 1 -> Found] /\ waitq[m] \in Thread
      BY <1>1, <3>1, <3>2 DEF Walked
    <3>4. Examine(v[m - 1], waitq[m]) \in Found
      <4>1. v[m - 1] \in Found
        BY <1>1, <3>1, <3>3
      <4> QED BY <3>3, <4>1, ExamineFacts
    <3>5. w \in [0 .. m -> Found]
      BY <3>1, <3>3, <3>4
    <3>6. w[0] = Start(S)
      BY <3>1, <3>2 DEF Walked
    <3>7. ASSUME NEW i \in 1 .. m PROVE w[i] = Examine(w[i - 1], waitq[i])
      <4>1. w[i - 1] = v[i - 1]
        BY <3>1
      <4>2. CASE i = m
        BY <4>1, <4>2
      <4>3. CASE i # m
        <5>1. i \in 1 .. m - 1 /\ w[i] = v[i]
          BY <3>1, <4>3
        <5> QED BY <3>2, <4>1, <5>1 DEF Walked
      <4> QED BY <4>2, <4>3
    <3> HIDE DEF w
    <3>8. Walked(w, m, S)
      BY <3>5, <3>6, <3>7 DEF Walked
    <3> QED BY <2>2, <3>8
  <2> QED BY <2>3, <2>4
<1>4. n \in 0 .. n
  BY <1>1
<1> QED BY <1>3, <1>4 DEF n

(* Walk finds what is found step by step. *)
LEMMA WalkIs ==
    ASSUME TypeOK, NEW S \in SUBSET Bit
    PROVE  \E w : Walked(w, Len(waitq), S) /\ Walk(S, waitq) = w[Len(waitq)]
<1> DEFINE n == Len(waitq)
           g == CHOOSE f : Follows(f, S)
<1>1. PICK w : Walked(w, n, S)
  BY WalkExists
<1>2. n \in Nat
  BY DEF TypeOK
<1>3. Walk(S, waitq) = g[n]
  BY DEF Walk, Follows, Start
<1>4. Follows(w, S)
  <2> DEFINE h == [i \in 0 .. n |-> IF i = 0 THEN Start(S) ELSE Examine(w[i - 1], waitq[i])]
  <2>1. \A i \in 0 .. n : w[i] = h[i]
    <3> TAKE i \in 0 .. n
    <3>1. CASE i = 0
      BY <1>1, <3>1 DEF Walked
    <3>2. CASE i # 0
      <4>1. i \in 1 .. n
        BY <1>2, <3>2
      <4> QED BY <1>1, <4>1 DEF Walked
    <3> QED BY <3>1, <3>2
  <2>2. w = h
    <3>1. w \in [0 .. n -> Found]
      BY <1>1 DEF Walked
    <3> HIDE DEF n
    <3> QED BY <2>1, <3>1
  <2> QED BY <2>2 DEF Follows
<1>5. Follows(g, S)
  BY <1>4, Zenon
<1> DEFINE I == {i \in 0 .. n : g[i] # w[i]}
<1> HIDE DEF g
<1>6. I = {}
  <2> SUFFICES ASSUME I # {} PROVE FALSE
    OBVIOUS
  <2>1. PICK m \in I : \A j \in I : m <= j
    <3>1. I \in SUBSET Nat
      BY <1>2
    <3> HIDE DEF I
    <3> QED BY <3>1, MinOfIndices
  <2>2. m \in 0 .. n /\ g[m] # w[m]
    OBVIOUS
  <2>3. m # 0
    BY <1>1, <1>2, <1>5, <2>2 DEF Follows, Walked
  <2>4. m \in 1 .. n /\ m - 1 \in 0 .. n /\ m - 1 \notin I
    BY <1>2, <2>1, <2>2, <2>3
  <2>5. g[m - 1] = w[m - 1]
    BY <2>4
  <2>6. g[m] = Examine(g[m - 1], waitq[m])
    BY <1>5, <2>2, <2>3 DEF Follows
  <2> QED BY <1>1, <2>2, <2>4, <2>5, <2>6 DEF Walked
<1>7. g[n] = w[n]
  BY <1>2, <1>6
<1> QED BY <1>1, <1>3, <1>7

(* The waiter at i is woken when it is looked at. *)
Served(w, i) == Enough(waitq[i], w[i - 1].left)

(* What is known when i waiters have been looked at: who stays, what those *)
(* that are woken get, and what is left.                                   *)
Known(w, i, S) ==
    /\ LinkedOnce(w[i].stay)
    /\ \A t : Linked(t, w[i].stay) <=> \E j \in 1 .. i : waitq[j] = t /\ ~ Served(w, j)
    /\ EvFlag = "PRIO" => SortedBy(w[i].stay, ThreadPrio)
    /\ \A j \in 1 .. i : Served(w, j) => w[i].bits[waitq[j]] = bits[waitq[j]] \cap w[j - 1].left
    /\ \A t \in Thread :
          (\A j \in 1 .. i : waitq[j] # t \/ ~ Served(w, j)) => w[i].bits[t] = bits[t]
    /\ \A j \in 0 .. i : w[i].left \subseteq w[j].left
    /\ \A b : b \in w[i].left <=>
          /\ b \in set \cup S
          /\ \A j \in 1 .. i :
                ~ (Served(w, j) /\ option[waitq[j]].clear /\ b \in bits[waitq[j]] \cap w[j - 1].left)

(* Nobody has been looked at. *)
LEMMA KnownStart ==
    ASSUME WaitListExact, NEW S \in SUBSET Bit, NEW w, Walked(w, Len(waitq), S)
    PROVE  Known(w, 0, S)
<1>1. /\ w[0].left = set \cup S /\ w[0].stay = <<>> /\ w[0].bits = bits
  BY DEF Walked, Start
<1>2. /\ LinkedOnce(<<>>) /\ SortedBy(<<>>, ThreadPrio) /\ \A t : ~ Linked(t, <<>>)
  BY DEF LinkedOnce, SortedBy, Linked
<1>3. \A j \in 1 .. 0 : FALSE
  OBVIOUS
<1>4. \A j \in 0 .. 0 : j = 0
  OBVIOUS
<1> QED BY <1>1, <1>2, <1>3, <1>4 DEF Known

(* The next waiter is looked at. *)
LEMMA KnownStep ==
    ASSUME WaitListExact, NEW S \in SUBSET Bit, NEW w, Walked(w, Len(waitq), S),
           NEW i \in 1 .. Len(waitq), Known(w, i - 1, S)
    PROVE  Known(w, i, S)
<1> DEFINE t == waitq[i]
           f == w[i - 1]
           g == w[i]
<1>1. /\ TypeOK /\ waitq \in Seq(Thread) /\ LinkedOnce(waitq) /\ Len(waitq) \in Nat
      /\ t \in Thread /\ i - 1 \in 0 .. Len(waitq) /\ i \in Nat
      /\ EvFlag = "PRIO" => SortedBy(waitq, ThreadPrio)
      /\ \A j \in 1 .. Len(waitq) : waitq[j] \in Thread
  BY ElementOfSeq DEF WaitListExact, TypeOK, InPrioOrder, SortedBy
<1>2. f \in Found /\ g = Examine(f, t)
  BY <1>1 DEF Walked
<1>3. /\ f.stay \in Seq(Thread) /\ f.bits \in [Thread -> SUBSET Bit] /\ f.left \subseteq Bit
  BY <1>2 DEF Found
<1>4. \A j \in 1 .. i : j = i \/ j \in 1 .. i - 1
  BY <1>1
<1>5. \A j \in 1 .. i - 1 : waitq[j] # t /\ j \in 1 .. i /\ j \in 1 .. Len(waitq) /\ j < i
  BY <1>1 DEF LinkedOnce
<1>6. ~ Linked(t, f.stay)
  BY <1>5 DEF Known
<1>7. /\ ~ Served(w, i) => /\ g.left = f.left
                           /\ g.stay = Append(f.stay, t)
                           /\ g.bits = f.bits
      /\ Served(w, i) =>
            /\ g.left = IF option[t].clear THEN f.left \ bits[t] ELSE f.left
            /\ g.stay = f.stay
            /\ g.bits = [f.bits EXCEPT ![t] = bits[t] \cap f.left]
  <2>1. Served(w, i) <=> Enough(t, f.left)
    BY DEF Served
  <2> HIDE DEF f, g, t
  <2> QED BY <1>1, <1>2, <2>1, ExamineFacts
<1>8. i - 1 \in 0 .. i - 1 /\ \A j \in 0 .. i : j = i \/ j \in 0 .. i - 1
  BY <1>1
<1>9. \A j \in 0 .. i : g.left \subseteq w[j].left
  <2>1. g.left \subseteq f.left
    BY <1>7
  <2> QED BY <1>8, <2>1 DEF Known
<1>10. CASE ~ Served(w, i)
  <2>1. g.left = f.left /\ g.stay = Append(f.stay, t) /\ g.bits = f.bits
    BY <1>7, <1>10
  <2>2. /\ LinkedOnce(g.stay)
        /\ \A x : Linked(x, g.stay) <=> x = t \/ Linked(x, f.stay)
    BY <1>1, <1>3, <1>6, <2>1, AppendFacts DEF Known
  <2>3. ASSUME EvFlag = "PRIO" PROVE SortedBy(g.stay, ThreadPrio)
    <3>1. ASSUME NEW j \in 1 .. Len(f.stay)
          PROVE  ThreadPrio[f.stay[j]] <= ThreadPrio[t]
      <4>1. Linked(f.stay[j], f.stay)
        BY DEF Linked
      <4>2. PICK l \in 1 .. i - 1 : waitq[l] = f.stay[j]
        BY <4>1 DEF Known
      <4> QED BY <1>1, <1>5, <2>3, <4>2 DEF SortedBy
    <3>2. /\ Len(g.stay) = Len(f.stay) + 1 /\ Len(f.stay) \in Nat
          /\ g.stay[Len(f.stay) + 1] = t
          /\ \A j \in 1 .. Len(f.stay) : g.stay[j] = f.stay[j]
      BY <1>1, <1>3, <2>1, AppendProperties
    <3>3. SortedBy(f.stay, ThreadPrio)
      BY <2>3 DEF Known
    <3>4. ASSUME NEW j \in 1 .. Len(g.stay), NEW l \in 1 .. Len(g.stay), j < l
          PROVE  ThreadPrio[g.stay[j]] <= ThreadPrio[g.stay[l]]
      <4>1. l \in 1 .. Len(f.stay) \/ l = Len(f.stay) + 1
        BY <3>2
      <4>2. j \in 1 .. Len(f.stay) /\ g.stay[j] = f.stay[j]
        BY <3>2, <3>4
      <4>3. CASE l \in 1 .. Len(f.stay)
        BY <3>2, <3>3, <3>4, <4>2, <4>3 DEF SortedBy
      <4>4. CASE l = Len(f.stay) + 1
        BY <3>1, <3>2, <4>2, <4>4
      <4> QED BY <4>1, <4>3, <4>4
    <3> QED BY <3>4 DEF SortedBy
  <2>4. \A x : Linked(x, g.stay) <=> \E j \in 1 .. i : waitq[j] = x /\ ~ Served(w, j)
    BY <1>1, <1>4, <1>5, <1>10, <2>2 DEF Known
  <2>5. \A j \in 1 .. i : Served(w, j) => g.bits[waitq[j]] = bits[waitq[j]] \cap w[j - 1].left
    BY <1>4, <1>10, <2>1 DEF Known
  <2>6. \A x \in Thread :
           (\A j \in 1 .. i : waitq[j] # x \/ ~ Served(w, j)) => g.bits[x] = bits[x]
    BY <1>5, <2>1 DEF Known
  <2>7. \A b : b \in g.left <=>
           /\ b \in set \cup S
           /\ \A j \in 1 .. i :
                 ~ (Served(w, j) /\ option[waitq[j]].clear /\ b \in bits[waitq[j]] \cap w[j - 1].left)
    BY <1>4, <1>5, <1>10, <2>1 DEF Known
  <2> QED BY <1>9, <2>2, <2>3, <2>4, <2>5, <2>6, <2>7 DEF Known
<1>11. CASE Served(w, i)
  <2>1. /\ g.left = IF option[t].clear THEN f.left \ bits[t] ELSE f.left
        /\ g.stay = f.stay /\ g.bits = [f.bits EXCEPT ![t] = bits[t] \cap f.left]
    BY <1>7, <1>11
  <2>2. LinkedOnce(g.stay) /\ (EvFlag = "PRIO" => SortedBy(g.stay, ThreadPrio))
    BY <2>1 DEF Known
  <2>3. \A x : Linked(x, g.stay) <=> \E j \in 1 .. i : waitq[j] = x /\ ~ Served(w, j)
    BY <1>4, <1>5, <1>11, <2>1 DEF Known
  <2>4. g.bits[t] = bits[t] \cap f.left /\ \A x \in Thread \ {t} : g.bits[x] = f.bits[x]
    BY <1>1, <1>3, <2>1
  <2>5. \A j \in 1 .. i : Served(w, j) => g.bits[waitq[j]] = bits[waitq[j]] \cap w[j - 1].left
    BY <1>1, <1>4, <1>5, <2>4 DEF Known
  <2>6. \A x \in Thread :
           (\A j \in 1 .. i : waitq[j] # x \/ ~ Served(w, j)) => g.bits[x] = bits[x]
    <3>1. i \in 1 .. i
      BY <1>1
    <3> QED BY <1>5, <1>11, <2>4, <3>1 DEF Known
  <2>7. ASSUME NEW b
        PROVE  b \in g.left <=>
           /\ b \in set \cup S
           /\ \A j \in 1 .. i :
                 ~ (Served(w, j) /\ option[waitq[j]].clear /\ b \in bits[waitq[j]] \cap w[j - 1].left)
    <3>1. b \in g.left <=> b \in f.left /\ ~ (option[t].clear /\ b \in bits[t] \cap f.left)
      BY <2>1
    <3>2. i \in 1 .. i
      BY <1>1
    <3> QED BY <1>4, <1>5, <1>11, <3>1, <3>2 DEF Known
  <2> QED BY <1>9, <2>2, <2>3, <2>5, <2>6, <2>7 DEF Known
<1> QED BY <1>10, <1>11

(* So it is for every waiter, up to the last. *)
LEMMA WalkKnows ==
    ASSUME WaitListExact, NEW S \in SUBSET Bit, NEW w, Walked(w, Len(waitq), S)
    PROVE  \A i \in 0 .. Len(waitq) : Known(w, i, S)
<1> DEFINE I == {i \in 0 .. Len(waitq) : ~ Known(w, i, S)}
<1>1. Len(waitq) \in Nat
  BY DEF WaitListExact, TypeOK
<1>2. I = {}
  <2> SUFFICES ASSUME I # {} PROVE FALSE
    OBVIOUS
  <2>1. PICK m \in I : \A j \in I : m <= j
    <3>1. I \in SUBSET Nat
      BY <1>1
    <3> HIDE DEF I
    <3> QED BY <3>1, MinOfIndices
  <2>2. m \in 0 .. Len(waitq) /\ ~ Known(w, m, S)
    OBVIOUS
  <2>3. m # 0
    BY <2>2, KnownStart
  <2>4. m \in 1 .. Len(waitq) /\ m - 1 \in 0 .. Len(waitq) /\ m - 1 \notin I
    BY <1>1, <2>1, <2>2, <2>3
  <2> QED BY <2>2, <2>4, KnownStep
<1> QED BY <1>2

(* What a send does: the walk to the last waiter. *)
LEMMA SendFacts ==
    ASSUME WaitListExact, NEW S \in SUBSET Bit, Send(S)
    PROVE  \E w : LET n == Len(waitq) IN
              /\ Walked(w, n, S)
              /\ Known(w, n, S) /\ \A i \in 0 .. n : Known(w, i, S)
              /\ set' = w[n].left /\ waitq' = w[n].stay /\ bits' = w[n].bits
              /\ w[n] \in Found /\ n \in Nat
<1> DEFINE n == Len(waitq)
<1>1. TypeOK /\ n \in Nat
  BY DEF WaitListExact, TypeOK
<1>2. PICK w : Walked(w, n, S) /\ Walk(S, waitq) = w[n]
  BY <1>1, WalkIs
<1>3. \A i \in 0 .. n : Known(w, i, S)
  BY <1>2, WalkKnows
<1>4. set' = w[n].left /\ waitq' = w[n].stay /\ bits' = w[n].bits
  BY <1>2 DEF Send
<1>5. w[n] \in Found
  BY <1>1, <1>2 DEF Walked
<1>6. Known(w, n, S)
  BY <1>1, <1>3
<1> QED BY <1>1, <1>2, <1>3, <1>4, <1>5, <1>6

-----------------------------------------------------------------------------
(* The wait list *)

(* WaitListExact is inductive as it stands.  Its parts, the order stated   *)
(* with the predicate of the lemmas about lists.                           *)
LEMMA Parts ==
    WaitListExact <=>
        /\ TypeOK
        /\ LinkedOnce(waitq)
        /\ \A t : Linked(t, waitq) => pc[t] = "wait" /\ err[t] = "ok"
        /\ EvFlag = "PRIO" => SortedBy(waitq, ThreadPrio)
<1>1. InPrioOrder(waitq, ThreadPrio) <=> SortedBy(waitq, ThreadPrio)
  BY DEF InPrioOrder, SortedBy
<1> QED BY <1>1 DEF WaitListExact, Linked

(* The same, of the next state. *)
LEMMA PartsNext ==
    ASSUME TypeOK', LinkedOnce(waitq'),
           \A t : Linked(t, waitq') => pc'[t] = "wait" /\ err'[t] = "ok",
           EvFlag = "PRIO" => SortedBy(waitq', ThreadPrio)
    PROVE  WaitListExact'
<1>1. InPrioOrder(waitq', ThreadPrio) <=> SortedBy(waitq', ThreadPrio)
  BY DEF InPrioOrder, SortedBy
<1> QED BY <1>1 DEF WaitListExact, Linked

(* What a request is made of. *)
LEMMA RequestFacts ==
    ASSUME NEW t \in Thread, NEW r \in Wants[t]
    PROVE  /\ r \in Request
           /\ r.want \subseteq Bit /\ r.want # {}
           /\ [all |-> r.all, clear |-> r.clear] \in Option
<1>1. r \in Request
  BY EventAssumption
<1>2. r.want \in (SUBSET Bit) \ {{}}
  BY <1>1 DEF Request
<1>3. r.all \in BOOLEAN
  BY <1>1, Zenon DEF Request
<1>4. r.clear \in BOOLEAN
  BY <1>1, Zenon DEF Request
<1>5. [all |-> r.all, clear |-> r.clear] \in Option
  BY <1>3, <1>4, Zenon DEF Option
<1> QED BY <1>1, <1>2, <1>5

(* A receive that need not wait. *)
LEMMA ReceiveStep ==
    ASSUME WaitListExact, NEW t \in Thread, NEW r \in Wants[t], Receive(t, r)
    PROVE  WaitListExact'
<1>1. /\ r.want \subseteq Bit /\ r.want # {}
      /\ [all |-> r.all, clear |-> r.clear] \in Option
  BY RequestFacts
<1>3. r.want \cap set # {}
  BY <1>1 DEF Receive, Met
<1>4. TypeOK'
  BY <1>1, <1>3, Parts DEF Receive, TypeOK, Goto
<1>5. ~ Linked(t, waitq)
  BY Parts DEF Receive, Calls
<1> QED BY <1>4, <1>5, Parts, PartsNext DEF Receive, Goto, TypeOK

(* A receive that waits. *)
LEMMA ReceiveWaitStep ==
    ASSUME WaitListExact, NEW t \in Thread, NEW r \in Wants[t], ReceiveWait(t, r)
    PROVE  WaitListExact'
<1>1. /\ r.want \subseteq Bit /\ r.want # {}
      /\ [all |-> r.all, clear |-> r.clear] \in Option
  BY RequestFacts
<1>3. /\ ~ Linked(t, waitq) /\ TypeOK /\ LinkedOnce(waitq)
      /\ EvFlag = "PRIO" => SortedBy(waitq, ThreadPrio)
  BY Parts DEF ReceiveWait, Calls
<1>4. /\ waitq' \in Seq(Thread) /\ LinkedOnce(waitq')
      /\ \A x : Linked(x, waitq') <=> x = t \/ Linked(x, waitq)
      /\ EvFlag = "PRIO" => SortedBy(waitq', ThreadPrio)
  BY <1>3, EventAssumption, WaitInsertFacts DEF ReceiveWait, TypeOK
<1>5. TypeOK'
  BY <1>1, <1>3, <1>4 DEF ReceiveWait, TypeOK, Goto
<1> QED BY <1>3, <1>4, <1>5, Parts, PartsNext DEF ReceiveWait, Goto, TypeOK

(* A send. *)
LEMMA SendStep ==
    ASSUME WaitListExact, NEW S \in SUBSET Bit, Send(S)
    PROVE  WaitListExact'
<1> DEFINE n == Len(waitq)
<1>1. PICK w : /\ Walked(w, n, S)
               /\ \A i \in 0 .. n : Known(w, i, S)
               /\ set' = w[n].left /\ waitq' = w[n].stay /\ bits' = w[n].bits
               /\ w[n] \in Found /\ n \in Nat
  BY SendFacts
<1>2. Known(w, n, S)
  BY <1>1
<1>3. set' \subseteq Bit /\ waitq' \in Seq(Thread) /\ bits' \in [Thread -> SUBSET Bit]
  BY <1>1 DEF Found
<1>4. ASSUME NEW t \in Thread, pc[t] \in {"wait", "return"}
      PROVE  bits'[t] # {}
  <2>1. bits[t] # {}
    BY <1>4 DEF WaitListExact, TypeOK
  <2>2. CASE \A j \in 1 .. n : waitq[j] # t \/ ~ Served(w, j)
    BY <1>1, <1>2, <2>1, <2>2 DEF Known
  <2>3. ASSUME NEW j \in 1 .. n, waitq[j] = t, Served(w, j)
        PROVE  bits'[t] # {}
    <3>1. bits'[t] = bits[t] \cap w[j - 1].left
      BY <1>1, <1>2, <2>3 DEF Known
    <3> QED BY <2>1, <2>3, <3>1 DEF Served, Enough, Met
  <2> QED BY <2>2, <2>3
<1>5. TypeOK'
  BY <1>3, <1>4 DEF WaitListExact, TypeOK, Send
<1>6. LinkedOnce(waitq') /\ (EvFlag = "PRIO" => SortedBy(waitq', ThreadPrio))
  BY <1>1, <1>2 DEF Known
<1>7. ASSUME NEW t, Linked(t, waitq') PROVE pc'[t] = "wait" /\ err'[t] = "ok"
  <2>1. Linked(t, waitq)
    BY <1>1, <1>2, <1>7 DEF Known, Linked
  <2> QED BY <2>1, Parts DEF Send
<1> QED BY <1>5, <1>6, <1>7, PartsNext

(* A wait that ends before the bits are there, for some thread or all. *)
LEMMA FailStep ==
    ASSUME WaitListExact,
           \/ \E t \in Thread : TimerFire(t) \/ Reset(t) \/ DetachWake(t)
    PROVE  WaitListExact'
<1>1. /\ TypeOK /\ LinkedOnce(waitq) /\ waitq \in Seq(Thread)
      /\ EvFlag = "PRIO" => SortedBy(waitq, ThreadPrio)
  BY Parts DEF TypeOK
<1>2. ASSUME NEW t \in Thread, TimerFire(t) PROVE WaitListExact'
  <2>1. /\ waitq' \in Seq(Thread) /\ LinkedOnce(waitq')
        /\ \A x : Linked(x, waitq') => x # t /\ Linked(x, waitq)
    BY <1>1, <1>2, RemoveFirstFacts DEF TimerFire
  <2>2. EvFlag = "PRIO" => SortedBy(waitq', ThreadPrio)
    BY <1>1, <1>2, RemoveSorted DEF TimerFire
  <2>3. TypeOK'
    BY <1>1, <1>2, <2>1 DEF TimerFire, TypeOK
  <2> QED BY <1>1, <1>2, <2>1, <2>2, <2>3, Parts, PartsNext DEF TimerFire, TypeOK
<1>3. ASSUME NEW t \in Thread, Reset(t) PROVE WaitListExact'
  <2>1. LinkedOnce(<<>>) /\ SortedBy(<<>>, ThreadPrio) /\ \A x : ~ Linked(x, <<>>)
    BY DEF LinkedOnce, SortedBy, Linked
  <2>2. TypeOK'
    BY <1>1, <1>3 DEF Reset, TypeOK
  <2> QED BY <1>3, <2>1, <2>2, PartsNext DEF Reset
<1>4. ASSUME NEW t \in Thread, DetachWake(t) PROVE WaitListExact'
  <2> DEFINE u == Head(waitq)
  <2>1. /\ u \in Thread /\ waitq' \in Seq(Thread) /\ LinkedOnce(waitq')
        /\ Linked(u, waitq)
        /\ \A x : Linked(x, waitq') => x # u /\ Linked(x, waitq)
    BY <1>1, <1>4, HeadFacts DEF DetachWake
  <2>2. EvFlag = "PRIO" => SortedBy(waitq', ThreadPrio)
    BY <1>1, <1>4, TailFacts, RemoveSorted DEF DetachWake
  <2>3. TypeOK'
    BY <1>1, <1>4, <2>1 DEF DetachWake, TypeOK, Goto
  <2>4. pc[t] = "cancel" /\ ~ Linked(t, waitq)
    BY <1>4, Parts DEF DetachWake
  <2> QED BY <1>1, <1>4, <2>1, <2>2, <2>3, <2>4, Parts, PartsNext DEF DetachWake, TypeOK, Goto
<1> QED BY <1>2, <1>3, <1>4

(* A step of a thread that is in no wait list. *)
LEMMA AsideStep ==
    ASSUME WaitListExact, NEW t \in Thread,
           Return(t) \/ DetachBegin(t) \/ DetachLook(t) \/ DetachWild(t)
    PROVE  WaitListExact'
<1>1. ~ Linked(t, waitq)
  BY Parts DEF Return, DetachBegin, DetachLook, DetachWild, Calls
<1>2. TypeOK'
  <2>1. TypeOK
    BY Parts
  <2>2. CASE Return(t)
    <3>1. NoOption \in Option
      BY DEF NoOption, Option
    <3>2. /\ pc' = [pc EXCEPT ![t] = "user"] /\ bits' = [bits EXCEPT ![t] = {}]
          /\ option' = [option EXCEPT ![t] = NoOption] /\ limited' = limited \ {t}
          /\ err' = [err EXCEPT ![t] = "ok"]
          /\ UNCHANGED <<set, waitq, alive>>
      BY <2>2 DEF Return, Goto
    <3> QED BY <2>1, <3>1, <3>2 DEF TypeOK
  <2>3. CASE DetachBegin(t) \/ DetachLook(t) \/ DetachWild(t)
    BY <2>1, <2>3 DEF TypeOK, DetachBegin, DetachLook, DetachWild, Goto
  <2> QED BY <2>2, <2>3
<1>3. waitq' = waitq /\ \A x \in Thread \ {t} : pc'[x] = pc[x] /\ err'[x] = err[x]
  BY Parts DEF TypeOK, Return, DetachBegin, DetachLook, DetachWild, Goto
<1>4. \A x : Linked(x, waitq) => x \in Thread
  BY ElementOfSeq DEF WaitListExact, TypeOK, Linked
<1> QED BY <1>1, <1>2, <1>3, <1>4, Parts, PartsNext

(* The wait list of an event is exact: each thread suspended in            *)
(* rt_event_recv is linked once and in its place until a send, a time-out, *)
(* a reset or a detach ends its wait.                                      *)
THEOREM WaitersCorrect == Spec => []WaitListExact
<1>1. Init => WaitListExact
  <2>1. /\ <<>> \in Seq(Thread) /\ LinkedOnce(<<>>) /\ SortedBy(<<>>, ThreadPrio)
        /\ \A x : ~ Linked(x, <<>>)
    BY EmptySeq DEF LinkedOnce, SortedBy, Linked
  <2> SUFFICES ASSUME Init PROVE WaitListExact
    OBVIOUS
  <2>2. TypeOK
    BY <2>1 DEF Init, TypeOK, Option, NoOption
  <2> QED BY <2>1, <2>2, Parts DEF Init
<1>2. WaitListExact /\ [Next]_vars => WaitListExact'
  <2> SUFFICES ASSUME WaitListExact, [Next]_vars PROVE WaitListExact'
    OBVIOUS
  <2>1. Resetters \subseteq Thread /\ Owners \subseteq Thread
    BY EventAssumption
  <2>2. CASE UNCHANGED vars
    BY <2>2 DEF vars, WaitListExact, TypeOK
  <2>3. ASSUME NEW t \in Thread, NEW r \in Wants[t], Receive(t, r) \/ ReceiveWait(t, r)
        PROVE  WaitListExact'
    BY <2>3, ReceiveStep, ReceiveWaitStep
  <2>4. ASSUME NEW S \in (SUBSET Bit) \ {{}}, Send(S) PROVE WaitListExact'
    BY <2>4, SendStep
  <2>5. ASSUME NEW t \in Thread, Return(t) \/ TimerFire(t) PROVE WaitListExact'
    BY <2>5, AsideStep, FailStep
  <2>6. ASSUME NEW t \in Resetters, Reset(t) PROVE WaitListExact'
    BY <2>1, <2>6, FailStep
  <2>7. ASSUME NEW t \in Owners,
               DetachBegin(t) \/ DetachLook(t) \/ DetachWake(t) \/ DetachWild(t)
        PROVE  WaitListExact'
    BY <2>1, <2>7, AsideStep, FailStep
  <2> QED BY <2>2, <2>3, <2>4, <2>5, <2>6, <2>7 DEF Next
<1> QED BY <1>1, <1>2, PTL DEF Spec

-----------------------------------------------------------------------------
(* Nobody is robbed *)

(* What is not enough does not become enough when bits are taken away.     *)
LEMMA LessIsNotEnough ==
    ASSUME NEW want, NEW all, NEW there, NEW less, less \subseteq there,
           ~ Met(want, all, there)
    PROVE  ~ Met(want, all, less)
BY DEF Met

(* The action of NobodyIsRobbed. *)
NoneRobbed ==
    \A i, j \in 1 .. Len(waitq) :
        LET t == waitq[i]
            u == waitq[j]
        IN  i < j /\ Linked(t, waitq') /\ ~ Linked(u, waitq') /\ err'[u] = "ok"
              => ~ Met(bits[t], option[t].all, set' \cup bits'[u])

(* A send gives nothing to a waiter that one before it could have used.    *)
LEMMA SendRobsNobody ==
    ASSUME WaitListExact, NEW S \in SUBSET Bit, Send(S)
    PROVE  NoneRobbed
<1> SUFFICES ASSUME NEW i \in 1 .. Len(waitq), NEW j \in 1 .. Len(waitq),
                    i < j, Linked(waitq[i], waitq'), ~ Linked(waitq[j], waitq')
             PROVE  ~ Met(bits[waitq[i]], option[waitq[i]].all, set' \cup bits'[waitq[j]])
  BY DEF NoneRobbed
<1> DEFINE n == Len(waitq)
<1>1. PICK w : /\ Walked(w, n, S)
               /\ \A l \in 0 .. n : Known(w, l, S)
               /\ set' = w[n].left /\ waitq' = w[n].stay /\ bits' = w[n].bits
               /\ w[n] \in Found /\ n \in Nat
  BY SendFacts
<1>2. Known(w, n, S) /\ Known(w, j - 1, S)
  BY <1>1
<1>3. ~ Served(w, i)
  <2>1. PICK l \in 1 .. n : waitq[l] = waitq[i] /\ ~ Served(w, l)
    BY <1>1, <1>2 DEF Known
  <2>2. l = i
    BY <2>1 DEF WaitListExact, LinkedOnce
  <2> QED BY <2>1, <2>2
<1>4. Served(w, j)
  BY <1>1, <1>2 DEF Known
<1>5. bits'[waitq[j]] \subseteq w[j - 1].left
  BY <1>1, <1>2, <1>4 DEF Known
<1>6. set' \subseteq w[j - 1].left
  <2>1. j - 1 \in 0 .. n
    BY <1>1
  <2> QED BY <1>1, <1>2, <2>1 DEF Known
<1>7. w[j - 1].left \subseteq w[i - 1].left
  <2>1. i - 1 \in 0 .. j - 1
    BY <1>1
  <2> QED BY <1>2, <2>1 DEF Known
<1>8. set' \cup bits'[waitq[j]] \subseteq w[i - 1].left
  BY <1>5, <1>6, <1>7
<1> QED BY <1>3, <1>8, LessIsNotEnough DEF Served, Enough

(* No other step grants bits to a waiter. *)
LEMMA OthersRobNobody ==
    ASSUME WaitListExact, NEW t \in Thread,
           \/ \E r \in Wants[t] : Receive(t, r) \/ ReceiveWait(t, r)
           \/ Return(t) \/ TimerFire(t) \/ Reset(t)
           \/ DetachBegin(t) \/ DetachLook(t) \/ DetachWake(t) \/ DetachWild(t)
    PROVE  NoneRobbed
<1>1. /\ TypeOK /\ LinkedOnce(waitq) /\ waitq \in Seq(Thread)
      /\ EvFlag = "PRIO" => SortedBy(waitq, ThreadPrio)
      /\ \A i \in 1 .. Len(waitq) : Linked(waitq[i], waitq) /\ waitq[i] \in Thread
  BY Parts, ElementOfSeq DEF TypeOK, Linked
<1>2. CASE UNCHANGED waitq
  BY <1>1, <1>2 DEF NoneRobbed
<1>3. ASSUME NEW r \in Wants[t], ReceiveWait(t, r) PROVE NoneRobbed
  <2>1. ~ Linked(t, waitq)
    BY <1>3, Parts DEF ReceiveWait, Calls
  <2>2. \A x : Linked(x, waitq') <=> x = t \/ Linked(x, waitq)
    BY <1>1, <1>3, <2>1, EventAssumption, WaitInsertFacts DEF ReceiveWait, TypeOK
  <2> QED BY <1>1, <2>2 DEF NoneRobbed
<1>4. CASE TimerFire(t)
  <2>1. \A x : x # t => (Linked(x, waitq') <=> Linked(x, waitq))
    BY <1>1, <1>4, RemoveFirstFacts DEF TimerFire
  <2>2. err'[t] = "timeout"
    BY <1>1, <1>4 DEF TimerFire, TypeOK
  <2> QED BY <1>1, <2>1, <2>2 DEF NoneRobbed
<1>5. CASE Reset(t)
  <2>1. \A x : ~ Linked(x, waitq')
    BY <1>5 DEF Reset, Linked
  <2> QED BY <2>1 DEF NoneRobbed
<1>6. CASE DetachWake(t)
  <2>1. \A x : Linked(x, waitq) /\ x # Head(waitq) => Linked(x, waitq')
    BY <1>1, <1>6, HeadFacts DEF DetachWake
  <2>2. err'[Head(waitq)] = "error"
    BY <1>1, <1>6, HeadFacts DEF DetachWake, TypeOK
  <2> QED BY <1>1, <2>1, <2>2 DEF NoneRobbed
<1> QED BY <1>2, <1>3, <1>4, <1>5, <1>6
        DEF Receive, Return, DetachBegin, DetachLook, DetachWild

(* A waiter that clears takes bits away from those behind it only: a       *)
(* waiter that a send passes over could not have gone on with what is left *)
(* and what those behind it got.                                           *)
THEOREM SendIsFair == Spec => NobodyIsRobbed
<1>1. WaitListExact /\ [Next]_vars => [NoneRobbed]_vars
  <2> SUFFICES ASSUME WaitListExact, Next PROVE NoneRobbed
    OBVIOUS
  <2>1. Resetters \subseteq Thread /\ Owners \subseteq Thread
    BY EventAssumption
  <2>2. ASSUME NEW S \in (SUBSET Bit) \ {{}}, Send(S) PROVE NoneRobbed
    BY <2>2, SendRobsNobody
  <2> QED BY <2>1, <2>2, OthersRobNobody DEF Next
<1>2. NobodyIsRobbed <=> [][NoneRobbed]_vars
  BY DEF NobodyIsRobbed, NoneRobbed
<1> QED BY <1>1, <1>2, WaitersCorrect, PTL DEF Spec

-----------------------------------------------------------------------------
(* The event implements EventFlags *)

(* The value of st in the refinement. *)
Have == [t \in Thread |-> RecvState(t)]

(* What a thread has when it asks for something, and when it does not. *)
LEMMA StateFacts ==
    ASSUME WaitListExact, NEW t \in Thread
    PROVE  /\ Have[t] = RecvState(t)
           /\ pc[t] \notin {"wait", "return"} => RecvState(t) = Abstract!Idle
           /\ Linked(t, waitq) =>
                 /\ RecvState(t) = [state |-> "asking",
                                    ask |-> [want |-> bits[t], all |-> option[t].all,
                                             clear |-> option[t].clear]]
                 /\ RecvState(t).state = "asking"
                 /\ RecvState(t).ask.want = bits[t]
                 /\ RecvState(t).ask.all = option[t].all
                 /\ RecvState(t).ask.clear = option[t].clear
           /\ RecvState(t).state = "asking" <=> Linked(t, waitq)
<1>1. Linked(t, waitq) => pc[t] = "wait"
  BY Parts
<1>2. err[t] \in {"ok", "timeout", "error"}
  BY DEF WaitListExact, TypeOK
<1>3. Have[t] = RecvState(t)
  BY DEF Have
<1>4. CASE pc[t] \notin {"wait", "return"}
  BY <1>1, <1>3, <1>4 DEF RecvState, Abstract!Idle
<1>5. CASE pc[t] \in {"wait", "return"} /\ Linked(t, waitq)
  BY <1>3, <1>5 DEF RecvState
<1>6. CASE pc[t] \in {"wait", "return"} /\ ~ Linked(t, waitq)
  BY <1>2, <1>3, <1>6 DEF RecvState
<1> QED BY <1>4, <1>5, <1>6

(* The threads that ask are those in the wait list. *)
LEMMA AskingIs ==
    ASSUME WaitListExact
    PROVE  Abstract!Asking = {t \in Thread : Linked(t, waitq)}
BY StateFacts DEF Abstract!Asking

(* A thread no field of which changes has what it had. *)
LEMMA HasTheSame ==
    ASSUME NEW t \in Thread, pc'[t] = pc[t], bits'[t] = bits[t], option'[t] = option[t],
           err'[t] = err[t], Linked(t, waitq') <=> Linked(t, waitq)
    PROVE  RecvState(t)' = RecvState(t)
BY DEF RecvState

(* One thread has something else. *)
LEMMA OneChanges ==
    ASSUME NEW t \in Thread, NEW s, RecvState(t)' = s,
           \A u \in Thread \ {t} : RecvState(u)' = RecvState(u)
    PROVE  Abstract!Become(t, s)
<1>1. Have' = [Have EXCEPT ![t] = s]
  BY DEF Have
<1> QED BY <1>1 DEF Abstract!Become, Have

(* A receive that need not wait is one of EventFlags. *)
LEMMA ReceiveImplements ==
    ASSUME WaitListExact, NEW t \in Thread, NEW r \in Wants[t], Receive(t, r)
    PROVE  Abstract!Receive(t, r)
<1>1. TypeOK /\ ~ Linked(t, waitq) /\ pc[t] = "user"
  BY Parts DEF Receive, Calls
<1>2. Have[t] = Abstract!Idle
  BY <1>1, StateFacts
<1>3. RecvState(t)' = Abstract!Granted(r.want \cap set)
  BY <1>1 DEF Receive, Goto, TypeOK, RecvState, Abstract!Granted
<1>4. \A u \in Thread \ {t} : RecvState(u)' = RecvState(u)
  BY <1>1, HasTheSame DEF Receive, Goto, TypeOK
<1>5. Abstract!Become(t, Abstract!Granted(r.want \cap set))
  BY <1>3, <1>4, OneChanges
<1> QED BY <1>2, <1>5 DEF Abstract!Receive, Abstract!Meets, Receive, Met, Have

(* So is one that waits. *)
LEMMA WaitImplements ==
    ASSUME WaitListExact, NEW t \in Thread, NEW r \in Wants[t], ReceiveWait(t, r)
    PROVE  Abstract!Wait(t, r)
<1>1. /\ TypeOK /\ ~ Linked(t, waitq) /\ pc[t] = "user" /\ LinkedOnce(waitq)
      /\ EvFlag = "PRIO" => SortedBy(waitq, ThreadPrio)
  BY Parts DEF ReceiveWait, Calls
<1>2. Have[t] = Abstract!Idle
  BY <1>1, StateFacts
<1>3. \A x : Linked(x, waitq') <=> x = t \/ Linked(x, waitq)
  BY <1>1, EventAssumption, WaitInsertFacts DEF ReceiveWait, TypeOK
<1>4. r = [want |-> r.want, all |-> r.all, clear |-> r.clear]
  BY RequestFacts DEF Request
<1>5. /\ pc'[t] = "wait" /\ bits'[t] = r.want
      /\ option'[t] = [all |-> r.all, clear |-> r.clear]
  BY <1>1 DEF ReceiveWait, Goto, TypeOK
<1>6. RecvState(t)' = [state |-> "asking",
                       ask |-> [want |-> r.want, all |-> r.all, clear |-> r.clear]]
  BY <1>3, <1>5 DEF RecvState
<1>7. RecvState(t)' = Abstract!Asks(r)
  BY <1>4, <1>6 DEF Abstract!Asks
<1>8. \A u \in Thread \ {t} : RecvState(u)' = RecvState(u)
  BY <1>1, <1>3, HasTheSame DEF ReceiveWait, Goto, TypeOK
<1>9. Abstract!Become(t, Abstract!Asks(r))
  BY <1>7, <1>8, OneChanges
<1> QED BY <1>2, <1>9 DEF Abstract!Wait, Abstract!Meets, ReceiveWait, Met, Have

(* The return from a receive. *)
LEMMA ReturnImplements ==
    ASSUME WaitListExact, NEW t \in Thread, Return(t)
    PROVE  Abstract!Return(t)
<1>1. TypeOK /\ ~ Linked(t, waitq) /\ pc[t] \in {"wait", "return"}
  BY Parts DEF Return
<1>2. RecvState(t).state \in {"granted", "timeout", "error"}
  BY <1>1 DEF RecvState, TypeOK
<1>3. RecvState(t)' = Abstract!Idle
  BY <1>1 DEF Return, Goto, TypeOK, RecvState, Abstract!Idle
<1>4. \A u \in Thread \ {t} : RecvState(u)' = RecvState(u)
  BY <1>1, HasTheSame DEF Return, Goto, TypeOK
<1>5. Abstract!Become(t, Abstract!Idle)
  BY <1>3, <1>4, OneChanges
<1>6. Have[t].state \in {"granted", "timeout", "error"} /\ UNCHANGED set
  BY <1>2, StateFacts DEF Return
<1> QED BY <1>5, <1>6 DEF Abstract!Return, Have

(* A time-out, and the wake-up of one waiter by a detach. *)
LEMMA FailImplements ==
    ASSUME WaitListExact, NEW t \in Thread, TimerFire(t) \/ DetachWake(t)
    PROVE  \E u \in Thread : Abstract!Fail(u)
<1>1. TypeOK /\ LinkedOnce(waitq) /\ waitq \in Seq(Thread)
  BY Parts DEF TypeOK
<1>2. ASSUME NEW u \in Thread, NEW e \in {"timeout", "error"}, Linked(u, waitq),
             \A x : Linked(x, waitq') <=> x # u /\ Linked(x, waitq),
             pc' = pc \/ (pc[t] = "cancel" /\ pc' = [pc EXCEPT ![t] = "look"]),
             err' = [err EXCEPT ![u] = e], UNCHANGED <<set, bits, option>>
      PROVE  Abstract!Fail(u)
  <2>1. pc[u] = "wait" /\ pc'[u] = "wait" /\ err'[u] = e
    BY <1>1, <1>2, Parts DEF TypeOK
  <2>2. RecvState(u)' = Abstract!Failed(e)
    BY <1>2, <2>1 DEF RecvState, Abstract!Failed
  <2>3. ASSUME NEW x \in Thread \ {u} PROVE RecvState(x)' = RecvState(x)
    <3>1. CASE pc'[x] = pc[x]
      BY <1>1, <1>2, <3>1, HasTheSame DEF TypeOK
    <3>2. CASE pc'[x] # pc[x]
      <4>1. pc[x] = "cancel" /\ pc'[x] = "look"
        BY <1>1, <1>2, <3>2 DEF TypeOK
      <4> QED BY <4>1 DEF RecvState
    <3> QED BY <3>1, <3>2
  <2>4. Abstract!Become(u, Abstract!Failed(e))
    BY <2>2, <2>3, OneChanges
  <2>5. u \in Abstract!Asking
    BY <1>2, AskingIs
  <2> QED BY <1>2, <2>4, <2>5 DEF Abstract!Fail
<1>3. CASE TimerFire(t)
  <2>1. \A x : Linked(x, waitq') <=> x # t /\ Linked(x, waitq)
    BY <1>1, <1>3, RemoveFirstFacts DEF TimerFire
  <2> QED BY <1>2, <1>3, <2>1 DEF TimerFire
<1>4. CASE DetachWake(t)
  <2>1. /\ Head(waitq) \in Thread /\ Linked(Head(waitq), waitq)
        /\ \A x : Linked(x, waitq') <=> x # Head(waitq) /\ Linked(x, waitq)
    BY <1>1, <1>4, HeadFacts DEF DetachWake
  <2> QED BY <1>2, <1>4, <2>1 DEF DetachWake, Goto
<1> QED BY <1>3, <1>4

(* A reset. *)
LEMMA ResetImplements ==
    ASSUME WaitListExact, NEW t \in Thread, Reset(t)
    PROVE  Abstract!Reset
<1>1. \A x : ~ Linked(x, waitq')
  BY DEF Reset, Linked
<1>2. ASSUME NEW u \in Thread
      PROVE  RecvState(u)' = IF u \in Abstract!Asking THEN Abstract!Failed("error")
                             ELSE RecvState(u)
  <2>1. CASE Linked(u, waitq)
    <3>1. pc[u] = "wait" /\ u \in Abstract!Asking
      BY <2>1, Parts, AskingIs
    <3> QED BY <1>1, <2>1, <3>1 DEF Reset, RecvState, Abstract!Failed
  <2>2. CASE ~ Linked(u, waitq)
    <3>1. u \notin Abstract!Asking
      BY <2>2, AskingIs
    <3>2. RecvState(u)' = RecvState(u)
      BY <1>1, <2>2, HasTheSame DEF Reset
    <3> QED BY <3>1, <3>2
  <2> QED BY <2>1, <2>2
<1>3. Have' = [u \in Thread |-> IF u \in Abstract!Asking THEN Abstract!Failed("error")
                                ELSE Have[u]]
  BY <1>2 DEF Have
<1> QED BY <1>3 DEF Abstract!Reset, Have, Reset

(* A send grants bits to those it wakes, as EventFlags allows: each gets   *)
(* all it wants that was left, no bit to be cleared goes to two of them,   *)
(* and nobody is left asking for what is there.                            *)
LEMMA SendImplements ==
    ASSUME WaitListExact, NEW S \in SUBSET Bit, Send(S)
    PROVE  Abstract!Send(S)
<1> DEFINE n == Len(waitq)
           woken(t) == \E j \in 1 .. n : waitq[j] = t /\ ~ Linked(t, waitq')
<1>1. PICK w : /\ Walked(w, n, S)
               /\ Known(w, n, S) /\ \A i \in 0 .. n : Known(w, i, S)
               /\ set' = w[n].left /\ waitq' = w[n].stay /\ bits' = w[n].bits
               /\ w[n] \in Found /\ n \in Nat
  BY SendFacts
<1>2. /\ TypeOK /\ waitq \in Seq(Thread) /\ LinkedOnce(waitq)
      /\ \A j \in 1 .. n : waitq[j] \in Thread /\ Linked(waitq[j], waitq)
      /\ pc' = pc /\ option' = option /\ err' = err
  BY Parts, ElementOfSeq DEF TypeOK, Linked, Send
<1> DEFINE G == {t \in Thread : Linked(t, waitq) /\ ~ Linked(t, waitq')}
           got == [t \in G |-> bits'[t]]
<1>3. ASSUME NEW t \in G
      PROVE  \E j \in 1 .. n : waitq[j] = t /\ Served(w, j) /\ bits'[t] = bits[t] \cap w[j - 1].left
  <2>1. PICK j \in 1 .. n : waitq[j] = t
    BY DEF Linked
  <2>2. Served(w, j)
    BY <1>1, <2>1 DEF Known
  <2>3. bits'[t] = bits[t] \cap w[j - 1].left
    BY <1>1, <2>1, <2>2 DEF Known
  <2> QED BY <2>1, <2>2, <2>3
<1>4. ASSUME NEW j \in 1 .. n
      PROVE  /\ w[n].left \subseteq w[j - 1].left /\ w[n].left \subseteq w[j].left
             /\ w[j - 1].left \subseteq set \cup S
             /\ \A l \in 1 .. j - 1 : w[j - 1].left \subseteq w[l].left
  <2>1. j - 1 \in 0 .. n /\ j \in 0 .. n
    BY <1>1
  <2>2. Known(w, n, S) /\ Known(w, j - 1, S)
    BY <1>1, <2>1
  <2>3. w[n].left \subseteq w[j - 1].left /\ w[n].left \subseteq w[j].left
    BY <1>1, <2>1, <2>2 DEF Known
  <2>4. w[j - 1].left \subseteq set \cup S
    BY <2>2 DEF Known
  <2>5. ASSUME NEW l \in 1 .. j - 1 PROVE w[j - 1].left \subseteq w[l].left
    <3>1. l \in 0 .. j - 1
      BY <1>1
    <3> QED BY <2>2, <3>1 DEF Known
  <2> QED BY <2>3, <2>4, <2>5
<1>5. ASSUME NEW j \in 1 .. n, Served(w, j), option[waitq[j]].clear
      PROVE  bits[waitq[j]] \cap w[j].left = {}
  <2>1. j - 1 \in 0 .. n /\ w[j - 1] \in Found /\ w[j] = Examine(w[j - 1], waitq[j])
    BY <1>1 DEF Walked
  <2>2. w[j].left = w[j - 1].left \ bits[waitq[j]]
    <3> DEFINE f == w[j - 1]
               t == waitq[j]
    <3>1. f \in Found /\ t \in Thread /\ Enough(t, f.left) /\ option[t].clear
      BY <1>2, <1>5, <2>1 DEF Served
    <3> HIDE DEF f, t
    <3>2. Examine(f, t).left = f.left \ bits[t]
      BY <1>2, <3>1, ExamineFacts
    <3> QED BY <2>1, <3>2 DEF f, t
  <2> QED BY <2>2
<1>6. \A t \in G : t \in Thread /\ t \in Abstract!Asking /\ Linked(t, waitq)
  BY AskingIs
<1>7. G \in SUBSET Abstract!Asking /\ got \in [G -> SUBSET Bit]
  <2>1. bits' \in [Thread -> SUBSET Bit]
    BY <1>1 DEF Found
  <2> QED BY <1>6, <2>1
<1> DEFINE cleared(t) == IF Have[t].ask.clear THEN got[t] ELSE {}
<1>8. \A t \in G : /\ Have[t].ask.want = bits[t] /\ Have[t].ask.all = option[t].all
                   /\ Have[t].ask.clear = option[t].clear /\ got[t] = bits'[t]
  BY <1>6, StateFacts
<1>9. set' = (set \cup S) \ UNION {cleared(t) : t \in G}
  <2>1. ASSUME NEW b, b \in set' PROVE b \in (set \cup S) \ UNION {cleared(t) : t \in G}
    <3>1. b \in set \cup S
      BY <1>1, <2>1 DEF Known
    <3>2. ASSUME NEW t \in G, b \in cleared(t) PROVE FALSE
      <4>1. option[t].clear /\ b \in bits'[t]
        BY <1>8, <3>2
      <4>2. PICK j \in 1 .. n :
               waitq[j] = t /\ Served(w, j) /\ bits'[t] = bits[t] \cap w[j - 1].left
        BY <1>3
      <4>3. ~ (Served(w, j) /\ option[waitq[j]].clear /\ b \in bits[waitq[j]] \cap w[j - 1].left)
        BY <1>1, <2>1 DEF Known
      <4> QED BY <4>1, <4>2, <4>3
    <3> QED BY <3>1, <3>2
  <2>2. ASSUME NEW b \in set \cup S, \A t \in G : b \notin cleared(t) PROVE b \in set'
    <3>1. ASSUME NEW j \in 1 .. n, Served(w, j), option[waitq[j]].clear,
                 b \in bits[waitq[j]] \cap w[j - 1].left
          PROVE  FALSE
      <4>1. PICK t \in Thread : t = waitq[j]
        BY <1>2
      <4>2. ~ Linked(t, waitq')
        <5>1. ASSUME NEW l \in 1 .. n, waitq[l] = t, ~ Served(w, l) PROVE FALSE
          <6>1. l = j
            BY <1>2, <4>1, <5>1 DEF LinkedOnce
          <6> QED BY <3>1, <5>1, <6>1
        <5> QED BY <1>1, <5>1 DEF Known
      <4>3. t \in G
        BY <1>2, <4>1, <4>2
      <4>4. bits'[t] = bits[t] \cap w[j - 1].left
        BY <1>1, <3>1, <4>1 DEF Known
      <4>5. b \in cleared(t)
        BY <1>8, <3>1, <4>1, <4>3, <4>4
      <4> QED BY <2>2, <4>3, <4>5
    <3> QED BY <1>1, <2>2, <3>1 DEF Known
  <2> HIDE DEF cleared, G
  <2>3. ASSUME NEW b \in (set \cup S) \ UNION {cleared(t) : t \in G} PROVE b \in set'
    BY <2>2
  <2> QED BY <2>1, <2>3
<1>10. ASSUME NEW t \in G
       PROVE  /\ got[t] \subseteq (set \cup S) \cap Have[t].ask.want
              /\ Abstract!Meets(Have[t].ask, got[t])
              /\ Have[t].ask.want \cap set' \subseteq got[t]
  <2>1. PICK j \in 1 .. n :
           waitq[j] = t /\ Served(w, j) /\ bits'[t] = bits[t] \cap w[j - 1].left
    BY <1>3
  <2>2. /\ Have[t].ask.want = bits[t] /\ Have[t].ask.all = option[t].all
        /\ got[t] = bits[t] \cap w[j - 1].left
    BY <1>8, <2>1
  <2>3. Met(bits[t], option[t].all, w[j - 1].left)
    BY <2>1 DEF Served, Enough
  <2>4. set' \subseteq w[j - 1].left /\ w[j - 1].left \subseteq set \cup S
    BY <1>1, <1>4
  <2> HIDE DEF got
  <2>5. Abstract!Meets(Have[t].ask, got[t])
    BY <2>2, <2>3 DEF Abstract!Meets, Met
  <2> QED BY <2>2, <2>4, <2>5
<1>11. ASSUME NEW t \in G, NEW u \in G \ {t}
       PROVE  cleared(t) \cap cleared(u) = {}
  <2>1. ASSUME NEW x \in G, NEW y \in G, NEW i \in 1 .. n, NEW j \in 1 .. n, i < j,
               waitq[i] = x, waitq[j] = y, Served(w, i),
               bits'[x] = bits[x] \cap w[i - 1].left, bits'[y] = bits[y] \cap w[j - 1].left
        PROVE  cleared(x) \cap cleared(y) = {}
    <3>1. CASE ~ option[x].clear
      BY <1>8, <3>1
    <3>2. CASE option[x].clear
      <4>1. bits[x] \cap w[i].left = {}
        BY <1>5, <2>1, <3>2
      <4>2. w[j - 1].left \subseteq w[i].left
        <5>1. i \in 1 .. j - 1
          BY <1>1, <2>1
        <5> QED BY <1>4, <5>1
      <4>3. cleared(x) \subseteq bits[x] /\ cleared(y) \subseteq w[j - 1].left
        BY <1>8, <2>1
      <4> HIDE DEF cleared
      <4> QED BY <4>1, <4>2, <4>3
    <3> QED BY <3>1, <3>2
  <2>2. PICK i \in 1 .. n :
           waitq[i] = t /\ Served(w, i) /\ bits'[t] = bits[t] \cap w[i - 1].left
    BY <1>3
  <2>3. PICK j \in 1 .. n :
           waitq[j] = u /\ Served(w, j) /\ bits'[u] = bits[u] \cap w[j - 1].left
    BY <1>3
  <2>4. i < j \/ j < i
    BY <1>1, <2>2, <2>3
  <2>5. CASE i < j
    <3> HIDE DEF cleared, G
    <3> QED BY <2>1, <2>2, <2>3, <2>5
  <2>6. CASE j < i
    <3> HIDE DEF cleared, G
    <3>1. cleared(u) \cap cleared(t) = {}
      BY <2>1, <2>2, <2>3, <2>6
    <3> QED BY <3>1
  <2> QED BY <2>4, <2>5, <2>6
<1>12. ASSUME NEW t \in Abstract!Asking \ G PROVE ~ Abstract!Meets(Have[t].ask, set')
  <2>1. t \in Thread /\ Linked(t, waitq) /\ Linked(t, waitq')
    BY AskingIs
  <2>2. PICK j \in 1 .. n : waitq[j] = t /\ ~ Served(w, j)
    BY <1>1, <2>1 DEF Known
  <2>3. ~ Met(bits[t], option[t].all, w[j - 1].left)
    BY <2>2 DEF Served, Enough
  <2>4. set' \subseteq w[j - 1].left
    BY <1>1, <1>4
  <2>5. ~ Met(bits[t], option[t].all, set')
    BY <2>3, <2>4, LessIsNotEnough
  <2>6. Have[t].ask.want = bits[t] /\ Have[t].ask.all = option[t].all
    BY <2>1, StateFacts
  <2> QED BY <2>5, <2>6 DEF Abstract!Meets, Met
<1>13. Have' = [t \in Thread |-> IF t \in G THEN Abstract!Granted(got[t]) ELSE Have[t]]
  <2>1. ASSUME NEW t \in Thread, t \in G PROVE RecvState(t)' = Abstract!Granted(got[t])
    <3>1. pc[t] = "wait" /\ err[t] = "ok" /\ got[t] = bits'[t]
      BY <1>8, <2>1, Parts
    <3> QED BY <1>2, <2>1, <3>1 DEF RecvState, Abstract!Granted
  <2>2. ASSUME NEW t \in Thread, t \notin G PROVE RecvState(t)' = RecvState(t)
    <3>1. Linked(t, waitq') => Linked(t, waitq)
      BY <1>1 DEF Known, Linked
    <3>2. Linked(t, waitq) <=> Linked(t, waitq')
      BY <2>2, <3>1
    <3>3. bits'[t] = bits[t]
      <4>1. ASSUME NEW j \in 1 .. n, waitq[j] = t, Served(w, j) PROVE FALSE
        <5>1. Linked(t, waitq')
          BY <1>2, <3>2, <4>1
        <5>2. PICK l \in 1 .. n : waitq[l] = t /\ ~ Served(w, l)
          BY <1>1, <5>1 DEF Known
        <5>3. l = j
          BY <1>2, <4>1, <5>2 DEF LinkedOnce
        <5> QED BY <4>1, <5>2, <5>3
      <4> QED BY <1>1, <4>1 DEF Known
    <3> QED BY <1>2, <3>2, <3>3, HasTheSame
  <2> HIDE DEF G, got
  <2> QED BY <2>1, <2>2 DEF Have
<1> HIDE DEF G, got
<1>14. Abstract!Grant(G, got, set \cup S)
  BY <1>9, <1>10, <1>11, <1>12, <1>13 DEF Abstract!Grant, Have
<1> QED BY <1>7, <1>14 DEF Abstract!Send

(* A step of a thread that neither waits nor has received anything shows   *)
(* nowhere in EventFlags.                                                  *)
LEMMA AsideStutters ==
    ASSUME WaitListExact, NEW t \in Thread,
           DetachBegin(t) \/ DetachLook(t) \/ DetachWild(t)
    PROVE  UNCHANGED <<set, Have>>
<1>1. /\ TypeOK /\ pc[t] \notin {"wait", "return"} /\ pc'[t] \notin {"wait", "return"}
      /\ \A u \in Thread \ {t} : pc'[u] = pc[u]
      /\ UNCHANGED <<set, waitq, bits, option, err>>
  BY DEF WaitListExact, TypeOK, DetachBegin, DetachLook, DetachWild, Goto, Calls
<1>2. RecvState(t)' = RecvState(t)
  BY <1>1 DEF RecvState
<1>3. \A u \in Thread \ {t} : RecvState(u)' = RecvState(u)
  BY <1>1, HasTheSame
<1> QED BY <1>1, <1>2, <1>3 DEF Have

(* The event implements EventFlags: whatever the walk along the wait list, *)
(* its order and its time-outs do is a grant, a failure or a return that   *)
(* EventFlags allows.                                                      *)
THEOREM FlagsCorrect == Spec => ImplementsFlags
<1>1. Init => Abstract!Init
  <2> SUFFICES ASSUME Init PROVE Abstract!Init
    OBVIOUS
  <2>1. \A t \in Thread : RecvState(t) = Abstract!Idle
    BY DEF Init, RecvState, Abstract!Idle
  <2> QED BY <2>1 DEF Init, Abstract!Init
<1>2. WaitListExact /\ [Next]_vars => [Abstract!Next]_<<set, Have>>
  <2> SUFFICES ASSUME WaitListExact, [Next]_vars
               PROVE  Abstract!Next \/ UNCHANGED <<set, Have>>
    OBVIOUS
  <2>1. Resetters \subseteq Thread /\ Owners \subseteq Thread /\ Abstract!Ask = Request
    BY EventAssumption DEF Abstract!Ask, Request
  <2>2. CASE UNCHANGED vars
    BY <2>2, HasTheSame DEF vars, Have, RecvState
  <2>3. ASSUME NEW t \in Thread, NEW r \in Wants[t], Receive(t, r) \/ ReceiveWait(t, r)
        PROVE  Abstract!Next
    BY <2>1, <2>3, RequestFacts, ReceiveImplements, WaitImplements DEF Abstract!Next
  <2>4. ASSUME NEW S \in (SUBSET Bit) \ {{}}, Send(S) PROVE Abstract!Next
    BY <2>4, SendImplements DEF Abstract!Next
  <2>5. ASSUME NEW t \in Thread, Return(t) \/ TimerFire(t) PROVE Abstract!Next
    BY <2>5, ReturnImplements, FailImplements DEF Abstract!Next
  <2>6. ASSUME NEW t \in Resetters, Reset(t) PROVE Abstract!Next
    BY <2>1, <2>6, ResetImplements DEF Abstract!Next
  <2>7. ASSUME NEW t \in Owners, DetachWake(t) PROVE Abstract!Next
    BY <2>1, <2>7, FailImplements DEF Abstract!Next
  <2>8. ASSUME NEW t \in Owners, DetachBegin(t) \/ DetachLook(t) \/ DetachWild(t)
        PROVE  UNCHANGED <<set, Have>>
    BY <2>1, <2>8, AsideStutters
  <2> QED BY <2>2, <2>3, <2>4, <2>5, <2>6, <2>7, <2>8 DEF Next
<1>3. ImplementsFlags <=> Abstract!Init /\ [][Abstract!Next]_<<set, Have>>
  BY DEF ImplementsFlags, Abstract!Spec, Have
<1> QED BY <1>1, <1>2, <1>3, WaitersCorrect, PTL DEF Spec

=============================================================================
