---------------------------- MODULE KernelProofs ----------------------------
(***************************************************************************)
(* The lemmas the proofs about the components share.  First the lists, on  *)
(* whatever elements: removal of one, insertion at any place, the head,    *)
(* and removal and insertion in a list that is sorted; nothing of the      *)
(* kernel is in them, and Timer and WorkQueue use them alone.  Then the    *)
(* kernel: its routines keep the ready table exact, and the wait lists of  *)
(* Ipc stay in order and forget nobody, whatever the threads and the       *)
(* priorities are.                                                         *)
(***************************************************************************)
EXTENDS Ipc, SequenceTheorems, WellFoundedInduction, FiniteSetTheorems, TLAPS

-----------------------------------------------------------------------------
(* Removal *)

(* A nonempty set of naturals contains its minimum (least-number principle *)
(* from the well-foundedness of < on Nat).                                 *)
LEMMA MinOfIndices ==
    ASSUME NEW I \in SUBSET Nat, I # {}
    PROVE  Min(I) \in I /\ \A j \in I : Min(I) <= j
<1> DEFINE Below == {ss \in Nat \X Nat : ss[1] < ss[2]}
<1>1. IsWellFoundedOn(Below, Nat)
  BY NatLessThanWellFounded, Zenon DEF OpToRel
<1>2. PICK m \in I : \A j \in I : ~ (<<j, m>> \in Below)
  <2> HIDE DEF Below
  <2> QED BY <1>1, WFMin, Zenon
<1>3. \A j \in I : m <= j
  <2> TAKE j \in I
  <2>1. j \in Nat /\ m \in Nat
    OBVIOUS
  <2>2. ~ (j < m)
    <3> SUFFICES ASSUME j < m PROVE <<j, m>> \in Below
      BY <1>2
    <3> QED BY <2>1
  <2> QED BY <2>1, <2>2
<1> QED BY <1>3 DEF Min

(* RemoveFirst removes an element at a place where it is.                  *)
LEMMA RemoveFirstIs ==
    ASSUME NEW S, NEW q \in Seq(S), NEW e, Linked(e, q)
    PROVE  \E i \in 1 .. Len(q) : q[i] = e /\ RemoveFirst(q, e) = RemoveAt(q, i)
<1> DEFINE I == {i \in 1..Len(q) : q[i] = e}
<1>1. I # {} /\ I \subseteq Nat
  BY DEF Linked
<1>2. Min(I) \in I
  <2> HIDE DEF I
  <2> QED BY <1>1, MinOfIndices
<1>3. RemoveFirst(q, e) = RemoveAt(q, Min(I))
  <2>1. SelectInSeq(q, LAMBDA v : v = e) = Min(I)
    BY <1>1, Zenon DEF SelectInSeq
  <2> QED BY <2>1, Zenon DEF RemoveFirst, Linked
<1> QED BY <1>2, <1>3

(* What is left at each place.                                             *)
LEMMA RemoveAtFacts ==
    ASSUME NEW S, NEW q \in Seq(S), NEW i \in 1 .. Len(q)
    PROVE  /\ RemoveAt(q, i) \in Seq(S)
           /\ Len(RemoveAt(q, i)) = Len(q) - 1
           /\ \A j \in 1 .. Len(q) - 1 :
                 RemoveAt(q, i)[j] = q[IF j < i THEN j ELSE j + 1]
<1> DEFINE before == SubSeq(q, 1, i - 1)
           after  == SubSeq(q, i + 1, Len(q))
<1>1. /\ before \in Seq(S) /\ Len(before) = i - 1
      /\ \A j \in 1 .. i - 1 : before[j] = q[j]
  BY SubSeqProperties
<1>2. /\ after \in Seq(S) /\ Len(after) = Len(q) - i
      /\ \A j \in 1 .. Len(q) - i : after[j] = q[i + j]
  BY SubSeqProperties
<1>3. RemoveAt(q, i) = before \o after
  BY DEF RemoveAt
<1> HIDE DEF before, after
<1>4. /\ before \o after \in Seq(S)
      /\ Len(before \o after) = Len(before) + Len(after)
      /\ \A j \in 1 .. Len(before) + Len(after) :
            (before \o after)[j] = IF j <= Len(before) THEN before[j] ELSE after[j - Len(before)]
  BY <1>1, <1>2, ConcatProperties
<1>5. Len(before) + Len(after) = Len(q) - 1
  BY <1>1, <1>2
<1>6. ASSUME NEW j \in 1 .. Len(q) - 1
      PROVE  (before \o after)[j] = q[IF j < i THEN j ELSE j + 1]
  <2>1. CASE j < i
    BY <1>1, <1>4, <1>5, <2>1
  <2>2. CASE ~ (j < i)
    <3>1. j - (i - 1) \in 1 .. Len(q) - i
      BY <2>2
    <3>2. after[j - (i - 1)] = q[j + 1]
      BY <1>2, <3>1
    <3> QED BY <1>1, <1>4, <1>5, <2>2, <3>2
  <2> QED BY <2>1, <2>2
<1> QED BY <1>3, <1>4, <1>5, <1>6

(* rt_list_remove: the thread is linked no more, the others still are, and *)
(* nobody is linked twice.                                                 *)
LEMMA RemoveFirstFacts ==
    ASSUME NEW S, NEW q \in Seq(S), NEW e, LinkedOnce(q)
    PROVE  /\ RemoveFirst(q, e) \in Seq(S)
           /\ LinkedOnce(RemoveFirst(q, e))
           /\ ~ Linked(e, RemoveFirst(q, e))
           /\ \A x : x # e => (Linked(x, RemoveFirst(q, e)) <=> Linked(x, q))
           /\ ~ Linked(e, q) => RemoveFirst(q, e) = q
<1>1. CASE ~ Linked(e, q)
  BY <1>1 DEF Linked, RemoveFirst
<1>2. CASE Linked(e, q)
  <2>1. PICK i \in 1 .. Len(q) : q[i] = e /\ RemoveFirst(q, e) = RemoveAt(q, i)
    BY <1>2, RemoveFirstIs
  <2> DEFINE r == RemoveFirst(q, e)
  <2>2. /\ r \in Seq(S) /\ Len(r) = Len(q) - 1
        /\ \A j \in 1 .. Len(q) - 1 : r[j] = q[IF j < i THEN j ELSE j + 1]
    BY <2>1, RemoveAtFacts
  <2> HIDE DEF r
  <2>3. LinkedOnce(r)
    <3> SUFFICES ASSUME NEW a \in 1 .. Len(r), NEW b \in 1 .. Len(r), r[a] = r[b]
                 PROVE  a = b
      BY DEF LinkedOnce
    <3> DEFINE f(j) == IF j < i THEN j ELSE j + 1
    <3>1. f(a) \in 1 .. Len(q) /\ f(b) \in 1 .. Len(q) /\ q[f(a)] = q[f(b)]
      BY <2>2
    <3>2. f(a) = f(b)
      BY <3>1 DEF LinkedOnce
    <3> QED BY <3>2
  <2>4. ~ Linked(e, r)
    <3> SUFFICES ASSUME NEW j \in 1 .. Len(r), r[j] = e
                 PROVE  FALSE
      BY DEF Linked
    <3>1. j \in 1 .. Len(q) - 1 /\ r[j] = q[IF j < i THEN j ELSE j + 1]
      BY <2>2
    <3>2. CASE j < i
      <4>1. j \in 1 .. Len(q) /\ j # i
        BY <3>1, <3>2
      <4>2. q[j] = q[i]
        BY <2>1, <3>1, <3>2
      <4> QED BY <4>1, <4>2 DEF LinkedOnce
    <3>3. CASE ~ (j < i)
      <4>1. j + 1 \in 1 .. Len(q) /\ j + 1 # i
        BY <3>1, <3>3
      <4>2. q[j + 1] = q[i]
        BY <2>1, <3>1, <3>3
      <4> QED BY <4>1, <4>2 DEF LinkedOnce
    <3> QED BY <3>2, <3>3
  <2>5. ASSUME NEW x, x # e PROVE Linked(x, r) <=> Linked(x, q)
    <3>1. ASSUME Linked(x, r) PROVE Linked(x, q)
      <4>1. PICK j \in 1 .. Len(r) : r[j] = x
        BY <3>1 DEF Linked
      <4>2. j \in 1 .. Len(q) - 1
        BY <2>2, <4>1
      <4>3. CASE j < i
        <5>1. j \in 1 .. Len(q) /\ q[j] = x
          BY <2>2, <4>1, <4>2, <4>3
        <5> QED BY <5>1 DEF Linked
      <4>4. CASE ~ (j < i)
        <5>1. j + 1 \in 1 .. Len(q) /\ q[j + 1] = x
          BY <2>2, <4>1, <4>2, <4>4
        <5> QED BY <5>1 DEF Linked
      <4> QED BY <4>3, <4>4
    <3>2. ASSUME Linked(x, q) PROVE Linked(x, r)
      <4>1. PICK j \in 1 .. Len(q) : q[j] = x
        BY <3>2 DEF Linked
      <4>2. CASE j < i
        BY <2>2, <4>1, <4>2 DEF Linked
      <4>3. CASE j > i
        <5>1. j - 1 \in 1 .. Len(r) /\ r[j - 1] = x
          BY <2>2, <4>1, <4>3
        <5> QED BY <5>1 DEF Linked
      <4> QED BY <2>1, <2>5, <4>1, <4>2, <4>3
    <3> QED BY <3>1, <3>2
  <2> QED BY <1>2, <2>2, <2>3, <2>4, <2>5 DEF r
<1> QED BY <1>1, <1>2

-----------------------------------------------------------------------------
(* Insertion *)

(* A list that has grown by one element e, wherever it was put.            *)
LEMMA InsertedFacts ==
    ASSUME NEW S, NEW q \in Seq(S), NEW r \in Seq(S), NEW e, NEW i \in 1 .. Len(q) + 1,
           Len(r) = Len(q) + 1,
           \A j \in 1 .. Len(r) :
              r[j] = IF j < i THEN q[j] ELSE IF j = i THEN e ELSE q[j - 1],
           LinkedOnce(q), ~ Linked(e, q)
    PROVE  /\ LinkedOnce(r)
           /\ \A x : Linked(x, r) <=> x = e \/ Linked(x, q)
           /\ r # <<>>
<1> DEFINE f(j) == IF j < i THEN j ELSE j - 1
<1>1. \A j \in 1 .. Len(r) : j # i => f(j) \in 1 .. Len(q) /\ r[j] = q[f(j)]
  OBVIOUS
<1>2. \A j \in 1 .. Len(r) : j # i => r[j] # e
  BY <1>1 DEF Linked
<1>3. i \in 1 .. Len(r) /\ r[i] = e
  OBVIOUS
<1>4. LinkedOnce(r)
  <2> SUFFICES ASSUME NEW a \in 1 .. Len(r), NEW b \in 1 .. Len(r), r[a] = r[b]
               PROVE  a = b
    BY DEF LinkedOnce
  <2>1. CASE a = i \/ b = i
    BY <1>2, <1>3, <2>1
  <2>2. CASE a # i /\ b # i
    <3>1. f(a) = f(b)
      BY <1>1, <2>2 DEF LinkedOnce
    <3> QED BY <2>2, <3>1
  <2> QED BY <2>1, <2>2
<1>5. ASSUME NEW x PROVE Linked(x, r) <=> x = e \/ Linked(x, q)
  <2>1. ASSUME Linked(x, r) PROVE x = e \/ Linked(x, q)
    <3>1. PICK j \in 1 .. Len(r) : r[j] = x
      BY <2>1 DEF Linked
    <3> QED BY <1>1, <1>3, <3>1 DEF Linked
  <2>2. ASSUME x = e PROVE Linked(x, r)
    BY <1>3, <2>2 DEF Linked
  <2>3. ASSUME Linked(x, q) PROVE Linked(x, r)
    <3>1. PICK j \in 1 .. Len(q) : q[j] = x
      BY <2>3 DEF Linked
    <3>2. CASE j < i
      <4>1. j \in 1 .. Len(r) /\ r[j] = x
        BY <3>1, <3>2
      <4> QED BY <4>1 DEF Linked
    <3>3. CASE ~ (j < i)
      <4>1. j + 1 \in 1 .. Len(r) /\ r[j + 1] = x
        BY <3>1, <3>3
      <4> QED BY <4>1 DEF Linked
    <3> QED BY <3>2, <3>3
  <2> QED BY <2>1, <2>2, <2>3
<1> QED BY <1>3, <1>4, <1>5

(* At the head of the list. *)
LEMMA PushFacts ==
    ASSUME NEW S, NEW q \in Seq(S), NEW e \in S, LinkedOnce(q), ~ Linked(e, q)
    PROVE  /\ <<e>> \o q \in Seq(S)
           /\ LinkedOnce(<<e>> \o q)
           /\ \A x : Linked(x, <<e>> \o q) <=> x = e \/ Linked(x, q)
           /\ <<e>> \o q # <<>>
<1> DEFINE r == <<e>> \o q
<1>1. <<e>> \in Seq(S) /\ Len(<<e>>) = 1 /\ <<e>>[1] = e
  OBVIOUS
<1>2. /\ r \in Seq(S) /\ Len(r) = Len(q) + 1
      /\ \A j \in 1 .. Len(r) : r[j] = IF j <= 1 THEN <<e>>[j] ELSE q[j - 1]
  <2>1. /\ r \in Seq(S) /\ Len(r) = Len(<<e>>) + Len(q)
        /\ \A j \in 1 .. Len(<<e>>) + Len(q) :
              r[j] = IF j <= Len(<<e>>) THEN <<e>>[j] ELSE q[j - Len(<<e>>)]
    BY <1>1, ConcatProperties
  <2> QED BY <1>1, <2>1
<1> HIDE DEF r
<1>3. \A j \in 1 .. Len(r) : r[j] = IF j < 1 THEN q[j] ELSE IF j = 1 THEN e ELSE q[j - 1]
  BY <1>1, <1>2
<1>4. 1 \in 1 .. Len(q) + 1
  OBVIOUS
<1>5. /\ LinkedOnce(r)
      /\ \A x : Linked(x, r) <=> x = e \/ Linked(x, q)
      /\ r # <<>>
  BY <1>2, <1>3, <1>4, InsertedFacts
<1> QED BY <1>2, <1>5 DEF r

(* At the tail of the list. *)
LEMMA AppendFacts ==
    ASSUME NEW S, NEW q \in Seq(S), NEW e \in S, LinkedOnce(q), ~ Linked(e, q)
    PROVE  /\ Append(q, e) \in Seq(S)
           /\ LinkedOnce(Append(q, e))
           /\ \A x : Linked(x, Append(q, e)) <=> x = e \/ Linked(x, q)
           /\ Append(q, e) # <<>>
<1> DEFINE r == Append(q, e)
<1>1. /\ r \in Seq(S) /\ Len(r) = Len(q) + 1
      /\ \A j \in 1 .. Len(q) : r[j] = q[j]
      /\ r[Len(q) + 1] = e
  BY AppendProperties
<1> HIDE DEF r
<1>2. PICK n \in 1 .. Len(q) + 1 : n = Len(q) + 1
  OBVIOUS
<1>3. \A j \in 1 .. Len(r) : r[j] = IF j < n THEN q[j] ELSE IF j = n THEN e ELSE q[j - 1]
  BY <1>1, <1>2
<1>4. r \in Seq(S) /\ Len(r) = Len(q) + 1
  BY <1>1
<1>5. /\ LinkedOnce(r)
      /\ \A x : Linked(x, r) <=> x = e \/ Linked(x, q)
      /\ r # <<>>
  BY <1>3, <1>4, InsertedFacts
<1> QED BY <1>4, <1>5 DEF r

(* In the middle of the list: what is at each place afterwards. *)
LEMMA InsertAtElements ==
    ASSUME NEW S, NEW q \in Seq(S), NEW e \in S, NEW i \in 1 .. Len(q) + 1
    PROVE  /\ InsertAt(q, i, e) \in Seq(S)
           /\ Len(InsertAt(q, i, e)) = Len(q) + 1
           /\ \A j \in 1 .. Len(q) + 1 :
                 InsertAt(q, i, e)[j] = IF j < i THEN q[j] ELSE IF j = i THEN e ELSE q[j - 1]
<1> DEFINE before == SubSeq(q, 1, i - 1)
           after  == SubSeq(q, i, Len(q))
           front  == before \o <<e>>
           r      == InsertAt(q, i, e)
<1>1. /\ before \in Seq(S) /\ Len(before) = i - 1
      /\ \A j \in 1 .. i - 1 : before[j] = q[j]
  BY SubSeqProperties
<1>2. /\ after \in Seq(S) /\ Len(after) = Len(q) - i + 1
      /\ \A j \in 1 .. Len(q) - i + 1 : after[j] = q[i + j - 1]
  BY SubSeqProperties
<1>3. r = front \o after
  BY DEF InsertAt
<1>4. <<e>> \in Seq(S) /\ Len(<<e>>) = 1 /\ <<e>>[1] = e
  OBVIOUS
<1> HIDE DEF before, after, r
<1>5. /\ front \in Seq(S) /\ Len(front) = i
      /\ \A j \in 1 .. i : front[j] = IF j < i THEN q[j] ELSE e
  <2>1. /\ front \in Seq(S) /\ Len(front) = Len(before) + Len(<<e>>)
        /\ \A j \in 1 .. Len(before) + Len(<<e>>) :
              front[j] = IF j <= Len(before) THEN before[j] ELSE <<e>>[j - Len(before)]
    BY <1>1, <1>4, ConcatProperties
  <2> HIDE DEF front
  <2> QED BY <1>1, <1>4, <2>1
<1> HIDE DEF front
<1>6. /\ r \in Seq(S) /\ Len(r) = Len(q) + 1
      /\ \A j \in 1 .. Len(r) : r[j] = IF j <= i THEN front[j] ELSE after[j - i]
  <2>1. /\ r \in Seq(S) /\ Len(r) = Len(front) + Len(after)
        /\ \A j \in 1 .. Len(front) + Len(after) :
              r[j] = IF j <= Len(front) THEN front[j] ELSE after[j - Len(front)]
    BY <1>2, <1>3, <1>5, ConcatProperties
  <2> QED BY <1>2, <1>5, <2>1
<1>7. \A j \in 1 .. Len(r) : r[j] = IF j < i THEN q[j] ELSE IF j = i THEN e ELSE q[j - 1]
  <2> TAKE j \in 1 .. Len(r)
  <2>1. CASE j <= i
    BY <1>5, <1>6, <2>1
  <2>2. CASE j > i
    <3>1. j - i \in 1 .. Len(q) - i + 1
      BY <1>6, <2>2
    <3>2. after[j - i] = q[i + (j - i) - 1]
      BY <1>2, <3>1
    <3> QED BY <1>6, <2>2, <3>2
  <2> QED BY <2>1, <2>2
<1> QED BY <1>6, <1>7 DEF r

(* The element is linked, the others still are, and nothing is linked      *)
(* twice.                                                                  *)
LEMMA InsertAtFacts ==
    ASSUME NEW S, NEW q \in Seq(S), NEW e \in S, NEW i \in 1 .. Len(q) + 1,
           LinkedOnce(q), ~ Linked(e, q)
    PROVE  /\ InsertAt(q, i, e) \in Seq(S)
           /\ LinkedOnce(InsertAt(q, i, e))
           /\ \A x : Linked(x, InsertAt(q, i, e)) <=> x = e \/ Linked(x, q)
           /\ InsertAt(q, i, e) # <<>>
<1> DEFINE r == InsertAt(q, i, e)
<1>1. /\ r \in Seq(S) /\ Len(r) = Len(q) + 1
      /\ \A j \in 1 .. Len(q) + 1 :
            r[j] = IF j < i THEN q[j] ELSE IF j = i THEN e ELSE q[j - 1]
  BY InsertAtElements
<1> HIDE DEF r
<1>2. /\ LinkedOnce(r)
      /\ \A x : Linked(x, r) <=> x = e \/ Linked(x, q)
      /\ r # <<>>
  BY <1>1, InsertedFacts
<1> QED BY <1>1, <1>2 DEF r

-----------------------------------------------------------------------------
(* The head of a list *)

(* The first element is linked, the others are linked in the tail. *)
LEMMA HeadFacts ==
    ASSUME NEW S, NEW q \in Seq(S), q # <<>>
    PROVE  /\ Head(q) \in S /\ Linked(Head(q), q)
           /\ Tail(q) \in Seq(S)
           /\ LinkedOnce(q) => /\ LinkedOnce(Tail(q))
                               /\ \A x : Linked(x, Tail(q)) <=> Linked(x, q) /\ x # Head(q)
<1>1. /\ Len(q) \in Nat \ {0}
      /\ Head(q) = q[1] /\ Head(q) \in S
      /\ Tail(q) \in Seq(S) /\ Len(Tail(q)) = Len(q) - 1
      /\ \A j \in 1 .. Len(q) - 1 : Tail(q)[j] = q[j + 1]
  BY HeadTailProperties
<1>2. Linked(Head(q), q)
  BY <1>1 DEF Linked
<1> DEFINE r == Tail(q)
<1>3. ASSUME LinkedOnce(q)
      PROVE  LinkedOnce(r) /\ \A x : Linked(x, r) <=> Linked(x, q) /\ x # Head(q)
  <2> HIDE DEF r
  <2>1. Len(r) = Len(q) - 1 /\ \A j \in 1 .. Len(q) - 1 : r[j] = q[j + 1]
    BY <1>1 DEF r
  <2>2. LinkedOnce(r)
    <3> SUFFICES ASSUME NEW a \in 1 .. Len(r), NEW b \in 1 .. Len(r), r[a] = r[b]
                 PROVE  a = b
      BY DEF LinkedOnce
    <3>1. a + 1 \in 1 .. Len(q) /\ b + 1 \in 1 .. Len(q) /\ q[a + 1] = q[b + 1]
      BY <1>1, <2>1
    <3>2. a + 1 = b + 1
      BY <1>3, <3>1 DEF LinkedOnce
    <3> QED BY <1>1, <2>1, <3>2
  <2>3. ASSUME NEW x, Linked(x, r) PROVE Linked(x, q) /\ x # Head(q)
    <3>1. PICK j \in 1 .. Len(r) : r[j] = x
      BY <2>3 DEF Linked
    <3>2. j + 1 \in 1 .. Len(q) /\ q[j + 1] = x
      BY <1>1, <2>1, <3>1
    <3>3. 1 \in 1 .. Len(q) /\ j + 1 # 1
      BY <1>1, <2>1, <3>1
    <3> QED BY <1>1, <1>3, <3>2, <3>3 DEF Linked, LinkedOnce
  <2>4. ASSUME NEW x, Linked(x, q), x # Head(q) PROVE Linked(x, r)
    <3>1. PICK j \in 1 .. Len(q) : q[j] = x
      BY <2>4 DEF Linked
    <3>2. j - 1 \in 1 .. Len(r) /\ r[j - 1] = x
      BY <1>1, <2>1, <2>4, <3>1
    <3> QED BY <3>2 DEF Linked
  <2> QED BY <2>2, <2>3, <2>4
<1> QED BY <1>1, <1>2, <1>3

(* A list in which nobody is linked is empty. *)
LEMMA EmptyFacts ==
    ASSUME NEW S, NEW q \in Seq(S)
    PROVE  q = <<>> <=> \A x \in S : ~ Linked(x, q)
<1>1. ASSUME q = <<>> PROVE \A x \in S : ~ Linked(x, q)
  BY <1>1 DEF Linked
<1>2. ASSUME q # <<>> PROVE \E x \in S : Linked(x, q)
  BY <1>2, HeadFacts
<1> QED BY <1>1, <1>2

(* What is removed from the head of a list is its first element. *)
LEMMA TailFacts ==
    ASSUME NEW S, NEW q \in Seq(S), q # <<>>, LinkedOnce(q)
    PROVE  RemoveFirst(q, Head(q)) = Tail(q)
<1>1. /\ Len(q) \in Nat \ {0} /\ Head(q) = q[1]
      /\ Tail(q) \in Seq(S) /\ Len(Tail(q)) = Len(q) - 1
      /\ \A j \in 1 .. Len(q) - 1 : Tail(q)[j] = q[j + 1]
  BY HeadTailProperties
<1>2. Linked(Head(q), q)
  BY HeadFacts
<1>3. PICK i \in 1 .. Len(q) : q[i] = Head(q) /\ RemoveFirst(q, Head(q)) = RemoveAt(q, i)
  BY <1>2, RemoveFirstIs
<1>4. i = 1
  <2>1. 1 \in 1 .. Len(q) /\ q[i] = q[1]
    BY <1>1, <1>3
  <2> QED BY <2>1 DEF LinkedOnce
<1> DEFINE r == RemoveAt(q, i)
<1>5. /\ r \in Seq(S) /\ Len(r) = Len(q) - 1
      /\ \A j \in 1 .. Len(q) - 1 : r[j] = q[IF j < i THEN j ELSE j + 1]
  BY RemoveAtFacts
<1>6. r = Tail(q)
  <2> DEFINE u == Tail(q)
  <2> HIDE DEF u, r
  <2>1. u \in Seq(S) /\ r \in Seq(S) /\ Len(u) = Len(q) - 1 /\ Len(r) = Len(q) - 1
    BY <1>1, <1>5 DEF u
  <2>2. ASSUME NEW j \in 1 .. Len(u) PROVE u[j] = r[j]
    <3>1. j \in 1 .. Len(q) - 1 /\ ~ (j < i)
      BY <1>4, <2>1
    <3> QED BY <1>1, <1>5, <3>1 DEF u
  <2>3. u = r
    BY <2>1, <2>2, SeqEqual
  <2> QED BY <2>3 DEF u
<1> QED BY <1>3, <1>6

-----------------------------------------------------------------------------
(* Sorted lists *)

(* The list q is sorted by the values f. *)
SortedBy(q, f) == \A i, j \in 1 .. Len(q) : i < j => f[q[i]] <= f[q[j]]

(* It stays so when an element is removed, whatever that one's value is    *)
(* afterwards.                                                             *)
LEMMA RemoveSorted ==
    ASSUME NEW S, NEW q \in Seq(S), NEW e, LinkedOnce(q), NEW f, NEW g, SortedBy(q, f),
           \A x : Linked(x, q) /\ x # e => g[x] = f[x]
    PROVE  SortedBy(RemoveFirst(q, e), g)
<1>1. CASE ~ Linked(e, q)
  <2>1. RemoveFirst(q, e) = q
    BY <1>1, RemoveFirstFacts
  <2>2. \A j \in 1 .. Len(q) : g[q[j]] = f[q[j]]
    BY <1>1 DEF Linked
  <2> QED BY <2>1, <2>2 DEF SortedBy
<1>2. CASE Linked(e, q)
  <2>1. PICK i \in 1 .. Len(q) : q[i] = e /\ RemoveFirst(q, e) = RemoveAt(q, i)
    BY <1>2, RemoveFirstIs
  <2> DEFINE r == RemoveFirst(q, e)
             k(j) == IF j < i THEN j ELSE j + 1
  <2>2. /\ Len(r) = Len(q) - 1
        /\ \A j \in 1 .. Len(q) - 1 : r[j] = q[k(j)]
    BY <2>1, RemoveAtFacts
  <2> HIDE DEF r
  <2>3. \A j \in 1 .. Len(r) : k(j) \in 1 .. Len(q) /\ k(j) # i
    BY <2>2
  <2>4. \A j \in 1 .. Len(r) : g[r[j]] = f[q[k(j)]]
    <3> TAKE j \in 1 .. Len(r)
    <3>1. r[j] = q[k(j)] /\ k(j) \in 1 .. Len(q) /\ k(j) # i
      BY <2>2, <2>3
    <3> HIDE DEF k
    <3>2. Linked(q[k(j)], q)
      BY <3>1 DEF Linked
    <3>3. q[k(j)] # e
      BY <2>1, <3>1 DEF LinkedOnce
    <3> QED BY <3>1, <3>2, <3>3
  <2>5. ASSUME NEW a \in 1 .. Len(r), NEW b \in 1 .. Len(r), a < b
        PROVE  g[r[a]] <= g[r[b]]
    <3>1. k(a) < k(b)
      BY <2>2, <2>5
    <3> HIDE DEF k
    <3>2. f[q[k(a)]] <= f[q[k(b)]]
      BY <2>3, <3>1 DEF SortedBy
    <3> QED BY <2>4, <3>2
  <2> QED BY <2>5 DEF SortedBy, r
<1> QED BY <1>1, <1>2

(* And when an element is inserted between those that are not greater and  *)
(* those that are.                                                         *)
LEMMA InsertSorted ==
    ASSUME NEW S, NEW q \in Seq(S), NEW e \in S, NEW i \in 1 .. Len(q) + 1,
           NEW g \in [S -> Int], SortedBy(q, g),
           \A j \in 1 .. Len(q) : IF j < i THEN g[q[j]] <= g[e] ELSE g[e] <= g[q[j]]
    PROVE  SortedBy(InsertAt(q, i, e), g)
<1> DEFINE r == InsertAt(q, i, e)
<1>1. /\ Len(r) = Len(q) + 1
      /\ \A j \in 1 .. Len(q) + 1 :
            r[j] = IF j < i THEN q[j] ELSE IF j = i THEN e ELSE q[j - 1]
  BY InsertAtElements
<1> HIDE DEF r
<1>2. \A j \in 1 .. Len(q) : g[q[j]] \in Int
  <2> TAKE j \in 1 .. Len(q)
  <2>1. q[j] \in S
    BY ElementOfSeq
  <2> QED BY <2>1
<1>3. g[e] \in Int
  OBVIOUS
<1>4. ASSUME NEW a \in 1 .. Len(r), NEW b \in 1 .. Len(r), a < b
      PROVE  g[r[a]] <= g[r[b]]
  <2>1. CASE a = i
    <3>1. r[a] = e /\ r[b] = q[b - 1] /\ b - 1 \in 1 .. Len(q) /\ ~ (b - 1 < i)
      BY <1>1, <1>4, <2>1
    <3> QED BY <1>2, <3>1
  <2>2. CASE b = i
    <3>1. r[b] = e /\ r[a] = q[a] /\ a \in 1 .. Len(q) /\ a < i
      BY <1>1, <1>4, <2>2
    <3> QED BY <1>2, <3>1
  <2>3. CASE a # i /\ b # i
    <3> DEFINE k(j) == IF j < i THEN j ELSE j - 1
    <3>1. ASSUME NEW j \in 1 .. Len(r), j # i
          PROVE  k(j) \in 1 .. Len(q) /\ r[j] = q[k(j)]
      <4>1. j \in 1 .. Len(q) + 1
        BY <1>1
      <4>2. CASE j < i
        BY <1>1, <4>1, <4>2
      <4>3. CASE ~ (j < i)
        <5>1. j - 1 \in 1 .. Len(q) /\ k(j) = j - 1
          BY <3>1, <4>1, <4>3
        <5>2. r[j] = q[j - 1]
          BY <1>1, <3>1, <4>1, <4>3
        <5> QED BY <5>1, <5>2
      <4> QED BY <4>2, <4>3
    <3>2. /\ k(a) \in 1 .. Len(q) /\ k(b) \in 1 .. Len(q) /\ k(a) < k(b)
          /\ r[a] = q[k(a)] /\ r[b] = q[k(b)]
      <4>1. a \in Nat /\ b \in Nat /\ i \in Nat
        BY <1>1
      <4>2. k(a) < k(b)
        BY <1>4, <2>3, <4>1
      <4> HIDE DEF k
      <4> QED BY <2>3, <3>1, <4>2
    <3> HIDE DEF k
    <3>3. g[q[k(a)]] <= g[q[k(b)]]
      BY <3>2 DEF SortedBy
    <3> QED BY <1>2, <3>2, <3>3
  <2> QED BY <2>1, <2>2, <2>3
<1> QED BY <1>4 DEF SortedBy, r

-----------------------------------------------------------------------------
(* The ready table *)

(* The ready lists, the priority group and the stat of the threads agree:  *)
(* a thread is linked in the list of its priority exactly if it is READY,  *)
(* but for the threads of D, which rt_thread_delete has unlinked and not   *)
(* closed yet.                                                             *)
Table(k, D) ==
    /\ k \in KernelState
    /\ \A p \in Prio : LinkedOnce(k.rq[p])
    /\ \A p \in Prio, t \in Thread :
          Linked(t, k.rq[p]) => k.stat[t] = "ready" /\ k.prio[t] = p /\ t \notin D
    /\ \A t \in Thread \ D : k.stat[t] = "ready" => Linked(t, k.rq[k.prio[t]])
    /\ k.group = {p \in Prio : k.rq[p] # <<>>}

(* The current thread is the only one RUNNING, and is not READY. *)
Single(k) ==
    /\ k.cur \in Thread => k.stat[k.cur] # "ready"
    /\ \A t \in Thread : k.stat[t] = "running" => t = k.cur

-----------------------------------------------------------------------------
(* The fields of a kernel state *)

(* What TypeOK says of the fields. *)
LEMMA Fields ==
    ASSUME NEW k \in KernelState
    PROVE  /\ k.cur \in Thread \cup {NoThread}
           /\ k.stat \in [Thread -> Stat]
           /\ k.yield \in SUBSET Thread
           /\ k.prio \in [Thread -> Prio]
           /\ k.rq \in [Prio -> Seq(Thread)]
           /\ k.group \in SUBSET Prio
           /\ k.lock \in Nat
           /\ k.armed \in SUBSET Thread
BY DEF KernelState

(* Who is not READY is in no ready list. *)
LEMMA NotLinked ==
    ASSUME NEW D, NEW k, Table(k, D), NEW t \in Thread, k.stat[t] # "ready"
    PROVE  \A p \in Prio : ~ Linked(t, k.rq[p])
BY DEF Table

(* rt_schedule_insert_thread links a thread that is in no ready list. *)
LEMMA InsertTable ==
    ASSUME NEW D, NEW k, Table(k, D), NEW t \in Thread,
           \A p \in Prio : ~ Linked(t, k.rq[p])
    PROVE  LET k1 == InsertThread(k, t)
           IN  /\ Table(k1, D \ {t})
               /\ k1.cur = k.cur /\ k1.prio = k.prio /\ k1.yield = k.yield
               /\ k1.lock = k.lock /\ k1.armed = k.armed
               /\ k1.stat = [k.stat EXCEPT ![t] = IF t = k.cur THEN "running" ELSE "ready"]
<1> DEFINE k1 == InsertThread(k, t)
           p0 == k.prio[t]
<1>1. k \in KernelState /\ p0 \in Prio
  BY Fields DEF Table
<1>2. \A p \in Prio : ~ Linked(t, k.rq[p])
  OBVIOUS
<1>3. CASE t = k.cur
  <2>1. k1 = [k EXCEPT !.stat[t] = "running"]
    BY <1>3 DEF InsertThread
  <2> HIDE DEF k1
  <2>2. /\ k1 \in KernelState /\ k1.rq = k.rq /\ k1.group = k.group
        /\ k1.cur = k.cur /\ k1.prio = k.prio /\ k1.yield = k.yield
        /\ k1.lock = k.lock /\ k1.armed = k.armed
        /\ k1.stat = [k.stat EXCEPT ![t] = "running"]
    BY <1>1, <2>1 DEF KernelState, Stat
  <2>3. Table(k1, D \ {t})
    BY <1>1, <1>2, <2>2, Fields DEF Table
  <2> QED BY <1>3, <2>2, <2>3 DEF k1
<1>4. CASE t # k.cur
  <2> DEFINE q1 == IF t \in k.yield THEN Append(k.rq[p0], t) ELSE <<t>> \o k.rq[p0]
  <2>1. /\ k.rq[p0] \in Seq(Thread) /\ LinkedOnce(k.rq[p0])
    BY <1>1, Fields DEF Table
  <2>2. /\ q1 \in Seq(Thread) /\ LinkedOnce(q1) /\ q1 # <<>>
        /\ \A x : Linked(x, q1) <=> x = t \/ Linked(x, k.rq[p0])
    BY <1>1, <1>2, <2>1, PushFacts, AppendFacts
  <2>3. k1 = [k EXCEPT !.stat[t] = "ready", !.rq[p0] = q1, !.group = @ \cup {p0}]
    BY <1>4 DEF InsertThread
  <2> HIDE DEF q1, k1
  <2>4. /\ k1 \in KernelState
        /\ k1.rq = [k.rq EXCEPT ![p0] = q1] /\ k1.group = k.group \cup {p0}
        /\ k1.cur = k.cur /\ k1.prio = k.prio /\ k1.yield = k.yield
        /\ k1.lock = k.lock /\ k1.armed = k.armed
        /\ k1.stat = [k.stat EXCEPT ![t] = "ready"]
    BY <1>1, <2>2, <2>3 DEF KernelState, Stat
  <2> HIDE DEF p0
  <2>5. \A p \in Prio : k1.rq[p] = IF p = p0 THEN q1 ELSE k.rq[p]
    BY <1>1, <2>4, Fields
  <2>6. \A p \in Prio : LinkedOnce(k1.rq[p])
    BY <2>2, <2>5 DEF Table
  <2>7. \A x \in Thread : k1.stat[x] = IF x = t THEN "ready" ELSE k.stat[x]
    BY <1>1, <2>4, Fields
  <2>8. ASSUME NEW p \in Prio, NEW x \in Thread
        PROVE  Linked(x, k1.rq[p]) <=> (p = p0 /\ x = t) \/ Linked(x, k.rq[p])
    BY <2>2, <2>5
  <2>9. \A p \in Prio, x \in Thread :
           Linked(x, k1.rq[p]) => k1.stat[x] = "ready" /\ k1.prio[x] = p /\ x \notin D \ {t}
    BY <1>2, <2>4, <2>7, <2>8 DEF Table, p0
  <2>10. \A x \in Thread \ (D \ {t}) : k1.stat[x] = "ready" => Linked(x, k1.rq[k1.prio[x]])
    <3> TAKE x \in Thread \ (D \ {t})
    <3> HAVE k1.stat[x] = "ready"
    <3>1. CASE x = t
      BY <1>1, <2>4, <2>8, <3>1 DEF p0
    <3>2. CASE x # t
      <4>1. k.stat[x] = "ready" /\ k.prio[x] \in Prio
        BY <1>1, <2>7, <3>2, Fields
      <4>2. Linked(x, k.rq[k.prio[x]])
        BY <3>2, <4>1 DEF Table
      <4> QED BY <2>4, <2>8, <4>1, <4>2
    <3> QED BY <3>1, <3>2
  <2>11. k1.group = {p \in Prio : k1.rq[p] # <<>>}
    BY <1>1, <2>2, <2>4, <2>5 DEF Table
  <2>12. Table(k1, D \ {t})
    BY <2>4, <2>6, <2>9, <2>10, <2>11 DEF Table
  <2> QED BY <1>4, <2>4, <2>12 DEF k1
<1> QED BY <1>3, <1>4

(* rt_schedule_remove_thread unlinks the thread and nobody else. *)
LEMMA RemoveTable ==
    ASSUME NEW D, NEW k, Table(k, D), NEW t \in Thread
    PROVE  LET k1 == RemoveThread(k, t)
           IN  /\ Table(k1, D \cup {t})
               /\ \A p \in Prio : ~ Linked(t, k1.rq[p])
               /\ k1.cur = k.cur /\ k1.stat = k.stat /\ k1.prio = k.prio
               /\ k1.yield = k.yield /\ k1.lock = k.lock /\ k1.armed = k.armed
<1> DEFINE k1 == RemoveThread(k, t)
           p0 == k.prio[t]
           rq == [p \in Prio |-> RemoveFirst(k.rq[p], t)]
<1>1. /\ k \in KernelState /\ p0 \in Prio
      /\ \A p \in Prio : k.rq[p] \in Seq(Thread) /\ LinkedOnce(k.rq[p])
  BY Fields DEF Table
<1>2. ASSUME NEW p \in Prio
      PROVE  /\ rq[p] \in Seq(Thread)
             /\ LinkedOnce(rq[p])
             /\ ~ Linked(t, rq[p])
             /\ \A x : x # t => (Linked(x, rq[p]) <=> Linked(x, k.rq[p]))
             /\ ~ Linked(t, k.rq[p]) => rq[p] = k.rq[p]
  BY <1>1, RemoveFirstFacts
<1>3. rq \in [Prio -> Seq(Thread)]
  BY <1>2
<1>4. k1 = [k EXCEPT !.rq = rq,
                     !.group = IF rq[p0] = <<>> THEN @ \ {p0} ELSE @]
  BY DEF RemoveThread
<1> HIDE DEF rq, k1, p0
<1>5. /\ k1 \in KernelState
      /\ k1.rq = rq
      /\ k1.group = IF rq[p0] = <<>> THEN k.group \ {p0} ELSE k.group
      /\ k1.cur = k.cur /\ k1.stat = k.stat /\ k1.prio = k.prio
      /\ k1.yield = k.yield /\ k1.lock = k.lock /\ k1.armed = k.armed
  BY <1>1, <1>3, <1>4 DEF KernelState
<1>6. \A p \in Prio : LinkedOnce(k1.rq[p])
  BY <1>2, <1>5
<1>7. \A p \in Prio, x \in Thread :
         Linked(x, k1.rq[p]) => /\ k1.stat[x] = "ready" /\ k1.prio[x] = p
                                /\ x \notin D \cup {t}
  <2> TAKE p \in Prio, x \in Thread
  <2> HAVE Linked(x, k1.rq[p])
  <2>1. x # t /\ Linked(x, k.rq[p])
    BY <1>2, <1>5
  <2> QED BY <1>5, <2>1 DEF Table
<1>8. \A x \in Thread \ (D \cup {t}) :
         k1.stat[x] = "ready" => Linked(x, k1.rq[k1.prio[x]])
  <2> TAKE x \in Thread \ (D \cup {t})
  <2> HAVE k1.stat[x] = "ready"
  <2>1. k.prio[x] \in Prio /\ Linked(x, k.rq[k.prio[x]])
    BY <1>1, <1>5, Fields DEF Table
  <2> QED BY <1>2, <1>5, <2>1
<1>9. k1.group = {p \in Prio : k1.rq[p] # <<>>}
  <2>1. \A p \in Prio : p # p0 => rq[p] = k.rq[p]
    BY <1>2 DEF Table, p0
  <2>2. k.group = {p \in Prio : k.rq[p] # <<>>}
    BY DEF Table
  <2>3. rq[p0] # <<>> => k.rq[p0] # <<>>
    <3>1. SUFFICES ASSUME rq[p0] # <<>>, k.rq[p0] = <<>> PROVE FALSE
      OBVIOUS
    <3>2. ~ Linked(t, k.rq[p0])
      BY <1>1, <3>1, EmptyFacts
    <3> QED BY <1>1, <1>2, <3>1, <3>2
  <2> QED BY <1>1, <1>5, <2>1, <2>2, <2>3
<1>10. Table(k1, D \cup {t})
  BY <1>5, <1>6, <1>7, <1>8, <1>9 DEF Table
<1> QED BY <1>2, <1>5, <1>10 DEF k1

(* An unlinked thread may take any stat but READY. *)
LEMMA SettleTable ==
    ASSUME NEW D, NEW k, Table(k, D), NEW t \in Thread, NEW s \in Stat \ {"ready"},
           \A p \in Prio : ~ Linked(t, k.rq[p]),
           NEW k1 \in KernelState,
           k1.rq = k.rq, k1.group = k.group, k1.prio = k.prio,
           k1.stat = [k.stat EXCEPT ![t] = s]
    PROVE  Table(k1, D \ {t})
<1>1. k \in KernelState
  BY DEF Table
<1>2. \A x \in Thread : k1.stat[x] = IF x = t THEN s ELSE k.stat[x]
  BY <1>1, Fields
<1> QED BY <1>2 DEF Table

(* Only the lists, the group, the stats and the priorities matter. *)
LEMMA SameTable ==
    ASSUME NEW D, NEW k, Table(k, D), NEW k1 \in KernelState,
           k1.rq = k.rq, k1.group = k.group, k1.prio = k.prio, k1.stat = k.stat
    PROVE  Table(k1, D)
BY DEF Table

-----------------------------------------------------------------------------
(* The routines *)

Awake == {"ready", "running"}

(* What every routine leaves alone: who else can run, who is current. *)
SameOthers(k, k1, t) ==
    /\ k1.cur = k.cur /\ k1.lock = k.lock
    /\ \A x \in Thread \ {t} : k1.stat[x] = k.stat[x] /\ k1.prio[x] = k.prio[x]

(* rt_thread_suspend *)
LEMMA SuspendTable ==
    ASSUME NEW D, NEW k, Table(k, D), Single(k), NEW t \in Thread \ D,
           k.stat[t] \in Awake
    PROVE  LET k1 == SuspendThread(k, t)
           IN  /\ Table(k1, D) /\ Single(k1) /\ SameOthers(k, k1, t)
               /\ k1.stat[t] = "suspend" /\ k1.armed = k.armed \ {t} /\ k1.prio = k.prio
<1> DEFINE k0 == RemoveThread(k, t)
           k1 == SuspendThread(k, t)
<1>1. /\ Table(k0, D \cup {t})
      /\ \A p \in Prio : ~ Linked(t, k0.rq[p])
      /\ k0.cur = k.cur /\ k0.stat = k.stat /\ k0.prio = k.prio
      /\ k0.yield = k.yield /\ k0.lock = k.lock /\ k0.armed = k.armed
  BY RemoveTable
<1>2. k1 = [k0 EXCEPT !.stat[t] = "suspend", !.armed = @ \ {t}]
  BY DEF SuspendThread, Awake
<1> HIDE DEF k0, k1
<1>3. k0 \in KernelState /\ k \in KernelState
  BY <1>1 DEF Table
<1>4. /\ k1 \in KernelState
      /\ k1.rq = k0.rq /\ k1.group = k0.group /\ k1.prio = k0.prio
      /\ k1.cur = k0.cur /\ k1.lock = k0.lock /\ k1.armed = k0.armed \ {t}
      /\ k1.stat = [k0.stat EXCEPT ![t] = "suspend"]
  BY <1>2, <1>3 DEF KernelState, Stat
<1>5. Table(k1, (D \cup {t}) \ {t})
  BY <1>1, <1>4, SettleTable DEF Stat
<1>6. Table(k1, D)
  <2>1. (D \cup {t}) \ {t} = D
    OBVIOUS
  <2> QED BY <1>5, <2>1
<1>7. \A x \in Thread : k1.stat[x] = IF x = t THEN "suspend" ELSE k.stat[x]
  BY <1>1, <1>3, <1>4, Fields
<1>8. Single(k1) /\ SameOthers(k, k1, t)
  BY <1>1, <1>4, <1>7 DEF Single, SameOthers
<1> QED BY <1>1, <1>4, <1>6, <1>7, <1>8 DEF k1

(* rt_thread_resume of a suspended thread, and _thread_timeout. *)
LEMMA WakeTable ==
    ASSUME NEW D, NEW k, Table(k, D), Single(k), NEW t \in Thread \ D,
           k.stat[t] # "ready"
    PROVE  LET k1 == InsertThread([k EXCEPT !.armed = @ \ {t}], t)
           IN  /\ Table(k1, D) /\ Single(k1) /\ SameOthers(k, k1, t)
               /\ k1.stat[t] \in Awake /\ k1.armed = k.armed \ {t} /\ k1.prio = k.prio
<1> DEFINE k0 == [k EXCEPT !.armed = @ \ {t}]
           k1 == InsertThread(k0, t)
<1>1. k \in KernelState
  BY DEF Table
<1>2. /\ k0 \in KernelState
      /\ k0.rq = k.rq /\ k0.group = k.group /\ k0.prio = k.prio /\ k0.stat = k.stat
      /\ k0.cur = k.cur /\ k0.lock = k.lock /\ k0.armed = k.armed \ {t}
  BY <1>1 DEF KernelState
<1> HIDE DEF k0
<1>3. Table(k0, D) /\ \A p \in Prio : ~ Linked(t, k0.rq[p])
  BY <1>2, SameTable, NotLinked
<1>4. /\ Table(k1, D \ {t})
      /\ k1.cur = k0.cur /\ k1.prio = k0.prio /\ k1.yield = k0.yield
      /\ k1.lock = k0.lock /\ k1.armed = k0.armed
      /\ k1.stat = [k0.stat EXCEPT ![t] = IF t = k0.cur THEN "running" ELSE "ready"]
  BY <1>3, InsertTable
<1> HIDE DEF k1
<1>5. Table(k1, D)
  <2>1. D \ {t} = D
    OBVIOUS
  <2> QED BY <1>4, <2>1
<1>6. \A x \in Thread : k1.stat[x] = IF x = t
                                     THEN IF t = k.cur THEN "running" ELSE "ready"
                                     ELSE k.stat[x]
  BY <1>1, <1>2, <1>4, Fields
<1>7. Single(k1)
  BY <1>2, <1>4, <1>6 DEF Single
<1>8. SameOthers(k, k1, t) /\ k1.stat[t] \in Awake
  BY <1>2, <1>4, <1>6 DEF SameOthers, Awake
<1> QED BY <1>2, <1>4, <1>5, <1>7, <1>8 DEF k0, k1

(* rt_thread_resume *)
LEMMA ResumeTable ==
    ASSUME NEW D, NEW k, Table(k, D), Single(k), NEW t \in Thread \ D,
           k.stat[t] = "suspend"
    PROVE  LET k1 == ResumeThread(k, t)
           IN  /\ Table(k1, D) /\ Single(k1) /\ SameOthers(k, k1, t)
               /\ k1.stat[t] \in Awake /\ k1.armed = k.armed \ {t} /\ k1.prio = k.prio
<1>1. ResumeThread(k, t) = InsertThread([k EXCEPT !.armed = @ \ {t}], t)
  BY DEF ResumeThread
<1> QED BY <1>1, WakeTable

(* rt_thread_startup *)
LEMMA StartTable ==
    ASSUME NEW D, NEW k, Table(k, D), Single(k), NEW t \in Thread \ D,
           k.stat[t] = "init"
    PROVE  LET k1 == ResumeThread([k EXCEPT !.stat[t] = "suspend"], t)
           IN  /\ Table(k1, D) /\ Single(k1) /\ SameOthers(k, k1, t)
               /\ k1.stat[t] \in Awake /\ k1.armed = k.armed \ {t} /\ k1.prio = k.prio
<1> DEFINE k0 == [k EXCEPT !.stat[t] = "suspend"]
<1>1. k \in KernelState
  BY DEF Table
<1>2. /\ k0 \in KernelState
      /\ k0.rq = k.rq /\ k0.group = k.group /\ k0.prio = k.prio
      /\ k0.cur = k.cur /\ k0.lock = k.lock /\ k0.armed = k.armed
      /\ k0.stat = [k.stat EXCEPT ![t] = "suspend"]
  BY <1>1 DEF KernelState, Stat
<1> HIDE DEF k0
<1>3. Table(k0, D \ {t})
  BY <1>2, NotLinked, SettleTable DEF Stat
<1>4. Table(k0, D)
  <2>1. D \ {t} = D
    OBVIOUS
  <2> QED BY <1>3, <2>1
<1>5. \A x \in Thread : k0.stat[x] = IF x = t THEN "suspend" ELSE k.stat[x]
  BY <1>1, <1>2, Fields
<1>6. Single(k0) /\ SameOthers(k, k0, t)
  BY <1>2, <1>5 DEF Single, SameOthers
<1> DEFINE k1 == ResumeThread(k0, t)
<1>7. /\ Table(k1, D) /\ Single(k1) /\ SameOthers(k0, k1, t)
      /\ k1.stat[t] \in Awake /\ k1.armed = k0.armed \ {t} /\ k1.prio = k0.prio
  BY <1>4, <1>5, <1>6, ResumeTable
<1> HIDE DEF k1
<1> QED BY <1>2, <1>6, <1>7 DEF k0, k1, SameOthers

(* rt_thread_control(RT_THREAD_CTRL_CHANGE_PRIORITY) *)
LEMMA ChangePriorityTable ==
    ASSUME NEW D, NEW k, Table(k, D), Single(k), NEW t \in Thread \ D, NEW p \in Prio
    PROVE  LET k1 == ChangePriority(k, t, p)
           IN  /\ Table(k1, D) /\ Single(k1) /\ SameOthers(k, k1, t)
               /\ k1.stat = k.stat /\ k1.armed = k.armed
<1> DEFINE k1 == ChangePriority(k, t, p)
<1>1. k \in KernelState
  BY DEF Table
<1>2. CASE k.stat[t] = "ready"
  <2> DEFINE k0 == RemoveThread(k, t)
             km == [k0 EXCEPT !.prio[t] = p]
  <2>1. k1 = InsertThread(km, t)
    BY <1>2 DEF ChangePriority
  <2>2. /\ Table(k0, D \cup {t})
        /\ \A r \in Prio : ~ Linked(t, k0.rq[r])
        /\ k0.cur = k.cur /\ k0.stat = k.stat /\ k0.prio = k.prio
        /\ k0.yield = k.yield /\ k0.lock = k.lock /\ k0.armed = k.armed
    BY RemoveTable
  <2> HIDE DEF k0, k1
  <2>3. k0 \in KernelState
    BY <2>2 DEF Table
  <2>4. /\ km \in KernelState
        /\ km.rq = k0.rq /\ km.group = k0.group /\ km.stat = k0.stat
        /\ km.cur = k0.cur /\ km.lock = k0.lock /\ km.armed = k0.armed
        /\ km.prio = [k0.prio EXCEPT ![t] = p]
    BY <2>3 DEF KernelState
  <2> HIDE DEF km
  <2>5. \A x \in Thread : km.prio[x] = IF x = t THEN p ELSE k.prio[x]
    BY <1>1, <2>2, <2>4, Fields
  <2>6. Table(km, D \cup {t})
    BY <2>2, <2>4, <2>5 DEF Table
  <2>7. /\ Table(k1, (D \cup {t}) \ {t})
        /\ k1.cur = km.cur /\ k1.prio = km.prio /\ k1.lock = km.lock /\ k1.armed = km.armed
        /\ k1.stat = [km.stat EXCEPT ![t] = IF t = km.cur THEN "running" ELSE "ready"]
    BY <2>1, <2>2, <2>4, <2>6, InsertTable
  <2>8. Table(k1, D)
    <3>1. (D \cup {t}) \ {t} = D
      OBVIOUS
    <3> QED BY <2>7, <3>1
  <2>9. t # km.cur
    BY <1>2, <2>2, <2>4 DEF Single
  <2>10. k1.stat = k.stat
    BY <1>1, <1>2, <2>2, <2>4, <2>7, <2>9, Fields
  <2>11. Single(k1) /\ SameOthers(k, k1, t)
    BY <2>2, <2>4, <2>5, <2>7, <2>10 DEF Single, SameOthers
  <2> QED BY <2>2, <2>4, <2>7, <2>8, <2>10, <2>11 DEF k1
<1>3. CASE k.stat[t] # "ready"
  <2>1. k1 = [k EXCEPT !.prio[t] = p]
    BY <1>3 DEF ChangePriority
  <2> HIDE DEF k1
  <2>2. /\ k1 \in KernelState
        /\ k1.rq = k.rq /\ k1.group = k.group /\ k1.stat = k.stat
        /\ k1.cur = k.cur /\ k1.lock = k.lock /\ k1.armed = k.armed
        /\ k1.prio = [k.prio EXCEPT ![t] = p]
    BY <1>1, <2>1 DEF KernelState
  <2>3. \A x \in Thread : k1.prio[x] = IF x = t THEN p ELSE k.prio[x]
    BY <1>1, <2>2, Fields
  <2>4. Table(k1, D)
    BY <1>3, <2>2, <2>3 DEF Table
  <2>5. Single(k1) /\ SameOthers(k, k1, t)
    BY <2>2, <2>3 DEF Single, SameOthers
  <2> QED BY <2>2, <2>4, <2>5 DEF k1
<1> QED BY <1>2, <1>3

-----------------------------------------------------------------------------
(* rt_schedule *)

(* The highest priority of the group has a first thread, and it is READY. *)
LEMMA HighestFacts ==
    ASSUME NEW D, NEW k, Table(k, D), k.group # {}
    PROVE  LET p == HighestReady(k)
           IN  /\ p \in k.group /\ \A r \in k.group : p <= r
               /\ k.rq[p] # <<>> /\ Head(k.rq[p]) \in Thread
               /\ Head(k.rq[p]) \notin D
               /\ k.stat[Head(k.rq[p])] = "ready" /\ k.prio[Head(k.rq[p])] = p
<1> DEFINE p == HighestReady(k)
<1>1. /\ k \in KernelState /\ k.group \in SUBSET Prio /\ k.rq \in [Prio -> Seq(Thread)]
      /\ k.group = {r \in Prio : k.rq[r] # <<>>}
  BY Fields DEF Table
<1>2. k.group \in SUBSET Nat
  BY <1>1 DEF Prio
<1>3. p = Min(k.group)
  BY DEF HighestReady, Min
<1>4. p \in k.group /\ \A r \in k.group : p <= r
  BY <1>2, <1>3, MinOfIndices
<1> HIDE DEF p
<1>5. p \in Prio /\ k.rq[p] # <<>> /\ k.rq[p] \in Seq(Thread)
  BY <1>1, <1>4
<1>6. Head(k.rq[p]) \in Thread /\ Linked(Head(k.rq[p]), k.rq[p])
  BY <1>5, HeadFacts
<1>7. /\ k.stat[Head(k.rq[p])] = "ready" /\ k.prio[Head(k.rq[p])] = p
      /\ Head(k.rq[p]) \notin D
  BY <1>5, <1>6 DEF Table
<1> QED BY <1>4, <1>5, <1>6, <1>7 DEF p

(* What every call of rt_schedule preserves. *)
Scheduled(k, k1) ==
    /\ k1.cur \in Thread
    /\ k1.prio = k.prio /\ k1.lock = k.lock /\ k1.armed = k.armed
    /\ \A x \in Thread : \/ k1.stat[x] = k.stat[x]
                         \/ k.stat[x] \in Awake /\ k1.stat[x] \in Awake

(* The current thread stays and is taken out of the ready lists. *)
LEMMA KeepTable ==
    ASSUME NEW D, NEW k, Table(k, D), Single(k), k.cur \in Thread \ D, k.stat[k.cur] = "running"
    PROVE  LET k1 == [RemoveThread(ClearYield(k), k.cur) EXCEPT !.stat[k.cur] = "running"]
           IN  /\ Table(k1, D) /\ Single(k1) /\ Scheduled(k, k1)
               /\ k1.cur = k.cur /\ k1.stat = k.stat
<1> DEFINE t  == k.cur
           kc == ClearYield(k)
           k0 == RemoveThread(kc, t)
           k1 == [k0 EXCEPT !.stat[t] = "running"]
<1>1. k \in KernelState
  BY DEF Table
<1>2. /\ kc \in KernelState
      /\ kc.rq = k.rq /\ kc.group = k.group /\ kc.prio = k.prio /\ kc.stat = k.stat
      /\ kc.cur = k.cur /\ kc.lock = k.lock /\ kc.armed = k.armed
  BY <1>1 DEF KernelState, ClearYield
<1> HIDE DEF kc
<1>3. Table(kc, D)
  BY <1>2, SameTable
<1>4. /\ Table(k0, D \cup {t})
      /\ \A p \in Prio : ~ Linked(t, k0.rq[p])
      /\ k0.cur = kc.cur /\ k0.stat = kc.stat /\ k0.prio = kc.prio
      /\ k0.lock = kc.lock /\ k0.armed = kc.armed
  BY <1>3, RemoveTable
<1> HIDE DEF k0
<1>5. k0 \in KernelState
  BY <1>4 DEF Table
<1>6. /\ k1 \in KernelState
      /\ k1.rq = k0.rq /\ k1.group = k0.group /\ k1.prio = k0.prio
      /\ k1.cur = k0.cur /\ k1.lock = k0.lock /\ k1.armed = k0.armed
      /\ k1.stat = [k0.stat EXCEPT ![t] = "running"]
  BY <1>5 DEF KernelState, Stat
<1> HIDE DEF k1
<1>7. Table(k1, (D \cup {t}) \ {t})
  <2>1. t \in Thread
    OBVIOUS
  <2> HIDE DEF t
  <2> QED BY <1>4, <1>6, <2>1, SettleTable DEF Stat
<1>8. Table(k1, D)
  <2>1. (D \cup {t}) \ {t} = D
    OBVIOUS
  <2> QED BY <1>7, <2>1
<1>9. k1.stat = k.stat
  BY <1>1, <1>2, <1>4, <1>6, Fields
<1>10. Single(k1) /\ Scheduled(k, k1) /\ k1.cur = k.cur
  BY <1>2, <1>4, <1>6, <1>9 DEF Single, Scheduled
<1> QED BY <1>8, <1>9, <1>10 DEF k1, k0, kc

(* The switch to a READY thread. *)
LEMMA SwitchTable ==
    ASSUME NEW D, NEW k, Table(k, D), Single(k), k.cur \in Thread \ D,
           NEW to \in Thread \ D, k.stat[to] = "ready"
    PROVE  LET k1 == SwitchTo(ClearYield(k), to)
           IN  /\ Table(k1, D) /\ Single(k1) /\ Scheduled(k, k1) /\ k1.cur = to
               /\ \A x \in Thread : k1.stat[x] = "ready" =>
                     k.stat[x] = "ready" \/ (x = k.cur /\ k.stat[x] = "running")
<1> DEFINE t    == k.cur
           kc   == ClearYield(k)
           left == [kc EXCEPT !.cur = to]
           back == IF kc.stat[t] = "running" THEN InsertThread(left, t) ELSE left
           k0   == RemoveThread(back, to)
           k1   == [k0 EXCEPT !.stat[to] = "running"]
<1>1. k \in KernelState
  BY DEF Table
<1>2. /\ kc \in KernelState
      /\ kc.rq = k.rq /\ kc.group = k.group /\ kc.prio = k.prio /\ kc.stat = k.stat
      /\ kc.cur = k.cur /\ kc.lock = k.lock /\ kc.armed = k.armed
  BY <1>1 DEF KernelState, ClearYield
<1>3. SwitchTo(kc, to) = k1
  BY <1>2 DEF SwitchTo
<1> HIDE DEF kc
<1>4. /\ left \in KernelState
      /\ left.rq = k.rq /\ left.group = k.group /\ left.prio = k.prio /\ left.stat = k.stat
      /\ left.cur = to /\ left.lock = k.lock /\ left.armed = k.armed
  BY <1>2 DEF KernelState
<1> HIDE DEF left
<1>5. Table(left, D) /\ t # to
  BY <1>4, SameTable DEF Single
<1>6. /\ Table(back, D)
      /\ back.cur = to /\ back.prio = k.prio /\ back.lock = k.lock /\ back.armed = k.armed
      /\ \A x \in Thread : back.stat[x] = IF x = t /\ k.stat[t] = "running"
                                          THEN "ready" ELSE k.stat[x]
  <2>1. CASE k.stat[t] = "running"
    <3>1. back = InsertThread(left, t)
      BY <1>2, <2>1
    <3>2. \A p \in Prio : ~ Linked(t, left.rq[p])
      BY <1>4, <1>5, <2>1, NotLinked
    <3> HIDE DEF back
    <3>3. /\ Table(back, D \ {t})
          /\ back.cur = left.cur /\ back.prio = left.prio
          /\ back.lock = left.lock /\ back.armed = left.armed
          /\ back.stat = [left.stat EXCEPT ![t] = IF t = left.cur THEN "running" ELSE "ready"]
      BY <1>5, <3>1, <3>2, InsertTable
    <3>4. Table(back, D)
      <4>1. D \ {t} = D
        OBVIOUS
      <4> QED BY <3>3, <4>1
    <3>5. back.stat = [k.stat EXCEPT ![t] = "ready"]
      BY <1>4, <1>5, <3>3
    <3> QED BY <1>1, <1>4, <2>1, <3>3, <3>4, <3>5, Fields
  <2>2. CASE k.stat[t] # "running"
    BY <1>2, <1>4, <1>5, <2>2
  <2> QED BY <2>1, <2>2
<1> HIDE DEF back
<1>7. /\ Table(k0, D \cup {to})
      /\ \A p \in Prio : ~ Linked(to, k0.rq[p])
      /\ k0.cur = back.cur /\ k0.stat = back.stat /\ k0.prio = back.prio
      /\ k0.lock = back.lock /\ k0.armed = back.armed
  BY <1>6, RemoveTable
<1> HIDE DEF k0
<1>8. k0 \in KernelState
  BY <1>7 DEF Table
<1>9. /\ k1 \in KernelState
      /\ k1.rq = k0.rq /\ k1.group = k0.group /\ k1.prio = k0.prio
      /\ k1.cur = k0.cur /\ k1.lock = k0.lock /\ k1.armed = k0.armed
      /\ k1.stat = [k0.stat EXCEPT ![to] = "running"]
  BY <1>8 DEF KernelState, Stat
<1> HIDE DEF k1
<1>10. Table(k1, (D \cup {to}) \ {to})
  BY <1>7, <1>9, SettleTable DEF Stat
<1>11. Table(k1, D)
  <2>1. (D \cup {to}) \ {to} = D
    OBVIOUS
  <2> QED BY <1>10, <2>1
<1>12. \A x \in Thread : k1.stat[x] = IF x = to THEN "running" ELSE back.stat[x]
  BY <1>7, <1>8, <1>9, Fields
<1>13. Single(k1)
  BY <1>6, <1>7, <1>9, <1>12 DEF Single
<1>14. Scheduled(k, k1) /\ k1.cur = to
  BY <1>6, <1>7, <1>9, <1>12 DEF Scheduled, Awake
<1>15. \A x \in Thread : k1.stat[x] = "ready" =>
          k.stat[x] = "ready" \/ (x = k.cur /\ k.stat[x] = "running")
  BY <1>6, <1>12
<1> QED BY <1>3, <1>11, <1>13, <1>14, <1>15 DEF kc

(* rt_schedule keeps the ready table exact. *)
LEMMA ScheduleTable ==
    ASSUME NEW D, NEW k, Table(k, D), Single(k), k.cur \in Thread \ D
    PROVE  LET k1 == Schedule(k)
           IN  Table(k1, D) /\ Single(k1) /\ Scheduled(k, k1) /\ k1.cur \notin D
<1>1. CASE k.lock # 0 \/ k.group = {}
  BY <1>1 DEF Schedule, Scheduled
<1>2. CASE k.lock = 0 /\ k.group # {} /\ KeepsCpu(k)
  <2>1. k.stat[k.cur] = "running"
    BY <1>2 DEF KeepsCpu
  <2> QED BY <1>2, <2>1, KeepTable DEF Schedule
<1>3. CASE k.lock = 0 /\ k.group # {} /\ ~ KeepsCpu(k)
  <2> DEFINE to == Head(k.rq[HighestReady(k)])
  <2>1. to \in Thread \ D /\ k.stat[to] = "ready"
    BY <1>3, HighestFacts
  <2>2. Schedule(k) = SwitchTo(ClearYield(k), to)
    BY <1>3 DEF Schedule
  <2> HIDE DEF to
  <2> QED BY <2>1, <2>2, SwitchTable
<1> QED BY <1>1, <1>2, <1>3

(* If the current thread runs, none of a higher priority is READY, but for *)
(* the threads of D.                                                       *)
Top(k, D) ==
    k.stat[k.cur] = "running" =>
        \A x \in Thread \ D : k.stat[x] = "ready" => k.prio[k.cur] <= k.prio[x]

(* The priority of a READY thread has its bit in the group.                *)
LEMMA ReadyInGroup ==
    ASSUME NEW D, NEW k, Table(k, D), NEW x \in Thread \ D, k.stat[x] = "ready"
    PROVE  k.prio[x] \in k.group
<1>1. k.prio[x] \in Prio /\ Linked(x, k.rq[k.prio[x]])
  BY Fields DEF Table
<1>2. k.rq[k.prio[x]] # <<>>
  BY <1>1 DEF Linked
<1> QED BY <1>1, <1>2 DEF Table

(* rt_schedule, when it is not locked, leaves the highest priority running. *)
LEMMA ScheduleTop ==
    ASSUME NEW D, NEW k, Table(k, D), Single(k), k.cur \in Thread \ D, k.lock = 0
    PROVE  Top(Schedule(k), D)
<1> DEFINE k1 == Schedule(k)
<1>1. k.prio \in [Thread -> Prio] /\ k.group \in SUBSET Prio
  BY Fields DEF Table
<1>2. CASE k.group = {}
  <2>1. k1 = k
    BY <1>2 DEF Schedule
  <2> QED BY <1>2, <2>1, ReadyInGroup DEF Top
<1>3. CASE k.group # {} /\ KeepsCpu(k)
  <2>1. k.stat[k.cur] = "running"
    BY <1>3 DEF KeepsCpu
  <2>2. k1.cur = k.cur /\ k1.stat = k.stat /\ k1.prio = k.prio
    BY <1>3, <2>1, KeepTable DEF Schedule, Scheduled
  <2>3. k.prio[k.cur] <= HighestReady(k)
    BY <1>1, <1>3, HighestFacts DEF KeepsCpu, Prio
  <2>4. \A x \in Thread \ D : k.stat[x] = "ready" => HighestReady(k) <= k.prio[x]
    BY <1>3, HighestFacts, ReadyInGroup
  <2>5. HighestReady(k) \in Prio
    BY <1>1, <1>3, HighestFacts
  <2> HIDE DEF k1
  <2>6. ASSUME NEW x \in Thread \ D, k.stat[x] = "ready" PROVE k.prio[k.cur] <= k.prio[x]
    <3>1. k.prio[x] \in Prio /\ k.prio[k.cur] \in Prio /\ HighestReady(k) <= k.prio[x]
      BY <1>1, <2>4, <2>6
    <3> QED BY <2>3, <2>5, <3>1 DEF Prio
  <2> QED BY <2>2, <2>6 DEF Top, k1
<1>4. CASE k.group # {} /\ ~ KeepsCpu(k)
  <2> DEFINE to == Head(k.rq[HighestReady(k)])
  <2>1. to \in Thread \ D /\ k.stat[to] = "ready" /\ k.prio[to] = HighestReady(k)
    BY <1>4, HighestFacts
  <2>2. k1 = SwitchTo(ClearYield(k), to)
    BY <1>4 DEF Schedule
  <2> HIDE DEF to, k1
  <2>3. /\ k1.cur = to /\ k1.prio = k.prio
        /\ \A x \in Thread : k1.stat[x] = "ready" =>
              k.stat[x] = "ready" \/ (x = k.cur /\ k.stat[x] = "running")
    BY <2>1, <2>2, SwitchTable DEF Scheduled
  <2>4. HighestReady(k) \in Prio
    BY <1>1, <1>4, HighestFacts
  <2>5. ASSUME NEW x \in Thread \ D, k1.stat[x] = "ready" PROVE HighestReady(k) <= k.prio[x]
    <3>1. CASE k.stat[x] = "ready"
      BY <1>4, <3>1, HighestFacts, ReadyInGroup
    <3>2. CASE x = k.cur /\ k.stat[x] = "running"
      <4>1. ~ (k.prio[x] < HighestReady(k)) /\ k.prio[x] \in Prio
        BY <1>1, <1>4, <3>2 DEF KeepsCpu
      <4> QED BY <2>4, <4>1 DEF Prio
    <3> QED BY <2>3, <2>5, <3>1, <3>2
  <2> QED BY <2>1, <2>3, <2>5 DEF Top, k1
<1> QED BY <1>2, <1>3, <1>4

(* The thread that rt_schedule takes off the processor for one of another  *)
(* priority is the first of its own list, since its YIELD flag is cleared. *)
LEMMA SwitchFirst ==
    ASSUME NEW D, NEW k, Table(k, D), Single(k), k.cur \in Thread \ D,
           NEW to \in Thread \ D, k.stat[to] = "ready",
           k.stat[k.cur] = "running", k.prio[to] # k.prio[k.cur]
    PROVE  Head(SwitchTo(ClearYield(k), to).rq[k.prio[k.cur]]) = k.cur
<1> DEFINE t    == k.cur
           p0   == k.prio[t]
           kc   == ClearYield(k)
           left == [kc EXCEPT !.cur = to]
           back == InsertThread(left, t)
           k0   == RemoveThread(back, to)
           k1   == [k0 EXCEPT !.stat[to] = "running"]
<1>1. k \in KernelState /\ p0 \in Prio /\ t \in Thread /\ t # to
  BY Fields DEF Table
<1>2. /\ kc \in KernelState
      /\ kc.rq = k.rq /\ kc.group = k.group /\ kc.prio = k.prio /\ kc.stat = k.stat
      /\ kc.cur = t /\ kc.yield = k.yield \ {t}
  BY <1>1 DEF KernelState, ClearYield
<1>3. SwitchTo(kc, to) = k1
  BY <1>2 DEF SwitchTo
<1> HIDE DEF kc
<1>4. /\ left \in KernelState
      /\ left.rq = k.rq /\ left.group = k.group /\ left.prio = k.prio /\ left.stat = k.stat
      /\ left.cur = to /\ left.yield = k.yield \ {t}
  BY <1>2 DEF KernelState
<1> HIDE DEF left
<1>5. Table(left, D) /\ \A p \in Prio : ~ Linked(t, left.rq[p])
  BY <1>1, <1>4, SameTable, NotLinked
<1>6. Table(back, D \ {t}) /\ back.prio = k.prio
  <2>1. t \in Thread /\ back = InsertThread(left, t)
    BY <1>1
  <2> HIDE DEF back, t
  <2>2. /\ Table(back, D \ {t})
        /\ back.cur = left.cur /\ back.prio = left.prio /\ back.yield = left.yield
        /\ back.lock = left.lock /\ back.armed = left.armed
        /\ back.stat = [left.stat EXCEPT ![t] = IF t = left.cur THEN "running" ELSE "ready"]
    <3>1. Table(left, D) /\ t \in Thread
      BY <1>5, <2>1
    <3>2. \A p \in Prio : ~ Linked(t, left.rq[p])
      BY <1>5
    <3> QED BY ONLY <2>1, <3>1, <3>2, InsertTable
  <2> QED BY <1>4, <2>2
<1>7. back.rq[p0] = <<t>> \o k.rq[p0]
  <2>1. back = [left EXCEPT !.stat[t] = "ready", !.rq[p0] = <<t>> \o k.rq[p0],
                            !.group = @ \cup {p0}]
    BY <1>1, <1>4 DEF InsertThread
  <2> HIDE DEF back, t, p0
  <2>2. back.rq = [left.rq EXCEPT ![p0] = <<t>> \o k.rq[p0]]
    BY <1>4, <2>1 DEF KernelState
  <2>3. left.rq = k.rq /\ left.rq \in [Prio -> Seq(Thread)] /\ p0 \in Prio
    BY <1>1, <1>4, Fields
  <2> QED BY ONLY <2>2, <2>3
<1> HIDE DEF back, p0
<1>8. ~ Linked(to, back.rq[p0])
  BY <1>1, <1>6 DEF Table, p0
<1>9. back.rq[p0] \in Seq(Thread) /\ LinkedOnce(back.rq[p0])
  BY <1>1, <1>6, Fields DEF Table
<1>10. RemoveFirst(back.rq[p0], to) = back.rq[p0]
  BY <1>8, <1>9, RemoveFirstFacts
<1>11. k0.rq[p0] = RemoveFirst(back.rq[p0], to) /\ k1.rq = k0.rq
  <2>1. back \in KernelState
    BY <1>6 DEF Table
  <2>2. k0.rq = [p \in Prio |-> RemoveFirst(back.rq[p], to)]
    BY <2>1 DEF RemoveThread, KernelState
  <2>3. Table(k0, (D \ {t}) \cup {to})
    BY <1>6, RemoveTable
  <2> HIDE DEF k0
  <2>4. k1.rq = k0.rq
    BY <2>3 DEF Table, KernelState
  <2> QED BY <1>1, <2>2, <2>4
<1>12. Head(<<t>> \o k.rq[p0]) = t
  <2>1. k.rq[p0] \in Seq(Thread)
    BY <1>1, Fields
  <2> QED BY <1>1, <2>1
<1> HIDE DEF k1, k0
<1> QED BY <1>3, <1>7, <1>10, <1>11, <1>12 DEF kc, p0

(* A thread that lost the processor to a higher priority and can still run *)
(* is the first of its list.                                               *)
PreemptedFirst(k, k1) ==
    /\ k1.cur # k.cur /\ k1.stat[k.cur] = "ready"
    /\ k1.prio[k1.cur] < k1.prio[k.cur]
    => Head(k1.rq[k1.prio[k.cur]]) = k.cur

(* So rt_schedule leaves it. *)
LEMMA ScheduleFirst ==
    ASSUME NEW D, NEW k, Table(k, D), Single(k), k.cur \in Thread \ D
    PROVE  PreemptedFirst(k, Schedule(k))
<1> DEFINE k1 == Schedule(k)
           to == Head(k.rq[HighestReady(k)])
<1> SUFFICES ASSUME k1.cur # k.cur, k1.stat[k.cur] = "ready",
                    k1.prio[k1.cur] < k1.prio[k.cur]
             PROVE  Head(k1.rq[k1.prio[k.cur]]) = k.cur
  BY DEF PreemptedFirst
<1>1. k.lock = 0 /\ k.group # {}
  BY DEF Schedule
<1>2. ~ KeepsCpu(k)
  <2>1. SUFFICES ASSUME KeepsCpu(k) PROVE k1.cur = k.cur
    OBVIOUS
  <2> QED BY <1>1, <2>1, KeepTable DEF Schedule, KeepsCpu
<1>3. k1 = SwitchTo(ClearYield(k), to)
  BY <1>1, <1>2 DEF Schedule
<1>4. to \in Thread \ D /\ k.stat[to] = "ready"
  BY <1>1, HighestFacts
<1> HIDE DEF to, k1
<1>5. /\ k1.cur = to /\ k1.prio = k.prio
      /\ k1.stat[k.cur] = "ready" =>
            k.stat[k.cur] = "ready" \/ k.stat[k.cur] = "running"
  BY <1>3, <1>4, SwitchTable DEF Scheduled
<1>6. k.stat[k.cur] = "running"
  BY <1>5 DEF Single
<1>7. k.prio[to] # k.prio[k.cur]
  <2>1. k.prio[to] \in Int /\ k.prio[k.cur] \in Int /\ k.prio[to] < k.prio[k.cur]
    BY <1>4, <1>5, Fields DEF Table, Prio
  <2> QED BY <2>1
<1> QED BY <1>3, <1>4, <1>5, <1>6, <1>7, SwitchFirst DEF k1

-----------------------------------------------------------------------------
(* A kernel in which the scheduler is never locked and one thread, the     *)
(* idle thread, never waits: Semaphore and Mutex run in it.                *)

(* rt_schedule always finds a thread to run.  D as in Table. *)
Runs(k, D, idle) ==
    /\ Table(k, D) /\ Single(k)
    /\ k.cur \in Thread \ D /\ k.lock = 0
    /\ idle \in Thread \ D /\ k.stat[idle] \in Awake
    /\ k.stat[k.cur] \in {"running", "suspend"}

(* The threads of S are awake now; of the others, those that can run may   *)
(* have changed places.                                                    *)
Wakes(k, k1, S) ==
    \A t \in Thread :
        IF t \in S THEN k1.stat[t] \in Awake
        ELSE k1.stat[t] = k.stat[t] \/ {k.stat[t], k1.stat[t]} \subseteq Awake

(* The same threads are suspended, but for those of S. *)
SameWaits(k, k1, S) ==
    \A t \in Thread : k1.stat[t] = "suspend" <=> k.stat[t] = "suspend" /\ t \notin S

(* Who wakes the threads of S lets all other waiters wait. *)
LEMMA WakesWaits ==
    ASSUME NEW k, NEW k1, NEW S, Wakes(k, k1, S)
    PROVE  SameWaits(k, k1, S)
BY DEF Wakes, SameWaits, Awake

(* What Runs says again of the types. *)
LEMMA RunsType ==
    ASSUME NEW k, NEW D, NEW idle, Runs(k, D, idle)
    PROVE  /\ k \in KernelState /\ k.cur \in Thread /\ k.stat \in [Thread -> Stat]
           /\ k.prio \in [Thread -> Prio] /\ k.armed \in SUBSET Thread
BY Fields DEF Runs, Table

(* A routine that makes the thread t awake, or leaves it as it is. *)
LEMMA WakeRuns ==
    ASSUME NEW k, NEW D, NEW idle, Runs(k, D, idle), NEW t \in Thread,
           NEW k1, Table(k1, D), Single(k1), SameOthers(k, k1, t), k1.stat[t] \in Awake
    PROVE  Runs(k1, D, idle) /\ Wakes(k, k1, {t}) /\ SameWaits(k, k1, {t})
<1>1. Wakes(k, k1, {t})
  BY DEF Wakes, SameOthers
<1>2. k1.stat[idle] \in Awake
  BY DEF Runs, SameOthers
<1>3. k1.stat[k1.cur] \in {"running", "suspend"}
  BY DEF Runs, SameOthers, Single, Awake
<1> QED BY <1>1, <1>2, <1>3, WakesWaits DEF Runs, SameOthers

(* A step that leaves the ready lists, the states and the priorities as    *)
(* they are.                                                               *)
LEMMA SameRuns ==
    ASSUME NEW k, NEW D, NEW idle, Runs(k, D, idle), NEW k1 \in KernelState,
           k1.rq = k.rq, k1.group = k.group, k1.prio = k.prio, k1.stat = k.stat,
           k1.cur = k.cur, k1.lock = k.lock
    PROVE  Runs(k1, D, idle) /\ Wakes(k, k1, {}) /\ SameWaits(k, k1, {})
<1>1. Table(k1, D) /\ Single(k1)
  BY SameTable DEF Runs, Single
<1>2. Wakes(k, k1, {})
  BY DEF Wakes
<1> QED BY <1>1, <1>2, WakesWaits DEF Runs

(* After rt_schedule the current thread is not suspended, and no READY     *)
(* thread has a higher priority.                                           *)
LEMMA ScheduleRuns ==
    ASSUME NEW k, NEW D, NEW idle, Runs(k, D, idle)
    PROVE  LET k1 == Schedule(k)
           IN  /\ Runs(k1, D, idle) /\ Wakes(k, k1, {}) /\ SameWaits(k, k1, {})
               /\ k1.stat[k1.cur] = "running" /\ Top(k1, D)
               /\ k1.armed = k.armed /\ k1.prio = k.prio
<1> DEFINE k1 == Schedule(k)
<1>1. k.cur \in Thread \ D /\ Table(k, D) /\ Single(k) /\ k.lock = 0 /\ idle \in Thread \ D
  BY DEF Runs
<1>2. Table(k1, D) /\ Single(k1) /\ Scheduled(k, k1) /\ k1.cur \notin D
  BY <1>1, ScheduleTable
<1>3. k1.stat[k1.cur] \in Awake
  <2>1. CASE k.group = {}
    <3>1. k1 = k
      BY <2>1 DEF Schedule
    <3>2. k.stat[idle] # "ready"
      <4> SUFFICES ASSUME k.stat[idle] = "ready" PROVE FALSE
        OBVIOUS
      <4>1. k.prio[idle] \in Prio
        BY <1>1, Fields DEF Table
      <4>2. Linked(idle, k.rq[k.prio[idle]]) /\ k.rq[k.prio[idle]] = <<>>
        BY <1>1, <2>1, <4>1 DEF Table
      <4> QED BY <4>2 DEF Linked
    <3>3. k.stat[idle] = "running" /\ idle = k.cur
      BY <1>1, <3>2 DEF Runs, Awake, Single
    <3> QED BY <3>1, <3>3 DEF Awake
  <2>2. CASE k.group # {} /\ KeepsCpu(k)
    <3>1. k.stat[k.cur] = "running"
      BY <2>2 DEF KeepsCpu
    <3>2. k1 = [RemoveThread(ClearYield(k), k.cur) EXCEPT !.stat[k.cur] = "running"]
      BY <1>1, <2>2 DEF Schedule
    <3> HIDE DEF k1
    <3>3. k1.cur = k.cur
      BY <1>1, <3>1, <3>2, KeepTable
    <3> QED BY <1>1, <1>2, <3>1, <3>3 DEF Scheduled, Awake
  <2>3. CASE k.group # {} /\ ~ KeepsCpu(k)
    <3> DEFINE to == Head(k.rq[HighestReady(k)])
    <3>1. to \in Thread \ D /\ k.stat[to] = "ready"
      BY <1>1, <2>3, HighestFacts
    <3>2. k1 = SwitchTo(ClearYield(k), to)
      BY <1>1, <2>3 DEF Schedule
    <3> HIDE DEF to, k1
    <3>3. k1.cur = to
      BY <1>1, <3>1, <3>2, SwitchTable
    <3> QED BY <1>2, <3>1, <3>3 DEF Scheduled, Awake
  <2> QED BY <2>1, <2>2, <2>3
<1>4. Top(k1, D)
  BY <1>1, ScheduleTop
<1> HIDE DEF k1
<1>5. k1.stat[k1.cur] = "running" /\ k1.cur \in Thread
  BY <1>2, <1>3 DEF Single, Scheduled, Awake
<1>6. Wakes(k, k1, {})
  BY <1>2 DEF Wakes, Scheduled
<1>7. k1.stat[idle] \in Awake
  BY <1>1, <1>2 DEF Runs, Scheduled, Awake
<1> QED BY <1>1, <1>2, <1>4, <1>5, <1>6, <1>7, WakesWaits DEF Runs, Scheduled, k1

(* rt_thread_resume of a waiter. *)
LEMMA ResumeRuns ==
    ASSUME NEW k, NEW D, NEW idle, Runs(k, D, idle), NEW t \in Thread \ D,
           k.stat[t] = "suspend"
    PROVE  LET k1 == ResumeThread(k, t)
           IN  /\ Runs(k1, D, idle) /\ Wakes(k, k1, {t}) /\ SameWaits(k, k1, {t})
               /\ k1.cur = k.cur /\ k1.armed = k.armed \ {t} /\ k1.prio = k.prio
<1> DEFINE k1 == ResumeThread(k, t)
<1>1. /\ Table(k1, D) /\ Single(k1) /\ SameOthers(k, k1, t)
      /\ k1.stat[t] \in Awake /\ k1.armed = k.armed \ {t} /\ k1.prio = k.prio
  BY ResumeTable DEF Runs
<1> HIDE DEF k1
<1>2. Runs(k1, D, idle) /\ Wakes(k, k1, {t}) /\ SameWaits(k, k1, {t})
  BY <1>1, WakeRuns
<1> QED BY <1>1, <1>2 DEF SameOthers, k1

(* _thread_timeout of a waiter. *)
LEMMA TimeoutRuns ==
    ASSUME NEW k, NEW D, NEW idle, Runs(k, D, idle), NEW t \in Thread \ D,
           k.stat[t] = "suspend"
    PROVE  LET k1 == TimeoutThread(k, t)
           IN  /\ Runs(k1, D, idle) /\ Wakes(k, k1, {t}) /\ SameWaits(k, k1, {t})
               /\ k1.armed = k.armed \ {t} /\ k1.prio = k.prio
<1> DEFINE k1 == TimeoutThread(k, t)
<1>1. /\ Table(k1, D) /\ Single(k1) /\ SameOthers(k, k1, t)
      /\ k1.stat[t] \in Awake /\ k1.armed = k.armed \ {t} /\ k1.prio = k.prio
  BY WakeTable DEF Runs, TimeoutThread
<1> HIDE DEF k1
<1>2. Runs(k1, D, idle) /\ Wakes(k, k1, {t}) /\ SameWaits(k, k1, {t})
  BY <1>1, WakeRuns
<1> QED BY <1>1, <1>2 DEF k1

(* rt_thread_startup. *)
LEMMA StartRuns ==
    ASSUME NEW k, NEW D, NEW idle, Runs(k, D, idle), NEW t \in Thread \ D,
           k.stat[t] = "init", \A x \in k.armed : k.stat[x] = "suspend"
    PROVE  LET k1 == ResumeThread([k EXCEPT !.stat[t] = "suspend"], t)
           IN  /\ Runs(k1, D, idle) /\ Wakes(k, k1, {t}) /\ SameWaits(k, k1, {})
               /\ k1.cur = k.cur /\ k1.armed = k.armed /\ k1.prio = k.prio
<1> DEFINE k1 == ResumeThread([k EXCEPT !.stat[t] = "suspend"], t)
<1>1. /\ Table(k1, D) /\ Single(k1) /\ SameOthers(k, k1, t)
      /\ k1.stat[t] \in Awake /\ k1.armed = k.armed \ {t} /\ k1.prio = k.prio
  BY StartTable DEF Runs
<1> HIDE DEF k1
<1>2. Runs(k1, D, idle) /\ Wakes(k, k1, {t}) /\ SameWaits(k, k1, {t})
  BY <1>1, WakeRuns
<1>3. t \notin k.armed
  OBVIOUS
<1> QED BY <1>1, <1>2, <1>3 DEF SameOthers, SameWaits, k1

(* rt_thread_suspend of the current thread, and its timer, if any. *)
LEMMA SuspendRuns ==
    ASSUME NEW k, NEW D, NEW idle, Runs(k, D, idle), NEW t \in Thread \ {idle},
           t = k.cur, k.stat[t] = "running",
           NEW k1 \in {SuspendThread(k, t), StartThreadTimer(SuspendThread(k, t), t)}
    PROVE  /\ Runs(k1, D, idle) /\ k1.cur = t /\ k1.prio = k.prio
           /\ k1.stat[t] = "suspend" /\ \A x \in Thread \ {t} : k1.stat[x] = k.stat[x]
           /\ k1.armed \subseteq k.armed \cup {t}
           /\ k1 = SuspendThread(k, t) => k1.armed \subseteq k.armed
<1> DEFINE k0 == SuspendThread(k, t)
<1>1. /\ Table(k0, D) /\ Single(k0) /\ SameOthers(k, k0, t)
      /\ k0.stat[t] = "suspend" /\ k0.armed = k.armed \ {t} /\ k0.prio = k.prio
  BY SuspendTable DEF Runs, Awake
<1>2. k1 \in {k0, [k0 EXCEPT !.armed = @ \cup {t}]}
  BY DEF StartThreadTimer
<1> HIDE DEF k0
<1>3. k0 \in KernelState
  BY <1>1 DEF Table
<1>4. /\ k1 \in KernelState
      /\ k1.rq = k0.rq /\ k1.group = k0.group /\ k1.prio = k0.prio /\ k1.stat = k0.stat
      /\ k1.cur = k0.cur /\ k1.lock = k0.lock
      /\ k1.armed \subseteq k.armed \cup {t}
  <2>1. CASE k1 = k0
    BY <1>1, <1>3, <2>1
  <2>2. CASE k1 = [k0 EXCEPT !.armed = @ \cup {t}]
    <3>1. k1.armed = (k.armed \ {t}) \cup {t}
      BY <1>1, <1>3, <2>2 DEF KernelState
    <3> QED BY <1>1, <1>3, <2>2, <3>1 DEF KernelState
  <2> QED BY <1>2, <2>1, <2>2
<1>5. Table(k1, D) /\ Single(k1)
  BY <1>1, <1>4, SameTable DEF Single
<1>6. Runs(k1, D, idle)
  BY <1>1, <1>4, <1>5 DEF Runs, SameOthers
<1>7. k1 = k0 => k1.armed \subseteq k.armed
  BY <1>1
<1> QED BY <1>1, <1>4, <1>6, <1>7 DEF SameOthers, k0

(* The YIELD flag of the current thread. *)
LEMMA YieldRuns ==
    ASSUME NEW k, NEW D, NEW idle, Runs(k, D, idle)
    PROVE  LET k1 == [k EXCEPT !.yield = @ \cup {k.cur}]
           IN  /\ Runs(k1, D, idle) /\ Wakes(k, k1, {}) /\ SameWaits(k, k1, {})
               /\ k1.armed = k.armed /\ k1.prio = k.prio /\ k1.stat = k.stat
<1> DEFINE k1 == [k EXCEPT !.yield = @ \cup {k.cur}]
<1>1. k \in KernelState /\ k.cur \in Thread
  BY DEF Runs, Table
<1>2. /\ k1 \in KernelState
      /\ k1.rq = k.rq /\ k1.group = k.group /\ k1.prio = k.prio /\ k1.stat = k.stat
      /\ k1.cur = k.cur /\ k1.lock = k.lock /\ k1.armed = k.armed
  BY <1>1 DEF KernelState
<1> HIDE DEF k1
<1> QED BY <1>2, SameRuns DEF k1

(* The priority is changed, whatever list the thread is in. *)
LEMMA PriorityIs ==
    ASSUME NEW k \in KernelState, NEW t \in Thread, NEW p \in Prio
    PROVE  ChangePriority(k, t, p).prio = [k.prio EXCEPT ![t] = p]
<1>1. CASE k.stat[t] = "ready"
  BY <1>1 DEF ChangePriority, InsertThread, RemoveThread, KernelState
<1>2. CASE k.stat[t] # "ready"
  BY <1>2 DEF ChangePriority, KernelState
<1> QED BY <1>1, <1>2

(* RT_THREAD_CTRL_CHANGE_PRIORITY *)
LEMMA PriorityRuns ==
    ASSUME NEW k, NEW D, NEW idle, Runs(k, D, idle), NEW t \in Thread \ D, NEW p \in Prio
    PROVE  LET k1 == ChangePriority(k, t, p)
           IN  /\ Runs(k1, D, idle) /\ Wakes(k, k1, {}) /\ SameWaits(k, k1, {})
               /\ k1.cur = k.cur /\ k1.armed = k.armed /\ k1.stat = k.stat
<1> DEFINE k1 == ChangePriority(k, t, p)
<1>1. /\ Table(k1, D) /\ Single(k1) /\ SameOthers(k, k1, t)
      /\ k1.stat = k.stat /\ k1.armed = k.armed
  BY ChangePriorityTable DEF Runs
<1> HIDE DEF k1
<1>2. Runs(k1, D, idle) /\ Wakes(k, k1, {})
  BY <1>1 DEF Runs, Wakes, SameOthers
<1> QED BY <1>1, <1>2, WakesWaits DEF SameOthers, k1

(* rt_thread_delete takes a thread that is not current out of its list ... *)
LEMMA RemoveRuns ==
    ASSUME NEW k, NEW D, NEW idle, Runs(k, D, idle), NEW t \in Thread \ {idle}, t # k.cur
    PROVE  LET k1 == RemoveThread(k, t)
           IN  /\ Runs(k1, D \cup {t}, idle)
               /\ k1.cur = k.cur /\ k1.armed = k.armed /\ k1.prio = k.prio /\ k1.stat = k.stat
<1> DEFINE k1 == RemoveThread(k, t)
<1>1. /\ Table(k1, D \cup {t})
      /\ k1.cur = k.cur /\ k1.stat = k.stat /\ k1.prio = k.prio
      /\ k1.lock = k.lock /\ k1.armed = k.armed
  BY RemoveTable DEF Runs
<1> HIDE DEF k1
<1> QED BY <1>1 DEF Runs, Single, k1

(* ... and closes it. *)
Shut(k, t) == [k EXCEPT !.stat[t] = "close", !.armed = @ \ {t}]

(* A closed thread is in no list and waits for nothing. *)
LEMMA CloseRuns ==
    ASSUME NEW k, NEW D, NEW idle, Runs(k, D, idle), NEW t \in Thread, t \in D
    PROVE  /\ Runs(Shut(k, t), D \ {t}, idle)
           /\ Shut(k, t).cur = k.cur /\ Shut(k, t).armed = k.armed \ {t}
           /\ Shut(k, t).prio = k.prio
           /\ Shut(k, t).stat = [k.stat EXCEPT ![t] = "close"]
<1> DEFINE k1 == Shut(k, t)
<1>1. k \in KernelState /\ Table(k, D) /\ t # k.cur /\ t # idle
  BY DEF Runs, Table
<1>2. /\ k1 \in KernelState /\ k1.stat = [k.stat EXCEPT ![t] = "close"]
      /\ k1.rq = k.rq /\ k1.group = k.group /\ k1.prio = k.prio
      /\ k1.cur = k.cur /\ k1.lock = k.lock /\ k1.armed = k.armed \ {t}
  BY <1>1 DEF Shut, KernelState, Stat
<1>3. \A p \in Prio : ~ Linked(t, k.rq[p])
  BY DEF Runs, Table
<1> HIDE DEF k1
<1>4. "close" \in Stat \ {"ready"}
  BY DEF Stat
<1>5. Table(k1, D \ {t})
  BY <1>1, <1>2, <1>3, <1>4, SettleTable
<1>6. k.stat \in [Thread -> Stat]
  BY <1>1, Fields
<1>7. Runs(k1, D \ {t}, idle)
  BY <1>1, <1>2, <1>5, <1>6 DEF Runs, Single
<1> QED BY <1>2, <1>7 DEF k1

-----------------------------------------------------------------------------
(* Wait lists: where _ipc_list_suspend links a thread. *)

(* The place of a new waiter by priority: after those that are not lower,  *)
(* before those that are.                                                  *)
LEMMA PrioPlaceFacts ==
    ASSUME NEW q \in Seq(Thread), NEW t \in Thread, NEW prio \in [Thread -> Prio],
           SortedBy(q, prio)
    PROVE  LET i == PrioPlace(q, t, prio)
           IN  /\ i \in 1 .. Len(q) + 1
               /\ \A j \in 1 .. Len(q) :
                     IF j < i THEN prio[q[j]] <= prio[t] ELSE prio[t] <= prio[q[j]]
<1> DEFINE i == PrioPlace(q, t, prio)
           behind == {j \in 1 .. Len(q) : prio[t] < prio[q[j]]}
<1>1. Len(q) \in Nat /\ prio[t] \in Nat /\ \A j \in 1 .. Len(q) : prio[q[j]] \in Nat
  <2>1. ASSUME NEW j \in 1 .. Len(q) PROVE q[j] \in Thread
    BY ElementOfSeq
  <2> QED BY <2>1, KernelAssumption DEF Prio
<1>2. CASE behind = {}
  <2>1. i = Len(q) + 1
    BY <1>2 DEF PrioPlace
  <2> HIDE DEF i
  <2>2. \A j \in 1 .. Len(q) : prio[q[j]] <= prio[t]
    BY <1>1, <1>2
  <2> QED BY <1>1, <2>1, <2>2 DEF i
<1>3. CASE behind # {}
  <2>1. behind \in SUBSET Nat
    BY <1>1
  <2>2. i = Min(behind)
    BY <1>3 DEF PrioPlace, Min
  <2>3. i \in behind /\ \A j \in behind : i <= j
    BY <1>3, <2>1, <2>2, MinOfIndices
  <2> HIDE DEF i
  <2>4. i \in 1 .. Len(q) /\ prio[t] < prio[q[i]]
    BY <2>3
  <2>5. ASSUME NEW j \in 1 .. Len(q), j < i PROVE prio[q[j]] <= prio[t]
    BY <1>1, <2>3, <2>4, <2>5
  <2>6. ASSUME NEW j \in 1 .. Len(q), ~ (j < i) PROVE prio[t] <= prio[q[j]]
    <3>1. prio[q[i]] <= prio[q[j]]
      BY <1>1, <2>4, <2>6 DEF SortedBy
    <3> QED BY <1>1, <2>4, <3>1
  <2>7. i \in 1 .. Len(q) + 1
    BY <1>1, <2>4
  <2> QED BY <2>5, <2>6, <2>7 DEF i
<1> QED BY <1>2, <1>3

(* _ipc_list_suspend links the thread. *)
LEMMA WaitInsertFacts ==
    ASSUME NEW f \in Flag, NEW q \in Seq(Thread), NEW t \in Thread,
           NEW prio \in [Thread -> Prio],
           LinkedOnce(q), ~ Linked(t, q), f = "PRIO" => SortedBy(q, prio)
    PROVE  LET r == WaitInsert(f, q, t, prio)
           IN  /\ r \in Seq(Thread) /\ LinkedOnce(r)
               /\ \A x : Linked(x, r) <=> x = t \/ Linked(x, q)
               /\ f = "PRIO" => SortedBy(r, prio)
<1> DEFINE r == WaitInsert(f, q, t, prio)
<1>1. CASE f = "FIFO"
  <2>1. r = Append(q, t)
    BY <1>1 DEF WaitInsert
  <2> HIDE DEF r
  <2>2. /\ r \in Seq(Thread) /\ LinkedOnce(r)
        /\ \A x : Linked(x, r) <=> x = t \/ Linked(x, q)
    BY <2>1, AppendFacts
  <2>3. f # "PRIO"
    BY <1>1
  <2> QED BY <2>2, <2>3 DEF r
<1>2. CASE f = "PRIO"
  <2> DEFINE i == PrioPlace(q, t, prio)
  <2>1. r = InsertAt(q, i, t)
    BY <1>2 DEF WaitInsert
  <2>2. /\ i \in 1 .. Len(q) + 1
        /\ \A j \in 1 .. Len(q) :
              IF j < i THEN prio[q[j]] <= prio[t] ELSE prio[t] <= prio[q[j]]
    BY <1>2, PrioPlaceFacts
  <2> HIDE DEF i, r
  <2>3. /\ r \in Seq(Thread) /\ LinkedOnce(r)
        /\ \A x : Linked(x, r) <=> x = t \/ Linked(x, q)
    BY <2>1, <2>2, InsertAtFacts
  <2>4. prio \in [Thread -> Int]
    BY KernelAssumption DEF Prio
  <2>5. SortedBy(r, prio)
    BY <1>2, <2>1, <2>2, <2>4, InsertSorted
  <2> QED BY <2>3, <2>5 DEF r
<1> QED BY <1>1, <1>2 DEF Flag

(* Whatever order the list is in, the thread is linked in addition.        *)
LEMMA WaitInsertLinks ==
    ASSUME NEW f \in Flag, NEW q \in Seq(Thread), NEW t \in Thread,
           NEW prio \in [Thread -> Prio], LinkedOnce(q), ~ Linked(t, q)
    PROVE  LET r == WaitInsert(f, q, t, prio)
           IN  /\ r \in Seq(Thread) /\ LinkedOnce(r)
               /\ \A x : Linked(x, r) <=> x = t \/ Linked(x, q)
<1> DEFINE r == WaitInsert(f, q, t, prio)
<1>1. CASE f = "FIFO"
  <2>1. r = Append(q, t)
    BY <1>1 DEF WaitInsert
  <2> HIDE DEF r
  <2>2. /\ r \in Seq(Thread) /\ LinkedOnce(r)
        /\ \A x : Linked(x, r) <=> x = t \/ Linked(x, q)
    BY <2>1, AppendFacts
  <2> QED BY <2>2 DEF r
<1>2. CASE f = "PRIO"
  <2> DEFINE i == PrioPlace(q, t, prio)
             behind == {j \in 1 .. Len(q) : prio[t] < prio[q[j]]}
  <2>1. r = InsertAt(q, i, t)
    BY <1>2 DEF WaitInsert
  <2>2. Len(q) \in Nat /\ behind \in SUBSET Nat
    OBVIOUS
  <2>3. i \in 1 .. Len(q) + 1
    <3>1. CASE behind = {}
      <4>1. i = Len(q) + 1
        BY <3>1 DEF PrioPlace
      <4> QED BY <2>2, <4>1
    <3>2. CASE behind # {}
      <4>1. i = Min(behind)
        BY <3>2 DEF PrioPlace, Min
      <4>2. i \in behind
        BY <3>2, <2>2, <4>1, MinOfIndices
      <4> QED BY <2>2, <4>2
    <3> QED BY <3>1, <3>2
  <2> HIDE DEF i, r
  <2>4. /\ r \in Seq(Thread) /\ LinkedOnce(r)
        /\ \A x : Linked(x, r) <=> x = t \/ Linked(x, q)
    BY <2>1, <2>3, InsertAtFacts
  <2> QED BY <2>4 DEF r
<1> QED BY <1>1, <1>2 DEF Flag

-----------------------------------------------------------------------------
(* Wait lists: the threads in one kind of call that waits *)

(* The wait list w of the call c, in the order f by the priorities g, with *)
(* the places p and the errors e of the threads: those linked are in the   *)
(* call and nobody has ended their wait.                                   *)
Listed(f, g, w, p, e, c) ==
    /\ w \in Seq(Thread) /\ LinkedOnce(w)
    /\ \A t \in Thread : Linked(t, w) => p[t] = c /\ e[t] = "ok"
    /\ f = "PRIO" => SortedBy(w, g)

(* Those who were woken from it and have not gone on yet. *)
Awoken(w, p, e, c) == {t \in Thread : p[t] = c /\ e[t] = "ok" /\ ~ Linked(t, w)}

(* While threads wait, there is a woken one for each of the n things they  *)
(* wait for.                                                               *)
Side(f, g, w, p, e, c, n) ==
    /\ Listed(f, g, w, p, e, c)
    /\ IsFiniteSet(Awoken(w, p, e, c))
    /\ w # <<>> => n <= Cardinality(Awoken(w, p, e, c))

(* The same threads of X are in the call c with their wait not ended. *)
SameIn(X, p, e, p1, e1, c) ==
    \A t \in X : p1[t] = c /\ e1[t] = "ok" <=> p[t] = c /\ e[t] = "ok"

(* Threads come and go elsewhere. *)
LEMMA SideSame ==
    ASSUME NEW f, NEW g, NEW w, NEW p, NEW e, NEW c, NEW n \in Int, Side(f, g, w, p, e, c, n),
           NEW p1, NEW e1, SameIn(Thread, p, e, p1, e1, c), NEW n1 \in Int, n1 <= n
    PROVE  Side(f, g, w, p1, e1, c, n1)
<1>1. Listed(f, g, w, p1, e1, c)
  BY DEF Side, Listed, SameIn
<1>2. Awoken(w, p1, e1, c) = Awoken(w, p, e, c)
  BY DEF Awoken, SameIn
<1>3. Cardinality(Awoken(w, p, e, c)) \in Nat
  BY FS_CardinalityType DEF Side
<1> QED BY <1>1, <1>2, <1>3 DEF Side

(* One waiter is woken, if there is one, and there is one thing more. *)
LEMMA SideWake ==
    ASSUME NEW f, NEW g, NEW w, NEW p, NEW e, NEW c, NEW n \in Int, Side(f, g, w, p, e, c, n),
           NEW p1, NEW e1, SameIn(Thread, p, e, p1, e1, c), NEW n1 \in Int, n1 <= n + 1
    PROVE  Side(f, g, WakeFirst(w), p1, e1, c, n1)
<1> DEFINE w1 == WakeFirst(w)
           A == Awoken(w, p, e, c)
           A1 == Awoken(w1, p1, e1, c)
<1>1. Listed(f, g, w, p1, e1, c)
  BY DEF Side, Listed, SameIn
<1>2. CASE w = <<>>
  <2>1. w1 = <<>>
    BY <1>2 DEF WakeFirst
  <2>2. A1 = A
    BY <1>2, <2>1 DEF Awoken, SameIn
  <2> QED BY <1>1, <1>2, <2>1, <2>2 DEF Side
<1>3. CASE w # <<>>
  <2> DEFINE h == Head(w)
  <2>1. w1 = Tail(w) /\ w \in Seq(Thread) /\ LinkedOnce(w)
    BY <1>1, <1>3 DEF WakeFirst, Listed
  <2>2. /\ h \in Thread /\ Linked(h, w) /\ Tail(w) = RemoveFirst(w, h)
        /\ w1 \in Seq(Thread) /\ LinkedOnce(w1)
        /\ \A x : Linked(x, w1) <=> Linked(x, w) /\ x # h
    BY <1>3, <2>1, HeadFacts, TailFacts
  <2>3. f = "PRIO" => SortedBy(w1, g)
    BY <1>1, <2>1, <2>2, RemoveSorted DEF Listed
  <2> HIDE DEF w1, h
  <2>4. Listed(f, g, w1, p1, e1, c)
    BY <1>1, <2>2, <2>3 DEF Listed
  <2>5. A1 = A \cup {h} /\ h \notin A
    BY <1>1, <2>2 DEF Awoken, SameIn, Listed
  <2>6. IsFiniteSet(A) /\ n <= Cardinality(A)
    BY <1>3 DEF Side
  <2> HIDE DEF A, A1
  <2>7. Cardinality(A) \in Nat
    BY <2>6, FS_CardinalityType
  <2>8. IsFiniteSet(A1) /\ Cardinality(A1) = Cardinality(A) + 1
    BY <2>5, <2>6, FS_AddElement
  <2>9. n1 <= Cardinality(A1)
    BY <2>6, <2>7, <2>8
  <2> QED BY <2>4, <2>8, <2>9 DEF Side, A1, w1
<1> QED BY <1>2, <1>3

(* The wait of thread t, if it waits here, has failed. *)
LEMMA SideDrop ==
    ASSUME NEW f, NEW g, NEW w, NEW p, NEW e, NEW c, NEW n \in Int, Side(f, g, w, p, e, c, n), NEW t \in Thread,
           NEW p1, NEW e1, SameIn(Thread \ {t}, p, e, p1, e1, c), e1[t] # "ok",
           ~ Linked(t, w) => p[t] # c
    PROVE  Side(f, g, RemoveFirst(w, t), p1, e1, c, n)
<1> DEFINE w1 == RemoveFirst(w, t)
<1>1. w \in Seq(Thread) /\ LinkedOnce(w) /\ (f = "PRIO" => SortedBy(w, g))
  BY DEF Side, Listed
<1>2. /\ w1 \in Seq(Thread) /\ LinkedOnce(w1) /\ ~ Linked(t, w1)
      /\ \A x : x # t => (Linked(x, w1) <=> Linked(x, w))
      /\ ~ Linked(t, w) => w1 = w
  BY <1>1, RemoveFirstFacts
<1>3. f = "PRIO" => SortedBy(w1, g)
  BY <1>1, RemoveSorted
<1> HIDE DEF w1
<1>4. Listed(f, g, w1, p1, e1, c)
  BY <1>2, <1>3 DEF Side, Listed, SameIn
<1>5. Awoken(w1, p1, e1, c) = Awoken(w, p, e, c)
  BY <1>2 DEF Awoken, SameIn
<1>6. w1 # <<>> => w # <<>>
  <2> SUFFICES ASSUME w = <<>> PROVE w1 = <<>>
    OBVIOUS
  <2>1. ~ Linked(t, w)
    BY DEF Linked
  <2> QED BY <1>2, <2>1
<1> QED BY <1>4, <1>5, <1>6 DEF Side, w1

(* Thread t begins to wait, or waits again; there is nothing for it. *)
LEMMA SideJoin ==
    ASSUME NEW f \in Flag, NEW g \in [Thread -> Prio],
           NEW w, NEW p, NEW e, NEW c, NEW n \in Int, Side(f, g, w, p, e, c, n), NEW t \in Thread,
           ~ Linked(t, w),
           NEW p1, NEW e1, SameIn(Thread \ {t}, p, e, p1, e1, c),
           p1[t] = c, e1[t] = "ok", NEW n1 \in Int, n1 <= 0
    PROVE  /\ Side(f, g, WaitInsert(f, w, t, g), p1, e1, c, n1)
           /\ \A x : Linked(x, WaitInsert(f, w, t, g)) <=> x = t \/ Linked(x, w)
<1> DEFINE w1 == WaitInsert(f, w, t, g)
           A == Awoken(w, p, e, c)
           A1 == Awoken(w1, p1, e1, c)
<1>1. /\ w \in Seq(Thread) /\ LinkedOnce(w) /\ (f = "PRIO" => SortedBy(w, g))
  BY DEF Side, Listed
<1>3. /\ w1 \in Seq(Thread) /\ LinkedOnce(w1)
      /\ \A x : Linked(x, w1) <=> x = t \/ Linked(x, w)
      /\ f = "PRIO" => SortedBy(w1, g)
  BY <1>1, WaitInsertFacts
<1> HIDE DEF w1
<1>4. Listed(f, g, w1, p1, e1, c)
  BY <1>3 DEF Side, Listed, SameIn
<1>5. A1 = A \ {t}
  BY <1>3 DEF Awoken, SameIn
<1>6. IsFiniteSet(A)
  BY DEF Side
<1> HIDE DEF A, A1
<1>7. IsFiniteSet(A1) /\ Cardinality(A1) \in Nat
  BY <1>5, <1>6, FS_RemoveElement, FS_CardinalityType
<1> QED BY <1>3, <1>4, <1>7 DEF Side, A1, w1

(* A woken thread takes one of the things, or finds none and goes away. *)
LEMMA SideLeave ==
    ASSUME NEW f, NEW g, NEW w, NEW p, NEW e, NEW c, NEW n \in Int, Side(f, g, w, p, e, c, n), NEW t \in Thread,
           ~ Linked(t, w),
           NEW p1, NEW e1, SameIn(Thread \ {t}, p, e, p1, e1, c),
           p1[t] # c, NEW n1 \in Int, n1 <= n - 1 \/ n1 <= 0
    PROVE  Side(f, g, w, p1, e1, c, n1)
<1> DEFINE A == Awoken(w, p, e, c)
           A1 == Awoken(w, p1, e1, c)
<1>1. Listed(f, g, w, p1, e1, c)
  BY DEF Side, Listed, SameIn
<1>2. A1 = A \ {t}
  BY DEF Awoken, SameIn
<1>3. IsFiniteSet(A) /\ (w # <<>> => n <= Cardinality(A))
  BY DEF Side
<1> HIDE DEF A, A1
<1>4. /\ IsFiniteSet(A1)
      /\ Cardinality(A1) = IF t \in A THEN Cardinality(A) - 1 ELSE Cardinality(A)
  BY <1>2, <1>3, FS_RemoveElement
<1>5. Cardinality(A1) \in Nat /\ Cardinality(A) \in Nat
  BY <1>3, <1>4, FS_CardinalityType
<1>6. w # <<>> => n1 <= Cardinality(A1)
  BY <1>3, <1>4, <1>5
<1> QED BY <1>1, <1>4, <1>6 DEF Side, A1

(* All waits fail. *)
LEMMA SideReset ==
    ASSUME NEW f, NEW g, NEW w, NEW p, NEW e, NEW c, NEW n \in Int, Side(f, g, w, p, e, c, n),
           NEW e1, \A t \in Thread : e1[t] = IF Linked(t, w) THEN "error" ELSE e[t],
           NEW n1 \in Int
    PROVE  Side(f, g, <<>>, p, e1, c, n1)
<1>1. \A t : ~ Linked(t, <<>>)
  BY DEF Linked
<1>2. Listed(f, g, <<>>, p, e1, c)
  BY <1>1 DEF Listed, LinkedOnce, SortedBy
<1>3. Awoken(<<>>, p, e1, c) = Awoken(w, p, e, c)
  BY <1>1 DEF Awoken
<1> QED BY <1>2, <1>3 DEF Side
=============================================================================
