--------------------------- MODULE MailboxProofs ---------------------------
(***************************************************************************)
(* Theorems about Mailbox: for any number of threads and any size of the   *)
(* ring, the wait lists are exact, nobody waits in vain, and the mailbox   *)
(* implements BoundedQueue.                                                *)
(***************************************************************************)
EXTENDS Mailbox, KernelProofs

-----------------------------------------------------------------------------
(* The ring *)

(* The slot n places behind slot o. *)
SlotAt(o, n) == IF o + n < Size THEN o + n ELSE o + n - Size

(* The mails of a ring: n of them from slot o on. *)
Mails(p, o, n) == [i \in 1 .. n |-> p[(o + i - 1) % Size]]

Slots == 0 .. Size - 1
Content == Mail \cup {NoMail}

(* The slot n places after another is a slot, and wraps as % does. *)
LEMMA SlotFacts ==
    ASSUME NEW o \in Slots, NEW n \in 0 .. Size
    PROVE  /\ SlotAt(o, n) \in Slots
           /\ n < Size => (o + n) % Size = SlotAt(o, n)
<1>1. Size \in Nat \ {0} /\ o \in Nat /\ n \in Nat
  BY MailboxAssumption DEF Slots
<1>2. SlotAt(o, n) \in Slots
  BY <1>1 DEF SlotAt, Slots
<1>3. n < Size => (o + n) % Size = SlotAt(o, n)
  BY <1>1 DEF SlotAt, Slots
<1> QED BY <1>2, <1>3

(* The mails of a ring are as many as asked for, one slot after the other. *)
LEMMA MailsAre ==
    ASSUME NEW p \in [Slots -> Content], NEW o \in Slots, NEW n \in 0 .. Size
    PROVE  /\ Mails(p, o, n) \in Seq(Content) /\ Len(Mails(p, o, n)) = n
           /\ \A i \in 1 .. n : Mails(p, o, n)[i] = p[SlotAt(o, i - 1)]
<1>1. Size \in Nat \ {0} /\ n \in Nat
  BY MailboxAssumption
<1>2. ASSUME NEW i \in 1 .. n
      PROVE  p[(o + i - 1) % Size] = p[SlotAt(o, i - 1)] /\ p[SlotAt(o, i - 1)] \in Content
  <2>1. i - 1 \in 0 .. Size /\ i - 1 < Size /\ o + (i - 1) = o + i - 1
    BY <1>1, <1>2 DEF Slots
  <2> QED BY <2>1, SlotFacts
<1>3. Mails(p, o, n) = [i \in 1 .. n |-> p[SlotAt(o, i - 1)]]
  BY <1>2 DEF Mails
<1>4. [i \in 1 .. n |-> p[SlotAt(o, i - 1)]] \in [1 .. n -> Content]
  BY <1>2
<1>5. Mails(p, o, n) \in [1 .. n -> Content]
  BY <1>3, <1>4
<1>6. Mails(p, o, n) \in Seq(Content) /\ Len(Mails(p, o, n)) = n
  BY <1>1, <1>5
<1> QED BY <1>3, <1>6

(* A mail put into the slot behind the last one. *)
LEMMA PutMails ==
    ASSUME NEW p \in [Slots -> Content], NEW o \in Slots, NEW n \in 0 .. Size, n < Size,
           NEW m \in Content
    PROVE  Mails([p EXCEPT ![SlotAt(o, n)] = m], o, n + 1) = Append(Mails(p, o, n), m)
<1> DEFINE e == SlotAt(o, n)
           p1 == [p EXCEPT ![e] = m]
           r == Mails(p1, o, n + 1)
           q == Mails(p, o, n)
<1>1. Size \in Nat \ {0} /\ n \in Nat /\ n + 1 \in 0 .. Size /\ o \in Nat /\ o < Size
  BY MailboxAssumption DEF Slots
<1>2. e \in Slots
  BY SlotFacts
<1>3. p1 \in [Slots -> Content] /\ p1[e] = m /\ \A i \in Slots \ {e} : p1[i] = p[i]
  BY <1>2
<1> HIDE DEF p1
<1>4. /\ r \in Seq(Content) /\ Len(r) = n + 1
      /\ \A i \in 1 .. n + 1 : r[i] = p1[SlotAt(o, i - 1)]
  <2> DEFINE k == n + 1
  <2>1. k \in 0 .. Size
    BY <1>1
  <2> HIDE DEF k
  <2>2. /\ Mails(p1, o, k) \in Seq(Content) /\ Len(Mails(p1, o, k)) = k
        /\ \A i \in 1 .. k : Mails(p1, o, k)[i] = p1[SlotAt(o, i - 1)]
    BY <1>3, <2>1, MailsAre
  <2> QED BY <2>2 DEF k
<1>5. /\ q \in Seq(Content) /\ Len(q) = n
      /\ \A i \in 1 .. n : q[i] = p[SlotAt(o, i - 1)]
  BY MailsAre
<1> HIDE DEF r, q
<1>6. /\ Append(q, m) \in Seq(Content) /\ Len(Append(q, m)) = n + 1
      /\ \A i \in 1 .. n : Append(q, m)[i] = q[i]
      /\ Append(q, m)[n + 1] = m
  BY <1>5, AppendProperties
<1>7. ASSUME NEW i \in 1 .. n + 1 PROVE r[i] = Append(q, m)[i]
  <2>1. CASE i = n + 1
    <3>1. SlotAt(o, i - 1) = e
      BY <1>1, <2>1
    <3> QED BY <1>3, <1>4, <1>6, <2>1, <3>1
  <2>2. CASE i # n + 1
    <3>1. i \in 1 .. n /\ i - 1 \in 0 .. Size
      BY <1>1, <2>2
    <3>2. SlotAt(o, i - 1) # e
      BY <1>1, <3>1 DEF SlotAt
    <3>3. SlotAt(o, i - 1) \in Slots
      BY <3>1, SlotFacts
    <3>4. r[i] = p[SlotAt(o, i - 1)]
      BY <1>3, <1>4, <3>2, <3>3
    <3> QED BY <1>5, <1>6, <3>1, <3>4
  <2> QED BY <2>1, <2>2
<1>8. r = Append(q, m)
  BY <1>4, <1>6, <1>7, SeqEqual
<1> QED BY <1>8 DEF r, q, p1

(* The slot before slot o. *)
Preceding(o) == IF o > 0 THEN o - 1 ELSE Size - 1

(* A mail put before the first one. *)
LEMMA UrgentMails ==
    ASSUME NEW p \in [Slots -> Content], NEW o \in Slots, NEW n \in 0 .. Size, n < Size,
           NEW m \in Content
    PROVE  /\ Preceding(o) \in Slots
           /\ SlotAt(Preceding(o), n + 1) = SlotAt(o, n)
           /\ Mails([p EXCEPT ![Preceding(o)] = m], Preceding(o), n + 1) = <<m>> \o Mails(p, o, n)
<1> DEFINE o1 == Preceding(o)
           p1 == [p EXCEPT ![o1] = m]
           r == Mails(p1, o1, n + 1)
           q == Mails(p, o, n)
<1>1. Size \in Nat \ {0} /\ n \in Nat /\ n + 1 \in 0 .. Size /\ o \in Nat /\ o < Size
  BY MailboxAssumption DEF Slots
<1>2. o1 \in Slots /\ SlotAt(o1, n + 1) = SlotAt(o, n)
  BY <1>1 DEF SlotAt, Slots, Preceding
<1> HIDE DEF o1
<1>3. p1 \in [Slots -> Content] /\ p1[o1] = m /\ \A i \in Slots \ {o1} : p1[i] = p[i]
  BY <1>2
<1> HIDE DEF p1
<1>4. /\ r \in Seq(Content) /\ Len(r) = n + 1
      /\ \A i \in 1 .. n + 1 : r[i] = p1[SlotAt(o1, i - 1)]
  <2> DEFINE k == n + 1
  <2>1. k \in 0 .. Size
    BY <1>1
  <2> HIDE DEF k
  <2>2. /\ Mails(p1, o1, k) \in Seq(Content) /\ Len(Mails(p1, o1, k)) = k
        /\ \A i \in 1 .. k : Mails(p1, o1, k)[i] = p1[SlotAt(o1, i - 1)]
    <3>1. p1 \in [Slots -> Content] /\ o1 \in Slots
      BY <1>2, <1>3
    <3> QED BY <2>1, <3>1, MailsAre
  <2> QED BY <2>2 DEF k
<1>5. /\ q \in Seq(Content) /\ Len(q) = n
      /\ \A i \in 1 .. n : q[i] = p[SlotAt(o, i - 1)]
  BY MailsAre
<1> HIDE DEF r, q
<1>6. /\ <<m>> \in Seq(Content) /\ Len(<<m>>) = 1 /\ <<m>>[1] = m
  OBVIOUS
<1>7. /\ <<m>> \o q \in Seq(Content) /\ Len(<<m>> \o q) = 1 + n
      /\ \A i \in 1 .. 1 + n : (<<m>> \o q)[i] = IF i <= 1 THEN <<m>>[i] ELSE q[i - 1]
  BY <1>5, <1>6, ConcatProperties
<1>8. ASSUME NEW i \in 1 .. n + 1 PROVE r[i] = (<<m>> \o q)[i]
  <2>1. CASE i = 1
    <3>1. SlotAt(o1, i - 1) = o1
      BY <1>1, <1>2, <2>1 DEF SlotAt, Slots
    <3>2. (<<m>> \o q)[i] = m
      BY <1>1, <1>6, <1>7, <2>1
    <3> QED BY <1>3, <1>4, <3>1, <3>2
  <2>2. CASE i # 1
    <3>1. i \in 2 .. n + 1 /\ i - 1 \in 1 .. n /\ i - 1 \in 0 .. Size /\ ~ (i <= 1)
      BY <1>1, <2>2
    <3>2. SlotAt(o1, i - 1) = SlotAt(o, i - 1 - 1) /\ SlotAt(o1, i - 1) # o1
      BY <1>1, <3>1 DEF SlotAt, Slots, Preceding, o1
    <3>3. SlotAt(o1, i - 1) \in Slots
      BY <1>2, <3>1, SlotFacts
    <3>4. r[i] = p[SlotAt(o, i - 1 - 1)]
      BY <1>3, <1>4, <3>2, <3>3
    <3>5. (<<m>> \o q)[i] = q[i - 1]
      BY <1>1, <1>7, <3>1
    <3> QED BY <1>5, <3>1, <3>4, <3>5
  <2> QED BY <2>1, <2>2
<1>9. r = <<m>> \o q
  BY <1>1, <1>4, <1>7, <1>8, SeqEqual
<1> QED BY <1>2, <1>9 DEF r, q, p1, o1

(* The first mail is taken out. *)
LEMMA GetMails ==
    ASSUME NEW p \in [Slots -> Content], NEW o \in Slots, NEW n \in 0 .. Size, n > 0
    PROVE  /\ Following(o) \in Slots
           /\ SlotAt(Following(o), n - 1) = SlotAt(o, n)
           /\ Mails(p, o, n) # <<>>
           /\ Head(Mails(p, o, n)) = p[o]
           /\ Tail(Mails(p, o, n)) = Mails(p, Following(o), n - 1)
<1> DEFINE o1 == Following(o)
           q == Mails(p, o, n)
           r == Mails(p, o1, n - 1)
<1>1. /\ Size \in Nat \ {0} /\ n \in Nat /\ n - 1 \in 0 .. Size /\ o \in Nat /\ o < Size
      /\ 1 \in 1 .. n
  BY MailboxAssumption DEF Slots
<1>2. o1 \in Slots /\ SlotAt(o1, n - 1) = SlotAt(o, n)
  BY <1>1 DEF SlotAt, Slots, Following
<1> HIDE DEF o1
<1>3. /\ r \in Seq(Content) /\ Len(r) = n - 1
      /\ \A i \in 1 .. n - 1 : r[i] = p[SlotAt(o1, i - 1)]
  <2> DEFINE k == n - 1
  <2>1. k \in 0 .. Size
    BY <1>1
  <2> HIDE DEF k
  <2>2. /\ Mails(p, o1, k) \in Seq(Content) /\ Len(Mails(p, o1, k)) = k
        /\ \A i \in 1 .. k : Mails(p, o1, k)[i] = p[SlotAt(o1, i - 1)]
    BY <1>2, <2>1, MailsAre
  <2> QED BY <2>2 DEF k
<1>4. /\ q \in Seq(Content) /\ Len(q) = n
      /\ \A i \in 1 .. n : q[i] = p[SlotAt(o, i - 1)]
  BY MailsAre
<1> HIDE DEF q, r
<1>5. q # <<>>
  BY <1>1, <1>4
<1>6. /\ Tail(q) \in Seq(Content) /\ Len(Tail(q)) = n - 1
      /\ \A i \in 1 .. n - 1 : Tail(q)[i] = q[i + 1]
  BY <1>4, <1>5, HeadTailProperties
<1>7. Head(q) = p[o]
  <2>1. SlotAt(o, 1 - 1) = o
    BY <1>1 DEF SlotAt
  <2>2. q[1] = p[o]
    BY <1>1, <1>4, <2>1
  <2> QED BY <1>4, <1>5, <2>2
<1>8. ASSUME NEW i \in 1 .. n - 1 PROVE Tail(q)[i] = r[i]
  <2>1. i + 1 \in 1 .. n /\ SlotAt(o, i + 1 - 1) = SlotAt(o1, i - 1)
    BY <1>1 DEF SlotAt, Following, o1
  <2> QED BY <1>3, <1>4, <1>6, <2>1
<1>9. Tail(q) = r
  BY <1>3, <1>6, <1>8, SeqEqual
<1> QED BY <1>2, <1>5, <1>7, <1>9 DEF q, r, o1

-----------------------------------------------------------------------------
(* The invariant *)

(* The offsets and the number of mails agree, and what a sender wants to   *)
(* send is a mail.                                                         *)
RingExact ==
    /\ in = SlotAt(out, entry)
    /\ \A t \in Thread : pc[t] = "send" => mail[t] \in Mail

MbInv ==
    /\ TypeOK /\ RingExact
    /\ Side(MbFlag, ThreadPrio, recvq, pc, err, "recv", entry)
    /\ Side(MbFlag, ThreadPrio, sendq, pc, err, "send", Size - entry)

(* What every step starts from. *)
LEMMA Facts ==
    ASSUME MbInv
    PROVE  /\ Size \in Nat \ {0}
           /\ pool \in [Slots -> Content]
           /\ in \in Slots /\ out \in Slots /\ entry \in 0 .. Size
           /\ entry \in Int /\ Size - entry \in Int
           /\ Side(MbFlag, ThreadPrio, recvq, pc, err, "recv", entry) /\ Side(MbFlag, ThreadPrio, sendq, pc, err, "send", Size - entry)
           /\ recvq \in Seq(Thread) /\ sendq \in Seq(Thread)
           /\ \A t \in Thread : /\ Linked(t, recvq) => pc[t] = "recv" /\ err[t] = "ok"
                                /\ Linked(t, sendq) => pc[t] = "send" /\ err[t] = "ok"
BY MailboxAssumption DEF MbInv, TypeOK, Side, Listed, Slots, Content

(* An empty mailbox that nobody waits for satisfies the invariant. *)
LEMMA InitInv == Init => MbInv
<1> SUFFICES ASSUME Init PROVE MbInv
  OBVIOUS
<1>1. Size \in Nat \ {0}
  BY MailboxAssumption
<1>2. TypeOK
  <2>1. recvq \in Seq(Thread) /\ sendq \in Seq(Thread)
    BY DEF Init
  <2> QED BY <1>1, <2>1 DEF Init, TypeOK
<1>3. RingExact
  BY <1>1 DEF Init, RingExact, SlotAt
<1>4. /\ \A t : ~ Linked(t, <<>>)
      /\ LinkedOnce(<<>>) /\ SortedBy(<<>>, ThreadPrio)
  BY DEF Linked, LinkedOnce, SortedBy
<1>5. \A c : Listed(MbFlag, ThreadPrio, <<>>, pc, err, c)
  BY <1>4 DEF Listed
<1>6. Awoken(<<>>, pc, err, "recv") = {} /\ Awoken(<<>>, pc, err, "send") = {}
  BY DEF Init, Awoken
<1>7. recvq = <<>> /\ sendq = <<>>
  BY DEF Init
<1>8. IsFiniteSet({})
  BY FS_EmptySet
<1> QED BY <1>2, <1>3, <1>5, <1>6, <1>7, <1>8 DEF MbInv, Side

-----------------------------------------------------------------------------
(* The ring and the queue *)

queue == [i \in 1 .. entry |-> pool[(out + i - 1) % Size]]

(* The queue of the refinement is the mails of the ring. *)
LEMMA QueueIs == queue = Mails(pool, out, entry) /\ queue' = Mails(pool', out', entry')
BY DEF queue, Mails

(* What the invariant says of the ring. *)
LEMMA RingFacts ==
    ASSUME MbInv
    PROVE  /\ Size \in Nat \ {0}
           /\ pool \in [Slots -> Content]
           /\ in \in Slots /\ out \in Slots /\ entry \in 0 .. Size
           /\ in = SlotAt(out, entry)
           /\ Len(queue) = entry
<1>1. pool \in [Slots -> Content] /\ out \in Slots /\ entry \in 0 .. Size
  BY Facts
<1>2. Len(Mails(pool, out, entry)) = entry
  BY <1>1, MailsAre
<1> QED BY <1>2, Facts, QueueIs DEF MbInv, RingExact

(* The end of rt_mb_send_wait. *)
LEMMA PutFacts ==
    ASSUME MbInv, NEW m \in Mail, Put(m)
    PROVE  /\ pool' \in [Slots -> Content] /\ in' \in Slots /\ out' \in Slots
           /\ entry < Size /\ entry' = entry + 1 /\ entry' \in 0 .. Size
           /\ in' = SlotAt(out', entry')
           /\ Len(queue) < Size /\ queue' = Append(queue, m)
           /\ recvq' = WakeFirst(recvq)
<1>1. /\ entry < Size /\ pool' = [pool EXCEPT ![in] = m] /\ in' = Following(in)
      /\ entry' = entry + 1 /\ recvq' = WakeFirst(recvq) /\ out' = out
  BY DEF Put
<1>2. /\ Size \in Nat \ {0} /\ pool \in [Slots -> Content]
      /\ in \in Slots /\ out \in Slots /\ entry \in 0 .. Size
      /\ in = SlotAt(out, entry) /\ Len(queue) = entry /\ m \in Content
  BY RingFacts DEF Content
<1>3. in' \in Slots /\ entry' \in 0 .. Size /\ in' = SlotAt(out, entry + 1)
  BY <1>1, <1>2 DEF Following, SlotAt, Slots
<1>4. pool' \in [Slots -> Content]
  BY <1>1, <1>2
<1>5. Mails([pool EXCEPT ![SlotAt(out, entry)] = m], out, entry + 1)
         = Append(Mails(pool, out, entry), m)
  BY <1>1, <1>2, PutMails
<1>6. queue' = Append(queue, m)
  BY <1>1, <1>2, <1>5, QueueIs
<1> QED BY <1>1, <1>2, <1>3, <1>4, <1>6

(* rt_mb_urgent *)
LEMMA UrgentFacts ==
    ASSUME MbInv, NEW m \in Mail, SendUrgent(m)
    PROVE  /\ pool' \in [Slots -> Content] /\ in' \in Slots /\ out' \in Slots
           /\ entry < Size /\ entry' = entry + 1 /\ entry' \in 0 .. Size
           /\ in' = SlotAt(out', entry')
           /\ Len(queue) < Size /\ queue' = <<m>> \o queue
           /\ recvq' = WakeFirst(recvq)
<1>1. /\ entry < Size /\ out' = Preceding(out)
      /\ pool' = [pool EXCEPT ![out'] = m]
      /\ entry' = entry + 1 /\ recvq' = WakeFirst(recvq) /\ in' = in
  BY DEF SendUrgent, Preceding
<1>2. /\ Size \in Nat \ {0} /\ pool \in [Slots -> Content]
      /\ in \in Slots /\ out \in Slots /\ entry \in 0 .. Size
      /\ in = SlotAt(out, entry) /\ Len(queue) = entry /\ m \in Content
  BY RingFacts DEF Content
<1>3. /\ out' \in Slots /\ SlotAt(out', entry + 1) = SlotAt(out, entry)
      /\ Mails([pool EXCEPT ![out'] = m], out', entry + 1) = <<m>> \o Mails(pool, out, entry)
  BY <1>1, <1>2, UrgentMails
<1>4. pool' \in [Slots -> Content] /\ entry' \in 0 .. Size
  BY <1>1, <1>2, <1>3
<1>5. queue' = <<m>> \o queue
  BY <1>1, <1>3, QueueIs
<1> QED BY <1>1, <1>2, <1>3, <1>4, <1>5

(* The end of rt_mb_recv. *)
LEMMA GetFacts ==
    ASSUME MbInv, NEW t \in Thread, Get(t)
    PROVE  /\ pool' \in [Slots -> Content] /\ in' \in Slots /\ out' \in Slots
           /\ entry > 0 /\ entry' = entry - 1 /\ entry' \in 0 .. Size
           /\ in' = SlotAt(out', entry')
           /\ queue # <<>> /\ queue' = Tail(queue)
           /\ got' = [got EXCEPT ![t] = Head(queue)]
           /\ got' \in [Thread -> Content]
           /\ sendq' = WakeFirst(sendq)
<1>1. /\ entry > 0 /\ got' = [got EXCEPT ![t] = pool[out]] /\ out' = Following(out)
      /\ entry' = entry - 1 /\ sendq' = WakeFirst(sendq) /\ pool' = pool /\ in' = in
  BY DEF Get
<1>2. in = SlotAt(out, entry) /\ got \in [Thread -> Content]
  BY DEF MbInv, RingExact, TypeOK, Content
<1>3. /\ Following(out) \in Slots
      /\ SlotAt(Following(out), entry - 1) = SlotAt(out, entry)
      /\ Mails(pool, out, entry) # <<>>
      /\ Head(Mails(pool, out, entry)) = pool[out]
      /\ Tail(Mails(pool, out, entry)) = Mails(pool, Following(out), entry - 1)
  BY <1>1, Facts, GetMails
<1>4. entry' \in 0 .. Size /\ pool[out] \in Content
  BY <1>1, Facts
<1>5. /\ queue # <<>> /\ queue' = Tail(queue) /\ got' = [got EXCEPT ![t] = Head(queue)]
  BY <1>1, <1>3, QueueIs
<1> QED BY <1>1, <1>2, <1>3, <1>4, <1>5, Facts

-----------------------------------------------------------------------------
(* Steps *)

QueueStep == [Queue!Next]_<<queue, got>>

Places == {"user", "send", "recv", "lookr", "waker", "looks", "wakes", "wild"}
Errors == {"ok", "timeout", "error"}

(* What the type invariant says of threads. *)
LEMMA ThreadFacts ==
    ASSUME MbInv
    PROVE  /\ pc \in [Thread -> Places] /\ limited \subseteq Thread
           /\ err \in [Thread -> Errors] /\ mail \in [Thread -> Mail \cup {NoMail}]
           /\ got \in [Thread -> Content] /\ alive \in BOOLEAN
           /\ \A t \in Thread : pc[t] = "send" => mail[t] \in Mail
BY DEF MbInv, TypeOK, RingExact, Places, Errors, Content

(* The invariant, put together again. *)
LEMMA Together ==
    ASSUME pool' \in [Slots -> Content], in' \in Slots, out' \in Slots, entry' \in 0 .. Size,
           in' = SlotAt(out', entry'),
           pc' \in [Thread -> Places], limited' \subseteq Thread, err' \in [Thread -> Errors],
           mail' \in [Thread -> Mail \cup {NoMail}], got' \in [Thread -> Content],
           alive' \in BOOLEAN,
           \A t \in Thread : pc'[t] = "send" => mail'[t] \in Mail,
           Side(MbFlag, ThreadPrio, recvq', pc', err', "recv", entry'),
           Side(MbFlag, ThreadPrio, sendq', pc', err', "send", Size - entry')
    PROVE  MbInv'
<1>1. recvq' \in Seq(Thread) /\ sendq' \in Seq(Thread)
  BY DEF Side, Listed
<1>2. TypeOK'
  BY <1>1 DEF TypeOK, Slots, Content, Places, Errors
<1>3. RingExact'
  BY DEF RingExact, SlotAt
<1> QED BY <1>2, <1>3 DEF MbInv

(* rt_mb_send and rt_mb_urgent, without waiting. *)
LEMMA SendStep ==
    ASSUME MbInv, NEW m \in Mail, Send(m) \/ SendUrgent(m)
    PROVE  MbInv' /\ QueueStep
<1>1. /\ pool' \in [Slots -> Content] /\ in' \in Slots /\ out' \in Slots
      /\ entry' = entry + 1 /\ entry' \in 0 .. Size /\ in' = SlotAt(out', entry')
      /\ Len(queue) < Size /\ queue' \in {Append(queue, m), <<m>> \o queue}
      /\ recvq' = WakeFirst(recvq)
      /\ UNCHANGED <<sendq, pc, limited, err, mail, got, alive>>
  BY PutFacts, UrgentFacts DEF Send, SendUrgent
<1>2. /\ SameIn(Thread, pc, err, pc', err', "recv")
      /\ SameIn(Thread, pc, err, pc', err', "send")
  BY <1>1 DEF SameIn
<1>3. Size \in Int /\ entry \in Int /\ entry' \in Int /\ Size - entry \in Int /\ Size - entry' \in Int
  BY <1>1, Facts
<1>4. Side(MbFlag, ThreadPrio, recvq', pc', err', "recv", entry')
  BY <1>1, <1>2, <1>3, Facts, SideWake
<1>5. Side(MbFlag, ThreadPrio, sendq', pc', err', "send", Size - entry')
  <2>1. Size - entry' <= Size - entry
    BY <1>1, <1>3
  <2> QED BY <1>1, <1>2, <1>3, <2>1, Facts, SideSame
<1>6. MbInv'
  BY <1>1, <1>4, <1>5, ThreadFacts, Together
<1>7. QueueStep
  BY <1>1 DEF QueueStep, Queue!Next, Queue!Send, Queue!SendUrgent, queue
<1> QED BY <1>6, <1>7

(* rt_mb_recv, without waiting. *)
LEMMA ReceiveStep ==
    ASSUME MbInv, NEW t \in Thread, Receive(t)
    PROVE  MbInv' /\ QueueStep
<1>1. /\ pool' \in [Slots -> Content] /\ in' \in Slots /\ out' \in Slots
      /\ entry' = entry - 1 /\ entry' \in 0 .. Size /\ in' = SlotAt(out', entry')
      /\ queue # <<>> /\ queue' = Tail(queue) /\ got' = [got EXCEPT ![t] = Head(queue)]
      /\ got' \in [Thread -> Content] /\ sendq' = WakeFirst(sendq)
      /\ UNCHANGED <<recvq, pc, limited, err, mail, alive>>
  BY GetFacts DEF Receive
<1>2. /\ SameIn(Thread, pc, err, pc', err', "recv")
      /\ SameIn(Thread, pc, err, pc', err', "send")
  BY <1>1 DEF SameIn
<1>3. Size \in Int /\ entry \in Int /\ entry' \in Int /\ Size - entry \in Int /\ Size - entry' \in Int
  BY <1>1, Facts
<1>4. Side(MbFlag, ThreadPrio, recvq', pc', err', "recv", entry')
  BY <1>1, <1>2, <1>3, Facts, SideSame
<1>5. Side(MbFlag, ThreadPrio, sendq', pc', err', "send", Size - entry')
  <2>1. Size - entry' <= Size - entry + 1
    BY <1>1, <1>3
  <2> QED BY <1>1, <1>2, <1>3, <2>1, Facts, SideWake
<1>6. MbInv'
  BY <1>1, <1>4, <1>5, ThreadFacts, Together
<1>7. QueueStep
  BY <1>1 DEF QueueStep, Queue!Next, Queue!Receive, queue
<1> QED BY <1>6, <1>7

(* A woken sender finds room. *)
LEMMA SendWokenStep ==
    ASSUME MbInv, NEW t \in Thread, SendWoken(t)
    PROVE  MbInv' /\ QueueStep
<1>1. /\ pc[t] = "send" /\ ~ Linked(t, sendq) /\ mail[t] \in Mail
      /\ Put(mail[t])
      /\ pc' = [pc EXCEPT ![t] = "user"] /\ limited' = limited \ {t}
      /\ mail' = [mail EXCEPT ![t] = NoMail]
      /\ UNCHANGED <<sendq, err, got, alive>>
  BY ThreadFacts DEF SendWoken, Woken, Return
<1>2. /\ pool' \in [Slots -> Content] /\ in' \in Slots /\ out' \in Slots
      /\ entry' = entry + 1 /\ entry' \in 0 .. Size /\ in' = SlotAt(out', entry')
      /\ Len(queue) < Size /\ queue' = Append(queue, mail[t])
      /\ recvq' = WakeFirst(recvq)
  BY <1>1, PutFacts
<1>3. /\ pc' \in [Thread -> Places] /\ mail' \in [Thread -> Mail \cup {NoMail}]
      /\ \A x \in Thread : pc'[x] = "send" => mail'[x] \in Mail
      /\ pc'[t] = "user" /\ \A x \in Thread \ {t} : pc'[x] = pc[x]
  BY <1>1, ThreadFacts DEF Places
<1>4. /\ SameIn(Thread, pc, err, pc', err', "recv")
      /\ SameIn(Thread \ {t}, pc, err, pc', err', "send")
  BY <1>1, <1>3 DEF SameIn
<1>5. Size \in Int /\ entry \in Int /\ entry' \in Int /\ Size - entry \in Int /\ Size - entry' \in Int
  BY <1>2, Facts
<1>6. Side(MbFlag, ThreadPrio, recvq', pc', err', "recv", entry')
  BY <1>2, <1>4, <1>5, Facts, SideWake
<1>7. Side(MbFlag, ThreadPrio, sendq', pc', err', "send", Size - entry')
  <2>1. Size - entry' <= Size - entry - 1 /\ pc'[t] # "send"
    BY <1>2, <1>3, <1>5
  <2> QED BY <1>1, <1>4, <1>5, <2>1, Facts, SideLeave
<1>8. MbInv'
  BY <1>1, <1>2, <1>3, <1>6, <1>7, ThreadFacts, Together
<1>9. QueueStep
  BY <1>1, <1>2 DEF QueueStep, Queue!Next, Queue!Send, queue
<1> QED BY <1>8, <1>9

(* A woken receiver finds a mail. *)
LEMMA ReceiveWokenStep ==
    ASSUME MbInv, NEW t \in Thread, ReceiveWoken(t)
    PROVE  MbInv' /\ QueueStep
<1>1. /\ pc[t] = "recv" /\ ~ Linked(t, recvq) /\ Get(t)
      /\ pc' = [pc EXCEPT ![t] = "user"] /\ limited' = limited \ {t}
      /\ mail' = [mail EXCEPT ![t] = NoMail]
      /\ UNCHANGED <<recvq, err, alive>>
  BY DEF ReceiveWoken, Woken, Return
<1>2. /\ pool' \in [Slots -> Content] /\ in' \in Slots /\ out' \in Slots
      /\ entry' = entry - 1 /\ entry' \in 0 .. Size /\ in' = SlotAt(out', entry')
      /\ queue # <<>> /\ queue' = Tail(queue) /\ got' = [got EXCEPT ![t] = Head(queue)]
      /\ got' \in [Thread -> Content] /\ sendq' = WakeFirst(sendq)
  BY <1>1, GetFacts
<1>3. /\ pc' \in [Thread -> Places] /\ mail' \in [Thread -> Mail \cup {NoMail}]
      /\ \A x \in Thread : pc'[x] = "send" => mail'[x] \in Mail
      /\ pc'[t] = "user" /\ \A x \in Thread \ {t} : pc'[x] = pc[x]
  BY <1>1, ThreadFacts DEF Places
<1>4. /\ SameIn(Thread, pc, err, pc', err', "send")
      /\ SameIn(Thread \ {t}, pc, err, pc', err', "recv")
  BY <1>1, <1>3 DEF SameIn
<1>5. Size \in Int /\ entry \in Int /\ entry' \in Int /\ Size - entry \in Int /\ Size - entry' \in Int
  BY <1>2, Facts
<1>6. Side(MbFlag, ThreadPrio, recvq', pc', err', "recv", entry')
  <2>1. pc'[t] # "recv" /\ entry' <= entry - 1
    BY <1>2, <1>3, <1>5
  <2> QED BY <1>1, <1>4, <1>5, <2>1, Facts, SideLeave
<1>7. Side(MbFlag, ThreadPrio, sendq', pc', err', "send", Size - entry')
  <2>1. Size - entry' <= Size - entry + 1
    BY <1>2, <1>5
  <2> QED BY <1>2, <1>4, <1>5, <2>1, Facts, SideWake
<1>8. MbInv'
  BY <1>1, <1>2, <1>3, <1>6, <1>7, ThreadFacts, Together
<1>9. QueueStep
  BY <1>2 DEF QueueStep, Queue!Next, Queue!Receive, queue
<1> QED BY <1>8, <1>9

(* The ring stays as it is. *)
LEMMA Still ==
    ASSUME MbInv, UNCHANGED <<ring, got>>
    PROVE  /\ pool' \in [Slots -> Content] /\ in' \in Slots /\ out' \in Slots
           /\ entry' \in 0 .. Size /\ in' = SlotAt(out', entry')
           /\ entry' = entry /\ Size - entry \in Int /\ entry \in Int
           /\ got' \in [Thread -> Content]
           /\ QueueStep
<1>1. UNCHANGED queue
  BY DEF ring, queue
<1> QED BY <1>1, RingFacts, ThreadFacts, Facts DEF ring, QueueStep

(* A sender waits, or waits again. *)
LEMMA SendWaitStep ==
    ASSUME MbInv, NEW t \in Thread, ~ Linked(t, sendq), entry = Size,
           sendq' = Join(sendq, t), UNCHANGED <<ring, recvq, got, alive>>,
           limited' \subseteq Thread,
           pc[t] # "recv", pc' = [pc EXCEPT ![t] = "send"], err' = [err EXCEPT ![t] = "ok"],
           NEW m \in Mail, mail' = [mail EXCEPT ![t] = m]
    PROVE  MbInv' /\ QueueStep
<1>1. /\ pc' \in [Thread -> Places] /\ err' \in [Thread -> Errors]
      /\ mail' \in [Thread -> Mail \cup {NoMail}]
      /\ \A x \in Thread : pc'[x] = "send" => mail'[x] \in Mail
      /\ pc'[t] = "send" /\ err'[t] = "ok"
      /\ \A x \in Thread \ {t} : pc'[x] = pc[x] /\ err'[x] = err[x]
  BY ThreadFacts DEF Places, Errors
<1>2. /\ SameIn(Thread, pc, err, pc', err', "recv")
      /\ SameIn(Thread \ {t}, pc, err, pc', err', "send")
  BY <1>1 DEF SameIn
<1>3. Side(MbFlag, ThreadPrio, recvq', pc', err', "recv", entry')
  BY <1>2, Still, Facts, SideSame
<1>4. Side(MbFlag, ThreadPrio, sendq', pc', err', "send", Size - entry')
  <2>1. Size - entry' <= 0 /\ Size - entry' \in Int
    BY Still, Facts
  <2> QED BY <1>1, <1>2, <2>1, Facts, SideJoin, MailboxAssumption DEF Join
<1> QED BY <1>1, <1>3, <1>4, Still, ThreadFacts, Together

(* A receiver waits, or waits again. *)
LEMMA ReceiveWaitStep ==
    ASSUME MbInv, NEW t \in Thread, ~ Linked(t, recvq), entry = 0,
           recvq' = Join(recvq, t), UNCHANGED <<ring, sendq, got, alive, mail>>,
           limited' \subseteq Thread,
           pc[t] # "send", pc' = [pc EXCEPT ![t] = "recv"], err' = [err EXCEPT ![t] = "ok"]
    PROVE  MbInv' /\ QueueStep
<1>1. /\ pc' \in [Thread -> Places] /\ err' \in [Thread -> Errors]
      /\ \A x \in Thread : pc'[x] = "send" => mail'[x] \in Mail
      /\ pc'[t] = "recv" /\ err'[t] = "ok"
      /\ \A x \in Thread \ {t} : pc'[x] = pc[x] /\ err'[x] = err[x]
  BY ThreadFacts DEF Places, Errors
<1>2. /\ SameIn(Thread, pc, err, pc', err', "send")
      /\ SameIn(Thread \ {t}, pc, err, pc', err', "recv")
  BY <1>1 DEF SameIn
<1>3. Side(MbFlag, ThreadPrio, sendq', pc', err', "send", Size - entry')
  BY <1>2, Still, Facts, SideSame
<1>4. Side(MbFlag, ThreadPrio, recvq', pc', err', "recv", entry')
  <2>1. entry' <= 0 /\ entry' \in Int
    BY Still, Facts
  <2> QED BY <1>1, <1>2, <2>1, Facts, SideJoin, MailboxAssumption DEF Join
<1> QED BY <1>1, <1>3, <1>4, Still, ThreadFacts, Together

(* A call ends without a mail: its wait has failed, or its time was over   *)
(* when it was woken.                                                      *)
LEMMA ReturnStep ==
    ASSUME MbInv, NEW t \in Thread, Return(t),
           UNCHANGED <<ring, recvq, sendq, err, got, alive>>,
           \/ err[t] # "ok"
           \/ pc[t] = "send" /\ ~ Linked(t, sendq) /\ entry = Size
           \/ pc[t] = "recv" /\ ~ Linked(t, recvq) /\ entry = 0
    PROVE  MbInv' /\ QueueStep
<1>1. /\ pc' \in [Thread -> Places] /\ limited' \subseteq Thread
      /\ mail' \in [Thread -> Mail \cup {NoMail}]
      /\ \A x \in Thread : pc'[x] = "send" => mail'[x] \in Mail
      /\ pc'[t] = "user" /\ \A x \in Thread \ {t} : pc'[x] = pc[x]
  BY ThreadFacts DEF Return, Places
<1>2. /\ SameIn(Thread \ {t}, pc, err, pc', err', "send")
      /\ SameIn(Thread \ {t}, pc, err, pc', err', "recv")
  BY <1>1 DEF SameIn
<1>3. Side(MbFlag, ThreadPrio, recvq', pc', err', "recv", entry')
  <2>1. CASE pc[t] = "recv" /\ err[t] = "ok"
    <3>1. ~ Linked(t, recvq) /\ pc'[t] # "recv" /\ entry' <= 0 /\ entry' \in Int
      BY <1>1, <2>1, Still, Facts
    <3> QED BY <1>2, <3>1, Facts, SideLeave
  <2>2. CASE ~ (pc[t] = "recv" /\ err[t] = "ok")
    <3>1. SameIn(Thread, pc, err, pc', err', "recv")
      BY <1>1, <2>2 DEF SameIn
    <3> QED BY <3>1, Still, Facts, SideSame
  <2> QED BY <2>1, <2>2
<1>4. Side(MbFlag, ThreadPrio, sendq', pc', err', "send", Size - entry')
  <2>1. CASE pc[t] = "send" /\ err[t] = "ok"
    <3>1. ~ Linked(t, sendq) /\ pc'[t] # "send" /\ Size - entry' <= 0 /\ Size - entry' \in Int
      BY <1>1, <2>1, Still, Facts
    <3> QED BY <1>2, <3>1, Facts, SideLeave
  <2>2. CASE ~ (pc[t] = "send" /\ err[t] = "ok")
    <3>1. SameIn(Thread, pc, err, pc', err', "send")
      BY <1>1, <2>2 DEF SameIn
    <3> QED BY <3>1, Still, Facts, SideSame
  <2> QED BY <2>1, <2>2
<1> QED BY <1>1, <1>3, <1>4, Still, ThreadFacts, Together

(* _thread_timeout *)
LEMMA TimerFireStep ==
    ASSUME MbInv, NEW t \in Thread, TimerFire(t)
    PROVE  MbInv' /\ QueueStep
<1>1. /\ Linked(t, recvq) \/ Linked(t, sendq)
      /\ recvq' = RemoveFirst(recvq, t) /\ sendq' = RemoveFirst(sendq, t)
      /\ err' = [err EXCEPT ![t] = "timeout"]
      /\ UNCHANGED <<ring, pc, limited, mail, got, alive>>
  BY DEF TimerFire
<1>2. /\ err' \in [Thread -> Errors] /\ err'[t] # "ok"
      /\ \A x \in Thread \ {t} : err'[x] = err[x]
  BY <1>1, ThreadFacts DEF Errors
<1>3. /\ ~ Linked(t, recvq) => pc[t] # "recv"
      /\ ~ Linked(t, sendq) => pc[t] # "send"
  BY <1>1, Facts
<1>4. /\ SameIn(Thread \ {t}, pc, err, pc', err', "recv")
      /\ SameIn(Thread \ {t}, pc, err, pc', err', "send")
  BY <1>1, <1>2 DEF SameIn
<1>5. Side(MbFlag, ThreadPrio, recvq', pc', err', "recv", entry)
  BY <1>1, <1>2, <1>3, <1>4, Facts, SideDrop
<1>6. Side(MbFlag, ThreadPrio, sendq', pc', err', "send", Size - entry)
  BY <1>1, <1>2, <1>3, <1>4, Facts, SideDrop
<1> QED BY <1>1, <1>2, <1>5, <1>6, Still, ThreadFacts, Together

(* RT_IPC_CMD_RESET *)
LEMMA ResetStep ==
    ASSUME MbInv, NEW t \in Thread, Reset(t)
    PROVE  MbInv' /\ QueueStep
<1>1. /\ err' = [u \in Thread |-> IF Linked(u, recvq) \/ Linked(u, sendq) THEN "error" ELSE err[u]]
      /\ recvq' = <<>> /\ sendq' = <<>> /\ in' = 0 /\ out' = 0 /\ entry' = 0
      /\ UNCHANGED <<pool, pc, limited, mail, got, alive>>
  BY DEF Reset
<1>2. err' \in [Thread -> Errors]
  BY <1>1, ThreadFacts DEF Errors
<1>3. /\ 0 \in Slots /\ 0 \in 0 .. Size /\ SlotAt(0, 0) = 0 /\ Size \in Int /\ Size - 0 = Size
  BY Facts DEF Slots, SlotAt
<1>4. ASSUME NEW w, NEW c, NEW n \in Int, NEW n1 \in Int, Side(MbFlag, ThreadPrio, w, pc, err, c, n),
             <<w, c>> \in {<<recvq, "recv">>, <<sendq, "send">>}
      PROVE  Side(MbFlag, ThreadPrio, <<>>, pc, err', c, n1)
  <2> DEFINE e1 == [u \in Thread |-> IF Linked(u, w) THEN "error" ELSE err[u]]
  <2>1. Side(MbFlag, ThreadPrio, <<>>, pc, e1, c, n1)
    BY <1>4, SideReset
  <2>2. SameIn(Thread, pc, e1, pc, err', c)
    BY <1>1, <1>4, Facts DEF SameIn
  <2> QED BY <2>1, <2>2, SideSame
<1>5. Side(MbFlag, ThreadPrio, recvq', pc', err', "recv", entry')
  BY <1>1, <1>3, <1>4, Facts
<1>6. Side(MbFlag, ThreadPrio, sendq', pc', err', "send", Size - entry')
  <2>1. Side(MbFlag, ThreadPrio, <<>>, pc, err', "send", Size)
    BY <1>3, <1>4, Facts
  <2> QED BY <1>1, <1>3, <2>1
<1>7. MbInv'
  BY <1>1, <1>2, <1>3, <1>5, <1>6, Facts, ThreadFacts, Together
<1>8. queue' = <<>>
  <2>1. Mails(pool', out', entry') \in Seq(Content) /\ Len(Mails(pool', out', entry')) = 0
    BY <1>1, <1>3, Facts, MailsAre
  <2>2. Mails(pool', out', entry') = <<>>
    BY <2>1
  <2> QED BY <2>2, QueueIs
<1>9. QueueStep
  BY <1>1, <1>8 DEF QueueStep, Queue!Next, Queue!Reset, queue
<1> QED BY <1>7, <1>9

(* The steps of a detach that wake nobody. *)
LEMMA DetachStep ==
    ASSUME MbInv, NEW t \in Thread, DetachBegin(t) \/ DetachLook(t) \/ DetachWild(t)
    PROVE  MbInv' /\ QueueStep
<1>1. /\ UNCHANGED <<ring, recvq, sendq, limited, err, mail, got>>
      /\ alive' \in BOOLEAN /\ pc[t] \notin {"send", "recv"}
      /\ \E s \in Places \ {"send", "recv"} : pc' = [pc EXCEPT ![t] = s]
  BY ThreadFacts DEF DetachBegin, DetachLook, DetachWild, Calls, Places
<1>2. /\ pc' \in [Thread -> Places]
      /\ \A x \in Thread : \A c \in {"send", "recv"} : pc'[x] = c <=> pc[x] = c
  BY <1>1, ThreadFacts
<1>3. /\ SameIn(Thread, pc, err, pc', err', "recv")
      /\ SameIn(Thread, pc, err, pc', err', "send")
  BY <1>1, <1>2 DEF SameIn
<1>4. Side(MbFlag, ThreadPrio, recvq', pc', err', "recv", entry') /\ Side(MbFlag, ThreadPrio, sendq', pc', err', "send", Size - entry')
  BY <1>1, <1>3, Still, Facts, SideSame
<1>5. \A x \in Thread : pc'[x] = "send" => mail'[x] \in Mail
  BY <1>1, <1>2, ThreadFacts
<1> QED BY <1>1, <1>2, <1>4, <1>5, Still, ThreadFacts, Together

(* The step that wakes the first thread of one of the lists. *)
LEMMA DetachWakeStep ==
    ASSUME MbInv, NEW t \in Thread, DetachWake(t)
    PROVE  MbInv' /\ QueueStep
<1>1. /\ UNCHANGED <<ring, limited, mail, got, alive>>
      /\ pc[t] \notin {"send", "recv"}
      /\ \E s \in {"lookr", "looks"} : pc' = [pc EXCEPT ![t] = s]
  BY DEF DetachWake
<1>2. /\ pc' \in [Thread -> Places]
      /\ \A x \in Thread : \A c \in {"send", "recv"} : pc'[x] = c <=> pc[x] = c
  BY <1>1, ThreadFacts DEF Places
<1>3. ASSUME NEW w \in Seq(Thread), NEW n \in Int, w # <<>>,
             NEW c \in {"send", "recv"}, Side(MbFlag, ThreadPrio, w, pc, err, c, n),
             err' = [err EXCEPT ![Head(w)] = "error"]
      PROVE  /\ Side(MbFlag, ThreadPrio, Tail(w), pc', err', c, n)
             /\ \A d \in {"send", "recv"} \ {c} : SameIn(Thread, pc, err, pc', err', d)
             /\ err' \in [Thread -> Errors]
  <2> DEFINE h == Head(w)
  <2>1. /\ h \in Thread /\ Linked(h, w) /\ Tail(w) = RemoveFirst(w, h)
    BY <1>3, HeadFacts, TailFacts DEF Side, Listed
  <2>2. pc[h] = c
    BY <1>3, <2>1 DEF Side, Listed
  <2> HIDE DEF h
  <2>3. /\ err' \in [Thread -> Errors] /\ err'[h] # "ok"
        /\ \A x \in Thread \ {h} : err'[x] = err[x]
    BY <1>3, <2>1, ThreadFacts DEF Errors, h
  <2>4. /\ SameIn(Thread \ {h}, pc, err, pc', err', c)
        /\ \A d \in {"send", "recv"} \ {c} : SameIn(Thread, pc, err, pc', err', d)
    BY <1>2, <2>2, <2>3 DEF SameIn
  <2>5. Side(MbFlag, ThreadPrio, RemoveFirst(w, h), pc', err', c, n)
    BY <1>3, <2>1, <2>3, <2>4, SideDrop
  <2> QED BY <2>1, <2>3, <2>4, <2>5
<1>4. CASE recvq # <<>> /\ err' = [err EXCEPT ![Head(recvq)] = "error"] /\ recvq' = Tail(recvq) /\ sendq' = sendq
  <2>1. /\ Side(MbFlag, ThreadPrio, recvq', pc', err', "recv", entry)
        /\ SameIn(Thread, pc, err, pc', err', "send")
        /\ err' \in [Thread -> Errors]
    BY <1>3, <1>4, Facts
  <2>2. Side(MbFlag, ThreadPrio, sendq', pc', err', "send", Size - entry')
    BY <1>1, <1>4, <2>1, Still, Facts, SideSame
  <2> QED BY <1>1, <1>2, <2>1, <2>2, Still, ThreadFacts, Together
<1>5. CASE sendq # <<>> /\ err' = [err EXCEPT ![Head(sendq)] = "error"] /\ sendq' = Tail(sendq) /\ recvq' = recvq
  <2>1. /\ Side(MbFlag, ThreadPrio, sendq', pc', err', "send", Size - entry)
        /\ SameIn(Thread, pc, err, pc', err', "recv")
        /\ err' \in [Thread -> Errors]
    BY <1>3, <1>5, Facts
  <2>2. Side(MbFlag, ThreadPrio, recvq', pc', err', "recv", entry')
    BY <1>1, <1>5, <2>1, Still, Facts, SideSame
  <2> QED BY <1>1, <1>2, <2>1, <2>2, Still, ThreadFacts, Together
<1> QED BY <1>4, <1>5 DEF DetachWake, Cancel

(* Every step keeps the invariant and is a step of BoundedQueue, or none. *)
LEMMA Step ==
    ASSUME MbInv, [Next]_vars
    PROVE  MbInv' /\ QueueStep
<1>1. Senders \subseteq Thread /\ Receivers \subseteq Thread /\ Resetters \subseteq Thread
      /\ Owners \subseteq Thread
  BY MailboxAssumption
<1>2. ASSUME NEW t \in Thread, NEW m \in Mail, SendWait(t, m) PROVE MbInv' /\ QueueStep
  <2>1. ~ Linked(t, sendq) /\ pc[t] # "recv"
    BY <1>2, Facts DEF SendWait, Calls
  <2>2. limited' \subseteq Thread
    BY <1>2, ThreadFacts DEF SendWait
  <2> QED BY <1>2, <2>1, <2>2, SendWaitStep DEF SendWait
<1>3. ASSUME NEW t \in Thread, SendAgain(t) PROVE MbInv' /\ QueueStep
  <2>1. /\ ~ Linked(t, sendq) /\ pc[t] = "send" /\ err[t] = "ok" /\ entry = Size
        /\ UNCHANGED <<ring, recvq, err, got, alive>>
        /\ mail[t] \in Mail
        /\ pc = [pc EXCEPT ![t] = "send"] /\ err = [err EXCEPT ![t] = "ok"]
        /\ mail = [mail EXCEPT ![t] = mail[t]] /\ limited \subseteq Thread
    BY <1>3, ThreadFacts DEF SendAgain, Woken
  <2>2. CASE sendq' = Join(sendq, t) /\ UNCHANGED <<pc, limited, mail>>
    <3>1. /\ pc' = [pc EXCEPT ![t] = "send"] /\ err' = [err EXCEPT ![t] = "ok"]
          /\ mail' = [mail EXCEPT ![t] = mail[t]] /\ limited' \subseteq Thread
      BY <2>1, <2>2
    <3> QED BY <2>1, <2>2, <3>1, SendWaitStep
  <2>3. CASE Return(t) /\ UNCHANGED sendq
    BY <2>1, <2>3, ReturnStep
  <2> QED BY <1>3, <2>2, <2>3 DEF SendAgain
<1>4. ASSUME NEW t \in Thread, ReceiveWait(t) PROVE MbInv' /\ QueueStep
  <2>1. ~ Linked(t, recvq) /\ pc[t] # "send"
    BY <1>4, Facts DEF ReceiveWait, Calls
  <2>2. limited' \subseteq Thread
    BY <1>4, ThreadFacts DEF ReceiveWait
  <2> QED BY <1>4, <2>1, <2>2, ReceiveWaitStep DEF ReceiveWait
<1>5. ASSUME NEW t \in Thread, ReceiveAgain(t) PROVE MbInv' /\ QueueStep
  <2>1. /\ ~ Linked(t, recvq) /\ pc[t] = "recv" /\ err[t] = "ok" /\ entry = 0
        /\ UNCHANGED <<ring, sendq, err, got, alive>>
        /\ pc = [pc EXCEPT ![t] = "recv"] /\ err = [err EXCEPT ![t] = "ok"]
        /\ limited \subseteq Thread
    BY <1>5, ThreadFacts DEF ReceiveAgain, Woken
  <2>2. CASE recvq' = Join(recvq, t) /\ UNCHANGED <<pc, limited, mail>>
    <3>1. /\ pc' = [pc EXCEPT ![t] = "recv"] /\ err' = [err EXCEPT ![t] = "ok"]
          /\ limited' \subseteq Thread
      BY <2>1, <2>2
    <3> QED BY <2>1, <2>2, <3>1, ReceiveWaitStep
  <2>3. CASE Return(t) /\ UNCHANGED recvq
    BY <2>1, <2>3, ReturnStep
  <2> QED BY <1>5, <2>2, <2>3 DEF ReceiveAgain
<1>6. ASSUME NEW t \in Thread, Fail(t) PROVE MbInv' /\ QueueStep
  BY <1>6, ReturnStep DEF Fail
<1>7. ASSUME NEW t \in Senders, Sending(t) PROVE MbInv' /\ QueueStep
  BY <1>1, <1>2, <1>3, <1>7, SendWokenStep DEF Sending
<1>8. ASSUME NEW t \in Receivers, Receiving(t) PROVE MbInv' /\ QueueStep
  BY <1>1, <1>4, <1>5, <1>8, ReceiveStep, ReceiveWokenStep DEF Receiving
<1>9. ASSUME NEW t \in Owners, DetachBegin(t) \/ Detaching(t) PROVE MbInv' /\ QueueStep
  BY <1>1, <1>9, DetachStep, DetachWakeStep DEF Detaching
<1>10. ASSUME NEW t \in Resetters, Reset(t) PROVE MbInv' /\ QueueStep
  BY <1>1, <1>10, ResetStep
<1>11. CASE UNCHANGED vars
  <2>1. MbInv'
    BY <1>11, Facts, ThreadFacts, RingFacts, Together DEF vars, ring
  <2>2. QueueStep
    BY <1>11, Still DEF vars
  <2> QED BY <2>1, <2>2
<1> QED BY <1>6, <1>7, <1>8, <1>9, <1>10, <1>11, SendStep, TimerFireStep DEF Next

(* The invariant holds in every reachable state. *)
LEMMA AlwaysInv == Spec => []MbInv
<1>1. MbInv /\ [Next]_vars => MbInv'
  BY Step
<1> QED BY <1>1, InitInv, PTL DEF Spec

-----------------------------------------------------------------------------
(* Theorems *)

(* The wait lists link exactly the threads suspended in the call they are  *)
(* for, each once, in the order asked for, and the state keeps its types.  *)
THEOREM WaitListsCorrect == Spec => []WaitListsExact
<1>1. MbInv => WaitListsExact
  BY DEF MbInv, Side, Listed, WaitListsExact, SortedBy, InPrioOrder
<1> QED BY <1>1, AlwaysInv, PTL

(* With any number of senders and receivers of any priorities, each mail   *)
(* has a receiver on its way to it while others wait, and each free slot a *)
(* sender, although a call wakes one thread at most and others may be      *)
(* faster than the one woken.                                              *)
THEOREM NobodyForgotten == Spec => []NobodyWaitsInVain
<1>1. MbInv => NobodyWaitsInVain
  <2> SUFFICES ASSUME MbInv PROVE NobodyWaitsInVain
    OBVIOUS
  <2>1. Awoken(recvq, pc, err, "recv") = {t \in Thread : Woken(t, "recv")}
    BY Facts DEF Awoken, Woken
  <2>2. Awoken(sendq, pc, err, "send") = {t \in Thread : Woken(t, "send")}
    BY Facts DEF Awoken, Woken
  <2> QED BY <2>1, <2>2 DEF MbInv, Side, NobodyWaitsInVain
<1> QED BY <1>1, AlwaysInv, PTL

(* The mailbox implements BoundedQueue, for any size of the ring: mails    *)
(* are received once each, in the order in which they were sent, urgent    *)
(* ones first, over any wrap-around of the two offsets.                    *)
THEOREM QueuesMails == Spec => ImplementsQueue
<1>1. Init => Queue!Init
  <2> SUFFICES ASSUME Init PROVE Queue!Init
    OBVIOUS
  <2>1. entry = 0 /\ got = [t \in Thread |-> NoMail]
    BY DEF Init
  <2>2. [i \in 1 .. entry |-> pool[(out + i - 1) % Size]] = <<>>
    BY <2>1
  <2> QED BY <2>1, <2>2 DEF Queue!Init
<1>2. MbInv /\ [Next]_vars
         => [Queue!Next]_<<[i \in 1 .. entry |-> pool[(out + i - 1) % Size]], got>>
  BY Step DEF QueueStep, queue
<1> QED BY <1>1, <1>2, AlwaysInv, PTL DEF Spec, ImplementsQueue, Queue!Spec

=============================================================================
