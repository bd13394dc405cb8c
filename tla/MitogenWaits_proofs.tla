------------------------- MODULE MitogenWaits_proofs -------------------------
(***************************************************************************)
(* Proofs about those who wait for others: the readers of a Latch          *)
(* (MitogenLatch), for any readers, items and socket pairs, the callers of *)
(* connect() (MitogenConnection), for any number of connections, and the   *)
(* callers in a tree of contexts (MitogenRouting), for any finite tree.    *)
(***************************************************************************)
EXTENDS MitogenLatch, MitogenConnection, MitogenRouting, FiniteSetTheorems, SequenceTheorems, TLAPS

\* What is left of a list when one place is taken out.
LEMMA RemovedAt ==
    ASSUME NEW S, NEW s \in Seq(S), NEW i \in 1..Len(s)
    PROVE  /\ RemoveAt(s, i) \in Seq(S) /\ Len(RemoveAt(s, i)) = Len(s) - 1
           /\ \A j \in 1..(Len(s) - 1) : j < i => RemoveAt(s, i)[j] = s[j]
           /\ \A j \in 1..(Len(s) - 1) : j >= i => RemoveAt(s, i)[j] = s[j + 1]
  <1> DEFINE a == SubSeq(s, 1, i - 1)
             b == SubSeq(s, i + 1, Len(s))
  <1>1. /\ a \in Seq(S) /\ Len(a) = i - 1 /\ \A j \in 1..(i - 1) : a[j] = s[j]
    OBVIOUS
  <1>2. /\ b \in Seq(S) /\ Len(b) = Len(s) - i /\ \A j \in 1..(Len(s) - i) : b[j] = s[j + i]
    OBVIOUS
  <1>3. RemoveAt(s, i) = a \o b
    BY DEF RemoveAt
  <1>4. Len(s) \in Nat
    OBVIOUS
  <1> HIDE DEF a, b
  <1>0. /\ a \o b \in Seq(S) /\ Len(a \o b) = Len(a) + Len(b)
        /\ \A j \in 1..(Len(a) + Len(b)) : (a \o b)[j] = IF j <= Len(a) THEN a[j] ELSE b[j - Len(a)]
    BY <1>1, <1>2, ConcatProperties
  <1>5. a \o b \in Seq(S) /\ Len(a \o b) = Len(s) - 1
    BY <1>0, <1>1, <1>2, <1>4
  <1>6. ASSUME NEW j \in 1..(Len(s) - 1), j < i
        PROVE  (a \o b)[j] = s[j]
    <2>1. j \in 1..Len(a)
      BY <1>1, <1>4, <1>6
    <2>2. (a \o b)[j] = a[j]
      BY <2>1, <1>0, <1>1, <1>2, <1>4
    <2> QED
      BY <2>1, <2>2, <1>1
  <1>7. ASSUME NEW j \in 1..(Len(s) - 1), j >= i
        PROVE  (a \o b)[j] = s[j + 1]
    <2>1. /\ j - Len(a) \in 1..Len(b) /\ (j - Len(a)) + i = j + 1
          /\ j \in 1..(Len(a) + Len(b)) /\ ~(j <= Len(a))
      BY <1>1, <1>2, <1>4, <1>7
    <2>2. (a \o b)[j] = b[j - Len(a)]
      BY SMTT(30), <2>1, <1>0
    <2>3. b[j - Len(a)] = s[(j - Len(a)) + i]
      BY <2>1, <1>2
    <2> QED
      BY <2>1, <2>2, <2>3
  <1> QED
    BY <1>3, <1>5, <1>6, <1>7

\* t has the item x after those of s.
Appended(s, t, x) ==
    \A i \in 1..Len(t) : IF i = Len(s) + 1 THEN t[i] = x ELSE i \in 1..Len(s) /\ t[i] = s[i]
LEMMA AppendedAt ==
    ASSUME NEW S, NEW s \in Seq(S), NEW x \in S
    PROVE  Appended(s, Append(s, x), x)
  BY DEF Appended

----------------------------------------------------------------------------
(* The readers of a Latch.                                                 *)

LatchTypes ==
    /\ sleeping \in Seq(Entries) /\ idle \in Seq(Pairs) /\ inbox \in Seq(Seq(Readers))
    /\ reader \in [Readers -> [at : {"ready", "asleep", "stopped"}, pair : Nat, left : Int]]
    /\ putting \in [Items -> {"before", "wake", "done"}] /\ write = [i \in Items |-> write[i]]
    /\ latchQueue \in Seq(Items) /\ waking \in Nat
\* Who is asleep has one entry, and a socket pair of its own.
SleepersInv ==
    /\ \A k \in 1..Len(sleeping) :
        /\ sleeping[k].pair \in Pairs
        /\ reader[sleeping[k].cookie].at = "asleep"
        /\ reader[sleeping[k].cookie].pair = sleeping[k].pair
    /\ \A r \in Readers : reader[r].at = "asleep" => \E k \in 1..Len(sleeping) : sleeping[k].cookie = r
    /\ \A j, k \in 1..Len(sleeping) : sleeping[j].pair = sleeping[k].pair => j = k
\* A socket pair in the pool is there once, empty, and nobody's.
SpareInv ==
    /\ \A j, k \in 1..Len(idle) : idle[j] = idle[k] => j = k
    /\ \A j \in 1..Len(idle) : /\ inbox[idle[j]] = <<>>
                               /\ \A k \in 1..Len(sleeping) : sleeping[k].pair # idle[j]
\* The first sleepers were woken: each has its cookie, or is promised it by one put().
WokenInv ==
    /\ waking <= Len(sleeping)
    /\ \A i \in Items : putting[i] = "wake" => \E k \in 1..waking : write[i] = sleeping[k]
    /\ \A i, j \in Items :
        putting[i] = "wake" /\ putting[j] = "wake" /\ write[i] = write[j] => i = j
    /\ \A k \in 1..Len(sleeping) :
        inbox[sleeping[k].pair] =
            IF k <= waking /\ ~ToBeWoken(sleeping[k]) THEN <<sleeping[k].cookie>> ELSE <<>>
\* Every item that nobody is to have would have woken the readers that sleep on.
QueueInv ==
    /\ ~asserted
    /\ latchClosed \/ waking <= Len(latchQueue)
    /\ waking < Len(sleeping) => ~latchClosed /\ Len(latchQueue) = waking
LatchInv == LatchTypes /\ SleepersInv /\ SpareInv /\ WokenInv /\ QueueInv
LatchRaced == raced \/ LatchInv

LEMMA Entered ==
    ASSUME LatchTypes
    PROVE  /\ Len(sleeping) \in Nat
           /\ \A k \in 1..Len(sleeping) : sleeping[k].cookie \in Readers /\ sleeping[k].pair \in Nat
           /\ \A k \in 1..Len(sleeping) : sleeping[k] = [pair |-> sleeping[k].pair, cookie |-> sleeping[k].cookie]
  <1>1. \A k \in 1..Len(sleeping) : sleeping[k] \in Entries
    BY DEF LatchTypes
  <1> QED
    BY SMTT(30), <1>1 DEF Entries, LatchTypes

\* A sleeper's entry is found where it is.
LEMMA OwnPlace ==
    ASSUME LatchTypes, SleepersInv, NEW r \in Readers, reader[r].at = "asleep"
    PROVE  \E k \in 1..Len(sleeping) :
              /\ sleeping[k].cookie = r /\ sleeping[k].pair = reader[r].pair
              /\ SelectInSeq(sleeping, LAMBDA e : e.pair = reader[r].pair /\ e.cookie = r) = k
              /\ SelectInSeq(sleeping, LAMBDA e : e.pair = reader[r].pair) = k
  <1>1. PICK k \in 1..Len(sleeping) : sleeping[k].cookie = r
    BY DEF SleepersInv
  <1>2. sleeping[k].pair = reader[r].pair
    BY <1>1 DEF SleepersInv
  <1>3. {i \in 1..Len(sleeping) : sleeping[i].pair = reader[r].pair /\ sleeping[i].cookie = r} = {k}
    BY <1>1, <1>2 DEF SleepersInv
  <1>4. {i \in 1..Len(sleeping) : sleeping[i].pair = reader[r].pair} = {k}
    BY <1>1, <1>2 DEF SleepersInv
  <1>5. Min({k}) = k
    BY DEF Min
  <1>6. /\ SelectInSeq(sleeping, LAMBDA e : e.pair = reader[r].pair /\ e.cookie = r) = k
        /\ SelectInSeq(sleeping, LAMBDA e : e.pair = reader[r].pair) = k
    BY <1>3, <1>4, <1>5 DEF SelectInSeq
  <1> QED
    BY <1>1, <1>2, <1>6

\* Whoever leaves the sleepers gives a socket pair back that is empty.
LEMMA LeavesKeep ==
    ASSUME LatchTypes, SleepersInv, SpareInv, NEW k \in 1..Len(sleeping), NEW r \in Readers, NEW p,
           sleeping[k].cookie = r, sleeping[k].pair = p,
           sleeping' = RemoveAt(sleeping, k), idle' = Append(idle, p),
           inbox' \in Seq(Seq(Readers)), Len(inbox') = Len(inbox), inbox'[p] = <<>>,
           \A q \in Pairs \ {p} : inbox'[q] = inbox[q],
           Returns(r) \/ Raises(r)
    PROVE  /\ sleeping' \in Seq(Entries) /\ idle' \in Seq(Pairs')
           /\ reader' \in [Readers -> [at : {"ready", "asleep", "stopped"}, pair : Nat, left : Int]]
           /\ SleepersInv' /\ SpareInv'
           /\ Len(sleeping') = Len(sleeping) - 1
           /\ \A j \in 1..Len(sleeping') :
                /\ j < k => sleeping'[j] = sleeping[j]
                /\ j >= k => sleeping'[j] = sleeping[j + 1]
  <1>1. /\ sleeping' \in Seq(Entries) /\ Len(sleeping') = Len(sleeping) - 1
        /\ \A j \in 1..Len(sleeping') : j < k => sleeping'[j] = sleeping[j]
        /\ \A j \in 1..Len(sleeping') : j >= k => sleeping'[j] = sleeping[j + 1]
    <2>1. sleeping \in Seq(Entries)
      BY DEF LatchTypes
    <2> QED
      BY <2>1, RemovedAt
  <1>0. Len(sleeping) \in Nat
    BY Entered
  <1> DEFINE n == Len(sleeping)
             Old(j) == IF j < k THEN j ELSE j + 1
  <1>2. ASSUME NEW j \in 1..Len(sleeping')
        PROVE  sleeping'[j] = sleeping[Old(j)] /\ Old(j) \in (1..n) \ {k}
    <2>1. j \in Nat /\ k \in Nat /\ j <= n - 1 /\ j >= 1
      BY <1>0, <1>1
    <2>2. CASE j < k
      <3>1. Old(j) = j /\ j \in (1..n) \ {k}
        BY <2>1, <2>2, <1>0
      <3>2. sleeping'[j] = sleeping[j]
        BY <2>2, <1>1
      <3> QED
        BY <3>1, <3>2
    <2>3. CASE j >= k
      <3>1. Old(j) = j + 1 /\ j + 1 \in (1..n) \ {k}
        BY <2>1, <2>3, <1>0
      <3>2. sleeping'[j] = sleeping[j + 1]
        BY <2>3, <1>1
      <3> QED
        BY <3>1, <3>2
    <2> QED
      BY <2>1, <2>2, <2>3
  <1>3. \A l \in (1..n) \ {k} : \E j \in 1..Len(sleeping') : sleeping'[j] = sleeping[l]
    <2> SUFFICES ASSUME NEW l \in (1..n) \ {k}
                 PROVE  \E j \in 1..Len(sleeping') : Old(j) = l
      BY <1>2
    <2>1. CASE l < k
      <3>1. l \in 1..Len(sleeping') /\ Old(l) = l
        BY <2>1, <1>0, <1>1
      <3> QED
        BY <3>1
    <2>2. CASE l > k
      <3>1. l - 1 \in 1..Len(sleeping') /\ Old(l - 1) = l
        BY <2>2, <1>0, <1>1
      <3> QED
        BY <3>1
    <2> QED
      BY <2>1, <2>2, <1>0
  <1>4. Pairs' = Pairs /\ p \in Pairs /\ Len(idle) \in Nat
    <2>1. Len(idle) \in Nat
      BY DEF LatchTypes
    <2>2. p \in Pairs
      BY DEF SleepersInv
    <2>3. Pairs' = Pairs
      BY DEF Pairs
    <2> QED
      BY <2>1, <2>2, <2>3
  <1>5. reader' \in [Readers -> [at : {"ready", "asleep", "stopped"}, pair : Nat, left : Int]]
    <2>1. CASE Returns(r)
      <3>1. reader[r].left - 1 \in Int
        BY DEF LatchTypes
      <3>2. [at |-> "ready", pair |-> 0, left |-> reader[r].left - 1]
              \in [at : {"ready", "asleep", "stopped"}, pair : Nat, left : Int]
        BY <3>1
      <3> QED
        BY <3>2, <2>1 DEF Returns, LatchTypes
    <2>2. CASE Raises(r)
      BY ZenonT(60), <2>2 DEF Raises, LatchTypes
    <2> QED
      BY <2>1, <2>2
  <1>6. reader'[r].at # "asleep" /\ \A q \in Readers \ {r} : reader'[q] = reader[q]
    <2>1. CASE Returns(r)
      BY <2>1 DEF Returns, LatchTypes
    <2>2. CASE Raises(r)
      BY <2>2 DEF Raises, LatchTypes
    <2> QED
      BY <2>1, <2>2
  <1>7. \A l \in (1..n) \ {k} : sleeping[l].pair # p
    BY DEF SleepersInv
  <1>8. \A l \in (1..n) \ {k} : sleeping[l].cookie \in Readers \ {r}
    <2>1. \A l \in 1..n : sleeping[l].cookie = r => sleeping[l].pair = reader[r].pair
      BY DEF SleepersInv
    <2>2. p = reader[r].pair
      BY <2>1
    <2> QED
      BY <2>1, <2>2, <1>7, Entered
  <1>9. idle' \in Seq(Pairs') /\ Len(idle') = Len(idle) + 1
    BY <1>4 DEF LatchTypes
  <1>10. ASSUME NEW j \in 1..Len(idle')
         PROVE  IF j = Len(idle) + 1 THEN idle'[j] = p ELSE j \in 1..Len(idle) /\ idle'[j] = idle[j]
    <2>1. idle \in Seq(Pairs)
      BY DEF LatchTypes
    <2>2. Appended(idle, idle', p)
      BY <2>1, <1>4, AppendedAt, Zenon
    <2> QED
      BY <2>2 DEF Appended
  <1>11. ASSUME NEW j \in 1..Len(idle)
         PROVE  idle[j] # p /\ idle[j] \in Pairs
    <2>1. idle[j] # p
      BY DEF SpareInv
    <2>2. idle \in Seq(Pairs)
      BY DEF LatchTypes
    <2> QED
      BY SMTT(30), <2>1, <2>2
  <1>12. SleepersInv'
    <2>1. ASSUME NEW j \in 1..Len(sleeping')
          PROVE  /\ sleeping'[j].pair \in Pairs'
                 /\ reader'[sleeping'[j].cookie].at = "asleep"
                 /\ reader'[sleeping'[j].cookie].pair = sleeping'[j].pair
      <3>1. sleeping'[j] = sleeping[Old(j)] /\ Old(j) \in (1..n) \ {k}
        BY <1>2
      <3> HIDE DEF Old
      <3>2. reader'[sleeping[Old(j)].cookie] = reader[sleeping[Old(j)].cookie]
        BY <3>1, <1>6, <1>8
      <3>3. /\ sleeping[Old(j)].pair \in Pairs
            /\ reader[sleeping[Old(j)].cookie].at = "asleep"
            /\ reader[sleeping[Old(j)].cookie].pair = sleeping[Old(j)].pair
        BY <3>1 DEF SleepersInv
      <3> QED
        BY <3>1, <3>2, <3>3, <1>4
    <2>2. \A q \in Readers : reader'[q].at = "asleep" => \E j \in 1..Len(sleeping') : sleeping'[j].cookie = q
      <3> SUFFICES ASSUME NEW q \in Readers \ {r}, reader[q].at = "asleep"
                   PROVE  \E j \in 1..Len(sleeping') : sleeping'[j].cookie = q
        BY <1>6
      <3>1. PICK l \in 1..n : sleeping[l].cookie = q
        BY DEF SleepersInv
      <3>2. l # k
        BY <3>1
      <3> QED
        BY <3>1, <3>2, <1>3
    <2>3. ASSUME NEW i \in 1..Len(sleeping'), NEW j \in 1..Len(sleeping'),
                 sleeping'[i].pair = sleeping'[j].pair
          PROVE  i = j
      <3>0. \A l, m \in 1..n : sleeping[l].pair = sleeping[m].pair => l = m
        BY DEF SleepersInv
      <3>1. Old(i) = Old(j)
        <4>1. sleeping[Old(i)].pair = sleeping[Old(j)].pair /\ Old(i) \in 1..n /\ Old(j) \in 1..n
          BY <2>3, <1>2
        <4> HIDE DEF Old
        <4> QED
          BY <4>1, <3>0
      <3> QED
        BY <3>1, <1>0, <1>1
    <2> QED
      BY <2>1, <2>2, <2>3 DEF SleepersInv
  <1> HIDE DEF Old
  <1>13. SpareInv'
    <2>1. ASSUME NEW i \in 1..Len(idle'), NEW j \in 1..Len(idle'), idle'[i] = idle'[j]
          PROVE  i = j
      BY <2>1, <1>10, <1>11 DEF SpareInv
    <2>2. ASSUME NEW j \in 1..Len(idle')
          PROVE  inbox'[idle'[j]] = <<>>
      <3>1. CASE j = Len(idle) + 1
        BY <3>1, <1>10
      <3>2. CASE j # Len(idle) + 1
        <4>1. j \in 1..Len(idle) /\ idle'[j] = idle[j] /\ idle[j] \in Pairs \ {p}
          BY <3>2, <1>10, <1>11
        <4> QED
          BY <4>1 DEF SpareInv
      <3> QED
        BY <3>1, <3>2
    <2>3. ASSUME NEW j \in 1..Len(idle'), NEW i \in 1..Len(sleeping')
          PROVE  sleeping'[i].pair # idle'[j]
      <3>1. sleeping'[i] = sleeping[Old(i)] /\ Old(i) \in (1..n) \ {k}
        BY <1>2
      <3>2. CASE j = Len(idle) + 1
        BY <3>1, <3>2, <1>7, <1>10
      <3>3. CASE j # Len(idle) + 1
        <4>1. j \in 1..Len(idle) /\ idle'[j] = idle[j]
          BY <3>3, <1>10
        <4> QED
          BY <4>1, <3>1 DEF SpareInv
      <3> QED
        BY <3>2, <3>3
    <2> QED
      BY <2>1, <2>2, <2>3 DEF SpareInv
  <1> QED
    BY <1>1, <1>5, <1>9, <1>12, <1>13

LEMMA LatchStarts == LatchInit => LatchRaced
  <1> SUFFICES ASSUME LatchInit PROVE LatchInv
    BY DEF LatchRaced
  <1>1. LatchTypes
    <2>1. reader \in [Readers -> [at : {"ready", "asleep", "stopped"}, pair : Nat, left : Int]]
      BY LatchAssumption DEF LatchInit
    <2> QED
      BY <2>1 DEF LatchInit, LatchTypes
  <1>2. Len(sleeping) = 0 /\ Len(idle) = 0
    BY DEF LatchInit
  <1>3. SleepersInv /\ SpareInv
    BY <1>2 DEF SleepersInv, SpareInv, LatchInit
  <1>4. WokenInv /\ QueueInv
    BY <1>2 DEF WokenInv, QueueInv, LatchInit
  <1> QED
    BY <1>1, <1>3, <1>4 DEF LatchInv

\* Steps that leave the sleepers and their socket pairs alone.
LEMMA StaysAsleep ==
    ASSUME LatchInv, UNCHANGED <<sleeping, waking, idle, inbox, putting, write, asserted, latchClosed>>,
           NEW r \in Readers, reader[r].at = "ready", Returns(r) \/ Raises(r),
           latchQueue' \in Seq(Items),
           latchClosed \/ waking <= Len(latchQueue'),
           waking < Len(sleeping) => Len(latchQueue') = waking
    PROVE  LatchInv'
  <1>1. reader' \in [Readers -> [at : {"ready", "asleep", "stopped"}, pair : Nat, left : Int]]
    <2>1. CASE Returns(r)
      <3>1. reader[r].left - 1 \in Int
        BY DEF LatchInv, LatchTypes
      <3>2. [at |-> "ready", pair |-> 0, left |-> reader[r].left - 1]
              \in [at : {"ready", "asleep", "stopped"}, pair : Nat, left : Int]
        BY <3>1
      <3> QED
        BY <3>2, <2>1 DEF Returns, LatchInv, LatchTypes
    <2>2. CASE Raises(r)
      BY <2>2 DEF Raises, LatchInv, LatchTypes
    <2> QED
      BY <2>1, <2>2
  <1>2. reader'[r].at # "asleep" /\ \A q \in Readers \ {r} : reader'[q] = reader[q]
    BY DEF Returns, Raises, LatchInv, LatchTypes
  <1>3. LatchTypes'
    BY <1>1 DEF LatchInv, LatchTypes, Pairs
  <1>4. SleepersInv'
    <2>1. \A k \in 1..Len(sleeping) : sleeping[k].cookie \in Readers \ {r}
      BY Entered DEF LatchInv, SleepersInv
    <2> QED
      BY <1>2, <2>1 DEF LatchInv, SleepersInv, Pairs
  <1>5. SpareInv' /\ WokenInv'
    BY DEF LatchInv, SpareInv, WokenInv, ToBeWoken
  <1>6. QueueInv'
    BY DEF LatchInv, QueueInv
  <1> QED
    BY <1>3, <1>4, <1>5, <1>6 DEF LatchInv

LEMMA GetsKeep ==
    ASSUME LatchInv, NEW r \in Readers, GetNow(r) \/ GetClosed(r) \/ GetNothing(r)
    PROVE  LatchInv'
  <1>1. CASE GetNow(r)
    <2>1. latchQueue \in Seq(Items) /\ Len(latchQueue) \in Nat /\ Len(sleeping) \in Nat /\ waking \in Nat
      BY DEF LatchInv, LatchTypes
    <2> DEFINE i == Len(sleeping) + 1
    <2>2. i \in 1..Len(latchQueue) /\ latchQueue' = RemoveAt(latchQueue, i)
      BY <2>1, <1>1 DEF GetNow
    <2> HIDE DEF i
    <2>3. latchQueue' \in Seq(Items) /\ Len(latchQueue') = Len(latchQueue) - 1
      BY <2>1, <2>2, RemovedAt
    <2>4. waking <= Len(latchQueue') /\ ~(waking < Len(sleeping))
      BY <2>1, <2>2, <2>3 DEF LatchInv, QueueInv, WokenInv, i
    <2> QED
      BY <1>1, <2>3, <2>4, StaysAsleep DEF GetNow
  <1>2. CASE GetClosed(r) \/ GetNothing(r)
    BY <1>2, StaysAsleep DEF GetClosed, GetNothing, LatchInv, LatchTypes, QueueInv
  <1> QED
    BY <1>1, <1>2

LEMMA SleepKeeps ==
    ASSUME LatchInv, NEW r \in Readers, Sleep(r)
    PROVE  LatchInv'
  <1> DEFINE p == IF idle = <<>> THEN Len(inbox) + 1 ELSE Last(idle)
             n == Len(sleeping)
  <1>1. /\ reader[r].at = "ready" /\ ~latchClosed /\ Len(latchQueue) <= n
        /\ inbox' = IF idle = <<>> THEN Append(inbox, <<>>) ELSE inbox
        /\ idle' = IF idle = <<>> THEN idle ELSE Front(idle)
        /\ sleeping' = Append(sleeping, [pair |-> p, cookie |-> r])
        /\ reader' = [reader EXCEPT ![r].at = "asleep", ![r].pair = p]
        /\ latchClosed' = latchClosed /\ latchQueue' = latchQueue /\ waking' = waking
        /\ putting' = putting /\ write' = write /\ asserted' = asserted
    BY DEF Sleep
  <1>2. n \in Nat /\ Len(idle) \in Nat /\ Len(inbox) \in Nat /\ waking \in Nat /\ Len(latchQueue) \in Nat
    BY DEF LatchInv, LatchTypes
  \* The socket pair is new, or the last of the pool.
  <1>3. /\ inbox' \in Seq(Seq(Readers)) /\ Len(inbox) <= Len(inbox') /\ p \in 1..Len(inbox')
        /\ inbox'[p] = <<>>
    <2>1. CASE idle = <<>>
      <3>1. p = Len(inbox) + 1 /\ inbox' = Append(inbox, <<>>)
        BY <1>1, <2>1
      <3>2. inbox \in Seq(Seq(Readers)) /\ <<>> \in Seq(Readers)
        BY DEF LatchInv, LatchTypes
      <3> HIDE DEF p
      <3> QED
        BY <3>1, <3>2, <1>2
    <2>2. CASE idle # <<>>
      <3>1. inbox' = inbox /\ idle \in Seq(Pairs)
        BY <1>1, <2>2 DEF LatchInv, LatchTypes
      <3>2. Len(idle) \in 1..Len(idle) /\ p = idle[Len(idle)]
        BY <2>2, <3>1, <1>2 DEF Last
      <3> HIDE DEF p
      <3>3. p \in Pairs
        BY <3>1, <3>2
      <3>4. inbox[p] = <<>>
        BY <3>2 DEF LatchInv, SpareInv
      <3> QED
        BY <3>1, <3>3, <3>4, <1>2 DEF Pairs, LatchInv, LatchTypes
    <2> QED
      BY <2>1, <2>2
  <1>4. ASSUME NEW q \in 1..Len(inbox)
        PROVE  inbox'[q] = inbox[q]
    BY <1>1, <1>2 DEF LatchInv, LatchTypes
  <1>5. ASSUME NEW k \in 1..n
        PROVE  sleeping[k].pair # p /\ sleeping[k].pair \in 1..Len(inbox) /\ sleeping[k].cookie \in Readers \ {r}
    <2>1. sleeping[k].pair \in 1..Len(inbox)
      BY DEF LatchInv, SleepersInv, Pairs
    <2>2. sleeping[k].cookie \in Readers \ {r}
      BY <1>1, Entered DEF LatchInv, SleepersInv
    <2>3. CASE idle = <<>>
      BY <2>1, <2>2, <2>3, <1>2
    <2>4. CASE idle # <<>>
      <3>1. Len(idle) \in 1..Len(idle) /\ p = idle[Len(idle)]
        BY <2>4, <1>2 DEF Last, LatchInv, LatchTypes
      <3> QED
        BY <3>1, <2>1, <2>2 DEF LatchInv, SpareInv
    <2> QED
      BY <2>3, <2>4
  <1>6. /\ idle' \in Seq(Pairs') /\ Len(idle') \in Nat /\ Len(idle') <= Len(idle)
        /\ \A j \in 1..Len(idle') : idle'[j] = idle[j] /\ idle[j] # p /\ idle[j] \in 1..Len(inbox)
    <2>1. CASE idle = <<>>
      <3>1. idle' = <<>>
        BY <2>1, <1>1
      <3> QED
        BY <2>1, <3>1
    <2>2. CASE idle # <<>>
      <3>1. idle \in Seq(Pairs) /\ Len(idle) \in 1..Len(idle) /\ p = idle[Len(idle)]
        BY <2>2, <1>2 DEF Last, LatchInv, LatchTypes
      <3>2. idle' = SubSeq(idle, 1, Len(idle) - 1) /\ Pairs' = Pairs
        BY <2>2, <1>1 DEF Front, Pairs
      <3> HIDE DEF p
      <3>3. idle' \in Seq(Pairs') /\ Len(idle') = Len(idle) - 1
        <4>1. Len(idle) - 1 \in Nat /\ \A i \in 1..(Len(idle) - 1) : idle[i] \in Pairs
          BY <3>1, <1>2
        <4>2. /\ SubSeq(idle, 1, Len(idle) - 1) \in Seq(Pairs)
              /\ Len(SubSeq(idle, 1, Len(idle) - 1))
                   = IF 1 <= Len(idle) - 1 THEN (Len(idle) - 1) - 1 + 1 ELSE 0
          BY <4>1, SubSeqProperties
        <4>3. \A m \in Nat : (IF 1 <= m THEN m - 1 + 1 ELSE 0) = m
          OBVIOUS
        <4>4. Len(SubSeq(idle, 1, Len(idle) - 1)) = Len(idle) - 1
          BY <4>1, <4>2, <4>3
        <4> QED
          BY <4>2, <4>4, <3>2
      <3>4. \A j \in 1..Len(idle') : idle'[j] = idle[j]
        BY <3>1, <3>2, <1>2
      <3>5. \A j \in 1..Len(idle') : j \in 1..Len(idle) /\ j # Len(idle)
        BY <3>3, <1>2
      <3>6. \A j \in 1..Len(idle') : idle[j] # p
        BY <3>1, <3>5 DEF LatchInv, SpareInv
      <3>7. \A j \in 1..Len(idle') : idle[j] \in 1..Len(inbox)
        BY <3>1, <3>5 DEF Pairs
      <3> QED
        BY <3>3, <3>4, <3>6, <3>7, <1>2
    <2> QED
      BY <2>1, <2>2
  <1>7. reader'[r].at = "asleep" /\ reader'[r].pair = p /\ \A q \in Readers \ {r} : reader'[q] = reader[q]
    BY <1>1 DEF LatchInv, LatchTypes
  <1> HIDE DEF p
  <1>8. /\ sleeping' \in Seq(Entries) /\ Len(sleeping') = n + 1
        /\ sleeping'[n + 1] = [pair |-> p, cookie |-> r]
        /\ \A k \in 1..n : sleeping'[k] = sleeping[k]
    <2>1. [pair |-> p, cookie |-> r] \in Entries
      BY <1>2, <1>3 DEF Entries
    <2>2. sleeping \in Seq(Entries)
      BY DEF LatchInv, LatchTypes
    <2> QED
      BY <2>1, <2>2, <1>1
  <1>9. LatchTypes'
    <2>1. reader' \in [Readers -> [at : {"ready", "asleep", "stopped"}, pair : Nat, left : Int]]
      <3>1. p \in Nat /\ reader \in [Readers -> [at : {"ready", "asleep", "stopped"}, pair : Nat, left : Int]]
        <4>1. p \in Nat
          BY <1>2, <1>3
        <4> QED
          BY <4>1 DEF LatchInv, LatchTypes
      <3>2. [reader[r] EXCEPT !.at = "asleep", !.pair = p]
              \in [at : {"ready", "asleep", "stopped"}, pair : Nat, left : Int]
        BY <3>1
      <3>3. reader' = [reader EXCEPT ![r] = [reader[r] EXCEPT !.at = "asleep", !.pair = p]]
        BY <3>1, <1>1
      <3> QED
        BY <3>1, <3>2, <3>3
    <2> QED
      BY <2>1, <1>1, <1>3, <1>6, <1>8 DEF LatchInv, LatchTypes
  <1>10. SleepersInv'
    <2>1. ASSUME NEW k \in 1..(n + 1)
          PROVE  /\ sleeping'[k].pair \in Pairs'
                 /\ reader'[sleeping'[k].cookie].at = "asleep"
                 /\ reader'[sleeping'[k].cookie].pair = sleeping'[k].pair
      <3>1. CASE k = n + 1
        BY <3>1, <1>3, <1>7, <1>8 DEF Pairs
      <3>2. CASE k # n + 1
        <4>1. k \in 1..n /\ sleeping'[k] = sleeping[k] /\ reader'[sleeping[k].cookie] = reader[sleeping[k].cookie]
          BY <3>2, <1>2, <1>5, <1>7, <1>8
        <4>2. sleeping[k].pair \in Pairs'
          BY SMTT(30), <4>1, <1>2, <1>3, <1>5 DEF Pairs
        <4> QED
          BY <4>1, <4>2 DEF LatchInv, SleepersInv
      <3> QED
        BY <3>1, <3>2
    <2>2. ASSUME NEW q \in Readers, reader'[q].at = "asleep"
          PROVE  \E k \in 1..(n + 1) : sleeping'[k].cookie = q
      <3>1. CASE q = r
        BY <3>1, <1>2, <1>8
      <3>2. CASE q # r
        <4>1. PICK k \in 1..n : sleeping[k].cookie = q
          BY <2>2, <3>2, <1>7 DEF LatchInv, SleepersInv
        <4>2. k \in 1..(n + 1) /\ sleeping'[k].cookie = q
          BY <4>1, <1>2, <1>8
        <4> QED
          BY <4>2
      <3> QED
        BY <3>1, <3>2
    <2>3. ASSUME NEW j \in 1..(n + 1), NEW k \in 1..(n + 1), sleeping'[j].pair = sleeping'[k].pair
          PROVE  j = k
      <3>1. j = n + 1 \/ j \in 1..n
        BY <1>2
      <3>2. k = n + 1 \/ k \in 1..n
        BY <1>2
      <3>3. \A l, m \in 1..n : sleeping[l].pair = sleeping[m].pair => l = m
        BY DEF LatchInv, SleepersInv
      <3> QED
        BY <2>3, <3>1, <3>2, <3>3, <1>5, <1>8
    <2> QED
      BY <2>1, <2>2, <2>3, <1>8 DEF SleepersInv
  <1>11. SpareInv'
    <2>1. \A j \in 1..Len(idle') : j \in 1..Len(idle)
      BY <1>2, <1>6
    <2>2. \A i, j \in 1..Len(idle') : idle'[i] = idle'[j] => i = j
      BY <2>1, <1>6 DEF LatchInv, SpareInv
    <2>3. \A j \in 1..Len(idle') : inbox'[idle'[j]] = <<>>
      BY <2>1, <1>4, <1>6 DEF LatchInv, SpareInv
    <2>4. ASSUME NEW j \in 1..Len(idle'), NEW k \in 1..Len(sleeping')
          PROVE  sleeping'[k].pair # idle'[j]
      <3>1. k = n + 1 \/ k \in 1..n
        BY <1>2, <1>8
      <3> QED
        BY SMTT(30), <2>1, <3>1, <1>6, <1>8 DEF LatchInv, SpareInv
    <2> QED
      BY <2>2, <2>3, <2>4 DEF SpareInv
  <1>12. WokenInv'
    <2>1. waking <= n
      BY DEF LatchInv, WokenInv
    <2>2. ASSUME NEW i \in Items, putting[i] = "wake"
          PROVE  \E k \in 1..waking : write[i] = sleeping'[k]
      <3>1. PICK k \in 1..waking : write[i] = sleeping[k]
        BY <2>2 DEF LatchInv, WokenInv
      <3>2. k \in 1..n
        BY <2>1, <1>2
      <3> QED
        BY <3>1, <3>2, <1>8
    <2>3. ASSUME NEW k \in 1..(n + 1)
          PROVE  inbox'[sleeping'[k].pair] =
                    IF k <= waking /\ ~ToBeWoken(sleeping'[k]) THEN <<sleeping'[k].cookie>> ELSE <<>>
      <3>1. CASE k = n + 1
        BY <3>1, <2>1, <1>2, <1>3, <1>8
      <3>2. CASE k # n + 1
        <4>1. k \in 1..n /\ sleeping'[k] = sleeping[k]
          BY <3>2, <1>2, <1>8
        <4>2. inbox'[sleeping[k].pair] = inbox[sleeping[k].pair]
          BY <4>1, <1>4, <1>5
        <4> QED
          BY <4>1, <4>2 DEF LatchInv, WokenInv
      <3> QED
        BY <3>1, <3>2
    <2>4. ASSUME NEW k \in 1..Len(sleeping')
          PROVE  inbox'[sleeping'[k].pair] =
              IF k <= waking' /\ ~ToBeWoken(sleeping[k])' THEN <<sleeping'[k].cookie>> ELSE <<>>
      <3>1. ToBeWoken(sleeping[k])' = ToBeWoken(sleeping'[k])
        BY <1>1 DEF ToBeWoken
      <3> QED
        BY <3>1, <2>3, <1>1, <1>8
    <2>5. \A i \in Items : putting'[i] = "wake" => \E k \in 1..waking' : write'[i] = sleeping'[k]
      BY <2>2, <1>1
    <2>6. \A i, j \in Items :
            putting'[i] = "wake" /\ putting'[j] = "wake" /\ write'[i] = write'[j] => i = j
      BY <1>1 DEF LatchInv, WokenInv
    <2>7. waking' <= Len(sleeping')
      BY <2>1, <1>1, <1>2, <1>8
    <2> QED
      BY <2>4, <2>5, <2>6, <2>7 DEF WokenInv
  <1>13. QueueInv'
    BY <1>1, <1>2, <1>8 DEF LatchInv, QueueInv, WokenInv
  <1> QED
    BY <1>9, <1>10, <1>11, <1>12, <1>13 DEF LatchInv

\* Two sleepers have two entries.
LEMMA EntriesDiffer ==
    ASSUME LatchInv, NEW j \in 1..Len(sleeping), NEW k \in 1..Len(sleeping), sleeping[j] = sleeping[k]
    PROVE  j = k
  BY DEF LatchInv, SleepersInv

LEMMA TimesOutKeeps ==
    ASSUME LatchInv, NEW r \in Readers, TimesOut(r)
    PROVE  LatchRaced'
  <1> DEFINE n == Len(sleeping)
             p == reader[r].pair
  <1>1. PICK k \in 1..n :
            /\ sleeping[k].cookie = r /\ sleeping[k].pair = p
            /\ SelectInSeq(sleeping, LAMBDA e : e.pair = p /\ e.cookie = r) = k
            /\ SelectInSeq(sleeping, LAMBDA e : e.pair = p) = k
    BY OwnPlace DEF TimesOut, Wakes, LatchInv
  <1>2. /\ sleeping' = RemoveAt(sleeping, k) /\ idle' = Append(idle, p)
        /\ inbox[p] = <<>> /\ Returns(r) /\ (raced' = (raced \/ k <= waking))
        /\ UNCHANGED <<latchClosed, latchQueue, waking, inbox, putting, write, asserted>>
    BY <1>1 DEF TimesOut, Wakes
  <1> SUFFICES ASSUME ~(k <= waking) PROVE LatchInv'
    BY <1>2 DEF LatchRaced
  <1>3. n \in Nat /\ waking \in Nat /\ waking < k /\ waking < n
    BY DEF LatchInv, LatchTypes
  <1>4. /\ inbox' \in Seq(Seq(Readers)) /\ Len(inbox') = Len(inbox) /\ inbox'[p] = <<>>
        /\ \A q \in Pairs \ {p} : inbox'[q] = inbox[q]
    BY <1>2 DEF LatchInv, LatchTypes
  <1>5. /\ sleeping' \in Seq(Entries) /\ idle' \in Seq(Pairs')
        /\ reader' \in [Readers -> [at : {"ready", "asleep", "stopped"}, pair : Nat, left : Int]]
        /\ SleepersInv' /\ SpareInv'
        /\ Len(sleeping') = n - 1
        /\ \A j \in 1..Len(sleeping') :
             (j < k => sleeping'[j] = sleeping[j]) /\ (j >= k => sleeping'[j] = sleeping[j + 1])
    BY <1>1, <1>2, <1>4, LeavesKeep DEF LatchInv
  <1>6. LatchTypes'
    BY <1>2, <1>4, <1>5 DEF LatchInv, LatchTypes
  <1>7. WokenInv'
    <2>1. \A i \in Items : putting'[i] = "wake" => \E j \in 1..waking' : write'[i] = sleeping'[j]
      <3> SUFFICES ASSUME NEW i \in Items, putting[i] = "wake"
                   PROVE  \E j \in 1..waking : write[i] = sleeping'[j]
        BY <1>2
      <3>1. PICK j \in 1..waking : write[i] = sleeping[j]
        BY DEF LatchInv, WokenInv
      <3>2. j \in 1..Len(sleeping') /\ j < k
        BY <1>3, <1>5
      <3>3. sleeping'[j] = sleeping[j]
        BY <3>2, <1>5
      <3> QED
        BY <3>1, <3>3
    <2>2. \A i, j \in Items :
            putting'[i] = "wake" /\ putting'[j] = "wake" /\ write'[i] = write'[j] => i = j
      BY <1>2 DEF LatchInv, WokenInv
    <2>3. ASSUME NEW j \in 1..Len(sleeping')
          PROVE  inbox'[sleeping'[j].pair] =
                   IF j <= waking' /\ ~ToBeWoken(sleeping[j])' THEN <<sleeping'[j].cookie>> ELSE <<>>
      <3>1. ToBeWoken(sleeping[j])' = ToBeWoken(sleeping'[j])
        BY <1>2 DEF ToBeWoken
      <3>2. CASE j < k
        <4>1. j \in 1..n
          BY <3>2, <1>3, <1>5
        <4>2. sleeping'[j] = sleeping[j]
          BY <3>2, <1>5
        <4> QED
          BY <4>1, <4>2, <3>1, <1>2 DEF LatchInv, WokenInv
      <3>3. CASE j >= k
        <4>0. sleeping'[j] = sleeping[j + 1]
          BY <3>3, <1>5
        <4>1. j + 1 \in 1..n /\ ~(j + 1 <= waking) /\ ~(j <= waking)
          BY <3>3, <1>3, <1>5
        <4>2. inbox[sleeping[j + 1].pair] = <<>>
          BY <4>1 DEF LatchInv, WokenInv
        <4> QED
          BY <4>0, <4>1, <4>2, <1>2
      <3> QED
        BY <3>2, <3>3, <1>3, <1>5
    <2>4. waking' <= Len(sleeping')
      BY <1>2, <1>3, <1>5
    <2> QED
      BY <2>1, <2>2, <2>3, <2>4 DEF WokenInv
  <1>8. QueueInv'
    BY <1>2, <1>3 DEF LatchInv, QueueInv
  <1> QED
    BY <1>5, <1>6, <1>7, <1>8 DEF LatchInv

LEMMA WokenKeeps ==
    ASSUME LatchInv, NEW r \in Readers, Woken(r)
    PROVE  LatchInv'
  <1> DEFINE n == Len(sleeping)
             p == reader[r].pair
  <1>1. PICK k \in 1..n :
            /\ sleeping[k].cookie = r /\ sleeping[k].pair = p
            /\ SelectInSeq(sleeping, LAMBDA e : e.pair = p /\ e.cookie = r) = k
    BY OwnPlace DEF Woken, Wakes, LatchInv
  <1>2. n \in Nat /\ waking \in Nat /\ Len(latchQueue) \in Nat /\ latchQueue \in Seq(Items)
    BY DEF LatchInv, LatchTypes
  <1>3. k <= waking /\ ~ToBeWoken(sleeping[k]) /\ inbox[p] = <<r>>
    BY <1>1 DEF Woken, LatchInv, WokenInv
  <1>4. Head(inbox[p]) = r /\ Tail(inbox[p]) = <<>>
    BY <1>3
  <1>5. /\ sleeping' = RemoveAt(sleeping, k) /\ idle' = Append(idle, p)
        /\ inbox' = [inbox EXCEPT ![p] = <<>>] /\ waking' = waking - 1
        /\ IF ~latchClosed /\ k <= Len(latchQueue)
           THEN latchQueue' = RemoveAt(latchQueue, k) /\ Returns(r) /\ asserted' = asserted
           ELSE (asserted' = (asserted \/ ~latchClosed)) /\ Raises(r) /\ latchQueue' = latchQueue
        /\ UNCHANGED <<latchClosed, putting, write>>
    BY <1>1, <1>3, <1>4 DEF Woken, Wakes
  <1>6. p \in Pairs
    BY <1>1 DEF LatchInv, SleepersInv
  <1>7. /\ inbox' \in Seq(Seq(Readers)) /\ Len(inbox') = Len(inbox) /\ inbox'[p] = <<>>
        /\ \A q \in Pairs \ {p} : inbox'[q] = inbox[q]
    <2>1. inbox \in Seq(Seq(Readers)) /\ <<>> \in Seq(Readers)
      BY DEF LatchInv, LatchTypes
    <2> QED
      BY <2>1, <1>5, <1>6 DEF Pairs
  <1>8. /\ sleeping' \in Seq(Entries) /\ idle' \in Seq(Pairs')
        /\ reader' \in [Readers -> [at : {"ready", "asleep", "stopped"}, pair : Nat, left : Int]]
        /\ SleepersInv' /\ SpareInv'
        /\ Len(sleeping') = n - 1
        /\ \A j \in 1..Len(sleeping') :
             (j < k => sleeping'[j] = sleeping[j]) /\ (j >= k => sleeping'[j] = sleeping[j + 1])
    BY <1>1, <1>5, <1>7, LeavesKeep DEF LatchInv
  <1>9. /\ latchQueue' \in Seq(Items)
        /\ IF latchClosed THEN latchQueue' = latchQueue ELSE Len(latchQueue') = Len(latchQueue) - 1
        /\ ~asserted'
    <2>1. CASE latchClosed
      BY <2>1, <1>2, <1>5 DEF LatchInv, QueueInv
    <2>2. CASE ~latchClosed
      <3>1. k \in 1..Len(latchQueue)
        BY <2>2, <1>2, <1>3 DEF LatchInv, QueueInv
      <3>2. latchQueue' = RemoveAt(latchQueue, k) /\ asserted' = asserted
        BY <3>1, <2>2, <1>5
      <3> QED
        BY <3>1, <3>2, <2>2, <1>2, RemovedAt DEF LatchInv, QueueInv
    <2> QED
      BY <2>1, <2>2
  <1>10. LatchTypes'
    <2>1. waking' \in Nat
      BY <1>2, <1>3, <1>5
    <2> QED
      BY <2>1, <1>5, <1>7, <1>8, <1>9 DEF LatchInv, LatchTypes
  <1>11. WokenInv'
    <2>1. \A i \in Items : putting'[i] = "wake" => \E j \in 1..waking' : write'[i] = sleeping'[j]
      <3> SUFFICES ASSUME NEW i \in Items, putting[i] = "wake"
                   PROVE  \E j \in 1..(waking - 1) : write[i] = sleeping'[j]
        BY <1>5
      <3>1. PICK m \in 1..waking : write[i] = sleeping[m]
        BY DEF LatchInv, WokenInv
      <3>2. m # k /\ m <= n
        BY <3>1, <1>2, <1>3 DEF ToBeWoken, LatchInv, WokenInv
      <3>3. CASE m < k
        <4>1. m \in 1..(waking - 1) /\ m \in 1..Len(sleeping') /\ m < k
          BY <3>2, <3>3, <1>2, <1>3, <1>8
        <4>2. sleeping'[m] = sleeping[m]
          BY <4>1, <1>8
        <4> QED
          BY <4>1, <4>2, <3>1
      <3>4. CASE m > k
        <4>1. m - 1 \in 1..(waking - 1) /\ m - 1 \in 1..Len(sleeping') /\ m - 1 >= k /\ (m - 1) + 1 = m
          BY <3>2, <3>4, <1>2, <1>3, <1>8
        <4>2. sleeping'[m - 1] = sleeping[(m - 1) + 1]
          BY <4>1, <1>8
        <4> QED
          BY <4>1, <4>2, <3>1
      <3> QED
        BY <3>2, <3>3, <3>4, <1>2
    <2>2. \A i, j \in Items :
            putting'[i] = "wake" /\ putting'[j] = "wake" /\ write'[i] = write'[j] => i = j
      BY <1>5 DEF LatchInv, WokenInv
    <2>3. ASSUME NEW j \in 1..Len(sleeping')
          PROVE  inbox'[sleeping'[j].pair] =
                   IF j <= waking' /\ ~ToBeWoken(sleeping[j])' THEN <<sleeping'[j].cookie>> ELSE <<>>
      <3>1. ToBeWoken(sleeping[j])' = ToBeWoken(sleeping'[j])
        BY <1>5 DEF ToBeWoken
      <3>2. PICK m \in (1..n) \ {k} : sleeping'[j] = sleeping[m] /\ (j <= waking' <=> m <= waking)
        <4>1. CASE j < k
          <5>1. j \in (1..n) \ {k} /\ (j <= waking - 1 <=> j <= waking)
            BY <4>1, <1>2, <1>3, <1>8
          <5>2. sleeping'[j] = sleeping[j]
            BY <4>1, <1>8
          <5> QED
            BY <5>1, <5>2, <1>5
        <4>2. CASE j >= k
          <5>1. j + 1 \in (1..n) \ {k} /\ (j <= waking - 1 <=> j + 1 <= waking)
            BY <4>2, <1>2, <1>3, <1>8
          <5>2. sleeping'[j] = sleeping[j + 1]
            BY <4>2, <1>8
          <5> QED
            BY <5>1, <5>2, <1>5
        <4> QED
          BY <4>1, <4>2, <1>8
      <3>3. sleeping[m].pair \in Pairs \ {p}
        BY <1>1 DEF LatchInv, SleepersInv
      <3>4. inbox'[sleeping[m].pair] = inbox[sleeping[m].pair]
        BY <3>3, <1>7
      <3>5. inbox[sleeping[m].pair] =
              IF m <= waking /\ ~ToBeWoken(sleeping[m]) THEN <<sleeping[m].cookie>> ELSE <<>>
        BY DEF LatchInv, WokenInv
      <3> QED
        BY <3>1, <3>2, <3>4, <3>5
    <2>4. waking' <= Len(sleeping')
      BY <1>2, <1>5, <1>8 DEF LatchInv, WokenInv
    <2> QED
      BY <2>1, <2>2, <2>3, <2>4 DEF WokenInv
  <1>12. QueueInv'
    BY <1>2, <1>5, <1>8, <1>9 DEF LatchInv, QueueInv
  <1> QED
    BY <1>8, <1>10, <1>11, <1>12 DEF LatchInv

LEMMA PutKeeps ==
    ASSUME LatchInv, NEW item \in Items, PutItem(item)
    PROVE  LatchInv'
  <1> DEFINE n == Len(sleeping)
  <1>1. /\ putting[item] = "before"
        /\ UNCHANGED <<latchClosed, sleeping, idle, inbox, reader, asserted>>
    BY DEF PutItem
  <1>2. n \in Nat /\ waking \in Nat /\ Len(latchQueue) \in Nat /\ latchQueue \in Seq(Items) /\ waking <= n
    BY DEF LatchInv, LatchTypes, WokenInv
  <1>3. SleepersInv' /\ SpareInv'
    BY <1>1 DEF LatchInv, SleepersInv, SpareInv, Pairs
  <1>4. CASE latchClosed \/ ~(waking < n)
    <2>1. /\ putting' = [putting EXCEPT ![item] = "done"] /\ waking' = waking /\ write' = write
          /\ IF latchClosed THEN latchQueue' = latchQueue ELSE latchQueue' = Append(latchQueue, item)
      BY <1>4 DEF PutItem
    <2>2. \A i \in Items : putting'[i] = "wake" <=> putting[i] = "wake"
      BY <1>1, <2>1 DEF LatchInv, LatchTypes
    <2>3. \A k \in 1..n : ToBeWoken(sleeping[k])' = ToBeWoken(sleeping[k])
      BY <1>1, <2>1, <2>2 DEF ToBeWoken
    <2>4. WokenInv'
      <3>1. /\ \A i \in Items : putting'[i] = "wake" => \E k \in 1..waking' : write'[i] = sleeping'[k]
            /\ \A i, j \in Items :
                 putting'[i] = "wake" /\ putting'[j] = "wake" /\ write'[i] = write'[j] => i = j
        BY <1>1, <2>1, <2>2 DEF LatchInv, WokenInv
      <3>2. \A k \in 1..Len(sleeping') : inbox'[sleeping'[k].pair] =
              IF k <= waking' /\ ~ToBeWoken(sleeping[k])' THEN <<sleeping'[k].cookie>> ELSE <<>>
        BY <1>1, <2>1, <2>3 DEF LatchInv, WokenInv
      <3> QED
        BY <3>1, <3>2, <1>1, <1>2, <2>1 DEF WokenInv
    <2>5. latchQueue' \in Seq(Items) /\ (latchClosed \/ Len(latchQueue') = Len(latchQueue) + 1)
      BY <1>2, <2>1
    <2>6. LatchTypes'
      BY <1>1, <2>1, <2>5 DEF LatchInv, LatchTypes, Pairs
    <2>7. QueueInv'
      BY <1>1, <1>2, <1>4, <2>1, <2>5 DEF LatchInv, QueueInv
    <2> QED
      BY <1>3, <2>4, <2>6, <2>7 DEF LatchInv
  <1>5. CASE ~latchClosed /\ waking < n
    <2>1. /\ putting' = [putting EXCEPT ![item] = "wake"] /\ waking' = waking + 1
          /\ write' = [write EXCEPT ![item] = sleeping[waking + 1]]
          /\ latchQueue' = Append(latchQueue, item)
      BY <1>5 DEF PutItem
    <2>2. waking + 1 \in 1..n
      BY <1>2, <1>5
    <2>3. /\ putting'[item] = "wake" /\ write'[item] = sleeping[waking + 1]
          /\ \A i \in Items \ {item} : putting'[i] = putting[i] /\ write'[i] = write[i]
      <3>1. write = [i \in Items |-> write[i]] /\ putting \in [Items -> {"before", "wake", "done"}]
        BY DEF LatchInv, LatchTypes
      <3> QED
        BY <3>1, <2>1
    <2>4. ASSUME NEW i \in Items, putting[i] = "wake"
          PROVE  i # item /\ \E k \in 1..waking : write[i] = sleeping[k]
      BY <2>4, <1>1 DEF LatchInv, WokenInv
    <2>5. \A i \in Items \ {item} : putting[i] = "wake" => write[i] # sleeping[waking + 1]
      <3> SUFFICES ASSUME NEW i \in Items, putting[i] = "wake", write[i] = sleeping[waking + 1]
                   PROVE  FALSE
        OBVIOUS
      <3>1. PICK k \in 1..waking : write[i] = sleeping[k]
        BY <2>4
      <3>2. k \in 1..n /\ k # waking + 1
        BY <1>2
      <3> QED
        BY <3>1, <3>2, <2>2, EntriesDiffer
    <2>6. ASSUME NEW k \in 1..n
          PROVE  ToBeWoken(sleeping[k])' <=> (k = waking + 1 \/ ToBeWoken(sleeping[k]))
      <3>1. ToBeWoken(sleeping[k])' <=> \E i \in Items : putting'[i] = "wake" /\ write'[i] = sleeping[k]
        BY <1>1 DEF ToBeWoken
      <3>2. sleeping[k] = sleeping[waking + 1] => k = waking + 1
        BY <2>2, EntriesDiffer
      <3> QED
        BY <1>1, <2>3, <3>1, <3>2 DEF ToBeWoken
    <2>7. WokenInv'
      <3>1. ASSUME NEW i \in Items, putting'[i] = "wake"
            PROVE  \E k \in 1..(waking + 1) : write'[i] = sleeping[k]
        <4>1. CASE i = item
          BY <4>1, <1>2, <2>3
        <4>2. CASE i # item
          <5>1. PICK k \in 1..waking : write[i] = sleeping[k]
            BY <3>1, <4>2, <2>3, <2>4
          <5>2. k \in 1..(waking + 1) /\ write'[i] = write[i]
            BY <4>2, <1>2, <2>3
          <5> QED
            BY <5>1, <5>2
        <4> QED
          BY <4>1, <4>2
      <3>2. \A i, j \in Items :
               putting'[i] = "wake" /\ putting'[j] = "wake" /\ write'[i] = write'[j] => i = j
        BY <2>3, <2>5 DEF LatchInv, WokenInv
      <3>3. ASSUME NEW k \in 1..n
            PROVE  inbox[sleeping[k].pair] =
                IF k <= waking + 1 /\ ~ToBeWoken(sleeping[k])' THEN <<sleeping[k].cookie>> ELSE <<>>
        <4>1. inbox[sleeping[k].pair] =
                IF k <= waking /\ ~ToBeWoken(sleeping[k]) THEN <<sleeping[k].cookie>> ELSE <<>>
          BY DEF LatchInv, WokenInv
        <4>2. k <= waking + 1 <=> (k = waking + 1 \/ k <= waking)
          BY <1>2
        <4>3. k = waking + 1 => ~(k <= waking)
          BY <1>2
        <4> QED
          BY <4>1, <4>2, <4>3, <2>6
      <3>4. \A i \in Items : putting'[i] = "wake" => \E k \in 1..waking' : write'[i] = sleeping'[k]
        BY <3>1, <1>1, <2>1
      <3>5. \A k \in 1..Len(sleeping') : inbox'[sleeping'[k].pair] =
              IF k <= waking' /\ ~ToBeWoken(sleeping[k])' THEN <<sleeping'[k].cookie>> ELSE <<>>
        BY <3>3, <1>1, <2>1
      <3>6. waking' <= Len(sleeping')
        BY <1>1, <1>2, <1>5, <2>1
      <3> QED
        BY <3>2, <3>4, <3>5, <3>6 DEF WokenInv
    <2>8. latchQueue' \in Seq(Items) /\ Len(latchQueue') = Len(latchQueue) + 1
      BY <1>2, <2>1
    <2>9. LatchTypes'
      <3>1. putting' \in [Items -> {"before", "wake", "done"}] /\ waking' \in Nat
        BY <1>2, <2>1 DEF LatchInv, LatchTypes
      <3>2. write' = [i \in Items |-> write'[i]]
        <4>1. write = [i \in Items |-> write[i]]
          BY DEF LatchInv, LatchTypes
        <4>2. \A f, x : f = [i \in Items |-> f[i]] =>
                 [f EXCEPT ![item] = x] = [i \in Items |-> [f EXCEPT ![item] = x][i]]
          OBVIOUS
        <4> QED
          BY <4>1, <4>2, <2>1
      <3> QED
        BY <3>1, <3>2, <1>1, <2>8 DEF LatchInv, LatchTypes, Pairs
    <2>10. QueueInv'
      BY <1>1, <1>2, <1>5, <2>1, <2>8 DEF LatchInv, QueueInv
    <2> QED
      BY <1>3, <2>7, <2>9, <2>10 DEF LatchInv
  <1> QED
    BY <1>4, <1>5

LEMMA WakeKeeps ==
    ASSUME LatchInv, NEW item \in Items, WakeReader(item)
    PROVE  LatchInv'
  <1> DEFINE n == Len(sleeping)
  <1>1. /\ putting[item] = "wake" /\ putting' = [putting EXCEPT ![item] = "done"]
        /\ inbox' = [inbox EXCEPT ![write[item].pair] = Append(@, write[item].cookie)]
        /\ UNCHANGED <<latchClosed, latchQueue, sleeping, waking, idle, reader, write, asserted>>
    BY DEF WakeReader
  <1>2. n \in Nat /\ waking \in Nat /\ waking <= n
    BY DEF LatchInv, LatchTypes, WokenInv
  <1>3. PICK k \in 1..waking : write[item] = sleeping[k]
    BY <1>1 DEF LatchInv, WokenInv
  <1> DEFINE p == sleeping[k].pair
             c == sleeping[k].cookie
  <1>4. k \in 1..n /\ p \in Pairs /\ c \in Readers /\ ToBeWoken(sleeping[k])
    <2>1. k \in 1..n
      BY <1>2
    <2>2. p \in Pairs /\ c \in Readers
      BY <2>1, Entered DEF LatchInv, SleepersInv
    <2> QED
      BY <2>1, <2>2, <1>1, <1>3 DEF ToBeWoken
  <1>5. inbox[p] = <<>>
    BY <1>4 DEF LatchInv, WokenInv
  <1>6. inbox' = [inbox EXCEPT ![p] = <<c>>]
    <2>1. Append(<<>>, c) = <<c>>
      OBVIOUS
    <2> QED
      BY <2>1, <1>1, <1>3, <1>5
  <1> HIDE DEF p, c
  <1>7. /\ inbox' \in Seq(Seq(Readers)) /\ Len(inbox') = Len(inbox) /\ inbox'[p] = <<c>>
        /\ \A q \in Pairs \ {p} : inbox'[q] = inbox[q]
    <2>1. inbox \in Seq(Seq(Readers)) /\ <<c>> \in Seq(Readers)
      BY <1>4 DEF LatchInv, LatchTypes
    <2> QED
      BY <2>1, <1>4, <1>6 DEF Pairs
  <1>8. Pairs' = Pairs
    BY <1>7 DEF Pairs
  <1>9. \A i \in Items : putting'[i] = "wake" <=> putting[i] = "wake" /\ i # item
    BY <1>1 DEF LatchInv, LatchTypes
  <1>10. LatchTypes'
    BY <1>1, <1>7, <1>8 DEF LatchInv, LatchTypes
  <1>11. SleepersInv'
    BY <1>1, <1>8 DEF LatchInv, SleepersInv
  <1>12. SpareInv'
    <2>1. ASSUME NEW j \in 1..Len(idle)
          PROVE  inbox'[idle[j]] = <<>>
      <3>1. idle[j] # p /\ inbox[idle[j]] = <<>>
        BY <1>4 DEF LatchInv, SpareInv, p
      <3>2. idle[j] \in Pairs
        BY DEF LatchInv, LatchTypes
      <3> QED
        BY <3>1, <3>2, <1>7
    <2> QED
      BY <2>1, <1>1 DEF LatchInv, SpareInv
  <1>13. WokenInv'
    <2>1. \A i \in Items : putting'[i] = "wake" => \E j \in 1..waking' : write'[i] = sleeping'[j]
      BY <1>1, <1>9 DEF LatchInv, WokenInv
    <2>2. \A i, j \in Items :
             putting'[i] = "wake" /\ putting'[j] = "wake" /\ write'[i] = write'[j] => i = j
      BY <1>1, <1>9 DEF LatchInv, WokenInv
    <2>3. ASSUME NEW j \in 1..n
          PROVE  inbox'[sleeping[j].pair] =
              IF j <= waking /\ ~ToBeWoken(sleeping[j])' THEN <<sleeping[j].cookie>> ELSE <<>>
      <3>0. ToBeWoken(sleeping[j])' <=> \E i \in Items : putting'[i] = "wake" /\ write[i] = sleeping[j]
        BY <1>1 DEF ToBeWoken
      <3>1. CASE j = k
        <4>1. ~ToBeWoken(sleeping[j])'
          BY <3>0, <3>1, <1>1, <1>3, <1>9 DEF LatchInv, WokenInv
        <4>2. j <= waking
          BY <3>1
        <4> QED
          BY <4>1, <4>2, <3>1, <1>7 DEF p, c
      <3>2. CASE j # k
        <4>1. sleeping[j].pair \in Pairs \ {p} /\ sleeping[j] # sleeping[k]
          BY <3>2, <1>4 DEF LatchInv, SleepersInv, p
        <4>2. ToBeWoken(sleeping[j])' <=> ToBeWoken(sleeping[j])
          BY <3>0, <4>1, <1>3, <1>9 DEF ToBeWoken
        <4>3. inbox[sleeping[j].pair] =
                IF j <= waking /\ ~ToBeWoken(sleeping[j]) THEN <<sleeping[j].cookie>> ELSE <<>>
          BY DEF LatchInv, WokenInv
        <4> QED
          BY <4>1, <4>2, <4>3, <1>7
      <3> QED
        BY <3>1, <3>2
    <2>4. \A j \in 1..Len(sleeping') : inbox'[sleeping'[j].pair] =
              IF j <= waking' /\ ~ToBeWoken(sleeping[j])' THEN <<sleeping'[j].cookie>> ELSE <<>>
      BY <2>3, <1>1
    <2> QED
      BY <2>1, <2>2, <2>4, <1>1, <1>2 DEF WokenInv
  <1>14. QueueInv'
    BY <1>1 DEF LatchInv, QueueInv
  <1> QED
    BY <1>10, <1>11, <1>12, <1>13, <1>14 DEF LatchInv

LEMMA CloseKeeps ==
    ASSUME LatchInv, CloseLatch
    PROVE  LatchInv'
  <1> DEFINE n == Len(sleeping)
  <1>1. /\ latchClosed' = TRUE
        /\ inbox' = [p \in Pairs |-> IF Unwoken(p) = {} THEN inbox[p]
                        ELSE Append(inbox[p], sleeping[CHOOSE k \in Unwoken(p) : TRUE].cookie)]
        /\ UNCHANGED <<latchQueue, sleeping, idle, reader, putting, write, asserted>>
    BY DEF CloseLatch
  <1>2. n \in Nat /\ waking \in Nat /\ waking <= n
    BY DEF LatchInv, LatchTypes, WokenInv
  <1>3. waking' = n
    BY <1>2 DEF CloseLatch
  <1>4. ASSUME NEW p \in Pairs, NEW k \in Unwoken(p)
        PROVE  k \in 1..n /\ k > waking /\ sleeping[k].pair = p /\ sleeping[k].cookie \in Readers
    <2>1. k \in 1..n /\ k > waking /\ sleeping[k].pair = p
      BY <1>2 DEF Unwoken
    <2> QED
      BY <2>1, Entered DEF LatchInv
  <1>5. /\ inbox' \in Seq(Seq(Readers)) /\ Len(inbox') = Len(inbox)
        /\ \A p \in Pairs : Unwoken(p) = {} => inbox'[p] = inbox[p]
    <2>1. inbox \in Seq(Seq(Readers)) /\ Len(inbox) \in Nat
      BY DEF LatchInv, LatchTypes
    <2>2. ASSUME NEW p \in Pairs
          PROVE  inbox'[p] \in Seq(Readers)
      <3>1. inbox[p] \in Seq(Readers)
        BY <2>1 DEF Pairs
      <3>2. CASE Unwoken(p) = {}
        BY <3>1, <3>2, <1>1
      <3>3. CASE Unwoken(p) # {}
        <4> DEFINE k == CHOOSE k \in Unwoken(p) : TRUE
        <4>1. k \in Unwoken(p)
          BY <3>3
        <4>2. inbox'[p] = Append(inbox[p], sleeping[k].cookie)
          BY <3>3, <1>1
        <4> HIDE DEF k
        <4>3. sleeping[k].cookie \in Readers
          BY <4>1, <1>4
        <4> QED
          BY <4>2, <4>3, <3>1
      <3> QED
        BY <3>2, <3>3
    <2>3. inbox' = [p \in 1..Len(inbox) |-> inbox'[p]]
      BY <1>1 DEF Pairs
    <2>4. inbox' \in [1..Len(inbox) -> Seq(Readers)]
      BY <2>2, <2>3 DEF Pairs
    <2>5. inbox' \in Seq(Seq(Readers))
      <3>1. \A S : \A n_0 \in Nat : \A f \in [1..n_0 -> S] : f \in Seq(S) /\ Len(f) = n_0
        OBVIOUS
      <3> QED
        BY <3>1, <2>1, <2>4
    <2>6. DOMAIN inbox' = 1..Len(inbox)
      BY <2>4
    <2>7. Len(inbox') = Len(inbox)
      BY <2>1, <2>5, <2>6
    <2> QED
      BY <2>5, <2>7, <1>1
  <1>6. Pairs' = Pairs
    BY <1>5 DEF Pairs
  <1>7. LatchTypes'
    BY <1>1, <1>2, <1>3, <1>5, <1>6 DEF LatchInv, LatchTypes
  <1>8. SleepersInv'
    BY <1>1, <1>6 DEF LatchInv, SleepersInv
  <1>9. SpareInv'
    <2>1. ASSUME NEW j \in 1..Len(idle)
          PROVE  inbox'[idle[j]] = <<>>
      <3>1. idle[j] \in Pairs
        BY DEF LatchInv, LatchTypes
      <3>2. Unwoken(idle[j]) = {}
        BY <3>1, <1>4 DEF LatchInv, SpareInv
      <3> QED
        BY <3>1, <3>2, <1>5 DEF LatchInv, SpareInv
    <2> QED
      BY <2>1, <1>1 DEF LatchInv, SpareInv
  <1>10. WokenInv'
    <2>1. \A i \in Items : putting'[i] = "wake" => \E j \in 1..waking' : write'[i] = sleeping'[j]
      <3> SUFFICES ASSUME NEW i \in Items, putting[i] = "wake"
                   PROVE  \E j \in 1..n : write[i] = sleeping[j]
        BY <1>1, <1>3
      <3>1. PICK j \in 1..waking : write[i] = sleeping[j]
        BY DEF LatchInv, WokenInv
      <3>2. j \in 1..n
        BY <1>2
      <3> QED
        BY <3>1, <3>2
    <2>2. \A i, j \in Items :
             putting'[i] = "wake" /\ putting'[j] = "wake" /\ write'[i] = write'[j] => i = j
      BY <1>1 DEF LatchInv, WokenInv
    <2>3. ASSUME NEW j \in 1..n
          PROVE  inbox'[sleeping[j].pair] =
                    IF ~ToBeWoken(sleeping[j]) THEN <<sleeping[j].cookie>> ELSE <<>>
      <3>1. sleeping[j].pair \in Pairs
        BY DEF LatchInv, SleepersInv
      <3>2. inbox[sleeping[j].pair] =
              IF j <= waking /\ ~ToBeWoken(sleeping[j]) THEN <<sleeping[j].cookie>> ELSE <<>>
        BY DEF LatchInv, WokenInv
      <3>3. \A k \in Unwoken(sleeping[j].pair) : k = j
        BY <3>1, <1>4 DEF LatchInv, SleepersInv
      <3>4. CASE j <= waking
        <4>1. Unwoken(sleeping[j].pair) = {}
          BY <3>1, <3>3, <3>4, <1>2, <1>4
        <4> QED
          BY <4>1, <3>1, <3>2, <3>4, <1>5
      <3>5. CASE ~(j <= waking)
        <4>1. j \in Unwoken(sleeping[j].pair)
          BY <3>5, <1>2 DEF Unwoken
        <4>2. (CHOOSE k \in Unwoken(sleeping[j].pair) : TRUE) = j
          BY <4>1, <3>3
        <4>3. inbox'[sleeping[j].pair] = Append(inbox[sleeping[j].pair], sleeping[j].cookie)
          BY <4>1, <4>2, <3>1, <1>1
        <4>4. ~ToBeWoken(sleeping[j])
          <5> SUFFICES ASSUME NEW i \in Items, putting[i] = "wake", write[i] = sleeping[j]
                       PROVE  FALSE
            BY DEF ToBeWoken
          <5>1. PICK m \in 1..waking : write[i] = sleeping[m]
            BY DEF LatchInv, WokenInv
          <5>2. m \in 1..n /\ m # j
            BY <3>5, <1>2
          <5> QED
            BY <5>1, <5>2, EntriesDiffer
        <4>5. Append(<<>>, sleeping[j].cookie) = <<sleeping[j].cookie>>
          OBVIOUS
        <4> QED
          BY <4>3, <4>4, <4>5, <3>2, <3>5
      <3> QED
        BY <3>4, <3>5
    <2>4. ASSUME NEW j \in 1..Len(sleeping')
          PROVE  inbox'[sleeping'[j].pair] =
              IF j <= waking' /\ ~ToBeWoken(sleeping[j])' THEN <<sleeping'[j].cookie>> ELSE <<>>
      <3>1. ToBeWoken(sleeping[j])' = ToBeWoken(sleeping[j])
        BY <1>1 DEF ToBeWoken
      <3>2. j \in 1..n /\ j <= waking'
        BY <1>1, <1>2, <1>3
      <3> QED
        BY <3>1, <3>2, <2>3, <1>1
    <2>5. waking' <= Len(sleeping')
      BY <1>1, <1>2, <1>3
    <2> QED
      BY <2>1, <2>2, <2>4, <2>5 DEF WokenInv
  <1>11. QueueInv'
    BY <1>1, <1>2, <1>3 DEF LatchInv, QueueInv
  <1> QED
    BY <1>7, <1>8, <1>9, <1>10, <1>11 DEF LatchInv

LEMMA LatchKeeps ==
    ASSUME LatchRaced, [LatchNext]_latchVars
    PROVE  LatchRaced'
  <1>1. CASE raced
    <2>1. raced'
      BY <1>1 DEF LatchNext, latchVars, GetNow, GetClosed, GetNothing, Sleep, TimesOut, Woken,
                  PutItem, WakeReader, CloseLatch
    <2> QED
      BY <2>1 DEF LatchRaced
  <1>2. CASE ~raced
    <2>0. LatchInv
      BY <1>2 DEF LatchRaced
    <2>1. CASE UNCHANGED latchVars
      BY SMTT(30), <2>0, <2>1
         DEF latchVars, LatchRaced, LatchInv, LatchTypes, SleepersInv, SpareInv, WokenInv,
                        QueueInv, Pairs, ToBeWoken
    <2>2. CASE \E r \in Readers : GetNow(r) \/ GetClosed(r) \/ GetNothing(r)
      BY <2>0, <2>2, GetsKeep DEF LatchRaced
    <2>3. CASE \E r \in Readers : Sleep(r)
      BY <2>0, <2>3, SleepKeeps DEF LatchRaced
    <2>4. CASE \E r \in Readers : TimesOut(r)
      BY <2>0, <2>4, TimesOutKeeps
    <2>5. CASE \E r \in Readers : Woken(r)
      BY <2>0, <2>5, WokenKeeps DEF LatchRaced
    <2>6. CASE \E item \in Items : PutItem(item)
      BY <2>0, <2>6, PutKeeps DEF LatchRaced
    <2>7. CASE \E item \in Items : WakeReader(item)
      BY <2>0, <2>7, WakeKeeps DEF LatchRaced
    <2>8. CASE CloseLatch
      BY <2>0, <2>8, CloseKeeps DEF LatchRaced
    <2> QED
      BY <2>1, <2>2, <2>3, <2>4, <2>5, <2>6, <2>7, <2>8 DEF LatchNext
  <1> QED
    BY <1>1, <1>2

\* As long as no timeout came between the two halves of a put(), the readers of a
\* Latch that were woken have their cookie or will get it, there is an item for each,
\* and nobody sleeps on while an item is nobody's.
THEOREM SleepersServed == LatchSpec => []SleepersAreServed
  <1>1. LatchInit => LatchRaced
    BY LatchStarts
  <1>2. LatchRaced /\ [LatchNext]_latchVars => LatchRaced'
    BY LatchKeeps
  <1>3. LatchRaced => SleepersAreServed
    <2> SUFFICES ASSUME LatchInv PROVE SleepersAreServed
      BY DEF LatchRaced, SleepersAreServed
    <2>1. ASSUME NEW k \in 1..waking
          PROVE  inbox[sleeping[k].pair] = <<sleeping[k].cookie>> \/ ToBeWoken(sleeping[k])
      <3>1. k \in 1..Len(sleeping) /\ k <= waking
        BY DEF LatchInv, LatchTypes, WokenInv
      <3> QED
        BY <3>1 DEF LatchInv, WokenInv
    <2> QED
      BY <2>1 DEF LatchInv, WokenInv, QueueInv, SleepersAreServed
  <1> QED
    BY <1>1, <1>2, <1>3, PTL DEF LatchSpec

----------------------------------------------------------------------------
(* The callers of connect().                                               *)

Attributes == [stdio : Sides, stderr : Sides, timer : BOOLEAN, exception : Errors,
               put : BOOLEAN, registered : BOOLEAN, detached : BOOLEAN]
Heard == [conn : Conns, what : {"connection", "reaper"}]
Own(c) == Listener(c, "connection")
Listed(c, seq) == \E i \in 1..Len(seq) : seq[i] = Own(c)
ListedOnce(c, seq) == \A i, j \in 1..Len(seq) : seq[i] = Own(c) /\ seq[j] = Own(c) => i = j

ConnTypes ==
    /\ caller \in [Conns -> {"waiting", "connected", "failed"}]
    /\ conn \in [Conns -> Attributes]
    /\ proc \in [Conns -> {"none", "running", "exited"}]
    /\ reaper \in [Conns -> [made : BOOLEAN, tries : Nat, timer : BOOLEAN]]
    /\ listeners \in Seq(Heard)
    /\ firing \in Nat /\ (connBroker = "firing" => firing >= 1)
    /\ connBroker \in {"running", "firing", "grace", "ended"}
\* How a connection stands: one that was answered waits for nothing that could fail it.
Stands(c) ==
    /\ caller[c] = "connected" => conn[c].put /\ conn[c].exception = "none"
    /\ conn[c].exception # "none" =>
         /\ conn[c].stdio # "open" /\ conn[c].stderr # "open"
         /\ ~conn[c].registered /\ conn[c].put
         /\ reaper[c].made \/ proc[c] = "none"
    /\ conn[c].put => ~conn[c].timer
    /\ conn[c].registered => conn[c].put
    /\ conn[c].stdio = "none" => conn[c].stderr = "none" /\ ~conn[c].timer /\ proc[c] = "none"
    /\ Listed(c, listeners) =>
         conn[c].stdio # "none" /\ (connBroker \in {"running", "firing"} => ~conn[c].put)
    /\ ListedOnce(c, listeners)
ConnInv == ConnTypes /\ \A c \in Conns : Stands(c)

\* A listener that is there once is not there after unlisten(), and the others are as before.
LEMMA Unlistened ==
    ASSUME NEW seq \in Seq(Heard), NEW c \in Conns, ListedOnce(c, seq)
    PROVE  /\ Unlisten(seq, Own(c)) \in Seq(Heard)
           /\ ~Listed(c, Unlisten(seq, Own(c)))
           /\ \A d \in Conns :
                /\ Listed(d, Unlisten(seq, Own(c))) => Listed(d, seq)
                /\ ListedOnce(d, seq) => ListedOnce(d, Unlisten(seq, Own(c)))
  <1> DEFINE e == Own(c)
             n == Len(seq)
  <1>0. n \in Nat
    OBVIOUS
  <1>1. CASE ~Listed(c, seq)
    <2>1. e \notin ToSet(seq)
      BY <1>1 DEF ToSet, Listed
    <2> QED
      BY <2>1, <1>1 DEF Unlisten
  <1>2. CASE Listed(c, seq)
    <2>1. PICK k \in 1..n : seq[k] = e
      BY <1>2 DEF Listed
    <2>2. e \in ToSet(seq)
      BY <2>1 DEF ToSet
    <2>3. {i \in 1..n : seq[i] = e} = {k}
      BY <2>1 DEF ListedOnce
    <2>4. Min({k}) = k
      BY DEF Min
    <2>5. Unlisten(seq, e) = RemoveAt(seq, k)
      <3>1. SelectInSeq(seq, LAMBDA v : v = e) = k
        BY <2>3, <2>4 DEF SelectInSeq
      <3> QED
        BY <2>1, <2>2, <3>1 DEF Unlisten, RemoveFirst
    <2> DEFINE new == RemoveAt(seq, k)
               Old(j) == IF j < k THEN j ELSE j + 1
    <2>6. /\ new \in Seq(Heard) /\ Len(new) = n - 1
          /\ \A j \in 1..(n - 1) : j < k => new[j] = seq[j]
          /\ \A j \in 1..(n - 1) : j >= k => new[j] = seq[j + 1]
      BY RemovedAt
    <2> HIDE DEF new
    <2>7. ASSUME NEW j \in 1..Len(new)
          PROVE  new[j] = seq[Old(j)] /\ Old(j) \in (1..n) \ {k}
      <3>1. j \in 1..(n - 1)
        BY <2>6
      <3>2. CASE j < k
        BY <3>1, <3>2, <2>6, <1>0
      <3>3. CASE j >= k
        <4>1. new[j] = seq[j + 1]
          BY <3>1, <3>3, <2>6
        <4>2. Old(j) = j + 1 /\ j + 1 \in (1..n) \ {k}
          BY <3>1, <3>3, <1>0
        <4> QED
          BY <4>1, <4>2
      <3> QED
        BY <3>1, <3>2, <3>3, <1>0
    <2>8. ~Listed(c, new)
      <3> SUFFICES ASSUME NEW j \in 1..Len(new), new[j] = e PROVE FALSE
        BY DEF Listed
      <3>1. seq[Old(j)] = e /\ Old(j) \in 1..n /\ Old(j) # k
        BY <2>7
      <3> QED
        BY <3>1, <2>1 DEF ListedOnce
    <2>9. ASSUME NEW d \in Conns
          PROVE  /\ Listed(d, new) => Listed(d, seq)
                 /\ ListedOnce(d, seq) => ListedOnce(d, new)
      <3>1. Listed(d, new) => Listed(d, seq)
        <4> HIDE DEF Old
        <4> QED
          BY <2>7 DEF Listed
      <3>2. ASSUME ListedOnce(d, seq), NEW i \in 1..Len(new), NEW j \in 1..Len(new),
                   new[i] = Own(d), new[j] = Own(d)
            PROVE  i = j
        <4>1. Old(i) = Old(j)
          <5>1. seq[Old(i)] = Own(d) /\ seq[Old(j)] = Own(d) /\ Old(i) \in 1..n /\ Old(j) \in 1..n
            BY <3>2, <2>7
          <5> HIDE DEF Old
          <5> QED
            BY <5>1, <3>2 DEF ListedOnce
        <4> QED
          BY <4>1, <2>6, <1>0
      <3> QED
        BY <3>1, <3>2 DEF ListedOnce
    <2> QED
      BY <2>5, <2>6, <2>8, <2>9 DEF new
  <1> QED
    BY <1>1, <1>2

LEMMA Listening ==
    ASSUME NEW seq \in Seq(Heard), NEW e \in Heard
    PROVE  /\ Append(seq, e) \in Seq(Heard)
           /\ \A d \in Conns : e # Own(d) =>
                /\ Listed(d, Append(seq, e)) <=> Listed(d, seq)
                /\ ListedOnce(d, Append(seq, e)) <=> ListedOnce(d, seq)
           /\ \A d \in Conns : ~Listed(d, seq) => ListedOnce(d, Append(seq, e))
  <1> DEFINE new == Append(seq, e)
             n == Len(seq)
  <1>1. new \in Seq(Heard) /\ Len(new) = n + 1 /\ new[n + 1] = e /\ n \in Nat
    OBVIOUS
  <1>2. \A i \in 1..n : new[i] = seq[i]
    OBVIOUS
  <1> HIDE DEF new
  <1>3. \A i \in 1..(n + 1) : i = n + 1 \/ i \in 1..n
    BY <1>1
  <1>4. \A i \in 1..n : i \in 1..(n + 1)
    BY <1>1
  <1>5. ASSUME NEW d \in Conns, e # Own(d)
        PROVE  /\ Listed(d, new) <=> Listed(d, seq)
               /\ ListedOnce(d, new) <=> ListedOnce(d, seq)
    <2>1. Listed(d, new) <=> Listed(d, seq)
      BY <1>1, <1>2, <1>3, <1>4, <1>5 DEF Listed
    <2>2. ListedOnce(d, new) <=> ListedOnce(d, seq)
      BY <1>1, <1>2, <1>3, <1>4, <1>5 DEF ListedOnce
    <2> QED
      BY <2>1, <2>2
  <1>6. ASSUME NEW d \in Conns, ~Listed(d, seq)
        PROVE  ListedOnce(d, new)
    BY <1>1, <1>2, <1>3, <1>6 DEF Listed, ListedOnce
  <1> QED
    BY <1>1, <1>5, <1>6 DEF new

\* A listener of a reaper is nothing to a connection.
LEMMA ReaperListens ==
    ASSUME NEW seq \in Seq(Heard), NEW c \in Conns
    PROVE  /\ WithReaper(c, seq) \in Seq(Heard)
           /\ \A d \in Conns : /\ Listed(d, WithReaper(c, seq)) <=> Listed(d, seq)
                               /\ ListedOnce(d, WithReaper(c, seq)) <=> ListedOnce(d, seq)
  <1>1. Listener(c, "reaper") \in Heard /\ \A d \in Conns : Listener(c, "reaper") # Own(d)
    BY DEF Listener, Heard, Own
  <1> QED
    BY <1>1, Listening DEF WithReaper

\* What happens to one connection leaves the others as they stand.
LEMMA Unchanged ==
    ASSUME ConnTypes, NEW d \in Conns, Stands(d),
           caller'[d] = caller[d], conn'[d] = conn[d],
           proc'[d] = proc[d] \/ proc[d] = "running",
           reaper[d].made => reaper'[d].made,
           Listed(d, listeners') => Listed(d, listeners), ListedOnce(d, listeners'),
           connBroker' \in {"running", "firing"} => connBroker \in {"running", "firing"}
    PROVE  Stands(d)'
  BY DEF Stands

\* The reaper of a child does nothing to its connection.
LEMMA Reaping ==
    ASSUME ConnTypes, NEW c \in Conns, NEW n \in Nat, NEW heeds, Reap(c, n, heeds)
    PROVE  /\ reaper' \in [Conns -> [made : BOOLEAN, tries : Nat, timer : BOOLEAN]]
           /\ proc' \in [Conns -> {"none", "running", "exited"}]
           /\ reaper'[c].made
           /\ \A d \in Conns \ {c} : reaper'[d] = reaper[d] /\ proc'[d] = proc[d]
           /\ proc'[c] = proc[c] \/ proc[c] = "running"
  <1> DEFINE again == proc[c] = "running" /\ n + 1 =< GiveUpAt
             r == [made |-> TRUE, tries |-> IF proc[c] = "running" THEN n + 1 ELSE n, timer |-> again]
  <1>1. /\ reaper' = [reaper EXCEPT ![c] = r]
        /\ proc' = proc \/ (proc[c] = "running" /\ proc' = [proc EXCEPT ![c] = "exited"])
    BY DEF Reap
  <1>2. r \in [made : BOOLEAN, tries : Nat, timer : BOOLEAN] /\ r.made
    OBVIOUS
  <1> HIDE DEF r
  <1>3. /\ reaper \in [Conns -> [made : BOOLEAN, tries : Nat, timer : BOOLEAN]]
        /\ proc \in [Conns -> {"none", "running", "exited"}]
    BY DEF ConnTypes
  <1> QED
    BY <1>1, <1>2, <1>3

LEMMA ReaperMade ==
    ASSUME ConnTypes, NEW c \in Conns, MakesReaper(c)
    PROVE  /\ reaper' \in [Conns -> [made : BOOLEAN, tries : Nat, timer : BOOLEAN]]
           /\ proc' \in [Conns -> {"none", "running", "exited"}]
           /\ reaper'[c].made \/ proc'[c] = "none"
           /\ \A d \in Conns \ {c} : reaper'[d] = reaper[d] /\ proc'[d] = proc[d]
           /\ proc'[c] = proc[c] \/ proc[c] = "running"
  <1>1. CASE reaper[c].made \/ proc[c] = "none"
    BY <1>1 DEF MakesReaper, ConnTypes
  <1>2. CASE ~(reaper[c].made \/ proc[c] = "none")
    BY <1>2, Reaping DEF MakesReaper
  <1> QED
    BY <1>1, <1>2

\* What the ends of its streams make of a connection.
Shut(r) == [r EXCEPT !.stdio = ClosedSide(@), !.stderr = ClosedSide(@)]

LEMMA Altered ==
    ASSUME NEW r \in Attributes, NEW why \in Errors
    PROVE  /\ Fallen(r, why) \in Attributes
           /\ ~Fallen(r, why).timer /\ Fallen(r, why).put
           /\ Fallen(r, why).stdio = ClosedSide(r.stdio) /\ Fallen(r, why).stderr = ClosedSide(r.stderr)
           /\ Fallen(r, why).registered = r.registered
           /\ Fallen(r, why).exception = IF r.exception = "none" THEN why ELSE r.exception
           /\ Shut(r) \in Attributes
           /\ Shut(r).stdio = ClosedSide(r.stdio) /\ Shut(r).stderr = ClosedSide(r.stderr)
           /\ Shut(r).timer = r.timer /\ Shut(r).put = r.put
           /\ Shut(r).registered = r.registered /\ Shut(r).exception = r.exception
  <1>1. ClosedSide(r.stdio) \in Sides /\ ClosedSide(r.stderr) \in Sides
    BY DEF ClosedSide, Sides, Attributes
  <1> QED
    BY <1>1 DEF Attributes, Fallen, Shut

LEMMA ClosedIsClosed ==
    ASSUME NEW side
    PROVE  ClosedSide(side) # "open" /\ (ClosedSide(side) = "none" <=> side = "none")
  BY DEF ClosedSide

\* _fail_connection() of a connection that is connecting.
LEMMA FailKeeps ==
    ASSUME ConnInv, NEW c \in Conns, NEW why \in Errors \ {"none"}, Fail(c, why),
           ~conn[c].put, conn[c].timer \/ Listed(c, listeners),
           caller' = caller, connBroker' = connBroker, firing' \in Nat, firing' >= firing
    PROVE  ConnInv'
  <1>1. ConnTypes /\ Stands(c)
    BY DEF ConnInv
  <1>2. /\ conn[c] \in Attributes /\ conn[c].exception = "none" /\ ~conn[c].registered
        /\ conn[c].stdio # "none" /\ caller[c] # "connected"
    BY <1>1 DEF Stands, ConnTypes
  <1> DEFINE r == Fallen(conn[c], why)
             less == Unlisten(listeners, Own(c))
  <1>3. /\ conn' = [conn EXCEPT ![c] = r]
        /\ listeners' = WithReaper(c, less)
        /\ MakesReaper(c)
    <2>1. conn' = [conn EXCEPT ![c] = r]
      BY DEF Fail
    <2>2. listeners' = WithReaper(c, less)
      BY <1>2 DEF Fail, Own
    <2> QED
      BY <2>1, <2>2 DEF Fail
  <1>4. /\ r \in Attributes /\ ~r.timer /\ r.put /\ ~r.registered /\ r.exception # "none"
        /\ r.stdio \notin {"none", "open"} /\ r.stderr # "open"
    <2>1. /\ r \in Attributes /\ ~r.timer /\ r.put /\ r.registered = conn[c].registered
          /\ r.stdio = ClosedSide(conn[c].stdio) /\ r.stderr = ClosedSide(conn[c].stderr)
          /\ r.exception = IF conn[c].exception = "none" THEN why ELSE conn[c].exception
      BY <1>2, Altered
    <2> HIDE DEF r
    <2> QED
      BY <2>1, <1>2, ClosedIsClosed
  <1> HIDE DEF r
  <1>5. less \in Seq(Heard) /\ ~Listed(c, less)
        /\ \A d \in Conns :
             (Listed(d, less) => Listed(d, listeners)) /\ (ListedOnce(d, listeners) => ListedOnce(d, less))
    BY <1>1, Unlistened DEF ConnTypes, Stands
  <1> HIDE DEF less
  <1>6. /\ listeners' \in Seq(Heard) /\ ~Listed(c, listeners')
        /\ \A d \in Conns :
             (Listed(d, listeners') => Listed(d, listeners)) /\ (ListedOnce(d, listeners) => ListedOnce(d, listeners'))
    BY <1>3, <1>5, ReaperListens
  <1>7. /\ reaper' \in [Conns -> [made : BOOLEAN, tries : Nat, timer : BOOLEAN]]
        /\ proc' \in [Conns -> {"none", "running", "exited"}]
        /\ reaper'[c].made \/ proc'[c] = "none"
        /\ \A d \in Conns \ {c} : reaper'[d] = reaper[d] /\ proc'[d] = proc[d]
    BY <1>1, <1>3, ReaperMade
  <1>8. ConnTypes'
    <2>1. conn' \in [Conns -> Attributes]
      BY <1>1, <1>3, <1>4 DEF ConnTypes
    <2>2. connBroker = "firing" => firing' >= 1
      BY <1>1 DEF ConnTypes
    <2> QED
      BY <1>1, <1>6, <1>7, <2>1, <2>2 DEF ConnTypes
  <1>9. conn'[c] = r /\ \A d \in Conns \ {c} : conn'[d] = conn[d]
    BY <1>1, <1>3 DEF ConnTypes
  <1>10. ASSUME NEW d \in Conns \ {c}
         PROVE  Stands(d)'
    <2>1. Stands(d) /\ ListedOnce(d, listeners)
      BY DEF ConnInv, Stands
    <2>2. /\ caller'[d] = caller[d] /\ conn'[d] = conn[d] /\ (proc'[d] = proc[d] \/ proc[d] = "running")
          /\ (reaper[d].made => reaper'[d].made)
          /\ (Listed(d, listeners') => Listed(d, listeners)) /\ ListedOnce(d, listeners')
          /\ connBroker' = connBroker
      BY <2>1, <1>1, <1>6, <1>7, <1>9
    <2> QED
      BY <2>1, <2>2, <1>1, Unchanged
  <1>11. Stands(c)'
    BY <1>1, <1>2, <1>4, <1>6, <1>7, <1>9 DEF Stands
  <1> QED
    BY <1>8, <1>10, <1>11 DEF ConnInv

\* The streams of a connection that waits for nothing end.
LEMMA ShutKeeps ==
    ASSUME ConnInv, NEW c \in Conns, ~conn[c].timer,
           conn' = [conn EXCEPT ![c].stdio = ClosedSide(@), ![c].stderr = ClosedSide(@)],
           listeners' = WithReaper(c, listeners), MakesReaper(c),
           caller' = caller, connBroker' = connBroker, firing' = firing
    PROVE  ConnInv'
  <1>1. ConnTypes /\ Stands(c) /\ conn[c] \in Attributes
    BY DEF ConnInv, ConnTypes
  <1> DEFINE r == Shut(conn[c])
  <1>2. /\ r \in Attributes
        /\ r.stdio = ClosedSide(conn[c].stdio) /\ r.stderr = ClosedSide(conn[c].stderr)
        /\ r.timer = conn[c].timer /\ r.put = conn[c].put /\ r.registered = conn[c].registered
        /\ r.exception = conn[c].exception
    <2>1. "none" \in Errors
      BY DEF Errors
    <2> QED
      BY <1>1, <2>1, Altered
  <1>3. conn' = [conn EXCEPT ![c] = r]
    BY <1>1 DEF ConnTypes, Shut
  <1> HIDE DEF r
  <1>4. conn'[c] = r /\ conn' \in [Conns -> Attributes] /\ \A d \in Conns \ {c} : conn'[d] = conn[d]
    <2>1. conn \in [Conns -> Attributes]
      BY <1>1 DEF ConnTypes
    <2> QED
      BY <2>1, <1>2, <1>3
  <1>5. /\ listeners' \in Seq(Heard)
        /\ \A d \in Conns :
             (Listed(d, listeners') => Listed(d, listeners)) /\ (ListedOnce(d, listeners) => ListedOnce(d, listeners'))
    BY <1>1, ReaperListens DEF ConnTypes
  <1>6. /\ reaper' \in [Conns -> [made : BOOLEAN, tries : Nat, timer : BOOLEAN]]
        /\ proc' \in [Conns -> {"none", "running", "exited"}]
        /\ reaper'[c].made \/ proc'[c] = "none"
        /\ \A d \in Conns \ {c} : reaper'[d] = reaper[d] /\ proc'[d] = proc[d]
        /\ proc'[c] = proc[c] \/ proc[c] = "running"
    BY <1>1, ReaperMade
  <1>7. ConnTypes'
    BY <1>1, <1>4, <1>5, <1>6 DEF ConnTypes
  <1>8. ASSUME NEW d \in Conns \ {c}
        PROVE  Stands(d)'
    <2>1. Stands(d) /\ ListedOnce(d, listeners)
      BY DEF ConnInv, Stands
    <2>2. /\ caller'[d] = caller[d] /\ conn'[d] = conn[d] /\ (proc'[d] = proc[d] \/ proc[d] = "running")
          /\ (reaper[d].made => reaper'[d].made)
          /\ (Listed(d, listeners') => Listed(d, listeners)) /\ ListedOnce(d, listeners')
          /\ connBroker' = connBroker
      BY <2>1, <1>1, <1>4, <1>5, <1>6
    <2> QED
      BY <2>1, <2>2, <1>1, Unchanged
  <1>9. Stands(c)'
    BY <1>1, <1>2, <1>4, <1>5, <1>6, ClosedIsClosed DEF Stands
  <1> QED
    BY <1>7, <1>8, <1>9 DEF ConnInv

LEMMA AsyncConnectKeeps ==
    ASSUME ConnInv, NEW c \in Conns, NEW child \in {"fails", "none", "open"}, AsyncConnect(c, child)
    PROVE  ConnInv'
  <1>1. ConnTypes /\ Stands(c) /\ conn[c] = Fresh /\ connBroker = "running" /\ caller[c] = "waiting"
        /\ UNCHANGED <<caller, reaper, firing, connBroker>>
    BY DEF ConnInv, AsyncConnect
  <1>2. conn[c].stdio = "none" /\ conn[c].stderr = "none" /\ conn[c].exception = "none" /\ ~conn[c].put
        /\ ~conn[c].timer /\ ~conn[c].registered /\ proc[c] = "none" /\ ~Listed(c, listeners)
    BY <1>1 DEF Fresh, Stands
  <1>3. CASE child = "fails"
    <2>1. conn' = [conn EXCEPT ![c].exception = "start", ![c].put = TRUE] /\ UNCHANGED <<proc, listeners>>
      BY <1>3 DEF AsyncConnect
    <2> DEFINE r == [conn[c] EXCEPT !.exception = "start", !.put = TRUE]
    <2>2. r \in Attributes /\ r.exception = "start" /\ r.put /\ r.stdio = "none" /\ r.stderr = "none"
          /\ ~r.timer /\ ~r.registered
      BY <1>1, <1>2 DEF ConnTypes, Attributes, Errors
    <2>3. conn' = [conn EXCEPT ![c] = r]
      BY <2>1, <1>1 DEF ConnTypes
    <2> HIDE DEF r
    <2>4. conn'[c] = r /\ conn' \in [Conns -> Attributes] /\ \A d \in Conns \ {c} : conn'[d] = conn[d]
      BY <1>1, <2>2, <2>3 DEF ConnTypes
    <2>5. ConnTypes'
      BY <1>1, <2>1, <2>4 DEF ConnTypes
    <2>6. Stands(c)'
      BY <1>1, <1>2, <2>1, <2>2, <2>4 DEF Stands
    <2>7. ASSUME NEW d \in Conns \ {c}
          PROVE  Stands(d)'
      <3>1. Stands(d) /\ ListedOnce(d, listeners)
        BY DEF ConnInv, Stands
      <3>2. /\ caller'[d] = caller[d] /\ conn'[d] = conn[d] /\ proc'[d] = proc[d]
            /\ (reaper[d].made => reaper'[d].made)
            /\ (Listed(d, listeners') => Listed(d, listeners)) /\ ListedOnce(d, listeners')
            /\ connBroker' = connBroker
        BY <3>1, <1>1, <2>1, <2>4
      <3> QED
        BY <3>1, <3>2, <1>1, Unchanged
    <2> QED
      BY <2>5, <2>6, <2>7 DEF ConnInv
  <1>4. CASE child # "fails"
    <2>1. /\ conn' = [conn EXCEPT ![c].stdio = "open", ![c].stderr = child, ![c].timer = TRUE]
          /\ proc' = [proc EXCEPT ![c] = "running"]
          /\ listeners' = Append(listeners, Own(c))
      BY <1>4 DEF AsyncConnect, Own
    <2> DEFINE r == [conn[c] EXCEPT !.stdio = "open", !.stderr = child, !.timer = TRUE]
    <2>2. r \in Attributes /\ r.exception = "none" /\ ~r.put /\ r.stdio = "open" /\ ~r.registered
      BY ZenonT(60), <1>1, <1>2, <1>4 DEF ConnTypes, Attributes, Sides
    <2>3. conn' = [conn EXCEPT ![c] = r]
      BY <2>1, <1>1 DEF ConnTypes
    <2> HIDE DEF r
    <2>4. conn'[c] = r /\ conn' \in [Conns -> Attributes] /\ \A d \in Conns \ {c} : conn'[d] = conn[d]
      BY <1>1, <2>2, <2>3 DEF ConnTypes
    <2>5. /\ proc' \in [Conns -> {"none", "running", "exited"}]
          /\ \A d \in Conns \ {c} : proc'[d] = proc[d]
      BY <1>1, <2>1 DEF ConnTypes
    <2>6. Own(c) \in Heard /\ \A d \in Conns \ {c} : Own(c) # Own(d)
      BY DEF Own, Listener, Heard
    <2>7. /\ listeners' \in Seq(Heard) /\ ListedOnce(c, listeners')
          /\ \A d \in Conns \ {c} :
             (Listed(d, listeners') <=> Listed(d, listeners)) /\ (ListedOnce(d, listeners') <=> ListedOnce(d, listeners))
      BY <1>1, <1>2, <2>1, <2>6, Listening DEF ConnTypes
    <2>8. ConnTypes'
      BY <1>1, <2>4, <2>5, <2>7 DEF ConnTypes
    <2>9. Stands(c)'
      BY <1>1, <1>2, <2>2, <2>4, <2>7 DEF Stands
    <2>10. ASSUME NEW d \in Conns \ {c}
           PROVE  Stands(d)'
      <3>1. Stands(d) /\ ListedOnce(d, listeners)
        BY DEF ConnInv, Stands
      <3>2. /\ caller'[d] = caller[d] /\ conn'[d] = conn[d] /\ proc'[d] = proc[d]
            /\ (reaper[d].made => reaper'[d].made)
            /\ (Listed(d, listeners') => Listed(d, listeners)) /\ ListedOnce(d, listeners')
            /\ connBroker' = connBroker
        BY <3>1, <1>1, <2>4, <2>5, <2>7
      <3> QED
        BY <3>1, <3>2, <1>1, Unchanged
    <2> QED
      BY <2>8, <2>9, <2>10 DEF ConnInv
  <1> QED
    BY <1>3, <1>4

LEMMA CompleteKeeps ==
    ASSUME ConnInv, NEW c \in Conns, Complete(c)
    PROVE  ConnInv'
  <1>1. /\ ConnTypes /\ Stands(c) /\ conn[c] \in Attributes
        /\ conn[c].stdio = "open" /\ ~conn[c].registered
        /\ conn' = [conn EXCEPT ![c].timer = FALSE, ![c].registered = TRUE, ![c].put = TRUE]
        /\ listeners' = Unlisten(listeners, Own(c))
        /\ UNCHANGED <<caller, proc, reaper, firing, connBroker>>
    BY DEF ConnInv, ConnTypes, Complete, Own
  <1>2. conn[c].exception = "none"
    BY <1>1 DEF Stands
  <1> DEFINE r == [conn[c] EXCEPT !.timer = FALSE, !.registered = TRUE, !.put = TRUE]
  <1>3. r \in Attributes /\ r.exception = "none" /\ ~r.timer /\ r.put /\ r.registered /\ r.stdio = "open"
    BY <1>1, <1>2 DEF Attributes
  <1>4. conn' = [conn EXCEPT ![c] = r]
    BY <1>1 DEF ConnTypes
  <1> HIDE DEF r
  <1>5. conn'[c] = r /\ conn' \in [Conns -> Attributes] /\ \A d \in Conns \ {c} : conn'[d] = conn[d]
    <2>1. conn \in [Conns -> Attributes]
      BY <1>1 DEF ConnTypes
    <2> QED
      BY <2>1, <1>3, <1>4
  <1>6. /\ listeners' \in Seq(Heard) /\ ~Listed(c, listeners')
        /\ \A d \in Conns :
             (Listed(d, listeners') => Listed(d, listeners)) /\ (ListedOnce(d, listeners) => ListedOnce(d, listeners'))
    BY <1>1, Unlistened DEF ConnTypes, Stands
  <1>7. ConnTypes'
    BY <1>1, <1>5, <1>6 DEF ConnTypes
  <1>8. Stands(c)'
    BY <1>1, <1>3, <1>5, <1>6 DEF Stands
  <1>9. ASSUME NEW d \in Conns \ {c}
        PROVE  Stands(d)'
    <2>1. Stands(d) /\ ListedOnce(d, listeners)
      BY DEF ConnInv, Stands
    <2>2. /\ caller'[d] = caller[d] /\ conn'[d] = conn[d] /\ (proc'[d] = proc[d] \/ proc[d] = "running")
          /\ (reaper[d].made => reaper'[d].made)
          /\ (Listed(d, listeners') => Listed(d, listeners)) /\ ListedOnce(d, listeners')
          /\ connBroker' = connBroker
      BY <2>1, <1>1, <1>5, <1>6
    <2> QED
      BY <2>1, <2>2, <1>1, Unchanged
  <1> QED
    BY <1>7, <1>8, <1>9 DEF ConnInv

LEMMA GoneKeeps ==
    ASSUME ConnInv, NEW c \in Conns, Gone(c), caller' = caller, connBroker' = connBroker, firing' = firing
    PROVE  ConnInv'
  <1>1. ConnTypes /\ Stands(c)
    BY DEF ConnInv
  <1>2. CASE conn[c].timer
    <2>1. ~conn[c].put /\ "eof" \in Errors \ {"none"} /\ firing' \in Nat /\ firing' >= firing
      BY <1>1, <1>2 DEF Stands, Errors, ConnTypes
    <2> QED
      BY <1>2, <2>1, FailKeeps DEF Gone
  <1>3. CASE ~conn[c].timer
    BY <1>3, ShutKeeps DEF Gone
  <1> QED
    BY <1>2, <1>3

LEMMA HangsUpKeeps ==
    ASSUME ConnInv, NEW c \in Conns, NEW side \in {"stdio", "stderr"}, ChildHangsUp(c, side)
    PROVE  ConnInv'
  <1>1. ConnTypes /\ Stands(c) /\ conn[c] \in Attributes /\ conn \in [Conns -> Attributes]
        /\ conn[c][side] = "open" /\ UNCHANGED <<caller, firing, connBroker>>
    BY DEF ConnInv, ConnTypes, ChildHangsUp
  <1> DEFINE other == IF side = "stdio" THEN "stderr" ELSE "stdio"
  <1>2. CASE conn[c][other] = "open"
    <2>1. conn' = [conn EXCEPT ![c][side] = "closed"] /\ UNCHANGED <<proc, reaper, listeners>>
      BY <1>2 DEF ChildHangsUp
    <2> DEFINE r == IF side = "stdio" THEN [conn[c] EXCEPT !.stdio = "closed"]
                    ELSE [conn[c] EXCEPT !.stderr = "closed"]
    <2>2. /\ r \in Attributes /\ r.timer = conn[c].timer /\ r.put = conn[c].put
          /\ r.registered = conn[c].registered /\ r.exception = conn[c].exception
          /\ r.stdio # "none"
      BY <1>1, <1>2 DEF Attributes, Sides
    <2>3. conn' = [conn EXCEPT ![c] = r]
      BY <1>1, <2>1
    <2> HIDE DEF r
    <2>4. conn'[c] = r /\ conn' \in [Conns -> Attributes] /\ \A d \in Conns \ {c} : conn'[d] = conn[d]
      BY <1>1, <2>2, <2>3
    <2>5. conn[c].exception = "none" /\ conn[c].stdio # "none"
      BY <1>1, <1>2 DEF Stands
    <2>6. ConnTypes'
      BY <1>1, <2>1, <2>4 DEF ConnTypes
    <2>7. Stands(c)'
      BY <1>1, <2>1, <2>2, <2>4, <2>5 DEF Stands
    <2>8. ASSUME NEW d \in Conns \ {c}
          PROVE  Stands(d)'
      <3>1. Stands(d) /\ ListedOnce(d, listeners)
        BY DEF ConnInv, Stands
      <3>2. /\ caller'[d] = caller[d] /\ conn'[d] = conn[d] /\ proc'[d] = proc[d]
            /\ (reaper[d].made => reaper'[d].made)
            /\ (Listed(d, listeners') => Listed(d, listeners)) /\ ListedOnce(d, listeners')
            /\ connBroker' = connBroker
        BY <3>1, <1>1, <2>1, <2>4
      <3> QED
        BY <3>1, <3>2, <1>1, Unchanged
    <2> QED
      BY <2>6, <2>7, <2>8 DEF ConnInv
  <1>3. CASE conn[c][other] # "open"
    BY <1>1, <1>3, GoneKeeps DEF ChildHangsUp
  <1> QED
    BY <1>2, <1>3

LEMMA TimeoutKeeps ==
    ASSUME ConnInv, NEW c \in Conns, ConnectTimeout(c)
    PROVE  ConnInv'
  <1>1. ConnTypes /\ Stands(c) /\ conn[c].timer /\ Fail(c, "timeout") /\ UNCHANGED <<caller, firing, connBroker>>
    BY DEF ConnInv, ConnectTimeout
  <1>2. ~conn[c].put /\ "timeout" \in Errors \ {"none"} /\ firing' \in Nat /\ firing' >= firing
    BY <1>1 DEF Stands, Errors, ConnTypes
  <1> QED
    BY <1>1, <1>2, FailKeeps

\* Steps of the caller, of a child or its reaper, and of a detached one.
LEMMA AsideKeeps ==
    ASSUME ConnInv, NEW c \in Conns,
           \/ Answer(c) \/ DetachChild(c) \/ Exits(c)
           \/ \E heeds \in BOOLEAN : ReapAgain(c, heeds)
    PROVE  ConnInv'
  <1>1. ConnTypes /\ Stands(c) /\ conn \in [Conns -> Attributes] /\ conn[c] \in Attributes
    BY DEF ConnInv, ConnTypes
  <1>2. CASE Answer(c)
    <2>1. /\ conn[c].put
          /\ caller' = [caller EXCEPT ![c] = IF conn[c].exception = "none" THEN "connected" ELSE "failed"]
          /\ UNCHANGED <<conn, proc, reaper, listeners, firing, connBroker>>
      BY <1>2 DEF Answer
    <2>2. ConnTypes'
      BY <1>1, <2>1 DEF ConnTypes
    <2>3. ASSUME NEW d \in Conns
          PROVE  Stands(d)'
      BY <1>1, <2>1 DEF ConnInv, Stands, ConnTypes
    <2> QED
      BY <2>2, <2>3 DEF ConnInv
  <1>3. CASE DetachChild(c)
    <2>1. /\ conn' = [conn EXCEPT ![c].detached = TRUE]
          /\ UNCHANGED <<caller, proc, reaper, listeners, firing, connBroker>>
      BY <1>3 DEF DetachChild
    <2>2. conn' \in [Conns -> Attributes]
      <3>1. [conn[c] EXCEPT !.detached = TRUE] \in Attributes
        BY <1>1 DEF Attributes
      <3>2. conn' = [conn EXCEPT ![c] = [conn[c] EXCEPT !.detached = TRUE]]
        BY <1>1, <2>1
      <3> QED
        BY <1>1, <3>1, <3>2
    <2>3. ASSUME NEW d \in Conns
          PROVE  /\ conn'[d].stdio = conn[d].stdio /\ conn'[d].stderr = conn[d].stderr
                 /\ conn'[d].timer = conn[d].timer /\ conn'[d].exception = conn[d].exception
                 /\ conn'[d].put = conn[d].put /\ conn'[d].registered = conn[d].registered
      BY <1>1, <2>1 DEF Attributes
    <2>4. ConnTypes'
      BY <1>1, <2>1, <2>2 DEF ConnTypes
    <2>5. ASSUME NEW d \in Conns
          PROVE  Stands(d)'
      BY <2>1, <2>3 DEF ConnInv, Stands
    <2> QED
      BY <2>4, <2>5 DEF ConnInv
  <1>4. CASE Exits(c)
    <2>1. /\ proc[c] = "running" /\ proc' = [proc EXCEPT ![c] = "exited"]
          /\ UNCHANGED <<caller, conn, reaper, listeners, firing, connBroker>>
      BY <1>4 DEF Exits
    <2>2. ConnTypes'
      BY <1>1, <2>1 DEF ConnTypes
    <2>3. ASSUME NEW d \in Conns
          PROVE  Stands(d)'
      BY <1>1, <2>1 DEF ConnInv, Stands, ConnTypes
    <2> QED
      BY <2>2, <2>3 DEF ConnInv
  <1>5. CASE \E heeds \in BOOLEAN : ReapAgain(c, heeds)
    <2>1. PICK heeds \in BOOLEAN : ReapAgain(c, heeds)
      BY <1>5
    <2>2. Reap(c, reaper[c].tries, heeds) /\ UNCHANGED <<caller, conn, listeners, firing, connBroker>>
      BY <2>1 DEF ReapAgain
    <2>3. reaper[c].tries \in Nat
      BY <1>1 DEF ConnTypes
    <2>4. /\ reaper' \in [Conns -> [made : BOOLEAN, tries : Nat, timer : BOOLEAN]]
          /\ proc' \in [Conns -> {"none", "running", "exited"}]
          /\ reaper'[c].made
          /\ \A d \in Conns \ {c} : reaper'[d] = reaper[d] /\ proc'[d] = proc[d]
          /\ proc'[c] = proc[c] \/ proc[c] = "running"
      BY <1>1, <2>2, <2>3, Reaping
    <2>5. ConnTypes'
      BY <1>1, <2>2, <2>4 DEF ConnTypes
    <2>6. ASSUME NEW d \in Conns
          PROVE  Stands(d)'
      BY <1>1, <2>2, <2>4 DEF ConnInv, Stands
    <2> QED
      BY <2>5, <2>6 DEF ConnInv
  <1> QED
    BY <1>2, <1>3, <1>4, <1>5

LEMMA FireKeeps ==
    ASSUME ConnInv, ConnShutdown \/ FireNext
    PROVE  ConnInv'
  <1>1. ConnTypes /\ \A d \in Conns : Stands(d)
    BY DEF ConnInv
  <1>2. CASE ConnShutdown
    <2>1. ConnTypes'
      BY <1>1, <1>2 DEF ConnShutdown, ConnTypes
    <2>2. ASSUME NEW d \in Conns
          PROVE  Stands(d)'
      BY <1>1, <1>2 DEF ConnShutdown, Stands
    <2> QED
      BY <2>1, <2>2 DEF ConnInv
  <1>3. CASE FireNext
    <2> DEFINE l == listeners[firing]
    <2>1. /\ connBroker = "firing" /\ firing =< Len(listeners) /\ firing' = firing + 1
          /\ UNCHANGED <<caller, connBroker>>
      BY <1>3 DEF FireNext
    <2>2. firing \in 1..Len(listeners) /\ l \in Heard /\ firing' \in Nat /\ firing' >= firing
      BY <1>1, <2>1 DEF ConnTypes
    <2>3. CASE l.what = "connection"
      <3> DEFINE c == l.conn
      <3>1. Fail(c, "cancelled") /\ c \in Conns /\ l = Own(c)
        BY <1>3, <2>2, <2>3 DEF FireNext, Heard, Own, Listener
      <3>2. Listed(c, listeners)
        BY <2>2, <3>1 DEF Listed
      <3> HIDE DEF l
      <3>3. ~conn[c].put /\ "cancelled" \in Errors \ {"none"}
        BY <1>1, <2>1, <3>1, <3>2 DEF Stands, Errors
      <3> QED
        BY <2>1, <2>2, <3>1, <3>2, <3>3, FailKeeps
    <2>4. CASE l.what # "connection"
      <3> DEFINE c == l.conn
      <3>1. /\ reaper' = [reaper EXCEPT ![c].timer = @ /\ ~conn[c].detached]
            /\ UNCHANGED <<conn, proc, listeners>> /\ c \in Conns
        BY <1>3, <2>2, <2>4 DEF FireNext, Heard
      <3> HIDE DEF c
      <3>2. reaper' \in [Conns -> [made : BOOLEAN, tries : Nat, timer : BOOLEAN]]
            /\ \A d \in Conns : reaper'[d].made = reaper[d].made
        BY <1>1, <3>1 DEF ConnTypes
      <3>3. ConnTypes'
        BY <1>1, <2>1, <2>2, <3>1, <3>2 DEF ConnTypes
      <3>4. ASSUME NEW d \in Conns
            PROVE  Stands(d)'
        BY <1>1, <2>1, <3>1, <3>2 DEF Stands
      <3> QED
        BY <3>3, <3>4 DEF ConnInv
    <2> QED
      BY <2>3, <2>4
  <1> QED
    BY <1>2, <1>3

Set(r, so, se, e, put, on) ==
    [r EXCEPT !.stdio = so, !.stderr = se, !.exception = e, !.put = put, !.timer = on]
LEMMA SetIsTyped ==
    ASSUME NEW r \in Attributes, NEW so \in Sides, NEW se \in Sides, NEW e \in Errors,
           NEW put \in BOOLEAN, NEW on \in BOOLEAN
    PROVE  Set(r, so, se, e, put, on) \in Attributes
  BY DEF Set, Attributes

\* The end: what was connecting fails, with a reaper.
LEMMA DisconnectsKeep ==
    ASSUME ConnInv, NEW out, NEW err, Disconnects(out, err),
           connBroker' \in {"grace", "ended"}, UNCHANGED <<caller, proc, listeners, firing>>
    PROVE  ConnInv'
  <1>1. ConnTypes /\ \A d \in Conns : Stands(d)
    BY DEF ConnInv
  <1> DEFINE Ends(c) == /\ conn[c].stdio = "open" \/ conn[c].stderr = "open"
                        /\ conn[c].stdio # "open" \/ c \in out
                        /\ conn[c].stderr # "open" \/ c \in err
             Side(open, s) == IF open THEN ClosedSide(s) ELSE s
             r(c) == [conn[c] EXCEPT !.stdio = IF c \in out THEN ClosedSide(@) ELSE @,
                         !.stderr = IF c \in err THEN ClosedSide(@) ELSE @,
                         !.exception = IF Ends(c) /\ conn[c].timer THEN "eof" ELSE @,
                         !.put = @ \/ (Ends(c) /\ conn[c].timer),
                         !.timer = @ /\ ~Ends(c)]
  <1>2. conn' = [c \in Conns |-> r(c)]
    BY ZenonT(60) DEF Disconnects
  <1>3. /\ reaper' \in [Conns -> [made : BOOLEAN, tries : Nat, timer : BOOLEAN]]
        /\ \A c \in Conns : (reaper[c].made \/ Ends(c)) => reaper'[c].made
    BY <1>1 DEF Disconnects, ConnTypes
  <1>4. ASSUME NEW c \in Conns
        PROVE  /\ r(c) \in Attributes
               /\ r(c).stdio = Side(c \in out, conn[c].stdio) /\ r(c).stderr = Side(c \in err, conn[c].stderr)
               /\ r(c).exception = IF Ends(c) /\ conn[c].timer THEN "eof" ELSE conn[c].exception
               /\ r(c).put = (conn[c].put \/ (Ends(c) /\ conn[c].timer))
               /\ r(c).timer = (conn[c].timer /\ ~Ends(c)) /\ r(c).registered = conn[c].registered
    <2>1. conn[c] \in Attributes
      BY <1>1 DEF ConnTypes
    <2>2. Ends(c) \in BOOLEAN
      OBVIOUS
    <2> HIDE DEF Ends
    <2>3. /\ r(c).stdio = Side(c \in out, conn[c].stdio) /\ r(c).stderr = Side(c \in err, conn[c].stderr)
          /\ r(c).exception = IF Ends(c) /\ conn[c].timer THEN "eof" ELSE conn[c].exception
      BY <2>1 DEF Attributes
    <2>4. /\ r(c).put = (conn[c].put \/ (Ends(c) /\ conn[c].timer))
          /\ r(c).timer = (conn[c].timer /\ ~Ends(c)) /\ r(c).registered = conn[c].registered
          /\ r(c).detached = conn[c].detached
      BY <2>1 DEF Attributes
    <2>6. /\ Side(c \in out, conn[c].stdio) \in Sides /\ Side(c \in err, conn[c].stderr) \in Sides
          /\ (IF Ends(c) /\ conn[c].timer THEN "eof" ELSE conn[c].exception) \in Errors
      BY <2>1 DEF Attributes, Sides, Errors, ClosedSide
    <2>7. /\ conn[c].put \in BOOLEAN /\ conn[c].timer \in BOOLEAN
          /\ conn[c].registered \in BOOLEAN /\ conn[c].detached \in BOOLEAN
      BY <2>1 DEF Attributes
    <2>8. r(c) \in Attributes
      <3> DEFINE so == Side(c \in out, conn[c].stdio)
                 se == Side(c \in err, conn[c].stderr)
                 e == IF Ends(c) /\ conn[c].timer THEN "eof" ELSE conn[c].exception
                 put == conn[c].put \/ (Ends(c) /\ conn[c].timer)
                 on == conn[c].timer /\ ~Ends(c)
      <3>1. r(c) = Set(conn[c], so, se, e, put, on)
        BY <2>1 DEF Attributes, Set
      <3>2. so \in Sides /\ se \in Sides /\ e \in Errors
        BY <2>6
      <3>3. put \in BOOLEAN /\ on \in BOOLEAN
        OBVIOUS
      <3> HIDE DEF r, so, se, e, put, on
      <3> QED
        BY <3>1, <3>2, <3>3, <2>1, SetIsTyped
    <2> QED
      BY <2>3, <2>4, <2>8
  <1> HIDE DEF r
  <1>5. ConnTypes'
    BY <1>1, <1>2, <1>3, <1>4 DEF ConnTypes
  <1>6. ASSUME NEW c \in Conns
        PROVE  Stands(c)'
    <2>1. Ends(c) => Side(c \in out, conn[c].stdio) # "open" /\ Side(c \in err, conn[c].stderr) # "open"
      BY ClosedIsClosed
    <2>2. Side(c \in out, conn[c].stdio) = "none" <=> conn[c].stdio = "none"
      BY ClosedIsClosed
    <2>3. Side(c \in err, conn[c].stderr) = "none" <=> conn[c].stderr = "none"
      BY ClosedIsClosed
    <2>4. conn[c].stdio # "open" => Side(c \in out, conn[c].stdio) # "open"
      BY ClosedIsClosed
    <2>5. conn[c].stderr # "open" => Side(c \in err, conn[c].stderr) # "open"
      BY ClosedIsClosed
    <2>6. conn'[c] = r(c) /\ Stands(c)
      BY <1>1, <1>2
    <2> HIDE DEF Ends, Side
    <2> QED
      BY ZenonT(60), <1>3, <1>4, <2>1, <2>2, <2>3, <2>4, <2>5, <2>6 DEF Stands
  <1> QED
    BY <1>5, <1>6 DEF ConnInv

LEMMA ConnStarts == ConnInit => ConnInv
  <1> SUFFICES ASSUME ConnInit PROVE ConnInv
    OBVIOUS
  <1>1. Fresh \in Attributes
    BY DEF Fresh, Attributes, Sides, Errors
  <1>2. ConnTypes
    BY <1>1 DEF ConnInit, ConnTypes
  <1>3. Len(listeners) = 0
    BY DEF ConnInit
  <1>4. ASSUME NEW c \in Conns
        PROVE  Stands(c)
    BY <1>3 DEF ConnInit, Stands, Fresh, Listed, ListedOnce
  <1> QED
    BY <1>2, <1>4 DEF ConnInv

LEMMA ConnKeeps ==
    ASSUME ConnInv, [ConnNext]_connVars
    PROVE  ConnInv'
  <1>1. CASE UNCHANGED connVars
    BY <1>1 DEF connVars, ConnInv, ConnTypes, Stands
  <1>2. CASE \E c \in Conns : Answer(c) \/ DetachChild(c) \/ Exits(c)
    BY <1>2, AsideKeeps
  <1>3. CASE \E c \in Conns : ConnSteps(c)
    <2> SUFFICES ASSUME NEW c \in Conns, ConnSteps(c) PROVE ConnInv'
      BY <1>3
    <2>1. CASE \E child \in {"fails", "none", "open"} : AsyncConnect(c, child)
      BY <2>1, AsyncConnectKeeps
    <2>2. CASE ConnectTimeout(c)
      BY <2>2, TimeoutKeeps
    <2>3. CASE \E heeds \in BOOLEAN : ReapAgain(c, heeds)
      BY <2>3, AsideKeeps
    <2> QED
      BY <2>1, <2>2, <2>3 DEF ConnSteps
  <1>4. CASE \E c \in Conns : Complete(c)
    BY <1>4, CompleteKeeps
  <1>5. CASE \E c \in Conns : \E side \in {"stdio", "stderr"} : ChildHangsUp(c, side)
    BY <1>5, HangsUpKeeps
  <1>6. CASE ConnShutdown \/ FireNext
    BY <1>6, FireKeeps
  <1>7. CASE BeginGrace
    BY <1>7, DisconnectsKeep DEF BeginGrace
  <1>8. CASE \E late \in BOOLEAN : End(late)
    BY <1>8, DisconnectsKeep DEF End
  <1> QED
    BY <1>1, <1>2, <1>3, <1>4, <1>5, <1>6, <1>7, <1>8 DEF ConnNext

\* Whatever the children do and however the timers, the hang-ups and the shutdown meet,
\* connect() told its caller how the connection ended, once and for all.
THEOREM OutcomeStands == ConnSpec => []OutcomeIsFinal
  <1>1. ConnInit => ConnInv
    BY ConnStarts
  <1>2. ConnInv /\ [ConnNext]_connVars => ConnInv'
    BY ConnKeeps
  <1>3. ConnInv => OutcomeIsFinal
    <2> SUFFICES ASSUME ConnInv, NEW c \in Conns
                 PROVE  /\ caller[c] = "connected" => conn[c].exception = "none"
                        /\ conn[c].exception # "none" =>
                             /\ "open" \notin {conn[c].stdio, conn[c].stderr}
                             /\ ~conn[c].timer /\ ~conn[c].registered /\ conn[c].put
                             /\ reaper[c].made \/ proc[c] = "none"
                             /\ Listener(c, "connection") \in ToSet(listeners) =>
                                  connBroker \in {"grace", "ended"}
      BY DEF OutcomeIsFinal
    <2>1. Listener(c, "connection") \in ToSet(listeners) => Listed(c, listeners)
      BY DEF ToSet, Listed, Own, ConnInv, ConnTypes
    <2> QED
      BY <2>1 DEF ConnInv, ConnTypes, Stands
  <1> QED
    BY <1>1, <1>2, <1>3, PTL DEF ConnSpec

----------------------------------------------------------------------------
(* The tree.                                                               *)

Others == Contexts \ {Root}

LEMMA ParentIs ==
    /\ Root \in Contexts
    /\ \A x \in Others : Parent[x] \in Contexts /\ Parent[x] \in Upgraded /\ x \in Children(Parent[x])
    /\ \A n : \A m \in Children(n) : m \in Others /\ Parent[m] = n /\ n \in Contexts
BY RoutingAssumption DEF Children, Others

LEMMA UnderRoot == \A d \in Contexts : Under(Root, d)
BY RoutingAssumption

LEMMA UnderSelf == \A m : Under(m, m)
BY DEF Under

LEMMA UnderChild == \A x \in Others : Under(Parent[x], x)
BY ParentIs DEF Under

LEMMA UnderTrans == \A x, y, z : Under(x, y) /\ Under(y, z) => Under(x, z)
BY DEF Under

\* What holds of m, and of each child of whom it holds of, holds of all that is below m.
LEMMA UnderInduction ==
    ASSUME NEW m, NEW d, Under(m, d), NEW S \in SUBSET Contexts, m \in S,
           \A x \in S : \A y \in Others : Parent[y] = x => y \in S
    PROVE  d \in S
<1>1. \A x \in S : Children(x) \subseteq S
  BY ParentIs
<1> QED  BY <1>1 DEF Under

LEMMA UnderMember == \A m \in Contexts : \A d : Under(m, d) => d \in Contexts
<1> SUFFICES ASSUME NEW m \in Contexts, NEW d, Under(m, d)  PROVE d \in Contexts
  OBVIOUS
<1> QED  BY UnderInduction DEF Others

LEMMA UnderParent ==
    ASSUME NEW m \in Contexts, NEW d \in Contexts, Under(m, d), d # m
    PROVE  d \in Others /\ Under(m, Parent[d])
<1> DEFINE S == {x \in Contexts : x = m \/ (x \in Others /\ Under(m, Parent[x]))}
<1>1. ASSUME NEW x \in S, NEW y \in Others, Parent[y] = x  PROVE y \in S
  <2>1. Under(m, x)
    BY UnderSelf, UnderChild, UnderTrans
  <2> QED  BY <1>1, <2>1 DEF Others
<1>2. m \in S /\ S \in SUBSET Contexts
  OBVIOUS
<1> HIDE DEF S
<1>3. d \in S
  BY <1>1, <1>2, UnderInduction
<1> QED  BY <1>3 DEF S

LEMMA UnderStep ==
    ASSUME NEW n \in Contexts, NEW d \in Contexts, Under(n, d), d # n
    PROVE  \E m \in Children(n) : Under(m, d)
<1> DEFINE S == {x \in Contexts : x = n \/ \E m \in Children(n) : Under(m, x)}
<1>1. ASSUME NEW x \in S, NEW y \in Others, Parent[y] = x  PROVE y \in S
  <2>1. CASE x = n
    BY <1>1, <2>1, UnderSelf, ParentIs DEF Others
  <2>2. CASE x # n
    <3>1. PICK m \in Children(n) : Under(m, x)
      BY <2>2
    <3>2. Under(m, y)
      BY <1>1, <3>1, UnderChild, UnderTrans
    <3> QED  BY <3>2 DEF Others
  <2> QED  BY <2>1, <2>2
<1>2. n \in S /\ S \in SUBSET Contexts
  OBVIOUS
<1> HIDE DEF S
<1>3. d \in S
  BY <1>1, <1>2, UnderInduction
<1> QED  BY <1>3 DEF S

\* The root is below no other, and no context is below its child.
LEMMA RootIsTop == ASSUME NEW m \in Contexts, Under(m, Root)  PROVE m = Root
BY UnderParent, ParentIs DEF Others

LEMMA NotUnderChild == ASSUME NEW m \in Others  PROVE ~Under(m, Parent[m])
<1> SUFFICES ASSUME Under(m, Parent[m])  PROVE FALSE
  OBVIOUS
<1> DEFINE S == {x \in Contexts : ~Under(m, x)}
<1>1. Root \in S
  BY RootIsTop, ParentIs DEF Others
<1>2. ASSUME NEW x \in S, NEW y \in Others, Parent[y] = x  PROVE y \in S
  <2>1. y # m
    BY <1>2
  <2>2. ~Under(m, y)
    BY <1>2, <2>1, UnderParent DEF Others
  <2> QED  BY <2>2 DEF Others
<1>3. S \in SUBSET Contexts
  OBVIOUS
<1>5. m \in Contexts
  BY DEF Others
<1>6. Under(Root, m)
  BY <1>5, UnderRoot
<1> HIDE DEF S
<1>4. m \in S
  BY <1>1, <1>2, <1>3, <1>6, UnderInduction
<1> QED  BY <1>4, UnderSelf DEF S

LEMMA UnderBoth ==
    ASSUME NEW x \in Contexts, NEW y \in Contexts, Under(x, y), Under(y, x)  PROVE x = y
<1> SUFFICES ASSUME x # y  PROVE FALSE
  OBVIOUS
<1>1. x \in Others /\ Under(y, Parent[x])
  BY UnderParent
<1>2. Under(x, Parent[x])
  BY <1>1, UnderTrans
<1> QED  BY <1>1, <1>2, NotUnderChild

\* Of two contexts above a third, one is above the other.
LEMMA AboveIsLine ==
    ASSUME NEW d \in Contexts, NEW x \in Contexts, NEW y \in Contexts, Under(x, d), Under(y, d)
    PROVE  Under(x, y) \/ Under(y, x)
<1> DEFINE S == {e \in Contexts : \A u, v \in Contexts : Under(u, e) /\ Under(v, e) => Under(u, v) \/ Under(v, u)}
<1>1. Root \in S
  BY RootIsTop, UnderSelf, ParentIs
<1>2. ASSUME NEW p \in S, NEW e \in Others, Parent[e] = p  PROVE e \in S
  <2>0. e \in Contexts
    BY DEF Others
  <2>1. SUFFICES ASSUME NEW u \in Contexts, NEW v \in Contexts, Under(u, e), Under(v, e)
                 PROVE  Under(u, v) \/ Under(v, u)
    BY <2>0
  <2>2. CASE u = e \/ v = e
    BY <2>1, <2>2
  <2>3. CASE u # e /\ v # e
    <3>1. Under(u, p) /\ Under(v, p)
      BY <1>2, <2>0, <2>1, <2>3, UnderParent
    <3> QED  BY <3>1, <2>1, <1>2
  <2> QED  BY <2>2, <2>3
<1>3. S \in SUBSET Contexts
  OBVIOUS
<1>4. Under(Root, d)
  BY UnderRoot
<1> HIDE DEF S
<1>5. d \in S
  BY <1>1, <1>2, <1>3, <1>4, UnderInduction
<1> QED  BY <1>5 DEF S

LEMMA OneChildAbove ==
    ASSUME NEW n, NEW m \in Children(n), NEW c \in Children(n), NEW d \in Contexts,
           Under(m, d), Under(c, d)
    PROVE  m = c
<1>1. /\ m \in Others /\ c \in Others /\ Parent[m] = n /\ Parent[c] = n
      /\ m \in Contexts /\ c \in Contexts
  BY ParentIs DEF Others
<1>2. ASSUME NEW x \in Others, NEW y \in Others, Parent[x] = n, Parent[y] = n, Under(x, y)  PROVE x = y
  <2>1. x \in Contexts /\ y \in Contexts
    BY DEF Others
  <2>2. ~Under(x, Parent[y])
    BY <1>2, NotUnderChild
  <2> QED  BY <1>2, <2>1, <2>2, UnderParent
<1>3. Under(m, c) \/ Under(c, m)
  BY <1>1, AboveIsLine
<1> QED  BY <1>1, <1>2, <1>3

\* What holds of a, and of the parent of each above a whom it holds of, holds of all above a.
LEMMA UpInduction ==
    ASSUME NEW a \in Contexts, NEW P, a \in P,
           \A x \in Others : Under(x, a) /\ x \in P => Parent[x] \in P,
           NEW m \in Contexts, Under(m, a)
    PROVE  m \in P
<1> SUFFICES ASSUME m \notin P  PROVE FALSE
  OBVIOUS
<1> DEFINE S == {e \in Contexts : ~(e \in P /\ Under(e, a))}
<1>1. ASSUME NEW x \in S, NEW y \in Others, Parent[y] = x  PROVE y \in S
  <2>1. y \in Contexts
    BY DEF Others
  <2>2. SUFFICES ASSUME y \in P, Under(y, a)  PROVE FALSE
    BY <2>1
  <2>3. x \in P
    BY <1>1, <2>2
  <2>4. Under(x, a)
    BY <1>1, <2>2, UnderChild, UnderTrans
  <2> QED  BY <2>3, <2>4, <1>1
<1>2. m \in S /\ S \in SUBSET Contexts
  OBVIOUS
<1> HIDE DEF S
<1>3. a \in S
  BY <1>1, <1>2, UnderInduction
<1> QED  BY <1>3, UnderSelf DEF S

----------------------------------------------------------------------------
(* What the parent of m will believe of d when it has read i messages.     *)

CutBelow(m, d) == \E x \in Others : x # m /\ Under(m, x) /\ Under(x, d) /\ <<x, Parent[x]>> \in cut
Doomed(a) == CutBelow(Root, a)

IsAdd(msg, d) == msg.kind = "add" /\ msg.about = d
IsDel(msg, d) == msg.kind = "del" /\ msg.about = d
NoDel(q, d, j, i) == \A h \in j+1..i : ~IsDel(q[h], d)
Believes(B, q, d, i) ==
    \/ d \in B /\ NoDel(q, d, 0, i)
    \/ \E j \in 1..i : IsAdd(q[j], d) /\ NoDel(q, d, j, i)

\* What is written later does not change it.
LEMMA BelievesEarlier ==
    ASSUME NEW B, NEW q \in Seq(Messages), NEW s \in Seq(Messages), NEW d, NEW i \in 0..Len(q)
    PROVE  Believes(B, q \o s, d, i) <=> Believes(B, q, d, i)
<1>1. \A h \in 1..i : (q \o s)[h] = q[h]
  OBVIOUS
<1>2. \A j \in 0..i : NoDel(q \o s, d, j, i) <=> NoDel(q, d, j, i)
  BY <1>1 DEF NoDel
<1> HIDE DEF NoDel, IsAdd
<1>3. (\E j \in 1..i : IsAdd((q \o s)[j], d) /\ NoDel(q \o s, d, j, i))
      <=> (\E j \in 1..i : IsAdd(q[j], d) /\ NoDel(q, d, j, i))
  BY <1>1, <1>2
<1> QED  BY <1>2, <1>3 DEF Believes

LEMMA LenOfJoined ==
    ASSUME NEW q \in Seq(Messages), NEW s \in Seq(Messages)
    PROVE  /\ q \o s \in Seq(Messages) /\ Len(q \o s) = Len(q) + Len(s)
           /\ Len(q) \in Nat /\ Len(s) \in Nat
           /\ \A i \in 1..Len(q) : (q \o s)[i] = q[i]
           /\ \A i \in 1..Len(s) : (q \o s)[Len(q) + i] = s[i]
           /\ \A i \in 1..Len(q \o s) : i \in 1..Len(q) \/ (i - Len(q) \in 1..Len(s) /\ (q \o s)[i] = s[i - Len(q)])
OBVIOUS

\* A list that does not mention d changes nothing; otherwise the last word counts.
LEMMA BelievesOther ==
    ASSUME NEW B, NEW q \in Seq(Messages), NEW s \in Seq(Messages), NEW d,
           \A i \in 1..Len(s) : ~IsAdd(s[i], d) /\ ~IsDel(s[i], d)
    PROVE  Believes(B, q \o s, d, Len(q \o s)) <=> Believes(B, q, d, Len(q))
<1> DEFINE z == q \o s
<1>1. /\ Len(z) = Len(q) + Len(s) /\ Len(q) \in Nat /\ Len(s) \in Nat
      /\ \A i \in 1..Len(q) : z[i] = q[i]
      /\ \A i \in Len(q)+1..Len(z) : ~IsAdd(z[i], d) /\ ~IsDel(z[i], d)
  BY LenOfJoined
<1> HIDE DEF z, IsAdd, IsDel
<1>2. ASSUME NEW j \in 0..Len(q)  PROVE NoDel(z, d, j, Len(z)) <=> NoDel(q, d, j, Len(q))
  BY <1>1, <1>2 DEF NoDel
<1>3. (\E j \in 1..Len(z) : IsAdd(z[j], d) /\ NoDel(z, d, j, Len(z)))
      <=> (\E j \in 1..Len(q) : IsAdd(q[j], d) /\ NoDel(q, d, j, Len(q)))
  <2>1. ASSUME NEW j \in 1..Len(z), IsAdd(z[j], d)  PROVE j \in 1..Len(q) /\ IsAdd(q[j], d)
    BY <1>1, <2>1
  <2>2. \A j \in 1..Len(q) : j \in 1..Len(z) /\ z[j] = q[j] /\ j \in 0..Len(q)
    BY <1>1
  <2> QED  BY <2>1, <2>2, <1>2
<1>4. 0 \in 0..Len(q)
  BY <1>1
<1>5. Believes(B, z, d, Len(z)) <=> Believes(B, q, d, Len(q))
  BY <1>2, <1>3, <1>4 DEF Believes
<1> QED  BY <1>5 DEF z

LEMMA BelievesAdded ==
    ASSUME NEW B, NEW q \in Seq(Messages), NEW s \in Seq(Messages), NEW d,
           \A i \in 1..Len(s) : ~IsDel(s[i], d), NEW k \in 1..Len(s), IsAdd(s[k], d)
    PROVE  Believes(B, q \o s, d, Len(q \o s))
<1> DEFINE z == q \o s
<1>1. /\ Len(z) = Len(q) + Len(s) /\ Len(q) \in Nat /\ Len(s) \in Nat
      /\ \A i \in Len(q)+1..Len(z) : ~IsDel(z[i], d)
      /\ z[Len(q) + k] = s[k]
  BY LenOfJoined
<1> HIDE DEF z, IsAdd, IsDel
<1>2. Len(q) + k \in 1..Len(z) /\ NoDel(z, d, Len(q) + k, Len(z))
  BY <1>1 DEF NoDel
<1>3. Believes(B, z, d, Len(z))
  BY <1>1, <1>2 DEF Believes
<1> QED  BY <1>3 DEF z

LEMMA BelievesDeleted ==
    ASSUME NEW B, NEW q \in Seq(Messages), NEW s \in Seq(Messages), NEW d,
           \A i \in 1..Len(s) : ~IsAdd(s[i], d), NEW k \in 1..Len(s), IsDel(s[k], d)
    PROVE  ~Believes(B, q \o s, d, Len(q \o s))
<1> DEFINE z == q \o s
<1>1. /\ Len(z) = Len(q) + Len(s) /\ Len(q) \in Nat /\ Len(s) \in Nat
      /\ \A i \in Len(q)+1..Len(z) : ~IsAdd(z[i], d)
      /\ z[Len(q) + k] = s[k]
  BY LenOfJoined
<1> HIDE DEF z, IsAdd, IsDel
<1>2. Len(q) + k \in 1..Len(z) /\ IsDel(z[Len(q) + k], d)
  BY <1>1
<1>3. ASSUME NEW j \in 0..Len(q)  PROVE ~NoDel(z, d, j, Len(z))
  BY <1>1, <1>2 DEF NoDel
<1>4. ~Believes(B, z, d, Len(z))
  BY <1>1, <1>3 DEF Believes
<1> QED  BY <1>4 DEF z

\* The parent reads the first message.
After(B, msg) ==
    IF msg.kind = "add" THEN B \cup {msg.about}
    ELSE IF msg.kind = "del" THEN B \ {msg.about} ELSE B

LEMMA BelievesRead ==
    ASSUME NEW B, NEW q \in Seq(Messages), q # <<>>, NEW d, NEW i \in 1..Len(q)
    PROVE  Believes(After(B, Head(q)), Tail(q), d, i - 1) <=> Believes(B, q, d, i)
<1> DEFINE z == Tail(q)
<1>1. Len(q) \in Nat /\ Len(z) = Len(q) - 1 /\ (\A h \in 1..i-1 : z[h] = q[h + 1]) /\ i - 1 \in Nat
  OBVIOUS
<1>2. Head(q) = q[1]
  OBVIOUS
<1> HIDE DEF z
<1>3. ASSUME NEW j \in 0..i-1  PROVE NoDel(z, d, j, i - 1) <=> NoDel(q, d, j + 1, i)
  <2>1. ASSUME NEW h \in j+1..i-1  PROVE h + 1 \in j+1+1..i /\ z[h] = q[h + 1]
    BY <1>1
  <2>2. ASSUME NEW h \in j+1+1..i  PROVE h - 1 \in j+1..i-1 /\ z[h - 1] = q[h]
    BY <1>1
  <2> QED  BY <2>1, <2>2 DEF NoDel
<1>4. NoDel(q, d, 0, i) <=> ~IsDel(q[1], d) /\ NoDel(q, d, 1, i)
  BY DEF NoDel
<1> HIDE DEF NoDel, IsAdd, IsDel
<1>5. d \in After(B, q[1]) <=> IsAdd(q[1], d) \/ (d \in B /\ ~IsDel(q[1], d))
  BY DEF After, IsAdd, IsDel
<1>6. (\E j \in 1..i : IsAdd(q[j], d) /\ NoDel(q, d, j, i))
      <=> (IsAdd(q[1], d) /\ NoDel(q, d, 1, i)) \/ (\E j \in 1..i-1 : IsAdd(z[j], d) /\ NoDel(z, d, j, i - 1))
  <2>1. ASSUME NEW j \in 2..i  PROVE j - 1 \in 1..i-1 /\ z[j - 1] = q[j] /\ (NoDel(z, d, j - 1, i - 1) <=> NoDel(q, d, j, i))
    <3>1. j - 1 \in 0..i-1 /\ j - 1 \in 1..i-1 /\ (j - 1) + 1 = j
      BY <1>1
    <3> QED  BY <3>1, <1>1, <1>3
  <2>2. ASSUME NEW j \in 1..i-1  PROVE j + 1 \in 1..i /\ z[j] = q[j + 1] /\ (NoDel(z, d, j, i - 1) <=> NoDel(q, d, j + 1, i))
    BY <1>1, <1>3
  <2>3. 1 \in 1..i /\ \A j \in 1..i : j = 1 \/ j \in 2..i
    OBVIOUS
  <2> QED  BY <2>1, <2>2, <2>3
<1>7. 0 \in 0..i-1
  BY <1>1
<1>8. NoDel(z, d, 0, i - 1) <=> NoDel(q, d, 1, i)
  <2>1. NoDel(z, d, 0, i - 1) <=> NoDel(q, d, 0 + 1, i)
    BY <1>3, <1>7
  <2> QED  BY <2>1
<1>9. Believes(After(B, q[1]), z, d, i - 1) <=> Believes(B, q, d, i)
  BY <1>4, <1>5, <1>6, <1>8 DEF Believes
<1> QED  BY <1>2, <1>9 DEF z

----------------------------------------------------------------------------
(* What is written.                                                        *)

\* The members of a finite set, in some order.
LEMMA SetInOrder ==
    ASSUME NEW S, IsFiniteSet(S)
    PROVE  SetToSeq(S) \in Seq(S) /\ Range(SetToSeq(S)) = S
<1>1. Cardinality(S) \in Nat /\ ExistsBijection(1..Cardinality(S), S)
  BY FS_CardinalityType
<1>2. PICK g \in Bijection(1..Cardinality(S), S) : TRUE
  BY <1>1 DEF ExistsBijection
<1>3. g \in [1..Cardinality(S) -> S] /\ IsInjective(g)
  BY <1>2 DEF Bijection, Injection
<1> DEFINE f == SetToSeq(S)
<1>4. f \in [1..Cardinality(S) -> S] /\ IsInjective(f)
  BY <1>3 DEF SetToSeq
<1> HIDE DEF f
<1>5. f \in Injection(1..Cardinality(S), S)
  BY <1>4 DEF Injection
<1>6. IsFiniteSet(1..Cardinality(S)) /\ Cardinality(1..Cardinality(S)) = Cardinality(S)
  BY <1>1, FS_Interval
<1>7. f \in Surjection(1..Cardinality(S), S)
  BY <1>5, <1>6, FS_Injection
<1>8. Range(f) = S
  BY <1>4, <1>7 DEF Surjection, Range
<1>9. f \in Seq(S)
  BY <1>1, <1>4
<1> QED  BY <1>8, <1>9 DEF f

LEMMA MessagesAbout ==
    ASSUME NEW kind \in {"add", "del"}, NEW x \in Contexts, NEW n \in Contexts, NEW ids \in SUBSET Contexts
    PROVE  LET s == SetToSeq({Message(kind, x, n, d) : d \in ids}) IN
           s \in Seq(Messages) /\ Range(s) = {Message(kind, x, n, d) : d \in ids}
<1> DEFINE T == {Message(kind, x, n, d) : d \in ids}
           f == [d \in ids |-> Message(kind, x, n, d)]
<1>1. IsFiniteSet(ids)
  BY RoutingAssumption, FS_Subset
<1>2. f \in Surjection(ids, T)
  BY DEF Surjection
<1>3. IsFiniteSet(T)
  BY <1>1, <1>2, FS_Surjection
<1>4. T \subseteq Messages
  BY DEF Message, Messages
<1> HIDE DEF T, f
<1>5. SetToSeq(T) \in Seq(T) /\ Range(SetToSeq(T)) = T
  BY <1>3, SetInOrder
<1>6. SetToSeq(T) \in Seq(Messages)
  BY <1>4, <1>5
<1> QED  BY <1>5, <1>6 DEF T

Writing == [Contexts -> Seq(Messages)]
Flights == [Links -> Seq(Messages)]

LEMMA OnlyIs ==
    ASSUME NEW x, NEW msg \in Messages
    PROVE  /\ Only(x, msg) \in Writing
           /\ \A y \in Contexts : Only(x, msg)[y] = IF y = x THEN <<msg>> ELSE <<>>
           /\ \A y \in Contexts : Range(Only(x, msg)[y]) = IF y = x THEN {msg} ELSE {}
<1>1. Only(x, msg) \in Writing
  BY DEF Only, Writing
<1>2. \A y \in Contexts : Only(x, msg)[y] = IF y = x THEN <<msg>> ELSE <<>>
  BY DEF Only
<1>3. Range(<<msg>>) = {msg} /\ Range(<<>>) = {}
  BY DEF Range
<1> QED  BY <1>1, <1>2, <1>3

LEMMA EmptyIs == <<>> \in Seq(Messages) /\ Range(<<>>) = {}
BY DEF Range

LEMMA UpIs ==
    ASSUME NEW n \in Contexts, NEW kind \in {"add", "del"}, NEW ids \in SUBSET Contexts
    PROVE  /\ Up(n, kind, ids) \in Writing
           /\ \A x \in Contexts : Range(Up(n, kind, ids)[x]) =
                IF HasParent(n) /\ x = Parent[n] THEN {Message(kind, x, n, d) : d \in ids} ELSE {}
<1>1. ASSUME NEW x \in Contexts
      PROVE  /\ Up(n, kind, ids)[x] \in Seq(Messages)
             /\ Range(Up(n, kind, ids)[x]) =
                IF HasParent(n) /\ x = Parent[n] THEN {Message(kind, x, n, d) : d \in ids} ELSE {}
  <2>1. CASE HasParent(n) /\ x = Parent[n]
    <3>1. Up(n, kind, ids)[x] = SetToSeq({Message(kind, x, n, d) : d \in ids})
      BY <2>1 DEF Up
    <3> DEFINE T == {Message(kind, x, n, d) : d \in ids}
    <3>2. SetToSeq(T) \in Seq(Messages) /\ Range(SetToSeq(T)) = T
      BY MessagesAbout
    <3>3. Up(n, kind, ids)[x] = SetToSeq(T)
      BY <3>1
    <3> HIDE DEF T
    <3>4. Range(Up(n, kind, ids)[x]) = T
      BY <3>2, <3>3
    <3> QED  BY <2>1, <3>2, <3>3, <3>4 DEF T
  <2>2. CASE ~(HasParent(n) /\ x = Parent[n])
    <3>1. Up(n, kind, ids)[x] = <<>>
      BY <2>2 DEF Up
    <3> QED  BY <2>2, <3>1, EmptyIs
  <2> QED  BY <2>1, <2>2
<1>2. Up(n, kind, ids) = [x \in Contexts |-> Up(n, kind, ids)[x]]
  BY DEF Up
<1>3. Up(n, kind, ids) \in Writing
  BY <1>1, <1>2 DEF Writing
<1> QED  BY <1>1, <1>3

LEMMA DownIs ==
    ASSUME NEW n \in Contexts, NEW ids \in SUBSET Contexts
    PROVE  /\ Down(n, ids) \in Writing
           /\ \A x \in Contexts : Range(Down(n, ids)[x]) =
                IF x \in Children(n) /\ <<n, x>> \in joined
                THEN {Message("del", x, n, d) : d \in ids \cap egress[<<n, x>>]} ELSE {}
<1>1. ASSUME NEW x \in Contexts
      PROVE  /\ Down(n, ids)[x] \in Seq(Messages)
             /\ Range(Down(n, ids)[x]) =
                IF x \in Children(n) /\ <<n, x>> \in joined
                THEN {Message("del", x, n, d) : d \in ids \cap egress[<<n, x>>]} ELSE {}
  <2>1. CASE x \in Children(n) /\ <<n, x>> \in joined
    <3>1. Down(n, ids)[x] = SetToSeq({Message("del", x, n, d) : d \in ids \cap egress[<<n, x>>]})
      BY <2>1 DEF Down
    <3>2. ids \cap egress[<<n, x>>] \in SUBSET Contexts
      OBVIOUS
    <3> DEFINE T == {Message("del", x, n, d) : d \in ids \cap egress[<<n, x>>]}
    <3>3. SetToSeq(T) \in Seq(Messages) /\ Range(SetToSeq(T)) = T
      BY <3>2, MessagesAbout
    <3>4. Down(n, ids)[x] = SetToSeq(T)
      BY <3>1
    <3> HIDE DEF T
    <3>5. Range(Down(n, ids)[x]) = T
      BY <3>3, <3>4
    <3> QED  BY <2>1, <3>3, <3>4, <3>5 DEF T
  <2>2. CASE ~(x \in Children(n) /\ <<n, x>> \in joined)
    <3>1. Down(n, ids)[x] = <<>>
      BY <2>2 DEF Down
    <3> QED  BY <2>2, <3>1, EmptyIs
  <2> QED  BY <2>1, <2>2
<1>2. Down(n, ids) = [x \in Contexts |-> Down(n, ids)[x]]
  BY DEF Down
<1>3. Down(n, ids) \in Writing
  BY <1>1, <1>2 DEF Writing
<1> QED  BY <1>1, <1>3

LEMMA JoinedIs ==
    ASSUME NEW q \in Seq(Messages), NEW s \in Seq(Messages)
    PROVE  q \o s \in Seq(Messages) /\ Range(q \o s) = Range(q) \cup Range(s)
<1>1. q \o s \in Seq(Messages)
  BY LenOfJoined
<1>2. DOMAIN q = 1..Len(q) /\ DOMAIN s = 1..Len(s) /\ DOMAIN (q \o s) = 1..Len(q \o s)
  BY <1>1
<1> DEFINE z == q \o s
<1>3. /\ Len(z) = Len(q) + Len(s) /\ Len(q) \in Nat /\ Len(s) \in Nat
      /\ \A i \in 1..Len(q) : z[i] = q[i]
      /\ \A i \in 1..Len(s) : z[Len(q) + i] = s[i]
      /\ \A i \in 1..Len(z) : i \in 1..Len(q) \/ (i - Len(q) \in 1..Len(s) /\ z[i] = s[i - Len(q)])
  BY LenOfJoined
<1>5. DOMAIN z = 1..Len(z)
  BY <1>2
<1> HIDE DEF z
<1>6. \A i \in 1..Len(q) : i \in 1..Len(z)
  BY <1>3
<1>7. \A i \in 1..Len(s) : Len(q) + i \in 1..Len(z)
  BY <1>3
<1>4. Range(z) = Range(q) \cup Range(s)
  <2>1. \A v \in Range(z) : v \in Range(q) \cup Range(s)
    BY <1>2, <1>3, <1>5 DEF Range
  <2>2. \A v \in Range(q) : v \in Range(z)
    BY <1>2, <1>3, <1>5, <1>6 DEF Range
  <2>3. ASSUME NEW i \in 1..Len(s)  PROVE s[i] \in Range(z)
    <3>1. Len(q) + i \in DOMAIN z /\ z[Len(q) + i] = s[i]
      BY <1>3, <1>5, <1>7
    <3> QED  BY <3>1 DEF Range
  <2>4. \A v \in Range(s) : v \in Range(z)
    BY <1>2, <2>3 DEF Range
  <2> QED  BY <2>1, <2>2, <2>4
<1> QED  BY <1>1, <1>4 DEF z

LEMMA SentIs ==
    ASSUME NEW n, NEW Q \in Flights, NEW O \in Writing
    PROVE  /\ Sent(n, Q, O) \in Flights
           /\ \A l \in Links : IF l[1] = n /\ Reaches(l)
                               THEN Range(Sent(n, Q, O)[l]) = Range(Q[l]) \cup Range(O[l[2]])
                               ELSE Sent(n, Q, O)[l] = Q[l]
<1>1. ASSUME NEW l \in Links
      PROVE  /\ Sent(n, Q, O)[l] \in Seq(Messages)
             /\ IF l[1] = n /\ Reaches(l)
                THEN Range(Sent(n, Q, O)[l]) = Range(Q[l]) \cup Range(O[l[2]])
                ELSE Sent(n, Q, O)[l] = Q[l]
  <2>1. Q[l] \in Seq(Messages)
    BY DEF Flights
  <2>2. CASE l[1] = n /\ Reaches(l)
    <3>1. Sent(n, Q, O)[l] = Q[l] \o O[l[2]]
      BY <2>2 DEF Sent
    <3>2. O[l[2]] \in Seq(Messages)
      BY DEF Writing, Links
    <3> QED  BY <2>1, <2>2, <3>1, <3>2, JoinedIs
  <2>3. CASE ~(l[1] = n /\ Reaches(l))
    BY <2>1, <2>3 DEF Sent
  <2> QED  BY <2>2, <2>3
<1>2. Sent(n, Q, O) = [l \in Links |-> Sent(n, Q, O)[l]]
  BY DEF Sent
<1> QED  BY <1>1, <1>2 DEF Flights

LEMMA UnreadIs ==
    ASSUME NEW n, NEW m, flight \in Flights, <<m, n>> \in Links, flight[<<m, n>>] # <<>>
    PROVE  /\ Unread(n, m) \in Flights /\ Read(n, m) \in Messages /\ Read(n, m) \in Range(flight[<<m, n>>])
           /\ \A l \in Links : l # <<m, n>> => Unread(n, m)[l] = flight[l]
           /\ Unread(n, m)[<<m, n>>] = Tail(flight[<<m, n>>])
           /\ \A l \in Links : Range(Unread(n, m)[l]) \subseteq Range(flight[l])
<1> DEFINE q == flight[<<m, n>>]
<1>1. q \in Seq(Messages) /\ q # <<>>
  BY DEF Flights
<1>2. /\ Unread(n, m) = [flight EXCEPT ![<<m, n>>] = Tail(q)]
      /\ Read(n, m) = Head(q)
  BY DEF Unread, Read
<1> HIDE DEF q
<1>3. Tail(q) \in Seq(Messages) /\ Head(q) \in Messages /\ Head(q) = q[1] /\ 1 \in DOMAIN q
      /\ \A i \in DOMAIN Tail(q) : i + 1 \in DOMAIN q /\ Tail(q)[i] = q[i + 1]
  BY <1>1
<1>4. Range(Tail(q)) \subseteq Range(q) /\ Head(q) \in Range(q)
  BY <1>3 DEF Range
<1>5. Unread(n, m) \in Flights
  BY <1>2, <1>3 DEF Flights
<1>6. /\ \A l \in Links : l # <<m, n>> => Unread(n, m)[l] = flight[l]
      /\ Unread(n, m)[<<m, n>>] = Tail(q)
  BY <1>2 DEF Flights
<1>7. ASSUME NEW l \in Links  PROVE Range(Unread(n, m)[l]) \subseteq Range(flight[l])
  <2>1. CASE l = <<m, n>>
    BY <1>4, <1>6, <2>1 DEF q
  <2>2. CASE l # <<m, n>>
    BY <1>6, <2>2
  <2> QED  BY <2>1, <2>2
<1> QED  BY <1>2, <1>3, <1>4, <1>5, <1>6, <1>7 DEF q

----------------------------------------------------------------------------
(* The streams, the tables and the messages.                               *)

LEMMA LinkIs ==
    /\ \A x \in Others : <<x, Parent[x]>> \in Links /\ <<Parent[x], x>> \in Links /\ x \in Contexts
    /\ \A l \in Links : /\ l = <<l[1], l[2]>> /\ l[1] \in Contexts /\ l[2] \in Contexts
                        /\ <<l[2], l[1]>> \in Links
                        /\ \/ l[2] \in Children(l[1]) /\ l[2] \in Others /\ Parent[l[2]] = l[1]
                           \/ l[1] \in Children(l[2]) /\ l[1] \in Others /\ Parent[l[1]] = l[2]
BY ParentIs DEF Links, Others

LEMMA NotBoth ==
    ASSUME NEW n, NEW m \in Children(n)
    PROVE  m # ParentOf(n) /\ n \notin Children(m) /\ m # n /\ n \in Contexts /\ m \in Others /\ m \in Contexts
<1>1. m \in Others /\ Parent[m] = n /\ n \in Contexts /\ m \in Contexts
  BY ParentIs DEF Others
<1>2. m # n /\ ~Under(m, n)
  BY <1>1, NotUnderChild, UnderSelf
<1>3. ASSUME n \in Others, m = Parent[n]  PROVE FALSE
  BY <1>2, <1>3, UnderChild
<1>4. m # Root
  BY <1>1 DEF Others
<1>5. n \notin Children(m)
  BY <1>3, ParentIs
<1>6. m # ParentOf(n)
  BY <1>1, <1>3, <1>4 DEF ParentOf, Others
<1> QED  BY <1>1, <1>2, <1>5, <1>6

StreamsInv ==
    /\ Root \in present
    /\ \A l \in cut : <<l[2], l[1]>> \in cut
    /\ \A l \in joined : l[1] \in present
    /\ \A l \in joined \ cut : l[2] \in present /\ <<l[2], l[1]>> \in joined
    /\ \A x \in present \cap Others : <<x, Parent[x]>> \in joined

OfCall(msg) ==
    /\ msg.about \in Calls /\ msg.kind \in {"call", "reply", "dead"}
    /\ msg.kind = "call" => msg.dst = Callee[msg.about] /\ msg.src = Caller[msg.about]
    /\ msg.kind # "call" => msg.dst = Caller[msg.about]

UpOK(msg, m) ==
    \/ OfCall(msg)
    \/ /\ msg.kind \in {"add", "del"} /\ msg.dst = Parent[m] /\ msg.src = m
       /\ msg.about \in Contexts /\ Under(m, msg.about) /\ msg.about # m
       /\ msg.kind = "del" => CutBelow(m, msg.about)
DownOK(msg, m) ==
    \/ OfCall(msg)
    \/ msg.kind = "del" /\ msg.dst = m /\ msg.src = Parent[m] /\ msg.about \in Contexts

MessagesIn(F) ==
    \A m \in Others :
        /\ \A msg \in Range(F[<<m, Parent[m]>>]) : UpOK(msg, m)
        /\ \A msg \in Range(F[<<Parent[m], m>>]) : DownOK(msg, m)

\* A context that was not started has no tables, and nobody wrote to it.
FreshInv ==
    \A m \in Others : m \notin present /\ <<m, Parent[m]>> \notin cut =>
        /\ DOMAIN route[m] = {} /\ \A c \in Children(m) : below[<<m, c>>] = {}
        /\ flight[<<m, Parent[m]>>] = <<>> /\ flight[<<Parent[m], m>>] = <<>>

TablesOf(n) ==
    /\ \A d \in DOMAIN route[n] : route[n][d] \in Children(n) /\ d \in below[<<n, route[n][d]>>]
    /\ \A m \in Children(n) : \A d \in below[<<n, m>>] :
          d \in DOMAIN route[n] /\ route[n][d] = m /\ <<n, m>> \in joined /\ Under(m, d)
    /\ \A m \in Children(n) : <<n, m>> \in joined => m \in below[<<n, m>>]
TablesInv == \A n \in present : TablesOf(n)

BelievedOf(m) ==
    <<Parent[m], m>> \in joined \ cut =>
        \A d \in Contexts :
            (d = m \/ d \in DOMAIN route[m])
            <=> Believes(below[<<Parent[m], m>>], flight[<<m, Parent[m]>>], d, Len(flight[<<m, Parent[m]>>]))
BelievedInv == \A m \in Others : BelievedOf(m)

RoutesInv ==
    /\ RoutingTypeOK /\ StreamsInv /\ MessagesIn(flight) /\ FreshInv /\ TablesInv /\ BelievedInv

\* A stream that is not cut carries what is written to it.
LEMMA ReachesIs ==
    ASSUME StreamsInv, NEW l \in Links, l \notin cut, <<l[1], l[2]>> \in joined \/ <<l[2], l[1]>> \in joined
    PROVE  Reaches(l)
<1>1. l = <<l[1], l[2]>> /\ <<l[2], l[1]>> \notin cut
  BY LinkIs DEF StreamsInv
<1>2. l \in joined \/ <<l[2], l[1]>> \in joined
  BY <1>1
<1>3. <<l[2], l[1]>>[1] = l[2] /\ <<l[2], l[1]>>[2] = l[1]
  OBVIOUS
<1> QED  BY <1>1, <1>2, <1>3 DEF Reaches, StreamsInv

----------------------------------------------------------------------------
(* What a step writes.                                                     *)

WriteOK(n, O) ==
    /\ O \in Writing
    /\ \A x \in Children(n) : \A msg \in Range(O[x]) : DownOK(msg, x)
    /\ n \in Others => \A msg \in Range(O[Parent[n]]) : UpOK(msg, n)

LEMMA SentMessages ==
    ASSUME NEW n \in Contexts, NEW Q \in Flights, MessagesIn(Q), NEW O, WriteOK(n, O)
    PROVE  Sent(n, Q, O) \in Flights /\ MessagesIn(Sent(n, Q, O))
<1> DEFINE F == Sent(n, Q, O)
<1>1. F \in Flights
  BY SentIs DEF WriteOK
<1>2. \A l \in Links : IF l[1] = n /\ Reaches(l) THEN Range(F[l]) = Range(Q[l]) \cup Range(O[l[2]]) ELSE F[l] = Q[l]
  BY SentIs DEF WriteOK
<1> HIDE DEF F
<1>3. ASSUME NEW m \in Others
      PROVE  /\ \A msg \in Range(F[<<m, Parent[m]>>]) : UpOK(msg, m)
             /\ \A msg \in Range(F[<<Parent[m], m>>]) : DownOK(msg, m)
  <2>1. /\ <<m, Parent[m]>> \in Links /\ <<Parent[m], m>> \in Links /\ m \in Children(Parent[m])
        /\ \A msg \in Range(Q[<<m, Parent[m]>>]) : UpOK(msg, m)
        /\ \A msg \in Range(Q[<<Parent[m], m>>]) : DownOK(msg, m)
    BY LinkIs, ParentIs DEF MessagesIn
  <2>2. Range(F[<<m, Parent[m]>>]) \subseteq Range(Q[<<m, Parent[m]>>]) \cup (IF m = n THEN Range(O[Parent[m]]) ELSE {})
    BY <1>2, <2>1
  <2>3. Range(F[<<Parent[m], m>>]) \subseteq Range(Q[<<Parent[m], m>>]) \cup (IF Parent[m] = n THEN Range(O[m]) ELSE {})
    BY <1>2, <2>1
  <2>4. m = n => \A msg \in Range(O[Parent[m]]) : UpOK(msg, m)
    BY DEF WriteOK
  <2>5. Parent[m] = n => \A msg \in Range(O[m]) : DownOK(msg, m)
    BY <2>1 DEF WriteOK
  <2> QED  BY <2>1, <2>2, <2>3, <2>4, <2>5
<1>4. MessagesIn(F)
  BY <1>3 DEF MessagesIn
<1> QED  BY <1>1, <1>4 DEF F

LEMMA OnlyOK ==
    ASSUME NEW n \in Contexts, NEW x, NEW msg \in Messages, OfCall(msg)  PROVE WriteOK(n, Only(x, msg))
<1>0. \A y \in Contexts : Range(Only(x, msg)[y]) = IF y = x THEN {msg} ELSE {}
  BY OnlyIs
<1>1. \A y \in Contexts : \A z \in Range(Only(x, msg)[y]) : z = msg
  BY <1>0
<1>2. \A y \in Children(n) : y \in Contexts
  BY NotBoth
<1>3. n \in Others => Parent[n] \in Contexts
  BY ParentIs
<1> QED  BY <1>1, <1>2, <1>3, OnlyIs DEF WriteOK, UpOK, DownOK

LEMMA UpWrites ==
    ASSUME NEW n \in Contexts, NEW kind \in {"add", "del"}, NEW ids \in SUBSET Contexts,
           \A d \in ids : Under(n, d) /\ d # n /\ (kind = "del" => CutBelow(n, d))
    PROVE  WriteOK(n, Up(n, kind, ids))
<1>1. \A x \in Contexts : Range(Up(n, kind, ids)[x]) =
        IF HasParent(n) /\ x = Parent[n] THEN {Message(kind, x, n, d) : d \in ids} ELSE {}
  BY UpIs
<1>2. \A x \in Children(n) : x \in Contexts /\ x # ParentOf(n)
  BY NotBoth
<1>3. HasParent(n) => n \in Others /\ Parent[n] = ParentOf(n)
  BY DEF HasParent, ParentOf, Others
<1>4. \A x \in Children(n) : Range(Up(n, kind, ids)[x]) = {}
  BY <1>1, <1>2, <1>3
<1>5. ASSUME n \in Others  PROVE \A msg \in Range(Up(n, kind, ids)[Parent[n]]) : UpOK(msg, n)
  <2>1. Parent[n] \in Contexts
    BY <1>5, ParentIs
  <2>2. \A msg \in Range(Up(n, kind, ids)[Parent[n]]) : \E d \in ids : msg = Message(kind, Parent[n], n, d)
    BY <1>1, <2>1
  <2>3. \A d \in ids : UpOK(Message(kind, Parent[n], n, d), n)
    BY DEF UpOK, Message
  <2> QED  BY <2>2, <2>3
<1> QED  BY <1>4, <1>5, UpIs DEF WriteOK

LEMMA DownWrites ==
    ASSUME NEW n \in Contexts, NEW ids \in SUBSET Contexts  PROVE WriteOK(n, Down(n, ids))
<1>1. \A x \in Contexts : Range(Down(n, ids)[x]) =
                IF x \in Children(n) /\ <<n, x>> \in joined
                THEN {Message("del", x, n, d) : d \in ids \cap egress[<<n, x>>]} ELSE {}
  BY DownIs
<1>2. \A x \in Children(n) : x \in Contexts /\ Parent[x] = n
  BY NotBoth, ParentIs
<1>3. ASSUME NEW x \in Children(n), NEW msg \in Range(Down(n, ids)[x])  PROVE DownOK(msg, x)
  <2>1. PICK d \in ids : msg = Message("del", x, n, d)
    BY <1>1, <1>2, <1>3
  <2> QED  BY <2>1, <1>2 DEF DownOK, Message
<1>4. n \in Others => Parent[n] \in Contexts /\ Parent[n] \notin Children(n)
  BY NotBoth, ParentIs DEF ParentOf, Others
<1>5. n \in Others => Range(Down(n, ids)[Parent[n]]) = {}
  BY <1>1, <1>4
<1> QED  BY <1>3, <1>5, DownIs DEF WriteOK

LEMMA ReadIs ==
    ASSUME RoutingTypeOK, MessagesIn(flight), NEW n, NEW m, <<n, m>> \in Links, Reads(n, m)
    PROVE  /\ Unread(n, m) \in Flights /\ MessagesIn(Unread(n, m))
           /\ Read(n, m) \in Messages /\ n \in present /\ n \in Contexts
           /\ <<n, m>> \in joined /\ <<m, n>> \in Links
           /\ \/ m \in Children(n) /\ m \in Others /\ Parent[m] = n /\ UpOK(Read(n, m), m)
              \/ n \in Children(m) /\ n \in Others /\ Parent[n] = m /\ DownOK(Read(n, m), n)
<1>1. /\ flight \in Flights /\ n \in present /\ n \in Contexts /\ <<n, m>> \in joined
      /\ flight[<<m, n>>] # <<>>
  BY DEF Reads, RoutingTypeOK, Flights
<1>2. /\ <<m, n>> \in Links
      /\ \/ m \in Children(n) /\ m \in Others /\ Parent[m] = n
         \/ n \in Children(m) /\ n \in Others /\ Parent[n] = m
  BY LinkIs
<1>3. /\ Unread(n, m) \in Flights /\ Read(n, m) \in Messages /\ Read(n, m) \in Range(flight[<<m, n>>])
      /\ \A l \in Links : Range(Unread(n, m)[l]) \subseteq Range(flight[l])
  BY <1>1, <1>2, UnreadIs
<1>4. MessagesIn(Unread(n, m))
  BY <1>3, LinkIs DEF MessagesIn
<1>5. \/ m \in Children(n) /\ m \in Others /\ Parent[m] = n /\ UpOK(Read(n, m), m)
      \/ n \in Children(m) /\ n \in Others /\ Parent[n] = m /\ DownOK(Read(n, m), n)
  BY <1>2, <1>3 DEF MessagesIn
<1> QED  BY <1>1, <1>2, <1>3, <1>4, <1>5

----------------------------------------------------------------------------
(* The messages in flight.                                                 *)

\* The context that a child tells of runs below this one.
LEMMA AboutChild ==
    ASSUME NEW n, NEW m \in Children(n), NEW d \in Contexts, Under(m, d)
    PROVE  /\ Under(n, d) /\ d # n
           /\ CutBelow(m, d) => CutBelow(n, d)
           /\ <<m, n>> \in cut => CutBelow(n, d)
<1>1. m \in Others /\ Parent[m] = n
  BY ParentIs
<1>2. Under(n, d) /\ d # n /\ m # n
  BY <1>1, UnderChild, UnderTrans, UnderSelf, NotUnderChild
<1>3. ASSUME NEW x \in Others, Under(m, x)  PROVE x # n /\ Under(n, x)
  BY <1>1, <1>3, UnderChild, UnderTrans, NotUnderChild
<1> QED  BY <1>1, <1>2, <1>3, UnderChild DEF CutBelow

LEMMA RouteReplyOK ==
    ASSUME NEW n \in Contexts, NEW msg \in Messages, OfCall(msg), msg.kind = "call", NEW kind \in {"reply", "dead"}
    PROVE  WriteOK(n, ReplyTo(n, kind, msg.src, msg.about))
<1>1. /\ msg.src \in Contexts /\ msg.about \in Calls /\ msg.src = Caller[msg.about]
  BY DEF Messages, OfCall
<1> DEFINE r == Message(kind, msg.src, n, msg.about)
<1>2. r \in Messages /\ OfCall(r)
  BY <1>1 DEF Message, Messages, OfCall
<1> HIDE DEF r
<1>3. WriteOK(n, Only(OutStream(n, msg.src, n, n), r))
  BY <1>2, OnlyOK
<1> QED  BY <1>3 DEF ReplyTo, r

LEMMA CallOK == ASSUME NEW k \in Calls  PROVE Message("call", Callee[k], Caller[k], k) \in Messages
                                              /\ OfCall(Message("call", Callee[k], Caller[k], k))
                                              /\ Caller[k] \in Contexts /\ Callee[k] \in Contexts
BY RoutingAssumption DEF Message, Messages, OfCall

\* What a context reads, and what it then holds of it.
LEMMA ReadCall ==
    ASSUME RoutingTypeOK, MessagesIn(flight), NEW n, NEW m, <<n, m>> \in Links, Reads(n, m),
           Read(n, m).kind \in {"call", "reply", "dead"}
    PROVE  OfCall(Read(n, m))
BY ReadIs DEF UpOK, DownOK, OfCall

LEMMA ReadNews ==
    ASSUME RoutingTypeOK, MessagesIn(flight), NEW n, NEW m, <<n, m>> \in Links, Reads(n, m),
           Read(n, m).kind \in {"add", "del"}
    PROVE  /\ Read(n, m).about \in Contexts /\ Read(n, m).dst = n /\ Read(n, m).src = m
           /\ \/ /\ m \in Children(n) /\ Under(m, Read(n, m).about) /\ Read(n, m).about # m
                 /\ Read(n, m).kind = "del" => CutBelow(m, Read(n, m).about)
              \/ n \in Children(m) /\ n \in Others /\ m = Parent[n] /\ Read(n, m).kind = "del"
<1> DEFINE msg == Read(n, m)
<1>1. \/ m \in Children(n) /\ m \in Others /\ Parent[m] = n /\ UpOK(msg, m)
      \/ n \in Children(m) /\ n \in Others /\ Parent[n] = m /\ DownOK(msg, n)
  BY ReadIs
<1>2. msg.kind \in {"add", "del"} /\ ~OfCall(msg)
  BY DEF OfCall
<1> HIDE DEF msg
<1>3. CASE m \in Children(n) /\ m \in Others /\ Parent[m] = n /\ UpOK(msg, m)
  BY <1>2, <1>3 DEF UpOK, msg
<1>4. CASE n \in Children(m) /\ n \in Others /\ Parent[n] = m /\ DownOK(msg, n)
  BY <1>2, <1>4 DEF DownOK, msg
<1> QED  BY <1>1, <1>3, <1>4

LEMMA SentStep ==
    ASSUME RoutingTypeOK, MessagesIn(flight), StreamsInv, TablesInv, RoutingNext
    PROVE  flight' \in Flights /\ MessagesIn(flight')
<1>1. flight \in Flights
  BY DEF RoutingTypeOK, Flights
<1>2. ASSUME NEW k \in Calls, SendCall(k)  PROVE flight' \in Flights /\ MessagesIn(flight')
  <2>1. WriteOK(Caller[k], Only(OutStream(Caller[k], Callee[k], Caller[k], Caller[k]),
                                Message("call", Callee[k], Caller[k], k)))
    BY CallOK, OnlyOK
  <2> QED  BY <1>1, <1>2, <2>1, CallOK, SentMessages DEF SendCall
<1>3. ASSUME NEW n, NEW m, <<n, m>> \in Links, Handle(n, m)  PROVE flight' \in Flights /\ MessagesIn(flight')
  <2>0. ASSUME Reads(n, m)
        PROVE  /\ Unread(n, m) \in Flights /\ MessagesIn(Unread(n, m)) /\ Read(n, m) \in Messages
               /\ n \in Contexts
    BY <1>3, <2>0, ReadIs
  <2>1. CASE TakeReply(n, m)
    BY <2>0, <2>1 DEF TakeReply
  <2>2. CASE HandleCall(n, m)
    <3>1. Reads(n, m) /\ Read(n, m).kind = "call"
          /\ flight' = Sent(n, Unread(n, m), ReplyTo(n, "reply", Read(n, m).src, Read(n, m).about))
      BY <2>2 DEF HandleCall
    <3>2. OfCall(Read(n, m))
      BY <1>3, <3>1, ReadCall
    <3>3. WriteOK(n, ReplyTo(n, "reply", Read(n, m).src, Read(n, m).about))
      BY <2>0, <3>1, <3>2, RouteReplyOK
    <3> QED  BY <2>0, <3>1, <3>3, SentMessages
  <2>3. CASE Forward(n, m)
    <3>1. Reads(n, m) /\ Read(n, m).dst # n /\ flight' = Sent(n, Unread(n, m), Only(Onward(n, m), Read(n, m)))
      BY <2>3 DEF Forward
    <3>2. OfCall(Read(n, m))
      <4>1. Read(n, m).kind \notin {"add", "del"}
        BY <1>3, <3>1, ReadNews
      <4> QED  BY <1>3, <3>1, <4>1, ReadIs DEF UpOK, DownOK
    <3>3. WriteOK(n, Only(Onward(n, m), Read(n, m)))
      BY <2>0, <3>1, <3>2, OnlyOK
    <3> QED  BY <2>0, <3>1, <3>3, SentMessages
  <2>4. CASE Bounce(n, m)
    <3>1. Reads(n, m)
      BY <2>4 DEF Bounce
    <3>2. CASE flight' = Unread(n, m)
      BY <2>0, <3>1, <3>2
    <3>3. CASE Read(n, m).kind = "call"
               /\ flight' = Sent(n, Unread(n, m), ReplyTo(n, "dead", Read(n, m).src, Read(n, m).about))
      <4>2. OfCall(Read(n, m))
        BY <1>3, <3>1, <3>3, ReadCall
      <4>3. WriteOK(n, ReplyTo(n, "dead", Read(n, m).src, Read(n, m).about))
        BY <2>0, <3>1, <3>3, <4>2, RouteReplyOK
      <4> QED  BY <2>0, <3>1, <3>3, <4>3, SentMessages
    <3> QED  BY <2>4, <3>2, <3>3 DEF Bounce
  <2>5. CASE AddRoute(n, m)
    <3> DEFINE d == Read(n, m).about
    <3>1. Reads(n, m) /\ Read(n, m).kind = "add"
          /\ (flight' = Unread(n, m) \/ flight' = Sent(n, Unread(n, m), Up(n, "add", {d})))
      BY <2>5 DEF AddRoute
    <3>2. d \in Contexts /\ m \in Children(n) /\ Under(m, d)
      BY <1>3, <3>1, ReadNews
    <3> HIDE DEF d
    <3>3. Under(n, d) /\ d # n
      BY <3>2, AboutChild
    <3>4. WriteOK(n, Up(n, "add", {d}))
      BY <2>0, <3>1, <3>2, <3>3, UpWrites
    <3> QED  BY <2>0, <3>1, <3>4, SentMessages
  <2>6. CASE DelRoute(n, m)
    <3> DEFINE d == Read(n, m).about
               F == Sent(n, Unread(n, m), Down(n, {d}))
    <3>1. Reads(n, m) /\ Read(n, m).kind = "del"
          /\ \/ flight' = Unread(n, m) \/ flight' = F
             \/ m # ParentOf(n) /\ flight' = Sent(n, F, Up(n, "del", {d}))
      BY <2>6 DEF DelRoute
    <3>2. d \in Contexts /\ ((m \in Children(n) /\ Under(m, d) /\ CutBelow(m, d)) \/ (n \in Others /\ m = Parent[n]))
      BY <1>3, <3>1, ReadNews
    <3> HIDE DEF d
    <3>3. F \in Flights /\ MessagesIn(F)
      BY <2>0, <3>1, <3>2, DownWrites, SentMessages
    <3> HIDE DEF F
    <3>4. ASSUME m # ParentOf(n)  PROVE WriteOK(n, Up(n, "del", {d}))
      <4>1. m \in Children(n) /\ Under(m, d) /\ CutBelow(m, d)
        BY <3>2, <3>4 DEF ParentOf, Others
      <4>2. Under(n, d) /\ d # n /\ CutBelow(n, d)
        BY <3>2, <4>1, AboutChild
      <4> QED  BY <2>0, <3>1, <3>2, <4>2, UpWrites
    <3> QED  BY <2>0, <3>1, <3>3, <3>4, SentMessages
  <2>7. CASE StreamLost(n, m)
    <3> DEFINE ids == below[<<n, m>>]
               F == Sent(n, flight, Up(n, "del", ids))
               G == Sent(n, F, Down(n, ids))
    <3>1. n \in present /\ m \in Children(n) /\ flight' = [G EXCEPT ![<<m, n>>] = <<>>]
      BY <2>7 DEF StreamLost, Severed
    <3>2. n \in Contexts /\ ids \in SUBSET Contexts
      BY <1>3, <3>1 DEF RoutingTypeOK
    <3>7. <<m, n>> \in cut
      BY <2>7 DEF StreamLost, Severed, StreamsInv
    <3>3. \A d \in ids : d \in Contexts /\ Under(n, d) /\ d # n /\ CutBelow(n, d)
      BY <3>1, <3>2, <3>7, AboutChild DEF TablesInv, TablesOf
    <3> HIDE DEF ids
    <3>4. F \in Flights /\ MessagesIn(F)
      BY <1>1, <3>2, <3>3, UpWrites, SentMessages
    <3> HIDE DEF F
    <3>5. G \in Flights /\ MessagesIn(G)
      BY <3>2, <3>4, DownWrites, SentMessages
    <3> HIDE DEF G
    <3>6. flight' \in Flights /\ \A l \in Links : flight'[l] = G[l] \/ flight'[l] = <<>>
      BY <3>1, <3>5, EmptyIs DEF Flights
    <3> QED  BY <3>5, <3>6, EmptyIs, LinkIs DEF MessagesIn
  <2> QED  BY <1>3, <2>1, <2>2, <2>3, <2>4, <2>5, <2>6, <2>7 DEF Handle
<1>4. ASSUME NEW m \in Others, Attach(m)  PROVE flight' \in Flights /\ MessagesIn(flight')
  <2>1. flight' = Sent(Parent[m], flight, Up(Parent[m], "add", {m}))
    BY <1>4 DEF Attach
  <2>2. Parent[m] \in Contexts /\ m \in Contexts /\ m \in Children(Parent[m])
    BY ParentIs DEF Others
  <2>3. Under(Parent[m], m) /\ m # Parent[m]
    BY <2>2, UnderSelf, AboutChild
  <2> QED  BY <1>1, <2>1, <2>2, <2>3, UpWrites, SentMessages
<1>5. ASSUME NEW n \in Others, Departs(n) \/ Cut(n)  PROVE flight' = flight
  BY <1>5 DEF Departs, Cut
<1>6. \A l \in Links : l = <<l[1], l[2]>>
  BY LinkIs
<1> QED  BY <1>1, <1>2, <1>3, <1>4, <1>5, <1>6 DEF RoutingNext, Others

----------------------------------------------------------------------------
(* What the steps do to the tables.                                        *)

\* All of the tables but those of n, and all but one stream's of these, are as they were.
SameRoute(x) == DOMAIN route'[x] = DOMAIN route[x] /\ \A d \in DOMAIN route[x] : route'[x][d] = route[x][d]
OtherTables(n) ==
    /\ \A x \in Contexts : x # n => route'[x] = route[x]
    /\ \A l \in Links : l[1] # n => below'[l] = below[l]
OtherStreams(n, m) == OtherTables(n) /\ \A l \in Links : l # <<n, m>> => below'[l] = below[l]

LEMMA RouteIs ==
    ASSUME RoutingTypeOK, NEW n \in Contexts, NEW f, route' = [route EXCEPT ![n] = f]
    PROVE  route'[n] = f /\ \A x \in Contexts : x # n => route'[x] = route[x]
<1>1. DOMAIN route = Contexts
  BY DEF RoutingTypeOK
<1> QED  BY <1>1

LEMMA BelowIs ==
    ASSUME RoutingTypeOK, NEW k \in Links, NEW S, below' = [below EXCEPT ![k] = S]
    PROVE  below'[k] = S /\ \A l \in Links : l # k => below'[l] = below[l]
<1>1. DOMAIN below = Links
  BY DEF RoutingTypeOK
<1> QED  BY <1>1

LEMMA GoesTo ==
    ASSUME TablesInv, NEW n \in present, n \in Contexts, NEW m, NEW d, StreamById(n, d) = m
    PROVE  /\ m \in Children(n) => d \in DOMAIN route[n] /\ route[n][d] = m
           /\ n \in Others /\ m = Parent[n] => d \notin DOMAIN route[n] /\ HasParent(n)
<1>1. ASSUME d \in DOMAIN route[n]  PROVE route[n][d] \in Children(n)
  BY <1>1 DEF TablesInv, TablesOf
<1>2. ASSUME m \in Children(n)  PROVE m \in Contexts /\ m # ParentOf(n)
  BY <1>2, NotBoth
<1>3. HasParent(n) => Parent[n] = ParentOf(n)
  BY DEF HasParent, ParentOf
<1>4. m \in Children(n) => d \in DOMAIN route[n] /\ route[n][d] = m
  BY <1>2, <1>3, RoutingAssumption DEF StreamById
<1>5. ASSUME n \in Others, m = Parent[n]  PROVE d \notin DOMAIN route[n] /\ HasParent(n)
  <2>1. m = ParentOf(n) /\ m \in Contexts
    BY <1>5, ParentIs DEF ParentOf, Others
  <2>2. m \notin Children(n)
    BY <2>1, NotBoth
  <2> QED  BY <2>1, <2>2, <1>1, RoutingAssumption DEF StreamById
<1> QED  BY <1>4, <1>5

LEMMA OneBelow ==
    ASSUME TablesInv, NEW n \in present, NEW d \in DOMAIN route[n], d \in Contexts,
           NEW m \in Children(n), Under(m, d)
    PROVE  route[n][d] = m /\ d \in below[<<n, m>>]
<1>1. route[n][d] \in Children(n) /\ d \in below[<<n, route[n][d]>>] /\ Under(route[n][d], d)
  BY DEF TablesInv, TablesOf
<1>2. route[n][d] = m
  BY <1>1, OneChildAbove
<1> QED  BY <1>1, <1>2

AddIs(n, m, d) ==
    /\ m \in Children(n) /\ d \in Contexts /\ Under(m, d) /\ d # m /\ n \in Contexts
    /\ OtherStreams(n, m)
    /\ \/ /\ d \in DOMAIN route[n] /\ d \in below[<<n, m>>] /\ route'[n] = route[n]
          /\ below'[<<n, m>>] = below[<<n, m>>] /\ flight' = Unread(n, m)
       \/ /\ d \notin DOMAIN route[n] /\ DOMAIN route'[n] = DOMAIN route[n] \cup {d} /\ route'[n][d] = m
          /\ \A e \in DOMAIN route[n] : route'[n][e] = route[n][e]
          /\ below'[<<n, m>>] = below[<<n, m>>] \cup {d}
          /\ flight' = Sent(n, Unread(n, m), Up(n, "add", {d}))

LEMMA AddRouteIs ==
    ASSUME RoutingTypeOK, MessagesIn(flight), TablesInv, NEW n, NEW m, <<n, m>> \in Links, AddRoute(n, m)
    PROVE  Reads(n, m) /\ Read(n, m).kind = "add" /\ AddIs(n, m, Read(n, m).about)
<1> DEFINE d == Read(n, m).about
<1>1. Reads(n, m) /\ Read(n, m).kind = "add" /\ n \in present /\ n \in Contexts
  BY DEF AddRoute, Reads, RoutingTypeOK
<1>2. m \in Children(n) /\ d \in Contexts /\ Under(m, d) /\ d # m
  BY <1>1, ReadNews
<1>3. IF d \in DOMAIN route[n]
      THEN below' = below /\ route' = route /\ flight' = Unread(n, m)
      ELSE /\ below' = [below EXCEPT ![<<n, m>>] = @ \cup {d}]
           /\ route' = [route EXCEPT ![n] = [e \in DOMAIN @ \cup {d} |-> IF e = d THEN m ELSE @[e]]]
           /\ flight' = Sent(n, Unread(n, m), Up(n, "add", {d}))
  BY DEF AddRoute
<1> HIDE DEF d
<1>4. CASE d \in DOMAIN route[n]
  <2>1. d \in below[<<n, m>>]
    BY <1>1, <1>2, <1>4, OneBelow
  <2> QED  BY <1>1, <1>2, <1>3, <1>4, <2>1 DEF AddIs, OtherStreams, OtherTables, d
<1>5. CASE d \notin DOMAIN route[n]
  <2> DEFINE f == [e \in DOMAIN route[n] \cup {d} |-> IF e = d THEN m ELSE route[n][e]]
  <2>1. route' = [route EXCEPT ![n] = f]
    BY <1>3, <1>5
  <2>2. route'[n] = f /\ \A x \in Contexts : x # n => route'[x] = route[x]
    BY <1>1, <2>1, RouteIs
  <2>3. below' = [below EXCEPT ![<<n, m>>] = below[<<n, m>>] \cup {d}]
    BY <1>3, <1>5
  <2>4. below'[<<n, m>>] = below[<<n, m>>] \cup {d} /\ \A l \in Links : l # <<n, m>> => below'[l] = below[l]
    BY <2>3, BelowIs
  <2>5. DOMAIN route'[n] = DOMAIN route[n] \cup {d} /\ route'[n][d] = m
        /\ \A e \in DOMAIN route[n] : route'[n][e] = route[n][e]
    BY <1>5, <2>2
  <2> HIDE DEF f
  <2> QED  BY <1>1, <1>2, <1>3, <1>5, <2>2, <2>4, <2>5 DEF AddIs, OtherStreams, OtherTables, d
<1> QED  BY <1>4, <1>5

\* From a child that this context has the route by; from the parent; and otherwise.
DelIs(n, m, d) ==
    \/ /\ m \in Children(n) /\ d \in DOMAIN route[n] /\ route[n][d] = m /\ Under(m, d) /\ d # m
       /\ CutBelow(m, d)
       /\ DOMAIN route'[n] = DOMAIN route[n] \ {d} /\ \A e \in DOMAIN route'[n] : route'[n][e] = route[n][e]
       /\ below'[<<n, m>>] = below[<<n, m>>] \ {d}
       /\ flight' = Sent(n, Sent(n, Unread(n, m), Down(n, {d})), Up(n, "del", {d}))
       /\ calling' = Fired(n, {d})
    \/ /\ n \in Others /\ m = Parent[n] /\ d \notin DOMAIN route[n] /\ SameRoute(n)
       /\ flight' = Sent(n, Unread(n, m), Down(n, {d})) \/ (n \notin Upgraded /\ flight' = Unread(n, m))
       /\ calling' = Fired(n, {d})
    \/ /\ StreamById(n, d) # m /\ route' = route /\ below' = below /\ flight' = Unread(n, m)
       /\ m \in Children(n) => d \notin below[<<n, m>>]
       /\ calling' = Fired(n, {d}) \/ calling' = calling

LEMMA DelRouteIs ==
    ASSUME RoutingTypeOK, MessagesIn(flight), TablesInv, NEW n, NEW m, <<n, m>> \in Links, DelRoute(n, m)
    PROVE  /\ Reads(n, m) /\ Read(n, m).kind = "del" /\ n \in Contexts /\ Read(n, m).about \in Contexts
           /\ OtherStreams(n, m) /\ DelIs(n, m, Read(n, m).about)
<1> DEFINE d == Read(n, m).about
           goes == StreamById(n, d) = m
<1>1. Reads(n, m) /\ Read(n, m).kind = "del" /\ n \in present /\ n \in Contexts
  BY DEF DelRoute, Reads, RoutingTypeOK
<1>2. /\ d \in Contexts
      /\ \/ m \in Children(n) /\ Under(m, d) /\ d # m /\ CutBelow(m, d)
         \/ n \in Others /\ m = Parent[n]
  BY <1>1, ReadNews
<1>3. /\ IF n \in Upgraded /\ goes
         THEN /\ below' = [below EXCEPT ![<<n, m>>] = @ \ {d}]
              /\ route' = [route EXCEPT ![n] = Restrict(@, DOMAIN @ \ {d})]
              /\ IF m = ParentOf(n) THEN flight' = Sent(n, Unread(n, m), Down(n, {d}))
                 ELSE flight' = Sent(n, Sent(n, Unread(n, m), Down(n, {d})), Up(n, "del", {d}))
         ELSE flight' = Unread(n, m) /\ below' = below /\ route' = route
      /\ calling' = IF goes \/ n \notin Upgraded THEN Fired(n, {d}) ELSE calling
  BY DEF DelRoute
<1> HIDE DEF d
<1>4. CASE n \in Upgraded /\ goes
  <2>1. /\ route'[n] = Restrict(route[n], DOMAIN route[n] \ {d})
        /\ \A x \in Contexts : x # n => route'[x] = route[x]
    BY <1>1, <1>3, <1>4, RouteIs
  <2>2. /\ below'[<<n, m>>] = below[<<n, m>>] \ {d}
        /\ \A l \in Links : l # <<n, m>> => below'[l] = below[l]
    BY <1>3, <1>4, BelowIs
  <2>3. DOMAIN route'[n] = DOMAIN route[n] \ {d} /\ \A e \in DOMAIN route'[n] : route'[n][e] = route[n][e]
    BY <2>1 DEF Restrict
  <2>4. OtherStreams(n, m)
    BY <2>1, <2>2 DEF OtherStreams, OtherTables
  <2>5. CASE m \in Children(n) /\ Under(m, d) /\ d # m /\ CutBelow(m, d)
    <3>1. d \in DOMAIN route[n] /\ route[n][d] = m
      BY <1>1, <1>4, <2>5, GoesTo
    <3>2. m # ParentOf(n)
      BY <2>5, NotBoth
    <3> QED  BY <1>1, <1>2, <1>3, <1>4, <2>2, <2>3, <2>4, <2>5, <3>1, <3>2 DEF DelIs, d
  <2>6. CASE n \in Others /\ m = Parent[n]
    <3>1. d \notin DOMAIN route[n] /\ m = ParentOf(n)
      BY <1>1, <1>4, <2>6, GoesTo DEF ParentOf, Others
    <3>2. SameRoute(n)
      BY <2>3, <3>1 DEF SameRoute
    <3> QED  BY <1>1, <1>2, <1>3, <1>4, <2>4, <2>6, <3>1, <3>2 DEF DelIs, d
  <2> QED  BY <1>2, <2>5, <2>6
<1>5. CASE ~(n \in Upgraded /\ goes)
  <2>1. /\ flight' = Unread(n, m) /\ below' = below /\ route' = route /\ OtherStreams(n, m)
        /\ calling' = Fired(n, {d}) \/ calling' = calling
    BY <1>3, <1>5 DEF OtherStreams, OtherTables
  <2>2. CASE ~goes
    <3>1. ASSUME m \in Children(n), d \in below[<<n, m>>]  PROVE FALSE
      <4>1. d \in DOMAIN route[n] /\ route[n][d] = m
        BY <1>1, <3>1 DEF TablesInv, TablesOf
      <4> QED  BY <2>2, <4>1 DEF StreamById
    <3> QED  BY <1>1, <1>2, <2>1, <2>2, <3>1 DEF DelIs, d
  <2>3. CASE goes /\ n \notin Upgraded
    <3>1. m \notin Children(n)
      BY <2>3, NotBoth, ParentIs
    <3>2. n \in Others /\ m = Parent[n]
      BY <1>2, <3>1
    <3>3. d \notin DOMAIN route[n]
      BY <1>1, <2>3, <3>2, GoesTo
    <3> QED  BY <1>1, <1>2, <1>3, <1>5, <2>1, <2>3, <3>2, <3>3 DEF DelIs, SameRoute, d
  <2> QED  BY <1>5, <2>2, <2>3
<1> QED  BY <1>4, <1>5

LostIs(n, m) ==
    LET ids == below[<<n, m>>] IN
    /\ n \in present /\ n \in Contexts /\ m \in Children(n) /\ <<n, m>> \in joined \cap cut /\ <<m, n>> \in cut
    /\ ids \in SUBSET Contexts
    /\ joined' = joined \ {<<n, m>>} /\ OtherStreams(n, m)
    /\ DOMAIN route'[n] = DOMAIN route[n] \ ids /\ \A e \in DOMAIN route'[n] : route'[n][e] = route[n][e] /\ route[n][e] # m
    /\ below'[<<n, m>>] = {}
    /\ flight' = [Sent(n, Sent(n, flight, Up(n, "del", ids)), Down(n, ids)) EXCEPT ![<<m, n>>] = <<>>]
    /\ calling' = Fired(n, ids)

LEMMA StreamLostIs ==
    ASSUME RoutingTypeOK, StreamsInv, TablesInv, NEW n, NEW m, <<n, m>> \in Links, StreamLost(n, m)
    PROVE  LostIs(n, m)
<1> DEFINE ids == below[<<n, m>>]
           keep == {d \in DOMAIN route[n] : route[n][d] # m /\ d \notin ids}
<1>1. /\ n \in present /\ m \in Children(n) /\ <<n, m>> \in joined /\ <<n, m>> \in cut
      /\ joined' = joined \ {<<n, m>>}
      /\ route' = [route EXCEPT ![n] = Restrict(route[n], keep)]
      /\ below' = [below EXCEPT ![<<n, m>>] = {}]
      /\ flight' = [Sent(n, Sent(n, flight, Up(n, "del", ids)), Down(n, ids)) EXCEPT ![<<m, n>>] = <<>>]
      /\ calling' = Fired(n, ids)
  BY DEF StreamLost, Severed
<1>2. n \in Contexts /\ ids \in SUBSET Contexts /\ <<m, n>> \in cut
  BY <1>1 DEF RoutingTypeOK, StreamsInv
<1>3. \A d \in DOMAIN route[n] : route[n][d] = m <=> d \in ids
  BY <1>1 DEF TablesInv, TablesOf
<1>4. keep = DOMAIN route[n] \ ids
  BY <1>3
<1>5. route'[n] = Restrict(route[n], keep) /\ \A x \in Contexts : x # n => route'[x] = route[x]
  BY <1>1, <1>2, RouteIs
<1>6. below'[<<n, m>>] = {} /\ \A l \in Links : l # <<n, m>> => below'[l] = below[l]
  BY <1>1, BelowIs
<1>7. DOMAIN route'[n] = DOMAIN route[n] \ ids
      /\ \A e \in DOMAIN route'[n] : route'[n][e] = route[n][e] /\ route[n][e] # m
  BY <1>4, <1>5 DEF Restrict
<1>8. OtherStreams(n, m)
  BY <1>5, <1>6 DEF OtherStreams, OtherTables
<1> HIDE DEF keep
<1> QED  BY <1>1, <1>2, <1>6, <1>7, <1>8 DEF LostIs

AttachIs(n, m) ==
    /\ m \in Children(n) /\ n \in Contexts /\ m \in Contexts /\ n \in present
    /\ m \notin present /\ <<n, m>> \notin cut /\ <<m, n>> \notin cut
    /\ present' = present \cup {m} /\ joined' = joined \cup {<<n, m>>, <<m, n>>} /\ OtherStreams(n, m)
    /\ DOMAIN route'[n] = DOMAIN route[n] \cup {m} /\ route'[n][m] = m
    /\ \A e \in DOMAIN route[n] : e # m => route'[n][e] = route[n][e]
    /\ below'[<<n, m>>] = {m}
    /\ flight' = Sent(n, flight, Up(n, "add", {m}))

LEMMA AttachedIs ==
    ASSUME RoutingTypeOK, StreamsInv, NEW m \in Others, Attach(m)
    PROVE  AttachIs(Parent[m], m) /\ cut' = cut /\ egress' = egress /\ calling' = calling
<1> DEFINE n == Parent[m]
           f == [e \in DOMAIN route[n] \cup {m} |-> IF e = m THEN m ELSE route[n][e]]
<1>1. m \in Children(n) /\ n \in Contexts /\ m \in Contexts /\ <<n, m>> \in Links
  BY ParentIs, LinkIs DEF Others
<1>2. /\ m \notin present /\ n \in present /\ <<n, m>> \notin cut
      /\ present' = present \cup {m} /\ joined' = joined \cup {<<n, m>>, <<m, n>>}
      /\ route' = [route EXCEPT ![n] = f] /\ below' = [below EXCEPT ![<<n, m>>] = {m}]
      /\ flight' = Sent(n, flight, Up(n, "add", {m}))
      /\ cut' = cut /\ egress' = egress /\ calling' = calling
  BY DEF Attach
<1>3. <<m, n>> \notin cut
  BY <1>2 DEF StreamsInv
<1>4. route'[n] = f /\ \A x \in Contexts : x # n => route'[x] = route[x]
  BY <1>1, <1>2, RouteIs
<1>5. below'[<<n, m>>] = {m} /\ \A l \in Links : l # <<n, m>> => below'[l] = below[l]
  BY <1>1, <1>2, BelowIs
<1>6. DOMAIN route'[n] = DOMAIN route[n] \cup {m} /\ route'[n][m] = m
      /\ \A e \in DOMAIN route[n] : e # m => route'[n][e] = route[n][e]
  BY <1>4
<1>7. OtherStreams(n, m)
  BY <1>4, <1>5 DEF OtherStreams, OtherTables
<1> HIDE DEF n, f
<1>8. AttachIs(n, m)
  BY <1>1, <1>2, <1>3, <1>5, <1>6, <1>7 DEF AttachIs
<1> QED  BY <1>2, <1>8 DEF n

----------------------------------------------------------------------------
(* The invariant is kept.                                                  *)

\* The steps that leave the contexts, the streams and the tables as they are.
Passes(n, m) == TakeReply(n, m) \/ HandleCall(n, m) \/ Forward(n, m) \/ Bounce(n, m)
Stays == UNCHANGED <<present, joined, cut>>

LEMMA StepIs ==
    ASSUME RoutingTypeOK, StreamsInv, MessagesIn(flight), TablesInv, RoutingNext
    PROVE  \/ Stays /\ UNCHANGED <<route, below>>
              /\ ((\E k \in Calls : SendCall(k)) \/ \E n, m : <<n, m>> \in Links /\ Passes(n, m))
           \/ Stays /\ \E n, m : <<n, m>> \in Links /\ AddRoute(n, m)
           \/ Stays /\ \E n, m : <<n, m>> \in Links /\ DelRoute(n, m)
           \/ \E n, m : <<n, m>> \in Links /\ LostIs(n, m) /\ present' = present /\ cut' = cut /\ egress' = egress
           \/ \E m \in Others : AttachIs(Parent[m], m) /\ cut' = cut /\ egress' = egress /\ calling' = calling
           \/ (\E n \in Others : Departs(n) \/ Cut(n)) /\ UNCHANGED <<flight, route, below, egress, calling>>
<1>1. ASSUME NEW k \in Calls, SendCall(k)  PROVE Stays /\ UNCHANGED <<route, below>>
  BY <1>1 DEF SendCall, Stays
<1>2. ASSUME NEW n, NEW m, Passes(n, m)  PROVE Stays /\ UNCHANGED <<route, below>>
  BY <1>2 DEF Passes, TakeReply, HandleCall, Forward, Bounce, Stays
<1>3. ASSUME NEW n, NEW m, AddRoute(n, m) \/ DelRoute(n, m)  PROVE Stays
  BY <1>3 DEF AddRoute, DelRoute, Stays
<1>4. ASSUME NEW n, NEW m, <<n, m>> \in Links, StreamLost(n, m)
      PROVE  LostIs(n, m) /\ present' = present /\ cut' = cut /\ egress' = egress
  <2>1. LostIs(n, m)
    BY <1>4, StreamLostIs
  <2> QED  BY <1>4, <2>1 DEF StreamLost
<1>5. ASSUME NEW n \in Others, Departs(n) \/ Cut(n)  PROVE UNCHANGED <<flight, route, below, egress, calling>>
  BY <1>5 DEF Departs, Cut
<1>6. \A l \in Links : l = <<l[1], l[2]>>
  BY LinkIs
<1>7. \/ \E k \in Calls : SendCall(k)
      \/ \E l \in Links : Handle(l[1], l[2])
      \/ \E n \in Others : Attach(n) \/ Departs(n) \/ Cut(n)
  BY DEF RoutingNext, Others
<1>8. CASE \E l \in Links : Handle(l[1], l[2])
  <2>1. PICK l \in Links : Handle(l[1], l[2])
    BY <1>8
  <2>2. <<l[1], l[2]>> \in Links
    BY <1>6, <2>1
  <2>3. Passes(l[1], l[2]) \/ AddRoute(l[1], l[2]) \/ DelRoute(l[1], l[2]) \/ StreamLost(l[1], l[2])
    BY <2>1 DEF Handle, Passes
  <2> QED  BY <2>2, <2>3, <1>2, <1>3, <1>4
<1> QED  BY <1>1, <1>5, <1>7, <1>8, AttachedIs

LEMMA FiredIs == ASSUME RoutingTypeOK, NEW n, NEW ids
                 PROVE  /\ Fired(n, ids) \in [Calls -> {"never", "before", "waiting", "answered"}]
                        /\ \A k \in Calls : Fired(n, ids)[k] = "waiting" =>
                              calling[k] = "waiting" /\ ~(Caller[k] = n /\ Callee[k] \in ids)
BY DEF Fired, RoutingTypeOK

LEMMA SeenIs ==
    ASSUME RoutingTypeOK, NEW n, NEW m, <<n, m>> \in Links, Read(n, m) \in Messages,
           Seen(n, m) \/ UNCHANGED egress
    PROVE  /\ egress' \in [Links -> SUBSET Contexts]
           /\ \A l \in Links : egress[l] \subseteq egress'[l]
           /\ Seen(n, m) => Read(n, m).dst \in egress'[<<n, m>>]
<1>1. Read(n, m).dst \in Contexts
  BY DEF Messages
<1>2. egress \in [Links -> SUBSET Contexts]
  BY DEF RoutingTypeOK
<1>3. CASE Seen(n, m)
  <2>1. egress' = [egress EXCEPT ![<<n, m>>] = egress[<<n, m>>] \cup {Read(n, m).dst}]
    BY <1>3 DEF Seen
  <2> QED  BY <1>1, <1>2, <2>1
<1>4. CASE ~Seen(n, m) /\ UNCHANGED egress
  BY <1>2, <1>4
<1> QED  BY <1>3, <1>4

LEMMA EgressGrows ==
    ASSUME RoutingTypeOK, MessagesIn(flight), NEW n, NEW m, <<n, m>> \in Links,
           Passes(n, m) \/ AddRoute(n, m) \/ DelRoute(n, m)
    PROVE  egress' \in [Links -> SUBSET Contexts] /\ \A l \in Links : egress[l] \subseteq egress'[l]
<1>1. Reads(n, m) /\ (Seen(n, m) \/ UNCHANGED egress)
  BY DEF Passes, TakeReply, HandleCall, Forward, Bounce, AddRoute, DelRoute
<1> QED  BY <1>1, ReadIs, SeenIs

LEMMA TypeStep ==
    ASSUME RoutingTypeOK, StreamsInv, MessagesIn(flight), TablesInv, RoutingNext  PROVE RoutingTypeOK'
<1>1. flight' \in [Links -> Seq(Messages)]
  BY SentStep DEF Flights
<1>2. present' \subseteq Contexts /\ joined' \subseteq Links /\ cut' \subseteq Links /\ unidirectional' \in BOOLEAN
  <2>1. unidirectional' = unidirectional
    BY DEF RoutingNext, SendCall, Handle, TakeReply, HandleCall, Forward, Bounce, AddRoute, DelRoute,
           StreamLost, Attach, Departs, Cut
  <2>2. ASSUME Stays \/ \E n, m : LostIs(n, m) /\ present' = present /\ cut' = cut
        PROVE  present' \subseteq Contexts /\ joined' \subseteq Links /\ cut' \subseteq Links
    BY <2>2 DEF Stays, LostIs, RoutingTypeOK
  <2>3. ASSUME NEW m \in Others, AttachIs(Parent[m], m), cut' = cut
        PROVE  present' \subseteq Contexts /\ joined' \subseteq Links /\ cut' \subseteq Links
    BY <2>3, LinkIs DEF AttachIs, RoutingTypeOK
  <2>4. ASSUME NEW n \in Others, Departs(n) \/ Cut(n)
        PROVE  present' \subseteq Contexts /\ joined' \subseteq Links /\ cut' \subseteq Links
    BY <2>4, LinkIs DEF Departs, Cut, RoutingTypeOK
  <2> QED  BY <2>1, <2>2, <2>3, <2>4, StepIs DEF RoutingTypeOK
<1>3. egress' \in [Links -> SUBSET Contexts]
  <2>1. ASSUME NEW k \in Calls, SendCall(k)  PROVE egress' = egress
    BY <2>1 DEF SendCall
  <2> QED  BY <2>1, StepIs, EgressGrows DEF RoutingTypeOK
<1>4. calling' \in [Calls -> {"never", "before", "waiting", "answered"}]
  <2>1. ASSUME NEW n, NEW m, <<n, m>> \in Links, Passes(n, m)  PROVE calling' = calling \/ \E k : calling' = Replied(k)
    BY <2>1 DEF Passes, TakeReply, HandleCall, Forward, Bounce
  <2>2. ASSUME NEW n, NEW m, <<n, m>> \in Links, DelRoute(n, m)
        PROVE  calling' = calling \/ \E j, ids : calling' = Fired(j, ids)
    BY <2>2 DEF DelRoute
  <2>3. ASSUME NEW n, NEW m, <<n, m>> \in Links, AddRoute(n, m)  PROVE calling' = calling
    BY <2>3 DEF AddRoute
  <2>4. ASSUME NEW n, NEW m, LostIs(n, m)  PROVE \E j, ids : calling' = Fired(j, ids)
    BY <2>4 DEF LostIs
  <2>5. ASSUME NEW k \in Calls, SendCall(k)  PROVE calling' \in [Calls -> {"never", "before", "waiting", "answered"}]
    BY <2>5 DEF SendCall, RoutingTypeOK
  <2>6. \A k : Replied(k) \in [Calls -> {"never", "before", "waiting", "answered"}]
    BY DEF Replied, RoutingTypeOK
  <2>7. calling \in [Calls -> {"never", "before", "waiting", "answered"}]
    BY DEF RoutingTypeOK
  <2>8. CASE \/ \E k \in Calls : SendCall(k)
             \/ \E n, m : <<n, m>> \in Links /\ Passes(n, m)
    BY <2>1, <2>5, <2>6, <2>7, <2>8
  <2>9. CASE \E n, m : <<n, m>> \in Links /\ (AddRoute(n, m) \/ DelRoute(n, m))
    BY <2>2, <2>3, <2>7, <2>9, FiredIs
  <2>10. CASE \E n, m : LostIs(n, m)
    BY <2>4, <2>10, FiredIs
  <2>11. CASE calling' = calling
    BY <2>7, <2>11
  <2> QED  BY <2>8, <2>9, <2>10, <2>11, StepIs
<1>5. below' \in [Links -> SUBSET Contexts]
  <2>1. below \in [Links -> SUBSET Contexts]
    BY DEF RoutingTypeOK
  <2>3. ASSUME NEW n, NEW m, <<n, m>> \in Links, AddRoute(n, m)  PROVE below' \in [Links -> SUBSET Contexts]
    <3>1. Read(n, m).about \in Contexts
      BY <2>3, AddRouteIs DEF AddIs
    <3> DEFINE d == Read(n, m).about
    <3>2. below' = below \/ below' = [below EXCEPT ![<<n, m>>] = @ \cup {d}]
      BY <2>3 DEF AddRoute
    <3>3. d \in Contexts
      BY <3>1
    <3> HIDE DEF d
    <3> QED  BY <2>1, <2>3, <3>2, <3>3
  <2>4. ASSUME NEW n, NEW m, <<n, m>> \in Links, DelRoute(n, m)  PROVE below' \in [Links -> SUBSET Contexts]
    <3>1. Read(n, m).about \in Contexts
      BY <2>4, DelRouteIs
    <3> DEFINE d == Read(n, m).about
    <3>2. below' = below \/ below' = [below EXCEPT ![<<n, m>>] = @ \ {d}]
      BY <2>4 DEF DelRoute
    <3>3. d \in Contexts
      BY <3>1
    <3> HIDE DEF d
    <3> QED  BY <2>1, <2>4, <3>2, <3>3
  <2>5. ASSUME NEW n, NEW m, <<n, m>> \in Links, StreamLost(n, m)  PROVE below' \in [Links -> SUBSET Contexts]
    BY <2>1, <2>5 DEF StreamLost
  <2>6. ASSUME NEW m \in Others, Attach(m)  PROVE below' \in [Links -> SUBSET Contexts]
    <3>1. <<Parent[m], m>> \in Links /\ m \in Contexts /\ below' = [below EXCEPT ![<<Parent[m], m>>] = {m}]
      BY <2>6, LinkIs DEF Attach
    <3> QED  BY <2>1, <3>1
  <2>7. ASSUME NEW n, NEW m, TakeReply(n, m) \/ HandleCall(n, m) \/ Forward(n, m) \/ Bounce(n, m)
        PROVE  below' = below
    BY <2>7 DEF TakeReply, HandleCall, Forward, Bounce
  <2>8. ASSUME NEW n, Departs(n) \/ Cut(n)  PROVE below' = below
    BY <2>8 DEF Departs, Cut
  <2>9. ASSUME NEW k, SendCall(k)  PROVE below' = below
    BY <2>9 DEF SendCall
  <2>10. \A l \in Links : l = <<l[1], l[2]>>
    BY LinkIs
  <2> QED  BY <2>1, <2>3, <2>4, <2>5, <2>6, <2>7, <2>8, <2>9, <2>10 DEF RoutingNext, Handle, Others
<1>6. /\ DOMAIN route' = Contexts
      /\ \A n \in Contexts : DOMAIN route'[n] \subseteq Contexts /\ Range(route'[n]) \subseteq Contexts
  <2>1. DOMAIN route' = Contexts
    <3>1. DOMAIN route = Contexts
      BY DEF RoutingTypeOK
    <3> QED  BY <3>1 DEF RoutingNext, SendCall, Handle, TakeReply, HandleCall, Forward, Bounce, AddRoute,
           DelRoute, StreamLost, Attach, Departs, Cut
  <2>2. \A n \in Contexts : DOMAIN route[n] \subseteq Contexts /\ \A d \in DOMAIN route[n] : route[n][d] \in Contexts
    BY DEF RoutingTypeOK, Range
  <2>3. SUFFICES \A n \in Contexts : /\ DOMAIN route'[n] \subseteq Contexts
                                     /\ \A d \in DOMAIN route'[n] : route'[n][d] \in Contexts
    BY <2>1 DEF Range
  <2>4. ASSUME NEW n \in Contexts, OtherTables(n), DOMAIN route'[n] \subseteq Contexts,
               \A d \in DOMAIN route'[n] : route'[n][d] \in Contexts
        PROVE  \A x \in Contexts : /\ DOMAIN route'[x] \subseteq Contexts
                                   /\ \A d \in DOMAIN route'[x] : route'[x][d] \in Contexts
    BY <2>2, <2>4 DEF OtherTables
  <2>5. CASE route' = route
    BY <2>2, <2>5
  <2>6. ASSUME NEW n, NEW m, <<n, m>> \in Links, AddRoute(n, m)
        PROVE  /\ n \in Contexts /\ OtherTables(n) /\ DOMAIN route'[n] \subseteq Contexts
               /\ \A d \in DOMAIN route'[n] : route'[n][d] \in Contexts
    <3> DEFINE d == Read(n, m).about
    <3>1. AddIs(n, m, d)
      BY <2>6, AddRouteIs
    <3>2. m \in Contexts
      BY <3>1, NotBoth DEF AddIs
    <3> HIDE DEF d
    <3> QED  BY <2>2, <3>1, <3>2 DEF AddIs, OtherStreams
  <2>7. ASSUME NEW n, NEW m, <<n, m>> \in Links, DelRoute(n, m)
        PROVE  /\ n \in Contexts /\ OtherTables(n) /\ DOMAIN route'[n] \subseteq Contexts
               /\ \A d \in DOMAIN route'[n] : route'[n][d] \in Contexts
    <3> DEFINE d == Read(n, m).about
    <3>1. n \in Contexts /\ OtherStreams(n, m) /\ DelIs(n, m, d)
      BY <2>7, DelRouteIs
    <3> HIDE DEF d
    <3> QED  BY <2>2, <3>1 DEF DelIs, OtherStreams, SameRoute
  <2>8. ASSUME NEW n, NEW m, LostIs(n, m)
        PROVE  /\ n \in Contexts /\ OtherTables(n) /\ DOMAIN route'[n] \subseteq Contexts
               /\ \A d \in DOMAIN route'[n] : route'[n][d] \in Contexts
    BY <2>2, <2>8 DEF LostIs, OtherStreams
  <2>9. ASSUME NEW n, NEW m, AttachIs(n, m)
        PROVE  /\ n \in Contexts /\ OtherTables(n) /\ DOMAIN route'[n] \subseteq Contexts
               /\ \A d \in DOMAIN route'[n] : route'[n][d] \in Contexts
    BY <2>2, <2>9 DEF AttachIs, OtherStreams
  <2> QED  BY <2>4, <2>5, <2>6, <2>7, <2>8, <2>9, StepIs
<1> QED  BY <1>1, <1>2, <1>3, <1>4, <1>5, <1>6 DEF RoutingTypeOK

LEMMA StreamsStep ==
    ASSUME RoutingTypeOK, StreamsInv, MessagesIn(flight), TablesInv, RoutingNext
    PROVE  StreamsInv' /\ cut \subseteq cut'
<1>0. joined \subseteq Links /\ cut \subseteq Links
  BY DEF RoutingTypeOK
<1>1. CASE Stays
  BY <1>1 DEF Stays, StreamsInv
<1>2. ASSUME NEW n, NEW m, <<n, m>> \in Links, LostIs(n, m), present' = present, cut' = cut
      PROVE  StreamsInv' /\ cut \subseteq cut'
  <2>1. /\ joined' = joined \ {<<n, m>>} /\ <<n, m>> \in cut /\ <<m, n>> \in cut
        /\ n \notin Children(m) /\ m \in Children(n)
    BY <1>2, NotBoth DEF LostIs
  <2>2. \A x \in Others : <<x, Parent[x]>> # <<n, m>>
    BY <2>1, ParentIs
  <2>3. \A l \in joined' \ cut' : l[2] \in present' /\ <<l[2], l[1]>> \in joined'
    <3> SUFFICES ASSUME NEW l \in joined' \ cut'  PROVE l[2] \in present' /\ <<l[2], l[1]>> \in joined'
      OBVIOUS
    <3>1. l \in joined \ cut /\ l = <<l[1], l[2]>>
      BY <1>2, <2>1, <1>0, LinkIs
    <3>2. l[2] \in present /\ <<l[2], l[1]>> \in joined
      BY <3>1 DEF StreamsInv
    <3>3. <<l[2], l[1]>> # <<n, m>>
      BY <1>2, <2>1, <3>1
    <3> QED  BY <1>2, <2>1, <3>2, <3>3
  <2> QED  BY <1>2, <2>1, <2>2, <2>3 DEF StreamsInv
<1>3. ASSUME NEW m \in Others, AttachIs(Parent[m], m), cut' = cut  PROVE StreamsInv' /\ cut \subseteq cut'
  BY <1>3 DEF StreamsInv, AttachIs
<1>4. ASSUME NEW n \in Others, Departs(n)  PROVE StreamsInv' /\ cut \subseteq cut'
  <2>1. /\ present' = present \ {n} /\ joined' = {l \in joined : l[1] # n}
        /\ cut' = cut \cup {l \in Links : n \in {l[1], l[2]}}
    BY <1>4 DEF Departs
  <2>2. \A l \in cut' : <<l[2], l[1]>> \in cut'
    BY <2>1, <1>0, LinkIs DEF StreamsInv
  <2>3. \A l \in joined' : l[1] \in present'
    BY <2>1 DEF StreamsInv
  <2>4. \A l \in joined' \ cut' : l[2] \in present' /\ <<l[2], l[1]>> \in joined'
    <3> SUFFICES ASSUME NEW l \in joined' \ cut'  PROVE l[2] \in present' /\ <<l[2], l[1]>> \in joined'
      OBVIOUS
    <3>1. l \in joined \ cut /\ l \in Links /\ l[2] # n
      BY <2>1, <1>0
    <3>2. l[2] \in present /\ <<l[2], l[1]>> \in joined
      BY <3>1 DEF StreamsInv
    <3> QED  BY <2>1, <3>1, <3>2
  <2>5. \A x \in present' \cap Others : <<x, Parent[x]>> \in joined'
    BY <2>1 DEF StreamsInv
  <2>6. Root \in present' /\ cut \subseteq cut'
    BY <2>1 DEF StreamsInv, Others
  <2> QED  BY <2>2, <2>3, <2>4, <2>5, <2>6 DEF StreamsInv
<1>5. ASSUME NEW n \in Others, Cut(n)  PROVE StreamsInv' /\ cut \subseteq cut'
  BY <1>5 DEF Cut, StreamsInv
<1> QED  BY <1>1, <1>2, <1>3, <1>4, <1>5, StepIs

\* Cuts remain, and so does what is said of them.
LEMMA CutGrows == ASSUME cut \subseteq cut', NEW m, NEW d, CutBelow(m, d)  PROVE CutBelow(m, d)'
BY DEF CutBelow

LEMMA MessagesGrow == ASSUME cut \subseteq cut', MessagesIn(flight')  PROVE (MessagesIn(flight))'
<1>1. ASSUME NEW m, NEW msg, UpOK(msg, m)  PROVE UpOK(msg, m)'
  BY <1>1, CutGrows DEF UpOK
<1>2. ASSUME NEW m, NEW msg, DownOK(msg, m)  PROVE DownOK(msg, m)'
  BY <1>2 DEF DownOK
<1> QED  BY <1>1, <1>2 DEF MessagesIn

LEMMA SameTables ==
    ASSUME RoutingTypeOK, NEW x \in Contexts, TablesOf(x), route'[x] = route[x],
           \A l \in Links : l[1] = x => below'[l] = below[l],
           \A m \in Children(x) : <<x, m>> \in joined' <=> <<x, m>> \in joined
    PROVE  TablesOf(x)'
<1>1. \A m \in Children(x) : below'[<<x, m>>] = below[<<x, m>>]
  <2>1. \A m \in Children(x) : <<x, m>> \in Links
    BY ParentIs, LinkIs
  <2> QED  BY <2>1
<1> QED  BY <1>1 DEF TablesOf

LEMMA TablesStep ==
    ASSUME RoutingTypeOK, StreamsInv, MessagesIn(flight), FreshInv, TablesInv, RoutingNext  PROVE TablesInv'
<1>0. present \subseteq Contexts /\ joined \subseteq Links /\ \A x \in Contexts : \A m \in Children(x) : <<x, m>> \in Links
  BY ParentIs, LinkIs DEF RoutingTypeOK
<1>1. CASE Stays /\ UNCHANGED <<route, below>>
  BY <1>1 DEF Stays, TablesInv, TablesOf
<1>2. ASSUME NEW n \in present, OtherTables(n), TablesOf(n)', present' \subseteq present,
             \A x \in present' \ {n} : \A m \in Children(x) : <<x, m>> \in joined' <=> <<x, m>> \in joined
      PROVE  TablesInv'
  <2>1. ASSUME NEW x \in present', x # n  PROVE TablesOf(x)'
    <3>1. x \in Contexts /\ TablesOf(x) /\ route'[x] = route[x]
      BY <1>0, <1>2, <2>1 DEF TablesInv, OtherTables
    <3>2. \A l \in Links : l[1] = x => below'[l] = below[l]
      BY <1>2, <2>1 DEF OtherTables
    <3> QED  BY <1>2, <2>1, <3>1, <3>2, SameTables
  <2> QED  BY <1>2, <2>1 DEF TablesInv
<1>3. ASSUME NEW n, NEW m, <<n, m>> \in Links, AddRoute(n, m), Stays  PROVE TablesInv'
  <2> DEFINE d == Read(n, m).about
  <2>1. AddIs(n, m, d) /\ n \in present /\ <<n, m>> \in joined /\ n \in Contexts
    BY <1>0, <1>3, AddRouteIs DEF Reads
  <2> HIDE DEF d
  <2>2. /\ m \in Children(n) /\ OtherStreams(n, m) /\ joined' = joined /\ present' = present
        /\ \A c \in Children(n) : c # m => below'[<<n, c>>] = below[<<n, c>>]
    BY <1>0, <1>3, <2>1 DEF AddIs, Stays, OtherStreams
  <2>3. TablesOf(n)
    BY <2>1 DEF TablesInv
  <2>4. \A e \in DOMAIN route'[n] : route'[n][e] \in Children(n) /\ e \in below'[<<n, route'[n][e]>>]
    BY <2>1, <2>2, <2>3 DEF TablesOf, AddIs
  <2>5. \A c \in Children(n) : \A e \in below'[<<n, c>>] :
          e \in DOMAIN route'[n] /\ route'[n][e] = c /\ <<n, c>> \in joined' /\ Under(c, e)
    BY <2>1, <2>2, <2>3 DEF TablesOf, AddIs
  <2>6. \A c \in Children(n) : <<n, c>> \in joined' => c \in below'[<<n, c>>]
    BY <2>1, <2>2, <2>3 DEF TablesOf, AddIs
  <2>7. TablesOf(n)'
    BY <2>4, <2>5, <2>6 DEF TablesOf
  <2> QED  BY <1>2, <2>1, <2>2, <2>7 DEF OtherStreams
<1>4. ASSUME NEW n, NEW m, <<n, m>> \in Links, DelRoute(n, m), Stays  PROVE TablesInv'
  <2> DEFINE d == Read(n, m).about
  <2>1. n \in present /\ <<n, m>> \in joined /\ n \in Contexts /\ DelIs(n, m, d) /\ OtherStreams(n, m)
    BY <1>0, <1>4, DelRouteIs DEF Reads
  <2> HIDE DEF d
  <2>2. joined' = joined /\ present' = present
        /\ \A c \in Children(n) : c # m => below'[<<n, c>>] = below[<<n, c>>]
    BY <1>0, <1>4, <2>1 DEF Stays, OtherStreams
  <2>3. TablesOf(n)
    BY <2>1 DEF TablesInv
  <2>4. CASE m \notin Children(n) \/ (route' = route /\ below' = below)
    <3>1. SameRoute(n) /\ \A c \in Children(n) : below'[<<n, c>>] = below[<<n, c>>]
      BY <2>1, <2>2, <2>4 DEF DelIs, SameRoute
    <3>2. TablesOf(n)'
      BY <2>2, <2>3, <3>1 DEF TablesOf, SameRoute
    <3> QED  BY <1>2, <2>1, <2>2, <3>2 DEF OtherStreams
  <2>5. CASE m \in Children(n) /\ ~(route' = route /\ below' = below)
    <3>0. ~(n \in Others /\ m = Parent[n])
      BY <2>5, NotBoth DEF ParentOf, Others
    <3>1. /\ m \in Children(n) /\ d \in DOMAIN route[n] /\ route[n][d] = m /\ Under(m, d) /\ d # m
          /\ DOMAIN route'[n] = DOMAIN route[n] \ {d} /\ \A e \in DOMAIN route'[n] : route'[n][e] = route[n][e]
          /\ below'[<<n, m>>] = below[<<n, m>>] \ {d}
      BY <2>1, <2>5, <3>0 DEF DelIs
    <3>4. \A e \in DOMAIN route'[n] : route'[n][e] \in Children(n) /\ e \in below'[<<n, route'[n][e]>>]
      BY <2>2, <2>3, <3>1 DEF TablesOf
    <3>5. \A c \in Children(n) : \A e \in below'[<<n, c>>] :
            e \in DOMAIN route'[n] /\ route'[n][e] = c /\ <<n, c>> \in joined' /\ Under(c, e)
      BY <2>2, <2>3, <3>1 DEF TablesOf
    <3>6. \A c \in Children(n) : <<n, c>> \in joined' => c \in below'[<<n, c>>]
      BY <2>2, <2>3, <3>1 DEF TablesOf
    <3>7. TablesOf(n)'
      BY <3>4, <3>5, <3>6 DEF TablesOf
    <3> QED  BY <1>2, <2>1, <2>2, <3>7 DEF OtherStreams
  <2> QED  BY <2>4, <2>5
<1>5. ASSUME NEW n, NEW m, <<n, m>> \in Links, LostIs(n, m), present' = present  PROVE TablesInv'
  <2>1. n \in present /\ n \in Contexts /\ m \in Children(n) /\ OtherStreams(n, m) /\ joined' = joined \ {<<n, m>>}
    BY <1>5 DEF LostIs
  <2>2. \A c \in Children(n) : c # m => below'[<<n, c>>] = below[<<n, c>>]
    BY <1>0, <2>1 DEF OtherStreams
  <2>3. TablesOf(n)
    BY <2>1 DEF TablesInv
  <2> DEFINE ids == below[<<n, m>>]
  <2>4. /\ DOMAIN route'[n] = DOMAIN route[n] \ ids
        /\ \A e \in DOMAIN route'[n] : route'[n][e] = route[n][e] /\ route[n][e] # m
        /\ below'[<<n, m>>] = {}
    BY <1>5 DEF LostIs
  <2>5. \A e \in DOMAIN route[n] : e \in ids => route[n][e] = m
    BY <2>1, <2>3 DEF TablesOf
  <2> HIDE DEF ids
  <2>6. \A e \in DOMAIN route'[n] : route'[n][e] \in Children(n) /\ e \in below'[<<n, route'[n][e]>>]
    BY <2>2, <2>3, <2>4 DEF TablesOf
  <2>7. \A c \in Children(n) : \A e \in below'[<<n, c>>] :
          e \in DOMAIN route'[n] /\ route'[n][e] = c /\ <<n, c>> \in joined' /\ Under(c, e)
    BY <2>1, <2>2, <2>3, <2>4, <2>5 DEF TablesOf
  <2>8. \A c \in Children(n) : <<n, c>> \in joined' => c \in below'[<<n, c>>]
    BY <2>1, <2>2, <2>3, <2>4 DEF TablesOf
  <2>9. TablesOf(n)'
    BY <2>6, <2>7, <2>8 DEF TablesOf
  <2> QED  BY <1>2, <1>5, <2>1, <2>9 DEF OtherStreams
<1>6. ASSUME NEW m \in Others, AttachIs(Parent[m], m)  PROVE TablesInv'
  <2> DEFINE n == Parent[m]
  <2>1. /\ n \in present /\ n \in Contexts /\ m \in Children(n) /\ m \in Contexts /\ OtherStreams(n, m)
        /\ joined' = joined \cup {<<n, m>>, <<m, n>>}
        /\ m \notin present /\ present' = present \cup {m} /\ <<m, n>> \notin cut /\ <<n, m>> \notin cut
        /\ DOMAIN route'[n] = DOMAIN route[n] \cup {m} /\ route'[n][m] = m
        /\ \A e \in DOMAIN route[n] : e # m => route'[n][e] = route[n][e]
        /\ below'[<<n, m>>] = {m}
    BY <1>6 DEF AttachIs
  <2> HIDE DEF n
  <2>2. \A c \in Children(n) : c # m => below'[<<n, c>>] = below[<<n, c>>]
    BY <1>0, <2>1 DEF OtherStreams
  <2>3. TablesOf(n)
    BY <2>1 DEF TablesInv
  <2>4. <<n, m>> \notin joined /\ \A e \in DOMAIN route[n] : route[n][e] # m
    BY <2>1, <2>3 DEF TablesOf, StreamsInv
  <2>5. \A c \in Children(n) : c # m => m \notin below[<<n, c>>]
    BY <2>1, <2>3, OneChildAbove, UnderSelf DEF TablesOf
  <2>6. \A e \in DOMAIN route'[n] : route'[n][e] \in Children(n) /\ e \in below'[<<n, route'[n][e]>>]
    BY <2>1, <2>2, <2>3, <2>4 DEF TablesOf
  <2>7. \A c \in Children(n) : \A e \in below'[<<n, c>>] :
          e \in DOMAIN route'[n] /\ route'[n][e] = c /\ <<n, c>> \in joined' /\ Under(c, e)
    BY <2>1, <2>2, <2>3, <2>5, UnderSelf DEF TablesOf
  <2>8. \A c \in Children(n) : <<n, c>> \in joined' => c \in below'[<<n, c>>]
    BY <2>1, <2>2, <2>3, NotBoth DEF TablesOf
  <2>9. TablesOf(n)'
    BY <2>6, <2>7, <2>8 DEF TablesOf
  <2>10. m # n /\ n \notin Children(m)
    BY <2>1, NotBoth
  <2>11. TablesOf(m)'
    <3>1. DOMAIN route'[m] = {} /\ \A c \in Children(m) : below'[<<m, c>>] = {}
      <4>1. DOMAIN route[m] = {} /\ \A c \in Children(m) : below[<<m, c>>] = {}
        BY <2>1 DEF FreshInv, n
      <4> QED  BY <1>0, <2>1, <2>10, <4>1 DEF OtherStreams, OtherTables
    <3>2. \A c \in Children(m) : <<m, c>> \notin joined'
      BY <2>1, <2>10 DEF StreamsInv
    <3> QED  BY <3>1, <3>2 DEF TablesOf
  <2>12. ASSUME NEW x \in present, x # n  PROVE TablesOf(x)'
    <3>1. x \in Contexts /\ TablesOf(x) /\ route'[x] = route[x] /\ x # m
      BY <1>0, <2>1, <2>12 DEF TablesInv, OtherStreams, OtherTables
    <3>2. \A l \in Links : l[1] = x => below'[l] = below[l]
      BY <2>1, <2>12 DEF OtherStreams, OtherTables
    <3>3. \A c \in Children(x) : <<x, c>> \in joined' <=> <<x, c>> \in joined
      BY <2>1, <2>12, <3>1
    <3> QED  BY <3>1, <3>2, <3>3, SameTables
  <2> QED  BY <2>1, <2>9, <2>11, <2>12 DEF TablesInv
<1>7. ASSUME NEW n \in Others, Departs(n) \/ Cut(n), UNCHANGED <<route, below>>  PROVE TablesInv'
  <2>1. present' \subseteq present /\ joined' \subseteq joined /\ \A l \in joined : l[1] \in present' => l \in joined'
    BY <1>7 DEF Departs, Cut
  <2>2. ASSUME NEW x \in present'  PROVE TablesOf(x)'
    <3>1. x \in Contexts /\ TablesOf(x)
      BY <1>0, <2>1, <2>2 DEF TablesInv
    <3>2. \A c \in Children(x) : <<x, c>> \in joined' <=> <<x, c>> \in joined
      BY <2>1, <2>2
    <3> QED  BY <1>7, <3>1, <3>2, SameTables
  <2> QED  BY <2>2 DEF TablesInv
<1> QED  BY <1>1, <1>3, <1>4, <1>5, <1>6, <1>7, StepIs

\* What a context that does not run is not sent, and what it does not send.
LEMMA EmptyStays ==
    ASSUME RoutingTypeOK, StreamsInv, MessagesIn(flight), TablesInv, RoutingNext,
           NEW l \in Links, flight[l] = <<>>, l[1] \notin present \/ l[2] \notin present
    PROVE  flight'[l] = <<>>
<1>0. l = <<l[1], l[2]>>
  BY LinkIs
<1>1. ASSUME NEW n \in present, NEW Q, NEW O, Q[l] = <<>>  PROVE Sent(n, Q, O)[l] = <<>>
  <2>1. ~(l[1] = n /\ Reaches(l))
    BY DEF Reaches
  <2> QED  BY <1>1, <2>1 DEF Sent
<1>2. ASSUME NEW n, NEW m, <<n, m>> \in Links, Reads(n, m)  PROVE n \in present /\ Unread(n, m)[l] = <<>>
  <2>1. <<m, n>> # l /\ <<m, n>> \in Links
    BY <1>2, LinkIs DEF Reads
  <2>2. Unread(n, m)[l] = flight[l]
    BY <2>1 DEF Unread, RoutingTypeOK
  <2> QED  BY <1>2, <2>2 DEF Reads
<1>3. ASSUME NEW k \in Calls, SendCall(k)  PROVE flight'[l] = <<>>
  BY <1>1, <1>3 DEF SendCall
<1>4. ASSUME NEW n, NEW m, <<n, m>> \in Links, Passes(n, m)  PROVE flight'[l] = <<>>
  BY <1>1, <1>2, <1>4 DEF Passes, TakeReply, HandleCall, Forward, Bounce
<1>5. ASSUME NEW n, NEW m, <<n, m>> \in Links, AddRoute(n, m)  PROVE flight'[l] = <<>>
  BY <1>1, <1>2, <1>5 DEF AddRoute
<1>6. ASSUME NEW n, NEW m, <<n, m>> \in Links, DelRoute(n, m)  PROVE flight'[l] = <<>>
  <2> DEFINE d == Read(n, m).about
             F == Sent(n, Unread(n, m), Down(n, {d}))
  <2>1. Reads(n, m) /\ (flight' = Unread(n, m) \/ flight' = F \/ flight' = Sent(n, F, Up(n, "del", {d})))
    BY <1>6 DEF DelRoute
  <2>2. F[l] = <<>>
    BY <1>1, <1>2, <1>6, <2>1
  <2> HIDE DEF F
  <2> QED  BY <1>1, <1>2, <1>6, <2>1, <2>2
<1>7. ASSUME NEW n, NEW m, <<n, m>> \in Links, LostIs(n, m)  PROVE flight'[l] = <<>>
  <2> DEFINE ids == below[<<n, m>>]
             F == Sent(n, flight, Up(n, "del", ids))
             G == Sent(n, F, Down(n, ids))
  <2>1. n \in present /\ flight' = [G EXCEPT ![<<m, n>>] = <<>>]
    BY <1>7 DEF LostIs
  <2>2. F[l] = <<>>
    BY <1>1, <2>1
  <2> HIDE DEF F
  <2>3. G[l] = <<>> /\ DOMAIN G = Links
    BY <1>1, <2>1, <2>2 DEF Sent
  <2> HIDE DEF G
  <2> QED  BY <2>1, <2>3
<1>8. ASSUME NEW n, NEW m, AttachIs(n, m)  PROVE flight'[l] = <<>>
  BY <1>1, <1>8 DEF AttachIs
<1> QED  BY <1>3, <1>4, <1>5, <1>6, <1>7, <1>8, StepIs

LEMMA FreshStep ==
    ASSUME RoutingTypeOK, StreamsInv, MessagesIn(flight), FreshInv, TablesInv, RoutingNext  PROVE FreshInv'
<1> SUFFICES ASSUME NEW m \in Others, m \notin present', <<m, Parent[m]>> \notin cut'
             PROVE  /\ DOMAIN route'[m] = {} /\ \A c \in Children(m) : below'[<<m, c>>] = {}
                    /\ flight'[<<m, Parent[m]>>] = <<>> /\ flight'[<<Parent[m], m>>] = <<>>
  BY DEF FreshInv
<1>0. m \in Contexts /\ <<m, Parent[m]>> \in Links /\ <<Parent[m], m>> \in Links
      /\ \A c \in Children(m) : <<m, c>> \in Links
  BY LinkIs, ParentIs
<1>1. <<m, Parent[m]>> \notin cut
  BY StreamsStep
<1>2. m \notin present
  <2>1. \A n \in Others : Departs(n) => present' = present \ {n} /\ <<n, Parent[n]>> \in cut'
    BY LinkIs DEF Departs
  <2>2. \A n \in Others : Cut(n) => present' = present
    BY DEF Cut
  <2> QED  BY <2>1, <2>2, StepIs DEF Stays, AttachIs
<1>3. /\ DOMAIN route[m] = {} /\ \A c \in Children(m) : below[<<m, c>>] = {}
      /\ flight[<<m, Parent[m]>>] = <<>> /\ flight[<<Parent[m], m>>] = <<>>
  BY <1>1, <1>2 DEF FreshInv
<1>4. flight'[<<m, Parent[m]>>] = <<>> /\ flight'[<<Parent[m], m>>] = <<>>
  BY <1>0, <1>2, <1>3, EmptyStays
<1>5. ASSUME NEW n \in present, OtherTables(n)
      PROVE  route'[m] = route[m] /\ \A c \in Children(m) : below'[<<m, c>>] = below[<<m, c>>]
  BY <1>0, <1>2, <1>5 DEF OtherTables
<1>6. route'[m] = route[m] /\ \A c \in Children(m) : below'[<<m, c>>] = below[<<m, c>>]
  <2>1. ASSUME NEW n, NEW x, <<n, x>> \in Links, AddRoute(n, x) \/ DelRoute(n, x)  PROVE n \in present /\ OtherTables(n)
    BY <2>1, AddRouteIs, DelRouteIs DEF AddIs, OtherStreams, Reads
  <2>2. ASSUME NEW n, NEW x, LostIs(n, x) \/ AttachIs(n, x)  PROVE n \in present /\ OtherTables(n)
    BY <2>2 DEF LostIs, AttachIs, OtherStreams
  <2> QED  BY <1>5, <2>1, <2>2, StepIs
<1> QED  BY <1>3, <1>4, <1>6

----------------------------------------------------------------------------
(* What a parent believes is what its child knows.                         *)

StillOpen(m) == <<Parent[m], m>> \in joined' \ cut' => <<Parent[m], m>> \in joined \ cut

LEMMA BelievedSame ==
    ASSUME NEW m \in Others, BelievedOf(m), StillOpen(m), DOMAIN route'[m] = DOMAIN route[m],
           below'[<<Parent[m], m>>] = below[<<Parent[m], m>>],
           flight'[<<m, Parent[m]>>] = flight[<<m, Parent[m]>>]
    PROVE  BelievedOf(m)'
BY DEF BelievedOf, StillOpen

LEMMA BelievedAfterRead ==
    ASSUME RoutingTypeOK, NEW m \in Others, BelievedOf(m), StillOpen(m), DOMAIN route'[m] = DOMAIN route[m],
           flight[<<m, Parent[m]>>] # <<>>,
           below'[<<Parent[m], m>>] = After(below[<<Parent[m], m>>], Head(flight[<<m, Parent[m]>>])),
           flight'[<<m, Parent[m]>>] = Tail(flight[<<m, Parent[m]>>])
    PROVE  BelievedOf(m)'
<1> DEFINE q == flight[<<m, Parent[m]>>]
           B == below[<<Parent[m], m>>]
<1>1. q \in Seq(Messages)
  BY LinkIs DEF RoutingTypeOK
<1>2. Len(q) \in Nat /\ Len(q) \in 1..Len(q) /\ Len(Tail(q)) = Len(q) - 1
  BY <1>1
<1> HIDE DEF q
<1>3. \A d : Believes(After(B, Head(q)), Tail(q), d, Len(q) - 1) <=> Believes(B, q, d, Len(q))
  BY <1>1, <1>2, BelievesRead DEF q
<1>4. \A d : Believes(After(B, Head(q)), Tail(q), d, Len(Tail(q))) <=> Believes(B, q, d, Len(q))
  BY <1>2, <1>3
<1> HIDE DEF B
<1>5. below'[<<Parent[m], m>>] = After(B, Head(q)) /\ flight'[<<m, Parent[m]>>] = Tail(q)
  BY DEF B, q
<1>6. <<Parent[m], m>> \in joined \ cut =>
        \A d \in Contexts : (d = m \/ d \in DOMAIN route[m]) <=> Believes(B, q, d, Len(q))
  BY DEF BelievedOf, B, q
<1>7. <<Parent[m], m>> \in joined' \ cut' =>
        \A d \in Contexts : (d = m \/ d \in DOMAIN route'[m])
                            <=> Believes(below'[<<Parent[m], m>>], Tail(q), d, Len(Tail(q)))
  BY <1>4, <1>5, <1>6 DEF StillOpen
<1> QED  BY <1>5, <1>7 DEF BelievedOf

\* The child tells of all that it learns, and of nothing else.
Tells(m, s) ==
    \A d \in Contexts :
        \/ /\ \A msg \in Range(s) : ~IsAdd(msg, d) /\ ~IsDel(msg, d)
           /\ d \in DOMAIN route'[m] <=> d \in DOMAIN route[m]
        \/ /\ \A msg \in Range(s) : ~IsDel(msg, d)
           /\ \E msg \in Range(s) : IsAdd(msg, d)
           /\ d \in DOMAIN route'[m]
        \/ /\ \A msg \in Range(s) : ~IsAdd(msg, d)
           /\ \E msg \in Range(s) : IsDel(msg, d)
           /\ d # m /\ d \notin DOMAIN route'[m]

LEMMA BelievedAfterWrite ==
    ASSUME RoutingTypeOK, NEW m \in Others, BelievedOf(m), StillOpen(m), NEW s \in Seq(Messages), Tells(m, s),
           below'[<<Parent[m], m>>] = below[<<Parent[m], m>>],
           flight'[<<m, Parent[m]>>] = flight[<<m, Parent[m]>>] \o s
    PROVE  BelievedOf(m)'
<1> DEFINE q == flight[<<m, Parent[m]>>]
           B == below[<<Parent[m], m>>]
           z == q \o s
<1>1. q \in Seq(Messages)
  BY LinkIs DEF RoutingTypeOK
<1>2. \A i \in 1..Len(s) : s[i] \in Range(s)
  BY DEF Range
<1>3. \A msg \in Range(s) : \E i \in 1..Len(s) : s[i] = msg
  BY DEF Range
<1> HIDE DEF q, B
<1>4. SUFFICES ASSUME <<Parent[m], m>> \in joined' \ cut', NEW d \in Contexts
               PROVE  (d = m \/ d \in DOMAIN route'[m]) <=> Believes(B, z, d, Len(z))
  BY DEF BelievedOf, q, B
<1>5. (d = m \/ d \in DOMAIN route[m]) <=> Believes(B, q, d, Len(q))
  BY <1>4 DEF BelievedOf, StillOpen, q, B
<1>6. CASE /\ \A msg \in Range(s) : ~IsAdd(msg, d) /\ ~IsDel(msg, d)
           /\ d \in DOMAIN route'[m] <=> d \in DOMAIN route[m]
  <2>1. \A i \in 1..Len(s) : ~IsAdd(s[i], d) /\ ~IsDel(s[i], d)
    BY <1>2, <1>6
  <2>2. Believes(B, z, d, Len(z)) <=> Believes(B, q, d, Len(q))
    BY <1>1, <2>1, BelievesOther
  <2> QED  BY <1>5, <1>6, <2>2
<1>7. CASE /\ \A msg \in Range(s) : ~IsDel(msg, d)
           /\ \E msg \in Range(s) : IsAdd(msg, d)
           /\ d \in DOMAIN route'[m]
  <2>1. \A i \in 1..Len(s) : ~IsDel(s[i], d)
    BY <1>2, <1>7
  <2>2. PICK k \in 1..Len(s) : IsAdd(s[k], d)
    BY <1>3, <1>7
  <2>3. Believes(B, z, d, Len(z))
    BY <1>1, <2>1, <2>2, BelievesAdded
  <2> QED  BY <1>7, <2>3
<1>8. CASE /\ \A msg \in Range(s) : ~IsAdd(msg, d)
           /\ \E msg \in Range(s) : IsDel(msg, d)
           /\ d # m /\ d \notin DOMAIN route'[m]
  <2>1. \A i \in 1..Len(s) : ~IsAdd(s[i], d)
    BY <1>2, <1>8
  <2>2. PICK k \in 1..Len(s) : IsDel(s[k], d)
    BY <1>3, <1>8
  <2>3. ~Believes(B, z, d, Len(z))
    BY <1>1, <2>1, <2>2, BelievesDeleted
  <2> QED  BY <1>8, <2>3
<1> QED  BY <1>6, <1>7, <1>8 DEF Tells

\* What a context has a route to runs below it.
LEMMA KnownIsBelow ==
    ASSUME TablesInv, RoutingTypeOK, NEW n \in present, NEW d \in DOMAIN route[n]
    PROVE  /\ n \in Contexts /\ d \in Contexts /\ Under(n, d) /\ d # n
           /\ route[n][d] \in Children(n) /\ Under(route[n][d], d) /\ d \in below[<<n, route[n][d]>>]
           /\ <<n, route[n][d]>> \in joined
<1>1. n \in Contexts /\ d \in Contexts
  BY DEF RoutingTypeOK
<1>2. route[n][d] \in Children(n) /\ d \in below[<<n, route[n][d]>>] /\ Under(route[n][d], d)
      /\ <<n, route[n][d]>> \in joined
  BY DEF TablesInv, TablesOf
<1> QED  BY <1>1, <1>2, AboutChild

LEMMA NewsVerified ==
    ASSUME RoutingTypeOK, MessagesIn(flight), TablesInv, NEW n, NEW m, <<n, m>> \in Links, Reads(n, m),
           Read(n, m).kind \in {"add", "del"}
    PROVE  Verified(n, m) /\ Read(n, m).dst = n
<1>1. n \in present /\ <<n, m>> \in joined /\ n \in Contexts
  BY DEF Reads, RoutingTypeOK
<1>2. Read(n, m).src = m /\ Read(n, m).dst = n
  BY ReadNews
<1>3. CASE m \in Children(n)
  <2>1. m \in DOMAIN route[n] /\ route[n][m] = m
    BY <1>1, <1>3 DEF TablesInv, TablesOf
  <2> QED  BY <1>2, <2>1 DEF Verified, StreamById
<1>4. CASE n \in Others /\ m = Parent[n]
  <2>1. m \notin DOMAIN route[n]
    BY <1>1, <1>4, KnownIsBelow, NotUnderChild
  <2>2. HasParent(n)
    BY <1>1, <1>4 DEF HasParent, Others
  <2> QED  BY <1>2, <1>4, <2>1, <2>2 DEF Verified, StreamById
<1>5. m \in Children(n) \/ (n \in Others /\ m = Parent[n])
  BY LinkIs
<1> QED  BY <1>2, <1>3, <1>4, <1>5

LEMMA NothingJoined == ASSUME NEW q \in Seq(Messages)  PROVE q \o <<>> = q /\ <<>> \in Seq(Messages) /\ Range(<<>>) = {}
BY EmptyIs

CallsOnly(s) == s \in Seq(Messages) /\ \A msg \in Range(s) : OfCall(msg)
Grows(l, q) == \E s : CallsOnly(s) /\ flight'[l] = q \o s

\* What passes through n, and what n says of calls.
LEMMA CallsPass ==
    ASSUME NEW n \in Contexts, NEW Q \in Flights, NEW O \in Writing, \A y \in Contexts : CallsOnly(O[y]),
           flight' = Sent(n, Q, O), NEW l \in Links
    PROVE  Grows(l, Q[l]) /\ (l[1] # n => flight'[l] = Q[l])
<1>1. Q[l] \in Seq(Messages) /\ l[2] \in Contexts
  BY LinkIs DEF Flights
<1>2. CASE l[1] = n /\ Reaches(l)
  <2>1. flight'[l] = Q[l] \o O[l[2]]
    BY <1>2 DEF Sent
  <2> QED  BY <1>1, <1>2, <2>1 DEF Grows
<1>3. CASE ~(l[1] = n /\ Reaches(l))
  <2>1. flight'[l] = Q[l]
    BY <1>3 DEF Sent
  <2>2. CallsOnly(<<>>) /\ flight'[l] = Q[l] \o <<>>
    BY <1>1, <2>1, NothingJoined DEF CallsOnly
  <2> QED  BY <1>1, <2>1, <2>2 DEF Grows
<1> QED  BY <1>2, <1>3

LEMMA OnlyCalls ==
    ASSUME NEW x, NEW msg \in Messages, OfCall(msg)
    PROVE  Only(x, msg) \in Writing /\ \A y \in Contexts : CallsOnly(Only(x, msg)[y])
<1>1. Only(x, msg) \in Writing /\ \A y \in Contexts : Range(Only(x, msg)[y]) = IF y = x THEN {msg} ELSE {}
  BY OnlyIs
<1>2. \A y \in Contexts : Only(x, msg)[y] \in Seq(Messages)
  BY <1>1 DEF Writing
<1>3. \A y \in Contexts : \A z \in Range(Only(x, msg)[y]) : z = msg
  BY <1>1
<1> QED  BY <1>1, <1>2, <1>3 DEF CallsOnly

LEMMA PassesFlow ==
    ASSUME RoutingTypeOK, MessagesIn(flight), TablesInv, NEW n, NEW m, <<n, m>> \in Links, Passes(n, m)
    PROVE  /\ Reads(n, m) /\ OfCall(Read(n, m)) /\ Read(n, m) \in Messages /\ n \in Contexts
           /\ \A l \in Links : /\ Grows(l, Unread(n, m)[l])
                               /\ l[1] # n => flight'[l] = Unread(n, m)[l]
<1>1. Reads(n, m)
  BY DEF Passes, TakeReply, HandleCall, Forward, Bounce
<1>2. /\ Unread(n, m) \in Flights /\ Read(n, m) \in Messages /\ n \in Contexts
      /\ Read(n, m).kind \in {"call", "reply", "dead", "add", "del"}
  BY <1>1, ReadIs DEF Messages
<1>3. Read(n, m).kind \notin {"add", "del"}
  <2> SUFFICES ASSUME Read(n, m).kind \in {"add", "del"}  PROVE FALSE
    OBVIOUS
  <2>1. Verified(n, m) /\ Read(n, m).dst = n
    BY <1>1, NewsVerified
  <2> QED  BY <2>1 DEF Passes, TakeReply, HandleCall, Forward, Bounce
<1>4. OfCall(Read(n, m))
  BY <1>1, <1>2, <1>3, ReadCall
<1>5. \/ flight' = Unread(n, m)
      \/ flight' = Sent(n, Unread(n, m), Only(Onward(n, m), Read(n, m)))
      \/ /\ Read(n, m).kind = "call"
         /\ \E kind \in {"reply", "dead"} :
                flight' = Sent(n, Unread(n, m), ReplyTo(n, kind, Read(n, m).src, Read(n, m).about))
  BY DEF Passes, TakeReply, HandleCall, Forward, Bounce
<1> DEFINE Q == Unread(n, m)
<1>6. Q \in Flights
  BY <1>2
<1> HIDE DEF Q
<1>7. \A l \in Links : Grows(l, Q[l]) /\ (l[1] # n => flight'[l] = Q[l])
  <2>1. CASE flight' = Q
    <3>1. \A l \in Links : Q[l] \in Seq(Messages) /\ flight'[l] = Q[l]
      BY <1>6, <2>1 DEF Flights
    <3>2. \A l \in Links : flight'[l] = Q[l] \o <<>>
      BY <3>1, NothingJoined
    <3>3. CallsOnly(<<>>)
      BY EmptyIs DEF CallsOnly
    <3> QED  BY <3>1, <3>2, <3>3 DEF Grows
  <2>2. CASE flight' = Sent(n, Q, Only(Onward(n, m), Read(n, m)))
    BY <1>2, <1>4, <1>6, <2>2, OnlyCalls, CallsPass
  <2>3. ASSUME Read(n, m).kind = "call", NEW kind \in {"reply", "dead"},
               flight' = Sent(n, Q, ReplyTo(n, kind, Read(n, m).src, Read(n, m).about))
        PROVE  \A l \in Links : Grows(l, Q[l]) /\ (l[1] # n => flight'[l] = Q[l])
    <3> DEFINE r == Message(kind, Read(n, m).src, n, Read(n, m).about)
               x == OutStream(n, Read(n, m).src, n, n)
    <3>1. r \in Messages /\ OfCall(r)
      BY <1>2, <1>4, <2>3 DEF Message, Messages, OfCall
    <3>2. flight' = Sent(n, Q, Only(x, r))
      BY <2>3 DEF ReplyTo
    <3> HIDE DEF r, x
    <3> QED  BY <1>2, <1>6, <3>1, <3>2, OnlyCalls, CallsPass
  <2> QED  BY <1>5, <2>1, <2>2, <2>3 DEF Q
<1> QED  BY <1>1, <1>2, <1>4, <1>7 DEF Q

LEMMA SendCallFlow ==
    ASSUME RoutingTypeOK, NEW k \in Calls, SendCall(k)
    PROVE  \A l \in Links : Grows(l, flight[l]) /\ (l[1] # Caller[k] => flight'[l] = flight[l])
<1> DEFINE msg == Message("call", Callee[k], Caller[k], k)
           x == OutStream(Caller[k], Callee[k], Caller[k], Caller[k])
<1>1. msg \in Messages /\ OfCall(msg) /\ Caller[k] \in Contexts
  BY CallOK
<1>2. flight' = Sent(Caller[k], flight, Only(x, msg)) /\ flight \in Flights
  BY DEF SendCall, RoutingTypeOK, Flights
<1> HIDE DEF msg, x
<1> QED  BY <1>1, <1>2, OnlyCalls, CallsPass

LEMMA CallsTellNothing ==
    ASSUME NEW m, NEW s, CallsOnly(s), DOMAIN route'[m] = DOMAIN route[m]  PROVE Tells(m, s)
BY DEF Tells, CallsOnly, OfCall, IsAdd, IsDel

LEMMA BelievedIfTold ==
    ASSUME RoutingTypeOK, StreamsInv, NEW m \in Others, BelievedOf(m), StillOpen(m),
           below'[<<Parent[m], m>>] = below[<<Parent[m], m>>],
           Reaches(<<m, Parent[m]>>) =>
              \E s \in Seq(Messages) : Tells(m, s) /\ flight'[<<m, Parent[m]>>] = flight[<<m, Parent[m]>>] \o s
    PROVE  BelievedOf(m)'
<1>1. CASE Reaches(<<m, Parent[m]>>)
  BY <1>1, BelievedAfterWrite
<1>2. CASE ~Reaches(<<m, Parent[m]>>)
  <2>1. <<m, Parent[m]>> \in Links /\ <<Parent[m], m>> \in Links
    BY LinkIs
  <2>2. <<Parent[m], m>> \notin joined \ cut
    BY <1>2, <2>1, ReachesIs DEF StreamsInv
  <2> QED  BY <2>2 DEF BelievedOf, StillOpen
<1> QED  BY <1>1, <1>2

\* A context tells its parent of all the routes that it gets or loses.
LEMMA UpTells ==
    ASSUME NEW n \in Others, HasParent(n), NEW kind \in {"add", "del"}, NEW ids \in SUBSET Contexts,
           kind = "add" => DOMAIN route'[n] = DOMAIN route[n] \cup ids,
           kind = "del" => DOMAIN route'[n] = DOMAIN route[n] \ ids /\ n \notin ids
    PROVE  Up(n, kind, ids)[Parent[n]] \in Seq(Messages) /\ Tells(n, Up(n, kind, ids)[Parent[n]])
<1> DEFINE s == Up(n, kind, ids)[Parent[n]]
<1>1. n \in Contexts /\ Parent[n] \in Contexts
  BY ParentIs DEF Others
<1>7. Up(n, kind, ids) \in Writing /\ Range(s) = {Message(kind, Parent[n], n, d) : d \in ids}
  BY <1>1, UpIs
<1>8. s \in Seq(Messages)
  BY <1>1, <1>7 DEF Writing
<1> HIDE DEF s
<1>2. Range(s) = {Message(kind, Parent[n], n, d) : d \in ids} /\ s \in Seq(Messages)
  BY <1>7, <1>8
<1>3. \A msg \in Range(s) : msg.kind = kind /\ msg.about \in ids
  BY <1>2 DEF Message
<1>4. ASSUME NEW d \in ids  PROVE \E msg \in Range(s) : msg.kind = kind /\ msg.about = d
  <2>1. Message(kind, Parent[n], n, d) \in Range(s)
    BY <1>2
  <2> QED  BY <2>1 DEF Message
<1>5. ASSUME NEW d \in Contexts
      PROVE  \/ /\ \A msg \in Range(s) : ~IsAdd(msg, d) /\ ~IsDel(msg, d)
                /\ d \in DOMAIN route'[n] <=> d \in DOMAIN route[n]
             \/ /\ \A msg \in Range(s) : ~IsDel(msg, d)
                /\ \E msg \in Range(s) : IsAdd(msg, d)
                /\ d \in DOMAIN route'[n]
             \/ /\ \A msg \in Range(s) : ~IsAdd(msg, d)
                /\ \E msg \in Range(s) : IsDel(msg, d)
                /\ d # n /\ d \notin DOMAIN route'[n]
  <2>1. CASE d \notin ids
    BY <1>3, <2>1 DEF IsAdd, IsDel
  <2>2. CASE d \in ids /\ kind = "add"
    BY <1>3, <1>4, <2>2 DEF IsAdd, IsDel
  <2>3. CASE d \in ids /\ kind = "del"
    BY <1>3, <1>4, <2>3 DEF IsAdd, IsDel
  <2> QED  BY <2>1, <2>2, <2>3
<1>6. Tells(n, s)
  BY <1>5 DEF Tells
<1> QED  BY <1>2, <1>6 DEF s

LEMMA DownNotUp == ASSUME NEW n \in Others, NEW ids  PROVE Down(n, ids)[Parent[n]] = <<>>
<1>1. Parent[n] \in Contexts /\ n \in Children(Parent[n])
  BY ParentIs
<1>2. Parent[n] \notin Children(n)
  BY <1>1, NotBoth
<1> QED  BY <1>1, <1>2 DEF Down

\* A list of messages on the way up, that the context writes to or not.
LEMMA SentOneUp ==
    ASSUME NEW n, NEW Q \in Flights, NEW O \in Writing, NEW m \in Others
    PROVE  LET l == <<m, Parent[m]>> IN
           /\ m # n => Sent(n, Q, O)[l] = Q[l]
           /\ m = n /\ Reaches(l) => Sent(n, Q, O)[l] = Q[l] \o O[Parent[m]]
           /\ O[Parent[m]] = <<>> => Sent(n, Q, O)[l] = Q[l]
<1> DEFINE l == <<m, Parent[m]>>
<1>1. l \in Links /\ l[1] = m /\ l[2] = Parent[m]
  BY LinkIs
<1>2. Q[l] \in Seq(Messages)
  BY <1>1 DEF Flights
<1>3. Q[l] \o <<>> = Q[l]
  BY <1>2, NothingJoined
<1> HIDE DEF l
<1>4. Sent(n, Q, O)[l] = IF m = n /\ Reaches(l) THEN Q[l] \o O[Parent[m]] ELSE Q[l]
  BY <1>1 DEF Sent
<1> QED  BY <1>3, <1>4 DEF l

LEMMA SentElse ==
    ASSUME NEW n, NEW Q \in Flights, NEW O \in Writing, NEW m \in Others, m # n
    PROVE  Sent(n, Q, O)[<<m, Parent[m]>>] = Q[<<m, Parent[m]>>]
BY SentOneUp

Wrote(z, q, s) == z = q \o s
LEMMA SentToParent ==
    ASSUME NEW n \in Others, NEW Q \in Flights, NEW O \in Writing, Reaches(<<n, Parent[n]>>)
    PROVE  Wrote(Sent(n, Q, O)[<<n, Parent[n]>>], Q[<<n, Parent[n]>>], O[Parent[n]])
<1>1. Sent(n, Q, O)[<<n, Parent[n]>>] = Q[<<n, Parent[n]>>] \o O[Parent[n]]
  BY SentOneUp
<1> QED  BY <1>1 DEF Wrote

LEMMA BelievedCalls ==
    ASSUME RoutingTypeOK, StreamsInv, MessagesIn(flight), TablesInv, BelievedInv,
           Stays, UNCHANGED <<route, below>>, NEW m \in Others,
           (\E k \in Calls : SendCall(k)) \/ \E n, x : <<n, x>> \in Links /\ Passes(n, x)
    PROVE  BelievedOf(m)'
<1> DEFINE l == <<m, Parent[m]>>
<1>0. l \in Links /\ BelievedOf(m) /\ StillOpen(m) /\ m # Parent[m] /\ l[1] = m
  BY LinkIs, NotBoth, ParentIs DEF BelievedInv, StillOpen, Stays
<1>1. CASE Grows(l, flight[l])
  <2>1. PICK s : CallsOnly(s) /\ flight'[l] = flight[l] \o s
    BY <1>1 DEF Grows
  <2>2. s \in Seq(Messages) /\ Tells(m, s)
    BY <2>1, CallsTellNothing DEF CallsOnly
  <2> QED  BY <1>0, <2>1, <2>2, BelievedAfterWrite
<1>2. ASSUME NEW k \in Calls, SendCall(k)  PROVE Grows(l, flight[l])
  BY <1>0, <1>2, SendCallFlow
<1>3. ASSUME NEW n, NEW x, <<n, x>> \in Links, Passes(n, x)  PROVE BelievedOf(m)'
  <2>1. /\ Reads(n, x) /\ OfCall(Read(n, x)) /\ <<x, n>> \in Links
        /\ Grows(l, Unread(n, x)[l]) /\ (m # n => flight'[l] = Unread(n, x)[l])
    BY <1>0, <1>3, PassesFlow, LinkIs
  <2>2. flight \in Flights /\ flight[<<x, n>>] # <<>>
    BY <2>1 DEF RoutingTypeOK, Flights, Reads
  <2>3. Unread(n, x)[<<x, n>>] = Tail(flight[<<x, n>>]) /\ (l # <<x, n>> => Unread(n, x)[l] = flight[l])
    BY <1>0, <2>1, <2>2, UnreadIs
  <2>4. CASE l # <<x, n>>
    BY <1>1, <2>1, <2>3, <2>4
  <2>5. CASE l = <<x, n>>
    <3>1. flight'[l] = Tail(flight[l]) /\ flight[l] # <<>> /\ OfCall(Head(flight[l]))
      BY <1>0, <2>1, <2>2, <2>3, <2>5 DEF Read
    <3>2. After(below[<<Parent[m], m>>], Head(flight[l])) = below[<<Parent[m], m>>]
      BY <3>1 DEF After, OfCall
    <3> QED  BY <1>0, <3>1, <3>2, BelievedAfterRead
  <2> QED  BY <2>4, <2>5
<1> QED  BY <1>1, <1>2, <1>3

\* The streams up from others than the reader, and whom it reads from, are as they were.
LEMMA UnreadUp ==
    ASSUME RoutingTypeOK, NEW n, NEW x, <<n, x>> \in Links, Reads(n, x), NEW m \in Others
    PROVE  LET l == <<m, Parent[m]>> IN
           /\ ~(m = x /\ Parent[m] = n) => Unread(n, x)[l] = flight[l]
           /\ m = x /\ Parent[m] = n =>
                 Unread(n, x)[l] = Tail(flight[l]) /\ flight[l] # <<>> /\ Read(n, x) = Head(flight[l])
<1>1. flight \in Flights /\ flight[<<x, n>>] # <<>> /\ <<x, n>> \in Links /\ <<m, Parent[m]>> \in Links
  BY LinkIs DEF RoutingTypeOK, Flights, Reads
<1>2. Unread(n, x)[<<x, n>>] = Tail(flight[<<x, n>>])
      /\ \A l \in Links : l # <<x, n>> => Unread(n, x)[l] = flight[l]
  BY <1>1, UnreadIs
<1> QED  BY <1>1, <1>2 DEF Read

\* The stream up that is written to is not the one that was read.
LEMMA BelievedAdd ==
    ASSUME RoutingTypeOK, StreamsInv, MessagesIn(flight), TablesInv, BelievedInv, Stays,
           NEW n, NEW x, <<n, x>> \in Links, AddRoute(n, x), NEW m \in Others
    PROVE  BelievedOf(m)'
<1> DEFINE l == <<m, Parent[m]>>
           k == <<Parent[m], m>>
           d == Read(n, x).about
<1>1. /\ l \in Links /\ k \in Links /\ BelievedOf(m) /\ StillOpen(m) /\ m # Parent[m] /\ m \in Contexts
      /\ k[1] = Parent[m] /\ k[2] = m
  BY LinkIs, NotBoth, ParentIs DEF BelievedInv, StillOpen, Stays
<1>2. Reads(n, x) /\ Read(n, x).kind = "add" /\ AddIs(n, x, d) /\ n \in present
  BY AddRouteIs DEF Reads
<1>3. Unread(n, x) \in Flights
  BY <1>2, ReadIs
<1>4. d \in Contexts /\ x \in Children(n) /\ n \in Contexts /\ x # n /\ OtherStreams(n, x) /\ Parent[x] = n /\ n \notin Children(x)
  BY <1>2, NotBoth, ParentIs DEF AddIs
<1>5. {d} \in SUBSET Contexts /\ Up(n, "add", {d}) \in Writing
  BY <1>4, UpIs
<1>6. flight' = Unread(n, x) \/ flight' = Sent(n, Unread(n, x), Up(n, "add", {d}))
  BY <1>2 DEF AddIs
<1>7. CASE m = x
  <2>1. Parent[m] = n /\ m # n
    BY <1>4, <1>7
  <2>6. Sent(n, Unread(n, x), Up(n, "add", {d}))[l] = Unread(n, x)[l]
    BY <1>3, <1>5, <2>1, SentElse
  <2>2. flight'[l] = Unread(n, x)[l]
    BY <1>6, <2>6
  <2>3. flight'[l] = Tail(flight[l]) /\ flight[l] # <<>> /\ Read(n, x) = Head(flight[l])
    BY <1>2, <1>7, <2>1, <2>2, UnreadUp
  <2>4. below'[k] = After(below[k], Read(n, x))
    BY <1>2, <1>7, <2>1 DEF AddIs, After
  <2>5. route'[m] = route[m]
    BY <1>1, <1>4, <2>1 DEF OtherStreams, OtherTables
  <2> QED  BY <1>1, <2>3, <2>4, <2>5, BelievedAfterRead
<1>8. CASE m = n
  <2>1. Unread(n, x)[l] = flight[l] /\ below'[k] = below[k]
    BY <1>1, <1>2, <1>4, <1>8, UnreadUp DEF OtherStreams
  <2>2. CASE flight' = Unread(n, x) /\ route'[n] = route[n]
    BY <1>1, <1>8, <2>1, <2>2, BelievedSame
  <2>3. CASE DOMAIN route'[n] = DOMAIN route[n] \cup {d} /\ flight' = Sent(n, Unread(n, x), Up(n, "add", {d}))
    <3> DEFINE s == Up(n, "add", {d})[Parent[m]]
    <3>1. HasParent(n)
      BY <1>2, <1>8 DEF StreamsInv, HasParent, Others
    <3>2. s \in Seq(Messages) /\ Tells(m, s)
      BY <1>5, <1>8, <2>3, <3>1, UpTells
    <3>4. Reaches(l) => Wrote(Sent(n, Unread(n, x), Up(n, "add", {d}))[l], Unread(n, x)[l], s)
      BY <1>3, <1>5, <1>8, SentToParent
    <3>3. Reaches(l) => flight'[l] = flight[l] \o s
      BY <2>1, <2>3, <3>4 DEF Wrote
    <3> HIDE DEF s
    <3> QED  BY <1>1, <2>1, <3>2, <3>3, BelievedIfTold
  <2> QED  BY <1>2, <2>2, <2>3 DEF AddIs
<1>9. CASE m # n /\ m # x
  <2>4. Sent(n, Unread(n, x), Up(n, "add", {d}))[l] = Unread(n, x)[l]
    BY <1>3, <1>5, <1>9, SentOneUp
  <2>1. flight'[l] = Unread(n, x)[l]
    BY <1>6, <2>4
  <2>2. flight'[l] = flight[l]
    BY <1>2, <1>9, <2>1, UnreadUp
  <2>3. route'[m] = route[m] /\ below'[k] = below[k]
    BY <1>1, <1>4, <1>9 DEF OtherStreams, OtherTables
  <2> QED  BY <1>1, <2>2, <2>3, BelievedSame
<1> QED  BY <1>7, <1>8, <1>9

LEMMA BelievedDel ==
    ASSUME RoutingTypeOK, StreamsInv, MessagesIn(flight), TablesInv, BelievedInv, Stays,
           NEW n, NEW x, <<n, x>> \in Links, DelRoute(n, x), NEW m \in Others
    PROVE  BelievedOf(m)'
<1> DEFINE l == <<m, Parent[m]>>
           k == <<Parent[m], m>>
           d == Read(n, x).about
           F == Sent(n, Unread(n, x), Down(n, {d}))
<1>1. /\ l \in Links /\ k \in Links /\ BelievedOf(m) /\ StillOpen(m) /\ m # Parent[m] /\ m \in Contexts
      /\ k[1] = Parent[m] /\ k[2] = m
  BY LinkIs, NotBoth, ParentIs DEF BelievedInv, StillOpen, Stays
<1>2. Reads(n, x) /\ Read(n, x).kind = "del" /\ OtherStreams(n, x) /\ DelIs(n, x, d) /\ n \in present
      /\ d \in Contexts /\ n \in Contexts
  BY DelRouteIs DEF Reads
<1>3. Unread(n, x) \in Flights
  BY <1>2, ReadIs
<1>5. {d} \in SUBSET Contexts /\ Up(n, "del", {d}) \in Writing /\ Down(n, {d}) \in Writing
  BY <1>2, UpIs, DownIs
<1>6. F \in Flights
  BY <1>3, <1>5, SentIs
<1>7. F[l] = Unread(n, x)[l]
  <2>1. CASE m # n
    BY <1>3, <1>5, <2>1, SentElse
  <2>2. CASE m = n
    <3>1. Down(n, {d})[Parent[m]] = <<>>
      BY <2>2, DownNotUp
    <3> QED  BY <1>3, <1>5, <3>1, SentOneUp
  <2> QED  BY <2>1, <2>2
<1> HIDE DEF F
<1>8. ASSUME m # n  PROVE flight'[l] = Unread(n, x)[l]
  <2>1. flight' = Unread(n, x) \/ flight' = F \/ flight' = Sent(n, F, Up(n, "del", {d}))
    BY <1>2 DEF DelIs, F
  <2>2. Sent(n, F, Up(n, "del", {d}))[l] = F[l]
    BY <1>5, <1>6, <1>8, SentOneUp
  <2> QED  BY <1>7, <2>1, <2>2
<1>9. ASSUME m # x \/ Parent[m] # n  PROVE Unread(n, x)[l] = flight[l] /\ below'[k] = below[k]
  BY <1>1, <1>2, <1>9, UnreadUp DEF OtherStreams
<1>10. CASE m = x /\ Parent[m] = n
  <2>1. flight'[l] = Tail(flight[l]) /\ flight[l] # <<>> /\ Read(n, x) = Head(flight[l])
    BY <1>1, <1>2, <1>8, <1>10, UnreadUp
  <2>2. x \in Children(n) /\ ~(n \in Others /\ x = Parent[n])
    BY <1>10, ParentIs, NotBoth DEF ParentOf, Others
  <2>3. below'[k] = After(below[k], Read(n, x))
    BY <1>2, <1>10, <2>2 DEF DelIs, After
  <2>4. route'[m] = route[m]
    BY <1>1, <1>2, <1>10 DEF OtherStreams, OtherTables
  <2> QED  BY <1>1, <2>1, <2>3, <2>4, BelievedAfterRead
<1>11. CASE m = n
  <2>1. Unread(n, x)[l] = flight[l] /\ below'[k] = below[k]
    BY <1>1, <1>9, <1>11
  <2>2. CASE (flight' = Unread(n, x) \/ flight' = F) /\ DOMAIN route'[n] = DOMAIN route[n]
    BY <1>1, <1>7, <1>11, <2>1, <2>2, BelievedSame
  <2>3. CASE /\ DOMAIN route'[n] = DOMAIN route[n] \ {d} /\ flight' = Sent(n, F, Up(n, "del", {d}))
             /\ x \in Children(n) /\ Under(x, d)
    <3> DEFINE s == Up(n, "del", {d})[Parent[m]]
    <3>1. HasParent(n)
      BY <1>2, <1>11 DEF StreamsInv, HasParent, Others
    <3>4. n \notin {d}
      BY <1>2, <2>3, AboutChild
    <3>2. s \in Seq(Messages) /\ Tells(m, s)
      BY <1>5, <1>11, <2>3, <3>1, <3>4, UpTells
    <3>5. Reaches(l) => Wrote(Sent(n, F, Up(n, "del", {d}))[l], F[l], s)
      BY <1>5, <1>6, <1>11, SentToParent
    <3>3. Reaches(l) => flight'[l] = flight[l] \o s
      BY <1>7, <2>1, <2>3, <3>5 DEF Wrote
    <3> HIDE DEF s
    <3> QED  BY <1>1, <2>1, <3>2, <3>3, BelievedIfTold
  <2> QED  BY <1>2, <2>2, <2>3 DEF DelIs, SameRoute, F
<1>12. CASE m # n /\ ~(m = x /\ Parent[m] = n)
  <2>1. flight'[l] = flight[l] /\ below'[k] = below[k]
    BY <1>8, <1>9, <1>12
  <2>3. route'[m] = route[m]
    BY <1>1, <1>2, <1>12 DEF OtherStreams, OtherTables
  <2> QED  BY <1>1, <2>1, <2>3, BelievedSame
<1> QED  BY <1>10, <1>11, <1>12

LEMMA BelievedLost ==
    ASSUME RoutingTypeOK, StreamsInv, TablesInv, BelievedInv,
           NEW n, NEW x, <<n, x>> \in Links, LostIs(n, x), cut' = cut, NEW m \in Others
    PROVE  BelievedOf(m)'
<1> DEFINE l == <<m, Parent[m]>>
           k == <<Parent[m], m>>
           ids == below[<<n, x>>]
           F == Sent(n, flight, Up(n, "del", ids))
           G == Sent(n, F, Down(n, ids))
<1>1. /\ l \in Links /\ k \in Links /\ BelievedOf(m) /\ m # Parent[m] /\ m \in Contexts
      /\ k[1] = Parent[m] /\ k[2] = m
  BY LinkIs, NotBoth, ParentIs DEF BelievedInv
<1>2. /\ joined' = joined \ {<<n, x>>} /\ n \in present /\ n \in Contexts /\ x \in Children(n) /\ OtherStreams(n, x)
      /\ DOMAIN route'[n] = DOMAIN route[n] \ ids /\ flight' = [G EXCEPT ![<<x, n>>] = <<>>]
  BY DEF LostIs
<1>3. x \in Others /\ Parent[x] = n /\ n \notin Children(x) /\ x # n
  BY <1>2, NotBoth, ParentIs
<1>4. StillOpen(m)
  BY <1>2 DEF StillOpen
<1>5. ids \in SUBSET Contexts /\ flight \in Flights /\ n \notin ids
  BY <1>2, AboutChild DEF LostIs, RoutingTypeOK, Flights, TablesInv, TablesOf
<1> HIDE DEF ids
<1>6. Up(n, "del", ids) \in Writing /\ Down(n, ids) \in Writing
  BY <1>2, <1>5, UpIs, DownIs
<1>7. F \in Flights /\ G \in Flights
  BY <1>5, <1>6, SentIs
<1>8. G[l] = F[l] /\ (m # n => F[l] = flight[l]) /\ (m = n /\ Reaches(l) => F[l] = flight[l] \o Up(n, "del", ids)[Parent[m]])
  <2>0. F \in Flights
    BY <1>7
  <2>2. (m # n => F[l] = flight[l]) /\ (m = n /\ Reaches(l) => F[l] = flight[l] \o Up(n, "del", ids)[Parent[m]])
    BY <1>5, <1>6, SentOneUp
  <2> HIDE DEF F
  <2>3. G[l] = F[l]
    <3>1. CASE m # n
      BY <1>6, <2>0, <3>1, SentElse
    <3>2. CASE m = n
      <4>1. Down(n, ids)[Parent[m]] = <<>>
        BY <3>2, DownNotUp
      <4> QED  BY <1>6, <2>0, <4>1, SentOneUp
    <3> QED  BY <3>1, <3>2
  <2> QED  BY <2>2, <2>3
<1> HIDE DEF F, G
<1>9. l # <<x, n>> => flight'[l] = G[l] /\ below'[k] = below[k]
  BY <1>1, <1>2, <1>7 DEF OtherStreams, Flights
<1>10. CASE m = x
  <2>1. k \notin joined'
    BY <1>2, <1>3, <1>10
  <2> QED  BY <2>1 DEF BelievedOf
<1>11. CASE m = n
  <2> DEFINE s == Up(n, "del", ids)[Parent[m]]
  <2>1. HasParent(n)
    BY <1>2, <1>11 DEF StreamsInv, HasParent, Others
  <2>2. s \in Seq(Messages) /\ Tells(m, s)
    BY <1>2, <1>5, <1>11, <2>1, UpTells
  <2>3. (Reaches(l) => flight'[l] = flight[l] \o s) /\ below'[k] = below[k]
    BY <1>3, <1>8, <1>9, <1>11
  <2> HIDE DEF s
  <2> QED  BY <1>1, <1>4, <2>2, <2>3, BelievedIfTold
<1>12. CASE m # n /\ m # x
  <2>1. flight'[l] = flight[l] /\ below'[k] = below[k]
    BY <1>8, <1>9, <1>12
  <2>3. route'[m] = route[m]
    BY <1>1, <1>2, <1>12 DEF OtherStreams, OtherTables
  <2> QED  BY <1>1, <1>4, <2>1, <2>3, BelievedSame
<1> QED  BY <1>10, <1>11, <1>12

\* What a context that starts says is all there is to know of it.
LEMMA BelievesItself ==
    ASSUME NEW m, NEW d  PROVE Believes({m}, <<>>, d, Len(<<>>)) <=> d = m
<1>1. Len(<<>>) = 0 /\ 0+1..0 = {} /\ 1..0 = {}
  OBVIOUS
<1> QED  BY <1>1 DEF Believes, NoDel

LEMMA BelievedAttach ==
    ASSUME RoutingTypeOK, StreamsInv, MessagesIn(flight), FreshInv, TablesInv, BelievedInv, RoutingNext,
           NEW x \in Others, AttachIs(Parent[x], x), cut' = cut, NEW m \in Others
    PROVE  BelievedOf(m)'
<1> DEFINE l == <<m, Parent[m]>>
           k == <<Parent[m], m>>
           n == Parent[x]
<1>1. /\ l \in Links /\ k \in Links /\ BelievedOf(m) /\ m # Parent[m] /\ m \in Contexts
      /\ k[1] = Parent[m] /\ k[2] = m
  BY LinkIs, NotBoth, ParentIs DEF BelievedInv
<1>2. /\ joined' = joined \cup {<<n, x>>, <<x, n>>} /\ n \in present /\ n \in Contexts /\ x \in Children(n)
      /\ OtherStreams(n, x) /\ x \notin present /\ <<x, n>> \notin cut
      /\ DOMAIN route'[n] = DOMAIN route[n] \cup {x} /\ flight' = Sent(n, flight, Up(n, "add", {x}))
      /\ below'[<<n, x>>] = {x}
  BY DEF AttachIs
<1>3. Parent[x] = n /\ n \notin Children(x) /\ x # n
  BY <1>2, NotBoth
<1>5. {x} \in SUBSET Contexts /\ flight \in Flights /\ Up(n, "add", {x}) \in Writing
  BY <1>2, UpIs, NotBoth DEF RoutingTypeOK, Flights
<1>4. ASSUME m # x  PROVE StillOpen(m) /\ below'[k] = below[k]
  <2>1. k # <<n, x>> /\ k # <<x, n>>
    BY <1>1, <1>3, <1>4, ParentIs
  <2> QED  BY <1>1, <1>2, <2>1 DEF StillOpen, OtherStreams
<1> HIDE DEF n
<1>10. CASE m = x
  <2>1. DOMAIN route[m] = {} /\ flight[l] = <<>>
    BY <1>2, <1>10 DEF FreshInv, n
  <2>2. DOMAIN route'[m] = {}
    BY <1>1, <1>2, <1>3, <1>10, <2>1 DEF OtherStreams, OtherTables
  <2>3. m # n
    BY <1>3, <1>10
  <2>7. Sent(n, flight, Up(n, "add", {x}))[l] = flight[l]
    BY <1>5, <2>3, SentOneUp
  <2>6. flight'[l] = flight[l]
    BY <1>2, <2>7
  <2>4. flight'[l] = <<>> /\ below'[k] = {m}
    BY <1>2, <1>3, <1>10, <2>1, <2>6 DEF n
  <2>5. \A d \in Contexts : (d = m \/ d \in DOMAIN route'[m]) <=> Believes({m}, <<>>, d, Len(<<>>))
    BY <2>2, BelievesItself
  <2> QED  BY <2>4, <2>5 DEF BelievedOf
<1>11. CASE m = n
  <2> DEFINE s == Up(n, "add", {x})[Parent[m]]
  <2>1. HasParent(n)
    BY <1>2, <1>11 DEF StreamsInv, HasParent, Others
  <2>2. s \in Seq(Messages) /\ Tells(m, s)
    BY <1>2, <1>5, <1>11, <2>1, UpTells
  <2>5. Reaches(l) => Wrote(Sent(n, flight, Up(n, "add", {x}))[l], flight[l], s)
    BY <1>5, <1>11, SentToParent
  <2>3. Reaches(l) => flight'[l] = flight[l] \o s
    BY <1>2, <2>5 DEF Wrote
  <2>4. StillOpen(m) /\ below'[k] = below[k]
    BY <1>3, <1>4, <1>11
  <2> HIDE DEF s
  <2> QED  BY <1>1, <2>2, <2>3, <2>4, BelievedIfTold
<1>12. CASE m # n /\ m # x
  <2>2. Sent(n, flight, Up(n, "add", {x}))[l] = flight[l]
    BY <1>5, <1>12, SentOneUp
  <2>1. flight'[l] = flight[l]
    BY <1>2, <2>2
  <2>3. route'[m] = route[m]
    BY <1>1, <1>2, <1>12 DEF OtherStreams, OtherTables
  <2> QED  BY <1>1, <1>4, <1>12, <2>1, <2>3, BelievedSame
<1> QED  BY <1>10, <1>11, <1>12

LEMMA BelievedStep ==
    ASSUME RoutingTypeOK, StreamsInv, MessagesIn(flight), FreshInv, TablesInv, BelievedInv, RoutingNext
    PROVE  BelievedInv'
<1> SUFFICES ASSUME NEW m \in Others  PROVE BelievedOf(m)'
  BY DEF BelievedInv
<1>1. ASSUME NEW n \in Others, Departs(n) \/ Cut(n), UNCHANGED <<flight, route, below>>  PROVE BelievedOf(m)'
  <2>1. joined' \subseteq joined /\ cut \subseteq cut'
    BY <1>1 DEF Departs, Cut
  <2> QED  BY <1>1, <2>1, BelievedSame DEF StillOpen, BelievedInv
<1> QED  BY <1>1, StepIs, BelievedCalls, BelievedAdd, BelievedDel, BelievedLost, BelievedAttach

LEMMA RoutesInit == ASSUME RoutingInit  PROVE RoutesInv
<1> DEFINE first == Contexts \ Later
<1>1. /\ present = first
      /\ joined = {l \in Links : l[1] \in first /\ l[2] \in first}
      /\ cut = {} /\ flight = [l \in Links |-> <<>>]
      /\ route = [n \in Contexts |-> [d \in Children(n) \cap first |-> d]]
      /\ below = [l \in Links |-> IF l[2] \in Children(l[1]) \cap first THEN {l[2]} ELSE {}]
      /\ egress = [l \in Links |-> {}]
      /\ unidirectional \in BOOLEAN
  BY DEF RoutingInit
<1>2. calling \in [Calls -> {"never", "before", "waiting", "answered"}]
  BY DEF RoutingInit
<1>3. Root \in first /\ (\A x \in Others : x \in first => Parent[x] = Root) /\ first \subseteq Contexts
  <2>1. DOMAIN Parent = Others
    BY RoutingAssumption DEF Others
  <2> QED  BY <2>1, RoutingAssumption DEF Others, Children
<1> HIDE DEF first
<1>4. /\ \A n \in Contexts : DOMAIN route[n] = Children(n) \cap first /\ \A d \in DOMAIN route[n] : route[n][d] = d
      /\ \A n \in Contexts : \A m \in Children(n) :
            /\ <<n, m>> \in Links /\ m \in Others /\ m \in Contexts /\ Parent[m] = n
            /\ below[<<n, m>>] = IF m \in first THEN {m} ELSE {}
            /\ <<n, m>> \in joined <=> n \in first /\ m \in first
  BY <1>1, ParentIs, LinkIs
<1>5. RoutingTypeOK
  <2>1. \A n \in Contexts : DOMAIN route[n] \subseteq Contexts /\ Range(route[n]) \subseteq Contexts
    BY <1>3, <1>4 DEF Range
  <2>2. flight \in [Links -> Seq(Messages)]
    BY <1>1, EmptyIs
  <2>3. below \in [Links -> SUBSET Contexts] /\ egress \in [Links -> SUBSET Contexts]
    BY <1>1, <1>3
  <2> QED  BY <1>1, <1>2, <1>3, <2>1, <2>2, <2>3 DEF RoutingTypeOK
<1>6. StreamsInv
  <2>1. \A l \in joined : <<l[2], l[1]>> \in joined
    BY <1>1, LinkIs
  <2>2. \A x \in present \cap Others : <<x, Parent[x]>> \in joined
    BY <1>1, <1>3, LinkIs
  <2> QED  BY <1>1, <1>3, <2>1, <2>2 DEF StreamsInv
<1>7. MessagesIn(flight)
  BY <1>1, EmptyIs, LinkIs DEF MessagesIn
<1>8. FreshInv
  <2>1. ASSUME NEW m \in Others, m \notin first  PROVE DOMAIN route[m] = {} /\ \A c \in Children(m) : below[<<m, c>>] = {}
    <3>1. m \in Contexts
      BY ParentIs DEF Others
    <3>2. \A c \in Children(m) : c \notin first
      BY <1>3, <1>4, <2>1, <3>1
    <3>3. DOMAIN route[m] = {}
      BY <1>4, <3>1, <3>2
    <3>4. \A c \in Children(m) : below[<<m, c>>] = {}
      BY <1>4, <3>1, <3>2
    <3> QED  BY <3>3, <3>4
  <2> QED  BY <1>1, <2>1, LinkIs DEF FreshInv
<1>9. TablesInv
  <2> SUFFICES ASSUME NEW n \in present  PROVE TablesOf(n)
    BY DEF TablesInv
  <2>1. n \in first /\ n \in Contexts
    BY <1>1, <1>3
  <2>5. DOMAIN route[n] = Children(n) \cap first /\ \A d \in DOMAIN route[n] : route[n][d] = d
    BY <1>4, <2>1
  <2>6. \A m \in Children(n) : (below[<<n, m>>] = IF m \in first THEN {m} ELSE {})
                             /\ (<<n, m>> \in joined <=> (n \in first /\ m \in first))
    BY <1>4, <2>1
  <2>2. \A d \in DOMAIN route[n] : route[n][d] \in Children(n) /\ d \in below[<<n, route[n][d]>>]
    BY <2>1, <2>5, <2>6
  <2>3. \A m \in Children(n) : \A d \in below[<<n, m>>] :
          d \in DOMAIN route[n] /\ route[n][d] = m /\ <<n, m>> \in joined /\ Under(m, d)
    <3> SUFFICES ASSUME NEW m \in Children(n), NEW d \in below[<<n, m>>]
                 PROVE  d \in DOMAIN route[n] /\ route[n][d] = m /\ <<n, m>> \in joined /\ Under(m, d)
      OBVIOUS
    <3>2. d \in below[<<n, m>>] /\ (below[<<n, m>>] = IF m \in first THEN {m} ELSE {})
      BY <2>6
    <3>1. d = m /\ m \in first
      BY <3>2
    <3> QED  BY <2>1, <2>5, <2>6, <3>1, UnderSelf
  <2>4. \A m \in Children(n) : <<n, m>> \in joined => m \in below[<<n, m>>]
    BY <2>1, <2>5, <2>6
  <2> QED  BY <2>2, <2>3, <2>4 DEF TablesOf
<1>10. BelievedInv
  <2> SUFFICES ASSUME NEW m \in Others, <<Parent[m], m>> \in joined, NEW d \in Contexts
               PROVE  (d = m \/ d \in DOMAIN route[m])
                      <=> Believes(below[<<Parent[m], m>>], flight[<<m, Parent[m]>>], d, Len(flight[<<m, Parent[m]>>]))
    BY DEF BelievedInv, BelievedOf
  <2>1. m \in Contexts /\ m \in Children(Parent[m]) /\ Parent[m] \in Contexts /\ m # Root
    BY ParentIs DEF Others
  <2>2. m \in first /\ below[<<Parent[m], m>>] = {m}
    BY <1>4, <2>1
  <2>5. \A c \in Children(m) : c \notin first
    BY <1>3, <1>4, <2>1
  <2>3. DOMAIN route[m] = {}
    BY <1>4, <2>1, <2>5
  <2>4. flight[<<m, Parent[m]>>] = <<>>
    BY <1>1, LinkIs
  <2>6. Believes({m}, <<>>, d, Len(<<>>)) <=> d = m
    BY BelievesItself
  <2> QED  BY <2>2, <2>3, <2>4, <2>6
<1> QED  BY <1>5, <1>6, <1>7, <1>8, <1>9, <1>10 DEF RoutesInv

LEMMA RoutesStep == ASSUME RoutesInv, RoutingNext  PROVE RoutesInv' /\ cut \subseteq cut'
<1>1. RoutingTypeOK /\ StreamsInv /\ MessagesIn(flight) /\ FreshInv /\ TablesInv /\ BelievedInv
  BY DEF RoutesInv
<1>2. (MessagesIn(flight))' /\ StreamsInv' /\ cut \subseteq cut'
  BY <1>1, SentStep, StreamsStep, MessagesGrow
<1>3. RoutingTypeOK' /\ FreshInv' /\ TablesInv' /\ BelievedInv'
  BY <1>1, TypeStep, FreshStep, TablesStep, BelievedStep
<1> QED  BY <1>2, <1>3 DEF RoutesInv

LEMMA RoutesStutter == ASSUME RoutesInv, UNCHANGED routingVars  PROVE RoutesInv'
<1> USE DEF routingVars
<1>1. RoutingTypeOK' /\ StreamsInv'
  BY DEF RoutesInv, RoutingTypeOK, StreamsInv
<1>2. (MessagesIn(flight))'
  <2>1. cut' = cut /\ flight' = flight
    OBVIOUS
  <2>2. MessagesIn(flight')
    BY <2>1 DEF RoutesInv
  <2> QED  BY <2>1, <2>2, MessagesGrow
<1>3. FreshInv' /\ TablesInv'
  BY DEF RoutesInv, FreshInv, TablesInv, TablesOf
<1>4. BelievedInv'
  BY DEF RoutesInv, BelievedInv, BelievedOf
<1> QED  BY <1>1, <1>2, <1>3, <1>4 DEF RoutesInv

LEMMA RoutesKept == RoutingSpec => []RoutesInv
<1>1. RoutingInit => RoutesInv
  BY RoutesInit
<1>2. RoutesInv /\ [RoutingNext]_routingVars => RoutesInv'
  BY RoutesStep, RoutesStutter
<1> QED  BY <1>1, <1>2, PTL DEF RoutingSpec

----------------------------------------------------------------------------
(* When all was read.                                                      *)

\* A context that is left when all was read has its streams, as all above it do.
LEMMA QuietStreams ==
    ASSUME RoutesInv, Quiet, NEW x \in present \cap Others
    PROVE  /\ Parent[x] \in present /\ <<x, Parent[x]>> \in joined /\ <<Parent[x], x>> \in joined \ cut
           /\ flight[<<x, Parent[x]>>] = <<>> /\ flight[<<Parent[x], x>>] = <<>>
<1>1. <<x, Parent[x]>> \in joined /\ <<x, Parent[x]>> \in Links /\ <<Parent[x], x>> \in Links
  BY LinkIs DEF RoutesInv, StreamsInv
<1>2. <<x, Parent[x]>> \notin cut /\ flight[<<Parent[x], x>>] = <<>>
  BY <1>1 DEF Quiet, Severed
<1>3. Parent[x] \in present /\ <<Parent[x], x>> \in joined
  BY <1>1, <1>2 DEF RoutesInv, StreamsInv
<1>4. <<Parent[x], x>> \notin cut /\ flight[<<x, Parent[x]>>] = <<>>
  BY <1>1, <1>3 DEF Quiet, Severed
<1> QED  BY <1>1, <1>2, <1>3, <1>4

\* No news is on its way, so that a parent has the routes that its child has.
LEMMA QuietBelief ==
    ASSUME RoutesInv, Quiet, NEW x \in present \cap Others
    PROVE  below[<<Parent[x], x>>] = {x} \cup DOMAIN route[x]
<1>1. <<Parent[x], x>> \in joined \ cut /\ flight[<<x, Parent[x]>>] = <<>>
  BY QuietStreams
<1>2. Len(<<>>) = 0 /\ 0+1..0 = {} /\ 1..0 = {}
  OBVIOUS
<1>3. \A B, d : Believes(B, <<>>, d, Len(<<>>)) <=> d \in B
  BY <1>2 DEF Believes, NoDel
<1>4. \A d \in Contexts : (d = x \/ d \in DOMAIN route[x])
          <=> Believes(below[<<Parent[x], x>>], <<>>, d, Len(<<>>))
  BY <1>1 DEF RoutesInv, BelievedInv, BelievedOf
<1>5. x \in Contexts /\ DOMAIN route[x] \subseteq Contexts /\ below[<<Parent[x], x>>] \subseteq Contexts
  BY LinkIs DEF RoutesInv, RoutingTypeOK
<1> QED  BY <1>3, <1>4, <1>5

LEMMA TreeSettles == ASSUME RoutesInv  PROVE RoutesAreTheTree
<1> SUFFICES ASSUME Quiet, NEW n \in present
             PROVE  /\ DOMAIN route[n] = {d \in present \ {n} : Under(n, d)}
                    /\ \A d \in DOMAIN route[n] : route[n][d] \in Children(n) /\ Under(route[n][d], d)
  BY DEF RoutesAreTheTree
<1>1. TablesInv /\ RoutingTypeOK /\ StreamsInv /\ n \in Contexts
  BY DEF RoutesInv, RoutingTypeOK
<1>2. \A d \in DOMAIN route[n] : /\ route[n][d] \in Children(n) /\ Under(route[n][d], d)
                                 /\ Under(n, d) /\ d # n /\ d \in Contexts
  BY <1>1, KnownIsBelow
\* Those above a context that runs: their parents have routes to it.
<1>3. ASSUME NEW d \in present, Under(n, d), d # n  PROVE d \in DOMAIN route[n]
  <2> DEFINE P == {x \in Contexts : x \in present /\ (x = d \/ d \in DOMAIN route[x])}
  <2>1. d \in P /\ d \in Contexts
    BY DEF RoutesInv, RoutingTypeOK
  <2>2. ASSUME NEW x \in Others, x \in P  PROVE Parent[x] \in P
    <3>1. Parent[x] \in present /\ Parent[x] \in Contexts /\ x \in Children(Parent[x])
      BY <2>2, QuietStreams, ParentIs
    <3>2. d \in below[<<Parent[x], x>>]
      BY <2>2, QuietBelief
    <3> QED  BY <1>1, <3>1, <3>2 DEF TablesInv, TablesOf
  <2> HIDE DEF P
  <2>3. n \in P
    BY <1>1, <1>3, <2>1, <2>2, UpInduction
  <2> QED  BY <1>3, <2>3 DEF P
\* What a context has a route to is its child, which runs, or its child has a route to it.
<1>4. ASSUME NEW d \in DOMAIN route[n]  PROVE d \in present
  <2>1. ASSUME NEW x \in present, d \in DOMAIN route[x], d \notin present
        PROVE  \E c \in Children(x) : c \in present /\ c \in Contexts /\ Under(c, d) /\ d \in DOMAIN route[c]
    <3> DEFINE c == route[x][d]
    <3>1. c \in Children(x) /\ <<x, c>> \in joined /\ Under(c, d) /\ d \in below[<<x, c>>] /\ x \in Contexts
      BY <1>1, <2>1, KnownIsBelow
    <3>2. c \in Others /\ c \in Contexts /\ Parent[c] = x /\ <<x, c>> \in Links
      BY <3>1, ParentIs, LinkIs
    <3> HIDE DEF c
    <3>3. <<x, c>> \in joined \ cut
      BY <2>1, <3>1, <3>2 DEF Quiet, Severed
    <3>4. c \in present
      <4>1. <<x, c>>[2] \in present
        BY <1>1, <3>3 DEF StreamsInv
      <4> QED  BY <4>1
    <3>5. below[<<x, c>>] = {c} \cup DOMAIN route[c]
      BY <3>2, <3>4, QuietBelief
    <3> QED  BY <2>1, <3>1, <3>2, <3>4, <3>5
  <2> SUFFICES ASSUME d \notin present  PROVE FALSE
    OBVIOUS
  <2> DEFINE S == {x \in Contexts : Under(x, d) => x \in present /\ d \in DOMAIN route[x]}
  <2>2. Under(n, d) /\ d \in Contexts /\ n \in S
    BY <1>1, <1>2
  <2>3. ASSUME NEW x \in S, NEW y \in Others, Parent[y] = x  PROVE y \in S
    <3>1. y \in Contexts /\ x \in Contexts /\ y \in Children(x)
      BY <2>3, ParentIs DEF Others
    <3>2. SUFFICES ASSUME Under(y, d)  PROVE y \in present /\ d \in DOMAIN route[y]
      BY <3>1
    <3>3. Under(x, d)
      BY <2>3, <3>2, UnderChild, UnderTrans
    <3>4. PICK c \in Children(x) : c \in present /\ Under(c, d) /\ d \in DOMAIN route[c]
      BY <2>1, <2>3, <3>3
    <3>5. c = y
      BY <2>2, <3>1, <3>2, <3>4, OneChildAbove
    <3> QED  BY <3>4, <3>5
  <2>4. S \in SUBSET Contexts
    OBVIOUS
  <2> HIDE DEF S
  <2>5. d \in S
    BY <2>2, <2>3, <2>4, UnderInduction
  <2> QED  BY <2>5, UnderSelf DEF S
<1>5. DOMAIN route[n] = {d \in present \ {n} : Under(n, d)}
  BY <1>2, <1>3, <1>4
<1> QED  BY <1>2, <1>5

----------------------------------------------------------------------------
(* A message remains on its stream until it is read.                       *)

KeepsAll(F, Q) == F \in Flights /\ \A l \in Links : \E s \in Seq(Messages) : Wrote(F[l], Q[l], s)

LEMMA SentKeeps == ASSUME NEW n, NEW Q \in Flights, NEW O \in Writing  PROVE KeepsAll(Sent(n, Q, O), Q)
<1>1. Sent(n, Q, O) \in Flights
  BY SentIs
<1>2. ASSUME NEW l \in Links  PROVE \E s \in Seq(Messages) : Wrote(Sent(n, Q, O)[l], Q[l], s)
  <2>1. Q[l] \in Seq(Messages) /\ l[2] \in Contexts
    BY LinkIs DEF Flights
  <2>2. CASE l[1] = n /\ Reaches(l)
    <3>1. Sent(n, Q, O)[l] = Q[l] \o O[l[2]]
      BY <2>2 DEF Sent
    <3>2. Wrote(Sent(n, Q, O)[l], Q[l], O[l[2]]) /\ O[l[2]] \in Seq(Messages)
      BY <2>1, <3>1 DEF Wrote, Writing
    <3> QED  BY <3>2
  <2>3. CASE ~(l[1] = n /\ Reaches(l))
    <3>1. Sent(n, Q, O)[l] = Q[l]
      BY <2>3 DEF Sent
    <3>2. Wrote(Sent(n, Q, O)[l], Q[l], <<>>) /\ <<>> \in Seq(Messages)
      BY <2>1, <3>1, NothingJoined DEF Wrote
    <3> QED  BY <3>2
  <2> QED  BY <2>2, <2>3
<1> QED  BY <1>1, <1>2 DEF KeepsAll

LEMMA SameKeeps == ASSUME NEW Q \in Flights  PROVE KeepsAll(Q, Q)
<1>1. ASSUME NEW l \in Links  PROVE Wrote(Q[l], Q[l], <<>>) /\ <<>> \in Seq(Messages)
  <2>1. Q[l] \in Seq(Messages)
    BY DEF Flights
  <2> QED  BY <2>1, NothingJoined DEF Wrote
<1> QED  BY <1>1 DEF KeepsAll

LEMMA WroteTwice ==
    ASSUME NEW q \in Seq(Messages), NEW s \in Seq(Messages), NEW r \in Seq(Messages), NEW z, NEW y,
           Wrote(z, q, s), Wrote(y, z, r)
    PROVE  s \o r \in Seq(Messages) /\ Wrote(y, q, s \o r)
<1>1. (q \o s) \o r = q \o (s \o r) /\ s \o r \in Seq(Messages)
  OBVIOUS
<1> QED  BY <1>1 DEF Wrote

LEMMA KeepsTwice ==
    ASSUME NEW Q \in Flights, NEW G, NEW F, KeepsAll(G, Q), KeepsAll(F, G)  PROVE KeepsAll(F, Q)
<1>1. ASSUME NEW l \in Links  PROVE \E s \in Seq(Messages) : Wrote(F[l], Q[l], s)
  <2>1. PICK s \in Seq(Messages) : Wrote(G[l], Q[l], s)
    BY DEF KeepsAll
  <2>2. PICK r \in Seq(Messages) : Wrote(F[l], G[l], r)
    BY DEF KeepsAll
  <2>3. Q[l] \in Seq(Messages)
    BY DEF Flights
  <2>4. s \o r \in Seq(Messages) /\ Wrote(F[l], Q[l], s \o r)
    BY <2>1, <2>2, <2>3, WroteTwice
  <2> QED  BY <2>4
<1> QED  BY <1>1 DEF KeepsAll

Handles(n, m) == Passes(n, m) \/ AddRoute(n, m) \/ DelRoute(n, m)
ReadFlow(n, m) ==
    /\ <<n, m>> \in Links /\ Reads(n, m) /\ Handles(n, m) /\ KeepsAll(flight', Unread(n, m))
    /\ \A l \in Links : l # <<n, m>> => below'[l] = below[l]
    /\ m \in Children(n) => below'[<<n, m>>] = After(below[<<n, m>>], Read(n, m))

LEMMA SendFlows ==
    ASSUME RoutesInv, NEW k \in Calls, SendCall(k)  PROVE KeepsAll(flight', flight)
<1> DEFINE msg == Message("call", Callee[k], Caller[k], k)
           x == OutStream(Caller[k], Callee[k], Caller[k], Caller[k])
<1>1. msg \in Messages
  BY CallOK
<1>2. flight' = Sent(Caller[k], flight, Only(x, msg)) /\ flight \in Flights
  BY DEF SendCall, RoutesInv, RoutingTypeOK, Flights
<1> HIDE DEF msg, x
<1>3. Only(x, msg) \in Writing
  BY <1>1, OnlyIs
<1> QED  BY <1>2, <1>3, SentKeeps

LEMMA PassFlows ==
    ASSUME RoutesInv, NEW n, NEW m, <<n, m>> \in Links, Passes(n, m)
    PROVE  ReadFlow(n, m)
<1>0. RoutingTypeOK /\ MessagesIn(flight) /\ TablesInv
  BY DEF RoutesInv
<1>1. Reads(n, m) /\ OfCall(Read(n, m)) /\ Read(n, m) \in Messages /\ n \in Contexts /\ Unread(n, m) \in Flights
  BY <1>0, PassesFlow, ReadIs
<1>2. below' = below /\ After(below[<<n, m>>], Read(n, m)) = below[<<n, m>>]
  BY <1>1 DEF Passes, TakeReply, HandleCall, Forward, Bounce, After, OfCall
<1>3. \/ flight' = Unread(n, m)
      \/ flight' = Sent(n, Unread(n, m), Only(Onward(n, m), Read(n, m)))
      \/ \E kind \in {"reply", "dead"} :
                flight' = Sent(n, Unread(n, m), ReplyTo(n, kind, Read(n, m).src, Read(n, m).about))
  BY DEF Passes, TakeReply, HandleCall, Forward, Bounce
<1>4. Only(Onward(n, m), Read(n, m)) \in Writing
  BY <1>1, OnlyIs
<1>5. ASSUME NEW kind \in {"reply", "dead"}  PROVE ReplyTo(n, kind, Read(n, m).src, Read(n, m).about) \in Writing
  <2> DEFINE r == Message(kind, Read(n, m).src, n, Read(n, m).about)
             x == OutStream(n, Read(n, m).src, n, n)
  <2>1. r \in Messages
    BY <1>1 DEF Message, Messages, OfCall
  <2>2. ReplyTo(n, kind, Read(n, m).src, Read(n, m).about) = Only(x, r)
    BY DEF ReplyTo
  <2> HIDE DEF r, x
  <2>3. Only(x, r) \in Writing
    BY <2>1, OnlyIs
  <2> QED  BY <2>2, <2>3
<1>6. KeepsAll(flight', Unread(n, m))
  BY <1>1, <1>3, <1>4, <1>5, SentKeeps, SameKeeps
<1> QED  BY <1>1, <1>2, <1>6 DEF ReadFlow, Handles

LEMMA AddFlows ==
    ASSUME RoutesInv, NEW n, NEW m, <<n, m>> \in Links, AddRoute(n, m)
    PROVE  ReadFlow(n, m)
<1> DEFINE d == Read(n, m).about
<1>0. RoutingTypeOK /\ MessagesIn(flight) /\ TablesInv
  BY DEF RoutesInv
<1>1. Reads(n, m) /\ Read(n, m).kind = "add" /\ AddIs(n, m, d)
  BY <1>0, AddRouteIs
<1>2. Unread(n, m) \in Flights
  BY <1>0, <1>1, ReadIs
<1>3. Up(n, "add", {d}) \in Writing
  BY <1>1, UpIs DEF AddIs
<1>4. KeepsAll(flight', Unread(n, m))
  BY <1>1, <1>2, <1>3, SentKeeps, SameKeeps DEF AddIs
<1>5. below'[<<n, m>>] = After(below[<<n, m>>], Read(n, m))
  BY <1>1 DEF AddIs, After
<1>6. \A l \in Links : l # <<n, m>> => below'[l] = below[l]
  BY <1>1 DEF AddIs, OtherStreams
<1> QED  BY <1>1, <1>4, <1>5, <1>6 DEF ReadFlow, Handles

LEMMA DelFlows ==
    ASSUME RoutesInv, NEW n, NEW m, <<n, m>> \in Links, DelRoute(n, m)
    PROVE  ReadFlow(n, m)
<1> DEFINE d == Read(n, m).about
           F == Sent(n, Unread(n, m), Down(n, {d}))
<1>0. RoutingTypeOK /\ MessagesIn(flight) /\ TablesInv
  BY DEF RoutesInv
<1>1. Reads(n, m) /\ Read(n, m).kind = "del" /\ OtherStreams(n, m) /\ DelIs(n, m, d) /\ n \in Contexts /\ d \in Contexts
  BY <1>0, DelRouteIs
<1>2. Unread(n, m) \in Flights
  BY <1>0, <1>1, ReadIs
<1>3. Up(n, "del", {d}) \in Writing /\ Down(n, {d}) \in Writing
  BY <1>1, UpIs, DownIs
<1>4. KeepsAll(F, Unread(n, m))
  BY <1>2, <1>3, SentKeeps
<1>5. flight' = Unread(n, m) \/ flight' = F \/ flight' = Sent(n, F, Up(n, "del", {d}))
  BY <1>1 DEF DelIs
<1> HIDE DEF F
<1>6. KeepsAll(Sent(n, F, Up(n, "del", {d})), F)
  BY <1>3, <1>4, SentKeeps DEF KeepsAll
<1>7. KeepsAll(flight', Unread(n, m))
  BY <1>2, <1>4, <1>5, <1>6, SameKeeps, KeepsTwice
<1>8. m \in Children(n) => below'[<<n, m>>] = After(below[<<n, m>>], Read(n, m))
  <2>1. m \in Children(n) => ~(n \in Others /\ m = Parent[n])
    BY NotBoth DEF ParentOf, Others
  <2> QED  BY <1>1, <2>1 DEF DelIs, After
<1> QED  BY <1>1, <1>7, <1>8 DEF ReadFlow, Handles, OtherStreams

LEMMA LostFlows ==
    ASSUME RoutesInv, NEW n, NEW m, <<n, m>> \in Links, LostIs(n, m), NEW l \in Links, l # <<m, n>>
    PROVE  /\ \E s \in Seq(Messages) : Wrote(flight'[l], flight[l], s)
           /\ \A ids : ids = below[<<n, m>>] => flight'[l] = Sent(n, Sent(n, flight, Up(n, "del", ids)), Down(n, ids))[l]
<1> DEFINE ids == below[<<n, m>>]
           F == Sent(n, flight, Up(n, "del", ids))
           G == Sent(n, F, Down(n, ids))
<1>1. flight \in Flights /\ n \in Contexts /\ ids \in SUBSET Contexts /\ flight' = [G EXCEPT ![<<m, n>>] = <<>>]
  BY DEF LostIs, RoutesInv, RoutingTypeOK, Flights
<1>2. flight'[l] = G[l]
  BY <1>1 DEF Sent
<1>3. Up(n, "del", ids) \in Writing /\ Down(n, ids) \in Writing
  BY <1>1, UpIs, DownIs
<1>4. KeepsAll(F, flight)
  BY <1>1, <1>3, SentKeeps
<1>5. \A j : j = ids => Sent(n, Sent(n, flight, Up(n, "del", j)), Down(n, j))[l] = G[l]
  OBVIOUS
<1> HIDE DEF F
<1>6. KeepsAll(G, F)
  BY <1>3, <1>4, SentKeeps DEF KeepsAll
<1> HIDE DEF G
<1>7. KeepsAll(G, flight)
  BY <1>1, <1>4, <1>6, KeepsTwice
<1> QED  BY <1>2, <1>5, <1>7 DEF KeepsAll

LEMMA StepFlows ==
    ASSUME RoutesInv, RoutingNext
    PROVE  \/ KeepsAll(flight', flight) /\ \A l \in Links : l[2] \in present => below'[l] = below[l]
           \/ \E n, m : ReadFlow(n, m)
           \/ \E n, m : LostIs(n, m) /\ <<n, m>> \in Links
<1>0. RoutingTypeOK /\ StreamsInv /\ MessagesIn(flight) /\ TablesInv /\ flight \in Flights
  BY DEF RoutesInv, RoutingTypeOK, Flights
<1>1. ASSUME NEW k \in Calls, SendCall(k), below' = below
      PROVE  KeepsAll(flight', flight) /\ \A l \in Links : l[2] \in present => below'[l] = below[l]
  BY <1>1, SendFlows
<1>2. ASSUME NEW x \in Others, AttachIs(Parent[x], x)
      PROVE  KeepsAll(flight', flight) /\ \A l \in Links : l[2] \in present => below'[l] = below[l]
  <2> DEFINE n == Parent[x]
  <2>1. /\ n \in Contexts /\ x \in Contexts /\ flight' = Sent(n, flight, Up(n, "add", {x}))
        /\ OtherStreams(n, x) /\ x \notin present
    BY <1>2 DEF AttachIs
  <2> HIDE DEF n
  <2>2. Up(n, "add", {x}) \in Writing
    BY <2>1, UpIs
  <2>3. \A l \in Links : l[2] \in present => below'[l] = below[l]
    <3>1. <<n, x>>[2] = x
      OBVIOUS
    <3> QED  BY <2>1, <3>1 DEF OtherStreams
  <2> QED  BY <1>0, <2>1, <2>2, <2>3, SentKeeps
<1>3. ASSUME flight' = flight, below' = below
      PROVE  KeepsAll(flight', flight) /\ \A l \in Links : l[2] \in present => below'[l] = below[l]
  BY <1>0, <1>3, SameKeeps
<1> QED  BY <1>0, <1>1, <1>2, <1>3, StepIs, PassFlows, AddFlows, DelFlows

\* With a message on its way up goes what its reader will believe when it reads it.
LEMMA BelievedWhenRead ==
    ASSUME NEW B, NEW q \in Seq(Messages), q # <<>>, NEW d
    PROVE  Believes(B, q, d, 1) <=> d \in After(B, Head(q))
<1>1. Len(q) \in Nat /\ 1 \in 1..Len(q) /\ 1 - 1 = 0 /\ Tail(q) \in Seq(Messages)
  OBVIOUS
<1>2. Believes(After(B, Head(q)), Tail(q), d, 1 - 1) <=> Believes(B, q, d, 1)
  BY <1>1, BelievesRead
<1>3. 0+1..0 = {} /\ 1..0 = {}
  OBVIOUS
<1>4. \A C, z : Believes(C, z, d, 0) <=> d \in C
  BY <1>3 DEF Believes, NoDel
<1> QED  BY <1>1, <1>2, <1>4

Still(B, q, i, C, z, j) ==
    j \in 1..Len(z) /\ z[j] = q[i] /\ \A d : Believes(C, z, d, j) <=> Believes(B, q, d, i)
Kept(m, i, j) ==
    Still(below[<<Parent[m], m>>], flight[<<m, Parent[m]>>], i,
          below'[<<Parent[m], m>>], flight'[<<m, Parent[m]>>], j)
ReadUp(m, i) ==
    /\ <<Parent[m], m>> \in Links /\ Handles(Parent[m], m) /\ Reads(Parent[m], m)
    /\ flight[<<m, Parent[m]>>][i] = Read(Parent[m], m)
    /\ \A d : Believes(below[<<Parent[m], m>>], flight[<<m, Parent[m]>>], d, i)
              <=> d \in After(below[<<Parent[m], m>>], Read(Parent[m], m))

LEMMA KeptEarlier ==
    ASSUME NEW B, NEW q \in Seq(Messages), NEW s \in Seq(Messages), NEW z, Wrote(z, q, s), NEW i \in 1..Len(q)
    PROVE  Still(B, q, i, B, z, i)
<1>1. z = q \o s
  BY DEF Wrote
<1>2. i \in 0..Len(q) /\ i \in 1..Len(q \o s) /\ (q \o s)[i] = q[i]
  OBVIOUS
<1>3. \A d : Believes(B, q \o s, d, i) <=> Believes(B, q, d, i)
  BY <1>2, BelievesEarlier
<1> QED  BY <1>1, <1>2, <1>3 DEF Still

LEMMA UpFlows ==
    ASSUME RoutesInv, RoutingNext, NEW m \in Others, m \in present, <<Parent[m], m>> \in joined \ cut,
           NEW i \in 1..Len(flight[<<m, Parent[m]>>])
    PROVE  (\E j : Kept(m, i, j)) \/ ReadUp(m, i)
<1> DEFINE l == <<m, Parent[m]>>
           k == <<Parent[m], m>>
           q == flight[l]
           B == below[k]
<1>1. /\ l \in Links /\ k \in Links /\ k[2] = m /\ k[1] = Parent[m] /\ l[1] = m /\ l # k /\ m \in Children(Parent[m])
      /\ m \in Contexts
  BY LinkIs, NotBoth, ParentIs
<1>2. flight \in Flights /\ q \in Seq(Messages)
  BY <1>1 DEF RoutesInv, RoutingTypeOK, Flights
<1>3. CASE KeepsAll(flight', flight) /\ \A y \in Links : y[2] \in present => below'[y] = below[y]
  <2>1. PICK s \in Seq(Messages) : Wrote(flight'[l], q, s)
    BY <1>1, <1>3 DEF KeepsAll
  <2>2. below'[k] = B
    BY <1>1, <1>3
  <2>3. Still(B, q, i, B, flight'[l], i)
    BY <1>2, <2>1, KeptEarlier
  <2>4. Kept(m, i, i)
    BY <2>2, <2>3 DEF Kept
  <2> QED  BY <2>4
<1>4. ASSUME NEW n, NEW x, ReadFlow(n, x), ~(m = x /\ Parent[m] = n)  PROVE Kept(m, i, i)
  <2>1. <<x, n>> \in Links /\ l # <<x, n>> /\ k # <<n, x>> /\ flight[<<x, n>>] # <<>>
    BY <1>4, LinkIs DEF ReadFlow, Reads
  <2>2. Unread(n, x)[l] = q /\ Unread(n, x) \in Flights
    BY <1>1, <1>2, <2>1, UnreadIs
  <2>3. PICK s \in Seq(Messages) : Wrote(flight'[l], Unread(n, x)[l], s)
    BY <1>1, <1>4 DEF KeepsAll, ReadFlow
  <2>4. below'[k] = B
    BY <1>1, <1>4, <2>1 DEF ReadFlow
  <2>6. Wrote(flight'[l], q, s)
    BY <2>2, <2>3
  <2>5. Still(B, q, i, B, flight'[l], i)
    BY <1>2, <2>6, KeptEarlier
  <2> QED  BY <2>4, <2>5 DEF Kept
<1>5. ASSUME ReadFlow(Parent[m], m)  PROVE (\E j : Kept(m, i, j)) \/ ReadUp(m, i)
  <2>1. q # <<>> /\ Read(Parent[m], m) = Head(q)
    BY <1>5 DEF ReadFlow, Reads, Read
  <2>2. Unread(Parent[m], m)[l] = Tail(q) /\ Unread(Parent[m], m) \in Flights
    BY <1>1, <1>2, <2>1, UnreadIs
  <2>3. PICK s \in Seq(Messages) : Wrote(flight'[l], Tail(q), s)
    BY <1>1, <1>5, <2>2 DEF KeepsAll, ReadFlow
  <2>4. below'[k] = After(B, Head(q))
    BY <1>1, <1>5, <2>1 DEF ReadFlow
  <2> DEFINE z == flight'[l]
             C == below'[k]
  <2>5. Wrote(z, Tail(q), s) /\ C = After(B, Head(q))
    BY <2>3, <2>4
  <2> HIDE DEF q, z, B, C
  <2>6. CASE i = 1
    <3>1. q[i] = Head(q)
      BY <1>2, <2>1, <2>6
    <3>2. \A d : Believes(B, q, d, i) <=> d \in After(B, Head(q))
      BY <1>2, <2>1, <2>6, BelievedWhenRead
    <3>3. ReadUp(m, i)
      BY <1>1, <1>5, <2>1, <3>1, <3>2 DEF ReadUp, ReadFlow, q, B
    <3> QED  BY <3>3
  <2>7. CASE i # 1
    <3>1. i \in 1..Len(q) /\ Len(q) \in Nat /\ Tail(q) \in Seq(Messages)
      BY <1>2, <2>1 DEF q
    <3>2. i - 1 \in 1..Len(Tail(q)) /\ Tail(q)[i - 1] = q[i]
      BY <1>2, <2>1, <2>7, <3>1
    <3>3. Still(C, Tail(q), i - 1, C, z, i - 1)
      BY <2>5, <3>1, <3>2, KeptEarlier
    <3>4. \A d : Believes(After(B, Head(q)), Tail(q), d, i - 1) <=> Believes(B, q, d, i)
      BY <1>2, <2>1, <3>1, BelievesRead
    <3>5. \A d : Believes(C, z, d, i - 1) <=> Believes(B, q, d, i)
      BY <2>5, <3>3, <3>4 DEF Still
    <3>6. Still(B, q, i, C, z, i - 1)
      BY <3>2, <3>3, <3>5 DEF Still
    <3>7. Kept(m, i, i - 1)
      BY <3>6 DEF Kept, q, z, B, C
    <3> QED  BY <3>7
  <2> QED  BY <2>6, <2>7
<1>6. ASSUME NEW n, NEW x, <<n, x>> \in Links, LostIs(n, x)  PROVE Kept(m, i, i)
  <2>1. <<n, x>> \in cut /\ OtherStreams(n, x) /\ x \in Children(n)
    BY <1>6 DEF LostIs
  <2>2. k # <<n, x>> /\ l # <<x, n>>
    BY <2>1
  <2>3. PICK s \in Seq(Messages) : Wrote(flight'[l], q, s)
    BY <1>1, <1>6, <2>2, LostFlows
  <2>4. below'[k] = B
    BY <1>1, <2>1, <2>2 DEF OtherStreams
  <2>5. Still(B, q, i, B, flight'[l], i)
    BY <1>2, <2>3, KeptEarlier
  <2> QED  BY <2>4, <2>5 DEF Kept
<1> QED  BY <1>3, <1>4, <1>5, <1>6, StepFlows

LEMMA WroteRange ==
    ASSUME NEW q \in Seq(Messages), NEW s \in Seq(Messages), NEW z, Wrote(z, q, s)
    PROVE  Range(z) = Range(q) \cup Range(s)
BY JoinedIs DEF Wrote

\* A message on its way down.
LEMMA DownFlows ==
    ASSUME RoutesInv, RoutingNext, NEW m \in Others, NEW msg \in Range(flight[<<Parent[m], m>>])
    PROVE  \/ msg \in Range(flight'[<<Parent[m], m>>])
           \/ <<m, Parent[m]>> \in Links /\ Reads(m, Parent[m]) /\ Handles(m, Parent[m]) /\ msg = Read(m, Parent[m])
<1> DEFINE l == <<Parent[m], m>>
           q == flight[l]
<1>1. l \in Links /\ <<m, Parent[m]>> \in Links /\ m \in Children(Parent[m]) /\ Parent[m] \notin Children(m)
  BY LinkIs, NotBoth, ParentIs
<1>2. flight \in Flights /\ q \in Seq(Messages) /\ msg \in Range(q)
  BY <1>1 DEF RoutesInv, RoutingTypeOK, Flights
<1> HIDE DEF q
<1>3. ASSUME NEW s \in Seq(Messages), Wrote(flight'[l], q, s)  PROVE msg \in Range(flight'[l])
  <2>1. Range(flight'[l]) = Range(q) \cup Range(s)
    BY <1>2, <1>3, WroteRange
  <2> QED  BY <1>2, <2>1
<1>4. CASE KeepsAll(flight', flight)
  BY <1>1, <1>3, <1>4 DEF KeepsAll, q
<1>5. ASSUME NEW n, NEW x, ReadFlow(n, x), ~(x = Parent[m] /\ n = m)  PROVE msg \in Range(flight'[l])
  <2>1. <<x, n>> \in Links /\ l # <<x, n>> /\ flight[<<x, n>>] # <<>>
    BY <1>5, LinkIs DEF ReadFlow, Reads
  <2>2. Unread(n, x)[l] = q
    BY <1>1, <1>2, <2>1, UnreadIs DEF q
  <2>3. PICK s \in Seq(Messages) : Wrote(flight'[l], Unread(n, x)[l], s)
    BY <1>1, <1>5 DEF KeepsAll, ReadFlow
  <2>4. Wrote(flight'[l], q, s)
    BY <2>2, <2>3
  <2> QED  BY <1>3, <2>4
<1>6. ASSUME ReadFlow(m, Parent[m]), msg # Read(m, Parent[m])  PROVE msg \in Range(flight'[l])
  <2>1. q # <<>> /\ Read(m, Parent[m]) = Head(q)
    BY <1>6 DEF ReadFlow, Reads, Read, q
  <2>2. Unread(m, Parent[m])[l] = Tail(q)
    BY <1>1, <1>2, <2>1, UnreadIs DEF q
  <2>3. PICK s \in Seq(Messages) : Wrote(flight'[l], Unread(m, Parent[m])[l], s)
    BY <1>1, <1>6 DEF KeepsAll, ReadFlow
  <2>7. Wrote(flight'[l], Tail(q), s)
    BY <2>2, <2>3
  <2>4. Tail(q) \in Seq(Messages)
    BY <1>2, <2>1
  <2>5. msg \in Range(Tail(q))
    <3>1. PICK i \in 1..Len(q) : msg = q[i]
      BY <1>2 DEF Range
    <3>2. i # 1 /\ Len(q) \in Nat
      BY <1>2, <1>6, <2>1, <3>1
    <3>3. i - 1 \in 1..Len(Tail(q)) /\ Tail(q)[i - 1] = msg
      BY <1>2, <2>1, <3>1, <3>2
    <3>4. i - 1 \in DOMAIN Tail(q)
      BY <2>4, <3>3
    <3> QED  BY <3>3, <3>4 DEF Range
  <2>6. Range(flight'[l]) = Range(Tail(q)) \cup Range(s)
    BY <2>4, <2>7, WroteRange
  <2> QED  BY <2>5, <2>6
<1>7. ASSUME NEW n, NEW x, <<n, x>> \in Links, LostIs(n, x)  PROVE msg \in Range(flight'[l])
  <2>1. l # <<x, n>>
    BY <1>1, <1>7 DEF LostIs
  <2>2. PICK s \in Seq(Messages) : Wrote(flight'[l], q, s)
    BY <1>1, <1>7, <2>1, LostFlows DEF q
  <2> QED  BY <1>3, <2>2
<1>8. CASE ReadFlow(m, Parent[m])
  BY <1>1, <1>6, <1>8 DEF ReadFlow
<1> QED  BY <1>4, <1>5, <1>7, <1>8, StepFlows

----------------------------------------------------------------------------
(* The contexts above one whose streams are not cut.                       *)

LEMMA CutDooms == ASSUME NEW m, NEW d, CutBelow(m, d)  PROVE Doomed(d)
BY UnderRoot DEF CutBelow, Doomed, Others

LEMMA PathIs ==
    ASSUME StreamsInv, NEW a \in Contexts, a \in present, ~Doomed(a), NEW x \in Others, Under(x, a)
    PROVE  /\ x \in present /\ Parent[x] \in present
           /\ <<x, Parent[x]>> \in joined \ cut /\ <<Parent[x], x>> \in joined \ cut
           /\ Reaches(<<x, Parent[x]>>) /\ Reaches(<<Parent[x], x>>)
<1>1. ASSUME NEW y \in Others, Under(y, a)  PROVE <<y, Parent[y]>> \notin cut /\ <<Parent[y], y>> \notin cut
  <2>1. Under(Root, y) /\ y # Root
    BY UnderRoot DEF Others
  <2>2. <<y, Parent[y]>> \notin cut
    BY <1>1, <2>1 DEF Doomed, CutBelow
  <2>3. <<Parent[y], y>> \notin cut
    BY <2>2 DEF StreamsInv
  <2> QED  BY <2>2, <2>3
<1>2. ASSUME NEW y \in Others, Under(y, a), y \in present
      PROVE  Parent[y] \in present /\ <<y, Parent[y]>> \in joined \ cut /\ <<Parent[y], y>> \in joined \ cut
  <2>1. <<y, Parent[y]>> \in joined \ cut
    BY <1>1, <1>2 DEF StreamsInv
  <2>2. Parent[y] \in present /\ <<Parent[y], y>> \in joined
    BY <2>1 DEF StreamsInv
  <2> QED  BY <1>1, <1>2, <2>1, <2>2
<1>3. x \in Contexts
  BY DEF Others
<1>4. x \in present
  BY <1>2, <1>3, UpInduction
<1>5. /\ Parent[x] \in present /\ <<x, Parent[x]>> \in joined \ cut /\ <<Parent[x], x>> \in joined \ cut
  BY <1>2, <1>4
<1>6. Reaches(<<x, Parent[x]>>) /\ Reaches(<<Parent[x], x>>)
  BY <1>5, LinkIs, ReachesIs
<1> QED  BY <1>4, <1>5, <1>6

LEMMA AboveRuns ==
    ASSUME StreamsInv, NEW a \in Contexts, a \in present, ~Doomed(a), NEW t \in Contexts, Under(t, a)
    PROVE  t \in present
<1>1. CASE t = Root
  BY <1>1 DEF StreamsInv
<1>2. CASE t # Root
  BY <1>2, PathIs DEF Others
<1> QED  BY <1>1, <1>2

----------------------------------------------------------------------------
(* What a step does not undo.                                              *)

LEMMA EgressStep == ASSUME RoutesInv, RoutingNext  PROVE \A l \in Links : egress[l] \subseteq egress'[l]
<1>1. ASSUME NEW k, SendCall(k)  PROVE egress' = egress
  BY <1>1 DEF SendCall
<1> QED  BY <1>1, StepIs, EgressGrows DEF RoutesInv

LEMMA OneWay == RoutingNext => unidirectional' = unidirectional
BY DEF RoutingNext, SendCall, Handle, TakeReply, HandleCall, Forward, Bounce, AddRoute, DelRoute,
       StreamLost, Attach, Departs, Cut

LEMMA WaitsSince ==
    ASSUME RoutesInv, RoutingNext, NEW k \in Calls, calling'[k] = "waiting"
    PROVE  calling[k] = "waiting" \/ SendCall(k)
<1>0. RoutingTypeOK /\ calling \in [Calls -> {"never", "before", "waiting", "answered"}]
  BY DEF RoutesInv, RoutingTypeOK
<1>1. ASSUME NEW j \in Calls, SendCall(j)  PROVE calling[k] = "waiting" \/ SendCall(k)
  BY <1>0, <1>1 DEF SendCall
<1>2. ASSUME NEW n, NEW m, <<n, m>> \in Links, Passes(n, m)  PROVE calling[k] = "waiting"
  <2>1. calling' = calling \/ \E j : calling' = Replied(j)
    BY <1>2 DEF Passes, TakeReply, HandleCall, Forward, Bounce
  <2> QED  BY <1>0, <2>1 DEF Replied
<1>3. ASSUME NEW j, NEW ids, calling' = Fired(j, ids)  PROVE calling[k] = "waiting"
  BY <1>0, <1>3, FiredIs
<1>4. ASSUME NEW n, NEW m, <<n, m>> \in Links, DelRoute(n, m)
      PROVE  calling' = calling \/ \E j, ids : calling' = Fired(j, ids)
  BY <1>4 DEF DelRoute
<1>5. ASSUME NEW n, NEW m, <<n, m>> \in Links, AddRoute(n, m)  PROVE calling' = calling
  BY <1>5 DEF AddRoute
<1>6. ASSUME NEW n, NEW m, LostIs(n, m)  PROVE \E j, ids : calling' = Fired(j, ids)
  BY <1>6 DEF LostIs
<1> QED  BY <1>1, <1>2, <1>3, <1>4, <1>5, <1>6, StepIs DEF RoutesInv

LEMMA StillRuns ==
    ASSUME RoutesInv, RoutingNext, NEW n \in present, ~Doomed(n)'  PROVE n \in present'
<1>1. ASSUME NEW x \in Others, Departs(x)  PROVE n # x
  <2> SUFFICES ASSUME n = x  PROVE FALSE
    OBVIOUS
  <2>1. <<n, Parent[n]>> \in cut'
    BY <1>1, LinkIs DEF Departs
  <2>2. Under(n, n) /\ Under(Root, n) /\ n # Root /\ n \in Others
    BY <1>1, UnderSelf, UnderRoot DEF Others
  <2>3. (CutBelow(Root, n))'
    BY <2>1, <2>2 DEF CutBelow
  <2> QED  BY <2>3 DEF Doomed
<1>2. ASSUME NEW x \in Others, Departs(x) \/ Cut(x)  PROVE present' = present \/ (Departs(x) /\ present' = present \ {x})
  BY <1>2 DEF Departs, Cut
<1> QED  BY <1>1, <1>2, StepIs DEF RoutesInv, Stays, AttachIs

\* A route goes when its child says so, or is lost.
Removes(n, d) ==
    LET c == route[n][d] IN
    /\ c \in Children(n) /\ <<n, c>> \in Links /\ CutBelow(n, d)
    /\ \/ DelRoute(n, c) /\ Read(n, c).about = d /\ d \in DOMAIN route[n]
       \/ LostIs(n, c) /\ d \in below[<<n, c>>]

LEMMA RouteGoes ==
    ASSUME RoutesInv, RoutingNext, NEW n \in present, NEW d \in DOMAIN route[n]
    PROVE  Removes(n, d) \/ (d \in DOMAIN route'[n] /\ route'[n][d] = route[n][d])
<1> DEFINE c == route[n][d]
           Same == d \in DOMAIN route'[n] /\ route'[n][d] = route[n][d]
<1>0. RoutingTypeOK /\ StreamsInv /\ MessagesIn(flight) /\ TablesInv /\ TablesOf(n)
  BY DEF RoutesInv, TablesInv
<1>1. /\ n \in Contexts /\ d \in Contexts /\ c \in Children(n) /\ Under(c, d) /\ d \in below[<<n, c>>] /\ <<n, c>> \in joined
      /\ <<n, c>> \in Links
  BY <1>0, KnownIsBelow, ParentIs, LinkIs
<1> HIDE DEF c
<1>2. ASSUME NEW x, OtherTables(x), n # x  PROVE Same
  BY <1>1, <1>2 DEF OtherTables
<1>3. ASSUME NEW x, NEW m, <<x, m>> \in Links, AddRoute(x, m)  PROVE Same
  <2> DEFINE e == Read(x, m).about
  <2>1. AddIs(x, m, e)
    BY <1>0, <1>3, AddRouteIs
  <2> HIDE DEF e
  <2>2. CASE x = n
    BY <2>1, <2>2 DEF AddIs
  <2> QED  BY <1>2, <2>1, <2>2 DEF AddIs, OtherStreams
<1>4. ASSUME NEW x, NEW m, <<x, m>> \in Links, DelRoute(x, m)  PROVE Removes(n, d) \/ Same
  <2> DEFINE e == Read(x, m).about
  <2>1. OtherStreams(x, m) /\ DelIs(x, m, e) /\ Reads(x, m) /\ Read(x, m).kind = "del"
    BY <1>0, <1>4, DelRouteIs
  <2>2. CASE x # n
    BY <1>2, <2>1, <2>2 DEF OtherStreams
  <2>3. CASE x = n /\ ~(e = d /\ m = c)
    <3> HIDE DEF e
    <3> QED  BY <2>1, <2>3 DEF DelIs, SameRoute, c
  <2>4. CASE x = n /\ e = d /\ m = c
    <3>1. CutBelow(c, d)
      <4>1. ~(n \in Others /\ c = Parent[n])
        BY <1>1, NotBoth DEF ParentOf, Others
      <4> QED  BY <1>0, <1>4, <2>1, <2>4, <4>1, ReadNews
    <3>2. CutBelow(n, d)
      BY <1>1, <3>1, AboutChild
    <3> QED  BY <1>1, <1>4, <2>4, <3>2 DEF Removes, c
  <2> QED  BY <2>2, <2>3, <2>4
<1>5. ASSUME NEW x, NEW m, <<x, m>> \in Links, LostIs(x, m)  PROVE Removes(n, d) \/ Same
  <2>1. /\ OtherStreams(x, m) /\ m \in Children(x) /\ <<m, x>> \in cut
        /\ DOMAIN route'[x] = DOMAIN route[x] \ below[<<x, m>>]
        /\ \A e \in DOMAIN route'[x] : route'[x][e] = route[x][e]
    BY <1>5 DEF LostIs
  <2>2. CASE x # n
    BY <1>2, <2>1, <2>2 DEF OtherStreams
  <2>3. CASE x = n /\ d \notin below[<<n, m>>]
    BY <2>1, <2>3
  <2>4. CASE x = n /\ d \in below[<<n, m>>]
    <3>1. m = c
      BY <1>0, <2>1, <2>4 DEF TablesOf, c
    <3>2. CutBelow(n, d)
      BY <1>1, <2>1, <2>4, <3>1, AboutChild
    <3> QED  BY <1>1, <1>5, <2>4, <3>1, <3>2 DEF Removes, c
  <2> QED  BY <2>2, <2>3, <2>4
<1>6. ASSUME NEW x, NEW m, AttachIs(x, m)  PROVE Same
  <2>1. /\ OtherStreams(x, m) /\ m \in Children(x) /\ m \notin present /\ <<x, m>> \notin cut
        /\ DOMAIN route'[x] = DOMAIN route[x] \cup {m}
        /\ \A e \in DOMAIN route[x] : e # m => route'[x][e] = route[x][e]
    BY <1>6 DEF AttachIs
  <2>2. CASE x # n
    BY <1>2, <2>1, <2>2 DEF OtherStreams
  <2>3. CASE x = n /\ d # m
    BY <2>1, <2>3
  <2>4. CASE x = n /\ d = m
    <3>1. c = m
      BY <1>1, <2>1, <2>4, UnderSelf, OneChildAbove
    <3>2. <<n, m>> \in joined \ cut /\ <<n, m>>[2] = m
      BY <1>1, <2>1, <2>4, <3>1
    <3>3. m \in present
      BY <1>0, <3>2 DEF StreamsInv
    <3> QED  BY <2>1, <3>3
  <2> QED  BY <2>2, <2>3, <2>4
<1>7. ASSUME route' = route  PROVE Same
  BY <1>7
<1>8. ASSUME NEW x \in Others, Departs(x) \/ Cut(x)  PROVE route' = route
  BY <1>8 DEF Departs, Cut
<1> HIDE DEF Same
<1>9. Removes(n, d) \/ Same
  BY <1>0, <1>3, <1>4, <1>5, <1>6, <1>7, <1>8, StepIs
<1> QED  BY <1>9 DEF Same

LEMMA RouteKept ==
    ASSUME RoutesInv, RoutingNext, NEW n \in present, NEW d \in DOMAIN route[n], ~Doomed(d)
    PROVE  d \in DOMAIN route'[n] /\ route'[n][d] = route[n][d]
BY RouteGoes, CutDooms DEF Removes

----------------------------------------------------------------------------
(* Where a call is that waits.                                             *)

\* All above the caller, up to m, have sent something to the callee the way down.
AsksUpIn(E, k, m) ==
    \A x \in Others : Under(x, Caller[k]) /\ Under(m, x) /\ x # m => Callee[k] \in E[<<Parent[x], x>>]
AsksUp(k, m) == AsksUpIn(egress, k, m)

CallsFor(msg, k) == msg.kind = "call" /\ msg.about = k
Answers(msg, k) == msg.kind \in {"reply", "dead"} /\ msg.about = k

\* The reader will know the caller and not the callee.
AsksAt(k, m, i) ==
    LET q == flight[<<m, Parent[m]>>]
        B == below[<<Parent[m], m>>] IN
    /\ i \in 1..Len(q) /\ CallsFor(q[i], k)
    /\ Believes(B, q, Caller[k], i) /\ ~Believes(B, q, Callee[k], i)
OnItsWayUp(k) ==
    \E m \in Others : Under(m, Caller[k]) /\ AsksUp(k, m) /\ \E i : AsksAt(k, m, i)

ComesBack(k) ==
    \E m \in Others :
        /\ Under(m, Caller[k]) /\ Caller[k] \in DOMAIN route[Parent[m]]
        /\ \E msg \in Range(flight[<<Parent[m], m>>]) : Answers(msg, k) /\ ~Under(m, msg.src)

NewsComesBack(k) ==
    \E m \in Others :
        /\ Under(m, Caller[k]) /\ AsksUp(k, m) /\ ~Under(m, Callee[k])
        /\ \E msg \in Range(flight[<<Parent[m], m>>]) : IsDel(msg, Callee[k])

GoesDown(k, c) ==
    \E x \in Others :
        /\ Under(c, x) /\ Under(x, Callee[k])
        /\ \E msg \in Range(flight[<<Parent[x], x>>]) : CallsFor(msg, k)
RepliesAt(k, x, i) ==
    LET q == flight[<<x, Parent[x]>>]
        B == below[<<Parent[x], x>>] IN
    i \in 1..Len(q) /\ Answers(q[i], k) /\ Under(x, q[i].src) /\ Believes(B, q, q[i].src, i)
ReturnsUp(k, c) ==
    \E x \in Others : Under(c, x) /\ Under(x, Callee[k]) /\ \E i : RepliesAt(k, x, i)

\* The call went down from t to the callee, and so comes its reply, or the news of its end.
Crosses(k, t) ==
    CutBelow(t, Callee[k]) \/ GoesDown(k, route[t][Callee[k]]) \/ ReturnsUp(k, route[t][Callee[k]])
TurnsAt(k, t) ==
    /\ Under(t, Caller[k]) /\ AsksUp(k, t)
    /\ Caller[k] = t \/ (Caller[k] \in DOMAIN route[t] /\ ~unidirectional)
    /\ Callee[k] \in DOMAIN route[t] /\ ~Under(route[t][Callee[k]], Caller[k])
Turned(k) == \E t \in Contexts : TurnsAt(k, t) /\ Crosses(k, t)

Waits(k) == OnItsWayUp(k) \/ ComesBack(k) \/ NewsComesBack(k) \/ Turned(k)
WaitInv ==
    \A k \in Calls :
        calling[k] = "waiting" => Doomed(Caller[k]) \/ (Caller[k] \in present /\ Waits(k))

LEMMA AsksStay ==
    ASSUME RoutesInv, RoutingNext, NEW k, NEW m, AsksUp(k, m)  PROVE AsksUpIn(egress', k, m)
<1>1. \A x \in Others : egress[<<Parent[x], x>>] \subseteq egress'[<<Parent[x], x>>]
  BY EgressStep, LinkIs
<1> QED  BY <1>1 DEF AsksUp, AsksUpIn

LEMMA AsksMore ==
    ASSUME NEW E, NEW k \in Calls, NEW m \in Others, Under(m, Caller[k]), AsksUpIn(E, k, m),
           Callee[k] \in E[<<Parent[m], m>>]
    PROVE  AsksUpIn(E, k, Parent[m])
<1> SUFFICES ASSUME NEW x \in Others, Under(x, Caller[k]), Under(Parent[m], x), x # Parent[m]
             PROVE  Callee[k] \in E[<<Parent[x], x>>]
  BY DEF AsksUpIn
<1>1. x \in Contexts /\ Parent[m] \in Contexts /\ Caller[k] \in Contexts /\ m \in Children(Parent[m])
  BY ParentIs, CallOK DEF Others
<1>2. PICK c \in Children(Parent[m]) : Under(c, x)
  BY <1>1, UnderStep
<1>3. Under(c, Caller[k])
  BY <1>2, UnderTrans
<1>4. c = m
  BY <1>1, <1>3, OneChildAbove
<1> QED  BY <1>2, <1>4 DEF AsksUpIn

LEMMA AsksLess ==
    ASSUME NEW E, NEW k, NEW c \in Others, AsksUpIn(E, k, Parent[c])  PROVE AsksUpIn(E, k, c)
<1>1. ASSUME NEW x, Under(c, x)  PROVE Under(Parent[c], x) /\ x # Parent[c]
  BY <1>1, UnderChild, UnderTrans, NotUnderChild
<1> QED  BY <1>1 DEF AsksUpIn

LEMMA AsksNothing ==
    ASSUME NEW E, NEW k \in Calls  PROVE AsksUpIn(E, k, Caller[k])
<1>1. \A x \in Others : Under(x, Caller[k]) /\ Under(Caller[k], x) => x = Caller[k]
  BY UnderBoth, CallOK DEF Others
<1> QED  BY <1>1 DEF AsksUpIn

\* What was written last.
LastIs(q, msg) == Len(q) \in 1..Len(q) /\ q[Len(q)] = msg /\ msg \in Range(q)

LEMMA MessageSent ==
    ASSUME NEW n, NEW y, NEW Q \in Flights, NEW msg \in Messages, <<n, y>> \in Links, Reaches(<<n, y>>),
           flight' = Sent(n, Q, Only(y, msg))
    PROVE  LastIs(flight'[<<n, y>>], msg)
<1> DEFINE l == <<n, y>>
           q == Q[l]
<1>1. l \in Links /\ l[1] = n /\ l[2] = y /\ y \in Contexts /\ q \in Seq(Messages)
  BY LinkIs DEF Flights
<1>2. Sent(n, Q, Only(y, msg))[l] = Q[l] \o Only(y, msg)[l[2]]
  BY <1>1 DEF Sent
<1>3. Only(y, msg)[y] = <<msg>>
  BY <1>1 DEF Only
<1>4. flight'[l] = q \o <<msg>>
  BY <1>1, <1>2, <1>3
<1> HIDE DEF q
<1>5. /\ Len(q \o <<msg>>) = Len(q) + 1 /\ Len(q) \in Nat /\ (q \o <<msg>>)[Len(q) + 1] = msg
      /\ DOMAIN (q \o <<msg>>) = 1..(Len(q) + 1)
  BY <1>1
<1>6. Len(q) + 1 \in 1..(Len(q) + 1)
  BY <1>5
<1>7. msg \in Range(q \o <<msg>>)
  BY <1>5, <1>6 DEF Range
<1>8. LastIs(q \o <<msg>>, msg)
  BY <1>5, <1>6, <1>7 DEF LastIs
<1> QED  BY <1>4, <1>8

LEMMA ReplySent ==
    ASSUME NEW n \in Contexts, NEW y, NEW Q \in Flights, NEW k \in Calls, NEW src \in Contexts,
           NEW kind \in {"reply", "dead"}, <<n, y>> \in Links, Reaches(<<n, y>>),
           OutStream(n, src, n, n) = y, flight' = Sent(n, Q, ReplyTo(n, kind, src, k))
    PROVE  \E msg : Answers(msg, k) /\ msg.src = n /\ LastIs(flight'[<<n, y>>], msg)
<1> DEFINE msg == Message(kind, src, n, k)
<1>1. msg \in Messages /\ Answers(msg, k) /\ msg.src = n
  BY DEF Message, Messages, Answers
<1>2. flight' = Sent(n, Q, Only(y, msg))
  BY DEF ReplyTo
<1> HIDE DEF msg
<1>3. LastIs(flight'[<<n, y>>], msg)
  BY <1>1, <1>2, MessageSent
<1> QED  BY <1>1, <1>3

\* What becomes of a message that was verified.
LEMMA PassIs ==
    ASSUME RoutesInv, NEW n, NEW m, <<n, m>> \in Links, Passes(n, m), Verified(n, m)
    PROVE  /\ UNCHANGED <<present, joined, cut, route, below>>
           /\ Read(n, m).dst \in egress'[<<n, m>>]
           /\ Read(n, m).dst = n /\ Read(n, m).kind \in {"reply", "dead"} => calling' = Replied(Read(n, m).about)
           /\ \A onto : onto = OutStream(n, Read(n, m).dst, Read(n, m).src, m) =>
                 /\ Read(n, m).dst # n /\ onto # Nowhere /\ ~Forbidden(n, m, onto)
                    => flight' = Sent(n, Unread(n, m), Only(onto, Read(n, m)))
                 /\ Read(n, m).kind = "call" /\ (Read(n, m).dst = n \/ onto = Nowhere \/ Forbidden(n, m, onto))
                    => \E kind \in {"reply", "dead"} :
                          flight' = Sent(n, Unread(n, m), ReplyTo(n, kind, Read(n, m).src, Read(n, m).about))
<1> DEFINE msg == Read(n, m)
           onto == OutStream(n, msg.dst, msg.src, m)
<1>1. Onward(n, m) = IF onto # Nowhere /\ Forbidden(n, m, onto) THEN Nowhere ELSE onto
  BY DEF Onward
<1>2. UNCHANGED <<present, joined, cut, route, below>>
  BY DEF Passes, TakeReply, HandleCall, Forward, Bounce
<1>3. msg.dst \in egress'[<<n, m>>]
  <2>1. Reads(n, m) /\ Seen(n, m)
    BY DEF Passes, TakeReply, HandleCall, Forward, Bounce
  <2> QED  BY <2>1, ReadIs, SeenIs DEF RoutesInv
<1> HIDE DEF onto, msg
<1>4. msg.dst = n /\ msg.kind \in {"reply", "dead"} => calling' = Replied(msg.about)
  BY DEF Passes, TakeReply, HandleCall, Forward, Bounce, msg
<1>5. msg.dst # n /\ onto # Nowhere /\ ~Forbidden(n, m, onto) => flight' = Sent(n, Unread(n, m), Only(onto, msg))
  <2> SUFFICES ASSUME msg.dst # n, onto # Nowhere, ~Forbidden(n, m, onto)
               PROVE  flight' = Sent(n, Unread(n, m), Only(onto, msg))
    OBVIOUS
  <2>1. Onward(n, m) = onto
    BY <1>1
  <2>2. Forward(n, m)
    BY <2>1 DEF Passes, TakeReply, HandleCall, Bounce, msg
  <2> QED  BY <2>1, <2>2 DEF Forward, msg
<1>6. msg.kind = "call" /\ (msg.dst = n \/ onto = Nowhere \/ Forbidden(n, m, onto))
      => \E kind \in {"reply", "dead"} : flight' = Sent(n, Unread(n, m), ReplyTo(n, kind, msg.src, msg.about))
  <2> SUFFICES ASSUME msg.kind = "call", msg.dst = n \/ onto = Nowhere \/ Forbidden(n, m, onto)
               PROVE  \E kind \in {"reply", "dead"} :
                         flight' = Sent(n, Unread(n, m), ReplyTo(n, kind, msg.src, msg.about))
    OBVIOUS
  <2>1. msg.dst = n \/ Onward(n, m) = Nowhere
    BY <1>1
  <2>2. HandleCall(n, m) \/ Bounce(n, m)
    BY <2>1 DEF Passes, TakeReply, Forward, msg
  <2> QED  BY <2>2 DEF HandleCall, Bounce, msg
<1> QED  BY <1>2, <1>3, <1>4, <1>5, <1>6 DEF onto, msg

----------------------------------------------------------------------------
(* A call that waits goes on, or is turned.                                *)

StepOf(k) ==
    /\ RoutesInv /\ RoutesInv' /\ RoutingNext /\ k \in Calls /\ calling'[k] = "waiting"
    /\ Caller[k] \in present /\ ~Doomed(Caller[k]) /\ Caller[k] # Callee[k]
    /\ Caller[k] \in Contexts /\ Callee[k] \in Contexts

LEMMA StepPath ==
    ASSUME NEW k, StepOf(k), NEW x \in Others, Under(x, Caller[k])
    PROVE  /\ x \in present /\ Parent[x] \in present /\ x \in Contexts /\ Parent[x] \in Contexts /\ x \in Children(Parent[x])
           /\ <<x, Parent[x]>> \in joined \ cut /\ <<Parent[x], x>> \in joined \ cut
           /\ <<x, Parent[x]>> \in Links /\ <<Parent[x], x>> \in Links
           /\ Reaches(<<x, Parent[x]>>) /\ Reaches(<<Parent[x], x>>)
<1>1. StreamsInv /\ Caller[k] \in Contexts /\ Caller[k] \in present /\ ~Doomed(Caller[k])
  BY DEF StepOf, RoutesInv
<1> QED  BY <1>1, PathIs, LinkIs, ParentIs

\* A call that goes down a stream gets to it, unless the callee is cut off.
LEMMA WentDown ==
    ASSUME RoutesInv, NEW n \in present, NEW k \in Calls, Callee[k] \in DOMAIN route[n], NEW c, c = route[n][Callee[k]],
           Stays, NEW Q \in Flights, NEW msg \in Messages, CallsFor(msg, k), flight' = Sent(n, Q, Only(c, msg))
    PROVE  /\ c \in Others /\ Parent[c] = n /\ Under(c, Callee[k])
           /\ CutBelow(n, Callee[k]) \/ \E z \in Range(flight'[<<Parent[c], c>>]) : CallsFor(z, k)
<1>1. /\ c \in Children(n) /\ Under(c, Callee[k]) /\ <<n, c>> \in joined /\ Callee[k] \in Contexts
      /\ c \in Others /\ Parent[c] = n /\ <<n, c>> \in Links
  <2>1. c \in Children(n) /\ Under(c, Callee[k]) /\ <<n, c>> \in joined /\ Callee[k] \in Contexts
    BY KnownIsBelow DEF RoutesInv
  <2>2. c \in Others /\ Parent[c] = n
    BY <2>1, ParentIs
  <2>3. <<n, c>> \in Links
    BY <2>2, LinkIs
  <2> QED  BY <2>1, <2>2, <2>3
<1>2. CASE <<n, c>> \in cut
  <2>1. <<c, n>> \in cut
    BY <1>2 DEF RoutesInv, StreamsInv
  <2>2. CutBelow(n, Callee[k])
    BY <1>1, <2>1, AboutChild
  <2> QED  BY <1>1, <2>2
<1>3. CASE <<n, c>> \notin cut
  <2>1. Reaches(<<n, c>>)
    BY <1>1, <1>3, ReachesIs DEF RoutesInv
  <2>2. LastIs(flight'[<<n, c>>], msg)
    BY <1>1, <2>1, MessageSent
  <2> QED  BY <1>1, <2>2 DEF LastIs
<1> QED  BY <1>2, <1>3

\* What is written last is believed to come from one who is known.
LEMMA BelievedLast ==
    ASSUME RoutesInv', NEW x \in Others, <<Parent[x], x>> \in joined' \ cut', NEW d \in Contexts
    PROVE  (d = x \/ d \in DOMAIN route'[x])
           <=> Believes(below'[<<Parent[x], x>>], flight'[<<x, Parent[x]>>], d, Len(flight'[<<x, Parent[x]>>]))
BY DEF RoutesInv, BelievedInv, BelievedOf

AskRead(k, m) ==
    /\ m \in Others /\ Under(m, Caller[k]) /\ AsksUp(k, m)
    /\ Reads(Parent[m], m) /\ Passes(Parent[m], m) /\ CallsFor(Read(Parent[m], m), k)
    /\ Caller[k] \in below[<<Parent[m], m>>] /\ Callee[k] \notin below[<<Parent[m], m>>]

LEMMA AskReadIs ==
    ASSUME NEW k, NEW m, StepOf(k), AskRead(k, m)
    PROVE  LET p == Parent[m] IN
           /\ Caller[k] \in DOMAIN route[p] /\ route[p][Caller[k]] = m /\ Verified(p, m)
           /\ Read(p, m).src = Caller[k] /\ Read(p, m).dst = Callee[k] /\ Read(p, m).kind = "call"
           /\ Read(p, m).about = k /\ Read(p, m) \in Messages /\ OfCall(Read(p, m)) /\ Unread(p, m) \in Flights
           /\ AsksUpIn(egress', k, p) /\ UNCHANGED <<present, joined, cut, route, below>>
<1> DEFINE p == Parent[m]
<1>1. /\ m \in Others /\ Under(m, Caller[k]) /\ AsksUp(k, m) /\ k \in Calls
      /\ Reads(p, m) /\ Passes(p, m) /\ CallsFor(Read(p, m), k)
      /\ Caller[k] \in below[<<p, m>>] /\ RoutesInv /\ RoutingNext
  BY DEF AskRead, StepOf
<1>2. p \in present /\ m \in Children(p) /\ <<p, m>> \in Links /\ p \in Contexts
  BY <1>1, StepPath
<1> HIDE DEF p
<1>3. Caller[k] \in DOMAIN route[p] /\ route[p][Caller[k]] = m
  BY <1>1, <1>2 DEF RoutesInv, TablesInv, TablesOf
<1>4. OfCall(Read(p, m)) /\ Read(p, m) \in Messages /\ Unread(p, m) \in Flights
  BY <1>1, <1>2, PassesFlow, ReadIs DEF RoutesInv
<1>5. Read(p, m).kind = "call" /\ Read(p, m).about = k
  BY <1>1 DEF CallsFor
<1>6. Read(p, m).src = Caller[k] /\ Read(p, m).dst = Callee[k]
  BY <1>4, <1>5 DEF OfCall
<1>7. Verified(p, m)
  BY <1>3, <1>6 DEF Verified, StreamById
<1>8. Callee[k] \in egress'[<<p, m>>] /\ UNCHANGED <<present, joined, cut, route, below>>
  BY <1>1, <1>2, <1>6, <1>7, PassIs
<1>9. AsksUpIn(egress', k, m)
  BY <1>1, AsksStay
<1>10. AsksUpIn(egress', k, p)
  BY <1>1, <1>8, <1>9, AsksMore DEF p
<1> QED  BY <1>3, <1>4, <1>5, <1>6, <1>7, <1>8, <1>10 DEF p

\* The context that reads the call answers it.
LEMMA AskAnswered ==
    ASSUME NEW k, NEW m, StepOf(k), AskRead(k, m),
           NEW onto, onto = OutStream(Parent[m], Callee[k], Caller[k], m),
           Callee[k] = Parent[m] \/ onto = Nowhere \/ Forbidden(Parent[m], m, onto)
    PROVE  ComesBack(k)'
<1> DEFINE p == Parent[m]
<1>1. /\ m \in Others /\ Under(m, Caller[k]) /\ k \in Calls /\ Passes(p, m) /\ RoutesInv /\ Caller[k] \in Contexts
  BY DEF AskRead, StepOf
<1>2. p \in present /\ p \in Contexts /\ m \in Children(p) /\ <<p, m>> \in Links /\ Reaches(<<p, m>>)
  BY <1>1, StepPath
<1>3. /\ Caller[k] \in DOMAIN route[p] /\ route[p][Caller[k]] = m /\ Verified(p, m) /\ Unread(p, m) \in Flights
      /\ Read(p, m).src = Caller[k] /\ Read(p, m).dst = Callee[k] /\ Read(p, m).kind = "call"
      /\ Read(p, m).about = k /\ route' = route
  BY AskReadIs
<1> HIDE DEF p
<1>4. onto = OutStream(p, Read(p, m).dst, Read(p, m).src, m) /\ (Read(p, m).dst = p \/ onto = Nowhere \/ Forbidden(p, m, onto))
  BY <1>3 DEF p
<1>5. PICK kind \in {"reply", "dead"} : flight' = Sent(p, Unread(p, m), ReplyTo(p, kind, Caller[k], k))
  BY <1>1, <1>2, <1>3, <1>4, PassIs
<1>6. OutStream(p, Caller[k], p, p) = m
  BY <1>3 DEF OutStream
<1>7. PICK z : Answers(z, k) /\ z.src = p /\ LastIs(flight'[<<p, m>>], z)
  BY <1>1, <1>2, <1>3, <1>5, <1>6, ReplySent
<1>8. ~Under(m, z.src) /\ Caller[k] \in DOMAIN route'[p] /\ z \in Range(flight'[<<p, m>>])
  BY <1>1, <1>3, <1>7, NotUnderChild DEF LastIs, p
<1>9. Under(m, Caller[k]) /\ Caller[k] \in DOMAIN route'[Parent[m]]
      /\ \E msg \in Range(flight'[<<Parent[m], m>>]) : Answers(msg, k) /\ ~Under(m, msg.src)
  BY <1>1, <1>7, <1>8 DEF p
<1> QED  BY <1>1, <1>9 DEF ComesBack

\* It sends the call down to another child.
LEMMA AskTurned ==
    ASSUME NEW k, NEW m, StepOf(k), AskRead(k, m),
           NEW onto, onto = OutStream(Parent[m], Callee[k], Caller[k], m), Callee[k] \in DOMAIN route[Parent[m]],
           ~(Callee[k] = Parent[m] \/ onto = Nowhere \/ Forbidden(Parent[m], m, onto))
    PROVE  Turned(k)'
<1> DEFINE p == Parent[m]
<1>1. /\ m \in Others /\ Under(m, Caller[k]) /\ k \in Calls /\ Passes(p, m) /\ RoutesInv
      /\ Caller[k] \in Contexts /\ Callee[k] \in Contexts /\ RoutingNext /\ Callee[k] \notin below[<<p, m>>]
  BY DEF AskRead, StepOf
<1>2. p \in present /\ p \in Contexts /\ m \in Children(p) /\ <<p, m>> \in Links /\ Under(p, Caller[k])
  BY <1>1, StepPath, AboutChild
<1>3. /\ Caller[k] \in DOMAIN route[p] /\ route[p][Caller[k]] = m /\ Verified(p, m) /\ Unread(p, m) \in Flights
      /\ Read(p, m).src = Caller[k] /\ Read(p, m).dst = Callee[k] /\ CallsFor(Read(p, m), k) /\ Read(p, m) \in Messages
      /\ route' = route /\ Stays /\ AsksUpIn(egress', k, p)
  BY AskReadIs DEF CallsFor, Stays
<1>4. Callee[k] \in DOMAIN route[p] /\ onto = route[p][Callee[k]]
  BY DEF OutStream
<1>5. /\ Read(p, m).dst # p /\ onto = OutStream(p, Read(p, m).dst, Read(p, m).src, m)
      /\ onto # Nowhere /\ ~Forbidden(p, m, onto)
  BY <1>3
<1> HIDE DEF p
<1>6. flight' = Sent(p, Unread(p, m), Only(onto, Read(p, m)))
  BY <1>1, <1>2, <1>3, <1>5, PassIs
<1>7. /\ onto \in Others /\ Parent[onto] = p /\ Under(onto, Callee[k])
      /\ CutBelow(p, Callee[k]) \/ \E z \in Range(flight'[<<Parent[onto], onto>>]) : CallsFor(z, k)
  BY <1>1, <1>2, <1>3, <1>4, <1>6, WentDown
<1>8. onto # m
  BY <1>1, <1>2, <1>4, KnownIsBelow DEF RoutesInv
<1>9. onto \in Children(p) /\ ~Under(onto, Caller[k])
  BY <1>1, <1>2, <1>7, <1>8, ParentIs, OneChildAbove
<1>10. ~unidirectional'
  <2>1. ~unidirectional
    BY <1>2, <1>5, <1>9, NotBoth DEF Forbidden
  <2> QED  BY <1>1, <2>1, OneWay
<1>11. TurnsAt(k, p)'
  BY <1>2, <1>3, <1>4, <1>9, <1>10 DEF TurnsAt, AsksUp
<1>12. Crosses(k, p)'
  <2>1. route'[p][Callee[k]] = onto
    BY <1>3, <1>4
  <2>2. ASSUME \E z \in Range(flight'[<<Parent[onto], onto>>]) : CallsFor(z, k)
        PROVE  \E x \in Others : /\ Under(onto, x) /\ Under(x, Callee[k])
                                 /\ \E msg \in Range(flight'[<<Parent[x], x>>]) : CallsFor(msg, k)
    BY <1>7, <2>2, UnderSelf
  <2>3. CutBelow(p, Callee[k]) => CutBelow(p, Callee[k])'
    BY <1>3, CutGrows DEF Stays
  <2> QED  BY <1>7, <2>1, <2>2, <2>3 DEF Crosses, GoesDown
<1> QED  BY <1>2, <1>11, <1>12 DEF Turned

\* It sends the call up.
LEMMA AskGoesOn ==
    ASSUME NEW k, NEW m, StepOf(k), AskRead(k, m),
           NEW onto, onto = OutStream(Parent[m], Callee[k], Caller[k], m), Callee[k] \notin DOMAIN route[Parent[m]],
           ~(Callee[k] = Parent[m] \/ onto = Nowhere \/ Forbidden(Parent[m], m, onto))
    PROVE  OnItsWayUp(k)'
<1> DEFINE p == Parent[m]
<1>1. /\ m \in Others /\ Under(m, Caller[k]) /\ k \in Calls /\ Passes(p, m) /\ RoutesInv /\ RoutesInv'
      /\ Caller[k] \in Contexts /\ Callee[k] \in Contexts
  BY DEF AskRead, StepOf
<1>2. p \in present /\ p \in Contexts /\ m \in Children(p) /\ <<p, m>> \in Links /\ Under(p, Caller[k])
  BY <1>1, StepPath, AboutChild
<1>3. /\ Caller[k] \in DOMAIN route[p] /\ Verified(p, m) /\ Unread(p, m) \in Flights
      /\ Read(p, m).src = Caller[k] /\ Read(p, m).dst = Callee[k] /\ CallsFor(Read(p, m), k) /\ Read(p, m) \in Messages
      /\ UNCHANGED <<present, joined, cut, route, below>> /\ AsksUpIn(egress', k, p)
  BY AskReadIs DEF CallsFor
<1>4. HasParent(p) /\ onto = Parent[p]
  BY DEF OutStream
<1>5. /\ Read(p, m).dst # p /\ onto = OutStream(p, Read(p, m).dst, Read(p, m).src, m)
      /\ onto # Nowhere /\ ~Forbidden(p, m, onto)
  BY <1>3
<1>6. Callee[k] # p /\ Callee[k] \notin DOMAIN route[p]
  OBVIOUS
<1> HIDE DEF p
<1>7. flight' = Sent(p, Unread(p, m), Only(onto, Read(p, m)))
  BY <1>1, <1>2, <1>3, <1>5, PassIs
<1>8. p \in Others
  BY <1>2, <1>4 DEF HasParent, Others
<1>9. /\ <<p, Parent[p]>> \in Links /\ Reaches(<<p, Parent[p]>>) /\ <<Parent[p], p>> \in joined \ cut
  BY <1>2, <1>8, StepPath
<1>10. LastIs(flight'[<<p, Parent[p]>>], Read(p, m))
  BY <1>3, <1>4, <1>7, <1>9, MessageSent
<1>11. <<Parent[p], p>> \in joined' \ cut'
  BY <1>3, <1>9
<1>12. /\ Believes(below'[<<Parent[p], p>>], flight'[<<p, Parent[p]>>], Caller[k], Len(flight'[<<p, Parent[p]>>]))
       /\ ~Believes(below'[<<Parent[p], p>>], flight'[<<p, Parent[p]>>], Callee[k], Len(flight'[<<p, Parent[p]>>]))
  <2>1. Caller[k] \in DOMAIN route'[p] /\ ~(Callee[k] = p \/ Callee[k] \in DOMAIN route'[p])
    BY <1>3, <1>6
  <2> QED  BY <1>1, <1>8, <1>11, <2>1, BelievedLast
<1>13. AsksAt(k, p, Len(flight[<<p, Parent[p]>>]))'
  BY <1>3, <1>10, <1>12 DEF AsksAt, LastIs
<1> QED  BY <1>2, <1>3, <1>8, <1>13 DEF OnItsWayUp, AsksUp

LEMMA UpStep == ASSUME NEW k, StepOf(k), OnItsWayUp(k)  PROVE Waits(k)'
<1>0. RoutesInv /\ RoutingNext
  BY DEF StepOf
<1>1. PICK m \in Others : Under(m, Caller[k]) /\ AsksUp(k, m) /\ \E i : AsksAt(k, m, i)
  BY DEF OnItsWayUp
<1>2. PICK i : AsksAt(k, m, i)
  BY <1>1
<1>3. m \in present /\ <<Parent[m], m>> \in joined \ cut
  BY <1>1, StepPath
<1>4. /\ i \in 1..Len(flight[<<m, Parent[m]>>]) /\ CallsFor(flight[<<m, Parent[m]>>][i], k)
      /\ Believes(below[<<Parent[m], m>>], flight[<<m, Parent[m]>>], Caller[k], i)
      /\ ~Believes(below[<<Parent[m], m>>], flight[<<m, Parent[m]>>], Callee[k], i)
  BY <1>2 DEF AsksAt
<1>5. ASSUME NEW j, Kept(m, i, j)  PROVE OnItsWayUp(k)'
  <2>1. AsksAt(k, m, j)'
    BY <1>4, <1>5 DEF Kept, Still, AsksAt
  <2>2. AsksUp(k, m)'
    BY <1>0, <1>1, AsksStay DEF AsksUp
  <2> QED  BY <1>1, <2>1, <2>2 DEF OnItsWayUp
<1>6. CASE ReadUp(m, i)
  <2> DEFINE p == Parent[m]
  <2>1. <<p, m>> \in Links /\ Handles(p, m) /\ Reads(p, m) /\ CallsFor(Read(p, m), k)
    BY <1>4, <1>6 DEF ReadUp
  <2>2. Passes(p, m)
    BY <2>1 DEF Handles, AddRoute, DelRoute, CallsFor
  <2>3. Caller[k] \in below[<<p, m>>] /\ Callee[k] \notin below[<<p, m>>]
    BY <1>4, <1>6, <2>1 DEF ReadUp, After, CallsFor
  <2>4. AskRead(k, m)
    BY <1>1, <2>1, <2>2, <2>3 DEF AskRead
  <2>5. PICK onto : onto = OutStream(p, Callee[k], Caller[k], m)
    OBVIOUS
  <2> QED  BY <2>4, <2>5, AskAnswered, AskTurned, AskGoesOn DEF Waits
<1> QED  BY <1>0, <1>3, <1>4, <1>5, <1>6, UpFlows DEF Waits

----------------------------------------------------------------------------
(* A reply, or the news that the callee is gone, comes back.               *)

LEMMA StillKnown ==
    ASSUME NEW k, StepOf(k), NEW m \in Others, Under(m, Caller[k]), Caller[k] \in DOMAIN route[Parent[m]]
    PROVE  Caller[k] = m \/ Caller[k] \in DOMAIN route[m]
<1> DEFINE q == flight[<<m, Parent[m]>>]
           B == below[<<Parent[m], m>>]
           a == Caller[k]
<1>1. /\ m \in present /\ Parent[m] \in present /\ m \in Children(Parent[m]) /\ a \in Contexts /\ ~Doomed(a)
      /\ <<Parent[m], m>> \in joined \ cut /\ <<m, Parent[m]>> \in Links /\ TablesInv /\ MessagesIn(flight) /\ BelievedOf(m)
  BY StepPath DEF StepOf, RoutesInv, BelievedInv
<1>2. a \in B
  BY <1>1, OneBelow
<1>3. q \in Seq(Messages)
  BY <1>1 DEF StepOf, RoutesInv, RoutingTypeOK
<1>4. \A msg \in Range(q) : ~IsDel(msg, a)
  BY <1>1, CutDooms DEF MessagesIn, UpOK, OfCall, IsDel
<1> HIDE DEF q, B
<1>5. \A i \in 1..Len(q) : q[i] \in Range(q)
  <2>1. DOMAIN q = 1..Len(q)
    BY <1>3
  <2> QED  BY <2>1 DEF Range
<1>6. NoDel(q, a, 0, Len(q))
  BY <1>4, <1>5 DEF NoDel
<1>7. Believes(B, q, a, Len(q))
  BY <1>2, <1>6 DEF Believes
<1>8. (a = m \/ a \in DOMAIN route[m]) <=> Believes(B, q, a, Len(q))
  BY <1>1 DEF BelievedOf, q, B
<1> QED  BY <1>7, <1>8

LEMMA NotAnswered ==
    ASSUME NEW k, StepOf(k)
    PROVE  /\ calling' # Replied(k)
           /\ \A n, ids : calling' = Fired(n, ids) => ~(Caller[k] = n /\ Callee[k] \in ids)
<1>1. RoutingTypeOK /\ k \in Calls /\ calling'[k] = "waiting"
  BY DEF StepOf, RoutesInv
<1>2. calling \in [Calls -> {"never", "before", "waiting", "answered"}]
  BY <1>1 DEF RoutingTypeOK
<1>3. Replied(k)[k] = "answered"
  BY <1>1, <1>2 DEF Replied
<1>4. "answered" # "waiting"
  OBVIOUS
<1>5. \A n, ids : Fired(n, ids)[k] = "waiting" => ~(Caller[k] = n /\ Callee[k] \in ids)
  BY <1>1, FiredIs
<1> QED  BY <1>1, <1>3, <1>4, <1>5

LEMMA BackStep == ASSUME NEW k, StepOf(k), ComesBack(k)  PROVE ComesBack(k)'
<1>0. /\ RoutesInv /\ RoutingNext /\ RoutingTypeOK /\ MessagesIn(flight) /\ TablesInv /\ k \in Calls
      /\ Caller[k] \in Contexts /\ ~Doomed(Caller[k])
  BY DEF StepOf, RoutesInv
<1>1. PICK m \in Others :
         /\ Under(m, Caller[k]) /\ Caller[k] \in DOMAIN route[Parent[m]]
         /\ \E msg \in Range(flight[<<Parent[m], m>>]) : Answers(msg, k) /\ ~Under(m, msg.src)
  BY DEF ComesBack
<1>2. PICK msg \in Range(flight[<<Parent[m], m>>]) : Answers(msg, k) /\ ~Under(m, msg.src)
  BY <1>1
<1>3. /\ m \in present /\ Parent[m] \in present /\ m \in Contexts /\ <<m, Parent[m]>> \in joined /\ <<m, Parent[m]>> \in Links
  BY <1>1, StepPath
<1>4. CASE msg \in Range(flight'[<<Parent[m], m>>])
  <2>1. Caller[k] \in DOMAIN route'[Parent[m]]
    BY <1>0, <1>1, <1>3, RouteKept
  <2> QED  BY <1>1, <1>2, <1>4, <2>1 DEF ComesBack
<1>5. CASE <<m, Parent[m]>> \in Links /\ Reads(m, Parent[m]) /\ Handles(m, Parent[m]) /\ msg = Read(m, Parent[m])
  <2> DEFINE p == Parent[m]
  <2>1. Passes(m, p) /\ Reads(m, p) /\ msg = Read(m, p) /\ <<m, p>> \in Links
    BY <1>2, <1>5 DEF Handles, AddRoute, DelRoute, Answers
  <2>2. OfCall(msg) /\ msg \in Messages /\ Unread(m, p) \in Flights /\ msg.src \in Contexts
    BY <1>0, <2>1, PassesFlow, ReadIs DEF Messages
  <2>3. msg.dst = Caller[k] /\ msg.kind \in {"reply", "dead"} /\ msg.about = k
    BY <1>2, <2>2 DEF OfCall, Answers
  <2>4. HasParent(m)
    BY <1>3 DEF HasParent, Others
  <2>5. msg.src \notin DOMAIN route[m]
    BY <1>0, <1>2, <1>3, KnownIsBelow
  <2>6. Verified(m, p)
    BY <2>1, <2>4, <2>5 DEF Verified, StreamById
  <2>7. Caller[k] # m
    BY <1>0, <2>1, <2>3, <2>6, PassIs, NotAnswered
  <2>8. Caller[k] \in DOMAIN route[m]
    BY <1>1, <2>7, StillKnown
  <2>9. PICK c : c = route[m][Caller[k]]
    OBVIOUS
  <2>10. c \in Children(m) /\ Under(c, Caller[k])
    BY <1>0, <1>3, <2>8, <2>9, KnownIsBelow
  <2>11. c \in Others /\ Parent[c] = m /\ c # Nowhere
    BY <2>10, ParentIs, RoutingAssumption DEF Others
  <2>12. c = OutStream(m, msg.dst, msg.src, p) /\ ~Forbidden(m, p, c)
    BY <2>3, <2>8, <2>9 DEF OutStream, Forbidden, ParentOf, Others
  <2> HIDE DEF p
  <2>13. flight' = Sent(m, Unread(m, p), Only(c, msg)) /\ route' = route
    BY <1>0, <2>1, <2>3, <2>6, <2>7, <2>11, <2>12, PassIs
  <2>14. <<m, c>> \in Links /\ Reaches(<<m, c>>)
    BY <2>10, <2>11, StepPath
  <2>15. LastIs(flight'[<<m, c>>], msg)
    BY <2>2, <2>13, <2>14, MessageSent
  <2>16. ~Under(c, msg.src)
    BY <1>2, <2>11, UnderChild, UnderTrans
  <2>17. /\ Caller[k] \in DOMAIN route'[Parent[c]]
         /\ \E z \in Range(flight'[<<Parent[c], c>>]) : Answers(z, k) /\ ~Under(c, z.src)
    BY <1>2, <2>8, <2>11, <2>13, <2>15, <2>16 DEF LastIs
  <2> QED  BY <2>10, <2>11, <2>17 DEF ComesBack
<1> QED  BY <1>0, <1>4, <1>5, DownFlows

\* A context that loses a route tells of it wherever it was used.
LEMMA DownTells ==
    ASSUME NEW n \in Contexts, NEW c \in Children(n), <<n, c>> \in joined, <<n, c>> \in Links, Reaches(<<n, c>>),
           NEW ids \in SUBSET Contexts, NEW d \in ids, d \in egress[<<n, c>>], NEW Q \in Flights
    PROVE  \E msg \in Range(Sent(n, Q, Down(n, ids))[<<n, c>>]) : IsDel(msg, d)
<1>1. c \in Contexts
  BY NotBoth
<1>2. /\ Down(n, ids) \in Writing
      /\ Range(Down(n, ids)[c]) = {Message("del", c, n, e) : e \in ids \cap egress[<<n, c>>]}
  BY <1>1, DownIs
<1>3. Range(Sent(n, Q, Down(n, ids))[<<n, c>>]) = Range(Q[<<n, c>>]) \cup Range(Down(n, ids)[c])
  <2>1. <<n, c>>[1] = n /\ <<n, c>>[2] = c
    OBVIOUS
  <2> QED  BY <1>2, <2>1, SentIs
<1>4. Message("del", c, n, d) \in Range(Down(n, ids)[c])
  BY <1>2
<1>5. IsDel(Message("del", c, n, d), d)
  BY DEF IsDel, Message
<1> QED  BY <1>3, <1>4, <1>5

LEMMA NewsStep == ASSUME NEW k, StepOf(k), NewsComesBack(k)  PROVE NewsComesBack(k)'
<1>0. /\ RoutesInv /\ RoutingNext /\ RoutingTypeOK /\ MessagesIn(flight) /\ TablesInv /\ k \in Calls
      /\ Caller[k] \in Contexts /\ Callee[k] \in Contexts
  BY DEF StepOf, RoutesInv
<1>1. PICK m \in Others :
        /\ Under(m, Caller[k]) /\ AsksUp(k, m) /\ ~Under(m, Callee[k])
        /\ \E msg \in Range(flight[<<Parent[m], m>>]) : IsDel(msg, Callee[k])
  BY DEF NewsComesBack
<1>2. PICK msg \in Range(flight[<<Parent[m], m>>]) : IsDel(msg, Callee[k])
  BY <1>1
<1>3. m \in present /\ m \in Contexts /\ <<m, Parent[m]>> \in joined /\ <<m, Parent[m]>> \in Links /\ m \in Children(Parent[m])
  BY <1>1, StepPath
<1>4. AsksUpIn(egress', k, m)
  BY <1>0, <1>1, AsksStay
<1>5. CASE msg \in Range(flight'[<<Parent[m], m>>])
  BY <1>1, <1>2, <1>4, <1>5 DEF NewsComesBack, AsksUp
<1>6. CASE <<m, Parent[m]>> \in Links /\ Reads(m, Parent[m]) /\ Handles(m, Parent[m]) /\ msg = Read(m, Parent[m])
  <2> DEFINE p == Parent[m]
  <2>1. Reads(m, p) /\ Read(m, p).kind = "del" /\ Read(m, p).about = Callee[k]
    BY <1>2, <1>6 DEF IsDel
  <2>2. DelRoute(m, p)
    <3>1. ~AddRoute(m, p)
      BY <2>1 DEF AddRoute
    <3>2. ~Passes(m, p)
      BY <1>0, <1>3, <2>1, PassesFlow DEF OfCall
    <3> QED  BY <1>6, <3>1, <3>2 DEF Handles
  <2>3. DelIs(m, p, Callee[k]) /\ Unread(m, p) \in Flights
    BY <1>0, <1>3, <2>1, <2>2, DelRouteIs, ReadIs
  <2>4. p \notin Children(m)
    BY <1>3, NotBoth
  <2>5. StreamById(m, Callee[k]) = p
    <3>1. Callee[k] \notin DOMAIN route[m]
      BY <1>0, <1>1, <1>3, KnownIsBelow
    <3> QED  BY <1>3, <3>1 DEF StreamById, HasParent, Others
  <2>6. /\ flight' = Sent(m, Unread(m, p), Down(m, {Callee[k]})) \/ m \notin Upgraded
        /\ calling' = Fired(m, {Callee[k]})
    BY <2>3, <2>4, <2>5 DEF DelIs
  <2>7. Caller[k] # m
    BY <2>6, NotAnswered
  <2>8. PICK c \in Children(m) : Under(c, Caller[k])
    BY <1>0, <1>1, <1>3, <2>7, UnderStep
  <2>9. c \in Others /\ Parent[c] = m /\ m \in Upgraded
    BY <2>8, ParentIs
  <2>10. <<m, c>> \in joined /\ <<m, c>> \in Links /\ Reaches(<<m, c>>) /\ c # m /\ Under(m, c)
    BY <2>8, <2>9, StepPath, NotBoth, UnderChild
  <2>11. Callee[k] \in egress[<<m, c>>]
    BY <1>1, <2>8, <2>9, <2>10 DEF AsksUp, AsksUpIn
  <2> HIDE DEF p
  <2>12. \E z \in Range(Sent(m, Unread(m, p), Down(m, {Callee[k]}))[<<m, c>>]) : IsDel(z, Callee[k])
    <3>1. {Callee[k]} \in SUBSET Contexts /\ Callee[k] \in {Callee[k]}
      BY <1>0
    <3> QED  BY <1>3, <2>3, <2>10, <2>11, <3>1, DownTells
  <2>13. AsksUpIn(egress', k, c)
    BY <1>4, <2>9, AsksLess
  <2>14. ~Under(c, Callee[k])
    BY <1>1, <2>10, UnderTrans
  <2>15. \E z \in Range(flight'[<<Parent[c], c>>]) : IsDel(z, Callee[k])
    BY <2>6, <2>9, <2>12
  <2> QED  BY <2>8, <2>9, <2>13, <2>14, <2>15 DEF NewsComesBack, AsksUp
<1> QED  BY <1>0, <1>5, <1>6, DownFlows

----------------------------------------------------------------------------
(* The call goes down, and its reply comes up.                             *)

LEMMA CutBelowMore ==
    ASSUME NEW t, NEW c \in Children(t), NEW x \in Others, Under(c, x), NEW d, Under(x, d)
    PROVE  /\ x # t /\ (x = c \/ Under(c, Parent[x]))
           /\ CutBelow(x, d) => CutBelow(t, d)
           /\ <<x, Parent[x]>> \in cut => CutBelow(t, d)
<1>1. c \in Others /\ Parent[c] = t /\ c \in Contexts /\ x \in Contexts
  BY ParentIs DEF Others
<1>2. ASSUME NEW y \in Others, Under(c, y)  PROVE y # t /\ Under(t, y)
  BY <1>1, <1>2, UnderChild, UnderTrans, NotUnderChild
<1>3. CutBelow(x, d) => CutBelow(t, d)
  BY <1>2, UnderTrans DEF CutBelow
<1>4. <<x, Parent[x]>> \in cut => CutBelow(t, d)
  BY <1>2 DEF CutBelow
<1>5. x = c \/ Under(c, Parent[x])
  BY <1>1, UnderParent
<1> QED  BY <1>2, <1>3, <1>4, <1>5

\* What is read of a call on its way down.
DownRead(k, x) ==
    /\ x \in Others /\ Under(x, Callee[k]) /\ ~Under(x, Caller[k])
    /\ <<x, Parent[x]>> \in Links /\ Reads(x, Parent[x]) /\ Handles(x, Parent[x])
    /\ CallsFor(Read(x, Parent[x]), k)

LEMMA DownReadIs ==
    ASSUME NEW k, NEW x, StepOf(k), DownRead(k, x)
    PROVE  LET p == Parent[x] IN
           /\ x \in present /\ x \in Contexts /\ Passes(x, p) /\ Verified(x, p) /\ HasParent(x) /\ p # x /\ p \in Contexts
           /\ Read(x, p).src = Caller[k] /\ Read(x, p).dst = Callee[k] /\ Read(x, p).kind = "call"
           /\ Read(x, p).about = k /\ Read(x, p) \in Messages /\ Unread(x, p) \in Flights
           /\ UNCHANGED <<present, joined, cut, route, below>>
           /\ Caller[k] \notin DOMAIN route[x] /\ StreamById(x, Caller[k]) = p
<1> DEFINE p == Parent[x]
<1>1. /\ x \in Others /\ ~Under(x, Caller[k]) /\ <<x, p>> \in Links /\ Reads(x, p) /\ Handles(x, p)
      /\ CallsFor(Read(x, p), k) /\ RoutesInv /\ RoutingTypeOK /\ MessagesIn(flight) /\ TablesInv
  BY DEF DownRead, StepOf, RoutesInv
<1>2. Read(x, p).kind = "call" /\ Read(x, p).about = k
  BY <1>1 DEF CallsFor
<1>3. Passes(x, p)
  BY <1>1, <1>2 DEF Handles, AddRoute, DelRoute
<1>4. /\ OfCall(Read(x, p)) /\ Read(x, p) \in Messages /\ Unread(x, p) \in Flights /\ x \in present /\ x \in Contexts
      /\ <<x, p>> \in joined
  BY <1>1, <1>3, PassesFlow, ReadIs
<1>5. Read(x, p).src = Caller[k] /\ Read(x, p).dst = Callee[k]
  BY <1>2, <1>4 DEF OfCall
<1>6. HasParent(x) /\ p # x /\ p \in Contexts
  BY <1>1, <1>4, ParentIs, NotBoth DEF HasParent, Others
<1>7. Caller[k] \notin DOMAIN route[x]
  BY <1>1, <1>4, KnownIsBelow
<1>8. StreamById(x, Caller[k]) = p
  BY <1>6, <1>7 DEF StreamById
<1>9. Verified(x, p)
  BY <1>5, <1>8 DEF Verified
<1>10. UNCHANGED <<present, joined, cut, route, below>>
  BY <1>1, <1>3, <1>9, PassIs
<1> QED  BY <1>2, <1>3, <1>4, <1>5, <1>6, <1>7, <1>8, <1>9, <1>10

\* A reply is known to come from its context.
LEMMA ReplyComes ==
    ASSUME NEW k, StepOf(k), NEW x \in Others, <<x, Parent[x]>> \in joined, Stays,
           NEW t, NEW c \in Children(t), Under(c, x), Under(x, Callee[k]),
           NEW src \in Contexts, Under(x, src), src = x \/ src \in DOMAIN route'[x],
           NEW msg, Answers(msg, k), msg.src = src,
           Reaches(<<x, Parent[x]>>) => LastIs(flight'[<<x, Parent[x]>>], msg)
    PROVE  CutBelow(t, Callee[k])' \/ ReturnsUp(k, c)'
<1>1. CASE <<x, Parent[x]>> \in cut
  <2>1. CutBelow(t, Callee[k]) /\ cut \subseteq cut'
    BY <1>1, CutBelowMore DEF Stays
  <2> QED  BY <2>1, CutGrows
<1>2. CASE <<x, Parent[x]>> \notin cut
  <2>1. StreamsInv /\ <<x, Parent[x]>> \in Links /\ RoutesInv'
    BY LinkIs DEF StepOf, RoutesInv
  <2>2. Reaches(<<x, Parent[x]>>)
    BY <1>2, <2>1, ReachesIs
  <2>3. <<Parent[x], x>> \in joined \ cut
    BY <1>2, <2>1 DEF StreamsInv
  <2>4. <<Parent[x], x>> \in joined' \ cut'
    BY <2>3 DEF Stays
  <2>5. Believes(below'[<<Parent[x], x>>], flight'[<<x, Parent[x]>>], src, Len(flight'[<<x, Parent[x]>>]))
    BY <2>1, <2>4, BelievedLast
  <2>6. RepliesAt(k, x, Len(flight[<<x, Parent[x]>>]))'
    BY <2>2, <2>5 DEF RepliesAt, LastIs
  <2> QED  BY <2>6 DEF ReturnsUp
<1> QED  BY <1>1, <1>2

\* The context that reads it answers it.
LEMMA DownAnswered ==
    ASSUME NEW k, NEW x, StepOf(k), DownRead(k, x), NEW t, NEW c \in Children(t), Under(c, x),
           NEW onto, onto = OutStream(x, Callee[k], Caller[k], Parent[x]),
           Callee[k] = x \/ onto = Nowhere \/ Forbidden(x, Parent[x], onto)
    PROVE  CutBelow(t, Callee[k])' \/ ReturnsUp(k, c)'
<1> DEFINE p == Parent[x]
<1>1. /\ x \in Others /\ <<x, p>> \in Links /\ Reads(x, p) /\ RoutesInv /\ Under(x, Callee[k]) /\ k \in Calls
      /\ Caller[k] \in Contexts
  BY DEF DownRead, StepOf
<1>2. /\ x \in Contexts /\ Passes(x, p) /\ Verified(x, p) /\ HasParent(x)
      /\ Read(x, p).src = Caller[k] /\ Read(x, p).dst = Callee[k] /\ Read(x, p).kind = "call"
      /\ Read(x, p).about = k /\ Unread(x, p) \in Flights /\ UNCHANGED <<present, joined, cut, route, below>>
      /\ Caller[k] \notin DOMAIN route[x]
  BY DownReadIs
<1> HIDE DEF p
<1>3. onto = OutStream(x, Read(x, p).dst, Read(x, p).src, p) /\ (Read(x, p).dst = x \/ onto = Nowhere \/ Forbidden(x, p, onto))
  BY <1>2 DEF p
<1>4. PICK kind \in {"reply", "dead"} : flight' = Sent(x, Unread(x, p), ReplyTo(x, kind, Caller[k], k))
  BY <1>1, <1>2, <1>3, PassIs
<1>5. OutStream(x, Caller[k], x, x) = p
  BY <1>2 DEF OutStream, p
<1>6. ASSUME Reaches(<<x, p>>)  PROVE \E msg : Answers(msg, k) /\ msg.src = x /\ LastIs(flight'[<<x, p>>], msg)
  BY <1>1, <1>2, <1>4, <1>5, <1>6, ReplySent
<1>7. \E msg : Answers(msg, k) /\ msg.src = x /\ (Reaches(<<x, p>>) => LastIs(flight'[<<x, p>>], msg))
  <2>1. Answers(Message("reply", Caller[k], x, k), k) /\ Message("reply", Caller[k], x, k).src = x
    BY DEF Answers, Message
  <2> QED  BY <1>6, <2>1
<1>8. PICK msg : Answers(msg, k) /\ msg.src = x /\ (Reaches(<<x, p>>) => LastIs(flight'[<<x, p>>], msg))
  BY <1>7
<1>9. <<x, p>> \in joined /\ Stays /\ Under(x, x)
  BY <1>1, <1>2, UnderSelf DEF Reads, Stays
<1> QED  BY <1>1, <1>2, <1>8, <1>9, ReplyComes DEF p

\* It passes it on.
LEMMA DownPasses ==
    ASSUME NEW k, NEW x, StepOf(k), DownRead(k, x), NEW t, NEW c \in Children(t), Under(c, x),
           NEW onto, onto = OutStream(x, Callee[k], Caller[k], Parent[x]),
           ~(Callee[k] = x \/ onto = Nowhere \/ Forbidden(x, Parent[x], onto))
    PROVE  CutBelow(t, Callee[k])' \/ GoesDown(k, c)'
<1> DEFINE p == Parent[x]
<1>1. /\ x \in Others /\ <<x, p>> \in Links /\ RoutesInv /\ k \in Calls /\ CallsFor(Read(x, p), k)
      /\ Under(x, Callee[k])
  BY DEF DownRead, StepOf
<1>2. /\ x \in present /\ Passes(x, p) /\ Verified(x, p) /\ Read(x, p) \in Messages
      /\ Read(x, p).src = Caller[k] /\ Read(x, p).dst = Callee[k] /\ Unread(x, p) \in Flights /\ p # x
      /\ Stays /\ StreamById(x, Caller[k]) = p
  BY DownReadIs DEF Stays
<1>3. Callee[k] \in DOMAIN route[x] /\ onto = route[x][Callee[k]]
  BY <1>2 DEF OutStream, HasParent
<1>4. /\ Read(x, p).dst # x /\ onto = OutStream(x, Read(x, p).dst, Read(x, p).src, p)
      /\ onto # Nowhere /\ ~Forbidden(x, p, onto)
  BY <1>2
<1> HIDE DEF p
<1>5. flight' = Sent(x, Unread(x, p), Only(onto, Read(x, p)))
  BY <1>1, <1>2, <1>4, PassIs
<1>6. /\ onto \in Others /\ Parent[onto] = x /\ Under(onto, Callee[k])
      /\ CutBelow(x, Callee[k]) \/ \E z \in Range(flight'[<<Parent[onto], onto>>]) : CallsFor(z, k)
  BY <1>1, <1>2, <1>3, <1>5, WentDown
<1>7. Under(c, onto)
  BY <1>6, UnderChild, UnderTrans
<1>8. CutBelow(x, Callee[k]) => CutBelow(t, Callee[k])'
  BY <1>1, <1>2, CutBelowMore, CutGrows DEF Stays
<1> QED  BY <1>6, <1>7, <1>8 DEF GoesDown

LEMMA DownStep ==
    ASSUME NEW k, StepOf(k), NEW t, NEW c \in Children(t), ~Under(c, Caller[k]), GoesDown(k, c)
    PROVE  CutBelow(t, Callee[k])' \/ GoesDown(k, c)' \/ ReturnsUp(k, c)'
<1>1. PICK x \in Others : /\ Under(c, x) /\ Under(x, Callee[k])
                          /\ \E msg \in Range(flight[<<Parent[x], x>>]) : CallsFor(msg, k)
  BY DEF GoesDown
<1>2. PICK msg \in Range(flight[<<Parent[x], x>>]) : CallsFor(msg, k)
  BY <1>1
<1>3. CASE msg \in Range(flight'[<<Parent[x], x>>])
  BY <1>1, <1>2, <1>3 DEF GoesDown
<1>4. CASE <<x, Parent[x]>> \in Links /\ Reads(x, Parent[x]) /\ Handles(x, Parent[x]) /\ msg = Read(x, Parent[x])
  <2>1. ~Under(x, Caller[k])
    BY <1>1, UnderTrans
  <2>2. DownRead(k, x)
    BY <1>1, <1>2, <1>4, <2>1 DEF DownRead
  <2>3. PICK onto : onto = OutStream(x, Callee[k], Caller[k], Parent[x])
    OBVIOUS
  <2> QED  BY <1>1, <2>2, <2>3, DownAnswered, DownPasses
<1> QED  BY <1>3, <1>4, DownFlows DEF StepOf

\* What is read of a reply on its way up.
ReturnRead(k, x) ==
    /\ x \in Others /\ Under(x, Callee[k]) /\ <<Parent[x], x>> \in Links
    /\ Reads(Parent[x], x) /\ Handles(Parent[x], x) /\ Answers(Read(Parent[x], x), k)
    /\ Under(x, Read(Parent[x], x).src) /\ Read(Parent[x], x).src \in below[<<Parent[x], x>>]

LEMMA ReturnReadIs ==
    ASSUME NEW k, NEW x, StepOf(k), ReturnRead(k, x)
    PROVE  LET y == Parent[x] IN
           /\ y \in present /\ y \in Contexts /\ x \in Children(y) /\ Passes(y, x) /\ Verified(y, x)
           /\ Read(y, x).dst = Caller[k] /\ Read(y, x).kind \in {"reply", "dead"} /\ Read(y, x).about = k
           /\ Read(y, x) \in Messages /\ Read(y, x).src \in Contexts /\ Unread(y, x) \in Flights
           /\ Read(y, x).src \in DOMAIN route[y] /\ StreamById(y, Read(y, x).src) = x
           /\ UNCHANGED <<present, joined, cut, route, below>>
<1> DEFINE y == Parent[x]
<1>1. /\ x \in Others /\ <<y, x>> \in Links /\ Reads(y, x) /\ Handles(y, x) /\ Answers(Read(y, x), k)
      /\ Read(y, x).src \in below[<<y, x>>]
      /\ RoutesInv /\ RoutingTypeOK /\ MessagesIn(flight) /\ TablesInv
  BY DEF ReturnRead, StepOf, RoutesInv
<1>2. Read(y, x).kind \in {"reply", "dead"} /\ Read(y, x).about = k
  BY <1>1 DEF Answers
<1>3. Passes(y, x)
  BY <1>1, <1>2 DEF Handles, AddRoute, DelRoute
<1>4. /\ OfCall(Read(y, x)) /\ Read(y, x) \in Messages /\ Unread(y, x) \in Flights /\ y \in present /\ y \in Contexts
  BY <1>1, <1>3, PassesFlow, ReadIs
<1>5. Read(y, x).dst = Caller[k] /\ Read(y, x).src \in Contexts
  BY <1>2, <1>4 DEF OfCall, Messages
<1>6. x \in Children(y)
  BY <1>1, ParentIs
<1>7. Read(y, x).src \in DOMAIN route[y] /\ route[y][Read(y, x).src] = x
  BY <1>1, <1>4, <1>6 DEF TablesInv, TablesOf
<1>8. StreamById(y, Read(y, x).src) = x
  BY <1>7 DEF StreamById
<1>9. Verified(y, x)
  BY <1>8 DEF Verified
<1>10. UNCHANGED <<present, joined, cut, route, below>>
  BY <1>1, <1>3, <1>9, PassIs
<1> QED  BY <1>2, <1>3, <1>4, <1>5, <1>6, <1>7, <1>8, <1>9, <1>10

\* The context where the call was turned sends the reply to the caller.
LEMMA ReturnTurns ==
    ASSUME NEW k, NEW c, StepOf(k), ReturnRead(k, c), NEW t, t = Parent[c], ~Under(c, Caller[k]),
           Caller[k] = t \/ (Caller[k] \in DOMAIN route[t] /\ ~unidirectional)
    PROVE  ComesBack(k)'
<1>0. /\ c \in Others /\ <<t, c>> \in Links /\ RoutesInv /\ TablesInv /\ RoutingTypeOK /\ Answers(Read(t, c), k)
      /\ Under(c, Read(t, c).src) /\ k \in Calls
  BY DEF ReturnRead, StepOf, RoutesInv
<1>1. /\ t \in present /\ t \in Contexts /\ c \in Children(t) /\ Passes(t, c) /\ Verified(t, c)
      /\ Read(t, c).dst = Caller[k] /\ Read(t, c).kind \in {"reply", "dead"} /\ Read(t, c).about = k
      /\ Read(t, c) \in Messages /\ Read(t, c).src \in Contexts /\ Unread(t, c) \in Flights /\ route' = route
  BY ReturnReadIs
<1>2. Caller[k] # t
  BY <1>0, <1>1, PassIs, NotAnswered
<1>3. Caller[k] \in DOMAIN route[t] /\ ~unidirectional
  BY <1>2
<1>4. PICK m : m = route[t][Caller[k]]
  OBVIOUS
<1>5. m \in Children(t) /\ Under(m, Caller[k])
  BY <1>0, <1>1, <1>3, <1>4, KnownIsBelow
<1>6. m \in Others /\ Parent[m] = t /\ m # Nowhere
  BY <1>5, ParentIs, RoutingAssumption DEF Others
<1>7. m = OutStream(t, Read(t, c).dst, Read(t, c).src, c) /\ ~Forbidden(t, c, m)
  BY <1>1, <1>3, <1>4 DEF OutStream, Forbidden
<1>8. flight' = Sent(t, Unread(t, c), Only(m, Read(t, c)))
  BY <1>0, <1>1, <1>2, <1>6, <1>7, PassIs
<1>9. <<t, m>> \in Links /\ Reaches(<<t, m>>)
  BY <1>5, <1>6, StepPath
<1>10. LastIs(flight'[<<t, m>>], Read(t, c))
  BY <1>1, <1>8, <1>9, MessageSent
<1>11. ~Under(m, Read(t, c).src)
  BY <1>0, <1>1, <1>5, OneChildAbove
<1>12. /\ Caller[k] \in DOMAIN route'[Parent[m]]
       /\ \E z \in Range(flight'[<<Parent[m], m>>]) : Answers(z, k) /\ ~Under(m, z.src)
  BY <1>0, <1>1, <1>3, <1>6, <1>10, <1>11 DEF LastIs
<1> QED  BY <1>5, <1>6, <1>12 DEF ComesBack

\* One below it sends it up.
LEMMA ReturnGoesOn ==
    ASSUME NEW k, NEW x, StepOf(k), ReturnRead(k, x), NEW t, NEW c \in Children(t), Under(c, Parent[x]),
           ~Under(c, Caller[k])
    PROVE  CutBelow(t, Callee[k])' \/ ReturnsUp(k, c)'
<1> DEFINE y == Parent[x]
           msg == Read(y, x)
<1>0. /\ x \in Others /\ <<y, x>> \in Links /\ RoutesInv /\ TablesInv /\ RoutingTypeOK /\ StreamsInv /\ Answers(msg, k)
      /\ Under(x, msg.src) /\ Under(x, Callee[k]) /\ k \in Calls
  BY DEF ReturnRead, StepOf, RoutesInv
<1>1. /\ y \in present /\ y \in Contexts /\ x \in Children(y) /\ Passes(y, x) /\ Verified(y, x)
      /\ msg.dst = Caller[k] /\ msg \in Messages /\ msg.src \in Contexts /\ Unread(y, x) \in Flights
      /\ msg.src \in DOMAIN route[y] /\ StreamById(y, msg.src) = x /\ route' = route /\ Stays
  BY ReturnReadIs DEF Stays
<1> HIDE DEF y
<1>2. y \in Others
  <2>1. c \in Others /\ c \in Contexts
    BY ParentIs DEF Others
  <2>2. y # Root
    BY <2>1, RootIsTop DEF y, Others
  <2> QED  BY <1>1, <2>2 DEF Others
<1>3. ~Under(y, Caller[k])
  BY UnderTrans DEF y
<1>4. Caller[k] \notin DOMAIN route[y] /\ Caller[k] # y
  BY <1>0, <1>1, <1>3, KnownIsBelow, UnderSelf
<1>5. <<y, Parent[y]>> \in joined /\ <<y, Parent[y]>> \in Links /\ HasParent(y)
  BY <1>0, <1>1, <1>2, LinkIs DEF StreamsInv, HasParent, Others
<1>6. Parent[y] = ParentOf(y) /\ Parent[y] # Nowhere /\ x # Parent[y] /\ Parent[y] \in Contexts
  BY <1>1, <1>2, NotBoth, ParentIs, RoutingAssumption DEF ParentOf, Others
<1>7. PICK onto : onto = Parent[y]
  OBVIOUS
<1>8. onto = OutStream(y, msg.dst, msg.src, x) /\ ~Forbidden(y, x, onto) /\ msg.dst # y /\ onto # Nowhere
  BY <1>1, <1>4, <1>5, <1>6, <1>7 DEF OutStream, Forbidden
<1>9. flight' = Sent(y, Unread(y, x), Only(onto, msg))
  BY <1>0, <1>1, <1>8, PassIs
<1>10. Reaches(<<y, Parent[y]>>) => LastIs(flight'[<<y, Parent[y]>>], msg)
  BY <1>1, <1>5, <1>7, <1>9, MessageSent
<1>11. Under(y, Callee[k]) /\ Under(y, msg.src) /\ Under(c, y)
  BY <1>0, UnderChild, UnderTrans DEF y
<1>12. msg.src \in DOMAIN route'[y]
  BY <1>1
<1> HIDE DEF msg
<1> QED  BY <1>0, <1>1, <1>2, <1>5, <1>10, <1>11, <1>12, ReplyComes

LEMMA ReturnStep ==
    ASSUME NEW k, StepOf(k), NEW t, NEW c \in Children(t), ~Under(c, Caller[k]), ReturnsUp(k, c),
           Caller[k] = t \/ (Caller[k] \in DOMAIN route[t] /\ ~unidirectional)
    PROVE  CutBelow(t, Callee[k])' \/ ReturnsUp(k, c)' \/ ComesBack(k)'
<1>0. /\ RoutesInv /\ RoutingNext /\ StreamsInv /\ FreshInv /\ cut \subseteq cut'
      /\ c \in Others /\ Parent[c] = t
  BY RoutesStep, ParentIs DEF StepOf, RoutesInv
<1>1. PICK x \in Others : Under(c, x) /\ Under(x, Callee[k]) /\ \E i : RepliesAt(k, x, i)
  BY DEF ReturnsUp
<1>2. PICK i : RepliesAt(k, x, i)
  BY <1>1
<1> DEFINE q == flight[<<x, Parent[x]>>]
           B == below[<<Parent[x], x>>]
<1>3. i \in 1..Len(q) /\ Answers(q[i], k) /\ Under(x, q[i].src) /\ Believes(B, q, q[i].src, i)
  BY <1>2 DEF RepliesAt
<1>4. CASE <<x, Parent[x]>> \in cut
  <2>1. CutBelow(t, Callee[k])
    BY <1>1, <1>4, CutBelowMore
  <2> QED  BY <1>0, <2>1, CutGrows
<1>5. CASE <<x, Parent[x]>> \notin cut
  <2>1. x \in present
    <3>1. 1..Len(<<>>) = {}
      OBVIOUS
    <3> QED  BY <1>0, <1>3, <1>5, <3>1 DEF FreshInv
  <2>2. <<Parent[x], x>> \in joined \ cut
    BY <1>0, <1>5, <2>1 DEF StreamsInv
  <2>3. ASSUME NEW j, Kept(x, i, j)  PROVE ReturnsUp(k, c)'
    <3>1. RepliesAt(k, x, j)'
      BY <1>3, <2>3 DEF RepliesAt, Kept, Still
    <3> QED  BY <1>1, <3>1 DEF ReturnsUp
  <2>4. ASSUME ReadUp(x, i)  PROVE ReturnRead(k, x)
    <3>1. /\ <<Parent[x], x>> \in Links /\ Handles(Parent[x], x) /\ Reads(Parent[x], x) /\ q[i] = Read(Parent[x], x)
          /\ \A d : Believes(B, q, d, i) <=> d \in After(B, Read(Parent[x], x))
      BY <2>4 DEF ReadUp
    <3> HIDE DEF q, B
    <3>2. After(B, Read(Parent[x], x)) = B
      BY <1>3, <3>1 DEF After, Answers
    <3>3. Read(Parent[x], x).src \in B
      BY <1>3, <3>1, <3>2
    <3> QED  BY <1>1, <1>3, <3>1, <3>3 DEF ReturnRead, B
  <2>5. ASSUME ReturnRead(k, x)  PROVE CutBelow(t, Callee[k])' \/ ReturnsUp(k, c)' \/ ComesBack(k)'
    <3>1. CASE x = c
      BY <1>0, <2>5, <3>1, ReturnTurns
    <3>2. CASE Under(c, Parent[x])
      BY <2>5, <3>2, ReturnGoesOn
    <3> QED  BY <1>1, <3>1, <3>2, CutBelowMore
  <2> HIDE DEF q, B
  <2> QED  BY <1>0, <1>3, <2>1, <2>2, <2>3, <2>4, <2>5, UpFlows DEF q
<1> QED  BY <1>4, <1>5

----------------------------------------------------------------------------
(* The context that a call was turned in.                                  *)

TurnTells(k, t) ==
    \E m \in Children(t) :
        /\ Under(m, Caller[k]) /\ \E z \in Range(flight'[<<t, m>>]) : IsDel(z, Callee[k])

\* When it loses its route, it tells those above the caller.
LEMMA TurnGone ==
    ASSUME NEW k, StepOf(k), NEW t \in Contexts, t \in present, TurnsAt(k, t), Removes(t, Callee[k])
    PROVE  TurnTells(k, t)
<1> DEFINE b == Callee[k]
<1>0. /\ RoutesInv /\ RoutingTypeOK /\ MessagesIn(flight) /\ TablesInv /\ flight \in Flights
      /\ Caller[k] \in Contexts /\ b \in Contexts
  BY DEF StepOf, RoutesInv, RoutingTypeOK, Flights
<1>1. /\ Under(t, Caller[k]) /\ AsksUp(k, t) /\ b \in DOMAIN route[t] /\ ~Under(route[t][b], Caller[k])
  BY DEF TurnsAt
<1>2. PICK c : c = route[t][b]
  OBVIOUS
<1>3. /\ c \in Children(t) /\ <<t, c>> \in Links
      /\ (DelRoute(t, c) /\ Read(t, c).about = b) \/ (LostIs(t, c) /\ b \in below[<<t, c>>])
  BY <1>2 DEF Removes
<1>4. ASSUME Caller[k] # t  PROVE
        \E m \in Children(t) : /\ Under(m, Caller[k]) /\ m # c /\ <<t, m>> \in joined /\ <<t, m>> \in Links
                               /\ Reaches(<<t, m>>) /\ b \in egress[<<t, m>>]
  <2>1. PICK m \in Children(t) : Under(m, Caller[k])
    BY <1>0, <1>1, <1>4, UnderStep
  <2>2. m \in Others /\ Parent[m] = t /\ Under(t, m) /\ m # t
    BY <2>1, ParentIs, UnderChild, NotBoth
  <2>3. <<t, m>> \in joined /\ <<t, m>> \in Links /\ Reaches(<<t, m>>)
    BY <2>1, <2>2, StepPath
  <2>4. b \in egress[<<t, m>>]
    BY <1>1, <2>1, <2>2 DEF AsksUp, AsksUpIn
  <2>5. m # c
    BY <1>1, <1>2, <2>1
  <2> QED  BY <2>1, <2>3, <2>4, <2>5
<1>5. CASE DelRoute(t, c) /\ Read(t, c).about = b
  <2>1. DelIs(t, c, b) /\ Reads(t, c) /\ Unread(t, c) \in Flights
    BY <1>0, <1>3, <1>5, DelRouteIs, ReadIs
  <2>2. ~(t \in Others /\ c = Parent[t])
    BY <1>3, NotBoth DEF ParentOf, Others
  <2>3. StreamById(t, b) = c
    BY <1>1, <1>2 DEF StreamById
  <2>4. /\ flight' = Sent(t, Sent(t, Unread(t, c), Down(t, {b})), Up(t, "del", {b}))
        /\ calling' = Fired(t, {b})
    BY <2>1, <2>2, <2>3 DEF DelIs
  <2>5. Caller[k] # t
    BY <2>4, NotAnswered
  <2>6. PICK m \in Children(t) :
           /\ Under(m, Caller[k]) /\ <<t, m>> \in joined /\ <<t, m>> \in Links
           /\ Reaches(<<t, m>>) /\ b \in egress[<<t, m>>]
    BY <1>4, <2>5
  <2> DEFINE F == Sent(t, Unread(t, c), Down(t, {b}))
  <2>7. {b} \in SUBSET Contexts /\ b \in {b}
    BY <1>0
  <2>8. \E z \in Range(F[<<t, m>>]) : IsDel(z, b)
    BY <2>1, <2>6, <2>7, DownTells
  <2>9. F \in Flights /\ Up(t, "del", {b}) \in Writing
    BY <2>1, <2>7, DownIs, UpIs, SentIs
  <2> HIDE DEF F
  <2>10. PICK s \in Seq(Messages) : Wrote(Sent(t, F, Up(t, "del", {b}))[<<t, m>>], F[<<t, m>>], s)
    BY <2>6, <2>9, SentKeeps DEF KeepsAll
  <2>11. F[<<t, m>>] \in Seq(Messages)
    BY <2>6, <2>9 DEF Flights
  <2>12. Range(Sent(t, F, Up(t, "del", {b}))[<<t, m>>]) = Range(F[<<t, m>>]) \cup Range(s)
    BY <2>10, <2>11, WroteRange
  <2>13. \E z \in Range(Sent(t, F, Up(t, "del", {b}))[<<t, m>>]) : IsDel(z, b)
    BY <2>8, <2>12
  <2>14. \E z \in Range(flight'[<<t, m>>]) : IsDel(z, b)
    BY <2>4, <2>13 DEF F
  <2> QED  BY <2>6, <2>14 DEF TurnTells
<1>6. CASE LostIs(t, c) /\ b \in below[<<t, c>>]
  <2>1. PICK ids : ids = below[<<t, c>>]
    OBVIOUS
  <2>2. ids \in SUBSET Contexts /\ calling' = Fired(t, ids) /\ b \in ids
    BY <1>6, <2>1 DEF LostIs
  <2>3. Caller[k] # t
    BY <2>2, NotAnswered
  <2>4. PICK m \in Children(t) :
           /\ Under(m, Caller[k]) /\ m # c /\ <<t, m>> \in joined /\ <<t, m>> \in Links
           /\ Reaches(<<t, m>>) /\ b \in egress[<<t, m>>]
    BY <1>4, <2>3
  <2>5. <<t, m>> # <<c, t>>
    BY <1>3, NotBoth
  <2>6. flight'[<<t, m>>] = Sent(t, Sent(t, flight, Up(t, "del", ids)), Down(t, ids))[<<t, m>>]
    BY <1>0, <1>3, <1>6, <2>1, <2>4, <2>5, LostFlows
  <2> DEFINE F == Sent(t, flight, Up(t, "del", ids))
  <2>7. F \in Flights
    BY <1>0, <2>2, UpIs, SentIs
  <2> HIDE DEF F
  <2>8. \E z \in Range(Sent(t, F, Down(t, ids))[<<t, m>>]) : IsDel(z, b)
    BY <2>2, <2>4, <2>7, DownTells
  <2>9. \E z \in Range(flight'[<<t, m>>]) : IsDel(z, b)
    BY <2>6, <2>8 DEF F
  <2> QED  BY <2>4, <2>9 DEF TurnTells
<1> QED  BY <1>3, <1>5, <1>6

LEMMA CrossesBy ==
    ASSUME NEW k, NEW t, NEW c, Callee[k] \in DOMAIN route'[t], route'[t][Callee[k]] = c,
           CutBelow(t, Callee[k])' \/ GoesDown(k, c)' \/ ReturnsUp(k, c)'
    PROVE  Crosses(k, t)'
<1>1. GoesDown(k, c)' => Crosses(k, t)'
  BY DEF Crosses, GoesDown
<1>2. ReturnsUp(k, c)' => Crosses(k, t)'
  BY DEF Crosses, ReturnsUp
<1>3. CutBelow(t, Callee[k])' => Crosses(k, t)'
  BY DEF Crosses
<1> QED  BY <1>1, <1>2, <1>3

LEMMA TurnStep == ASSUME NEW k, StepOf(k), Turned(k)  PROVE Waits(k)'
<1>0. /\ RoutesInv /\ RoutingNext /\ RoutingTypeOK /\ StreamsInv /\ TablesInv /\ cut \subseteq cut'
      /\ Caller[k] \in Contexts /\ Callee[k] \in Contexts /\ Caller[k] \in present /\ ~Doomed(Caller[k])
  BY RoutesStep DEF StepOf, RoutesInv
<1>1. PICK t \in Contexts : TurnsAt(k, t) /\ Crosses(k, t)
  BY DEF Turned
<1>2. /\ Under(t, Caller[k]) /\ AsksUp(k, t)
      /\ Caller[k] = t \/ (Caller[k] \in DOMAIN route[t] /\ ~unidirectional)
      /\ Callee[k] \in DOMAIN route[t] /\ ~Under(route[t][Callee[k]], Caller[k])
  BY <1>1 DEF TurnsAt
<1>3. t \in present
  BY <1>0, <1>2, AboveRuns
<1>4. PICK c : c = route[t][Callee[k]]
  OBVIOUS
<1>5. c \in Children(t) /\ Under(c, Callee[k]) /\ ~Under(c, Caller[k])
  BY <1>0, <1>2, <1>3, <1>4, KnownIsBelow
<1>6. AsksUpIn(egress', k, t)
  BY <1>0, <1>2, AsksStay
<1>7. CASE Removes(t, Callee[k])
  <2>1. TurnTells(k, t)
    BY <1>1, <1>3, <1>7, TurnGone
  <2>2. PICK m \in Children(t) : Under(m, Caller[k]) /\ \E z \in Range(flight'[<<t, m>>]) : IsDel(z, Callee[k])
    BY <2>1 DEF TurnTells
  <2>3. m \in Others /\ Parent[m] = t
    BY <2>2, ParentIs
  <2>4. AsksUpIn(egress', k, m)
    BY <1>6, <2>3, AsksLess
  <2>5. ~Under(m, Callee[k])
    BY <1>0, <1>5, <2>2, OneChildAbove
  <2>6. \E z \in Range(flight'[<<Parent[m], m>>]) : IsDel(z, Callee[k])
    BY <2>2, <2>3
  <2>7. NewsComesBack(k)'
    BY <2>2, <2>3, <2>4, <2>5, <2>6 DEF NewsComesBack, AsksUp
  <2> QED  BY <2>7 DEF Waits
<1>8. CASE Callee[k] \in DOMAIN route'[t] /\ route'[t][Callee[k]] = c
  <2>1. Caller[k] = t \/ (Caller[k] \in DOMAIN route'[t] /\ ~unidirectional')
    BY <1>0, <1>2, <1>3, RouteKept, OneWay
  <2>2. TurnsAt(k, t)'
    BY <1>2, <1>5, <1>6, <1>8, <2>1 DEF TurnsAt, AsksUp
  <2>3. CutBelow(t, Callee[k])' \/ GoesDown(k, c)' \/ ReturnsUp(k, c)' \/ ComesBack(k)'
    <3>1. CutBelow(t, Callee[k]) \/ GoesDown(k, c) \/ ReturnsUp(k, c)
      BY <1>1, <1>4 DEF Crosses
    <3>2. CASE CutBelow(t, Callee[k])
      BY <1>0, <3>2, CutGrows
    <3>3. CASE GoesDown(k, c)
      BY <1>5, <3>3, DownStep
    <3>4. CASE ReturnsUp(k, c)
      BY <1>2, <1>5, <3>4, ReturnStep
    <3> QED  BY <3>1, <3>2, <3>3, <3>4
  <2>4. Crosses(k, t)' \/ ComesBack(k)'
    BY <1>8, <2>3, CrossesBy
  <2>5. Turned(k)' \/ ComesBack(k)'
    BY <2>2, <2>4 DEF Turned
  <2> QED  BY <2>5 DEF Waits
<1> QED  BY <1>0, <1>2, <1>3, <1>4, <1>7, <1>8, RouteGoes

----------------------------------------------------------------------------
(* A call is made.                                                         *)

LEMMA CallStep == ASSUME NEW k, StepOf(k), SendCall(k)  PROVE Waits(k)'
<1> DEFINE a == Caller[k]
           b == Callee[k]
           msg == Message("call", b, a, k)
<1>0. /\ RoutesInv /\ RoutesInv' /\ RoutingTypeOK /\ TablesInv /\ k \in Calls /\ calling'[k] = "waiting"
      /\ a \in Contexts /\ b \in Contexts /\ a # b /\ a \in present /\ flight \in Flights /\ Under(a, a)
  BY UnderSelf DEF StepOf, RoutesInv, RoutingTypeOK, Flights
<1>1. PICK onto : onto = OutStream(a, b, a, a)
  OBVIOUS
<1>2. /\ flight' = Sent(a, flight, Only(onto, msg)) /\ UNCHANGED <<present, joined, cut, route, below>>
      /\ calling' = [calling EXCEPT ![k] = IF onto = Nowhere THEN "answered" ELSE "waiting"]
  BY <1>1 DEF SendCall
<1>3. onto # Nowhere
  <2>1. calling'[k] = IF onto = Nowhere THEN "answered" ELSE "waiting"
    BY <1>0, <1>2 DEF RoutingTypeOK
  <2>2. "answered" # "waiting"
    OBVIOUS
  <2> QED  BY <1>0, <2>1, <2>2
<1>4. msg \in Messages /\ CallsFor(msg, k)
  <2>1. msg \in Messages
    BY <1>0, CallOK
  <2>2. CallsFor(msg, k)
    BY DEF CallsFor, Message
  <2> QED  BY <2>1, <2>2
<1> HIDE DEF msg
<1>5. AsksUpIn(egress', k, a)
  BY <1>0, AsksNothing
<1>6. CASE b \in DOMAIN route[a]
  <2>1. onto = route[a][b] /\ Stays
    BY <1>1, <1>2, <1>6 DEF OutStream, Stays
  <2>2. /\ onto \in Others /\ Parent[onto] = a /\ Under(onto, b)
        /\ CutBelow(a, b) \/ \E z \in Range(flight'[<<Parent[onto], onto>>]) : CallsFor(z, k)
    BY <1>0, <1>2, <1>4, <1>6, <2>1, WentDown
  <2>3. ~Under(onto, a)
    BY <2>2, NotUnderChild
  <2>4. b \in DOMAIN route'[a] /\ route'[a][b] = onto
    BY <1>2, <1>6, <2>1
  <2>5. TurnsAt(k, a)'
    BY <1>0, <1>5, <2>3, <2>4 DEF TurnsAt, AsksUp
  <2>6. CutBelow(a, b)' \/ GoesDown(k, onto)'
    <3>1. CutBelow(a, b) => CutBelow(a, b)'
      BY <1>2, CutGrows
    <3> QED  BY <2>2, <3>1, UnderSelf DEF GoesDown
  <2>7. Crosses(k, a)'
    BY <2>4, <2>6, CrossesBy
  <2>8. Turned(k)'
    BY <1>0, <2>5, <2>7 DEF Turned
  <2> QED  BY <2>8 DEF Waits
<1>7. CASE b \notin DOMAIN route[a]
  <2>1. onto = Parent[a] /\ a \in Others
    BY <1>0, <1>1, <1>3, <1>7 DEF OutStream, HasParent, Others
  <2>2. <<a, Parent[a]>> \in Links /\ Reaches(<<a, Parent[a]>>) /\ <<Parent[a], a>> \in joined \ cut
    BY <1>0, <2>1, StepPath
  <2>3. LastIs(flight'[<<a, Parent[a]>>], msg)
    BY <1>0, <1>2, <1>4, <2>1, <2>2, MessageSent
  <2>4. <<Parent[a], a>> \in joined' \ cut' /\ b \notin DOMAIN route'[a]
    BY <1>2, <1>7, <2>2
  <2>5. /\ Believes(below'[<<Parent[a], a>>], flight'[<<a, Parent[a]>>], a, Len(flight'[<<a, Parent[a]>>]))
        /\ ~Believes(below'[<<Parent[a], a>>], flight'[<<a, Parent[a]>>], b, Len(flight'[<<a, Parent[a]>>]))
    BY <1>0, <2>1, <2>4, BelievedLast
  <2>6. AsksAt(k, a, Len(flight[<<a, Parent[a]>>]))'
    BY <1>4, <2>3, <2>5 DEF AsksAt, LastIs
  <2>7. OnItsWayUp(k)'
    BY <1>0, <1>5, <2>1, <2>6 DEF OnItsWayUp, AsksUp
  <2> QED  BY <2>7 DEF Waits
<1> QED  BY <1>6, <1>7

----------------------------------------------------------------------------
(* Who waits is answered.                                                  *)

LEMMA WaitInit == ASSUME RoutingInit  PROVE WaitInv
<1>1. \A k \in Calls : calling[k] \in {"before", "never"}
  BY DEF RoutingInit
<1>2. "before" # "waiting" /\ "never" # "waiting"
  OBVIOUS
<1> QED  BY <1>1, <1>2 DEF WaitInv

LEMMA WaitStep == ASSUME RoutesInv, WaitInv, RoutingNext  PROVE WaitInv'
<1> SUFFICES ASSUME NEW k \in Calls, calling'[k] = "waiting", ~Doomed(Caller[k])'
             PROVE  Caller[k] \in present' /\ Waits(k)'
  BY DEF WaitInv
<1>1. RoutesInv' /\ cut \subseteq cut'
  BY RoutesStep
<1>2. ~Doomed(Caller[k])
  BY <1>1, CutGrows DEF Doomed
<1>3. (calling[k] = "waiting" /\ Waits(k)) \/ SendCall(k)
  BY <1>2, WaitsSince DEF WaitInv
<1>4. Caller[k] \in present
  BY <1>2, <1>3 DEF WaitInv, SendCall
<1>5. StepOf(k)
  BY <1>1, <1>2, <1>4, CallOK, RoutingAssumption DEF StepOf
<1>6. Caller[k] \in present'
  BY <1>4, StillRuns
<1>7. Waits(k)'
  <2>1. CASE OnItsWayUp(k)
    BY <1>5, <2>1, UpStep
  <2>2. CASE ComesBack(k)
    BY <1>5, <2>2, BackStep DEF Waits
  <2>3. CASE NewsComesBack(k)
    BY <1>5, <2>3, NewsStep DEF Waits
  <2>4. CASE Turned(k)
    BY <1>5, <2>4, TurnStep
  <2>5. CASE SendCall(k)
    BY <1>5, <2>5, CallStep
  <2> QED  BY <1>3, <2>1, <2>2, <2>3, <2>4, <2>5 DEF Waits
<1> QED  BY <1>6, <1>7

LEMMA WaitStutter == ASSUME WaitInv, UNCHANGED routingVars  PROVE WaitInv'
<1>1. UNCHANGED <<present, cut, flight, route, below, egress, calling, unidirectional>>
  BY DEF routingVars
<1>2. \A m, d : CutBelow(m, d)' <=> CutBelow(m, d)
  BY <1>1 DEF CutBelow
<1>3. \A k : OnItsWayUp(k)' <=> OnItsWayUp(k)
  BY <1>1 DEF OnItsWayUp, AsksUp, AsksAt
<1>4. \A k : ComesBack(k)' <=> ComesBack(k)
  BY <1>1 DEF ComesBack
<1>5. \A k : NewsComesBack(k)' <=> NewsComesBack(k)
  BY <1>1 DEF NewsComesBack, AsksUp
<1>6. \A k : Turned(k)' <=> Turned(k)
  BY <1>1, <1>2 DEF Turned, TurnsAt, AsksUp, Crosses, GoesDown, ReturnsUp, RepliesAt
<1> QED  BY <1>1, <1>2, <1>3, <1>4, <1>5, <1>6 DEF WaitInv, Waits, Doomed

\* Above a context that runs, nothing is left to read.
LEMMA QuietPath ==
    ASSUME RoutesInv, Quiet, NEW d \in present, NEW x \in Others, Under(x, d)
    PROVE  /\ x \in present /\ <<x, Parent[x]>> \notin cut
           /\ flight[<<x, Parent[x]>>] = <<>> /\ flight[<<Parent[x], x>>] = <<>>
<1>1. \A y \in Others : Under(y, d) /\ y \in present => Parent[y] \in present
  BY QuietStreams
<1>2. x \in Contexts /\ d \in Contexts
  BY DEF Others, RoutesInv, RoutingTypeOK
<1>3. x \in present
  BY <1>1, <1>2, UpInduction
<1>4. <<Parent[x], x>> \notin cut /\ flight[<<x, Parent[x]>>] = <<>> /\ flight[<<Parent[x], x>>] = <<>>
  BY <1>3, QuietStreams
<1>5. <<x, Parent[x]>> \notin cut
  BY <1>4 DEF RoutesInv, StreamsInv
<1> QED  BY <1>3, <1>4, <1>5

LEMMA CallsSettle == ASSUME RoutesInv, WaitInv  PROVE CallsAreAnswered
<1> SUFFICES ASSUME Quiet, NEW k \in Calls, calling[k] = "waiting", Caller[k] \in present  PROVE FALSE
  BY DEF CallsAreAnswered
<1>0. 1..Len(<<>>) = {} /\ Range(<<>>) = {} /\ TablesInv /\ RoutingTypeOK
  BY EmptyIs DEF RoutesInv
<1>1. \A m \in present : ~CutBelow(Root, m) /\ \A t : ~CutBelow(t, m)
  BY QuietPath DEF CutBelow
<1>2. Waits(k)
  BY <1>1 DEF WaitInv, Doomed
<1>3. \A m \in Others : Under(m, Caller[k]) => flight[<<m, Parent[m]>>] = <<>> /\ flight[<<Parent[m], m>>] = <<>>
  BY QuietPath
<1>4. ~OnItsWayUp(k)
  BY <1>0, <1>3 DEF OnItsWayUp, AsksAt
<1>5. ~ComesBack(k) /\ ~NewsComesBack(k)
  BY <1>0, <1>3 DEF ComesBack, NewsComesBack
<1>6. PICK t \in Contexts : TurnsAt(k, t) /\ Crosses(k, t)
  BY <1>2, <1>4, <1>5 DEF Waits, Turned
<1>7. Under(t, Caller[k]) /\ Callee[k] \in DOMAIN route[t]
  BY <1>6 DEF TurnsAt
<1>8. t \in present
  <2>1. StreamsInv /\ Caller[k] \in Contexts /\ ~Doomed(Caller[k])
    BY <1>1, CallOK DEF RoutesInv, Doomed
  <2> QED  BY <1>7, <2>1, AboveRuns
<1>9. route[t][Callee[k]] \in Children(t)
  BY <1>0, <1>7, <1>8, KnownIsBelow
<1>10. t \in Upgraded
  BY <1>9, ParentIs
<1>11. Callee[k] \in present
  BY <1>7, <1>8, <1>10, TreeSettles DEF RoutesAreTheTree
<1>12. \A x \in Others : Under(x, Callee[k]) => flight[<<x, Parent[x]>>] = <<>> /\ flight[<<Parent[x], x>>] = <<>>
  BY <1>11, QuietPath
<1>13. \A c : ~GoesDown(k, c) /\ ~ReturnsUp(k, c)
  BY <1>0, <1>12 DEF GoesDown, ReturnsUp, RepliesAt
<1> QED  BY <1>1, <1>6, <1>11, <1>13 DEF Crosses

\* Once all that was sent was read and every lost stream was noticed, nobody waits for a
\* reply, and every context routes to those that run below it and to no others: in any
\* finite tree, whichever calls are made, whatever contexts came and went, and in whatever order
\* the brokers of the contexts ran Router._async_route and RouteMonitor's handlers.
THEOREM CallsAndRoutesSettle == RoutingSpec => []RoutingSettles
<1>1. RoutingInit => RoutesInv /\ WaitInv
  BY RoutesInit, WaitInit
<1>2. RoutesInv /\ WaitInv /\ [RoutingNext]_routingVars => RoutesInv' /\ WaitInv'
  BY RoutesStep, WaitStep, RoutesStutter, WaitStutter
<1>3. RoutesInv /\ WaitInv => RoutingSettles
  BY CallsSettle, TreeSettles DEF RoutingSettles
<1> QED  BY <1>1, <1>2, <1>3, PTL DEF RoutingSpec

\* The variables of the routing tree have their types.
THEOREM RoutingTypes == RoutingSpec => []RoutingTypeOK
<1>1. RoutesInv => RoutingTypeOK
  BY DEF RoutesInv
<1> QED  BY <1>1, RoutesKept, PTL
=============================================================================
