---------------------------- MODULE MitogenLatch ----------------------------
(***************************************************************************)
(* The Latch of mitogen/core.py: a queue whose readers sleep on socket     *)
(* pairs, so that a signal can still interrupt them.  The blocks under     *)
(* Latch._lock are one step each; put() writes to the socket pair of the   *)
(* reader it picked after it released the lock.                            *)
(***************************************************************************)
EXTENDS Integers, Sequences, SequencesExt

CONSTANTS
    Readers,   \* threads that call get()
    Items,     \* each is put once, by a thread of its own
    MaxGets    \* calls of get() by one reader

ASSUME LatchAssumption == MaxGets \in Nat

VARIABLES
    latchClosed, latchQueue,
    sleeping,  \* sequence of [pair, cookie]
    waking,
    idle,      \* Latch._cls_idle_socketpairs, a stack
    inbox,     \* inbox[p]: the cookies written to socket pair p and not read
    reader,    \* reader[r]: where r is, its socket pair, and the calls it has left
    putting,   \* putting[i]: "before", "wake" (to write `write[i]`), or "done"
    write,
    got,       \* the items that get() returned, in that order
    asserted,  \* an assertion or an index of _get_sleep() failed
    raced      \* get() timed out between the two halves of a put()

latchVars == <<latchClosed, latchQueue, sleeping, waking, idle, inbox, reader, putting, write, got,
               asserted, raced>>

Pairs == 1..Len(inbox)
Entries == [pair : Nat \ {0}, cookie : Readers]

LatchTypeOK ==
    /\ latchClosed \in BOOLEAN /\ asserted \in BOOLEAN /\ raced \in BOOLEAN
    /\ latchQueue \in Seq(Items) /\ got \in Seq(Items)
    /\ sleeping \in Seq(Entries) /\ waking \in Nat
    /\ idle \in Seq(Pairs) /\ inbox \in Seq(Seq(Readers))
    /\ \A r \in Readers :
        /\ reader[r].at \in {"ready", "asleep", "stopped"}
        /\ reader[r].at = "asleep" => reader[r].pair \in Pairs
    /\ putting \in [Items -> {"before", "wake", "done"}]

LatchInit ==
    /\ latchClosed = FALSE /\ latchQueue = <<>> /\ sleeping = <<>> /\ waking = 0
    /\ idle = <<>> /\ inbox = <<>>
    /\ reader = [r \in Readers |-> [at |-> "ready", pair |-> 0, left |-> MaxGets]]
    /\ putting = [i \in Items |-> "before"]
    /\ write = [i \in Items |-> [pair |-> 0, cookie |-> CHOOSE r \in Readers : TRUE]]
    /\ got = <<>> /\ asserted = FALSE /\ raced = FALSE

Returns(r) == reader' = [reader EXCEPT ![r] = [at |-> "ready", pair |-> 0, left |-> @.left - 1]]
Raises(r) == reader' = [reader EXCEPT ![r].at = "stopped"]

\* get(): with an item that no reader before it is to have, it does not sleep.
GetNow(r) ==
    /\ reader[r].at = "ready" /\ reader[r].left > 0 /\ ~latchClosed
    /\ LET i == Len(sleeping) + 1 IN
       /\ Len(latchQueue) >= i
       /\ got' = Append(got, latchQueue[i])
       /\ latchQueue' = RemoveAt(latchQueue, i)
    /\ Returns(r)
    /\ UNCHANGED <<latchClosed, sleeping, waking, idle, inbox, putting, write, asserted, raced>>

GetClosed(r) ==
    /\ reader[r].at = "ready" /\ reader[r].left > 0 /\ latchClosed
    /\ Raises(r)
    /\ UNCHANGED <<latchClosed, latchQueue, sleeping, waking, idle, inbox, putting, write, got, asserted, raced>>

\* get(block=False) of an empty latch.
GetNothing(r) ==
    /\ reader[r].at = "ready" /\ reader[r].left > 0 /\ ~latchClosed
    /\ Len(latchQueue) =< Len(sleeping)
    /\ Returns(r)
    /\ UNCHANGED <<latchClosed, latchQueue, sleeping, waking, idle, inbox, putting, write, got, asserted, raced>>

\* Slip: the pair stays in the pool while its reader sleeps.
SleepOnShared(r) ==
    /\ reader[r].at = "ready" /\ reader[r].left > 0 /\ ~latchClosed
    /\ Len(latchQueue) =< Len(sleeping)
    /\ LET p == IF idle = <<>> THEN Len(inbox) + 1 ELSE Last(idle) IN
       /\ inbox' = IF idle = <<>> THEN Append(inbox, <<>>) ELSE inbox
       /\ idle' = IF idle = <<>> THEN <<p>> ELSE idle
       /\ sleeping' = Append(sleeping, [pair |-> p, cookie |-> r])
       /\ reader' = [reader EXCEPT ![r].at = "asleep", ![r].pair = p]
    /\ UNCHANGED <<latchClosed, latchQueue, waking, putting, write, got, asserted, raced>>

Sleep(r) ==
    /\ reader[r].at = "ready" /\ reader[r].left > 0 /\ ~latchClosed
    /\ Len(latchQueue) =< Len(sleeping)
    /\ LET p == IF idle = <<>> THEN Len(inbox) + 1 ELSE Last(idle) IN
       /\ inbox' = IF idle = <<>> THEN Append(inbox, <<>>) ELSE inbox
       /\ idle' = IF idle = <<>> THEN idle ELSE Front(idle)
       /\ sleeping' = Append(sleeping, [pair |-> p, cookie |-> r])
       /\ reader' = [reader EXCEPT ![r].at = "asleep", ![r].pair = p]
    /\ UNCHANGED <<latchClosed, latchQueue, waking, putting, write, got, asserted, raced>>

\* The part of _get_sleep() before the two asserts.
Wakes(r) ==
    LET p == reader[r].pair
        i == SelectInSeq(sleeping, LAMBDA e : e.pair = p /\ e.cookie = r) IN
    /\ reader[r].at = "asleep"
    /\ sleeping' = RemoveAt(sleeping, i)
    /\ idle' = Append(idle, p)

\* The poll ended with nothing to read: the timeout, or a signal.
TimesOut(r) ==
    LET p == reader[r].pair IN
    /\ Wakes(r) /\ inbox[p] = <<>>
    /\ Returns(r)
    /\ raced' = (raced \/ SelectInSeq(sleeping, LAMBDA e : e.pair = p) =< waking)
    /\ UNCHANGED <<latchClosed, latchQueue, waking, inbox, putting, write, got, asserted>>

\* There is a cookie: it must be this reader's, with an item at the reader's place.
Woken(r) ==
    LET p == reader[r].pair
        i == SelectInSeq(sleeping, LAMBDA e : e.pair = p /\ e.cookie = r)
        correct == Head(inbox[p]) = r /\ i =< waking IN
    /\ Wakes(r) /\ inbox[p] # <<>>
    /\ inbox' = [inbox EXCEPT ![p] = Tail(@)]
    /\ waking' = IF correct THEN waking - 1 ELSE waking
    /\ IF correct /\ ~latchClosed /\ i =< Len(latchQueue)
       THEN /\ got' = Append(got, latchQueue[i]) /\ latchQueue' = RemoveAt(latchQueue, i)
            /\ Returns(r) /\ UNCHANGED asserted
       ELSE /\ asserted' = (asserted \/ ~correct \/ ~latchClosed)
            /\ Raises(r) /\ UNCHANGED <<got, latchQueue>>
    /\ UNCHANGED <<latchClosed, putting, write, raced>>

\* put(), under the lock.
PutItem(item) ==
    /\ putting[item] = "before"
    /\ IF latchClosed THEN putting' = [putting EXCEPT ![item] = "done"]
                      /\ UNCHANGED <<latchQueue, waking, write>>
       ELSE /\ latchQueue' = Append(latchQueue, item)
            /\ IF waking < Len(sleeping)
               THEN /\ write' = [write EXCEPT ![item] = sleeping[waking + 1]]
                    /\ waking' = waking + 1
                    /\ putting' = [putting EXCEPT ![item] = "wake"]
               ELSE /\ putting' = [putting EXCEPT ![item] = "done"]
                    /\ UNCHANGED <<waking, write>>
    /\ UNCHANGED <<latchClosed, sleeping, idle, inbox, reader, got, asserted, raced>>

\* put(), after it: _wake().
WakeReader(item) ==
    /\ putting[item] = "wake"
    /\ inbox' = [inbox EXCEPT ![write[item].pair] = Append(@, write[item].cookie)]
    /\ putting' = [putting EXCEPT ![item] = "done"]
    /\ UNCHANGED <<latchClosed, latchQueue, sleeping, waking, idle, reader, write, got, asserted, raced>>

\* close(): every sleeper that was not woken is, under the lock.  Each has a socket pair of its own.
Unwoken(p) == {k \in (waking + 1)..Len(sleeping) : sleeping[k].pair = p}
CloseLatch ==
    /\ ~latchClosed /\ latchClosed' = TRUE
    /\ inbox' = [p \in Pairs |-> IF Unwoken(p) = {} THEN inbox[p]
                               ELSE Append(inbox[p], sleeping[CHOOSE k \in Unwoken(p) : TRUE].cookie)]
    /\ waking' = IF waking < Len(sleeping) THEN Len(sleeping) ELSE waking
    /\ UNCHANGED <<latchQueue, sleeping, idle, reader, putting, write, got, asserted, raced>>

LatchNext ==
    \/ \E r \in Readers : GetNow(r) \/ GetClosed(r) \/ GetNothing(r) \/ Sleep(r)
                          \/ TimesOut(r) \/ Woken(r)
    \/ \E item \in Items : PutItem(item) \/ WakeReader(item)
    \/ CloseLatch

LatchSpec == LatchInit /\ [][LatchNext]_latchVars

----------------------------------------------------------------------------
(* Correctness.                                                            *)

ToBeWoken(e) == \E item \in Items : putting[item] = "wake" /\ write[item] = e

\* put(), core.py:2900: "Enqueue an object, waking the first thread waiting for a
\* result, if one exists" -- so that no item is left in the latch while every
\* reader that waits for one sleeps, without a cookie and with none on its way.
PutWakesAReader ==
    latchQueue # <<>> /\ sleeping # <<>> =>
        \E k \in DOMAIN sleeping : inbox[sleeping[k].pair] # <<>> \/ ToBeWoken(sleeping[k])

\* Unless a timeout came between the two halves of a put(): the count of woken
\* readers is right, no assertion fails, a reader sleeps on only when every item is
\* promised to one that was woken, and each of those has its cookie or will get it.
SleepersAreServed ==
    raced \/
    /\ ~asserted
    /\ waking =< Len(sleeping) /\ (latchClosed \/ waking =< Len(latchQueue))
    /\ waking < Len(sleeping) => ~latchClosed /\ Len(latchQueue) = waking
    /\ \A k \in 1..waking :
          inbox[sleeping[k].pair] = <<sleeping[k].cookie>> \/ ToBeWoken(sleeping[k])
=============================================================================
