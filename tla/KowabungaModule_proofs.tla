----------------------- MODULE KowabungaModule_proofs -----------------------
(***************************************************************************)
(* Proofs about KowabungaModule, for every instance of its constants: any  *)
(* number of concurrent runs, any catalogue of kinds, any tasks.           *)
(*                                                                         *)
(* The argument: what a run has learnt from its listing stays true although*)
(* the store changes under it, because no call ever alters the identity of *)
(* an object (its kind, name, owner and immutable attributes).  LookupInv  *)
(* says what a run has learnt at each of its steps.                        *)
(***************************************************************************)
EXTENDS KowabungaModule, FiniteSetTheorems, TLAPS

----------------------------------------------------------------------------
(* Types of the operators on the local state of a run.                     *)

LEMMA EmptySeqs == <<>> \in Seq(Nat) /\ <<>> \in Seq(Seq(Nat))
  OBVIOUS

LEMMA FreshType ==
    ASSUME NEW q \in Requests, NEW n \in Nat
    PROVE  Fresh(q, n) \in RunState
  <1>1. q \in Request
    BY RequestsAssumption
  <1>2. [kind |-> q.kind, name |-> q.name, fields |-> q.fields,
         refs |-> <<>>, parents |-> <<>>] \in Object
    BY <1>1, EmptySeqs DEF Request, Object
  <1>3. NoId \in Nat
    BY DEF NoId
  <1> QED
    BY <1>2, <1>3, EmptySeqs DEF Fresh, RunState, Goals

LEMMA EndedType ==
    ASSUME NEW u \in RunState
    PROVE  /\ Ended(u) \in RunState
           /\ Failed(u) \in RunState
           /\ \A c \in BOOLEAN : Exit(u, c) \in RunState
  <1>1. Fresh(u.req, u.starts) \in RunState
    BY FreshType DEF RunState
  <1>2. Ended(u) \in RunState
    BY <1>1 DEF Ended, RunState
  <1>3. Failed(u) \in RunState
    BY <1>2 DEF Failed, RunState
  <1>4. \A c \in BOOLEAN : Exit(u, c) \in RunState
    BY <1>2 DEF Exit, RunState
  <1> QED
    BY <1>2, <1>3, <1>4

LEMMA OnwardType ==
    ASSUME NEW u \in RunState
    PROVE  Onward(u) \in RunState
  <1> DEFINE g == IF Len(u.refs) < Len(Declares(u).refs) THEN "refs"
                  ELSE IF Declares(u).scope = "everywhere" THEN "self"
                  ELSE "scope"
  <1>1. g \in Goals
    BY DEF Goals
  <1> HIDE DEF g
  <1>2. [u EXCEPT !.step = "list", !.ids = <<>>, !.goal = g] \in RunState
    BY <1>1, EmptySeqs DEF RunState
  <1> QED
    BY <1>2 DEF Onward, g

\* Merging keeps an object an object, with the identity it had.
LEMMA MergedType ==
    ASSUME NEW q \in Requests, NEW refs \in Seq(Seq(Nat)), NEW o \in Object
    PROVE  Merged(q, refs, o) \in Object
  <1>1. q.fields \in [Fields -> Values \cup {None}]
    BY RequestsAssumption DEF Request
  <1>2. [f \in Fields |->
           IF f \in Declared[q.kind].mutable /\ q.fields[f] # None
           THEN q.fields[f] ELSE o.fields[f]] \in [Fields -> Values \cup {None}]
    BY <1>1 DEF Object
  <1> QED
    BY <1>2 DEF Merged, Object

\* At most two addresses denote one object: its ID and its name.
LEMMA HitsFinite ==
    ASSUME NEW u, NEW i
    PROVE  Cardinality(Hits(u, i)) \in Nat
  <1>1. Hits(u, i) \subseteq {i, object[i].name}
    BY DEF Hits, Matches
  <1>2. IsFiniteSet({i, object[i].name})
    <2>1. IsFiniteSet({i})
      BY FS_EmptySet, FS_AddElement, {i} = {} \cup {i}
    <2> QED
      BY <2>1, FS_AddElement, {i, object[i].name} = {i} \cup {object[i].name}
  <1>3. IsFiniteSet(Hits(u, i))
    BY <1>1, <1>2, FS_Subset
  <1> QED
    BY <1>3, FS_CardinalityType

----------------------------------------------------------------------------
(* The inductive invariant.                                                *)

\* The step at which the own lookup is over and its outcome is acted upon.
LookedUp(u) == u.step \in {"decide", "apply"} \/ u.goal = "parents"

\* What u has learnt: what it read without stopping is not what it looks for,
\* and what it found is, to this day, the object it holds a copy of.
LookupInv(u) ==
    /\ u.seen \subseteq DOMAIN object
    /\ \A i \in u.seen : object[i].kind = u.req.kind
    /\ ~LookedUp(u) /\ ~(u.step = "read" /\ u.goal = "self") => u.seen = {}
    /\ u.step = "read" /\ u.goal = "self" =>
          /\ u.todo \subseteq u.seen
          /\ \A i \in u.seen \ u.todo : ~Matches(i, object[i], u.req.name)
    /\ ~LookedUp(u) => u.target = NoId
    /\ LookedUp(u) /\ ~Found(u) =>
          \A i \in u.seen : ~Matches(i, object[i], u.req.name)
    /\ LookedUp(u) /\ Found(u) =>
          /\ u.target \in DOMAIN object
          /\ u.copy.kind = u.req.kind
          /\ SameIdentity(u.copy, object[u.target])
          /\ Matches(u.target, object[u.target], u.req.name)

\* A run in check mode never reaches its mutating call, nor the search for
\* the parents that precedes it.
CheckInv(u) ==
    /\ u.req.check => u.step # "apply" /\ u.goal # "parents"
    /\ u.step = "args" => u.goal = "self"

WitnessInv ==
    /\ \A j \in DOMAIN object : witness[j] \subseteq DOMAIN object
    /\ NoBlindDuplicate

IInv ==
    /\ TypeOK
    /\ \A r \in Runs : LookupInv(run[r]) /\ CheckInv(run[r])
    /\ WitnessInv

----------------------------------------------------------------------------
(* Steps that touch the local state of one run only.                       *)

LEMMA EndedLearnt ==
    ASSUME NEW u \in RunState,
           NEW v \in {Ended(u), Failed(u), Exit(u, TRUE), Exit(u, FALSE)}
    PROVE  v \in RunState /\ LookupInv(v) /\ CheckInv(v)
  <1>1. v \in RunState
    BY EndedType
  <1>2. /\ v.step = "done" /\ v.goal = "self"
        /\ v.seen = {} /\ v.target = NoId
    BY ZenonT(60) DEF Ended, Failed, Exit, Fresh
  <1> QED
    BY <1>1, <1>2 DEF LookupInv, CheckInv, LookedUp

LEMMA OnwardLearnt ==
    ASSUME NEW u \in RunState, u.seen = {}, u.target = NoId
    PROVE  Onward(u) \in RunState /\ LookupInv(Onward(u)) /\ CheckInv(Onward(u))
  <1>1. Onward(u) \in RunState
    BY OnwardType
  <1>2. /\ Onward(u).step = "list" /\ Onward(u).goal # "parents"
        /\ Onward(u).seen = {} /\ Onward(u).target = NoId
    BY DEF Onward, RunState
  <1> QED
    BY <1>1, <1>2 DEF LookupInv, CheckInv, LookedUp

LEMMA LocalPreserves ==
    ASSUME IInv, NEW r \in Runs, NEW u \in RunState,
           LookupInv(u), CheckInv(u), Local(r, u)
    PROVE  IInv'
  <1>1. /\ object' = object /\ live' = live /\ witness' = witness
        /\ run' = [run EXCEPT ![r] = u]
    BY DEF Local, Set
  <1>2. run \in [Runs -> RunState]
    BY DEF IInv, TypeOK
  <1>3. TypeOK'
    BY <1>1, <1>2 DEF IInv, TypeOK
  <1>4. ASSUME NEW s \in Runs
        PROVE  LookupInv(run[s])' /\ CheckInv(run[s])'
    <2>1. LookupInv(run[s]) /\ CheckInv(run[s])
      BY DEF IInv
    <2>2. CASE s = r
      <3>1. run'[s] = u
        BY <1>1, <1>2, <2>2
      <3> QED
        BY <1>1, <3>1 DEF LookupInv, CheckInv, LookedUp, Found, Matches, SameIdentity
    <2>3. CASE s # r
      <3>1. run'[s] = run[s]
        BY <1>1, <1>2, <2>3
      <3> QED
        BY <1>1, <2>1, <3>1
           DEF LookupInv, CheckInv, LookedUp, Found, Matches, SameIdentity
    <2> QED
      BY <2>2, <2>3
  <1>5. WitnessInv'
    BY <1>1 DEF IInv, WitnessInv, NoBlindDuplicate, Matches
  <1> QED
    BY <1>3, <1>4, <1>5 DEF IInv

\* The actions that only look: every one leaves its run with something it may
\* rely on.
LookOnly(r) ==
    \/ \E q \in Requests : Start(r, q)
    \/ Validate(r) \/ SkipRefs(r) \/ List(r) \/ ListGone(r)
    \/ \E i \in run[r].todo :
          ReadGone(r, i) \/ ReadOther(r, i) \/ ReadRef(r, i) \/ ReadHit(r, i)
    \/ RefsEnd(r) \/ NotFound(r)
    \/ Conflict(r) \/ Predict(r) \/ LeaveAlone(r) \/ Prepare(r)
    \/ Rejected(r) \/ Fault(r)

LEMMA ListLearns ==
    ASSUME IInv, NEW r \in Runs, List(r)
    PROVE  IInv'
  <1> DEFINE u == run[r]
             v == [u EXCEPT !.step = "read", !.todo = Listing(u),
                            !.seen = IF u.goal = "self" THEN Listing(u) ELSE @]
  <1>1. u \in RunState /\ LookupInv(u) /\ CheckInv(u)
    BY DEF IInv, TypeOK
  <1>2. live \subseteq DOMAIN object /\ DOMAIN object \subseteq Nat
    BY DEF IInv, TypeOK
  <1>3. Listing(u) \subseteq live
    BY DEF Listing
  <1>4. v \in RunState
    BY <1>1, <1>2, <1>3 DEF RunState
  <1>5. CheckInv(v)
    BY <1>1 DEF CheckInv, RunState
  <1>6. LookupInv(v)
    <2>1. CASE u.goal = "self"
      <3>1. \A i \in Listing(u) : object[i].kind = u.req.kind
        BY <2>1 DEF Listing, SoughtKind
      <3>2. /\ v.step = "read" /\ v.goal = "self" /\ v.seen = Listing(u)
            /\ v.todo = Listing(u) /\ v.req = u.req /\ v.target = u.target
        BY <1>1, <2>1 DEF RunState
      <3>3. u.target = NoId
        BY <1>1, <2>1 DEF LookupInv, LookedUp, List
      <3> QED
        BY <1>2, <1>3, <3>1, <3>2, <3>3 DEF LookupInv, LookedUp
    <2>2. CASE u.goal # "self"
      <3>1. /\ v.step = "read" /\ v.goal = u.goal /\ v.seen = u.seen
            /\ v.req = u.req /\ v.target = u.target /\ v.copy = u.copy
        BY <1>1, <2>2 DEF RunState
      <3>2. u.step = "list"
        BY DEF List
      <3>3. LookedUp(v) = LookedUp(u) /\ Found(v) = Found(u)
        BY <3>1, <3>2 DEF LookedUp, Found
      <3> QED
        BY <1>1, <2>2, <3>1, <3>2, <3>3 DEF LookupInv
    <2> QED
      BY <2>1, <2>2
  <1>7. Local(r, v)
    BY DEF List
  <1> QED
    BY <1>4, <1>5, <1>6, <1>7, LocalPreserves

LEMMA ReadsLearn ==
    ASSUME IInv, NEW r \in Runs, NEW i \in run[r].todo,
           ReadOther(r, i) \/ ReadRef(r, i) \/ ReadHit(r, i)
    PROVE  IInv'
  <1> DEFINE u == run[r]
  <1>1. u \in RunState /\ LookupInv(u) /\ CheckInv(u)
    BY DEF IInv, TypeOK
  <1>2. live \subseteq DOMAIN object /\ object \in Seq(Object)
    BY DEF IInv, TypeOK
  <1>3. i \in Nat
    BY <1>1 DEF RunState
  <1>4. CASE ReadOther(r, i)
    <2> DEFINE v == [u EXCEPT !.todo = @ \ {i}]
    <2>1. v \in RunState /\ CheckInv(v)
      BY <1>1 DEF RunState, CheckInv
    <2>2. /\ v.step = u.step /\ v.goal = u.goal /\ v.seen = u.seen
          /\ v.req = u.req /\ v.target = u.target /\ v.copy = u.copy
          /\ v.todo = u.todo \ {i} /\ u.step = "read"
      BY <1>1, <1>4 DEF RunState, ReadOther
    <2>3. u.goal = "self" => ~Matches(i, object[i], u.req.name)
      BY <1>4 DEF ReadOther, Hits, SoughtNames
    <2>4. LookedUp(v) = LookedUp(u) /\ Found(v) = Found(u)
      BY <2>2 DEF LookedUp, Found
    <2>5. LookupInv(v)
      BY <1>1, <2>2, <2>3, <2>4 DEF LookupInv
    <2> QED
      BY <1>4, <2>1, <2>5, LocalPreserves DEF ReadOther
  <1>5. CASE ReadRef(r, i)
    <2> DEFINE n == Cardinality(Hits(u, i))
               again == [m \in 1..n |-> i]
               v == [u EXCEPT !.todo = @ \ {i}, !.ids = @ \o again]
    <2>1. again \in Seq(Nat)
      BY <1>3, HitsFinite
    <2>2. u.ids \o again \in Seq(Nat)
      BY <1>1, <2>1 DEF RunState
    <2> HIDE DEF again
    <2>3. v \in RunState /\ CheckInv(v)
      BY <1>1, <2>2 DEF RunState, CheckInv
    <2>4. /\ v.step = u.step /\ v.goal = u.goal /\ v.seen = u.seen
          /\ v.req = u.req /\ v.target = u.target /\ v.copy = u.copy
          /\ u.step = "read" /\ u.goal = "refs"
      BY <1>1, <1>5 DEF RunState, ReadRef
    <2>5. LookupInv(v)
      BY <1>1, <2>4 DEF LookupInv, LookedUp
    <2>6. Local(r, v)
      BY <1>5 DEF ReadRef, again
    <2> QED
      BY <2>3, <2>5, <2>6, LocalPreserves
  <1>6. CASE ReadHit(r, i) /\ u.goal = "scope"
    <2> DEFINE v == [u EXCEPT !.step = "list", !.goal = "self", !.todo = {},
                              !.scope = i]
    <2>1. v \in RunState /\ CheckInv(v)
      BY <1>1, <1>3, <1>6 DEF RunState, CheckInv, Goals
    <2>2. u.seen = {} /\ u.target = NoId
      BY <1>1, <1>6 DEF LookupInv, LookedUp, ReadHit
    <2>3. LookupInv(v)
      BY <1>1, <2>2 DEF LookupInv, LookedUp, RunState
    <2> QED
      BY <1>6, <2>1, <2>3, LocalPreserves DEF ReadHit
  <1>7. CASE ReadHit(r, i) /\ u.goal = "self"
    <2> DEFINE v == [u EXCEPT !.step = "decide", !.todo = {}, !.target = i,
                              !.copy = object[i]]
    <2>1. i \in DOMAIN object /\ object[i] \in Object
      BY <1>2, <1>7 DEF ReadHit
    <2>2. v \in RunState /\ CheckInv(v)
      BY <1>1, <1>3, <1>7, <2>1 DEF RunState, CheckInv
    <2>3. Matches(i, object[i], u.req.name)
      BY <1>7 DEF ReadHit, Hits, SoughtNames
    <2>4. object[i].kind = u.req.kind
      BY <1>1, <1>7 DEF LookupInv, ReadHit
    <2>5. /\ v.step = "decide" /\ v.goal = "self" /\ v.seen = u.seen
          /\ v.req = u.req /\ v.target = i /\ v.copy = object[i]
      BY <1>1, <1>7 DEF RunState
    <2>6. i # NoId
      BY <1>2, <2>1 DEF NoId
    <2>7. LookupInv(v)
      BY <1>1, <2>1, <2>3, <2>4, <2>5, <2>6
         DEF LookupInv, LookedUp, Found, SameIdentity
    <2> QED
      BY <1>7, <2>2, <2>7, LocalPreserves DEF ReadHit
  <1>8. CASE ReadHit(r, i) /\ u.goal = "parents"
    <2> DEFINE st == IF Len(u.parents) + 1 < Len(Declares(u).parents)
                     THEN "list" ELSE "apply"
               v == [u EXCEPT !.parents = Append(@, i), !.todo = {}, !.step = st]
    <2>1. Append(u.parents, i) \in Seq(Nat)
      BY <1>1, <1>3 DEF RunState
    <2>2. st \in {"list", "apply"}
      OBVIOUS
    <2> HIDE DEF st
    <2>3. /\ v \in RunState
          /\ v.step = st /\ v.goal = u.goal /\ v.seen = u.seen
          /\ v.req = u.req /\ v.target = u.target /\ v.copy = u.copy
      BY <1>1, <2>1, <2>2 DEF RunState
    <2>4. CheckInv(v)
      BY <1>1, <1>8, <2>2, <2>3 DEF CheckInv
    <2>5. LookupInv(v)
      BY <1>1, <1>8, <2>2, <2>3 DEF LookupInv, LookedUp, Found
    <2>6. Local(r, v)
      BY <1>8 DEF ReadHit, st
    <2> QED
      BY <2>3, <2>4, <2>5, <2>6, LocalPreserves
  <1> QED
    BY <1>1, <1>4, <1>5, <1>6, <1>7, <1>8 DEF RunState, Goals, ReadHit

LEMMA LookOnlyPreserves ==
    ASSUME IInv, NEW r \in Runs, LookOnly(r)
    PROVE  IInv'
  <1> DEFINE u == run[r]
  <1>1. u \in RunState /\ LookupInv(u) /\ CheckInv(u)
    BY DEF IInv, TypeOK
  \* Steps that end the run.
  <1>2. ASSUME Local(r, Failed(u))
        PROVE  IInv'
    BY <1>1, <1>2, EndedLearnt, LocalPreserves
  <1>3. ASSUME NEW c \in BOOLEAN, Local(r, Exit(u, c))
        PROVE  IInv'
    BY <1>1, <1>3, EndedLearnt, LocalPreserves
  <1>4. WillChange(u) \in BOOLEAN
    BY DEF WillChange, Found
  <1>5. CASE \/ ListGone(r) \/ Conflict(r) \/ Rejected(r) \/ Fault(r)
            \/ \E i \in u.todo : ReadGone(r, i)
    BY <1>2, <1>5 DEF ListGone, Conflict, Rejected, Fault, ReadGone
  <1>6. CASE Predict(r) \/ LeaveAlone(r)
    BY <1>3, <1>4, <1>6 DEF Predict, LeaveAlone
  \* Steps of the loops.
  <1>7. CASE \E q \in Requests : Start(r, q)
    <2>1. PICK q \in Requests : Start(r, q)
      BY <1>7
    <2>2. Fresh(q, u.starts + 1) \in RunState
      <3>1. u.starts + 1 \in Nat
        BY <1>1 DEF RunState
      <3> QED
        BY <3>1, FreshType
    <2> DEFINE v == Fresh(q, u.starts + 1)
    <2>3. /\ v.step = "args" /\ v.goal = "self"
          /\ v.seen = {} /\ v.target = NoId
      BY DEF Fresh
    <2> HIDE DEF v
    <2>4. v \in RunState /\ Local(r, v)
      BY <2>1, <2>2 DEF Start, v
    <2>5. LookupInv(v) /\ CheckInv(v)
      BY <2>3 DEF LookupInv, CheckInv, LookedUp
    <2> QED
      BY <2>4, <2>5, LocalPreserves
  <1>15. CASE Validate(r)
    <2>1. u.seen = {} /\ u.target = NoId
      BY <1>1, <1>15 DEF Validate, LookupInv, CheckInv, LookedUp
    <2>2. CASE Local(r, Failed(u))
      BY <1>2, <2>2
    <2>3. CASE Local(r, Onward(u))
      BY <1>1, <2>1, <2>3, OnwardLearnt, LocalPreserves
    <2> QED
      BY <1>15, <2>2, <2>3 DEF Validate
  <1>8. ASSUME NEW ids \in Seq(Nat), u.goal = "refs", u.step \in {"list", "read"},
               Local(r, Onward([u EXCEPT !.refs = Append(@, ids)]))
        PROVE  IInv'
    <2> DEFINE v == [u EXCEPT !.refs = Append(@, ids)]
    <2>1. Append(u.refs, ids) \in Seq(Seq(Nat))
      BY <1>1, <1>8 DEF RunState
    <2>2. v \in RunState /\ v.seen = u.seen /\ v.target = u.target
      BY <1>1, <2>1 DEF RunState
    <2>3. u.seen = {} /\ u.target = NoId
      BY <1>1, <1>8 DEF LookupInv, LookedUp
    <2> HIDE DEF v
    <2>4. Onward(v) \in RunState /\ LookupInv(Onward(v)) /\ CheckInv(Onward(v))
      BY <2>2, <2>3, OnwardLearnt
    <2>5. Local(r, Onward(v))
      BY <1>8 DEF v
    <2> QED
      BY <2>4, <2>5, LocalPreserves
  <1>9. CASE SkipRefs(r)
    BY <1>8, <1>9, EmptySeqs DEF SkipRefs
  <1>10. CASE RefsEnd(r)
    BY <1>1, <1>2, <1>8, <1>10 DEF RefsEnd, RunState
  <1>11. CASE List(r)
    BY <1>11, ListLearns
  <1>12. CASE \E i \in u.todo : ReadOther(r, i) \/ ReadRef(r, i) \/ ReadHit(r, i)
    BY <1>12, ReadsLearn
  <1>13. CASE NotFound(r)
    <2> DEFINE v == [u EXCEPT !.step = "decide"]
    <2>1. CASE Local(r, Failed(u))
      BY <1>2, <2>1
    <2>2. CASE Local(r, v) /\ u.goal \in {"self", "scope"}
      <3>1. /\ v \in RunState /\ v.step = "decide" /\ v.goal = u.goal
            /\ v.seen = u.seen /\ v.req = u.req /\ v.target = u.target
        BY <1>1 DEF RunState
      <3>2. u.step = "read" /\ u.todo = {}
        BY <1>13 DEF NotFound
      <3>3. u.target = NoId
        BY <1>1, <2>2, <3>2 DEF LookupInv, LookedUp
      <3>4. LookupInv(v)
        BY <1>1, <2>2, <3>1, <3>2, <3>3 DEF LookupInv, LookedUp, Found
      <3>5. CheckInv(v)
        BY <2>2, <3>1 DEF CheckInv
      <3> QED
        BY <2>2, <3>1, <3>4, <3>5, LocalPreserves
    <2> QED
      BY <1>13, <2>1, <2>2 DEF NotFound
  <1>14. CASE Prepare(r)
    <2>1. u.step = "decide" /\ ~u.req.check
      BY <1>14 DEF Prepare
    <2>2. ASSUME NEW v \in {[u EXCEPT !.step = "list", !.goal = "parents"],
                            [u EXCEPT !.step = "apply"]},
                 Local(r, v)
          PROVE  IInv'
      <3>1. /\ v \in RunState /\ v.seen = u.seen /\ v.req = u.req
            /\ v.target = u.target /\ v.copy = u.copy
            /\ v.step = "apply" \/ (v.step = "list" /\ v.goal = "parents")
        BY <1>1 DEF RunState, Goals
      <3>2. LookupInv(v) /\ CheckInv(v)
        BY <1>1, <2>1, <3>1 DEF LookupInv, CheckInv, LookedUp, Found
      <3> QED
        BY <2>2, <3>1, <3>2, LocalPreserves
    <2> QED
      BY <1>14, <2>2 DEF Prepare
  <1> QED
    BY <1>5, <1>6, <1>7, <1>9, <1>10, <1>11, <1>12, <1>13, <1>14,
       <1>15 DEF LookOnly

----------------------------------------------------------------------------
(* Steps that change the store.                                            *)

\* Nobody's identity changes, and nobody is forgotten.
IdentityKept ==
    /\ DOMAIN object \subseteq DOMAIN object'
    /\ \A i \in DOMAIN object : SameIdentity(object'[i], object[i])

\* A run whose call took effect ends; what the others have learnt survives.
LEMMA EffectivePreserves ==
    ASSUME IInv, NEW r \in Runs, NEW lost \in BOOLEAN, Effective(r, lost),
           IdentityKept
    PROVE  /\ run' \in [Runs -> RunState]
           /\ \A s \in Runs : LookupInv(run[s])' /\ CheckInv(run[s])'
           /\ run'[r].effects = run[r].effects + 1
  <1> DEFINE u == [run[r] EXCEPT !.effects = @ + 1]
             v == IF lost THEN Failed(u) ELSE Exit(u, TRUE)
  <1>1. run \in [Runs -> RunState]
    BY DEF IInv, TypeOK
  <1>2. u \in RunState
    <2>1. run[r] \in RunState /\ run[r].effects + 1 \in Nat
      BY <1>1 DEF RunState
    <2> QED
      BY <2>1 DEF RunState
  <1> HIDE DEF u
  <1>3. v \in RunState /\ LookupInv(v) /\ CheckInv(v)
    <2>1. v \in {Ended(u), Failed(u), Exit(u, TRUE), Exit(u, FALSE)}
      OBVIOUS
    <2> QED
      BY <1>2, <2>1, EndedLearnt
  <1>4. v.effects = u.effects
    BY DEF Failed, Exit, Ended, Fresh
  <1> HIDE DEF v
  <1>5. run' = [run EXCEPT ![r] = v]
    BY DEF Effective, Set, u, v
  <1>6. run' \in [Runs -> RunState]
    BY <1>1, <1>3, <1>5
  <1>7. ASSUME NEW s \in Runs
        PROVE  LookupInv(run[s])' /\ CheckInv(run[s])'
    <2>1. CASE s = r
      <3>1. run'[s] = v
        BY <1>1, <1>5, <2>1
      <3>2. CheckInv(run[s])'
        BY <1>3, <3>1 DEF CheckInv
      <3>3. LookupInv(run[s])'
        BY <1>3, <3>1
           DEF LookupInv, LookedUp, Found, IdentityKept, SameIdentity, Matches
      <3> QED
        BY <3>2, <3>3
    <2>2. CASE s # r
      <3>1. run'[s] = run[s] /\ run[s] \in RunState
        BY <1>1, <1>5, <2>2
      <3>2. LookupInv(run[s]) /\ CheckInv(run[s])
        BY DEF IInv
      <3>3. LookupInv(run[s])'
        BY <3>1, <3>2
           DEF LookupInv, LookedUp, Found, IdentityKept, SameIdentity, Matches
      <3> QED
        BY <3>1, <3>2, <3>3 DEF CheckInv
    <2> QED
      BY <2>1, <2>2
  <1>8. run'[r].effects = run[r].effects + 1
    BY <1>1, <1>4, <1>5 DEF u, RunState
  <1> QED
    BY <1>6, <1>7, <1>8

LEMMA CreatePreserves ==
    ASSUME IInv, NEW r \in Runs, NEW lost \in BOOLEAN, Create(r, lost)
    PROVE  IInv' /\ IdentityKept
  <1> DEFINE u == run[r]
             new == Wanted(u)
             next == Len(object) + 1
  <1>1. u \in RunState /\ LookupInv(u) /\ CheckInv(u)
    BY DEF IInv, TypeOK
  <1>2. /\ object \in Seq(Object) /\ live \subseteq DOMAIN object
        /\ witness \in Seq(SUBSET Nat) /\ Len(witness) = Len(object)
    BY DEF IInv, TypeOK
  <1>3. /\ object' = Append(object, new) /\ witness' = Append(witness, u.seen)
        /\ live' = live \cup {next} /\ Effective(r, lost)
    BY DEF Create
  <1>4. u.step = "apply" /\ ~Found(u)
    BY DEF Create
  <1>5. new \in Object
    <2>1. u.req \in Request
      BY <1>1, RequestsAssumption DEF RunState
    <2> QED
      BY <1>1, <2>1 DEF Wanted, Request, Object, RunState
  <1>6. new.kind = u.req.kind /\ new.name = u.req.name
    BY DEF Wanted
  <1> HIDE DEF new
  <1>7. /\ object' \in Seq(Object) /\ DOMAIN object' = DOMAIN object \cup {next}
        /\ object'[next] = new
        /\ \A i \in DOMAIN object : object'[i] = object[i]
    BY <1>2, <1>3, <1>5
  <1>8. /\ witness' \in Seq(SUBSET Nat) /\ Len(witness') = Len(object')
        /\ witness'[next] = u.seen
        /\ \A i \in DOMAIN object : witness'[i] = witness[i]
    BY <1>1, <1>2, <1>3 DEF RunState
  <1>9. IdentityKept
    BY <1>7 DEF IdentityKept, SameIdentity
  <1>10. TypeOK'
    BY <1>2, <1>3, <1>7, <1>8, <1>9, EffectivePreserves DEF TypeOK
  <1>11. u.seen \subseteq DOMAIN object
        /\ \A i \in u.seen : /\ object[i].kind = u.req.kind
                             /\ ~Matches(i, object[i], u.req.name)
    BY <1>1, <1>4 DEF LookupInv, LookedUp
  <1>12. ASSUME NEW j \in DOMAIN object'
         PROVE  /\ witness'[j] \subseteq DOMAIN object'
                /\ \A i \in witness'[j] :
                      /\ object'[i].kind = object'[j].kind
                      /\ ~Matches(i, object'[i], object'[j].name)
    <2>1. CASE j = next
      BY <1>6, <1>7, <1>8, <1>11, <2>1
    <2>2. CASE j \in DOMAIN object
      <3>1. witness[j] \subseteq DOMAIN object
        BY <2>2 DEF IInv, WitnessInv
      <3>2. \A i \in witness[j] : /\ object[i].kind = object[j].kind
                                  /\ ~Matches(i, object[i], object[j].name)
        BY <2>2 DEF IInv, WitnessInv, NoBlindDuplicate
      <3> QED
        BY <1>7, <1>8, <2>2, <3>1, <3>2
    <2> QED
      BY <1>7, <2>1, <2>2
  <1>13. WitnessInv'
    BY <1>12 DEF WitnessInv, NoBlindDuplicate, Matches
  <1> QED
    BY <1>3, <1>9, <1>10, <1>13, EffectivePreserves DEF IInv

LEMMA UpdatePreserves ==
    ASSUME IInv, NEW r \in Runs, NEW lost \in BOOLEAN, Update(r, lost)
    PROVE  IInv' /\ IdentityKept
  <1> DEFINE u == run[r]
             t == u.target
             new == Merged(u.req, u.refs, u.copy)
  <1>1. u \in RunState /\ LookupInv(u) /\ CheckInv(u)
    BY DEF IInv, TypeOK
  <1>2. /\ object \in Seq(Object) /\ live \subseteq DOMAIN object
        /\ witness \in Seq(SUBSET Nat) /\ Len(witness) = Len(object)
    BY DEF IInv, TypeOK
  <1>3. /\ object' = [object EXCEPT ![t] = new]
        /\ live' = live /\ witness' = witness /\ Effective(r, lost)
        /\ u.step = "apply" /\ Found(u)
    BY DEF Update
  <1>4. /\ t \in DOMAIN object /\ u.copy.kind = u.req.kind
        /\ SameIdentity(u.copy, object[t])
    BY <1>1, <1>3 DEF LookupInv, LookedUp
  <1>5. new \in Object
    BY <1>1, MergedType DEF RunState
  <1>6. SameIdentity(new, object[t])
    <2>1. /\ new.kind = u.copy.kind /\ new.name = u.copy.name
          /\ new.parents = u.copy.parents
      BY <1>1 DEF Merged, RunState, Object
    <2>2. u.req.kind \in Kinds
      BY <1>1, RequestsAssumption DEF RunState, Request
    <2>3. \A f \in Declared[u.req.kind].immutable \cap Fields :
             new.fields[f] = u.copy.fields[f]
      BY <1>1, <2>2, InstanceAssumption DEF Merged, RunState, Object
    <2> QED
      BY <1>4, <2>1, <2>3 DEF SameIdentity
  <1> HIDE DEF new
  <1>7. /\ object' \in Seq(Object) /\ DOMAIN object' = DOMAIN object
        /\ object'[t] = new
        /\ \A i \in DOMAIN object \ {t} : object'[i] = object[i]
    BY <1>2, <1>3, <1>4, <1>5
  <1>8. IdentityKept
    BY <1>6, <1>7 DEF IdentityKept, SameIdentity
  <1>9. Len(object') = Len(object)
    BY <1>2, <1>3
  <1>10. TypeOK'
    BY <1>2, <1>3, <1>7, <1>8, <1>9, EffectivePreserves DEF TypeOK
  <1>11. WitnessInv'
    BY <1>3, <1>7, <1>8
       DEF IInv, WitnessInv, NoBlindDuplicate, IdentityKept, SameIdentity, Matches
  <1> QED
    BY <1>3, <1>8, <1>10, <1>11, EffectivePreserves DEF IInv

LEMMA DeletePreserves ==
    ASSUME IInv, NEW r \in Runs, NEW lost \in BOOLEAN, Delete(r, lost)
    PROVE  IInv' /\ IdentityKept
  <1>1. /\ live' \subseteq live /\ object' = object /\ witness' = witness
        /\ Effective(r, lost)
    BY DEF Delete
  <1>2. IdentityKept
    BY <1>1 DEF IdentityKept, SameIdentity
  <1>3. TypeOK'
    BY <1>1, <1>2, EffectivePreserves DEF IInv, TypeOK
  <1>4. WitnessInv'
    BY <1>1 DEF IInv, WitnessInv, NoBlindDuplicate, Matches
  <1> QED
    BY <1>1, <1>2, <1>3, <1>4, EffectivePreserves DEF IInv

----------------------------------------------------------------------------
(* The theorems.                                                           *)

LEMMA InitInv == Init => IInv
  <1> SUFFICES ASSUME Init PROVE IInv
    OBVIOUS
  <1>1. Initial \in Seq(Object)
    BY InstanceAssumption
  <1>2. PICK q \in Requests : run = [r \in Runs |-> [Fresh(q, 0) EXCEPT !.step = "idle"]]
    BY RequestsAssumption DEF Init
  <1>3. Fresh(q, 0) \in RunState
    BY FreshType
  <1>4. ASSUME NEW r \in Runs
        PROVE  run[r] \in RunState /\ LookupInv(run[r]) /\ CheckInv(run[r])
    <2>1. /\ run[r].step = "idle" /\ run[r].goal = "self"
          /\ run[r].seen = {} /\ run[r].target = NoId
      BY <1>2 DEF Fresh
    <2>2. run[r] \in RunState
      BY <1>2, <1>3 DEF RunState
    <2> QED
      BY <2>1, <2>2 DEF LookupInv, CheckInv, LookedUp
  <1>5. TypeOK
    <2>1. /\ object = Initial /\ live = DOMAIN Initial
          /\ witness = [i \in DOMAIN Initial |-> {}]
      BY DEF Init
    <2>2. witness \in Seq(SUBSET Nat) /\ Len(witness) = Len(object)
      BY <1>1, <2>1
    <2>3. run \in [Runs -> RunState]
      BY <1>2, <1>4
    <2> QED
      BY <1>1, <2>1, <2>2, <2>3 DEF TypeOK
  <1>6. WitnessInv
    BY DEF Init, WitnessInv, NoBlindDuplicate
  <1> QED
    BY <1>4, <1>5, <1>6 DEF IInv

LEMMA NextInv == IInv /\ [Next]_vars => IInv' /\ IdentityKept
  <1> SUFFICES ASSUME IInv, [Next]_vars PROVE IInv' /\ IdentityKept
    OBVIOUS
  <1>1. CASE UNCHANGED vars
    <2>1. IInv'
      BY <1>1 DEF vars, IInv, TypeOK, LookupInv, CheckInv, WitnessInv,
                  NoBlindDuplicate, LookedUp, Found, Matches, SameIdentity
    <2>2. IdentityKept
      BY <1>1 DEF vars, IdentityKept, SameIdentity
    <2> QED
      BY <2>1, <2>2
  <1>2. ASSUME NEW r \in Runs, LookOnly(r)
        PROVE  IInv' /\ IdentityKept
    <2>1. object' = object
      BY <1>2 DEF LookOnly, Start, Validate, SkipRefs, List, ListGone, ReadGone, ReadOther,
         ReadRef, ReadHit, RefsEnd, NotFound, Conflict, Predict, LeaveAlone,
         Prepare, Rejected, Fault, Local
    <2>2. IdentityKept
      BY <2>1 DEF IdentityKept, SameIdentity
    <2> QED
      BY <1>2, <2>2, LookOnlyPreserves
  <1>3. ASSUME NEW r \in Runs, NEW lost \in BOOLEAN,
               Create(r, lost) \/ Update(r, lost) \/ Delete(r, lost)
        PROVE  IInv' /\ IdentityKept
    BY <1>3, CreatePreserves, UpdatePreserves, DeletePreserves
  <1>4. CASE Next
    BY <1>2, <1>3, <1>4 DEF Next, Progress, LookOnly
  <1> QED
    BY <1>1, <1>4

THEOREM Invariance == Spec => []IInv
  BY InitInv, NextInv, PTL DEF Spec

\* Every reachable state is well typed.
THEOREM TypeCorrect == Spec => []TypeOK
  <1>1. IInv => TypeOK
    BY DEF IInv
  <1> QED
    BY <1>1, Invariance, PTL

\* Duplicates of a name come only from runs that could not see each other's
\* object when they listed: whatever the number of runs and their interleaving.
THEOREM DuplicatesNeedARace == Spec => []NoBlindDuplicate
  <1>1. IInv => NoBlindDuplicate
    BY DEF IInv, WitnessInv
  <1> QED
    BY <1>1, Invariance, PTL

\* No interleaving of read-modify-write cycles alters what cannot be updated.
THEOREM IdentityIsForLife == Spec => IdentityForLife
  <1>1. IInv /\ [Next]_vars =>
           [\A i \in DOMAIN object : SameIdentity(object'[i], object[i])]_vars
    BY NextInv DEF IdentityKept
  <1> QED
    BY <1>1, Invariance, PTL DEF Spec, IdentityForLife

\* A task changes or deletes nothing but the object it names, and nothing at
\* all in check mode.
THEOREM NamedObjectOnly == Spec => OnlyTheNamedObject
  <1> DEFINE Asked(i) == \E r \in Runs : LET q == run[r].req IN
               /\ run'[r].effects > run[r].effects
               /\ ~q.check
               /\ q.kind = object[i].kind
               /\ Matches(i, object[i], q.name)
               /\ q.state = IF i \in live' THEN "present" ELSE "absent"
             Touched(i) == object'[i] # object[i] \/ (i \in live /\ i \notin live')
  <1>1. ASSUME IInv, Next, NEW i \in DOMAIN object, Touched(i)
        PROVE  Asked(i)
    <2>1. PICK r \in Runs : \/ \E q \in Requests : Start(r, q)
                            \/ Progress(r)
                            \/ Fault(r)
      BY <1>1 DEF Next
    <2>2. ~LookOnly(r)
      BY <1>1 DEF LookOnly, Start, Validate, SkipRefs, List, ListGone, ReadGone, ReadOther,
         ReadRef, ReadHit, RefsEnd, NotFound, Conflict, Predict, LeaveAlone,
         Prepare, Rejected, Fault, Local
    <2>3. PICK lost \in BOOLEAN : Create(r, lost) \/ Update(r, lost) \/ Delete(r, lost)
      BY <2>1, <2>2 DEF Progress, LookOnly
    <2>4. /\ object \in Seq(Object) /\ live \subseteq DOMAIN object
          /\ run[r] \in RunState /\ LookupInv(run[r]) /\ CheckInv(run[r])
      BY <1>1 DEF IInv, TypeOK
    <2>5. ~run[r].req.check /\ run[r].step = "apply"
      BY <2>3, <2>4 DEF Create, Update, Delete, CheckInv
    <2>6. IdentityKept /\ Effective(r, lost)
      BY <1>1, <2>3, CreatePreserves, UpdatePreserves, DeletePreserves
         DEF Create, Update, Delete
    <2>7. run'[r].effects > run[r].effects
      <3>1. run'[r].effects = run[r].effects + 1
        BY <1>1, <2>6, EffectivePreserves
      <3>2. run[r].effects \in Nat
        BY <2>4 DEF RunState
      <3> QED
        BY <3>1, <3>2
    <2>8. ~Create(r, lost)
      BY <1>1, <2>4 DEF Create
    <2>9. /\ Found(run[r]) /\ i = run[r].target
          /\ run[r].req.state = IF i \in live' THEN "present" ELSE "absent"
      BY <1>1, <2>3, <2>4, <2>8 DEF Update, Delete
    <2> QED
      BY <2>4, <2>5, <2>7, <2>9 DEF LookupInv, LookedUp, SameIdentity
  <1>2. IInv /\ [Next]_vars => [\A i \in DOMAIN object : Touched(i) => Asked(i)]_vars
    BY <1>1
  <1> QED
    BY <1>2, Invariance, PTL DEF Spec, OnlyTheNamedObject

----------------------------------------------------------------------------
(* Reports.                                                                *)

\* A run that has not ended has called nothing; one that has tells what it did.
Truthful(u) ==
    /\ u.step # "done" => u.effects = 0 /\ u.verdict = "none"
    /\ u.verdict = "ok" => u.effects = IF u.changed /\ ~u.req.check THEN 1 ELSE 0
    /\ u.verdict = "failed" => u.effects = 0 \/ (Faults /\ u.effects = 1)

AllTruthful == \A r \in Runs : Truthful(run[r])

LEMMA SetTruthful ==
    ASSUME TypeOK, AllTruthful, NEW r \in Runs, NEW v, Set(r, v), Truthful(v)
    PROVE  AllTruthful'
  <1>1. \A s \in Runs : run'[s] = IF s = r THEN v ELSE run[s]
    BY DEF TypeOK, Set
  <1> QED
    BY <1>1 DEF AllTruthful, Truthful

\* The ends of a run that has called nothing, and of one whose call took effect.
LEMMA EndsTruthful ==
    ASSUME NEW u \in RunState, u.effects = 0
    PROVE  /\ Truthful(Failed(u))
           /\ \A c \in BOOLEAN : (c => u.req.check) => Truthful(Exit(u, c))
  <1>1. Ended(u).effects = 0 /\ Ended(u).req = u.req /\ Ended(u).step = "done" /\ Ended(u) \in RunState
    BY EndedType DEF Ended, Fresh
  <1>2. Failed(u).effects = 0 /\ Failed(u).step = "done" /\ Failed(u).verdict = "failed"
    BY <1>1 DEF Failed, RunState
  <1>3. ASSUME NEW c \in BOOLEAN
        PROVE  /\ Exit(u, c).effects = 0 /\ Exit(u, c).step = "done" /\ Exit(u, c).verdict = "ok"
               /\ Exit(u, c).changed = c /\ Exit(u, c).req = u.req
    BY <1>1 DEF Exit, RunState
  <1> QED
    BY <1>2, <1>3 DEF Truthful

LEMMA EffectiveTruthful ==
    ASSUME TypeOK, AllTruthful, NEW r \in Runs, NEW lost \in BOOLEAN, Effective(r, lost),
           run[r].step = "apply", ~run[r].req.check
    PROVE  AllTruthful'
  <1> DEFINE u == [run[r] EXCEPT !.effects = @ + 1]
  <1>1. run[r] \in RunState /\ run[r].effects = 0
    BY DEF TypeOK, AllTruthful, Truthful
  <1>2. u \in RunState /\ u.effects = 1 /\ u.req = run[r].req
    <2>1. run[r].effects + 1 = 1 /\ 1 \in Nat
      BY <1>1
    <2> QED
      BY <1>1, <2>1 DEF RunState
  <1>3. Set(r, IF lost THEN Failed(u) ELSE Exit(u, TRUE)) /\ (lost => Faults)
    BY DEF Effective
  <1> HIDE DEF u
  <1>4. Ended(u).effects = 1 /\ Ended(u).req = u.req /\ Ended(u).step = "done" /\ Ended(u) \in RunState
    BY <1>2, EndedType DEF Ended, Fresh
  <1>5. Failed(u).effects = 1 /\ Failed(u).step = "done" /\ Failed(u).verdict = "failed"
    BY <1>4 DEF Failed, RunState
  <1>6. /\ Exit(u, TRUE).effects = 1 /\ Exit(u, TRUE).step = "done" /\ Exit(u, TRUE).verdict = "ok"
        /\ Exit(u, TRUE).changed = TRUE /\ Exit(u, TRUE).req = u.req
    BY <1>4 DEF Exit, RunState
  <1>7. Truthful(IF lost THEN Failed(u) ELSE Exit(u, TRUE))
    <2>1. CASE lost
      BY <1>3, <1>5, <2>1 DEF Truthful
    <2>2. CASE ~lost
      BY <1>2, <1>6, <2>2 DEF Truthful
    <2> QED
      BY <2>1, <2>2
  <1> QED
    BY <1>3, <1>7, SetTruthful

LEMMA LookOnlyTruthful ==
    ASSUME TypeOK, AllTruthful, NEW r \in Runs, LookOnly(r)
    PROVE  AllTruthful'
  <1> DEFINE u == run[r]
  <1>1. u \in RunState /\ Truthful(u)
    BY DEF TypeOK, AllTruthful
  <1>2. ASSUME u.step # "done", Set(r, Failed(u))
        PROVE  AllTruthful'
    BY <1>1, <1>2, EndsTruthful, SetTruthful DEF Truthful
  <1>3. ASSUME u.step # "done", NEW c \in BOOLEAN, c => u.req.check, Set(r, Exit(u, c))
        PROVE  AllTruthful'
    BY <1>1, <1>3, EndsTruthful, SetTruthful DEF Truthful
  \* A step that only moves the run on.
  <1>4. ASSUME u.step # "done", NEW v, Set(r, v),
               v.step # "done", v.effects = u.effects, v.verdict = u.verdict
        PROVE  AllTruthful'
    BY <1>1, <1>4, SetTruthful DEF Truthful
  <1>5. ASSUME NEW w \in RunState, w.effects = u.effects, w.verdict = u.verdict,
               u.step # "done", Set(r, Onward(w))
        PROVE  AllTruthful'
    <2>1. /\ Onward(w).step = "list" /\ Onward(w).effects = u.effects
          /\ Onward(w).verdict = u.verdict
      BY <1>5 DEF Onward, RunState
    <2> QED
      BY <1>4, <1>5, <2>1
  <1>6. CASE \E q \in Requests : Start(r, q)
    <2>1. PICK q \in Requests : Start(r, q)
      BY <1>6
    <2>2. Truthful(Fresh(q, u.starts + 1))
      BY DEF Fresh, Truthful
    <2> QED
      BY <2>1, <2>2, SetTruthful DEF Start, Local
  <1>7. CASE \/ ListGone(r) \/ Conflict(r) \/ Rejected(r) \/ Fault(r)
            \/ \E i \in u.todo : ReadGone(r, i)
    BY <1>2, <1>7 DEF ListGone, Conflict, Rejected, Fault, ReadGone, Local
  <1>8. CASE Predict(r) \/ LeaveAlone(r)
    <2>1. WillChange(u) \in BOOLEAN
      BY DEF WillChange, Found
    <2> QED
      BY <1>3, <1>8, <2>1 DEF Predict, LeaveAlone, Local
  <1>9. CASE Validate(r)
    BY <1>1, <1>2, <1>5, <1>9 DEF Validate, Local
  <1>10. CASE SkipRefs(r) \/ RefsEnd(r)
    <2>1. ASSUME NEW ids \in Seq(Nat), u.step # "done",
                 Set(r, Onward([u EXCEPT !.refs = Append(@, ids)]))
          PROVE  AllTruthful'
      <3> DEFINE w == [u EXCEPT !.refs = Append(@, ids)]
      <3>1. Append(u.refs, ids) \in Seq(Seq(Nat))
        BY <1>1 DEF RunState
      <3>2. w \in RunState /\ w.effects = u.effects /\ w.verdict = u.verdict
        BY <1>1, <3>1 DEF RunState
      <3> QED
        BY <1>5, <2>1, <3>2
    <2>2. u.ids \in Seq(Nat)
      BY <1>1 DEF RunState
    <2> QED
      BY <1>2, <1>10, <2>1, <2>2, EmptySeqs DEF SkipRefs, RefsEnd, Local
  <1>11. CASE List(r)
    <2> DEFINE v == [u EXCEPT !.step = "read", !.todo = Listing(u),
                              !.seen = IF u.goal = "self" THEN Listing(u) ELSE @]
    <2>1. v.step = "read" /\ v.effects = u.effects /\ v.verdict = u.verdict
      BY <1>1 DEF RunState
    <2>2. Set(r, v) /\ u.step = "list"
      BY <1>11 DEF List, Local
    <2> HIDE DEF v
    <2> QED
      BY <1>4, <2>1, <2>2
  <1>12. CASE \E i \in u.todo : ReadOther(r, i) \/ ReadRef(r, i) \/ ReadHit(r, i)
    <2>1. PICK i \in u.todo : ReadOther(r, i) \/ ReadRef(r, i) \/ ReadHit(r, i)
      BY <1>12
    <2>2. u.step = "read"
      BY <2>1 DEF ReadOther, ReadRef, ReadHit
    <2>3. CASE ReadOther(r, i) \/ ReadRef(r, i)
      <3> DEFINE v == [u EXCEPT !.todo = @ \ {i}]
                 w == [u EXCEPT !.todo = @ \ {i},
                                !.ids = @ \o [n \in 1..Cardinality(Hits(u, i)) |-> i]]
      <3>1. /\ v.step = "read" /\ v.effects = u.effects /\ v.verdict = u.verdict
            /\ w.step = "read" /\ w.effects = u.effects /\ w.verdict = u.verdict
        BY <1>1, <2>2 DEF RunState
      <3>2. Set(r, v) \/ Set(r, w)
        BY <2>3 DEF ReadOther, ReadRef, Local
      <3> HIDE DEF v, w
      <3> QED
        BY <1>4, <2>2, <3>1, <3>2
    <2>4. CASE ReadHit(r, i)
      <3> DEFINE st == IF Len(u.parents) + 1 < Len(Declares(u).parents) THEN "list" ELSE "apply"
                 x == [u EXCEPT !.step = "list", !.goal = "self", !.todo = {}, !.scope = i]
                 y == [u EXCEPT !.step = "decide", !.todo = {}, !.target = i, !.copy = object[i]]
                 z == [u EXCEPT !.parents = Append(@, i), !.todo = {}, !.step = st]
      <3>1. st # "done"
        OBVIOUS
      <3>2. u.goal \in {"scope", "self", "parents"}
        BY <1>1, <2>4 DEF ReadHit, RunState, Goals
      <3>3. Set(r, x) \/ Set(r, y) \/ Set(r, z)
        BY <2>4, <3>2 DEF ReadHit, Local
      <3> HIDE DEF st
      <3>4. /\ x.step # "done" /\ x.effects = u.effects /\ x.verdict = u.verdict
            /\ y.step # "done" /\ y.effects = u.effects /\ y.verdict = u.verdict
            /\ z.step # "done" /\ z.effects = u.effects /\ z.verdict = u.verdict
        BY <1>1, <3>1 DEF RunState
      <3> HIDE DEF x, y, z
      <3> QED
        BY <1>4, <2>2, <3>3, <3>4
    <2> QED
      BY <2>1, <2>3, <2>4
  <1>13. CASE NotFound(r) \/ Prepare(r)
    <2>1. u.step # "done"
      BY <1>13 DEF NotFound, Prepare
    <2> DEFINE x == [u EXCEPT !.step = "decide"]
               y == [u EXCEPT !.step = "list", !.goal = "parents"]
               z == [u EXCEPT !.step = "apply"]
    <2>2. Set(r, Failed(u)) \/ Set(r, x) \/ Set(r, y) \/ Set(r, z)
      BY <1>13 DEF NotFound, Prepare, Local
    <2>3. /\ x.step # "done" /\ x.effects = u.effects /\ x.verdict = u.verdict
          /\ y.step # "done" /\ y.effects = u.effects /\ y.verdict = u.verdict
          /\ z.step # "done" /\ z.effects = u.effects /\ z.verdict = u.verdict
      BY <1>1 DEF RunState
    <2> HIDE DEF x, y, z
    <2> QED
      BY <1>2, <1>4, <2>1, <2>2, <2>3
  <1> QED
    BY <1>6, <1>7, <1>8, <1>9, <1>10, <1>11, <1>12, <1>13 DEF LookOnly

\* What a task reports is what it did, however its calls interleave with those of other tasks
\* and whichever of its answers is lost.
THEOREM ReportsAreTrue == Spec => []ReportIsTrue
  <1>1. Init => AllTruthful
    <2> SUFFICES ASSUME Init PROVE AllTruthful
      OBVIOUS
    <2>1. PICK q \in Requests : run = [r \in Runs |-> [Fresh(q, 0) EXCEPT !.step = "idle"]]
      BY RequestsAssumption DEF Init
    <2>2. \A r \in Runs : run[r].effects = 0 /\ run[r].verdict = "none"
      BY <2>1 DEF Fresh
    <2> QED
      BY <2>2 DEF AllTruthful, Truthful
  <1>2. IInv /\ AllTruthful /\ [Next]_vars => AllTruthful'
    <2> SUFFICES ASSUME IInv, AllTruthful, [Next]_vars PROVE AllTruthful'
      OBVIOUS
    <2>1. TypeOK
      BY DEF IInv
    <2>2. CASE UNCHANGED vars
      BY <2>2 DEF vars, AllTruthful, Truthful
    <2>3. ASSUME NEW r \in Runs, LookOnly(r)
          PROVE  AllTruthful'
      BY <2>1, <2>3, LookOnlyTruthful
    <2>4. ASSUME NEW r \in Runs, NEW lost \in BOOLEAN,
                 Create(r, lost) \/ Update(r, lost) \/ Delete(r, lost)
          PROVE  AllTruthful'
      <3>1. run[r].step = "apply" /\ Effective(r, lost)
        BY <2>4 DEF Create, Update, Delete
      <3>2. ~run[r].req.check
        BY <3>1 DEF IInv, CheckInv
      <3> QED
        BY <2>1, <3>1, <3>2, EffectiveTruthful
    <2> QED
      BY <2>2, <2>3, <2>4 DEF Next, Progress, LookOnly
  <1>3. AllTruthful => ReportIsTrue
    BY DEF AllTruthful, Truthful, ReportIsTrue
  <1> QED
    BY <1>1, <1>2, <1>3, Invariance, PTL DEF Spec
=============================================================================
