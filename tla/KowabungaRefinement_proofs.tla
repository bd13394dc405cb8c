--------------------- MODULE KowabungaRefinement_proofs ---------------------
(***************************************************************************)
(* Proofs that tasks which run one after the other implement               *)
(* EnsureResource, for any kinds, requests and initial objects, and that   *)
(* names stay unique.                                                      *)
(*                                                                         *)
(* The argument: nobody else touches the store while a task looks through  *)
(* it, so at each step what its loops have gathered is a part of what      *)
(* EnsureResource states over the store as it is (RightSoFar).             *)
(***************************************************************************)
EXTENDS KowabungaRefinement, KowabungaModule_proofs

ElementsOf(s) == {s[m] : m \in DOMAIN s}

\* s lists the members of S as the store does.
Lists(s, S) == Ascending(s) /\ ElementsOf(s) = S

\* A list argument that stands for nothing, though it must not.
Dangling(q, n) ==
    /\ Ensure!Referred(q)[n] = {}
    /\ \/ Declared[q.kind].mode = "always"
       \/ Declared[q.kind].mode = "given" /\ q.refs[n] # {}

RefsRight(u) ==
    /\ Len(u.refs) <= Len(Declares(u).refs)
    /\ \A n \in DOMAIN u.refs :
          Lists(u.refs[n], Ensure!Referred(u.req)[n]) /\ ~Dangling(u.req, n)
    /\ u.goal = "refs" => u.step \in {"list", "read"} /\ Len(u.refs) < Len(Declares(u).refs)
    /\ u.step # "args" /\ u.goal # "refs" => Len(u.refs) = Len(Declares(u).refs)

\* The loop over a listing: what it has left behind is settled.
ReadRight(u) ==
    /\ u.step = "read" =>
          /\ u.todo \subseteq Listing(u)
          /\ u.goal # "refs" => \A j \in Listing(u) \ u.todo : Hits(u, j) = {}
          /\ u.goal = "refs" =>
                /\ Lists(u.ids, {j \in Listing(u) \ u.todo : Hits(u, j) # {}})
                /\ \A m \in DOMAIN u.ids : \A i \in u.todo : u.ids[m] < i
                /\ SoughtNames(u) # {} \/ Declares(u).mode = "always"
    /\ u.step = "list" /\ u.goal = "refs" => u.ids = <<>>

ScopeRight(u) ==
    /\ u.goal = "scope" => Declares(u).scope # "everywhere"
    /\ u.step \in {"list", "read"} /\ Scoped(u) =>
          u.scope = Ensure!Owners(u.req)[1] /\ u.scope # NoId

TargetRight(u) ==
    LookedUp(u) =>
        /\ u.target = Ensure!Target(u.req)
        /\ Found(u) => u.copy = object[u.target]
        /\ Declares(u).scope = "parentOrFail" => Ensure!Owners(u.req)[1] # NoId

ParentsRight(u) ==
    /\ u.goal # "parents" => u.parents = <<>>
    /\ \A n \in DOMAIN u.parents :
          u.parents[n] = Ensure!Owners(u.req)[n] /\ u.parents[n] # NoId
    /\ u.goal = "parents" =>
          /\ u.step \in {"list", "read", "apply"} /\ NeedsParents(u)
          /\ IF u.step = "apply" THEN Len(u.parents) = Len(Declares(u).parents)
             ELSE Len(u.parents) < Len(Declares(u).parents)
    /\ u.step = "apply" /\ u.goal # "parents" => ~NeedsParents(u)
    /\ u.step = "apply" \/ u.goal = "parents" =>
          ~u.req.check /\ ~Clashes(u) /\ WillChange(u)

RightSoFar(u) ==
    /\ u.step # "args" => u.req.omitted \cap Declares(u).required = {}
    /\ u.step = "args" => u.goal = "self" /\ u.refs = <<>> /\ u.parents = <<>>
    /\ RefsRight(u) /\ ReadRight(u) /\ ScopeRight(u) /\ TargetRight(u) /\ ParentsRight(u)

\* Objects are as tasks make them.
Tidy(o) ==
    /\ \A n \in DOMAIN o.refs : Ascending(o.refs[n])
    /\ \A n \in DOMAIN o.parents : o.parents[n] # NoId

SeqInv ==
    /\ \A r, s \in Runs : ~Idle(r) /\ ~Idle(s) => r = s
    /\ \A r \in Runs : ~Idle(r) => RightSoFar(run[r])
    /\ \A i \in DOMAIN object : Tidy(object[i])

----------------------------------------------------------------------------
(* What EnsureResource says of the store, in the terms of KowabungaModule. *)

LEMMA FirstIs ==
    ASSUME NEW S, S \subseteq Nat
    PROVE  /\ S = {} => Ensure!First(S) = 0
           /\ S # {} => Ensure!First(S) \in S /\ \A j \in S : Ensure!First(S) <= j
           /\ \A i \in S : (\A j \in S : i <= j) => Ensure!First(S) = i
  <1> DEFINE R == {ss \in Nat \X Nat : ss[1] < ss[2]}
  <1>1. ASSUME S # {}
        PROVE  \E x \in S : \A y \in S : x <= y
    <2>1. IsWellFoundedOn(R, Nat)
      BY NatLessThanWellFounded, Zenon DEF OpToRel
    <2>2. PICK x \in S : \A y \in S : ~(<<y, x>> \in R)
      <3> HIDE DEF R
      <3> QED
        BY <1>1, <2>1, WFMin, Zenon
    <2>3. \A y \in S : <<y, x>> \in R <=> y < x
      OBVIOUS
    <2> HIDE DEF R
    <2>4. \A y \in S : ~(y < x)
      BY <2>2, <2>3
    <2> QED
      BY <2>4
  <1>2. S # {} => Ensure!First(S) \in S /\ \A j \in S : Ensure!First(S) <= j
    BY <1>1 DEF Ensure!First
  <1>3. S = {} => Ensure!First(S) = 0
    BY DEF Ensure!First
  <1>4. ASSUME NEW i \in S, \A j \in S : i <= j
        PROVE  Ensure!First(S) = i
    <2>1. Ensure!First(S) \in S /\ Ensure!First(S) <= i
      BY <1>2
    <2>2. i <= Ensure!First(S)
      BY <1>4, <2>1
    <2>3. i \in Nat /\ Ensure!First(S) \in Nat
      BY <2>1
    <2> HIDE DEF R
    <2> QED
      BY <2>1, <2>2, <2>3
  <1> QED
    BY <1>2, <1>3, <1>4

LEMMA MappedObject ==
    ASSUME TypeOK, NEW i \in DOMAIN object
    PROVE  /\ AsSets(object[i]).kind = object[i].kind
           /\ AsSets(object[i]).name = object[i].name
           /\ AsSets(object[i]).fields = object[i].fields
           /\ AsSets(object[i]).parents = object[i].parents
           /\ AsSets(object[i]).refs = [n \in DOMAIN object[i].refs |-> ElementsOf(object[i].refs[n])]
  <1>1. object[i] \in Object
    BY DEF TypeOK
  <1> QED
    BY <1>1 DEF AsSets, Object, ElementsOf

LEMMA CandidatesAre ==
    ASSUME TypeOK, NEW k, NEW a
    PROVE  Ensure!Candidates(k, a) =
             {i \in live : object[i].kind = k /\ Matches(i, object[i], a)}
  BY MappedObject DEF TypeOK, Ensure!Candidates, Ensure!Named, Matches

LEMMA LiveIds == TypeOK => live \subseteq Nat \ {0}
  BY DEF TypeOK

\* The candidates of a request, and what EnsureResource makes of them.
LEMMA OwnersAre ==
    ASSUME TypeOK, NEW q \in Requests
    PROVE  /\ DOMAIN Ensure!Owners(q) = DOMAIN q.parents
           /\ \A n \in DOMAIN q.parents :
                Ensure!Owners(q)[n] = Ensure!First({i \in live :
                    /\ object[i].kind = Declared[q.kind].parents[n]
                    /\ Matches(i, object[i], q.parents[n])})
  BY CandidatesAre DEF Ensure!Owners

LEMMA TargetIs ==
    ASSUME TypeOK, NEW q \in Requests
    PROVE  Ensure!Target(q) = Ensure!First({i \in live :
               /\ object[i].kind = q.kind /\ Matches(i, object[i], q.name)
               /\ Declared[q.kind].scope # "everywhere" =>
                     object[i].parents = Ensure!Owners(q)})
  <1> DEFINE S == {i \in Ensure!Candidates(q.kind, q.name) : Ensure!Scoped(q) =>
                     [j \in DOMAIN object |-> AsSets(object[j])][i].parents = Ensure!Owners(q)}
             T == {i \in live :
               /\ object[i].kind = q.kind /\ Matches(i, object[i], q.name)
               /\ Declared[q.kind].scope # "everywhere" =>
                     object[i].parents = Ensure!Owners(q)}
  <1>1. Ensure!Target(q) = Ensure!First(S)
    BY DEF Ensure!Target
  <1>2. \A i \in live : [j \in DOMAIN object |-> AsSets(object[j])][i].parents = object[i].parents
    BY MappedObject DEF TypeOK
  <1>3. S = T
    <2>1. Ensure!Candidates(q.kind, q.name) =
            {i \in live : object[i].kind = q.kind /\ Matches(i, object[i], q.name)}
      BY CandidatesAre
    <2> QED
      BY <1>2, <2>1 DEF Ensure!Scoped
  <1> QED
    BY <1>1, <1>3

LEMMA ReferredIs ==
    ASSUME TypeOK, NEW q \in Requests
    PROVE  /\ DOMAIN Ensure!Referred(q) = DOMAIN q.refs
           /\ \A n \in DOMAIN q.refs :
                Ensure!Referred(q)[n] = {i \in live :
                    /\ object[i].kind = Declared[q.kind].refs[n]
                    /\ \E a \in q.refs[n] : Matches(i, object[i], a)}
  BY CandidatesAre DEF Ensure!Referred

\* While the store stays as it is, so does what is right about it.
LEMMA StoreSame ==
    ASSUME object' = object, live' = live, NEW u
    PROVE  RightSoFar(u)' <=> RightSoFar(u)
  BY DEF RightSoFar, RefsRight, ReadRight, ScopeRight, TargetRight, ParentsRight, LookedUp, Found,
         Clashes, WillChange, Differs, NeedsParents, Listing, Hits, Dangling, Scoped,
         Ensure!Target, Ensure!Owners, Ensure!Referred, Ensure!Candidates, Ensure!Named

----------------------------------------------------------------------------
(* A task moves on.                                                        *)

Alone(r) == \A s \in Runs : ~Idle(s) => s = r

\* Whoever moves on leaves itself with what is right, or ends.
LEMMA MoveKeeps ==
    ASSUME IInv, SeqInv, NEW r \in Runs, NEW u \in RunState, Alone(r), Local(r, u),
           RightSoFar(u) \/ u.step = "done"
    PROVE  SeqInv'
  <1>1. /\ object' = object /\ live' = live
        /\ run' = [run EXCEPT ![r] = u] /\ run \in [Runs -> RunState]
    BY DEF Local, Set, IInv, TypeOK
  <1>2. \A s \in Runs : ~Idle(s)' => s = r
    BY <1>1 DEF Alone, Idle
  <1>3. ASSUME NEW s \in Runs, ~Idle(s)'
        PROVE  RightSoFar(run[s])'
    <2>1. run'[s] = u /\ u.step # "done"
      BY <1>1, <1>2, <1>3 DEF Idle
    <2>2. RightSoFar(u)'
      BY <1>1, <2>1, StoreSame
    <2> QED
      BY <2>1, <2>2
  <1>4. \A i \in DOMAIN object' : Tidy(object'[i])
    BY <1>1 DEF SeqInv
  <1> QED
    BY <1>2, <1>3, <1>4 DEF SeqInv

\* The kind of a task is declared, and what it gives fits the declaration.
LEMMA DeclaredType ==
    ASSUME NEW u \in RunState
    PROVE  /\ u.req \in Request /\ u.req.kind \in Kinds
           /\ Declares(u) \in Declaration
           /\ Len(u.req.refs) = Len(Declares(u).refs)
           /\ Len(u.req.parents) = Len(Declares(u).parents)
           /\ Len(Declares(u).refs) \in Nat /\ Len(Declares(u).parents) \in Nat
           /\ Declares(u).scope # "everywhere" => Len(Declares(u).parents) = 1
  BY SMTT(30), RequestsAssumption, InstanceAssumption DEF RunState, Request, Declaration, Declares

LEMMA FreshRight ==
    ASSUME TypeOK, NEW q \in Requests, NEW n \in Nat
    PROVE  RightSoFar(Fresh(q, n))
  <1> DEFINE u == Fresh(q, n)
  <1>1. /\ u.step = "args" /\ u.goal = "self" /\ u.refs = <<>> /\ u.parents = <<>>
    BY DEF Fresh
  <1>2. u \in RunState
    BY FreshType
  <1> HIDE DEF u
  <1>3. Len(Declares(u).refs) \in Nat
    BY <1>2, DeclaredType
  <1> QED
    BY <1>1, <1>3 DEF RightSoFar, RefsRight, ReadRight, ScopeRight, TargetRight, ParentsRight,
                      LookedUp, u

LEMMA OnwardRight ==
    ASSUME TypeOK, NEW u \in RunState, u.parents = <<>>,
           u.req.omitted \cap Declares(u).required = {},
           Len(u.refs) <= Len(Declares(u).refs),
           \A n \in DOMAIN u.refs :
              Lists(u.refs[n], Ensure!Referred(u.req)[n]) /\ ~Dangling(u.req, n)
    PROVE  RightSoFar(Onward(u))
  <1> DEFINE g == IF Len(u.refs) < Len(Declares(u).refs) THEN "refs"
                  ELSE IF Declares(u).scope = "everywhere" THEN "self"
                  ELSE "scope"
             v == [u EXCEPT !.step = "list", !.ids = <<>>, !.goal = g]
  <1>1. /\ v.step = "list" /\ v.goal = g /\ v.ids = <<>> /\ v.refs = u.refs /\ v.req = u.req
        /\ v.parents = <<>> /\ Onward(u) = v
    BY DEF Onward, RunState
  <1>2. Len(Declares(u).refs) \in Nat /\ Len(u.refs) \in Nat
    BY DeclaredType DEF RunState
  <1>3. /\ g = "refs" <=> Len(u.refs) < Len(Declares(u).refs)
        /\ g = "self" => Declares(u).scope = "everywhere"
        /\ g = "scope" => Declares(u).scope # "everywhere"
        /\ g # "parents"
    OBVIOUS
  <1>4. Declares(v) = Declares(u)
    BY <1>1 DEF Declares
  <1> HIDE DEF v, g
  <1>5. RefsRight(v)
    BY <1>1, <1>2, <1>3, <1>4 DEF RefsRight
  <1>6. ReadRight(v) /\ ScopeRight(v) /\ TargetRight(v) /\ ParentsRight(v)
    BY <1>1, <1>3, <1>4 DEF ReadRight, ScopeRight, Scoped, TargetRight, LookedUp, ParentsRight
  <1> QED
    BY <1>1, <1>4, <1>5, <1>6 DEF RightSoFar

\* What IInv says of a run that looks around.
LEMMA Looking ==
    ASSUME IInv, SeqInv, NEW r \in Runs, ~Idle(r)
    PROVE  /\ run[r] \in RunState /\ RightSoFar(run[r]) /\ LookupInv(run[r]) /\ Alone(r)
           /\ TypeOK /\ live \subseteq Nat \ {0} /\ live \subseteq DOMAIN object
  BY LiveIds DEF IInv, SeqInv, TypeOK, Alone

LEMMA ListRight ==
    ASSUME IInv, SeqInv, NEW r \in Runs, List(r)
    PROVE  LET u == run[r]
               v == [u EXCEPT !.step = "read", !.todo = Listing(u),
                              !.seen = IF u.goal = "self" THEN Listing(u) ELSE @]
           IN  v \in RunState /\ RightSoFar(v)
  <1> DEFINE u == run[r]
             v == [u EXCEPT !.step = "read", !.todo = Listing(u),
                            !.seen = IF u.goal = "self" THEN Listing(u) ELSE @]
  <1>1. u.step = "list"
    BY DEF List
  <1>2. /\ u \in RunState /\ RightSoFar(u) /\ TypeOK /\ live \subseteq DOMAIN object
    BY <1>1, Looking DEF Idle
  <1>3. Listing(u) \subseteq Nat
    BY <1>2, LiveIds DEF Listing
  <1>4. v \in RunState
    BY <1>2, <1>3 DEF RunState
  <1>5. /\ v.step = "read" /\ v.goal = u.goal /\ v.todo = Listing(u) /\ v.ids = u.ids
        /\ v.refs = u.refs /\ v.req = u.req /\ v.parents = u.parents /\ v.scope = u.scope
        /\ v.target = u.target /\ v.copy = u.copy
    BY <1>2 DEF RunState
  <1>6. u.goal = "refs" => SoughtNames(u) # {} \/ Declares(u).mode = "always"
    BY DEF List
  <1> HIDE DEF v
  <1>7. Declares(v) = Declares(u) /\ Listing(v) = Listing(u) /\ SoughtNames(v) = SoughtNames(u)
        /\ Scoped(v) = Scoped(u)
    BY <1>5 DEF Declares, Listing, SoughtKind, SoughtNames, Scoped
  <1>8. RefsRight(v)
    BY <1>1, <1>2, <1>5, <1>7 DEF RightSoFar, RefsRight
  <1>9. ReadRight(v)
    BY <1>1, <1>2, <1>5, <1>6, <1>7 DEF RightSoFar, ReadRight, Lists, Ascending, ElementsOf
  <1>10. ScopeRight(v) /\ TargetRight(v)
    BY <1>1, <1>2, <1>5, <1>7 DEF RightSoFar, ScopeRight, TargetRight, LookedUp, Found
  <1>11. ParentsRight(v)
    BY <1>1, <1>2, <1>5, <1>7
       DEF RightSoFar, ParentsRight, NeedsParents, Clashes, WillChange, Differs, Found
  <1>12. RightSoFar(v)
    BY <1>1, <1>2, <1>5, <1>7, <1>8, <1>9, <1>10, <1>11 DEF RightSoFar
  <1> QED
    BY <1>4, <1>12 DEF v

\* What is passed over is settled.
LEMMA ReadOtherRight ==
    ASSUME IInv, SeqInv, NEW r \in Runs, NEW i \in run[r].todo, ReadOther(r, i)
    PROVE  LET v == [run[r] EXCEPT !.todo = @ \ {i}] IN v \in RunState /\ RightSoFar(v)
  <1> DEFINE u == run[r]
             v == [u EXCEPT !.todo = @ \ {i}]
  <1>1. u.step = "read" /\ Hits(u, i) = {}
    BY DEF ReadOther
  <1>2. u \in RunState /\ RightSoFar(u)
    BY <1>1, Looking DEF Idle
  <1>3. v \in RunState
    BY <1>2 DEF RunState
  <1>5. /\ v.step = u.step /\ v.goal = u.goal /\ v.todo = u.todo \ {i} /\ v.ids = u.ids
        /\ v.refs = u.refs /\ v.req = u.req /\ v.parents = u.parents /\ v.scope = u.scope
        /\ v.target = u.target /\ v.copy = u.copy
    BY <1>2 DEF RunState
  <1> HIDE DEF v
  <1>7. /\ Declares(v) = Declares(u) /\ Listing(v) = Listing(u) /\ SoughtNames(v) = SoughtNames(u)
        /\ Scoped(v) = Scoped(u) /\ \A j : Hits(v, j) = Hits(u, j)
    BY <1>5 DEF Declares, Listing, SoughtKind, SoughtNames, Scoped, Hits
  <1>8. RefsRight(v)
    BY <1>1, <1>2, <1>5, <1>7 DEF RightSoFar, RefsRight
  <1>9. ReadRight(v)
    <2>1. ReadRight(u)
      BY <1>2 DEF RightSoFar
    <2>2. {j \in Listing(v) \ v.todo : Hits(v, j) # {}} = {j \in Listing(u) \ u.todo : Hits(u, j) # {}}
      BY <1>1, <1>5, <1>7
    <2> QED
      BY <1>1, <1>5, <1>7, <2>1, <2>2 DEF ReadRight
  <1>10. ScopeRight(v) /\ TargetRight(v)
    BY <1>1, <1>2, <1>5, <1>7 DEF RightSoFar, ScopeRight, TargetRight, LookedUp, Found
  <1>11. ParentsRight(v)
    BY <1>1, <1>2, <1>5, <1>7
       DEF RightSoFar, ParentsRight, NeedsParents, Clashes, WillChange, Differs, Found
  <1>12. RightSoFar(v)
    BY <1>1, <1>2, <1>5, <1>7, <1>8, <1>9, <1>10, <1>11 DEF RightSoFar
  <1> QED
    BY <1>3, <1>12 DEF v

\* Going through a list in the order of its store keeps the order.
LEMMA AppendKeepsOrder ==
    ASSUME NEW s \in Seq(Nat), NEW i \in Nat, Ascending(s), \A m \in DOMAIN s : s[m] < i
    PROVE  /\ Append(s, i) \in Seq(Nat) /\ Ascending(Append(s, i))
           /\ ElementsOf(Append(s, i)) = ElementsOf(s) \cup {i}
           /\ \A m \in DOMAIN Append(s, i) :
                 Append(s, i)[m] = i \/ (m \in DOMAIN s /\ Append(s, i)[m] = s[m])
  <1> DEFINE t == Append(s, i)
  <1>1. /\ t \in Seq(Nat) /\ Len(t) = Len(s) + 1 /\ DOMAIN t = 1..(Len(s) + 1)
        /\ DOMAIN s = 1..Len(s) /\ Len(s) \in Nat
        /\ \A m \in 1..Len(s) : t[m] = s[m]
        /\ t[Len(s) + 1] = i
    OBVIOUS
  <1> HIDE DEF t
  <1>2. ASSUME NEW m \in DOMAIN t, NEW n \in DOMAIN t, m < n
        PROVE  t[m] < t[n]
    <2>1. m \in 1..Len(s) /\ t[m] = s[m]
      BY <1>1, <1>2
    <2>2. CASE n \in 1..Len(s)
      BY <1>1, <1>2, <2>1, <2>2 DEF Ascending
    <2>3. CASE n = Len(s) + 1
      BY <1>1, <2>1, <2>3
    <2> QED
      BY <1>1, <2>2, <2>3
  <1>3. ElementsOf(t) = ElementsOf(s) \cup {i}
    BY SMTT(30), <1>1 DEF ElementsOf
  <1>4. \A m \in DOMAIN t : t[m] = i \/ (m \in DOMAIN s /\ t[m] = s[m])
    BY <1>1
  <1> QED
    BY <1>1, <1>2, <1>3, <1>4 DEF t, Ascending

LEMMA ListArguments ==
    ASSUME NEW u \in RunState, Len(u.refs) < Len(Declares(u).refs)
    PROVE  Len(u.refs) + 1 \in DOMAIN u.req.refs
  <1>1. u.req.refs \in Seq(SUBSET Address)
    BY DeclaredType DEF Request
  <1>2. u.refs \in Seq(Seq(Nat)) /\ Len(u.req.refs) = Len(Declares(u).refs)
    BY DeclaredType DEF RunState
  <1> QED
    BY <1>1, <1>2

\* An object has one name, so lists of names hold it once.
LEMMA HitOnce ==
    ASSUME ListsByName, TypeOK, NEW u \in RunState, u.goal = "refs",
           Len(u.refs) < Len(Declares(u).refs), NEW i \in Nat, Hits(u, i) # {}
    PROVE  Cardinality(Hits(u, i)) = 1
  <1>1. Len(u.refs) + 1 \in DOMAIN u.req.refs
    BY ListArguments
  <1>2. SoughtNames(u) = u.req.refs[Len(u.refs) + 1]
    BY DEF SoughtNames
  <1>3. \A a, b \in SoughtNames(u) : a \in Nat => a = b
    <2>1. u.req \in Requests
      BY DEF RunState
    <2>2. \A a, b \in u.req.refs[Len(u.refs) + 1] : a \in Nat => b = a
      BY <1>1, <2>1, Zenon DEF ListsByName
    <2> QED
      BY <1>2, <2>2
  <1>4. PICK a \in Hits(u, i) : TRUE
    OBVIOUS
  <1>5. Hits(u, i) = {a}
    <2>1. CASE i \in SoughtNames(u)
      BY <1>3, <1>4, <2>1 DEF Hits
    <2>2. CASE i \notin SoughtNames(u)
      BY <1>4, <2>2 DEF Hits, Matches
    <2> QED
      BY <2>1, <2>2
  <1> QED
    BY <1>5, FS_Singleton

LEMMA ReadRefRight ==
    ASSUME OneAfterAnother, ListsByName, IInv, SeqInv, NEW r \in Runs, NEW i \in run[r].todo, ReadRef(r, i)
    PROVE  LET v == [run[r] EXCEPT !.todo = @ \ {i}, !.ids = Append(@, i)]
           IN  v \in RunState /\ RightSoFar(v) /\ Local(r, v)
  <1> DEFINE u == run[r]
             v == [u EXCEPT !.todo = @ \ {i}, !.ids = Append(@, i)]
  <1>1. u.step = "read" /\ u.goal = "refs" /\ Hits(u, i) # {} /\ IsNext(u, i)
    BY DEF ReadRef
  <1>2. u \in RunState /\ RightSoFar(u) /\ TypeOK
    BY <1>1, Looking DEF Idle
  <1>3. i \in Nat /\ u.ids \in Seq(Nat)
    BY <1>2 DEF RunState
  <1>4. v \in RunState
    <2>1. Append(u.ids, i) \in Seq(Nat)
      BY <1>3
    <2> QED
      BY <1>2, <2>1 DEF RunState
  <1>5. /\ v.step = u.step /\ v.goal = u.goal /\ v.todo = u.todo \ {i} /\ v.ids = Append(u.ids, i)
        /\ v.refs = u.refs /\ v.req = u.req /\ v.parents = u.parents /\ v.scope = u.scope
        /\ v.target = u.target /\ v.copy = u.copy
    BY <1>2 DEF RunState
  <1>6. Local(r, v)
    <2> DEFINE once == [n \in 1..Cardinality(Hits(u, i)) |-> i]
    <2>1. Len(u.refs) < Len(Declares(u).refs)
      BY <1>1, <1>2 DEF RightSoFar, RefsRight
    <2>2. once = <<i>>
      <3>1. Cardinality(Hits(u, i)) = 1
        <4>1. u \in RunState /\ TypeOK /\ i \in Nat /\ Hits(u, i) # {} /\ u.goal = "refs"
          BY <1>1, <1>2, <1>3
        <4> HIDE DEF u
        <4> QED
          BY <2>1, <4>1, HitOnce
      <3> QED
        BY <3>1
    <2>3. u.ids \o <<i>> = Append(u.ids, i)
      BY <1>3
    <2>4. Local(r, [u EXCEPT !.todo = @ \ {i}, !.ids = @ \o once])
      BY DEF ReadRef
    <2> HIDE DEF once
    <2> QED
      BY <1>2, <2>2, <2>3, <2>4 DEF RunState
  <1> HIDE DEF v
  <1>7. /\ Declares(v) = Declares(u) /\ Listing(v) = Listing(u) /\ SoughtNames(v) = SoughtNames(u)
        /\ Scoped(v) = Scoped(u) /\ \A j : Hits(v, j) = Hits(u, j)
    BY <1>5 DEF Declares, Listing, SoughtKind, SoughtNames, Scoped, Hits
  <1>8. RefsRight(v)
    BY <1>1, <1>2, <1>5, <1>7 DEF RightSoFar, RefsRight
  <1>9. ReadRight(v)
    <2> DEFINE S == {j \in Listing(u) \ u.todo : Hits(u, j) # {}}
    <2>1. /\ u.todo \subseteq Listing(u) /\ Lists(u.ids, S)
          /\ \A m \in DOMAIN u.ids : \A j \in u.todo : u.ids[m] < j
          /\ SoughtNames(u) # {} \/ Declares(u).mode = "always"
      BY <1>1, <1>2 DEF RightSoFar, ReadRight
    <2>2. {j \in Listing(v) \ v.todo : Hits(v, j) # {}} = S \cup {i}
      BY <1>1, <1>5, <1>7, <2>1
    <2>3. \A j \in u.todo \ {i} : i < j
      BY <1>1, <1>2, <1>3 DEF IsNext, OneAfterAnother, RunState
    <2> HIDE DEF S
    <2>4. \A m \in DOMAIN u.ids : u.ids[m] < i
      BY <2>1
    <2>5. /\ Ascending(v.ids) /\ ElementsOf(v.ids) = S \cup {i}
          /\ \A m \in DOMAIN v.ids : v.ids[m] = i \/ (m \in DOMAIN u.ids /\ v.ids[m] = u.ids[m])
      BY <1>3, <1>5, <2>1, <2>4, AppendKeepsOrder DEF Lists
    <2>6. \A m \in DOMAIN v.ids : \A j \in v.todo : v.ids[m] < j
      BY <1>5, <2>1, <2>3, <2>5
    <2> QED
      BY <1>1, <1>5, <1>7, <2>1, <2>2, <2>5, <2>6 DEF ReadRight, Lists
  <1>10. ScopeRight(v) /\ TargetRight(v)
    BY <1>1, <1>2, <1>5, <1>7 DEF RightSoFar, ScopeRight, TargetRight, LookedUp, Found, Scoped
  <1>11. ParentsRight(v)
    BY <1>1, <1>2, <1>5, <1>7 DEF RightSoFar, ParentsRight
  <1>12. RightSoFar(v)
    BY <1>1, <1>2, <1>5, <1>7, <1>8, <1>9, <1>10, <1>11 DEF RightSoFar
  <1> QED
    BY <1>4, <1>6, <1>12 DEF v

\* A list argument whose loop is over is resolved.
LEMMA ReferredFound ==
    ASSUME TypeOK, NEW u \in RunState, RightSoFar(u), u.goal = "refs", u.step \in {"list", "read"}
    PROVE  /\ Len(u.refs) + 1 \in DOMAIN u.req.refs
           /\ SoughtNames(u) = u.req.refs[Len(u.refs) + 1]
           /\ Ensure!Referred(u.req)[Len(u.refs) + 1] = {i \in Listing(u) : Hits(u, i) # {}}
  <1>1. Len(u.refs) < Len(Declares(u).refs)
    BY DEF RightSoFar, RefsRight
  <1>2. Len(u.refs) + 1 \in DOMAIN u.req.refs
    BY <1>1, ListArguments
  <1>3. SoughtNames(u) = u.req.refs[Len(u.refs) + 1]
    BY DEF SoughtNames
  <1>4. Listing(u) = {i \in live : object[i].kind = Declared[u.req.kind].refs[Len(u.refs) + 1]}
    BY DEF Listing, SoughtKind, Declares, Scoped
  <1>5. \A i : Hits(u, i) # {} <=> \E a \in SoughtNames(u) : Matches(i, object[i], a)
    BY DEF Hits
  <1>6. u.req \in Requests
    BY DEF RunState
  <1>7. Ensure!Referred(u.req)[Len(u.refs) + 1] = {i \in live :
                    /\ object[i].kind = Declared[u.req.kind].refs[Len(u.refs) + 1]
                    /\ \E a \in u.req.refs[Len(u.refs) + 1] : Matches(i, object[i], a)}
    BY <1>2, <1>6, ReferredIs
  <1> QED
    BY <1>2, <1>3, <1>4, <1>5, <1>7

\* One more list argument is resolved.
LEMMA ResolvedRight ==
    ASSUME TypeOK, NEW u \in RunState, RightSoFar(u), u.goal = "refs", u.step \in {"list", "read"},
           NEW ids \in Seq(Nat), Lists(ids, Ensure!Referred(u.req)[Len(u.refs) + 1]),
           ~Dangling(u.req, Len(u.refs) + 1)
    PROVE  LET v == [u EXCEPT !.refs = Append(@, ids)]
           IN  Onward(v) \in RunState /\ RightSoFar(Onward(v))
  <1> DEFINE v == [u EXCEPT !.refs = Append(@, ids)]
  <1>1. Append(u.refs, ids) \in Seq(Seq(Nat))
    BY DEF RunState
  <1>2. v \in RunState
    BY <1>1 DEF RunState
  <1>3. /\ v.refs = Append(u.refs, ids) /\ v.req = u.req /\ v.parents = u.parents
    BY DEF RunState
  <1> HIDE DEF v
  <1>4. u.parents = <<>>
    BY DEF RightSoFar, ParentsRight
  <1>5. u.req.omitted \cap Declares(u).required = {}
    BY DEF RightSoFar
  <1>6. /\ u.refs \in Seq(Seq(Nat)) /\ Len(u.refs) < Len(Declares(u).refs)
        /\ \A n \in DOMAIN u.refs :
              Lists(u.refs[n], Ensure!Referred(u.req)[n]) /\ ~Dangling(u.req, n)
    BY DEF RightSoFar, RefsRight, RunState
  <1>7. Len(v.refs) = Len(u.refs) + 1 /\ Len(u.refs) \in Nat /\ Len(Declares(u).refs) \in Nat
    BY <1>3, <1>6, DeclaredType
  <1>8. \A n \in DOMAIN v.refs : \/ n \in DOMAIN u.refs /\ v.refs[n] = u.refs[n]
                                 \/ n = Len(u.refs) + 1 /\ v.refs[n] = ids
    BY <1>3, <1>6
  <1>9. Declares(v) = Declares(u)
    BY <1>3 DEF Declares
  <1>10. \A n \in DOMAIN v.refs :
              Lists(v.refs[n], Ensure!Referred(u.req)[n]) /\ ~Dangling(u.req, n)
    BY <1>6, <1>8
  <1>11. Len(v.refs) <= Len(Declares(v).refs)
    BY <1>6, <1>7, <1>9
  <1>12. v.parents = <<>> /\ v.req.omitted \cap Declares(v).required = {}
    BY <1>3, <1>4, <1>5, <1>9
  <1>13. RightSoFar(Onward(v))
    BY <1>2, <1>3, <1>10, <1>11, <1>12, OnwardRight
  <1> QED
    BY <1>2, <1>13, OnwardType DEF v

LEMMA SkipRefsRight ==
    ASSUME IInv, SeqInv, NEW r \in Runs, SkipRefs(r)
    PROVE  LET v == Onward([run[r] EXCEPT !.refs = Append(@, <<>>)])
           IN  v \in RunState /\ RightSoFar(v)
  <1> DEFINE u == run[r]
             n == Len(u.refs) + 1
  <1>1. u.step = "list" /\ u.goal = "refs" /\ SoughtNames(u) = {} /\ Declares(u).mode # "always"
    BY DEF SkipRefs
  <1>2. u \in RunState /\ RightSoFar(u) /\ TypeOK
    BY <1>1, Looking DEF Idle
  <1>3. /\ n \in DOMAIN u.req.refs /\ u.req.refs[n] = {}
        /\ Ensure!Referred(u.req)[n] = {}
    BY <1>1, <1>2, ReferredFound DEF Hits
  <1>4. Lists(<<>>, Ensure!Referred(u.req)[n])
    BY <1>3 DEF Lists, Ascending, ElementsOf
  <1>5. ~Dangling(u.req, n)
    BY <1>1, <1>3 DEF Dangling, Declares
  <1> QED
    BY <1>1, <1>2, <1>4, <1>5, EmptySeqs, ResolvedRight

\* What is found in the whole of a listing, and what is not dangling then.
LEMMA LoopOver ==
    ASSUME TypeOK, NEW u \in RunState, RightSoFar(u), u.goal = "refs", u.step = "read", u.todo = {}
    PROVE  /\ Lists(u.ids, Ensure!Referred(u.req)[Len(u.refs) + 1])
           /\ Dangling(u.req, Len(u.refs) + 1) <=> u.ids = <<>> /\ Declares(u).mode # "never"
  <1> DEFINE n == Len(u.refs) + 1
  <1>1. Ensure!Referred(u.req)[n] = {i \in Listing(u) : Hits(u, i) # {}}
    BY ReferredFound
  <1>2. /\ Lists(u.ids, {j \in Listing(u) \ u.todo : Hits(u, j) # {}})
        /\ SoughtNames(u) # {} \/ Declares(u).mode = "always"
    BY DEF RightSoFar, ReadRight
  <1>3. Lists(u.ids, Ensure!Referred(u.req)[n])
    BY <1>1, <1>2
  <1>4. u.ids \in Seq(Nat)
    BY DEF RunState
  <1>5. Ensure!Referred(u.req)[n] = {} <=> u.ids = <<>>
    <2>1. ElementsOf(u.ids) = {} <=> u.ids = <<>>
      <3>1. u.ids # <<>> => 1 \in DOMAIN u.ids
        BY <1>4
      <3>2. u.ids = <<>> => DOMAIN u.ids = {}
        OBVIOUS
      <3> QED
        BY <3>1, <3>2 DEF ElementsOf
    <2> QED
      BY <1>3, <2>1 DEF Lists
  <1>6. SoughtNames(u) = u.req.refs[n]
    BY ReferredFound
  <1>7. Declares(u).mode \in {"always", "given", "never"}
    BY DeclaredType DEF Declaration
  <1> QED
    BY <1>2, <1>3, <1>5, <1>6, <1>7 DEF Dangling, Declares

LEMMA RefsEndRight ==
    ASSUME IInv, SeqInv, NEW r \in Runs, RefsEnd(r),
           ~(run[r].ids = <<>> /\ Declares(run[r]).mode # "never")
    PROVE  LET v == Onward([run[r] EXCEPT !.refs = Append(@, run[r].ids)])
           IN  v \in RunState /\ RightSoFar(v)
  <1> DEFINE u == run[r]
  <1>1. u.step = "read" /\ u.goal = "refs" /\ u.todo = {}
    BY DEF RefsEnd
  <1>2. u \in RunState /\ RightSoFar(u) /\ TypeOK
    BY <1>1, Looking DEF Idle
  <1>3. u.ids \in Seq(Nat)
    BY <1>2 DEF RunState
  <1>4. /\ Lists(u.ids, Ensure!Referred(u.req)[Len(u.refs) + 1])
        /\ ~Dangling(u.req, Len(u.refs) + 1)
    BY <1>1, <1>2, LoopOver
  <1> QED
    BY <1>1, <1>2, <1>3, <1>4, ResolvedRight

\* What a search is for, as EnsureResource states it.
Sought(u) == CASE u.goal = "scope"   -> Ensure!Owners(u.req)[1]
               [] u.goal = "self"    -> Ensure!Target(u.req)
               [] u.goal = "parents" -> Ensure!Owners(u.req)[Len(u.parents) + 1]

LEMMA ScopeIsOwners ==
    ASSUME TypeOK, NEW u \in RunState, Declares(u).scope # "everywhere"
    PROVE  /\ DOMAIN Ensure!Owners(u.req) = {1} /\ DOMAIN u.req.parents = {1}
           /\ \A p \in Seq(Nat) : p = Ensure!Owners(u.req) <=> p = <<Ensure!Owners(u.req)[1]>>
  <1>1. u.req \in Requests /\ u.req.parents \in Seq(Address) /\ Len(u.req.parents) = 1
    BY DeclaredType DEF RunState, Request
  <1>2. DOMAIN u.req.parents = {1}
    BY <1>1
  <1>3. DOMAIN Ensure!Owners(u.req) = {1}
    BY <1>1, <1>2, OwnersAre
  <1>4. Ensure!Owners(u.req) = [n \in {1} |-> Ensure!Owners(u.req)[n]]
    BY <1>2 DEF Ensure!Owners
  <1>5. Ensure!Owners(u.req) = <<Ensure!Owners(u.req)[1]>>
    BY <1>4
  <1> QED
    BY <1>2, <1>3, <1>5

LEMMA SoughtIs ==
    ASSUME TypeOK, NEW u \in RunState, RightSoFar(u), u.goal # "refs", u.step \in {"list", "read"}
    PROVE  Sought(u) = Ensure!First({i \in Listing(u) : Hits(u, i) # {}})
  <1>1. u.req \in Requests /\ u.goal \in Goals /\ u.parents \in Seq(Nat)
    BY DEF RunState
  <1>2. CASE u.goal = "scope"
    <2>1. 1 \in DOMAIN u.req.parents
      BY <1>2, ScopeIsOwners DEF RightSoFar, ScopeRight
    <2>2. {i \in Listing(u) : Hits(u, i) # {}} =
          {i \in live : /\ object[i].kind = Declared[u.req.kind].parents[1]
                        /\ Matches(i, object[i], u.req.parents[1])}
      BY <1>2 DEF Listing, SoughtKind, SoughtNames, Hits, Declares, Scoped
    <2> QED
      BY <1>1, <1>2, <2>1, <2>2, OwnersAre DEF Sought
  <1>3. CASE u.goal = "self"
    <2> DEFINE S == {i \in live :
               /\ object[i].kind = u.req.kind /\ Matches(i, object[i], u.req.name)
               /\ Declared[u.req.kind].scope # "everywhere" =>
                     object[i].parents = Ensure!Owners(u.req)}
    <2>1. Scoped(u) => u.scope = Ensure!Owners(u.req)[1]
      BY <1>3 DEF RightSoFar, ScopeRight
    <2>2. \A i \in live : object[i].parents \in Seq(Nat)
      <3>1. \A i \in live : object[i] \in Object
        BY DEF TypeOK
      <3> QED
        BY <3>1 DEF Object
    <2>3. Scoped(u) => \A i \in live : object[i].parents = <<u.scope>>
                                       <=> object[i].parents = Ensure!Owners(u.req)
      BY <2>1, <2>2, ScopeIsOwners DEF Scoped
    <2>4. \A i : Hits(u, i) # {} <=> Matches(i, object[i], u.req.name)
      BY <1>3 DEF Hits, SoughtNames
    <2>5. Scoped(u) <=> Declared[u.req.kind].scope # "everywhere"
      BY <1>3 DEF Scoped, Declares
    <2>6. Listing(u) = {i \in live : object[i].kind = u.req.kind /\ (Scoped(u) => object[i].parents = <<u.scope>>)}
      BY <1>3 DEF Listing, SoughtKind
    <2>7. {i \in Listing(u) : Hits(u, i) # {}} = S
      BY <2>3, <2>4, <2>5, <2>6
    <2>8. Sought(u) = Ensure!Target(u.req)
      BY <1>3 DEF Sought
    <2> QED
      BY <1>1, <2>7, <2>8, TargetIs
  <1>4. CASE u.goal = "parents"
    <2> DEFINE n == Len(u.parents) + 1
    <2>1. n \in DOMAIN u.req.parents
      <3>1. Len(u.parents) < Len(u.req.parents)
        BY <1>4, DeclaredType DEF RightSoFar, ParentsRight
      <3>2. u.req.parents \in Seq(Address)
        BY DeclaredType DEF Request
      <3> QED
        BY <1>1, <3>1, <3>2
    <2>2. {i \in Listing(u) : Hits(u, i) # {}} =
          {i \in live : /\ object[i].kind = Declared[u.req.kind].parents[n]
                        /\ Matches(i, object[i], u.req.parents[n])}
      BY <1>4 DEF Listing, SoughtKind, SoughtNames, Hits, Declares, Scoped
    <2>3. Sought(u) = Ensure!Owners(u.req)[n]
      BY <1>4 DEF Sought
    <2> QED
      BY <1>1, <2>1, <2>2, <2>3, OwnersAre
  <1> QED
    BY <1>1, <1>2, <1>3, <1>4 DEF Goals

\* The first hit in the order of the store is what is sought, and no hit is none.
LEMMA HitIsSought ==
    ASSUME OneAfterAnother, TypeOK, NEW u \in RunState, RightSoFar(u), u.goal # "refs",
           u.step = "read"
    PROVE  /\ \A i \in u.todo : IsNext(u, i) /\ Hits(u, i) # {} => Sought(u) = i
           /\ u.todo = {} => Sought(u) = NoId
  <1> DEFINE S == {j \in Listing(u) : Hits(u, j) # {}}
  <1>1. Sought(u) = Ensure!First(S)
    BY SoughtIs
  <1>2. S \subseteq Nat
    BY LiveIds DEF Listing
  <1>3. /\ u.todo \subseteq Listing(u)
        /\ \A j \in Listing(u) \ u.todo : Hits(u, j) = {}
    BY DEF RightSoFar, ReadRight
  <1>4. S \subseteq u.todo
    BY <1>3
  <1>5. ASSUME NEW i \in u.todo, IsNext(u, i), Hits(u, i) # {}
        PROVE  Sought(u) = i
    <2>1. i \in S /\ \A j \in S : i <= j
      BY <1>3, <1>4, <1>5 DEF IsNext, OneAfterAnother
    <2> HIDE DEF S
    <2> QED
      BY <1>1, <1>2, <2>1, FirstIs
  <1>6. u.todo = {} => Sought(u) = NoId
    <2>1. u.todo = {} => S = {}
      BY <1>4
    <2> HIDE DEF S
    <2> QED
      BY <1>1, <1>2, <2>1, FirstIs DEF NoId
  <1> QED
    BY <1>5, <1>6

LEMMA HitScopeRight ==
    ASSUME OneAfterAnother, IInv, SeqInv, NEW r \in Runs, NEW i \in run[r].todo, ReadHit(r, i),
           run[r].goal = "scope"
    PROVE  LET v == [run[r] EXCEPT !.step = "list", !.goal = "self", !.todo = {}, !.scope = i]
           IN  v \in RunState /\ RightSoFar(v)
  <1> DEFINE u == run[r]
             v == [u EXCEPT !.step = "list", !.goal = "self", !.todo = {}, !.scope = i]
  <1>1. u.step = "read" /\ u.goal = "scope" /\ Hits(u, i) # {} /\ IsNext(u, i)
    BY DEF ReadHit
  <1>2. u \in RunState /\ RightSoFar(u) /\ TypeOK
    BY <1>1, Looking DEF Idle
  <1>3. i \in Nat /\ i # NoId
    BY <1>1, <1>2, LiveIds DEF ReadHit, NoId
  <1>4. v \in RunState
    BY <1>2, <1>3 DEF RunState, Goals
  <1>5. /\ v.step = "list" /\ v.goal = "self" /\ v.scope = i
        /\ v.refs = u.refs /\ v.req = u.req /\ v.parents = u.parents
    BY <1>2 DEF RunState
  <1> HIDE DEF v
  <1>6. Ensure!Owners(u.req)[1] = i
    BY <1>1, <1>2, HitIsSought DEF Sought
  <1>7. Declares(v) = Declares(u)
    BY <1>5 DEF Declares
  <1>8. RefsRight(v)
    BY <1>1, <1>2, <1>5, <1>7 DEF RightSoFar, RefsRight
  <1>9. ReadRight(v) /\ ScopeRight(v) /\ TargetRight(v)
    BY <1>3, <1>5, <1>6, <1>7 DEF ReadRight, ScopeRight, TargetRight, LookedUp
  <1>10. ParentsRight(v)
    BY <1>1, <1>2, <1>5 DEF RightSoFar, ParentsRight
  <1>11. RightSoFar(v)
    BY <1>1, <1>2, <1>5, <1>7, <1>8, <1>9, <1>10 DEF RightSoFar
  <1> QED
    BY <1>4, <1>11 DEF v

LEMMA HitSelfRight ==
    ASSUME OneAfterAnother, IInv, SeqInv, NEW r \in Runs, NEW i \in run[r].todo, ReadHit(r, i),
           run[r].goal = "self"
    PROVE  LET v == [run[r] EXCEPT !.step = "decide", !.todo = {}, !.target = i,
                                   !.copy = object[i]]
           IN  v \in RunState /\ RightSoFar(v)
  <1> DEFINE u == run[r]
             v == [u EXCEPT !.step = "decide", !.todo = {}, !.target = i, !.copy = object[i]]
  <1>1. u.step = "read" /\ u.goal = "self" /\ Hits(u, i) # {} /\ IsNext(u, i) /\ i \in live
    BY DEF ReadHit
  <1>2. u \in RunState /\ RightSoFar(u) /\ TypeOK
    BY <1>1, Looking DEF Idle
  <1>3. i \in Nat /\ object[i] \in Object
    BY <1>1, <1>2 DEF TypeOK
  <1>4. v \in RunState
    BY <1>2, <1>3 DEF RunState
  <1>5. /\ v.step = "decide" /\ v.goal = "self" /\ v.target = i /\ v.copy = object[i]
        /\ v.refs = u.refs /\ v.req = u.req /\ v.parents = u.parents
    BY <1>1, <1>2 DEF RunState
  <1> HIDE DEF v
  <1>6. Ensure!Target(u.req) = i
    BY <1>1, <1>2, HitIsSought DEF Sought
  <1>7. Declares(v) = Declares(u)
    BY <1>5 DEF Declares
  <1>8. RefsRight(v)
    BY <1>1, <1>2, <1>5, <1>7 DEF RightSoFar, RefsRight
  <1>9. ReadRight(v) /\ ScopeRight(v)
    BY <1>5 DEF ReadRight, ScopeRight
  <1>10. TargetRight(v)
    <2>1. Declares(u).scope = "parentOrFail" => Ensure!Owners(u.req)[1] # NoId
      BY <1>1, <1>2 DEF RightSoFar, ScopeRight, Scoped
    <2> QED
      BY <1>5, <1>6, <1>7, <2>1 DEF TargetRight
  <1>11. ParentsRight(v)
    BY <1>1, <1>2, <1>5 DEF RightSoFar, ParentsRight
  <1>12. RightSoFar(v)
    BY <1>1, <1>2, <1>5, <1>7, <1>8, <1>9, <1>10, <1>11 DEF RightSoFar
  <1> QED
    BY <1>4, <1>12 DEF v

LEMMA HitParentsRight ==
    ASSUME OneAfterAnother, IInv, SeqInv, NEW r \in Runs, NEW i \in run[r].todo, ReadHit(r, i),
           run[r].goal = "parents"
    PROVE  LET v == [run[r] EXCEPT !.parents = Append(@, i), !.todo = {},
                       !.step = IF Len(run[r].parents) + 1 < Len(Declares(run[r]).parents)
                                THEN "list" ELSE "apply"]
           IN  v \in RunState /\ RightSoFar(v)
  <1> DEFINE u == run[r]
             st == IF Len(u.parents) + 1 < Len(Declares(u).parents) THEN "list" ELSE "apply"
             v == [u EXCEPT !.parents = Append(@, i), !.todo = {}, !.step = st]
  <1>1. u.step = "read" /\ u.goal = "parents" /\ Hits(u, i) # {} /\ IsNext(u, i) /\ i \in live
    BY DEF ReadHit
  <1>2. u \in RunState /\ RightSoFar(u) /\ TypeOK
    BY <1>1, Looking DEF Idle
  <1>3. i \in Nat /\ i # NoId /\ u.parents \in Seq(Nat)
    BY <1>1, <1>2, LiveIds DEF NoId, RunState
  <1>4. Append(u.parents, i) \in Seq(Nat) /\ st \in {"list", "apply"}
    BY <1>3
  <1>5. v \in RunState
    BY <1>2, <1>4 DEF RunState
  <1>6. /\ v.step = st /\ v.goal = "parents" /\ v.parents = Append(u.parents, i)
        /\ v.refs = u.refs /\ v.req = u.req /\ v.target = u.target /\ v.copy = u.copy
    BY <1>1, <1>2 DEF RunState
  <1>7. /\ Len(u.parents) < Len(Declares(u).parents)
        /\ Len(Declares(u).parents) \in Nat /\ Len(u.parents) \in Nat
    BY <1>1, <1>2, <1>3, DeclaredType DEF RightSoFar, ParentsRight
  <1>8. /\ st = "list" => Len(u.parents) + 1 < Len(Declares(u).parents)
        /\ st = "apply" => Len(u.parents) + 1 = Len(Declares(u).parents)
    BY <1>7
  <1> HIDE DEF v, st
  <1>9. Ensure!Owners(u.req)[Len(u.parents) + 1] = i
    BY <1>1, <1>2, HitIsSought DEF Sought
  <1>10. Declares(v) = Declares(u)
    BY <1>6 DEF Declares
  <1>11. RefsRight(v)
    BY <1>1, <1>2, <1>4, <1>6, <1>10 DEF RightSoFar, RefsRight
  <1>12. ReadRight(v) /\ ScopeRight(v)
    BY <1>4, <1>6 DEF ReadRight, ScopeRight, Scoped
  <1>13. TargetRight(v)
    BY <1>1, <1>2, <1>6, <1>10 DEF RightSoFar, TargetRight, LookedUp, Found
  <1>14. ParentsRight(v)
    <2>1. Len(v.parents) = Len(u.parents) + 1
      BY <1>3, <1>6
    <2>2. \A n \in DOMAIN v.parents : \/ n \in DOMAIN u.parents /\ v.parents[n] = u.parents[n]
                                      \/ n = Len(u.parents) + 1 /\ v.parents[n] = i
      BY <1>3, <1>6
    <2>3. \A n \in DOMAIN v.parents : v.parents[n] = Ensure!Owners(u.req)[n] /\ v.parents[n] # NoId
      BY <1>2, <1>3, <1>9, <2>2 DEF RightSoFar, ParentsRight
    <2>4. ~u.req.check /\ ~Clashes(u) /\ WillChange(u)
      BY <1>1, <1>2 DEF RightSoFar, ParentsRight
    <2>5. ~u.req.check /\ ~Clashes(v) /\ WillChange(v)
      BY <1>6, <2>4 DEF Clashes, WillChange, Differs, Found
    <2>6. NeedsParents(v)
      BY <1>1, <1>2, <1>6, <1>10 DEF RightSoFar, ParentsRight, NeedsParents, Found
    <2> QED
      BY <1>4, <1>6, <1>8, <1>10, <2>1, <2>3, <2>5, <2>6 DEF ParentsRight
  <1>15. RightSoFar(v)
    BY <1>1, <1>2, <1>4, <1>6, <1>10, <1>11, <1>12, <1>13, <1>14 DEF RightSoFar
  <1> QED
    BY <1>5, <1>15 DEF v, st

\* A search that is over without a hit: there is nothing to be found.
LEMMA NotFoundRight ==
    ASSUME OneAfterAnother, IInv, SeqInv, NEW r \in Runs, NotFound(r),
           \/ run[r].goal = "self"
           \/ run[r].goal = "scope" /\ Declares(run[r]).scope = "parent"
    PROVE  LET v == [run[r] EXCEPT !.step = "decide"] IN v \in RunState /\ RightSoFar(v)
  <1> DEFINE u == run[r]
             v == [u EXCEPT !.step = "decide"]
  <1>1. u.step = "read" /\ u.goal \in {"self", "scope"} /\ u.todo = {}
    BY DEF NotFound
  <1>2. u \in RunState /\ RightSoFar(u) /\ LookupInv(u) /\ TypeOK
    BY <1>1, Looking DEF Idle
  <1>3. v \in RunState
    BY <1>2 DEF RunState
  <1>4. /\ v.step = "decide" /\ v.goal = u.goal /\ v.target = u.target
        /\ v.refs = u.refs /\ v.req = u.req /\ v.parents = u.parents
    BY <1>1, <1>2 DEF RunState
  <1>5. u.target = NoId
    BY <1>1, <1>2 DEF LookupInv, LookedUp
  <1> HIDE DEF v
  <1>6. Declares(v) = Declares(u)
    BY <1>4 DEF Declares
  <1>7. Sought(u) = NoId
    BY <1>1, <1>2, HitIsSought
  <1>8. Ensure!Target(u.req) = NoId
    <2>1. CASE u.goal = "self"
      BY <1>7, <2>1 DEF Sought
    <2>2. CASE u.goal = "scope"
      <3>1. Ensure!Owners(u.req)[1] = NoId
        BY <1>7, <2>2 DEF Sought
      <3>2. DOMAIN Ensure!Owners(u.req) = {1}
        BY <1>2, <2>2, ScopeIsOwners DEF RightSoFar, ScopeRight
      <3>3. \A i \in live : object[i].parents # Ensure!Owners(u.req)
        <4>1. \A i \in live : \A n \in DOMAIN object[i].parents : object[i].parents[n] # NoId
          BY <1>2 DEF TypeOK, SeqInv, Tidy
        <4> QED
          BY <3>1, <3>2, <4>1
      <3>4. Declared[u.req.kind].scope # "everywhere"
        BY <2>2 DEF Declares
      <3> DEFINE S == {i \in live :
               /\ object[i].kind = u.req.kind /\ Matches(i, object[i], u.req.name)
               /\ Declared[u.req.kind].scope # "everywhere" =>
                     object[i].parents = Ensure!Owners(u.req)}
      <3>5. S = {}
        BY <3>3, <3>4
      <3>6. Ensure!Target(u.req) = Ensure!First(S)
        BY <1>2, TargetIs DEF RunState
      <3> HIDE DEF S
      <3> QED
        BY <3>5, <3>6, FirstIs DEF NoId
    <2> QED
      BY <1>1, <2>1, <2>2
  <1>9. RefsRight(v)
    BY <1>1, <1>2, <1>4, <1>6 DEF RightSoFar, RefsRight
  <1>10. ReadRight(v) /\ ScopeRight(v)
    BY <1>2, <1>4, <1>6 DEF ReadRight, RightSoFar, ScopeRight
  <1>11. TargetRight(v)
    <2>1. Declares(u).scope = "parentOrFail" => Ensure!Owners(u.req)[1] # NoId
      BY <1>1, <1>2 DEF RightSoFar, ScopeRight, Scoped
    <2> QED
      BY <1>4, <1>5, <1>6, <1>8, <2>1 DEF TargetRight, Found
  <1>12. ParentsRight(v)
    BY <1>1, <1>2, <1>4 DEF RightSoFar, ParentsRight
  <1>13. RightSoFar(v)
    BY <1>1, <1>2, <1>4, <1>6, <1>9, <1>10, <1>11, <1>12 DEF RightSoFar
  <1> QED
    BY <1>3, <1>13 DEF v

LEMMA PrepareRight ==
    ASSUME IInv, SeqInv, NEW r \in Runs, Prepare(r)
    PROVE  LET u == run[r]
               v == IF NeedsParents(u) THEN [u EXCEPT !.step = "list", !.goal = "parents"]
                    ELSE [u EXCEPT !.step = "apply"]
           IN  v \in RunState /\ RightSoFar(v)
  <1> DEFINE u == run[r]
             v == IF NeedsParents(u) THEN [u EXCEPT !.step = "list", !.goal = "parents"]
                  ELSE [u EXCEPT !.step = "apply"]
  <1>1. u.step = "decide" /\ ~u.req.check /\ ~Clashes(u) /\ WillChange(u)
    BY DEF Prepare
  <1>2. u \in RunState /\ RightSoFar(u)
    BY <1>1, Looking DEF Idle
  <1>3. v \in RunState
    BY <1>2 DEF RunState, Goals
  <1>4. /\ v.refs = u.refs /\ v.req = u.req /\ v.parents = u.parents
        /\ v.target = u.target /\ v.copy = u.copy
        /\ NeedsParents(u) => v.step = "list" /\ v.goal = "parents"
        /\ ~NeedsParents(u) => v.step = "apply" /\ v.goal = u.goal
    BY <1>2 DEF RunState
  <1> HIDE DEF v
  <1>5. Declares(v) = Declares(u) /\ Found(v) = Found(u) /\ NeedsParents(v) = NeedsParents(u)
        /\ Clashes(v) = Clashes(u) /\ WillChange(v) = WillChange(u)
    BY <1>4 DEF Declares, Found, NeedsParents, Clashes, WillChange, Differs
  <1>6. u.goal \in {"self", "scope"} /\ u.parents = <<>>
    <2>1. u.goal # "parents" /\ (u.goal # "parents" => u.parents = <<>>)
      BY <1>1, <1>2 DEF RightSoFar, ParentsRight
    <2>2. u.goal # "refs"
      BY <1>1, <1>2 DEF RightSoFar, RefsRight
    <2> QED
      BY <1>2, <2>1, <2>2 DEF RunState, Goals
  <1>7. RefsRight(v)
    BY <1>1, <1>2, <1>4, <1>5, <1>6 DEF RightSoFar, RefsRight
  <1>8. ReadRight(v) /\ ScopeRight(v)
    BY <1>2, <1>4, <1>5, <1>6 DEF ReadRight, RightSoFar, ScopeRight, Scoped
  <1>9. TargetRight(v)
    BY <1>1, <1>2, <1>4, <1>5 DEF RightSoFar, TargetRight, LookedUp, Found
  <1>10. ParentsRight(v)
    <2>1. NeedsParents(u) => 0 < Len(Declares(u).parents)
      <3>1. Declares(u).parents \in Seq(Kinds)
        BY <1>2, DeclaredType DEF Declaration
      <3> QED
        BY <3>1 DEF NeedsParents
    <2> QED
      BY <1>1, <1>4, <1>5, <1>6, <2>1 DEF ParentsRight
  <1>11. RightSoFar(v)
    BY <1>1, <1>2, <1>4, <1>5, <1>7, <1>8, <1>9, <1>10 DEF RightSoFar
  <1> QED
    BY <1>3, <1>11 DEF v

----------------------------------------------------------------------------
(* What EnsureResource makes of a request, at the end of its task.         *)

\* A member that comes below the place k in s comes below it in t, and is the same.
LEMMA SameSoFar ==
    ASSUME NEW m \in Nat, NEW n \in Nat, NEW s \in [1..m -> Nat], NEW t \in [1..n -> Nat],
           \A j, k \in 1..m : j < k => s[j] < s[k],
           \A j, k \in 1..n : j < k => t[j] < t[k],
           \A k \in 1..m : \E j \in 1..n : t[j] = s[k],
           NEW k \in 1..m, k \in 1..n,
           \A j \in 1..m : j < k /\ j \in 1..n => s[j] = t[j]
    PROVE  t[k] <= s[k]
  <1> SUFFICES ASSUME s[k] < t[k] PROVE FALSE
    <2>1. s[k] \in Nat /\ t[k] \in Nat
      OBVIOUS
    <2> QED
      BY <2>1
  <1>1. PICK j \in 1..n : t[j] = s[k]
    OBVIOUS
  <1>2. j \in Nat /\ k \in Nat /\ s[k] \in Nat /\ t[k] \in Nat
    OBVIOUS
  <1>3. ~(k < j) /\ k # j
    BY <1>1, <1>2
  <1>4. j < k
    BY <1>2, <1>3
  <1>5. j \in 1..m
    BY <1>4
  <1>6. s[j] = s[k]
    BY <1>1, <1>4, <1>5
  <1>7. s[j] < s[k]
    BY <1>4, <1>5
  <1> QED
    BY <1>2, <1>6, <1>7

\* t ascends; what is in t up to n is in s up to m; where s has a place, t has the same there.
Rises(t, n) == \A j, k \in 1..n : j < k => t[j] < t[k]
Covers(s, m, t, n) == \A k \in 1..n : \E j \in 1..m : s[j] = t[k]
Agrees(s, m, t, n) == \A k \in 1..m : k \in 1..n => s[k] = t[k]

\* The shorter one of the two is not shorter.
LEMMA NotShorter ==
    ASSUME NEW m \in Nat, NEW n \in Nat, NEW s, NEW t \in [1..n -> Nat],
           Rises(t, n), Covers(s, m, t, n), Agrees(s, m, t, n)
    PROVE  n <= m
  <1> SUFFICES ASSUME m < n PROVE FALSE
    OBVIOUS
  <1>1. m + 1 \in 1..n
    OBVIOUS
  <1>2. PICK j \in 1..m : s[j] = t[m + 1]
    BY <1>1 DEF Covers
  <1>3. j \in 1..m /\ j \in 1..n /\ j < m + 1
    OBVIOUS
  <1>4. t[j] = t[m + 1]
    BY <1>2, <1>3 DEF Agrees
  <1>5. t[j] < t[m + 1] /\ t[j] \in Nat
    BY <1>1, <1>3 DEF Rises
  <1> QED
    BY <1>4, <1>5

\* Two lists in the order of the store with the same members are the same.
LEMMA OneOrder ==
    ASSUME NEW s \in Seq(Nat), NEW t \in Seq(Nat), Ascending(s), Ascending(t),
           ElementsOf(s) = ElementsOf(t)
    PROVE  s = t
  <1> DEFINE m == Len(s)
             n == Len(t)
             D == {k \in Nat : k \in 1..m /\ k \in 1..n /\ s[k] # t[k]}
  <1>1. /\ m \in Nat /\ n \in Nat /\ s \in [1..m -> Nat] /\ t \in [1..n -> Nat]
        /\ DOMAIN s = 1..m /\ DOMAIN t = 1..n
    OBVIOUS
  <1>2. /\ \A j, k \in 1..m : j < k => s[j] < s[k]
        /\ \A j, k \in 1..n : j < k => t[j] < t[k]
    BY <1>1 DEF Ascending
  <1>3. /\ \A k \in 1..m : \E j \in 1..n : t[j] = s[k]
        /\ \A k \in 1..n : \E j \in 1..m : s[j] = t[k]
    BY <1>1 DEF ElementsOf
  <1>4. D = {}
    <2> SUFFICES ASSUME D # {} PROVE FALSE
      OBVIOUS
    <2>1. PICK k \in D : \A j \in D : k <= j
      <3>1. D \subseteq Nat
        OBVIOUS
      <3> HIDE DEF D
      <3> QED
        BY <3>1, FirstIs
    <2>2. k \in Nat /\ k \in 1..m /\ k \in 1..n /\ s[k] # t[k]
      OBVIOUS
    <2>3. \A j \in Nat : j < k /\ j \in 1..m /\ j \in 1..n => s[j] = t[j]
      BY <2>1, <2>2
    <2> HIDE DEF D, m, n
    <2>4. /\ \A j \in 1..m : j < k /\ j \in 1..n => s[j] = t[j]
          /\ \A j \in 1..n : j < k /\ j \in 1..m => t[j] = s[j]
      BY <1>1, <2>3
    <2>5. t[k] <= s[k]
      BY <1>1, <1>2, <1>3, <2>2, <2>4, SameSoFar
    <2>6. s[k] <= t[k]
      BY <1>1, <1>2, <1>3, <2>2, <2>4, SameSoFar
    <2>7. s[k] \in Nat /\ t[k] \in Nat
      BY <1>1, <2>2
    <2> QED
      BY <2>2, <2>5, <2>6, <2>7
  <1>5. \A k \in 1..m : k \in 1..n => s[k] = t[k] /\ t[k] = s[k]
    BY SMTT(30), <1>4
  <1> HIDE DEF D, m, n
  <1>6. Rises(s, m) /\ Rises(t, n) /\ Covers(s, m, t, n) /\ Covers(t, n, s, m)
    BY <1>2, <1>3 DEF Rises, Covers
  <1>7. Agrees(s, m, t, n) /\ Agrees(t, n, s, m)
    BY <1>5 DEF Agrees
  <1>8. m = n
    <2>1. n <= m
      BY <1>1, <1>6, <1>7, NotShorter
    <2>2. m <= n
      BY <1>1, <1>6, <1>7, NotShorter
    <2> QED
      BY <1>1, <2>1, <2>2
  <1> QED
    BY <1>1, <1>5, <1>8

\* Once all list arguments are resolved, they are what the request refers to.
LEMMA AllResolved ==
    ASSUME TypeOK, NEW u \in RunState, RightSoFar(u), u.step # "args", u.goal # "refs"
    PROVE  /\ ~Ensure!Unresolved(u.req)
           /\ DOMAIN u.refs = DOMAIN u.req.refs
           /\ Ensure!Referred(u.req) = [n \in DOMAIN u.refs |-> ElementsOf(u.refs[n])]
  <1>1. /\ Len(u.refs) = Len(Declares(u).refs)
        /\ \A n \in DOMAIN u.refs :
              Lists(u.refs[n], Ensure!Referred(u.req)[n]) /\ ~Dangling(u.req, n)
    BY DEF RightSoFar, RefsRight
  <1>2. u.refs \in Seq(Seq(Nat)) /\ u.req.refs \in Seq(SUBSET Address) /\ u.req \in Requests
        /\ Len(u.req.refs) = Len(Declares(u).refs)
    BY DeclaredType DEF RunState, Request
  <1>3. DOMAIN u.refs = DOMAIN u.req.refs
    BY <1>1, <1>2
  <1>4. ~Ensure!Unresolved(u.req)
    BY <1>1, <1>3 DEF Ensure!Unresolved, Dangling
  <1>5. Ensure!Referred(u.req) = [n \in DOMAIN u.req.refs |-> Ensure!Referred(u.req)[n]]
    BY DEF Ensure!Referred
  <1> QED
    BY <1>1, <1>3, <1>4, <1>5 DEF Lists

\* An object is left alone exactly when it already conforms.
LEMMA DiffersIs ==
    ASSUME SeqInv, TypeOK, NEW u \in RunState, RightSoFar(u), u.step # "args", u.goal # "refs",
           u.target \in DOMAIN object, u.copy = object[u.target]
    PROVE  Differs(u) <=> ~Ensure!Conforms(u.req, AsSets(object[u.target]))
  <1> DEFINE o == object[u.target]
             q == u.req
             given == {f \in Fields \cap Declared[q.kind].mutable : q.fields[f] # None}
  <1>1. o \in Object /\ Tidy(o) /\ o.refs \in Seq(Seq(Nat)) /\ u.refs \in Seq(Seq(Nat))
    <2>1. o \in Object /\ Tidy(o)
      BY DEF TypeOK, SeqInv
    <2> QED
      BY <2>1 DEF Object, RunState
  <1>2. Differs(u) <=> o.refs # u.refs \/ \E f \in given : o.fields[f] # q.fields[f]
    <2> DEFINE m == [f \in Fields |->
                  IF f \in Declared[q.kind].mutable /\ q.fields[f] # None
                  THEN q.fields[f] ELSE o.fields[f]]
    <2>1. Merged(q, u.refs, o) = [o EXCEPT !.refs = u.refs, !.fields = m]
      BY DEF Merged
    <2>2. o.fields \in [Fields -> Values \cup {None}]
      BY <1>1 DEF Object
    <2>3. m = o.fields <=> \A f \in given : o.fields[f] = q.fields[f]
      BY <2>2
    <2> HIDE DEF m, given
    <2>4. [o EXCEPT !.refs = u.refs, !.fields = m] = o <=> o.refs = u.refs /\ o.fields = m
      BY <1>1 DEF Object
    <2> QED
      BY <2>1, <2>3, <2>4 DEF Differs
  <1>3. Ensure!Referred(q) = [n \in DOMAIN u.refs |-> ElementsOf(u.refs[n])]
    BY AllResolved
  <1>4. /\ AsSets(o).refs = [n \in DOMAIN o.refs |-> ElementsOf(o.refs[n])]
        /\ AsSets(o).fields = o.fields
    BY MappedObject
  <1>5. AsSets(o).refs = Ensure!Referred(q) <=> o.refs = u.refs
    <2>1. ASSUME AsSets(o).refs = Ensure!Referred(q)
          PROVE  o.refs = u.refs
      <3>1. DOMAIN o.refs = DOMAIN u.refs
        BY <1>3, <1>4, <2>1
      <3>2. \A n \in DOMAIN u.refs : ElementsOf(o.refs[n]) = ElementsOf(u.refs[n])
        BY <1>3, <1>4, <2>1, <3>1
      <3>3. \A n \in DOMAIN u.refs : /\ o.refs[n] \in Seq(Nat) /\ u.refs[n] \in Seq(Nat)
                                     /\ Ascending(o.refs[n]) /\ Ascending(u.refs[n])
        BY <1>1, <3>1 DEF Tidy, RightSoFar, RefsRight, Lists
      <3>4. \A n \in DOMAIN u.refs : o.refs[n] = u.refs[n]
        BY <3>2, <3>3, OneOrder
      <3> QED
        BY <1>1, <3>1, <3>4
    <2> QED
      BY <1>3, <1>4, <2>1
  <1>6. Ensure!Conforms(q, AsSets(o)) <=>
          AsSets(o).refs = Ensure!Referred(q) /\ \A f \in given : o.fields[f] = q.fields[f]
    BY <1>4 DEF Ensure!Conforms, Ensure!Given
  <1> QED
    BY <1>2, <1>5, <1>6

\* Once the lookup is over, EnsureResource judges the request as the task does.
LEMMA Judged ==
    ASSUME SeqInv, TypeOK, NEW u \in RunState, RightSoFar(u), LookupInv(u), u.step # "args", LookedUp(u)
    PROVE  /\ Ensure!Target(u.req) = u.target
           /\ Found(u) => u.target \in live /\ u.copy = object[u.target]
           /\ Ensure!Forbidden(u.req) <=> Clashes(u)
           /\ Ensure!Satisfied(u.req) <=> ~WillChange(u)
           /\ Ensure!Impossible(u.req) <=>
                \/ Clashes(u)
                \/ ~u.req.check /\ WillChange(u) /\ ~Found(u) /\ Ensure!Orphaned(u.req)
  <1> DEFINE q == u.req
  <1>1. u.goal # "refs"
    BY DEF RightSoFar, RefsRight, LookedUp
  <1>2. q \in Request /\ q \in Requests
    BY DeclaredType DEF RunState
  <1>3. Ensure!Target(q) = u.target /\ (Found(u) => u.copy = object[u.target])
    BY DEF RightSoFar, TargetRight
  <1>4. Found(u) => u.target \in live
    <2> DEFINE S == {i \in live :
               /\ object[i].kind = q.kind /\ Matches(i, object[i], q.name)
               /\ Declared[q.kind].scope # "everywhere" =>
                     object[i].parents = Ensure!Owners(q)}
    <2>1. u.target = Ensure!First(S)
      BY <1>2, <1>3, TargetIs
    <2>2. S \subseteq live /\ S \subseteq Nat
      BY LiveIds
    <2> HIDE DEF S
    <2>3. S # {} => u.target \in S
      BY <2>1, <2>2, FirstIs
    <2>4. S = {} => u.target = 0
      BY <2>1, <2>2, FirstIs
    <2> QED
      BY <2>2, <2>3, <2>4 DEF Found, NoId
  <1>5. Found(u) => u.target \in DOMAIN object
    BY <1>4 DEF TypeOK
  <1>6. Found(u) => [i \in DOMAIN object |-> AsSets(object[i])][u.target] = AsSets(object[u.target])
    BY <1>5
  <1>7. Ensure!Forbidden(q) <=> Clashes(u)
    <2>1. Found(u) => /\ AsSets(object[u.target]).name = u.copy.name
                      /\ AsSets(object[u.target]).fields = u.copy.fields
      BY <1>3, <1>5, MappedObject
    <2>2. Found(u) <=> Ensure!Target(q) # 0
      BY <1>3 DEF Found, NoId
    <2> QED
      BY <1>3, <1>6, <2>1, <2>2 DEF Ensure!Forbidden, Clashes, Conflicts, Ensure!Given
  <1>8. Ensure!Satisfied(q) <=> ~WillChange(u)
    <2>1. Found(u) => (Differs(u) <=> ~Ensure!Conforms(q, AsSets(object[u.target])))
      BY <1>1, <1>3, <1>5, DiffersIs
    <2>2. Found(u) <=> Ensure!Target(q) # 0
      BY <1>3 DEF Found, NoId
    <2> QED
      BY <1>3, <1>6, <2>1, <2>2 DEF Ensure!Satisfied, WillChange
  <1>9. ~Ensure!Unresolved(q) /\ q.omitted \cap Declared[q.kind].required = {}
    BY <1>1, AllResolved DEF RightSoFar, Declares
  <1>10. Declared[q.kind].scope = "parentOrFail" => ~Ensure!Orphaned(q)
    <2> SUFFICES ASSUME Declares(u).scope = "parentOrFail" PROVE ~Ensure!Orphaned(q)
      BY DEF Declares
    <2>1. Ensure!Owners(q)[1] # NoId
      BY DEF RightSoFar, TargetRight
    <2>2. DOMAIN q.parents = {1}
      BY ScopeIsOwners
    <2> QED
      BY <2>1, <2>2 DEF Ensure!Orphaned, NoId
  <1>11. Ensure!Target(q) = 0 <=> ~Found(u)
    BY <1>3 DEF Found, NoId
  <1> QED
    BY <1>3, <1>4, <1>7, <1>8, <1>9, <1>10, <1>11 DEF Ensure!Impossible

\* The owners are at hand when the mutating call needs them.
LEMMA OwnersFound ==
    ASSUME SeqInv, TypeOK, NEW u \in RunState, RightSoFar(u), u.step = "apply",
           ~Found(u) \/ Declares(u).scope = "parentOrFail"
    PROVE  /\ u.parents = Ensure!Owners(u.req) /\ ~Ensure!Orphaned(u.req)
           /\ \A n \in DOMAIN u.parents : u.parents[n] \in live
  <1> DEFINE q == u.req
  <1>1. /\ q \in Requests /\ q.parents \in Seq(Address) /\ u.parents \in Seq(Nat)
        /\ Len(q.parents) = Len(Declares(u).parents) /\ Declares(u).parents \in Seq(Kinds)
    BY DeclaredType DEF RunState, Request, Declaration
  <1>2. Len(u.parents) = Len(Declares(u).parents)
    <2>1. CASE u.goal = "parents"
      BY <2>1 DEF RightSoFar, ParentsRight
    <2>2. CASE u.goal # "parents"
      <3>1. u.parents = <<>> /\ ~NeedsParents(u)
        BY <2>2 DEF RightSoFar, ParentsRight
      <3>2. Declares(u).parents = <<>>
        BY <3>1 DEF NeedsParents
      <3> QED
        BY <3>1, <3>2
    <2> QED
      BY <2>1, <2>2
  <1>3. DOMAIN u.parents = DOMAIN q.parents /\ u.parents = [n \in DOMAIN q.parents |-> u.parents[n]]
    BY <1>1, <1>2
  <1>4. \A n \in DOMAIN u.parents : u.parents[n] = Ensure!Owners(q)[n] /\ u.parents[n] # NoId
    BY DEF RightSoFar, ParentsRight
  <1>5. Ensure!Owners(q) = [n \in DOMAIN q.parents |-> Ensure!Owners(q)[n]]
    BY DEF Ensure!Owners
  <1>6. u.parents = Ensure!Owners(q)
    BY <1>3, <1>4, <1>5
  <1>7. ~Ensure!Orphaned(q)
    BY <1>3, <1>4 DEF Ensure!Orphaned, NoId
  <1>8. ASSUME NEW n \in DOMAIN u.parents
        PROVE  u.parents[n] \in live
    <2> DEFINE S == {i \in live :
                    /\ object[i].kind = Declared[q.kind].parents[n]
                    /\ Matches(i, object[i], q.parents[n])}
    <2>1. u.parents[n] = Ensure!First(S) /\ u.parents[n] # NoId
      BY <1>1, <1>3, <1>4, OwnersAre
    <2>2. S \subseteq live /\ S \subseteq Nat
      BY LiveIds
    <2> HIDE DEF S
    <2> QED
      BY <2>1, <2>2, FirstIs DEF NoId
  <1> QED
    BY <1>6, <1>7, <1>8

----------------------------------------------------------------------------
(* Records and sequences, written out.                                     *)

Reported(R, x, w, d) == [R EXCEPT !.phase = x, !.verdict = w, !.changed = d]

Rewritten(R, a, b) == [R EXCEPT !.refs = a, !.fields = b]

LEMMA ReportShape ==
    ASSUME NEW x, NEW w, NEW d, NEW R,
           R = [phase |-> R.phase, req |-> R.req, verdict |-> R.verdict, changed |-> R.changed]
    PROVE  Reported(R, x, w, d) = [phase |-> x, req |-> R.req, verdict |-> w, changed |-> d]
  <1> DEFINE T == {R.phase, R.req, R.verdict, R.changed, x, w, d}
             W == [R EXCEPT !.phase = x, !.verdict = w, !.changed = d]
  <1>1. /\ R.phase \in T /\ R.req \in T /\ R.verdict \in T /\ R.changed \in T
        /\ x \in T /\ w \in T /\ d \in T
    OBVIOUS
  <1> HIDE DEF T
  <1>2. W \in [phase : T, req : T, verdict : T, changed : T]
    BY <1>1
  <1>3. W.phase = x /\ W.verdict = w /\ W.changed = d /\ W.req = R.req
    OBVIOUS
  <1> HIDE DEF W
  <1>4. W = [phase |-> x, req |-> R.req, verdict |-> w, changed |-> d]
    BY <1>2, <1>3
  <1> QED
    BY <1>4 DEF W, Reported

LEMMA ObjectShape ==
    ASSUME NEW a, NEW b, NEW R,
           R = [kind |-> R.kind, name |-> R.name, fields |-> R.fields, refs |-> R.refs,
                parents |-> R.parents]
    PROVE  Rewritten(R, a, b) =
           [kind |-> R.kind, name |-> R.name, fields |-> b, refs |-> a, parents |-> R.parents]
  <1> DEFINE T == {R.kind, R.name, R.fields, R.refs, R.parents, a, b}
             W == [R EXCEPT !.refs = a, !.fields = b]
  <1>1. /\ R.kind \in T /\ R.name \in T /\ R.fields \in T /\ R.refs \in T /\ R.parents \in T
        /\ a \in T /\ b \in T
    OBVIOUS
  <1> HIDE DEF T
  <1>2. W \in [kind : T, name : T, fields : T, refs : T, parents : T]
    BY <1>1
  <1>3. /\ W.kind = R.kind /\ W.name = R.name /\ W.fields = b /\ W.refs = a
        /\ W.parents = R.parents
    OBVIOUS
  <1> HIDE DEF W
  <1>4. W = [kind |-> R.kind, name |-> R.name, fields |-> b, refs |-> a, parents |-> R.parents]
    BY <1>2, <1>3
  <1> QED
    BY <1>4 DEF W, Rewritten

LEMMA SetsShape ==
    ASSUME NEW o \in Object
    PROVE  AsSets(o) = [kind |-> o.kind, name |-> o.name, fields |-> o.fields,
                        refs |-> [n \in DOMAIN o.refs |-> ElementsOf(o.refs[n])],
                        parents |-> o.parents]
  <1> DEFINE rs == [n \in DOMAIN o.refs |-> ElementsOf(o.refs[n])]
  <1>1. AsSets(o) = [o EXCEPT !.refs = rs]
    BY DEF AsSets, ElementsOf
  <1> HIDE DEF rs
  <1>2. [o EXCEPT !.refs = rs] =
          [kind |-> o.kind, name |-> o.name, fields |-> o.fields, refs |-> rs, parents |-> o.parents]
    BY DEF Object
  <1> QED
    BY <1>1, <1>2 DEF rs

LEMMA AppendIs ==
    ASSUME NEW T, NEW s \in Seq(T), NEW x \in T
    PROVE  Append(s, x) = [j \in 1..(Len(s) + 1) |-> IF j = Len(s) + 1 THEN x ELSE s[j]]
  <1> DEFINE t == Append(s, x)
             v == [j \in 1..(Len(s) + 1) |-> IF j = Len(s) + 1 THEN x ELSE s[j]]
  <1>1. /\ t \in Seq(T) /\ Len(t) = Len(s) + 1 /\ Len(s) \in Nat /\ t[Len(s) + 1] = x
        /\ \A i \in 1..Len(s) : t[i] = s[i]
    OBVIOUS
  <1>2. v \in [1..(Len(s) + 1) -> T] /\ v[Len(s) + 1] = x /\ \A i \in 1..Len(s) : v[i] = s[i]
    OBVIOUS
  <1>3. t \in [1..(Len(s) + 1) -> T]
    <2> HIDE DEF t
    <2> QED
      BY <1>1
  <1> HIDE DEF t, v
  <1>4. \A i \in 1..(Len(s) + 1) : v[i] = t[i]
    BY <1>1, <1>2
  <1>5. v = t
    BY <1>2, <1>3, <1>4
  <1> QED
    BY <1>5 DEF t, v

----------------------------------------------------------------------------
(* Every step of a task is a step of EnsureResource, or none.              *)

\* A step that goes on with a task and leaves the store alone does not show.
LEMMA GoesOn ==
    ASSUME IInv, NEW r \in Runs, NEW u \in RunState, Local(r, u), ~Idle(r),
           u.step \notin {"idle", "done"}, u.req = run[r].req,
           u.verdict = run[r].verdict, u.changed = run[r].changed
    PROVE  UNCHANGED Ensure!vars
  <1>1. /\ object' = object /\ live' = live /\ run' = [run EXCEPT ![r] = u]
        /\ run \in [Runs -> RunState]
    BY DEF Local, Set, IInv, TypeOK
  <1>2. ASSUME NEW s \in Runs
        PROVE  /\ Idle(s)' <=> Idle(s)
               /\ run'[s].req = run[s].req /\ run'[s].verdict = run[s].verdict
               /\ run'[s].changed = run[s].changed
    BY <1>1 DEF Idle
  <1>3. [s \in Runs |-> [phase |-> IF Idle(s) THEN "idle" ELSE "busy", req |-> run[s].req,
                         verdict |-> run[s].verdict, changed |-> run[s].changed]]' =
        [s \in Runs |-> [phase |-> IF Idle(s) THEN "idle" ELSE "busy", req |-> run[s].req,
                         verdict |-> run[s].verdict, changed |-> run[s].changed]]
    BY <1>2
  <1>4. [j \in DOMAIN object |-> AsSets(object[j])]' = [j \in DOMAIN object |-> AsSets(object[j])]
    BY <1>1
  <1> QED
    BY <1>1, <1>3, <1>4 DEF Ensure!vars

\* What EnsureResource sees of the processes.
Tasks == [s \in Runs |-> [phase |-> IF Idle(s) THEN "idle" ELSE "busy", req |-> run[s].req,
                          verdict |-> run[s].verdict, changed |-> run[s].changed]]

\* The end of a task is its report.
LEMMA EndReports ==
    ASSUME TypeOK, NEW r \in Runs, NEW u, Set(r, u), u.step = "done", u.req = run[r].req
    PROVE  Tasks' = [Tasks EXCEPT ![r].phase = "idle", ![r].verdict = u.verdict,
                                  ![r].changed = u.changed]
  <1> DEFINE Task(s) == [phase |-> IF Idle(s) THEN "idle" ELSE "busy", req |-> run[s].req,
                         verdict |-> run[s].verdict, changed |-> run[s].changed]
  <1>1. run' = [run EXCEPT ![r] = u] /\ run \in [Runs -> RunState]
    BY DEF Set, TypeOK
  <1>2. \A s \in Runs : s # r => run'[s] = run[s]
    BY <1>1
  <1>3. run'[r] = u
    BY <1>1
  <1>4. \A s \in Runs : s # r => Task(s)' = Task(s)
    BY <1>2 DEF Idle
  <1>5. Task(r)' = [Task(r) EXCEPT !.phase = "idle", !.verdict = u.verdict, !.changed = u.changed]
    <2>1. Idle(r)'
      BY <1>3 DEF Idle
    <2>2. Task(r)' = [phase |-> "idle", req |-> run[r].req, verdict |-> u.verdict,
                      changed |-> u.changed]
      BY <1>3, <2>1
    <2>3. [Task(r) EXCEPT !.phase = "idle", !.verdict = u.verdict, !.changed = u.changed] =
          [phase |-> "idle", req |-> run[r].req, verdict |-> u.verdict, changed |-> u.changed]
      <3>1. /\ Task(r) = [phase |-> Task(r).phase, req |-> Task(r).req,
                           verdict |-> Task(r).verdict, changed |-> Task(r).changed]
            /\ Task(r).req = run[r].req
        OBVIOUS
      <3>2. [Task(r) EXCEPT !.phase = "idle", !.verdict = u.verdict, !.changed = u.changed] =
            Reported(Task(r), "idle", u.verdict, u.changed)
        BY Zenon DEF Reported
      <3> HIDE DEF Task
      <3> QED
        BY <3>1, <3>2, ReportShape
    <2> HIDE DEF Task
    <2> QED
      BY <2>2, <2>3
  <1> HIDE DEF Task
  <1>6. [s \in Runs |-> Task(s)]' =
        [[s \in Runs |-> Task(s)] EXCEPT ![r].phase = "idle", ![r].verdict = u.verdict,
                                         ![r].changed = u.changed]
    BY <1>4, <1>5
  <1> QED
    BY <1>6 DEF Tasks, Task

\* What a run says of itself when it ends.
LEMMA EndSays ==
    ASSUME NEW u \in RunState
    PROVE  /\ Failed(u).step = "done" /\ Failed(u).req = u.req
           /\ Failed(u).verdict = "failed" /\ Failed(u).changed = FALSE
           /\ \A c \in BOOLEAN : /\ Exit(u, c).step = "done" /\ Exit(u, c).req = u.req
                                 /\ Exit(u, c).verdict = "ok" /\ Exit(u, c).changed = c
  BY DEF Failed, Exit, Ended, Fresh

LEMMA FailReports ==
    ASSUME TypeOK, NEW r \in Runs, NEW u \in RunState, u.req = run[r].req, Set(r, Failed(u))
    PROVE  Tasks' = [Tasks EXCEPT ![r].phase = "idle", ![r].verdict = "failed",
                                  ![r].changed = FALSE]
  <1> DEFINE v == Failed(u)
  <1>1. v.step = "done" /\ v.req = run[r].req /\ v.verdict = "failed" /\ v.changed = FALSE
    BY EndSays
  <1>2. Set(r, v)
    OBVIOUS
  <1> HIDE DEF v
  <1>3. Tasks' = [Tasks EXCEPT ![r].phase = "idle", ![r].verdict = v.verdict,
                               ![r].changed = v.changed]
    BY <1>1, <1>2, EndReports
  <1> QED
    BY <1>1, <1>3

LEMMA ExitReports ==
    ASSUME TypeOK, NEW r \in Runs, NEW u \in RunState, u.req = run[r].req, NEW c \in BOOLEAN,
           Set(r, Exit(u, c))
    PROVE  Tasks' = [Tasks EXCEPT ![r].phase = "idle", ![r].verdict = "ok", ![r].changed = c]
  <1> DEFINE v == Exit(u, c)
  <1>1. v.step = "done" /\ v.req = run[r].req /\ v.verdict = "ok" /\ v.changed = c
    BY EndSays
  <1>2. Set(r, v)
    OBVIOUS
  <1> HIDE DEF v
  <1>3. Tasks' = [Tasks EXCEPT ![r].phase = "idle", ![r].verdict = v.verdict,
                               ![r].changed = v.changed]
    BY <1>1, <1>2, EndReports
  <1> QED
    BY <1>1, <1>3

LEMMA BusyIs ==
    ASSUME NEW r \in Runs, ~Idle(r)
    PROVE  Tasks[r].phase = "busy" /\ Tasks[r].req = run[r].req
  BY DEF Tasks

LEMMA StoreStays ==
    ASSUME NEW r, NEW u, Local(r, u)
    PROVE  /\ Set(r, u) /\ live' = live
           /\ [j \in DOMAIN object |-> AsSets(object[j])]' = [j \in DOMAIN object |-> AsSets(object[j])]
  BY DEF Local

LEMMA RefusedStep ==
    ASSUME TypeOK, NEW r \in Runs, ~Idle(r), Local(r, Failed(run[r])), Ensure!Impossible(run[r].req)
    PROVE  Ensure!Refuse(r)
  <1>1. Tasks' = [Tasks EXCEPT ![r].phase = "idle", ![r].verdict = "failed", ![r].changed = FALSE]
    BY FailReports, StoreStays DEF TypeOK
  <1>2. Tasks[r].phase = "busy" /\ Ensure!Impossible(Tasks[r].req)
    BY BusyIs
  <1> QED
    BY <1>1, <1>2, StoreStays DEF Ensure!Refuse, Ensure!Report, Tasks

LEMMA BrokenStep ==
    ASSUME TypeOK, NEW r \in Runs, ~Idle(r), Local(r, Failed(run[r])), Faults
    PROVE  Ensure!Break(r)
  <1>1. Tasks' = [Tasks EXCEPT ![r].phase = "idle", ![r].verdict = "failed", ![r].changed = FALSE]
    BY FailReports, StoreStays DEF TypeOK
  <1>2. Tasks[r].phase = "busy"
    BY BusyIs
  <1> QED
    BY <1>1, <1>2, StoreStays DEF Ensure!Break, Ensure!Report, Tasks

\* A task that ends without a call, in check mode or because there is nothing to do.
LEMMA DoneStep ==
    ASSUME IInv, SeqInv, NEW r \in Runs, run[r].step = "decide", ~Clashes(run[r]),
           run[r].req.check \/ ~WillChange(run[r]), Local(r, Exit(run[r], WillChange(run[r])))
    PROVE  Ensure!Succeed(r)
  <1> DEFINE u == run[r]
             q == Tasks[r].req
  <1>1. ~Idle(r)
    BY DEF Idle
  <1>2. u \in RunState /\ RightSoFar(u) /\ LookupInv(u) /\ TypeOK
    BY <1>1, Looking
  <1>3. Tasks[r].phase = "busy" /\ q = u.req
    BY <1>1, BusyIs
  <1>4. ~Ensure!Impossible(q) /\ (Ensure!Satisfied(q) <=> ~WillChange(u))
    BY <1>2, <1>3, Judged DEF LookedUp
  <1>5. WillChange(u) \in BOOLEAN
    BY DEF WillChange, Found, Differs
  <1>6. Tasks' = [Tasks EXCEPT ![r].phase = "idle", ![r].verdict = "ok",
                               ![r].changed = WillChange(u)]
    BY <1>2, <1>5, ExitReports, StoreStays
  <1>7. WillChange(u) = ~Ensure!Satisfied(q)
    BY <1>4, <1>5 DEF Ensure!Satisfied
  <1>8. q.check \/ Ensure!Satisfied(q)
    BY <1>3, <1>4
  <1>9. Tasks' = [Tasks EXCEPT ![r].phase = "idle", ![r].verdict = "ok",
                               ![r].changed = ~Ensure!Satisfied(q)]
    BY <1>6, <1>7
  <1> QED
    BY <1>3, <1>4, <1>8, <1>9, StoreStays DEF Ensure!Succeed, Ensure!Report, Tasks

LEMMA WantedType ==
    ASSUME NEW u \in RunState
    PROVE  Wanted(u) \in Object
  BY DeclaredType DEF RunState, Request, Wanted, Object

\* The mutating call is what EnsureResource asks for, and finds the store as the task left it.
LEMMA CallApplies ==
    ASSUME IInv, SeqInv, NEW r \in Runs, run[r].step = "apply",
           \E lost \in BOOLEAN : Create(r, lost) \/ Update(r, lost) \/ Delete(r, lost)
    PROVE  LET q == Tasks[r].req
           IN  /\ ~Ensure!Impossible(q) /\ ~q.check /\ ~Ensure!Satisfied(q)
               /\ Ensure!Apply(q)
  <1> DEFINE u == run[r]
             q == Tasks[r].req
             store == [j \in DOMAIN object |-> AsSets(object[j])]
  <1>1. ~Idle(r)
    BY DEF Idle
  <1>2. /\ u \in RunState /\ RightSoFar(u) /\ LookupInv(u) /\ TypeOK
        /\ live \subseteq DOMAIN object
    BY <1>1, Looking
  <1>3. q = u.req
    BY <1>1, BusyIs
  <1>4. ~u.req.check /\ ~Clashes(u) /\ WillChange(u)
    BY <1>2 DEF RightSoFar, ParentsRight
  <1>5. /\ Ensure!Target(u.req) = u.target
        /\ Found(u) => u.target \in live /\ u.copy = object[u.target]
        /\ ~Ensure!Satisfied(u.req)
    BY <1>2, <1>4, Judged DEF LookedUp
  <1>6. ~Ensure!Impossible(u.req)
    <2>1. ~Found(u) => ~Ensure!Orphaned(u.req)
      BY <1>2, OwnersFound
    <2> QED
      BY <1>2, <1>4, <2>1, Judged DEF LookedUp
  <1>7. object \in Seq(Object) /\ DOMAIN store = DOMAIN object
    BY <1>2 DEF TypeOK
  <1>8. Ensure!Referred(u.req) = [n \in DOMAIN u.refs |-> ElementsOf(u.refs[n])]
    BY <1>2, AllResolved DEF RightSoFar, RefsRight
  <1>9. Ensure!Apply(u.req)
    <2>1. ASSUME NEW lost \in BOOLEAN, Create(r, lost)
          PROVE  Ensure!Apply(u.req)
      <3> DEFINE new == [kind |-> u.req.kind, name |-> u.req.name, fields |-> u.req.fields,
                         refs |-> Ensure!Referred(u.req), parents |-> Ensure!Owners(u.req)]
      <3>1. /\ ~Found(u) /\ live' = live \cup {Len(object) + 1}
            /\ object' = Append(object, Wanted(u))
        BY <2>1 DEF Create
      <3>2. u.req.state # "absent"
        BY <1>4, <3>1 DEF WillChange
      <3>3. u.parents = Ensure!Owners(u.req)
        BY <1>2, <3>1, OwnersFound
      <3>4. AsSets(Wanted(u)) = new
        <4>1. Wanted(u) \in Object
          BY <1>2, WantedType
        <4> QED
          BY <1>8, <3>3, <4>1, SetsShape DEF Wanted
      <3> HIDE DEF new
      <3>5. Len(store) = Len(object)
        BY <1>7
      <3>6. [j \in DOMAIN object |-> AsSets(object[j])]' = Append(store, new)
        <4>1. /\ Len(object') = Len(object) + 1 /\ DOMAIN object' = 1..(Len(object) + 1)
              /\ object'[Len(object) + 1] = Wanted(u)
              /\ \A j \in 1..Len(object) : object'[j] = object[j]
          BY <1>7, <3>1
        <4>2. [j \in DOMAIN object |-> AsSets(object[j])]' =
                [j \in 1..(Len(object) + 1) |-> IF j = Len(object) + 1 THEN new ELSE store[j]]
          BY <1>7, <3>4, <4>1
        <4>3. Append(store, new) =
                [j \in 1..(Len(object) + 1) |-> IF j = Len(object) + 1 THEN new ELSE store[j]]
          <5> DEFINE T == {store[j] : j \in DOMAIN store} \cup {new}
          <5>1. Len(object) \in Nat /\ store = [j \in 1..Len(object) |-> store[j]]
            BY <1>7
          <5> HIDE DEF store
          <5>2. \A j \in 1..Len(object) : store[j] \in T
            BY <5>1
          <5>3. new \in T
            OBVIOUS
          <5> HIDE DEF T
          <5>4. store \in Seq(T)
            BY <5>1, <5>2
          <5> QED
            BY <3>5, <5>3, <5>4, AppendIs
        <4> QED
          BY <4>2, <4>3
      <3>7. Ensure!Target(u.req) = 0
        BY <1>5, <3>1 DEF Found, NoId
      <3> QED
        BY <3>1, <3>2, <3>5, <3>6, <3>7 DEF Ensure!Apply, new
    <2>2. ASSUME NEW lost \in BOOLEAN, Update(r, lost)
          PROVE  Ensure!Apply(u.req)
      <3> DEFINE t == u.target
                 m == Merged(u.req, u.refs, u.copy)
      <3>1. /\ Found(u) /\ u.req.state = "present" /\ live' = live
            /\ object' = [object EXCEPT ![t] = m]
        BY <2>2 DEF Update
      <3>2. t \in DOMAIN object /\ object[t] \in Object /\ u.copy = object[t]
        BY <1>2, <1>5, <1>7, <3>1
      <3>3. AsSets(m) = [AsSets(object[t]) EXCEPT !.refs = Ensure!Referred(u.req),
               !.fields = [f \in Fields |->
                   IF f \in Ensure!Given(u.req, "mutable") THEN u.req.fields[f]
                   ELSE AsSets(object[t]).fields[f]]]
        <4> DEFINE o == object[t]
                   fs == [f \in Fields |->
                            IF f \in Declared[u.req.kind].mutable /\ u.req.fields[f] # None
                            THEN u.req.fields[f] ELSE o.fields[f]]
        <4>1. m = [o EXCEPT !.refs = u.refs, !.fields = fs]
          BY <3>2 DEF Merged
        <4>2. AsSets(o).fields = o.fields
          BY <1>2, <3>2, MappedObject
        <4>3. [f \in Fields |-> IF f \in Ensure!Given(u.req, "mutable") THEN u.req.fields[f]
                                ELSE AsSets(o).fields[f]] = fs
          BY <4>2 DEF Ensure!Given
        <4> HIDE DEF fs
        <4>4. AsSets(m) = [kind |-> o.kind, name |-> o.name, fields |-> fs,
                           refs |-> Ensure!Referred(u.req), parents |-> o.parents]
          <5>1. m \in Object
            BY <1>2, <3>2, MergedType DEF RunState
          <5> HIDE DEF m
          <5>2. /\ m.kind = o.kind /\ m.name = o.name /\ m.fields = fs /\ m.refs = u.refs
                /\ m.parents = o.parents
            BY <3>2, <4>1 DEF Object
          <5>3. AsSets(m) = [kind |-> m.kind, name |-> m.name, fields |-> m.fields,
                             refs |-> [n \in DOMAIN m.refs |-> ElementsOf(m.refs[n])],
                             parents |-> m.parents]
            BY <5>1, SetsShape
          <5> QED
            BY <1>8, <5>2, <5>3
        <4>5. [AsSets(o) EXCEPT !.refs = Ensure!Referred(u.req), !.fields = fs] =
                 [kind |-> o.kind, name |-> o.name, fields |-> fs,
                  refs |-> Ensure!Referred(u.req), parents |-> o.parents]
          <5> DEFINE R == AsSets(o)
          <5>1. /\ R = [kind |-> R.kind, name |-> R.name, fields |-> R.fields, refs |-> R.refs,
                         parents |-> R.parents]
                /\ R.kind = o.kind /\ R.name = o.name /\ R.parents = o.parents
            BY <3>2, SetsShape
          <5> HIDE DEF R
          <5>2. Rewritten(R, Ensure!Referred(u.req), fs) =
                 [kind |-> o.kind, name |-> o.name, fields |-> fs,
                  refs |-> Ensure!Referred(u.req), parents |-> o.parents]
            BY <5>1, ObjectShape
          <5> QED
            BY <5>2 DEF R, Rewritten
        <4> QED
          BY <4>2, <4>3, <4>4, <4>5
      <3>4. [j \in DOMAIN object |-> AsSets(object[j])]' = [store EXCEPT ![t] = AsSets(m)]
        BY <1>7, <3>1, <3>2
      <3>5. Ensure!Target(u.req) = t /\ t # 0
        BY <1>5, <3>1 DEF Found, NoId
      <3>6. store = [j \in DOMAIN store |-> store[j]] /\ t \in DOMAIN store
            /\ store[t] = AsSets(object[t])
        BY <1>7, <3>2
      <3> HIDE DEF store, m
      <3>7. [store EXCEPT ![t].refs = Ensure!Referred(u.req),
               ![t].fields = [f \in Fields |->
                   IF f \in Ensure!Given(u.req, "mutable") THEN u.req.fields[f] ELSE @[f]]] =
            [store EXCEPT ![t] = AsSets(m)]
        <4> DEFINE F == Ensure!Referred(u.req)
                   B == [f \in Fields |-> IF f \in Ensure!Given(u.req, "mutable") THEN u.req.fields[f]
                                          ELSE store[t].fields[f]]
        <4>1. AsSets(m) = [store[t] EXCEPT !.refs = F, !.fields = B]
          BY <3>3, <3>6, Zenon
        <4> HIDE DEF F, B
        <4>2. [store EXCEPT ![t].refs = F, ![t].fields = B] = [store EXCEPT ![t] = AsSets(m)]
          BY <3>6, <4>1
        <4> QED
          BY <4>2, Zenon DEF F, B
      <3> QED
        BY SMTT(30), <3>1, <3>4, <3>5, <3>7 DEF Ensure!Apply, store
    <2>3. ASSUME NEW lost \in BOOLEAN, Delete(r, lost)
          PROVE  Ensure!Apply(u.req)
      <3>1. u.req.state = "absent" /\ live' = live \ {u.target} /\ object' = object
        BY <2>3 DEF Delete
      <3> QED
        BY <1>5, <3>1 DEF Ensure!Apply
    <2> QED
      BY <2>1, <2>2, <2>3
  <1> HIDE DEF q
  <1> QED
    BY <1>3, <1>4, <1>5, <1>6, <1>9 DEF q

\* A step keeps what is right, and shows as a step of EnsureResource or not at all.
Implements == SeqInv' /\ [Ensure!Next]_(Ensure!vars)

LEMMA OnStep ==
    ASSUME IInv, SeqInv, NEW r \in Runs, ~Idle(r), NEW u \in RunState, Local(r, u), RightSoFar(u),
           u.step \notin {"idle", "done"}, u.req = run[r].req,
           u.verdict = run[r].verdict, u.changed = run[r].changed
    PROVE  Implements
  <1>1. SeqInv'
    BY Looking, MoveKeeps
  <1>2. UNCHANGED Ensure!vars
    BY GoesOn
  <1> QED
    BY <1>1, <1>2 DEF Implements

LEMMA FailKeeps ==
    ASSUME IInv, SeqInv, NEW r \in Runs, ~Idle(r), Local(r, Failed(run[r]))
    PROVE  SeqInv'
  <1> DEFINE v == Failed(run[r])
  <1>1. run[r] \in RunState /\ Alone(r)
    BY Looking
  <1>2. v \in RunState /\ v.step = "done" /\ Local(r, v)
    BY <1>1, EndedType, EndSays
  <1> HIDE DEF v
  <1> QED
    BY <1>1, <1>2, MoveKeeps

LEMMA RefusedImplements ==
    ASSUME IInv, SeqInv, NEW r \in Runs, ~Idle(r), Local(r, Failed(run[r])),
           Ensure!Impossible(run[r].req)
    PROVE  Implements
  <1>1. Ensure!Refuse(r)
    BY RefusedStep DEF IInv
  <1> QED
    BY <1>1, FailKeeps DEF Implements, Ensure!Next

LEMMA BrokenImplements ==
    ASSUME IInv, SeqInv, NEW r \in Runs, ~Idle(r), Local(r, Failed(run[r])), Faults
    PROVE  Implements
  <1>1. Ensure!Break(r)
    BY BrokenStep DEF IInv
  <1> QED
    BY <1>1, FailKeeps DEF Implements, Ensure!Next

LEMMA DoneImplements ==
    ASSUME IInv, SeqInv, NEW r \in Runs, Predict(r) \/ LeaveAlone(r)
    PROVE  Implements
  <1> DEFINE u == run[r]
             v == Exit(u, WillChange(u))
  <1>1. /\ u.step = "decide" /\ ~Clashes(u) /\ (u.req.check \/ ~WillChange(u))
        /\ WillChange(u) \in BOOLEAN
    BY DEF Predict, LeaveAlone, WillChange, Found
  <1>2. Local(r, v)
    <2>1. WillChange(u) = FALSE => Exit(u, FALSE) = v
      OBVIOUS
    <2> QED
      BY <1>1, <2>1 DEF Predict, LeaveAlone
  <1>3. ~Idle(r)
    BY <1>1 DEF Idle
  <1>4. u \in RunState /\ Alone(r)
    BY <1>3, Looking
  <1>5. v \in RunState /\ v.step = "done"
    BY <1>1, <1>4, EndedType, EndSays
  <1>6. Ensure!Succeed(r)
    BY <1>1, <1>2, DoneStep
  <1> HIDE DEF v
  <1>7. SeqInv'
    BY <1>2, <1>4, <1>5, MoveKeeps
  <1> QED
    BY <1>6, <1>7 DEF Implements, Ensure!Next

LEMMA OwnersLive ==
    ASSUME TypeOK, NEW q \in Requests, NEW n \in DOMAIN q.parents, Ensure!Owners(q)[n] # NoId
    PROVE  Ensure!Owners(q)[n] \in live
  <1> DEFINE S == {i \in live : /\ object[i].kind = Declared[q.kind].parents[n]
                                /\ Matches(i, object[i], q.parents[n])}
  <1>1. Ensure!Owners(q)[n] = Ensure!First(S)
    BY OwnersAre
  <1>2. S \subseteq live /\ S \subseteq Nat
    BY LiveIds
  <1> HIDE DEF S
  <1> QED
    BY <1>1, <1>2, FirstIs DEF NoId

\* A task that starts does so alone.
LEMMA StartImplements ==
    ASSUME OneAfterAnother, IInv, SeqInv, NEW r \in Runs, NEW q \in Requests, Start(r, q)
    PROVE  Implements
  <1> DEFINE v == Fresh(q, run[r].starts + 1)
  <1>1. run \in [Runs -> RunState] /\ TypeOK /\ run[r].starts + 1 \in Nat
    BY SMTT(30) DEF IInv, TypeOK, RunState
  <1>2. \A s \in Runs : Idle(s)
    BY DEF Start, OneAfterAnother
  <1>3. /\ v.step = "args" /\ v.req = q /\ v.verdict = "none" /\ v.changed = FALSE
        /\ v \in RunState /\ RightSoFar(v)
    BY <1>1, FreshType, FreshRight DEF Fresh
  <1>4. Local(r, v)
    BY DEF Start
  <1> HIDE DEF v
  <1>5. SeqInv'
    BY <1>2, <1>3, <1>4, MoveKeeps DEF Alone
  <1>6. \A s \in Runs : Tasks[s].phase = "idle"
    BY <1>2 DEF Tasks
  <1>7. Tasks' = [Tasks EXCEPT ![r] = [phase |-> "busy", req |-> q, verdict |-> "none",
                                      changed |-> FALSE]]
    <2>1. run' = [run EXCEPT ![r] = v]
      BY <1>4 DEF Local, Set
    <2>2. \A s \in Runs : s # r => run'[s] = run[s]
      BY <1>1, <2>1
    <2>3. run'[r] = v
      BY <1>1, <2>1
    <2>4. \A s \in Runs : s # r => (Idle(s)' <=> Idle(s))
      BY <2>2 DEF Idle
    <2>5. ~Idle(r)'
      BY <1>3, <2>3 DEF Idle
    <2> QED
      BY <1>3, <2>2, <2>3, <2>4, <2>5 DEF Tasks
  <1>8. Ensure!Begin(r, q)
    BY <1>4, <1>6, <1>7, StoreStays DEF Ensure!Begin, Tasks
  <1> QED
    BY <1>5, <1>8 DEF Implements, Ensure!Next


----------------------------------------------------------------------------
(* One lemma per group of actions.                                         *)

\* A parameter without which the task is refused, and the list arguments.
LEMMA ArgumentsImplement ==
    ASSUME OneAfterAnother, ListsByName, IInv, SeqInv, NEW r \in Runs,
           \/ Validate(r) \/ SkipRefs(r) \/ RefsEnd(r)
           \/ \E i \in run[r].todo : ReadRef(r, i)
    PROVE  Implements
  <1> DEFINE u == run[r]
  <1>1. ~Idle(r)
    BY DEF Validate, SkipRefs, RefsEnd, ReadRef, Idle
  <1>2. u \in RunState /\ RightSoFar(u) /\ TypeOK
    BY <1>1, Looking
  <1>3. ASSUME NEW ids, LET v == Onward([u EXCEPT !.refs = Append(@, ids)])
                        IN  v \in RunState /\ RightSoFar(v) /\ Local(r, v)
        PROVE  Implements
    <2> DEFINE v == Onward([u EXCEPT !.refs = Append(@, ids)])
    <2>1. /\ v.step = "list" /\ v.req = u.req /\ v.verdict = u.verdict /\ v.changed = u.changed
      BY <1>2 DEF Onward, RunState
    <2>2. v \in RunState /\ RightSoFar(v) /\ Local(r, v)
      BY <1>3
    <2> HIDE DEF v
    <2> QED
      BY <1>1, <2>1, <2>2, OnStep
  <1>4. CASE Validate(r)
    <2>1. u.step = "args" /\ u.refs = <<>> /\ u.parents = <<>>
      BY <1>2, <1>4 DEF Validate, RightSoFar
    <2>2. CASE u.req.omitted \cap Declares(u).required # {}
      <3>1. Ensure!Impossible(u.req)
        BY <2>2 DEF Ensure!Impossible, Declares
      <3>2. Local(r, Failed(u))
        BY <1>4, <2>2 DEF Validate
      <3> QED
        BY <1>1, <3>1, <3>2, RefusedImplements
    <2>3. CASE u.req.omitted \cap Declares(u).required = {}
      <3> DEFINE v == Onward(u)
      <3>1. Local(r, v)
        BY <1>4, <2>3 DEF Validate
      <3>2. v \in RunState
        BY <1>2, OnwardType
      <3>3. Len(Declares(u).refs) \in Nat /\ Len(u.refs) = 0 /\ DOMAIN u.refs = {}
        BY <1>2, <2>1, DeclaredType
      <3>4. RightSoFar(v)
        BY <1>2, <2>1, <2>3, <3>3, OnwardRight
      <3>5. v.step = "list" /\ v.req = u.req /\ v.verdict = u.verdict /\ v.changed = u.changed
        BY <1>2 DEF Onward, RunState
      <3> HIDE DEF v
      <3> QED
        BY <1>1, <3>1, <3>2, <3>4, <3>5, OnStep
    <2> QED
      BY <2>2, <2>3
  <1>5. CASE SkipRefs(r)
    <2>1. Local(r, Onward([u EXCEPT !.refs = Append(@, <<>>)]))
      BY <1>5 DEF SkipRefs
    <2> QED
      BY <1>3, <1>5, <2>1, SkipRefsRight
  <1>6. CASE RefsEnd(r)
    <2>1. u.step = "read" /\ u.goal = "refs" /\ u.todo = {}
      BY <1>6 DEF RefsEnd
    <2>2. CASE u.ids = <<>> /\ Declares(u).mode # "never"
      <3>1. Local(r, Failed(u))
        BY <1>6, <2>2 DEF RefsEnd
      <3>2. Dangling(u.req, Len(u.refs) + 1)
        BY <1>2, <2>1, <2>2, LoopOver
      <3>3. Len(u.refs) + 1 \in DOMAIN u.req.refs
        BY <1>2, <2>1, ReferredFound
      <3>4. Ensure!Impossible(u.req)
        BY <3>2, <3>3 DEF Dangling, Ensure!Unresolved, Ensure!Impossible
      <3> QED
        BY <1>1, <3>1, <3>4, RefusedImplements
    <2>3. CASE ~(u.ids = <<>> /\ Declares(u).mode # "never")
      <3>1. Local(r, Onward([u EXCEPT !.refs = Append(@, u.ids)]))
        BY <1>6, <2>3 DEF RefsEnd
      <3> QED
        BY <1>3, <1>6, <2>3, <3>1, RefsEndRight
    <2> QED
      BY <2>2, <2>3
  <1>7. CASE \E i \in u.todo : ReadRef(r, i)
    <2>1. PICK i \in u.todo : ReadRef(r, i)
      BY <1>7
    <2> DEFINE v == [u EXCEPT !.todo = @ \ {i}, !.ids = Append(@, i)]
    <2>2. v \in RunState /\ RightSoFar(v) /\ Local(r, v)
      BY <2>1, ReadRefRight
    <2>3. v.step = "read" /\ v.req = u.req /\ v.verdict = u.verdict /\ v.changed = u.changed
      BY <1>2, <2>1 DEF RunState, ReadRef
    <2> HIDE DEF v
    <2> QED
      BY <1>1, <2>2, <2>3, OnStep
  <1> QED
    BY <1>4, <1>5, <1>6, <1>7

\* The loops that look for one object.
LEMMA LookupImplements ==
    ASSUME OneAfterAnother, IInv, SeqInv, NEW r \in Runs,
           \/ List(r) \/ Prepare(r)
           \/ \E i \in run[r].todo : ReadOther(r, i) \/ ReadHit(r, i)
    PROVE  Implements
  <1> DEFINE u == run[r]
  <1>1. ~Idle(r)
    BY DEF List, Prepare, ReadOther, ReadHit, Idle
  <1>2. u \in RunState /\ RightSoFar(u) /\ TypeOK
    BY <1>1, Looking
  <1>3. CASE List(r)
    <2> DEFINE v == [u EXCEPT !.step = "read", !.todo = Listing(u),
                              !.seen = IF u.goal = "self" THEN Listing(u) ELSE @]
    <2>1. v \in RunState /\ RightSoFar(v)
      BY <1>3, ListRight
    <2>2. Local(r, v)
      BY <1>3 DEF List
    <2>3. v.step = "read" /\ v.req = u.req /\ v.verdict = u.verdict /\ v.changed = u.changed
      BY <1>2 DEF RunState
    <2> HIDE DEF v
    <2> QED
      BY <1>1, <2>1, <2>2, <2>3, OnStep
  <1>4. CASE Prepare(r)
    <2> DEFINE v == IF NeedsParents(u) THEN [u EXCEPT !.step = "list", !.goal = "parents"]
                    ELSE [u EXCEPT !.step = "apply"]
    <2>1. v \in RunState /\ RightSoFar(v)
      BY <1>4, PrepareRight
    <2>2. Local(r, v)
      BY <1>4 DEF Prepare
    <2>3. /\ v.step \in {"list", "apply"} /\ v.req = u.req /\ v.verdict = u.verdict
          /\ v.changed = u.changed
      BY <1>2 DEF RunState
    <2> HIDE DEF v
    <2> QED
      BY <1>1, <2>1, <2>2, <2>3, OnStep
  <1>5. ASSUME NEW i \in u.todo, ReadOther(r, i)
        PROVE  Implements
    <2> DEFINE v == [u EXCEPT !.todo = @ \ {i}]
    <2>1. v \in RunState /\ RightSoFar(v)
      BY <1>5, ReadOtherRight
    <2>2. Local(r, v) /\ u.step = "read"
      BY <1>5 DEF ReadOther
    <2>3. v.step = "read" /\ v.req = u.req /\ v.verdict = u.verdict /\ v.changed = u.changed
      BY <1>2, <2>2 DEF RunState
    <2> HIDE DEF v
    <2> QED
      BY <1>1, <2>1, <2>2, <2>3, OnStep
  <1>6. ASSUME NEW i \in u.todo, ReadHit(r, i)
        PROVE  Implements
    <2> DEFINE sc == [u EXCEPT !.step = "list", !.goal = "self", !.todo = {}, !.scope = i]
               se == [u EXCEPT !.step = "decide", !.todo = {}, !.target = i, !.copy = object[i]]
               st == IF Len(u.parents) + 1 < Len(Declares(u).parents) THEN "list" ELSE "apply"
               pa == [u EXCEPT !.parents = Append(@, i), !.todo = {}, !.step = st]
    <2>0. u.goal \in {"scope", "self", "parents"}
      BY <1>2, <1>6 DEF ReadHit, RunState, Goals
    <2>1. CASE u.goal = "scope"
      <3>1. sc \in RunState /\ RightSoFar(sc)
        BY <1>6, <2>1, HitScopeRight
      <3>2. Local(r, sc)
        BY <1>6, <2>1 DEF ReadHit
      <3>3. sc.step = "list" /\ sc.req = u.req /\ sc.verdict = u.verdict /\ sc.changed = u.changed
        BY <1>2 DEF RunState
      <3> HIDE DEF sc
      <3> QED
        BY <1>1, <3>1, <3>2, <3>3, OnStep
    <2>2. CASE u.goal = "self"
      <3>1. se \in RunState /\ RightSoFar(se)
        BY <1>6, <2>2, HitSelfRight
      <3>2. Local(r, se)
        BY <1>6, <2>2 DEF ReadHit
      <3>3. se.step = "decide" /\ se.req = u.req /\ se.verdict = u.verdict /\ se.changed = u.changed
        BY <1>2 DEF RunState
      <3> HIDE DEF se
      <3> QED
        BY <1>1, <3>1, <3>2, <3>3, OnStep
    <2>3. CASE u.goal = "parents"
      <3>1. pa \in RunState /\ RightSoFar(pa)
        BY <1>6, <2>3, HitParentsRight
      <3>2. Local(r, pa)
        BY <1>6, <2>3 DEF ReadHit
      <3>3. /\ pa.step \in {"list", "apply"} /\ pa.req = u.req /\ pa.verdict = u.verdict
            /\ pa.changed = u.changed
        BY <1>2 DEF RunState
      <3> HIDE DEF pa
      <3> QED
        BY <1>1, <3>1, <3>2, <3>3, OnStep
    <2> QED
      BY <2>0, <2>1, <2>2, <2>3
  <1> QED
    BY <1>3, <1>4, <1>5, <1>6


\* The object of a scoped kind is the one that has its owners.
LEMMA TargetInScope ==
    ASSUME TypeOK, NEW q \in Requests, Ensure!Target(q) # NoId,
           Declared[q.kind].scope # "everywhere"
    PROVE  Ensure!Target(q) \in live /\ object[Ensure!Target(q)].parents = Ensure!Owners(q)
  <1> DEFINE S == {i \in live : /\ object[i].kind = q.kind /\ Matches(i, object[i], q.name)
                                /\ Declared[q.kind].scope # "everywhere" =>
                                      object[i].parents = Ensure!Owners(q)}
  <1>1. Ensure!Target(q) = Ensure!First(S)
    BY TargetIs
  <1>2. S \subseteq Nat
    BY LiveIds
  <1>3. \A i \in S : i \in live /\ object[i].parents = Ensure!Owners(q)
    OBVIOUS
  <1> HIDE DEF S
  <1>4. Ensure!Target(q) \in S
    BY <1>1, <1>2, FirstIs DEF NoId
  <1> QED
    BY <1>3, <1>4

\* What is not there is reported at once, unless it is to be created.
LEMMA NotFoundImplements ==
    ASSUME OneAfterAnother, IInv, SeqInv, NEW r \in Runs, NotFound(r)
    PROVE  Implements
  <1> DEFINE u == run[r]
             q == u.req
  <1>1. u.step = "read" /\ u.goal # "refs" /\ u.todo = {}
    BY DEF NotFound
  <1>2. ~Idle(r)
    BY <1>1 DEF Idle
  <1>3. u \in RunState /\ RightSoFar(u) /\ LookupInv(u) /\ TypeOK
    BY <1>2, Looking
  <1>4. Sought(u) = NoId
    BY <1>1, <1>3, HitIsSought
  <1>5. CASE u.goal = "self" \/ (u.goal = "scope" /\ Declares(u).scope = "parent")
    <2> DEFINE v == [u EXCEPT !.step = "decide"]
    <2>1. v \in RunState /\ RightSoFar(v)
      BY <1>5, NotFoundRight
    <2>2. Local(r, v)
      BY <1>5 DEF NotFound
    <2>3. v.step = "decide" /\ v.req = u.req /\ v.verdict = u.verdict /\ v.changed = u.changed
      BY <1>3 DEF RunState
    <2> HIDE DEF v
    <2> QED
      BY <1>2, <2>1, <2>2, <2>3, OnStep
  <1>6. CASE ~(u.goal = "self" \/ (u.goal = "scope" /\ Declares(u).scope = "parent"))
    <2>1. Local(r, Failed(u))
      BY <1>6 DEF NotFound
    <2>2. u.goal = "scope" \/ u.goal = "parents"
      BY <1>1, <1>3, <1>6 DEF RunState, Goals
    <2>3. CASE u.goal = "scope"
      <3>1. Declares(u).scope = "parentOrFail"
        <4>1. Declares(u).scope # "everywhere"
          BY <1>3, <2>3 DEF RightSoFar, ScopeRight
        <4> QED
          BY <1>3, <1>6, <2>3, <4>1, DeclaredType DEF Declaration
      <3>2. Ensure!Owners(q)[1] = 0 /\ 1 \in DOMAIN q.parents
        BY <1>3, <1>4, <2>3, <3>1, ScopeIsOwners DEF Sought, NoId
      <3>3. Ensure!Impossible(q)
        BY <3>1, <3>2 DEF Ensure!Orphaned, Ensure!Impossible, Declares
      <3> QED
        BY <1>2, <2>1, <3>3, RefusedImplements
    <2>4. CASE u.goal = "parents"
      <3>1. /\ ~q.check /\ WillChange(u) /\ NeedsParents(u)
            /\ Len(u.parents) < Len(Declares(u).parents)
        BY <1>1, <1>3, <2>4 DEF RightSoFar, ParentsRight
      <3>2. Len(u.parents) + 1 \in DOMAIN q.parents
        <4>1. /\ u.parents \in Seq(Nat) /\ q.parents \in Seq(Address)
              /\ Len(q.parents) = Len(Declares(u).parents)
          BY <1>3, DeclaredType DEF RunState, Request
        <4> QED
          BY <3>1, <4>1
      <3>3. Ensure!Orphaned(q)
        BY <1>4, <2>4, <3>2 DEF Sought, NoId, Ensure!Orphaned
      <3>4. Ensure!Impossible(q)
        <4>1. CASE Declares(u).scope = "parentOrFail"
          BY <3>3, <4>1 DEF Ensure!Impossible, Declares
        <4>2. CASE ~Found(u)
          BY <1>1, <1>3, <2>4, <3>1, <3>3, <4>2, Judged DEF LookedUp
        <4> QED
          BY <3>1, <4>1, <4>2 DEF NeedsParents
      <3> QED
        BY <1>2, <2>1, <3>4, RefusedImplements
    <2> QED
      BY <2>2, <2>3, <2>4
  <1> QED
    BY <1>5, <1>6

\* The other ways to fail: what cannot be done, and faults.  Nothing disappears
\* under a task that is alone.
LEMMA FailuresImplement ==
    ASSUME IInv, SeqInv, NEW r \in Runs,
           \/ ListGone(r) \/ Conflict(r) \/ Rejected(r) \/ Fault(r)
           \/ \E i \in run[r].todo : ReadGone(r, i)
    PROVE  Implements
  <1> DEFINE u == run[r]
             q == u.req
  <1>1. ~Idle(r)
    BY DEF ListGone, Conflict, Rejected, Fault, ReadGone, Idle
  <1>2. u \in RunState /\ RightSoFar(u) /\ LookupInv(u) /\ TypeOK /\ q \in Requests
    BY <1>1, Looking DEF RunState
  <1>3. ~ListGone(r)
    <2> SUFFICES ASSUME u.step = "list", Scoped(u), u.scope \notin live PROVE FALSE
      BY DEF ListGone
    <2>1. u.scope = Ensure!Owners(q)[1] /\ u.scope # NoId
      BY <1>2 DEF RightSoFar, ScopeRight
    <2>2. 1 \in DOMAIN q.parents
      BY <1>2, ScopeIsOwners DEF Scoped
    <2> QED
      BY <1>2, <2>1, <2>2, OwnersLive
  <1>4. ~\E i \in u.todo : ReadGone(r, i)
    BY <1>2 DEF ReadGone, RightSoFar, ReadRight, Listing
  <1>5. ~Rejected(r)
    <2> SUFFICES ASSUME u.step = "apply", Rejected(r) PROVE FALSE
      BY DEF Rejected
    <2>1. /\ Ensure!Target(q) = u.target
          /\ Found(u) => u.target \in live /\ u.copy = object[u.target]
      BY <1>2, Judged DEF LookedUp
    <2>2. Found(u) => Owned(u)
      <3> SUFFICES ASSUME Found(u), Declares(u).scope = "parentOrFail"
                   PROVE  u.copy.parents = u.parents
        BY DEF Owned
      <3>1. u.parents = Ensure!Owners(q)
        BY <1>2, OwnersFound
      <3>2. object[u.target].parents = Ensure!Owners(q)
        BY <1>2, <2>1, TargetInScope DEF Declares, Found
      <3> QED
        BY <2>1, <3>1, <3>2
    <2>3. ~Found(u) => \A n \in DOMAIN u.parents : u.parents[n] \in live
      BY <1>2, OwnersFound
    <2> QED
      BY <2>1, <2>2, <2>3 DEF Rejected
  <1>6. CASE Conflict(r)
    <2>1. u.step = "decide" /\ Clashes(u) /\ Local(r, Failed(u))
      BY <1>6 DEF Conflict
    <2>2. Ensure!Impossible(q)
      BY <1>2, <2>1, Judged DEF LookedUp
    <2> QED
      BY <1>1, <2>1, <2>2, RefusedImplements
  <1>7. CASE Fault(r)
    BY <1>1, <1>7, BrokenImplements DEF Fault
  <1> QED
    BY <1>3, <1>4, <1>5, <1>6, <1>7


\* The mutating call is the one step of a task that shows.
LEMMA CallsImplement ==
    ASSUME IInv, SeqInv, NEW r \in Runs, NEW lost \in BOOLEAN,
           Create(r, lost) \/ Update(r, lost) \/ Delete(r, lost)
    PROVE  Implements
  <1> DEFINE u == run[r]
             w == [u EXCEPT !.effects = @ + 1]
             v == IF lost THEN Failed(w) ELSE Exit(w, TRUE)
             q == Tasks[r].req
  <1>1. u.step = "apply" /\ Effective(r, lost)
    BY DEF Create, Update, Delete
  <1>2. ~Idle(r)
    BY <1>1 DEF Idle
  <1>3. u \in RunState /\ RightSoFar(u) /\ LookupInv(u) /\ TypeOK /\ Alone(r)
        /\ live \subseteq DOMAIN object
    BY <1>2, Looking
  <1>4. w \in RunState /\ w.req = u.req
    <2>1. u.effects + 1 \in Nat
      BY <1>3 DEF RunState
    <2> QED
      BY <1>3, <2>1 DEF RunState
  <1>5. Set(r, v) /\ (lost => Faults)
    BY <1>1 DEF Effective
  <1> HIDE DEF w
  <1>6. v.step = "done"
    BY <1>4, EndSays
  <1>7. \A s \in Runs : Idle(s)'
    <2> HIDE DEF v
    <2>1. run' = [run EXCEPT ![r] = v] /\ run \in [Runs -> RunState]
      BY <1>3, <1>5 DEF Set, TypeOK
    <2> QED
      BY <1>3, <1>6, <2>1 DEF Alone, Idle
  <1>8. \A i \in DOMAIN object' : Tidy(object'[i])
    <2>1. object \in Seq(Object) /\ \A i \in DOMAIN object : Tidy(object[i])
      BY <1>3 DEF TypeOK, SeqInv
    <2>2. /\ \A n \in DOMAIN u.refs : Ascending(u.refs[n])
          /\ \A n \in DOMAIN u.parents : u.parents[n] # NoId
      BY <1>3 DEF RightSoFar, RefsRight, ParentsRight, Lists
    <2>3. CASE Create(r, lost)
      <3> DEFINE o == Wanted(u)
      <3>1. Tidy(o)
        BY <2>2 DEF Tidy, Wanted
      <3>2. object' = Append(object, o) /\ o \in Object
        BY <1>3, <2>3, WantedType DEF Create
      <3> HIDE DEF o
      <3>3. /\ DOMAIN object' = DOMAIN object \cup {Len(object) + 1}
            /\ object'[Len(object) + 1] = o
            /\ \A i \in DOMAIN object : object'[i] = object[i]
        BY <2>1, <3>2
      <3> QED
        BY <2>1, <3>1, <3>3
    <2>4. CASE Update(r, lost)
      <3> DEFINE o == Merged(u.req, u.refs, u.copy)
      <3>1. Found(u) /\ object' = [object EXCEPT ![u.target] = o]
        BY <2>4 DEF Update
      <3>2. u.target \in DOMAIN object /\ u.copy = object[u.target]
        BY <1>1, <1>3, <3>1, Judged DEF LookedUp
      <3>3. o.refs = u.refs /\ o.parents = u.copy.parents
        BY <1>3 DEF Merged, RunState, Object
      <3>4. Tidy(o)
        BY <2>1, <2>2, <3>2, <3>3 DEF Tidy
      <3> HIDE DEF o
      <3> QED
        BY <2>1, <3>1, <3>2, <3>4
    <2>5. CASE Delete(r, lost)
      BY <2>1, <2>5 DEF Delete
    <2> QED
      BY <2>3, <2>4, <2>5
  <1>9. SeqInv'
    BY <1>7, <1>8 DEF SeqInv
  <1>10. /\ ~Ensure!Impossible(q) /\ ~q.check /\ ~Ensure!Satisfied(q) /\ Ensure!Apply(q)
    BY <1>1, CallApplies
  <1>11. Tasks[r].phase = "busy"
    BY <1>2, BusyIs
  <1>12. CASE lost
    <2>1. Tasks' = [Tasks EXCEPT ![r].phase = "idle", ![r].verdict = "failed", ![r].changed = FALSE]
      BY <1>3, <1>4, <1>5, <1>12, FailReports
    <2> HIDE DEF q
    <2>2. Ensure!Break(r)
      BY <1>5, <1>10, <1>11, <1>12, <2>1 DEF Ensure!Break, Ensure!Report, Tasks, q
    <2> QED
      BY <1>9, <2>2 DEF Implements, Ensure!Next
  <1>13. CASE ~lost
    <2>1. Tasks' = [Tasks EXCEPT ![r].phase = "idle", ![r].verdict = "ok", ![r].changed = TRUE]
      BY <1>3, <1>4, <1>5, <1>13, ExitReports
    <2>2. ~Ensure!Satisfied(q) = TRUE
      BY <1>10
    <2>3. Tasks' = [Tasks EXCEPT ![r].phase = "idle", ![r].verdict = "ok",
                                 ![r].changed = ~Ensure!Satisfied(q)]
      BY <2>1, <2>2
    <2> HIDE DEF q
    <2>4. Ensure!Succeed(r)
      BY <1>10, <1>11, <2>3 DEF Ensure!Succeed, Ensure!Report, Tasks, q
    <2> QED
      BY <1>9, <2>4 DEF Implements, Ensure!Next
  <1> QED
    BY <1>12, <1>13

----------------------------------------------------------------------------
(* The theorems.                                                           *)

LEMMA StartsRight ==
    ASSUME TidyStart, Init
    PROVE  SeqInv /\ Ensure!Init
  <1>1. PICK q \in Requests : run = [r \in Runs |-> [Fresh(q, 0) EXCEPT !.step = "idle"]]
    BY RequestsAssumption DEF Init
  <1>2. \A r \in Runs : /\ run[r].step = "idle" /\ run[r].req = q /\ run[r].verdict = "none"
                         /\ run[r].changed = FALSE
    BY <1>1 DEF Fresh
  <1>3. object = Initial /\ live = DOMAIN Initial
    BY DEF Init
  <1>4. \A r \in Runs : Idle(r)
    BY <1>2 DEF Idle
  <1>5. SeqInv
    BY <1>3, <1>4 DEF SeqInv, Tidy, TidyStart
  <1>6. Tasks = [r \in Runs |-> [phase |-> "idle", req |-> q, verdict |-> "none",
                                changed |-> FALSE]]
    BY <1>2, <1>4 DEF Tasks
  <1>7. Ensure!Init
    BY <1>3, <1>6 DEF Ensure!Init, Tasks
  <1> QED
    BY <1>5, <1>7

LEMMA NextImplements ==
    ASSUME OneAfterAnother, ListsByName, IInv, SeqInv, [Next]_vars
    PROVE  Implements
  <1>1. CASE UNCHANGED vars
    <2>1. object' = object /\ live' = live /\ run' = run
      BY <1>1 DEF vars
    <2>2. SeqInv'
      <3>1. \A r \in Runs : RightSoFar(run[r])' <=> RightSoFar(run[r])
        BY <2>1, StoreSame
      <3> QED
        BY <2>1, <3>1 DEF SeqInv, Idle, Tidy
    <2>3. UNCHANGED Ensure!vars
      BY <2>1 DEF Ensure!vars, Idle
    <2> QED
      BY <2>2, <2>3 DEF Implements
  <1>2. ASSUME NEW r \in Runs, \/ \E q \in Requests : Start(r, q)
                              \/ Progress(r)
                              \/ Fault(r)
        PROVE  Implements
    BY <1>2, StartImplements, ArgumentsImplement, LookupImplements, NotFoundImplements,
       FailuresImplement, DoneImplements, CallsImplement DEF Progress
  <1> QED
    BY <1>1, <1>2 DEF Next


LEMMA InitUnique ==
    ASSUME UniqueStart, Init
    PROVE  NamesStayUnique
  BY DEF Init, NamesStayUnique, UniqueStart

\* A name is taken only by a task that did not find it.
LEMMA NextUnique ==
    ASSUME OneAfterAnother, IInv, SeqInv, NamesStayUnique, [Next]_vars, IInv', IdentityKept
    PROVE  NamesStayUnique'
  <1>1. /\ object \in Seq(Object) /\ live \subseteq DOMAIN object /\ live \subseteq Nat \ {0}
        /\ run \in [Runs -> RunState] /\ TypeOK
    BY LiveIds DEF IInv, TypeOK
  <1>2. ASSUME live' \subseteq live
        PROVE  NamesStayUnique'
    BY <1>1, <1>2 DEF NamesStayUnique, IdentityKept, SameIdentity
  <1>3. ASSUME NEW r \in Runs, NEW lost \in BOOLEAN, Create(r, lost)
        PROVE  NamesStayUnique'
    <2> DEFINE u == run[r]
               q == u.req
               o == Wanted(u)
               m == Len(object) + 1
    <2>1. /\ u.step = "apply" /\ ~Found(u) /\ object' = Append(object, o)
          /\ live' = live \cup {m}
      BY <1>3 DEF Create
    <2>2. ~Idle(r)
      BY <2>1 DEF Idle
    <2>3. u \in RunState /\ RightSoFar(u) /\ LookupInv(u) /\ q \in Requests
      BY <2>2, Looking DEF RunState
    <2>4. o \in Object /\ o.kind = q.kind /\ o.name = q.name /\ o.parents = u.parents
      BY <2>3, WantedType DEF Wanted
    <2>5. u.parents = Ensure!Owners(q)
      BY <1>1, <2>1, <2>3, OwnersFound
    <2> HIDE DEF o
    <2>6. object'[m] = o /\ \A i \in DOMAIN object : object'[i] = object[i]
      BY <1>1, <2>1, <2>4
    <2> DEFINE S == {i \in live : /\ object[i].kind = q.kind /\ Matches(i, object[i], q.name)
                                  /\ Declared[q.kind].scope # "everywhere" =>
                                        object[i].parents = Ensure!Owners(q)}
    <2>7. S = {}
      <3>1. Ensure!First(S) = 0
        BY <1>1, <2>1, <2>3, Judged, TargetIs DEF LookedUp, Found, NoId
      <3>2. S \subseteq Nat \ {0} /\ S \subseteq Nat
        BY <1>1
      <3> HIDE DEF S
      <3> QED
        BY <3>1, <3>2, FirstIs
    <2>8. \A i \in live : ~ /\ object[i].kind = o.kind /\ object[i].name = o.name
                            /\ Declared[o.kind].scope = "everywhere" \/ object[i].parents = o.parents
      <3> SUFFICES ASSUME NEW i \in live, object[i].kind = o.kind, object[i].name = o.name,
                          Declared[o.kind].scope = "everywhere" \/ object[i].parents = o.parents
                   PROVE  i \in S
        BY <2>7
      <3> QED
        BY <2>4, <2>5 DEF Matches
    <2> HIDE DEF S, m
    <2> SUFFICES ASSUME ~Overlap, NEW i \in live', NEW j \in live',
                        object'[i].kind = object'[j].kind, object'[i].name = object'[j].name,
                        Declared[object'[i].kind].scope = "everywhere"
                        \/ object'[i].parents = object'[j].parents
                 PROVE  i = j
      BY DEF NamesStayUnique
    <2>9. i \in live \cup {m} /\ j \in live \cup {m}
      BY <2>1
    <2>10. CASE i \in live /\ j \in live
      <3>1. object'[i] = object[i] /\ object'[j] = object[j]
        BY <1>1, <2>6, <2>10
      <3> QED
        BY <2>10, <3>1 DEF NamesStayUnique
    <2>11. CASE i \in live /\ j = m
      <3>1. object'[i] = object[i] /\ object'[j] = o
        BY <1>1, <2>6, <2>11
      <3> QED
        BY <2>8, <2>11, <3>1
    <2>12. CASE i = m /\ j \in live
      <3>1. object'[i] = o /\ object'[j] = object[j]
        BY <1>1, <2>6, <2>12
      <3> QED
        BY <2>8, <2>12, <3>1
    <2> QED
      BY <2>9, <2>10, <2>11, <2>12
  <1>4. ASSUME NEW r \in Runs, LookOnly(r)
        PROVE  live' \subseteq live
    BY <1>4 DEF LookOnly, Start, Validate, SkipRefs, List, ListGone, ReadGone, ReadOther,
         ReadRef, ReadHit, RefsEnd, NotFound, Conflict, Predict, LeaveAlone,
         Prepare, Rejected, Fault, Local
  <1>5. ASSUME NEW r \in Runs, NEW lost \in BOOLEAN, Update(r, lost) \/ Delete(r, lost)
        PROVE  live' \subseteq live
    BY <1>5 DEF Update, Delete
  <1>6. CASE UNCHANGED vars
    BY <1>2, <1>6 DEF vars
  <1>7. CASE Next
    BY <1>2, <1>3, <1>4, <1>5, <1>7 DEF Next, Progress, LookOnly
  <1> QED
    BY <1>6, <1>7

LEMMA Sequential ==
    ASSUME OneAfterAnother, ListsByName, TidyStart
    PROVE  Spec => [](IInv /\ SeqInv)
  <1>1. Init => IInv /\ SeqInv
    BY InitInv, StartsRight
  <1>2. IInv /\ SeqInv /\ [Next]_vars => (IInv /\ SeqInv)'
    BY NextInv, NextImplements DEF Implements
  <1> QED
    BY <1>1, <1>2, PTL DEF Spec

\* Tasks that run one after the other do, each in one step, what EnsureResource
\* promises: the many calls of a run (lists, reads, the mutating call) have the
\* effect, and give the report, that the request calls for on the store as it is.
THEOREM TasksAreAtomic ==
    ASSUME OneAfterAnother, ListsByName, TidyStart
    PROVE  Spec => ImplementsEnsure
  <1>1. Init => Ensure!Init
    BY StartsRight
  <1>2. IInv /\ SeqInv /\ [Next]_vars => [Ensure!Next]_(Ensure!vars)
    BY NextImplements DEF Implements
  <1>3. Spec => [](IInv /\ SeqInv)
    BY Sequential
  <1>4. Spec => Ensure!Spec
    BY <1>1, <1>2, <1>3, PTL DEF Spec, Ensure!Spec
  <1> QED
    BY <1>4 DEF ImplementsEnsure

\* Tasks that run one after the other never give two objects of a kind (of a
\* scope, for a scoped kind) one name, whatever faults and retries there are.
THEOREM NamesAreUnique ==
    ASSUME OneAfterAnother, ListsByName, TidyStart, UniqueStart
    PROVE  Spec => []NamesStayUnique
  <1>1. Init => NamesStayUnique
    BY InitUnique
  <1>2. IInv /\ SeqInv /\ NamesStayUnique /\ IInv' /\ [Next]_vars => NamesStayUnique'
    BY NextInv, NextUnique
  <1>3. Spec => [](IInv /\ SeqInv)
    BY Sequential
  <1> QED
    BY <1>1, <1>2, <1>3, PTL DEF Spec

=============================================================================
