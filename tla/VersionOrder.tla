---------------------------- MODULE VersionOrder ----------------------------
(***************************************************************************)
(* version_ge and what is built on it (roles/hostctl/files/functions.sh):  *)
(* the comparison of two versions part by part, as the loop does it, and   *)
(* the tests versionBelow and versionAbove.  A version is the sequence of  *)
(* its parts; a part is a number, and leading zeros do not count.          *)
(***************************************************************************)
EXTENDS Naturals, Sequences, FiniteSets

CONSTANTS
    Parts,     \* the numbers that parts are
    MaxLength  \* bound: parts of a version

ASSUME VersionAssumption == Parts \subseteq Nat /\ MaxLength \in Nat

VARIABLES
    v1, v2,  \* the versions given
    left1, left2,  \* what is left of them
    result   \* what version_ge returned, Pending until then

versionVars == <<v1, v2, left1, left2, result>>

Pending == 255
Versions == UNION {[1..n -> Parts] : n \in 0..MaxLength}

VersionTypeOK ==
    /\ v1 \in Versions /\ v2 \in Versions /\ left1 \in Versions /\ left2 \in Versions
    /\ result \in {Pending, 0, 10, 11, 20, 21}

VersionInit ==
    /\ v1 \in Versions /\ v2 \in Versions
    /\ left1 = v1 /\ left2 = v2 /\ result = Pending

\* Slip: the leading zeros go first, which leaves nothing of a 0.
SplitStripped ==
    /\ result = Pending /\ (left1 # <<>> \/ left2 # <<>>)
    /\ LET a == IF left1 = <<>> THEN 0 ELSE Head(left1)
           b == IF left2 = <<>> THEN 0 ELSE Head(left2) IN
       /\ result' = CASE a = 0 /\ b # 0 -> 21
                      [] a # 0 /\ b = 0 -> 11
                      [] a # 0 /\ b # 0 /\ a < b -> 20
                      [] a # 0 /\ b # 0 /\ a > b -> 10
                      [] OTHER -> Pending
       /\ left1' = IF left1 = <<>> THEN left1 ELSE Tail(left1)
       /\ left2' = IF left2 = <<>> THEN left2 ELSE Tail(left2)
    /\ UNCHANGED <<v1, v2>>

\* One round of the loop: the next parts, and what follows from them.
Split ==
    /\ result = Pending /\ (left1 # <<>> \/ left2 # <<>>)
    /\ IF left1 = <<>> THEN result' = 21 /\ UNCHANGED <<left1, left2>>
       ELSE IF left2 = <<>> THEN result' = 11 /\ UNCHANGED <<left1, left2>>
       ELSE /\ result' = CASE Head(left1) < Head(left2) -> 20
                           [] Head(left1) > Head(left2) -> 10
                           [] OTHER -> Pending
            /\ left1' = Tail(left1) /\ left2' = Tail(left2)
    /\ UNCHANGED <<v1, v2>>

\* "version strings are both empty & no differences found"
Same ==
    /\ result = Pending /\ left1 = <<>> /\ left2 = <<>>
    /\ result' = 0
    /\ UNCHANGED <<v1, v2, left1, left2>>

VersionNext == Split \/ Same

VersionSpec == VersionInit /\ [][VersionNext]_versionVars

\* versionBelow: ">"; versionAbove: "=<{".
Below == {10}
Above == {0, 20, 21}

----------------------------------------------------------------------------
(* Correctness.                                                            *)

IsPrefix(u, v) == Len(u) =< Len(v) /\ \A n \in DOMAIN u : u[n] = v[n]

DiffersAt ==
    CHOOSE k \in DOMAIN v1 : v1[k] # v2[k] /\ \A m \in 1..k - 1 : v1[m] = v2[m]

\* What v has beyond its first n parts counts as nothing where missing parts are zeros.
OnlyZeros(v, n) == \A k \in n + 1..Len(v) : v[k] = 0

\* The first part that differs decides, the same versions are equal, and one that extends
\* another is never the lower of the two: whether it includes it, is above it or, with
\* nothing but zeros, equals it is left open here (see MissingPartsAreZero).  So a version
\* that is neither below the reference nor equal or above is one that the reference extends.
ResultIsTheOrder ==
    result # Pending =>
        /\ IF v1 = v2 THEN result = 0
           ELSE IF IsPrefix(v1, v2)
           THEN result \in {20, 21} \/ (result = 0 /\ OnlyZeros(v2, Len(v1)))
           ELSE IF IsPrefix(v2, v1)
           THEN result \in {10, 11} \/ (result = 0 /\ OnlyZeros(v1, Len(v2)))
           ELSE result = IF v1[DiffersAt] < v2[DiffersAt] THEN 20 ELSE 10
        /\ result \notin Below \cup Above => v1 # v2 /\ IsPrefix(v2, v1)

Padded(v) == [n \in 1..MaxLength |-> IF n \in DOMAIN v THEN v[n] ELSE 0]

\* "Missing .<number>s on the end of a version are treated as .0", so 1.2 == 1.2.0
\* (functions.sh:691-693).  The code does not keep to it: the longer one includes the other.
MissingPartsAreZero ==
    result # Pending /\ <<>> \notin {v1, v2} /\ Padded(v1) = Padded(v2) => result = 0
=============================================================================
