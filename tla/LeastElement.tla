---------------------------- MODULE LeastElement ----------------------------
(***************************************************************************)
(* Min of the community modules names the least element of a set of        *)
(* naturals: the earliest due point of a Schedule, the first unfinished    *)
(* receipt of a shard.  Max names the greatest one, if there is one.       *)
(***************************************************************************)
EXTENDS Naturals, FiniteSetsExt, WellFoundedInduction, TLAPS

(* Min(S) is a member of S, and no member is smaller.                      *)
LEMMA MinProperty ==
  ASSUME NEW S \in SUBSET Nat, S # {}
  PROVE  Min(S) \in S /\ \A y \in S : Min(S) <= y
<1>. DEFINE R == {ss \in Nat \X Nat : ss[1] < ss[2]}
<1>1. IsWellFoundedOn(R, Nat)
  BY NatLessThanWellFounded, Zenon DEF OpToRel
<1>2. \E x \in S : \A y \in S : ~ (<<y, x>> \in R)
  <2>. HIDE DEF R
  <2>. QED  BY <1>1, WFMin
<1>3. \E x \in S : \A y \in S : x <= y
  <2>1. PICK x \in S : \A y \in S : ~ (<<y, x>> \in R)
    BY <1>2
  <2>2. ASSUME NEW y \in S PROVE x <= y
    <3>1. <<y, x>> \in Nat \X Nat /\ <<y, x>>[1] = y /\ <<y, x>>[2] = x
      OBVIOUS
    <3>2. ~ (y < x)
      BY <2>1, <3>1
    <3>3. x \in Nat /\ y \in Nat
      OBVIOUS
    <3>. QED  BY <3>2, <3>3
  <2>. QED  BY <2>2
<1>. QED  BY <1>3 DEF Min

(* Max(S) is a member of S, and no member is greater, if S is bounded.     *)
LEMMA MaxProperty ==
  ASSUME NEW S \in SUBSET Nat, S # {}, NEW n \in Nat, \A u \in S : u <= n
  PROVE  Max(S) \in S /\ \A u \in S : u <= Max(S)
<1>. DEFINE above == {b \in Nat : \A u \in S : u <= b}
<1>1. above \in SUBSET Nat /\ above # {}
  OBVIOUS
<1>2. Min(above) \in above /\ \A b \in above : Min(above) <= b
  <2>. HIDE DEF above
  <2>. QED  BY <1>1, MinProperty
<1>3. PICK b \in above : \A c \in above : b <= c
  BY <1>2
<1>4. b \in S
  <2>. SUFFICES ASSUME b \notin S PROVE FALSE
    OBVIOUS
  <2>1. \A u \in S : u < b
    BY <1>3
  <2>2. b \in Nat /\ b - 1 \in Nat
    <3>1. PICK u \in S : u < b
      BY <2>1
    <3>2. u \in Nat /\ b \in Nat
      BY <1>3
    <3>. QED  BY <3>1, <3>2
  <2>3. b - 1 \in above
    <3>1. \A u \in S : u \in Nat /\ u <= b - 1
      BY <2>1, <2>2
    <3>. QED  BY <2>2, <3>1
  <2>. QED  BY <1>3, <2>2, <2>3
<1>5. \E x \in S : \A y \in S : x >= y
  BY <1>3, <1>4
<1>. QED  BY <1>5 DEF Max
=============================================================================
