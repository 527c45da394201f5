--------------------------- MODULE Schedule_proofs ---------------------------
(***************************************************************************)
(* Proofs about Schedule, for any number of schedulers, any crons and any  *)
(* bounds: a planned point becomes at most one Execution, what the policy  *)
(* skip_while_busy accepts never runs into other planned work, and while   *)
(* the clock is not set back the audit trail is exact: every point the     *)
(* cursor has passed is recorded, none twice, none that it has not passed. *)
(*                                                                         *)
(* The audit trail rests on one fact about the policies: whatever a tick   *)
(* finds, it records the points ahead of the cursor up to the new cursor,  *)
(* cut into ranges without gaps, which their cron rebuilds.                *)
(***************************************************************************)
EXTENDS Schedule, LeastElement, FiniteSetTheorems, SequenceTheorems, TLAPS

-----------------------------------------------------------------------------
(* Division and the planned points.                                        *)

(* Dividing by a period leaves a remainder below it.                       *)
LEMMA Division ==
    ASSUME NEW c \in Nat \ {0}, NEW t \in Nat
    PROVE  t \div c \in Nat /\ (t \div c) * c <= t /\ t < (t \div c + 1) * c
  OBVIOUS

(* A multiple of the period is one.                                        *)
LEMMA Multiple ==
    ASSUME NEW c \in Nat \ {0}, NEW p \in Nat, p % c = 0
    PROVE  p \div c \in Nat /\ p = (p \div c) * c
  OBVIOUS

(* Multiplication is monotonic.                                            *)
LEMMA Products ==
    ASSUME NEW a \in Nat, NEW b \in Nat, NEW c \in Nat, a <= b
    PROVE  a * c <= b * c
  OBVIOUS

(* The next planned point is in the future, at most a period away, and no  *)
(* planned point comes before it.                                          *)
LEMMA NextRun ==
    ASSUME NEW c \in Nat \ {0}, NEW t \in Nat
    PROVE  /\ NextRunAfter(c, t) \in Nat /\ t < NextRunAfter(c, t)
           /\ NextRunAfter(c, t) <= t + c
           /\ \A p \in Nat : p % c = 0 /\ t < p => NextRunAfter(c, t) <= p
<1>1. (t \div c + 1) * c \in Nat /\ t < (t \div c + 1) * c /\ (t \div c + 1) * c <= t + c
  OBVIOUS
<1>2. ASSUME NEW p \in Nat, p % c = 0, t < p PROVE (t \div c + 1) * c <= p
  <2>. DEFINE d == t \div c
              q == p \div c
  <2>1. d \in Nat /\ d * c <= t /\ q \in Nat /\ p = q * c
    BY <1>2, Division, Multiple
  <2>. HIDE DEF d, q
  <2>2. ~ (q <= d)
    <3>. SUFFICES ASSUME q <= d PROVE FALSE
      OBVIOUS
    <3>1. q * c <= d * c
      BY <2>1, Products
    <3>. QED  BY <1>2, <2>1, <3>1
  <2>3. d + 1 <= q /\ d + 1 \in Nat
    BY <2>1, <2>2
  <2>4. (d + 1) * c <= q * c
    BY <2>1, <2>3, Products
  <2>. QED  BY <2>1, <2>4 DEF d
<1>. QED  BY <1>1, <1>2 DEF NextRunAfter

(* A finite set of naturals has an upper bound.                            *)
LEMMA FiniteBound ==
    ASSUME NEW S \in SUBSET Nat, IsFiniteSet(S)
    PROVE  \E n \in Nat : \A x \in S : x <= n
<1>. DEFINE Bound(T) == \E n \in Nat : \A x \in T : x <= n
            Sizes == {k \in Nat : \E T \in SUBSET S : Cardinality(T) = k /\ ~ Bound(T)}
<1>1. ASSUME NEW T \in SUBSET S, NEW x \in T, Bound(T \ {x}) PROVE Bound(T)
  <2>1. PICK n \in Nat : \A y \in T \ {x} : y <= n
    BY <1>1
  <2>2. x \in Nat /\ n + x \in Nat /\ \A y \in T : y <= n + x
    BY <2>1
  <2>. QED  BY <2>2
<1>2. Bound({})
  OBVIOUS
<1>. HIDE DEF Bound
<1>3. Sizes = {}
  <2>. SUFFICES ASSUME Sizes # {} PROVE FALSE
    OBVIOUS
  <2>1. Sizes \in SUBSET Nat
    OBVIOUS
  <2>2. Min(Sizes) \in Sizes /\ \A k \in Sizes : Min(Sizes) <= k
    <3>. HIDE DEF Sizes
    <3>. QED  BY <2>1, MinProperty
  <2>3. PICK k \in Sizes : \A j \in Sizes : k <= j
    BY <2>2
  <2>4. PICK T \in SUBSET S : Cardinality(T) = k /\ ~ Bound(T)
    BY <2>3
  <2>5. PICK x \in T : TRUE
    BY <1>2, <2>4
  <2>6. IsFiniteSet(T)
    BY FS_Subset
  <2>7. Cardinality(T \ {x}) = k - 1 /\ Cardinality(T \ {x}) \in Nat
    BY <2>4, <2>5, <2>6, FS_RemoveElement, FS_CardinalityType
  <2>8. ~ Bound(T \ {x})
    BY <1>1, <2>4, <2>5
  <2>9. k - 1 \in Sizes
    BY <2>7, <2>8
  <2>. QED  BY <2>3, <2>7, <2>9
<1>4. Cardinality(S) \in Nat
  BY FS_CardinalityType
<1>5. Bound(S)
  BY <1>3, <1>4
<1>. QED  BY <1>5 DEF Bound

(* What the model calls a point: the clock's range and a period beyond.    *)
LEMMA PointsType ==
    /\ Points \subseteq Nat /\ 0..MaxTime \subseteq Points
    /\ \A c \in Crons, t \in 0..MaxTime : NextRunAfter(c, t) \in Points
<1>1. Max(Crons) \in Nat /\ \A c \in Crons : c <= Max(Crons)
  <2>1. Crons \in SUBSET Nat /\ Crons # {} /\ IsFiniteSet(Crons)
    BY ConstantsAssumption
  <2>2. \E n \in Nat : \A c \in Crons : c <= n
    BY <2>1, FiniteBound
  <2>. QED  BY <2>1, <2>2, MaxProperty
<1>2. Points \subseteq Nat /\ 0..MaxTime \subseteq Points
  BY <1>1, ConstantsAssumption DEF Points
<1>3. ASSUME NEW c \in Crons, NEW t \in 0..MaxTime PROVE NextRunAfter(c, t) \in Points
  <2>1. c \in Nat \ {0} /\ t \in Nat /\ t <= MaxTime /\ c <= Max(Crons) /\ MaxTime \in Nat
    BY <1>1, ConstantsAssumption
  <2>2. NextRunAfter(c, t) \in Nat /\ NextRunAfter(c, t) <= t + c
    BY <2>1, NextRun
  <2>. QED  BY <1>1, <2>1, <2>2 DEF Points
<1>. QED  BY <1>2, <1>3

-----------------------------------------------------------------------------
(* Sets as sequences.                                                      *)

(* SetToSeq lists every member of a finite set once.                       *)
LEMMA SetToSeqLists ==
    ASSUME NEW S, IsFiniteSet(S)
    PROVE  /\ SetToSeq(S) \in Seq(S) /\ Len(SetToSeq(S)) \in Nat
           /\ \A i, j \in 1..Len(SetToSeq(S)) : SetToSeq(S)[i] = SetToSeq(S)[j] => i = j
           /\ \A x \in S : \E i \in 1..Len(SetToSeq(S)) : SetToSeq(S)[i] = x
<1>. DEFINE n == Cardinality(S)
            f == SetToSeq(S)
<1>1. n \in Nat /\ ExistsBijection(1..n, S)
  BY FS_CardinalityType
<1>2. PICK g \in Bijection(1..n, S) : TRUE
  BY <1>1 DEF ExistsBijection
<1>3. g \in [1..n -> S] /\ IsInjective(g)
  BY <1>2 DEF Bijection, Injection
<1>4. f \in [1..n -> S] /\ IsInjective(f)
  BY <1>3 DEF SetToSeq
<1>. HIDE DEF f
<1>5. f \in Injection(1..n, S)
  BY <1>4 DEF Injection
<1>6. IsFiniteSet(1..n) /\ Cardinality(1..n) = n
  BY <1>1, FS_Interval
<1>7. f \in Surjection(1..n, S)
  BY <1>5, <1>6, FS_Injection
<1>8. \A x \in S : \E i \in 1..n : f[i] = x
  BY <1>7 DEF Surjection
<1>9. f \in Seq(S) /\ Len(f) = n
  <2>1. f = [i \in 1..n |-> f[i]] /\ \A i \in 1..n : f[i] \in S
    BY <1>4
  <2>2. f \in Seq(S)
    BY <1>1, <2>1
  <2>3. Len(f) \in Nat /\ DOMAIN f = 1..Len(f) /\ DOMAIN f = 1..n
    BY <1>4, <2>2, LenProperties
  <2>. QED  BY <1>1, <2>2, <2>3
<1>10. \A i, j \in 1..n : f[i] = f[j] => i = j
  BY <1>4 DEF IsInjective
<1>. QED  BY <1>1, <1>8, <1>9, <1>10 DEF f

-----------------------------------------------------------------------------
(* The points ahead of the cursor, and the ranges that record them.        *)

Outcomes == {"enqueued", "coalesced", "skipped", "expired"}

Reasons == {"accepted", "duplicate", "coalesce_latest", "catchup_age", "catchup_limit",
            "input_invalid", "adapter_busy", "admission_full", "runtime_worker_invalid"}

(* A row that is due at now.                                               *)
Ready(now) == /\ schedule.cron \in Crons /\ schedule.next \in Nat
              /\ now \in 0..MaxTime /\ schedule.next <= now

Ahead(now) == Window(schedule.cron, schedule.next, now)

(* A set of points without gaps.                                           *)
Convex(S, now) ==
    S \subseteq Ahead(now) /\ \A a, b \in S : \A p \in Ahead(now) : a <= p /\ p <= b => p \in S

(* The points up to some point.                                            *)
Initial(S, now) ==
    S \subseteq Ahead(now) /\ \A p \in S : \A q \in Ahead(now) : q <= p => q \in S

(* Records that rebuild the points of S, each of them once.                *)
Covers(records, S) ==
    /\ IsFiniteSet(records) /\ records \subseteq Outcome
    /\ \A r \in records : Cardinality(Rebuild(r)) = r.count /\ Rebuild(r) \subseteq S
    /\ \A r, q \in records : r # q => Rebuild(r) \cap Rebuild(q) = {}
    /\ \A p \in S : \E r \in records : p \in Rebuild(r)

(* The cursor once the points of S have been passed.                       *)
CursorAfter(S, now) ==
    IF Ahead(now) \ S = {} THEN NextRunAfter(schedule.cron, now) ELSE Min(Ahead(now) \ S)

(* The points ahead are times of the clock, finitely many, the cursor the  *)
(* first of them.                                                          *)
LEMMA AheadType ==
    ASSUME NEW now, Ready(now)
    PROVE  /\ Ahead(now) \in SUBSET Nat /\ Ahead(now) \subseteq Points
           /\ IsFiniteSet(Ahead(now)) /\ schedule.next \in Ahead(now)
           /\ \A p : p \in Ahead(now) <=>
                /\ p \in Nat /\ schedule.next <= p /\ p <= now
                /\ p = schedule.next \/ p % schedule.cron = 0
<1>1. \A p : p \in Ahead(now) <=>
                /\ p \in Nat /\ schedule.next <= p /\ p <= now
                /\ p = schedule.next \/ p % schedule.cron = 0
  BY ConstantsAssumption DEF Ready, Ahead, Window
<1>2. Ahead(now) \subseteq 0..MaxTime
  BY <1>1, ConstantsAssumption DEF Ready
<1>3. IsFiniteSet(Ahead(now))
  <2>1. IsFiniteSet(0..MaxTime)
    BY FS_Interval, ConstantsAssumption
  <2>. QED  BY <1>2, <2>1, FS_Subset
<1>4. Ahead(now) \subseteq Points
  BY <1>2, PointsType
<1>5. schedule.next \in Ahead(now)
  BY <1>1 DEF Ready
<1>. QED  BY <1>1, <1>3, <1>4, <1>5

(* _record_outcome: a set of points without gaps is rebuilt from its ends. *)
LEMMA RecordCovers ==
    ASSUME NEW now, Ready(now), NEW S, Convex(S, now), NEW o \in Outcomes, NEW r \in Reasons
    PROVE  Covers(Record(S, o, r), S)
<1>1. CASE S = {}
  BY <1>1, FS_EmptySet DEF Record, Covers
<1>2. CASE S # {}
  <2>. DEFINE rec == [first |-> Min(S), last |-> Max(S), count |-> Cardinality(S),
                      cron |-> schedule.cron, outcome |-> o, reason |-> r]
  <2>1. /\ S \in SUBSET Nat /\ S \subseteq Points /\ S \subseteq Ahead(now) /\ IsFiniteSet(S)
        /\ \A p \in S : p <= now
    BY AheadType, FS_Subset DEF Convex
  <2>2. Min(S) \in S /\ \A p \in S : Min(S) <= p
    BY <1>2, <2>1, MinProperty
  <2>3. Max(S) \in S /\ \A p \in S : p <= Max(S)
    <3>1. now \in Nat
      BY ConstantsAssumption DEF Ready
    <3>. QED  BY <1>2, <2>1, <3>1, MaxProperty
  <2>4. Cardinality(S) \in Nat
    BY <2>1, FS_CardinalityType
  <2>5. rec \in Outcome
    <3>1. schedule.cron \in Crons
      BY DEF Ready
    <3>. QED  BY <2>1, <2>2, <2>3, <2>4, <3>1 DEF Outcome, Outcomes, Reasons
  <2>6. Rebuild(rec) = S
    <3>1. Rebuild(rec) = {p \in Min(S)..Max(S) : p = Min(S) \/ p % schedule.cron = 0}
      BY DEF Rebuild, Window
    <3>2. ASSUME NEW p \in Min(S)..Max(S), p = Min(S) \/ p % schedule.cron = 0
          PROVE  p \in S
      <4>1. CASE p = Min(S)
        BY <2>2, <4>1
      <4>2. CASE p % schedule.cron = 0
        <5>1. /\ Min(S) \in Nat /\ Max(S) \in Nat /\ schedule.next \in Nat /\ now \in Nat
              /\ schedule.next <= Min(S) /\ Max(S) <= now
          <6>1. Min(S) \in Ahead(now) /\ Max(S) \in Ahead(now)
            BY <2>1, <2>2, <2>3
          <6>. QED  BY <6>1, AheadType, ConstantsAssumption DEF Ready
        <5>2. p \in Nat /\ schedule.next <= p /\ p <= now
          BY <5>1
        <5>3. p \in Ahead(now)
          BY <4>2, <5>2, AheadType
        <5>. QED  BY <2>2, <2>3, <5>1, <5>3 DEF Convex
      <4>. QED  BY <3>2, <4>1, <4>2
    <3>3. ASSUME NEW p \in S
          PROVE  p \in Min(S)..Max(S) /\ (p = Min(S) \/ p % schedule.cron = 0)
      <4>1. p \in Nat /\ Min(S) \in Nat /\ Max(S) \in Nat /\ Min(S) <= p /\ p <= Max(S)
        BY <2>1, <2>2, <2>3
      <4>2. p = schedule.next \/ p % schedule.cron = 0
        BY <2>1, AheadType
      <4>3. schedule.next <= Min(S) /\ schedule.next \in Nat
        BY <2>1, <2>2, AheadType DEF Ready
      <4>. QED  BY <4>1, <4>2, <4>3
    <3>. HIDE DEF rec
    <3>. QED  BY <3>1, <3>2, <3>3
  <2>7. Record(S, o, r) = {rec} /\ rec.count = Cardinality(S)
    BY <1>2 DEF Record
  <2>8. IsFiniteSet({rec})
    BY FS_Singleton
  <2>. HIDE DEF rec
  <2>. QED  BY <2>5, <2>6, <2>7, <2>8 DEF Covers
<1>. QED  BY <1>1, <1>2

(* Records of disjoint sets of points together cover both.                 *)
LEMMA CoversJoin ==
    ASSUME NEW A, NEW S, Covers(A, S), NEW B, NEW T, Covers(B, T), S \cap T = {}
    PROVE  Covers(A \cup B, S \cup T)
<1>1. IsFiniteSet(A \cup B)
  BY FS_Union DEF Covers
<1>2. ASSUME NEW r \in A \cup B, NEW q \in A \cup B, r # q
      PROVE  Rebuild(r) \cap Rebuild(q) = {}
  BY <1>2 DEF Covers
<1>. QED  BY <1>1, <1>2 DEF Covers

(* One record for each point.                                              *)
LEMMA EachCovers ==
    ASSUME NEW now, Ready(now), NEW S \in SUBSET Ahead(now), NEW o \in Outcomes, NEW r \in Reasons
    PROVE  Covers(RecordEach(S, o, r), S)
<1>. DEFINE f == [p \in S |-> CHOOSE q : q \in Record({p}, o, r)]
            T == {f[p] : p \in S}
<1>1. ASSUME NEW p \in S PROVE Covers(Record({p}, o, r), {p}) /\ Record({p}, o, r) = {f[p]}
  <2>1. Convex({p}, now)
    <3>1. \A a, b \in {p} : \A x \in Ahead(now) : a <= x /\ x <= b => x \in {p}
      BY AheadType
    <3>. QED  BY <3>1 DEF Convex
  <2>2. \E rec : Record({p}, o, r) = {rec}
    BY DEF Record
  <2>. QED  BY <2>1, <2>2, RecordCovers
<1>2. RecordEach(S, o, r) = T
  <2>1. \A p \in S : Record({p}, o, r) = {f[p]}
    BY <1>1
  <2>. HIDE DEF f
  <2>2. ASSUME NEW x \in RecordEach(S, o, r) PROVE x \in T
    <3>1. PICK p \in S : x \in Record({p}, o, r)
      BY <2>2, Zenon DEF RecordEach
    <3>2. x = f[p]
      BY <2>1, <3>1
    <3>. QED  BY <3>2
  <2>3. ASSUME NEW x \in T PROVE x \in RecordEach(S, o, r)
    <3>1. PICK p \in S : x = f[p]
      BY <2>3
    <3>2. x \in Record({p}, o, r)
      BY <2>1, <3>1
    <3>. QED  BY <3>2, Zenon DEF RecordEach
  <2>. HIDE DEF T
  <2>. QED  BY <2>2, <2>3
<1>3. IsFiniteSet(T)
  <2>1. f \in Surjection(S, T)
    BY DEF Surjection
  <2>2. IsFiniteSet(S)
    BY AheadType, FS_Subset
  <2>. HIDE DEF T, f
  <2>. QED  BY <2>1, <2>2, FS_Surjection
<1>4. \A p \in S : /\ f[p] \in Outcome /\ Cardinality(Rebuild(f[p])) = f[p].count
                   /\ Rebuild(f[p]) = {p}
  <2>. HIDE DEF f
  <2>. SUFFICES ASSUME NEW p \in S
                PROVE  /\ f[p] \in Outcome /\ Cardinality(Rebuild(f[p])) = f[p].count
                       /\ Rebuild(f[p]) = {p}
    OBVIOUS
  <2>1. Covers({f[p]}, {p})
    BY <1>1
  <2>2. /\ {f[p]} \subseteq Outcome /\ Cardinality(Rebuild(f[p])) = f[p].count
        /\ Rebuild(f[p]) \subseteq {p} /\ p \in Rebuild(f[p])
    BY <2>1 DEF Covers
  <2>. QED  BY <2>2
<1>5. \A x \in T : \E p \in S : x = f[p]
  OBVIOUS
<1>6. \A p \in S : f[p] \in T
  OBVIOUS
<1>7. \A x, y \in T : x # y => Rebuild(x) \cap Rebuild(y) = {}
  <2>. HIDE DEF f, T
  <2>. SUFFICES ASSUME NEW x \in T, NEW y \in T, x # y PROVE Rebuild(x) \cap Rebuild(y) = {}
    OBVIOUS
  <2>1. PICK p \in S, q \in S : x = f[p] /\ y = f[q]
    BY <1>5
  <2>. QED  BY <1>4, <2>1
<1>. HIDE DEF f, T
<1>8. \A x \in T : x \in Outcome /\ Cardinality(Rebuild(x)) = x.count /\ Rebuild(x) \subseteq S
  BY <1>4, <1>5
<1>9. \A p \in S : \E x \in T : p \in Rebuild(x)
  BY <1>4, <1>6
<1>. QED  BY <1>2, <1>3, <1>7, <1>8, <1>9 DEF Covers

-----------------------------------------------------------------------------
(* What a tick records.                                                    *)

(* A tick passes an initial part of the points ahead: it records each of   *)
(* them once, accepts none but these and sets the cursor behind them.      *)
Passes(result, now) ==
    \E S : /\ Initial(S, now) /\ Covers(result.records, S)
           /\ result.next = CursorAfter(S, now) /\ result.accepted \subseteq S

(* Everything ahead, and nothing, are initial parts.                       *)
LEMMA Ends ==
    ASSUME NEW now, Ready(now)
    PROVE  Initial(Ahead(now), now) /\ Initial({}, now)
  BY DEF Initial

(* The cursor after everything, and after nothing.                         *)
LEMMA CursorEnds ==
    ASSUME NEW now, Ready(now)
    PROVE  /\ CursorAfter(Ahead(now), now) = NextRunAfter(schedule.cron, now)
           /\ CursorAfter({}, now) = schedule.next
<1>1. CursorAfter(Ahead(now), now) = NextRunAfter(schedule.cron, now)
  BY DEF CursorAfter
<1>2. Ahead(now) \ {} = Ahead(now) /\ Ahead(now) # {} /\ Ahead(now) \in SUBSET Nat
  BY AheadType
<1>3. Min(Ahead(now)) \in Ahead(now) /\ \A p \in Ahead(now) : Min(Ahead(now)) <= p
  BY <1>2, MinProperty
<1>4. Min(Ahead(now)) = schedule.next
  BY <1>3, AheadType DEF Ready
<1>. QED  BY <1>1, <1>2, <1>4 DEF CursorAfter

(* Fewer points come before an earlier one.                                *)
LEMMA FewerBefore ==
    ASSUME NEW S, IsFiniteSet(S), NEW T \in SUBSET S
    PROVE  /\ Cardinality(T) \in Nat /\ Cardinality(S) \in Nat
           /\ Cardinality(T) <= Cardinality(S)
  BY FS_Subset, FS_CardinalityType

(* _due_points: a page is an initial part of what is ahead.                *)
LEMMA PageInitial ==
    ASSUME NEW now, Ready(now)
    PROVE  Initial(DuePoints(schedule.cron, schedule.next, now), now)
<1>. DEFINE before(p) == {q \in Ahead(now) : q < p}
            due == {p \in Ahead(now) : Cardinality(before(p)) < PageSize}
<1>1. DuePoints(schedule.cron, schedule.next, now) = due
  BY DEF DuePoints, Ahead
<1>2. ASSUME NEW p \in due, NEW q \in Ahead(now), q <= p PROVE q \in due
  <2>1. before(q) \subseteq before(p) /\ before(p) \subseteq Ahead(now)
    BY <1>2, AheadType
  <2>2. IsFiniteSet(before(p)) /\ Cardinality(before(p)) < PageSize
    BY <2>1, AheadType, FS_Subset
  <2>. HIDE DEF before
  <2>3. /\ Cardinality(before(q)) \in Nat /\ Cardinality(before(p)) \in Nat
        /\ Cardinality(before(q)) <= Cardinality(before(p))
    BY <2>1, <2>2, FewerBefore
  <2>. QED  BY <2>2, <2>3, ConstantsAssumption
<1>. QED  BY <1>1, <1>2 DEF Initial

(* The points of a page that are too old are an initial part too.          *)
LEMMA OldInitial ==
    ASSUME NEW now, Ready(now), NEW due, Initial(due, now)
    PROVE  Initial(TooOld(due, now), now)
<1>1. now \in Nat /\ MaxAge \in Nat
  BY ConstantsAssumption DEF Ready
<1>. QED  BY <1>1, AheadType DEF Initial, TooOld

(* An initial part has no gaps.                                            *)
LEMMA InitialConvex ==
    ASSUME NEW now, Ready(now), NEW S, Initial(S, now)
    PROVE  Convex(S, now) /\ Convex(Ahead(now) \ S, now)
  BY AheadType DEF Initial, Convex

(* coalesce_latest passes everything or, when the queue is full, nothing.  *)
LEMMA CoalescePasses ==
    ASSUME NEW now, Ready(now), NEW old, Initial(old, now), NEW eligible,
           eligible = Ahead(now) \ old, eligible # {}, NEW valid \in BOOLEAN, NEW room
    PROVE  Passes(CoalesceLatest(now, old, eligible, valid, room), now)
<1>. DEFINE latest == Max(eligible)
            result == CoalesceLatest(now, old, eligible, valid, room)
<1>1. latest \in eligible /\ \A p \in eligible : p <= latest
  <2>1. eligible \in SUBSET Nat /\ now \in Nat /\ \A p \in eligible : p <= now
    BY AheadType, ConstantsAssumption DEF Ready
  <2>. QED  BY <2>1, MaxProperty
<1>. HIDE DEF latest
<1>2. Convex(old, now) /\ Convex(eligible, now)
  BY InitialConvex
<1>3. Convex(eligible \ {latest}, now) /\ Convex({latest}, now)
  BY <1>1, <1>2, AheadType DEF Convex
<1>4. ASSUME NEW o \in Outcomes, NEW r \in Reasons
      PROVE  Covers(Expired(old) \cup Record(eligible \ {latest}, "coalesced", "coalesce_latest")
                      \cup Record({latest}, o, r), Ahead(now))
  <2>1. Covers(Expired(old), old)
    BY <1>2, RecordCovers DEF Expired, Outcomes, Reasons
  <2>2. Covers(Record(eligible \ {latest}, "coalesced", "coalesce_latest"), eligible \ {latest})
    BY <1>3, RecordCovers DEF Outcomes, Reasons
  <2>3. Covers(Record({latest}, o, r), {latest})
    BY <1>3, RecordCovers
  <2>4. Covers(Expired(old) \cup Record(eligible \ {latest}, "coalesced", "coalesce_latest"),
               old \cup (eligible \ {latest}))
    BY <2>1, <2>2, CoversJoin
  <2>5. Covers((Expired(old) \cup Record(eligible \ {latest}, "coalesced", "coalesce_latest"))
                 \cup Record({latest}, o, r), (old \cup (eligible \ {latest})) \cup {latest})
    <3>1. (old \cup (eligible \ {latest})) \cap {latest} = {}
      BY <1>1
    <3>. QED  BY <2>3, <2>4, <3>1, CoversJoin
  <2>6. (old \cup (eligible \ {latest})) \cup {latest} = Ahead(now)
    BY <1>1 DEF Initial
  <2>. QED  BY <2>5, <2>6
<1>5. CASE valid /\ room = 0
  <2>1. result = [records |-> {}, accepted |-> {}, next |-> schedule.next]
    BY <1>5 DEF CoalesceLatest
  <2>2. Covers({}, {})
    BY FS_EmptySet DEF Covers
  <2>3. result.records = {} /\ result.accepted = {} /\ result.next = CursorAfter({}, now)
    BY <2>1, CursorEnds
  <2>. HIDE DEF result
  <2>4. Passes(result, now)
    BY <2>2, <2>3, Ends DEF Passes
  <2>. QED  BY <2>4 DEF result
<1>6. CASE ~ (valid /\ room = 0)
  <2>1. \E o \in Outcomes, r \in Reasons :
           result.records = Expired(old)
                              \cup Record(eligible \ {latest}, "coalesced", "coalesce_latest")
                              \cup Record({latest}, o, r)
    <3>1. CASE ~ valid
      <4>1. result.records = Expired(old)
                \cup Record(eligible \ {latest}, "coalesced", "coalesce_latest")
                \cup Record({latest}, "skipped", "input_invalid")
        BY <3>1 DEF CoalesceLatest, latest
      <4>. QED  BY <4>1 DEF Outcomes, Reasons
    <3>2. CASE valid
      <4>1. result.records = Expired(old)
                \cup Record(eligible \ {latest}, "coalesced", "coalesce_latest")
                \cup Record({latest}, "enqueued",
                            IF Fresh(latest) THEN "accepted" ELSE "duplicate")
        BY <1>6, <3>2 DEF CoalesceLatest, latest
      <4>2. (IF Fresh(latest) THEN "accepted" ELSE "duplicate") \in Reasons
            /\ "enqueued" \in Outcomes
        BY DEF Outcomes, Reasons
      <4>. QED  BY <4>1, <4>2
    <3>. QED  BY <3>1, <3>2
  <2>2. result.accepted \subseteq {latest} /\ result.next = NextRunAfter(schedule.cron, now)
    BY <1>6 DEF CoalesceLatest, latest
  <2>. HIDE DEF result
  <2>3. Passes(result, now)
    <3>1. result.accepted \subseteq Ahead(now)
      BY <1>1, <2>2
    <3>. QED  BY <1>4, <2>1, <2>2, <3>1, CursorEnds, Ends DEF Passes
  <2>. QED  BY <2>3 DEF result
<1>. QED  BY <1>5, <1>6

(* skip_while_busy passes everything.                                      *)
LEMMA SkipPasses ==
    ASSUME NEW now, Ready(now), NEW old, Initial(old, now), NEW eligible,
           eligible = Ahead(now) \ old, NEW valid, NEW room
    PROVE  Passes(SkipWhileBusy(now, old, eligible, valid, room), now)
<1>. DEFINE new == {p \in eligible : Fresh(p)}
            chosen == IF new = {} THEN {} ELSE {Min(new)}
            known == {p \in eligible : \A q \in new : p < q}
            tail == eligible \ (known \cup chosen)
            parts == Record(known, "skipped", "duplicate")
                       \cup Record(chosen, "enqueued", "accepted")
                       \cup Record(tail, "skipped", "adapter_busy")
            result == SkipWhileBusy(now, old, eligible, valid, room)
<1>1. Convex(old, now) /\ Convex(eligible, now) /\ eligible \in SUBSET Nat
  BY InitialConvex, AheadType
<1>2. chosen \subseteq new /\ \A p \in new, q \in chosen : q <= p
  <2>1. new \in SUBSET Nat
    BY <1>1
  <2>. HIDE DEF new
  <2>. QED  BY <2>1, MinProperty
<1>3. new \subseteq eligible /\ (new = {} => chosen = {}) /\ (new # {} => chosen # {})
      /\ \A p, q \in chosen : p = q
  OBVIOUS
<1>4. \A p : p \in known <=> p \in eligible /\ \A q \in new : p < q
  OBVIOUS
<1>5. result.records = Expired(old) \cup
          (IF Busy THEN Record(eligible, "skipped", "adapter_busy")
           ELSE IF ~ valid THEN Record(eligible, "skipped", "input_invalid")
           ELSE IF room = 0 THEN Record(eligible, "skipped", "admission_full")
           ELSE parts)
      /\ result.accepted \subseteq chosen
      /\ result.next = NextRunAfter(schedule.cron, now)
  BY DEF SkipWhileBusy
<1>6. known \cap chosen = {} /\ known \subseteq eligible /\ chosen \subseteq eligible
  BY <1>1, <1>2, <1>3, <1>4
<1>. HIDE DEF new, chosen, known
<1>7. \A p \in known, q \in chosen : p < q
  BY <1>2, <1>4
<1>8. ASSUME NEW p \in eligible, NEW q \in known, p <= q PROVE p \in known
  <2>1. \A x \in new : x \in Nat /\ q < x
    BY <1>1, <1>3, <1>4
  <2>2. \A x \in new : p < x
    BY <1>1, <1>8, <2>1, <1>4
  <2>. QED  BY <1>4, <2>2
<1>9. ASSUME NEW p \in tail PROVE \E q \in chosen : q < p
  <2>1. p \in eligible /\ p \notin known /\ p \notin chosen
    OBVIOUS
  <2>2. PICK x \in new : ~ (p < x)
    BY <1>4, <2>1
  <2>3. PICK q \in chosen : q <= x
    BY <1>2, <1>3, <2>2
  <2>4. p \in Nat /\ x \in Nat /\ q \in Nat /\ p # q
    BY <1>1, <1>2, <1>3, <2>1, <2>2, <2>3
  <2>. QED  BY <2>2, <2>3, <2>4
<1>10. Convex(known, now)
  <2>. SUFFICES ASSUME NEW a \in known, NEW b \in known, NEW p \in Ahead(now), a <= p, p <= b
                PROVE  p \in known
    BY <1>1, <1>6 DEF Convex
  <2>1. p \in eligible
    BY <1>1, <1>6 DEF Convex
  <2>. QED  BY <1>8, <2>1
<1>11. Convex(chosen, now)
  <2>. SUFFICES ASSUME NEW a \in chosen, NEW b \in chosen, NEW p \in Ahead(now), a <= p, p <= b
                PROVE  p \in chosen
    BY <1>1, <1>6 DEF Convex
  <2>1. a = b /\ a \in Nat /\ p \in Nat
    BY <1>1, <1>3, <1>6, AheadType
  <2>. QED  BY <2>1
<1>12. Convex(tail, now)
  <2>. SUFFICES ASSUME NEW a \in tail, NEW b \in tail, NEW p \in Ahead(now), a <= p, p <= b
                PROVE  p \in tail
    BY <1>1 DEF Convex
  <2>1. p \in eligible
    BY <1>1 DEF Convex
  <2>2. PICK q \in chosen : q < a
    BY <1>9
  <2>3. q \in Nat /\ a \in Nat /\ p \in Nat
    BY <1>1, <1>6, <2>1
  <2>4. p \notin chosen
    BY <1>3, <2>2, <2>3
  <2>5. p \notin known
    BY <1>7, <2>2, <2>3
  <2>. QED  BY <2>1, <2>4, <2>5
<1>13. Covers(parts, eligible)
  <2>1. /\ Covers(Record(known, "skipped", "duplicate"), known)
        /\ Covers(Record(chosen, "enqueued", "accepted"), chosen)
        /\ Covers(Record(tail, "skipped", "adapter_busy"), tail)
    <3>. HIDE DEF tail
    <3>. QED  BY <1>10, <1>11, <1>12, RecordCovers DEF Outcomes, Reasons
  <2>2. Covers(Record(known, "skipped", "duplicate")
                 \cup Record(chosen, "enqueued", "accepted"), known \cup chosen)
    BY <1>6, <2>1, CoversJoin
  <2>3. Covers(parts, (known \cup chosen) \cup tail)
    <3>1. (known \cup chosen) \cap tail = {}
      OBVIOUS
    <3>. HIDE DEF tail
    <3>. QED  BY <2>1, <2>2, <3>1, CoversJoin
  <2>4. (known \cup chosen) \cup tail = eligible
    BY <1>6
  <2>. QED  BY <2>3, <2>4
<1>. HIDE DEF parts, result
<1>14. Covers(result.records, Ahead(now))
  <2>1. Covers(Expired(old), old)
    BY <1>1, RecordCovers DEF Expired, Outcomes, Reasons
  <2>2. /\ Covers(Record(eligible, "skipped", "adapter_busy"), eligible)
        /\ Covers(Record(eligible, "skipped", "input_invalid"), eligible)
        /\ Covers(Record(eligible, "skipped", "admission_full"), eligible)
    BY <1>1, RecordCovers DEF Outcomes, Reasons
  <2>3. PICK recs : Covers(recs, eligible) /\ result.records = Expired(old) \cup recs
    BY <1>5, <1>13, <2>2
  <2>4. Covers(Expired(old) \cup recs, old \cup eligible)
    BY <2>1, <2>3, CoversJoin
  <2>5. old \cup eligible = Ahead(now)
    BY DEF Initial
  <2>. QED  BY <2>3, <2>4, <2>5
<1>15. Passes(result, now)
  <2>1. result.accepted \subseteq Ahead(now)
    BY <1>5, <1>6
  <2>. QED  BY <1>5, <1>14, <2>1, CursorEnds, Ends DEF Passes
<1>. QED  BY <1>15 DEF result

(* queue_every_occurrence passes the points up to the first without room.  *)
LEMMA QueuePasses ==
    ASSUME NEW now, Ready(now), NEW old, Initial(old, now), NEW eligible,
           eligible = Ahead(now) \ old, NEW valid \in BOOLEAN, NEW room \in Nat
    PROVE  Passes(QueueEveryOccurrence(now, old, eligible, valid, room), now)
<1>. DEFINE after(p) == {q \in eligible : q > p}
            queue == {p \in eligible : Cardinality(after(p)) < MaxCatchup}
            before(p) == {q \in queue : q < p /\ Fresh(q)}
            unaccepted == {p \in queue : valid /\ Cardinality(before(p)) >= room}
            done == queue \ unaccepted
            accepted == {p \in done : valid /\ Fresh(p)}
            S == Ahead(now) \ unaccepted
            result == QueueEveryOccurrence(now, old, eligible, valid, room)
<1>1. /\ result.records = Expired(old)
             \cup Record(eligible \ queue, "expired", "catchup_limit")
             \cup RecordEach(accepted, "enqueued", "accepted")
             \cup RecordEach(done \ accepted, "skipped",
                             IF valid THEN "duplicate" ELSE "input_invalid")
      /\ result.accepted = accepted
      /\ result.next = IF unaccepted = {} THEN NextRunAfter(schedule.cron, now)
                       ELSE Min(unaccepted)
  BY DEF QueueEveryOccurrence
<1>2. /\ Convex(old, now) /\ Convex(eligible, now) /\ eligible \in SUBSET Nat
      /\ IsFiniteSet(eligible)
  BY InitialConvex, AheadType, FS_Subset
<1>3. ASSUME NEW p \in queue, NEW q \in eligible, p <= q PROVE q \in queue
  <2>1. after(q) \subseteq after(p) /\ after(p) \subseteq eligible
    BY <1>2, <1>3
  <2>2. IsFiniteSet(after(p)) /\ Cardinality(after(p)) < MaxCatchup
    BY <1>2, <2>1, FS_Subset
  <2>. HIDE DEF after
  <2>3. /\ Cardinality(after(q)) \in Nat /\ Cardinality(after(p)) \in Nat
        /\ Cardinality(after(q)) <= Cardinality(after(p))
    BY <2>1, <2>2, FewerBefore
  <2>. QED  BY <2>2, <2>3, ConstantsAssumption
<1>4. queue \subseteq eligible /\ unaccepted \subseteq queue /\ accepted \subseteq done
  OBVIOUS
<1>. HIDE DEF queue
<1>5. ASSUME NEW p \in unaccepted, NEW q \in queue, p <= q PROVE q \in unaccepted
  <2>0. p \in queue /\ valid /\ Cardinality(before(p)) >= room
    BY <1>5
  <2>1. before(p) \subseteq before(q) /\ before(q) \subseteq queue
    <3>1. \A u \in queue : u < p => u < q
      BY <1>2, <1>4, <1>5, <2>0
    <3>. QED  BY <3>1
  <2>2. IsFiniteSet(before(q))
    BY <1>2, <1>4, <2>1, FS_Subset
  <2>. HIDE DEF before
  <2>3. /\ Cardinality(before(q)) \in Nat /\ Cardinality(before(p)) \in Nat
        /\ Cardinality(before(p)) <= Cardinality(before(q))
    BY <2>1, <2>2, FewerBefore
  <2>4. Cardinality(before(q)) >= room
    BY <2>0, <2>3
  <2>. QED  BY <2>0, <2>4 DEF before
<1>. HIDE DEF unaccepted, accepted
<1>6. Initial(S, now)
  <2>. SUFFICES ASSUME NEW p \in S, NEW q \in Ahead(now), q <= p PROVE q \notin unaccepted
    BY DEF Initial
  <2>. SUFFICES ASSUME q \in unaccepted PROVE FALSE
    OBVIOUS
  <2>1. q \in queue /\ q \in eligible /\ p \in Ahead(now)
    BY <1>4
  <2>2. p \in eligible
    BY <2>1 DEF Initial
  <2>. QED  BY <1>3, <1>5, <2>1, <2>2
<1>7. Covers(result.records, S)
  <2>1. Covers(Expired(old), old)
    BY <1>2, RecordCovers DEF Expired, Outcomes, Reasons
  <2>2. Covers(Record(eligible \ queue, "expired", "catchup_limit"), eligible \ queue)
    <3>1. Convex(eligible \ queue, now)
      <4>. SUFFICES ASSUME NEW a \in eligible \ queue, NEW b \in eligible \ queue,
                           NEW p \in Ahead(now), a <= p, p <= b
                    PROVE  p \in eligible /\ p \notin queue
        BY <1>2 DEF Convex
      <4>1. p \in eligible
        BY <1>2 DEF Convex
      <4>. QED  BY <1>3, <4>1
    <3>. QED  BY <3>1, RecordCovers DEF Outcomes, Reasons
  <2>3. Covers(RecordEach(accepted, "enqueued", "accepted"), accepted)
    <3>1. accepted \in SUBSET Ahead(now)
      BY <1>4
    <3>. QED  BY <3>1, EachCovers DEF Outcomes, Reasons
  <2>4. Covers(RecordEach(done \ accepted, "skipped",
                          IF valid THEN "duplicate" ELSE "input_invalid"), done \ accepted)
    <3>1. done \ accepted \in SUBSET Ahead(now)
      BY <1>4
    <3>2. (IF valid THEN "duplicate" ELSE "input_invalid") \in Reasons /\ "skipped" \in Outcomes
      BY DEF Outcomes, Reasons
    <3>. HIDE DEF done
    <3>. QED  BY <3>1, <3>2, EachCovers
  <2>5. Covers(Expired(old) \cup Record(eligible \ queue, "expired", "catchup_limit"),
               old \cup (eligible \ queue))
    BY <2>1, <2>2, CoversJoin
  <2>6. Covers((Expired(old) \cup Record(eligible \ queue, "expired", "catchup_limit"))
                 \cup RecordEach(accepted, "enqueued", "accepted"),
               (old \cup (eligible \ queue)) \cup accepted)
    <3>1. (old \cup (eligible \ queue)) \cap accepted = {}
      BY <1>4
    <3>. QED  BY <2>3, <2>5, <3>1, CoversJoin
  <2>7. Covers(result.records,
               ((old \cup (eligible \ queue)) \cup accepted) \cup (done \ accepted))
    <3>1. ((old \cup (eligible \ queue)) \cup accepted) \cap (done \ accepted) = {}
      BY <1>4
    <3>. HIDE DEF done, result
    <3>2. result.records =
            ((Expired(old) \cup Record(eligible \ queue, "expired", "catchup_limit"))
               \cup RecordEach(accepted, "enqueued", "accepted"))
               \cup RecordEach(done \ accepted, "skipped",
                               IF valid THEN "duplicate" ELSE "input_invalid")
      BY <1>1
    <3>3. Covers(((Expired(old) \cup Record(eligible \ queue, "expired", "catchup_limit"))
                    \cup RecordEach(accepted, "enqueued", "accepted"))
                    \cup RecordEach(done \ accepted, "skipped",
                                    IF valid THEN "duplicate" ELSE "input_invalid"),
                 ((old \cup (eligible \ queue)) \cup accepted) \cup (done \ accepted))
      BY <2>4, <2>6, <3>1, CoversJoin
    <3>. QED  BY <3>2, <3>3
  <2>8. ((old \cup (eligible \ queue)) \cup accepted) \cup (done \ accepted) = S
    BY <1>4 DEF Initial
  <2>. HIDE DEF S, result, done
  <2>. QED  BY <2>7, <2>8
<1>8. result.next = CursorAfter(S, now)
  <2>1. Ahead(now) \ S = unaccepted
    BY <1>4
  <2>. QED  BY <1>1, <2>1 DEF CursorAfter
<1>9. result.accepted \subseteq S
  BY <1>1, <1>4
<1>. HIDE DEF S, result
<1>10. Passes(result, now)
  BY <1>6, <1>7, <1>8, <1>9 DEF Passes
<1>. QED  BY <1>10 DEF result

(* A row that cannot run passes a page.                                    *)
LEMMA StructuralPasses ==
    ASSUME NEW now, Ready(now)
    PROVE  Passes(Structural(now, DuePoints(schedule.cron, schedule.next, now)), now)
<1>. DEFINE due == DuePoints(schedule.cron, schedule.next, now)
            result == Structural(now, due)
<1>1. Initial(due, now)
  BY PageInitial
<1>. HIDE DEF due
<1>2. Covers(Record(due, "skipped", "runtime_worker_invalid"), due)
  BY <1>1, InitialConvex, RecordCovers DEF Outcomes, Reasons
<1>3. /\ result.records = Record(due, "skipped", "runtime_worker_invalid")
      /\ result.accepted = {} /\ result.next = CursorAfter(due, now)
  BY DEF Structural, CursorAfter, Ahead
<1>. HIDE DEF result
<1>4. Passes(result, now)
  BY <1>1, <1>2, <1>3 DEF Passes
<1>. QED  BY <1>4 DEF result, due

(* The policies together pass an initial part.                             *)
LEMMA RabbitmqPasses ==
    ASSUME NEW now, Ready(now), NEW valid \in BOOLEAN, NEW room \in Nat
    PROVE  Passes(RabbitmqDue(now, DuePoints(schedule.cron, schedule.next, now), valid, room),
                  now)
<1>. DEFINE due == DuePoints(schedule.cron, schedule.next, now)
            old == TooOld(due, now)
            eligible == due \ old
            rest == Ahead(now) \ due
            result == RabbitmqDue(now, due, valid, room)
<1>1. Initial(due, now)
  BY PageInitial
<1>. HIDE DEF due
<1>2. Initial(old, now) /\ old \subseteq due
  BY <1>1, OldInitial DEF TooOld
<1>3. result =
        IF eligible = {}
        THEN [records |-> Expired(old), accepted |-> {},
              next |-> IF rest = {} THEN NextRunAfter(schedule.cron, now) ELSE Min(rest)]
        ELSE IF rest # {}
        THEN [records |-> Expired(old), accepted |-> {}, next |-> Min(eligible)]
        ELSE CASE schedule.policy = "coalesce_latest" ->
                    CoalesceLatest(now, old, eligible, valid, room)
               [] schedule.policy = "skip_while_busy" ->
                    SkipWhileBusy(now, old, eligible, valid, room)
               [] OTHER ->
                    QueueEveryOccurrence(now, old, eligible, valid, room)
  BY DEF RabbitmqDue, Ahead
<1>. HIDE DEF old
<1>4. Covers(Expired(old), old)
  BY <1>2, InitialConvex, RecordCovers DEF Expired, Outcomes, Reasons
<1>5. CASE eligible = {}
  <2>1. due = old
    BY <1>2, <1>5
  <2>2. result.records = Expired(old) /\ result.accepted = {}
        /\ result.next = CursorAfter(old, now)
    <3>. HIDE DEF result
    <3>. QED  BY <1>3, <1>5, <2>1 DEF CursorAfter
  <2>. HIDE DEF result
  <2>3. Passes(result, now)
    BY <1>2, <1>4, <2>2 DEF Passes
  <2>. QED  BY <2>3 DEF result, due
<1>6. CASE eligible # {} /\ rest # {}
  <2>1. eligible \in SUBSET Nat /\ eligible \subseteq Ahead(now) \ old
    BY <1>1, AheadType DEF Initial
  <2>2. Min(eligible) \in eligible /\ \A p \in eligible : Min(eligible) <= p
    <3>. HIDE DEF eligible
    <3>. QED  BY <1>6, <2>1, MinProperty
  <2>3. Min(Ahead(now) \ old) = Min(eligible)
    <3>1. Ahead(now) \ old \in SUBSET Nat /\ Ahead(now) \ old # {}
      BY <1>6, <2>1, AheadType
    <3>2. Min(Ahead(now) \ old) \in Ahead(now) \ old
          /\ \A p \in Ahead(now) \ old : Min(Ahead(now) \ old) <= p
      BY <3>1, MinProperty
    <3>3. Min(Ahead(now) \ old) <= Min(eligible)
      BY <2>1, <2>2, <3>2
    <3>4. Min(Ahead(now) \ old) \in eligible
      <4>1. Min(eligible) \in due
        BY <2>2
      <4>2. Min(Ahead(now) \ old) \in due
        BY <1>1, <3>2, <3>3, <4>1 DEF Initial
      <4>. QED  BY <3>2, <4>2
    <3>5. Min(eligible) <= Min(Ahead(now) \ old)
      BY <2>2, <3>4
    <3>6. Min(eligible) \in Nat /\ Min(Ahead(now) \ old) \in Nat
      BY <2>1, <2>2, <3>1, <3>2
    <3>. QED  BY <3>3, <3>5, <3>6
  <2>4. result.records = Expired(old) /\ result.accepted = {}
        /\ result.next = CursorAfter(old, now)
    <3>1. Ahead(now) \ old # {}
      BY <1>6, <2>1
    <3>2. CursorAfter(old, now) = Min(eligible)
      BY <2>3, <3>1 DEF CursorAfter
    <3>. HIDE DEF result, eligible, rest
    <3>. QED  BY <1>3, <1>6, <3>2
  <2>. HIDE DEF result
  <2>5. Passes(result, now)
    BY <1>2, <1>4, <2>4 DEF Passes
  <2>. QED  BY <2>5 DEF result, due
<1>7. CASE eligible # {} /\ rest = {}
  <2>1. eligible = Ahead(now) \ old
    BY <1>1, <1>7 DEF Initial
  <2>. HIDE DEF eligible, rest
  <2>2. /\ Passes(CoalesceLatest(now, old, eligible, valid, room), now)
        /\ Passes(SkipWhileBusy(now, old, eligible, valid, room), now)
        /\ Passes(QueueEveryOccurrence(now, old, eligible, valid, room), now)
    BY <1>2, <1>7, <2>1, CoalescePasses, SkipPasses, QueuePasses
  <2>. HIDE DEF result
  <2>3. Passes(result, now)
    BY <1>3, <1>7, <2>2
  <2>. QED  BY <2>3 DEF result, due
<1>. QED  BY <1>5, <1>6, <1>7

(* What passing comes to: the points before the new cursor are recorded,   *)
(* and only those; the accepted ones are among them.                       *)
LEMMA Passed ==
    ASSUME NEW now, Ready(now), NEW result, Passes(result, now)
    PROVE  /\ result.next \in Points /\ result.next \in Nat /\ schedule.next <= result.next
           /\ IsFiniteSet(result.records) /\ result.records \subseteq Outcome
           /\ \A r \in result.records :
                /\ Cardinality(Rebuild(r)) = r.count
                /\ \A p \in Rebuild(r) : /\ p \in Nat /\ schedule.next <= p
                                         /\ p <= now /\ p < result.next
           /\ \A r, q \in result.records : r # q => Rebuild(r) \cap Rebuild(q) = {}
           /\ \A p \in Window(schedule.cron, schedule.next, result.next - 1) :
                \E r \in result.records : p \in Rebuild(r)
           /\ result.accepted \subseteq Points
           /\ \A p \in result.accepted : /\ p \in Nat /\ schedule.next <= p
                                         /\ p <= now /\ p < result.next
<1>. DEFINE c == schedule.cron
<1>1. PICK S : /\ Initial(S, now) /\ Covers(result.records, S)
               /\ result.next = CursorAfter(S, now) /\ result.accepted \subseteq S
  BY DEF Passes
<1>2. /\ c \in Nat \ {0} /\ c \in Crons /\ now \in Nat /\ now \in 0..MaxTime
      /\ schedule.next \in Nat /\ schedule.next <= now
  <2>1. /\ c \in Crons /\ now \in 0..MaxTime
        /\ schedule.next \in Nat /\ schedule.next <= now
    BY DEF Ready
  <2>2. Crons \subseteq Nat \ {0} /\ MaxTime \in Nat
    BY ConstantsAssumption
  <2>. HIDE DEF c
  <2>. QED  BY <2>1, <2>2
<1>3. /\ NextRunAfter(c, now) \in Points /\ NextRunAfter(c, now) \in Nat
      /\ now < NextRunAfter(c, now)
      /\ \A p \in Nat : p % c = 0 /\ now < p => NextRunAfter(c, now) <= p
  BY <1>2, NextRun, PointsType
<1>4. /\ result.next \in Points /\ result.next \in Nat /\ schedule.next <= result.next
      /\ \A p \in S : p < result.next
      /\ \A p \in Ahead(now) : p < result.next => p \in S
      /\ \A p \in Nat : p % c = 0 /\ p < result.next => p <= now
      /\ result.next = schedule.next \/ result.next > schedule.next
  <2>1. CASE Ahead(now) \ S = {}
    <3>1. result.next = NextRunAfter(c, now)
      BY <1>1, <2>1 DEF CursorAfter
    <3>2. \A p \in S : p <= now /\ p \in Nat
      BY <1>1, AheadType DEF Initial
    <3>3. \A p \in Ahead(now) : p \in S
      BY <2>1
    <3>4. \A p \in Nat : p % c = 0 /\ p < result.next => p <= now
      BY <1>2, <1>3, <3>1
    <3>. QED  BY <1>2, <1>3, <3>1, <3>2, <3>3, <3>4
  <2>2. CASE Ahead(now) \ S # {}
    <3>1. result.next = Min(Ahead(now) \ S) /\ Ahead(now) \ S \in SUBSET Nat
      BY <1>1, <2>2, AheadType DEF CursorAfter
    <3>2. result.next \in Ahead(now) \ S /\ \A p \in Ahead(now) \ S : result.next <= p
      BY <2>2, <3>1, MinProperty
    <3>3. result.next \in Points /\ result.next \in Nat /\ schedule.next <= result.next
          /\ result.next <= now
      BY <3>2, AheadType
    <3>4. \A p \in S : p < result.next
      <4>. SUFFICES ASSUME NEW p \in S, ~ (p < result.next) PROVE FALSE
        OBVIOUS
      <4>1. p \in Nat /\ result.next <= p
        BY <1>1, <3>3, AheadType DEF Initial
      <4>. QED  BY <1>1, <3>2, <4>1 DEF Initial
    <3>5. \A p \in Ahead(now) : p < result.next => p \in S
      BY <3>2, <3>3, AheadType
    <3>. QED  BY <1>2, <3>3, <3>4, <3>5
  <2>. QED  BY <2>1, <2>2
<1>5. ASSUME NEW p \in Window(c, schedule.next, result.next - 1)
      PROVE  \E r \in result.records : p \in Rebuild(r)
  <2>1. /\ p \in Nat /\ schedule.next <= p /\ p < result.next
        /\ p = schedule.next \/ p % c = 0
    BY <1>2, <1>4 DEF Window
  <2>2. p <= now
    BY <1>2, <1>4, <2>1
  <2>3. p \in S
    BY <1>4, <2>1, <2>2, AheadType
  <2>. QED  BY <1>1, <2>3 DEF Covers
<1>6. ASSUME NEW r \in result.records
      PROVE  /\ Cardinality(Rebuild(r)) = r.count
             /\ \A p \in Rebuild(r) : /\ p \in Nat /\ schedule.next <= p
                                      /\ p <= now /\ p < result.next
  <2>1. \A p \in S : p \in Nat /\ schedule.next <= p /\ p <= now /\ p < result.next
    BY <1>1, <1>4, AheadType DEF Initial
  <2>. QED  BY <1>1, <2>1 DEF Covers
<1>7. /\ result.accepted \subseteq Points
      /\ \A p \in result.accepted : /\ p \in Nat /\ schedule.next <= p
                                    /\ p <= now /\ p < result.next
  BY <1>1, <1>4, AheadType DEF Initial
<1>8. /\ IsFiniteSet(result.records) /\ result.records \subseteq Outcome
      /\ \A r, q \in result.records : r # q => Rebuild(r) \cap Rebuild(q) = {}
  BY <1>1 DEF Covers
<1>. QED  BY <1>4, <1>5, <1>6, <1>7, <1>8

(* The trail os with the records of R behind it, each of them once.        *)
Extended(os, R, new) ==
    /\ new \in Seq(Outcome)
    /\ \A i \in DOMAIN os : i \in DOMAIN new /\ new[i] = os[i]
    /\ \A i \in DOMAIN new \ DOMAIN os : new[i] \in R
    /\ \A i, j \in DOMAIN new \ DOMAIN os : i # j => new[i] # new[j]
    /\ \A r \in R : \E i \in DOMAIN new : new[i] = r

(* What is appended to the audit trail.                                    *)
LEMMA Appended ==
    ASSUME NEW os \in Seq(Outcome), NEW R, IsFiniteSet(R), R \subseteq Outcome,
           NEW new, new = os \o SetToSeq(R)
    PROVE  Extended(os, R, new)
<1>. DEFINE m == Len(os)
            f == SetToSeq(R)
            n == Len(f)
<1>1. /\ f \in Seq(R) /\ n \in Nat
      /\ \A i, j \in 1..n : f[i] = f[j] => i = j
      /\ \A x \in R : \E i \in 1..n : f[i] = x
  BY SetToSeqLists
<1>. HIDE DEF f
<1>2. m \in Nat /\ DOMAIN os = 1..m /\ DOMAIN f = 1..n /\ \A i \in 1..n : f[i] \in R
  BY <1>1, LenProperties
<1>3. f \in Seq(Outcome)
  BY <1>1, <1>2
<1>4. /\ new \in Seq(Outcome) /\ Len(new) = m + n
      /\ \A i \in 1..(m + n) : new[i] = IF i <= m THEN os[i] ELSE f[i - m]
  BY <1>1, <1>2, <1>3, ConcatProperties DEF f
<1>5. DOMAIN new = 1..(m + n)
  BY <1>4, LenProperties
<1>. HIDE DEF m, n
<1>6. \A i \in DOMAIN new \ DOMAIN os : i - m \in 1..n /\ new[i] = f[i - m] /\ i \in Nat
  BY <1>1, <1>2, <1>4, <1>5
<1>7. \A i \in DOMAIN os : i \in DOMAIN new /\ new[i] = os[i]
  BY <1>1, <1>2, <1>4, <1>5
<1>8. \A i, j \in DOMAIN new \ DOMAIN os : i # j => new[i] # new[j]
  <2>. SUFFICES ASSUME NEW i \in DOMAIN new \ DOMAIN os, NEW j \in DOMAIN new \ DOMAIN os,
                       new[i] = new[j]
                PROVE  i = j
    OBVIOUS
  <2>1. i - m \in 1..n /\ j - m \in 1..n /\ f[i - m] = f[j - m]
    BY <1>6
  <2>2. i - m = j - m
    BY <1>1, <2>1
  <2>. QED  BY <1>2, <1>6, <2>2
<1>9. \A r \in R : \E i \in DOMAIN new : new[i] = r
  <2>. SUFFICES ASSUME NEW r \in R PROVE \E i \in DOMAIN new : new[i] = r
    OBVIOUS
  <2>1. PICK i \in 1..n : f[i] = r
    BY <1>1
  <2>2. m + i \in 1..(m + n) /\ ~ (m + i <= m) /\ (m + i) - m = i
    BY <1>1, <1>2
  <2>3. new[m + i] = r
    BY <1>4, <2>1, <2>2
  <2>. QED  BY <1>5, <2>2, <2>3
<1>10. new \in Seq(Outcome) /\ \A i \in DOMAIN new \ DOMAIN os : new[i] \in R
  BY <1>1, <1>2, <1>4, <1>6
<1>. QED  BY <1>7, <1>8, <1>9, <1>10, Zenon DEF Extended

-----------------------------------------------------------------------------
(* The inductive invariant.                                                *)

(* At most one Execution accepted under skip_while_busy is outstanding.    *)
OneExclusive == exclusive \subseteq active /\ \A p, q \in exclusive : p = q

(* A range that is what its cron rebuilds, of points the clock has reached. *)
Exact(r) == Cardinality(Rebuild(r)) = r.count /\ \A p \in Rebuild(r) : p \in Nat /\ p <= clock

(* The cursor of an enabled Schedule against the audit trail.              *)
CursorExact ==
    /\ schedule.next \in Nat /\ rebased \in Nat /\ rebased <= schedule.next
    /\ \A p \in Window(schedule.cron, rebased, schedule.next - 1) :
          \E i \in DOMAIN outcomes : p \in Rebuild(outcomes[i])
    /\ \A i \in DOMAIN outcomes : \A p \in Rebuild(outcomes[i]) : p < schedule.next
    /\ \A p \in active : p < schedule.next

(* The outstanding points against the clock and the exclusive one.         *)
ActiveExact ==
    /\ \A p \in active : p <= clock
    /\ \A p \in exclusive, q \in active : p <= q

(* The audit trail and the outstanding Executions while the clock has not  *)
(* been set back.                                                          *)
Trail ==
    /\ \A i \in DOMAIN outcomes : Exact(outcomes[i])
    /\ \A i, j \in DOMAIN outcomes : i # j => Rebuild(outcomes[i]) \cap Rebuild(outcomes[j]) = {}
    /\ \A s \in Schedulers : tick[s] # NoPoint => tick[s] <= clock
    /\ schedule.enabled => CursorExact
    /\ ActiveExact

SInv == STypeOK /\ OneExecutionPerPoint /\ OneExclusive /\ (back = 0 => Trail)

-----------------------------------------------------------------------------
(* What a policy answers: the points that become Executions are new ones,  *)
(* and skip_while_busy takes one at most, when nothing is outstanding.     *)
Sound(result) ==
    /\ \A p \in result.accepted : Fresh(p)
    /\ schedule.policy = "skip_while_busy" /\ result.accepted # {} =>
         active = {} /\ \E p : result.accepted \subseteq {p}

(* coalesce_latest returns a sound result.                                 *)
LEMMA CoalesceSound ==
    ASSUME NEW now, NEW old, NEW eligible, NEW valid, NEW room,
           schedule.policy = "coalesce_latest"
    PROVE  Sound(CoalesceLatest(now, old, eligible, valid, room))
  BY DEF Sound, CoalesceLatest

(* skip_while_busy returns a sound result.                                 *)
LEMMA SkipSound ==
    ASSUME NEW now, NEW old, NEW eligible \in SUBSET Nat, NEW valid, NEW room
    PROVE  Sound(SkipWhileBusy(now, old, eligible, valid, room))
<1>. DEFINE new == {p \in eligible : Fresh(p)}
            chosen == IF new = {} THEN {} ELSE {Min(new)}
            result == SkipWhileBusy(now, old, eligible, valid, room)
<1>1. \A p \in chosen : Fresh(p)
  BY MinProperty
<1>2. \E p : chosen \subseteq {p}
  OBVIOUS
<1>3. result.accepted = IF ~ Busy /\ valid /\ room > 0 THEN chosen ELSE {}
  BY DEF SkipWhileBusy
<1>4. Sound(result)
  <2>. HIDE DEF new, chosen, result
  <2>. QED  BY <1>1, <1>2, <1>3 DEF Sound, Busy
<1>. QED  BY <1>4

(* queue_every_occurrence returns a sound result.                          *)
LEMMA QueueSound ==
    ASSUME NEW now, NEW old, NEW eligible, NEW valid, NEW room,
           schedule.policy # "skip_while_busy"
    PROVE  Sound(QueueEveryOccurrence(now, old, eligible, valid, room))
  BY DEF Sound, QueueEveryOccurrence

(* The policies together return a sound result.                            *)
LEMMA RabbitmqSound ==
    ASSUME NEW now, NEW due \in SUBSET Nat, NEW valid, NEW room
    PROVE  Sound(RabbitmqDue(now, due, valid, room))
<1>. DEFINE old == TooOld(due, now)
            eligible == due \ old
            rest == Window(schedule.cron, schedule.next, now) \ due
            result == RabbitmqDue(now, due, valid, room)
<1>1. eligible \in SUBSET Nat
  OBVIOUS
<1>. HIDE DEF old, eligible, rest
<1>2. result =
        IF eligible = {}
        THEN [records |-> Expired(old), accepted |-> {},
              next |-> IF rest = {} THEN NextRunAfter(schedule.cron, now) ELSE Min(rest)]
        ELSE IF rest # {}
        THEN [records |-> Expired(old), accepted |-> {}, next |-> Min(eligible)]
        ELSE CASE schedule.policy = "coalesce_latest" ->
                    CoalesceLatest(now, old, eligible, valid, room)
               [] schedule.policy = "skip_while_busy" ->
                    SkipWhileBusy(now, old, eligible, valid, room)
               [] OTHER ->
                    QueueEveryOccurrence(now, old, eligible, valid, room)
  BY DEF RabbitmqDue, old, eligible, rest
<1>3. CASE eligible = {} \/ rest # {}
  BY <1>2, <1>3 DEF Sound
<1>4. CASE eligible # {} /\ rest = {}
  BY <1>1, <1>2, <1>4, CoalesceSound, SkipSound, QueueSound
<1>. QED  BY <1>3, <1>4

-----------------------------------------------------------------------------
(* The steps.                                                              *)

(* A tick's transaction.                                                   *)
LEMMA CommitStep ==
    ASSUME SInv, NEW s \in Schedulers, schedule.enabled, tick[s] # NoPoint, Ready(tick[s]),
           NEW result, Sound(result), Passes(result, tick[s]), Commit(s, result)
    PROVE  SInv'
<1>1. /\ schedule' = [schedule EXCEPT !.next = result.next]
      /\ outcomes' = outcomes \o SetToSeq(result.records)
      /\ created' = [p \in Points |-> IF p \in result.accepted
                                      THEN created[p] + 1 ELSE created[p]]
      /\ active' = active \cup result.accepted
      /\ exclusive' = IF schedule.policy = "skip_while_busy"
                      THEN exclusive \cup result.accepted ELSE exclusive
      /\ tick' = [tick EXCEPT ![s] = NoPoint]
      /\ clock' = clock /\ back' = back /\ manual' = manual
      /\ running' = running /\ rebased' = rebased
  BY Zenon DEF Commit
<1>. DEFINE R == result.records
            next == result.next
            now == tick[s]
<1>2. /\ next \in Points /\ next \in Nat /\ schedule.next <= next
      /\ IsFiniteSet(R) /\ R \subseteq Outcome
      /\ \A r \in R : /\ Cardinality(Rebuild(r)) = r.count
                      /\ \A p \in Rebuild(r) : /\ p \in Nat /\ schedule.next <= p
                                               /\ p <= now /\ p < next
      /\ \A r, q \in R : r # q => Rebuild(r) \cap Rebuild(q) = {}
      /\ \A p \in Window(schedule.cron, schedule.next, next - 1) :
            \E r \in R : p \in Rebuild(r)
      /\ result.accepted \subseteq Points
      /\ \A p \in result.accepted : /\ p \in Nat /\ schedule.next <= p
                                    /\ p <= now /\ p < next
  BY Passed
<1>3. STypeOK
  BY DEF SInv
<1>4. outcomes \in Seq(Outcome)
  BY <1>3 DEF STypeOK
<1>5. /\ outcomes' \in Seq(Outcome)
      /\ \A i \in DOMAIN outcomes : i \in DOMAIN outcomes' /\ outcomes'[i] = outcomes[i]
      /\ \A i \in DOMAIN outcomes' \ DOMAIN outcomes : outcomes'[i] \in R
      /\ \A i, j \in DOMAIN outcomes' \ DOMAIN outcomes : i # j => outcomes'[i] # outcomes'[j]
      /\ \A r \in R : \E i \in DOMAIN outcomes' : outcomes'[i] = r
  <2>. HIDE DEF R, next, now
  <2>1. Extended(outcomes, R, outcomes')
    BY <1>1, <1>2, <1>4, Appended DEF R
  <2>. QED  BY <2>1 DEF Extended
<1>6. /\ schedule'.enabled = schedule.enabled /\ schedule'.cron = schedule.cron
      /\ schedule'.policy = schedule.policy /\ schedule'.next = next
      /\ schedule' \in [enabled: BOOLEAN, cron: Crons, policy: Policies,
                        next: Points \cup {NoPoint}]
  BY <1>1, <1>2, <1>3 DEF STypeOK
<1>. HIDE DEF R, next
<1>7. STypeOK'
  <2>1. created' \in [Points -> Nat]
    BY <1>1, <1>3 DEF STypeOK
  <2>2. active' \subseteq Points /\ exclusive' \subseteq Points
    BY <1>1, <1>2, <1>3 DEF STypeOK
  <2>3. tick' \in [Schedulers -> (0..MaxTime) \cup {NoPoint}]
    BY <1>1, <1>3 DEF STypeOK
  <2>. QED  BY <1>1, <1>3, <1>5, <1>6, <2>1, <2>2, <2>3 DEF STypeOK
<1>8. OneExecutionPerPoint'
  BY <1>1, <1>3 DEF SInv, STypeOK, OneExecutionPerPoint, Sound, Fresh, Points
<1>9. OneExclusive'
  BY <1>1 DEF SInv, OneExclusive, Sound
<1>10. ASSUME back' = 0 PROVE Trail'
  <2>1. Trail /\ CursorExact
    BY <1>1, <1>10 DEF SInv, Trail
  <2>0. \A p \in active : p \in Nat /\ p < schedule.next /\ p <= clock
    BY <1>3, <2>1, PointsType DEF STypeOK, Trail, CursorExact, ActiveExact
  <2>2. now <= clock /\ now \in Nat /\ clock \in Nat
    <3>1. now <= clock
      BY <2>1 DEF Trail
    <3>2. now \in 0..MaxTime /\ clock \in 0..MaxTime /\ MaxTime \in Nat
      BY <1>3, ConstantsAssumption DEF Ready, STypeOK
    <3>. QED  BY <3>1, <3>2
  <2>3. schedule.next \in Nat /\ rebased \in Nat /\ rebased <= schedule.next
    BY <2>1 DEF CursorExact
  <2>. HIDE DEF now
  <2>4. (\A i \in DOMAIN outcomes : Exact(outcomes[i]))'
    <3>1. \A i \in DOMAIN outcomes : Exact(outcomes[i])
      BY <2>1 DEF Trail
    <3>2. \A r \in R : Exact(r)
      BY <1>2, <2>2, <2>3 DEF Exact
    <3>3. \A i \in DOMAIN outcomes' : Exact(outcomes'[i])
      BY <1>5, <3>1, <3>2
    <3>. QED  BY <1>1, <3>3 DEF Exact
  <2>5. \A i, j \in DOMAIN outcomes' :
           i # j => Rebuild(outcomes'[i]) \cap Rebuild(outcomes'[j]) = {}
    <3>1. ASSUME NEW i \in DOMAIN outcomes, NEW r \in R
          PROVE  Rebuild(outcomes[i]) \cap Rebuild(r) = {}
      <4>1. \A p \in Rebuild(outcomes[i]) : p < schedule.next
        BY <2>1 DEF CursorExact
      <4>2. \A p \in Rebuild(r) : p \in Nat /\ schedule.next <= p
        BY <1>2
      <4>. QED  BY <2>3, <4>1, <4>2
    <3>2. \A i, j \in DOMAIN outcomes :
             i # j => Rebuild(outcomes[i]) \cap Rebuild(outcomes[j]) = {}
      BY <2>1 DEF Trail
    <3>. SUFFICES ASSUME NEW i \in DOMAIN outcomes', NEW j \in DOMAIN outcomes', i # j
                  PROVE  Rebuild(outcomes'[i]) \cap Rebuild(outcomes'[j]) = {}
      OBVIOUS
    <3>3. CASE i \in DOMAIN outcomes /\ j \in DOMAIN outcomes
      BY <1>5, <3>2, <3>3
    <3>4. CASE i \in DOMAIN outcomes /\ j \notin DOMAIN outcomes
      BY <1>5, <3>1, <3>4
    <3>5. CASE i \notin DOMAIN outcomes /\ j \in DOMAIN outcomes
      BY <1>5, <3>1, <3>5
    <3>6. CASE i \notin DOMAIN outcomes /\ j \notin DOMAIN outcomes
      BY <1>2, <1>5, <3>6
    <3>. QED  BY <3>3, <3>4, <3>5, <3>6
  <2>6. \A t \in Schedulers : tick'[t] # NoPoint => tick'[t] <= clock
    BY <1>1, <1>3, <2>1 DEF Trail, STypeOK
  <2>7. \A p \in Window(schedule.cron, rebased, next - 1) :
           \E i \in DOMAIN outcomes' : p \in Rebuild(outcomes'[i])
    <3>. SUFFICES ASSUME NEW p \in Window(schedule.cron, rebased, next - 1)
                  PROVE  \E i \in DOMAIN outcomes' : p \in Rebuild(outcomes'[i])
      OBVIOUS
    <3>1. /\ p \in Nat /\ rebased <= p /\ p <= next - 1 /\ next \in Nat
          /\ p = rebased \/ p % schedule.cron = 0
      BY <1>2, <2>3 DEF Window
    <3>2. CASE p < schedule.next
      <4>1. p \in Window(schedule.cron, rebased, schedule.next - 1)
        BY <2>3, <3>1, <3>2 DEF Window
      <4>2. \E i \in DOMAIN outcomes : p \in Rebuild(outcomes[i])
        BY <2>1, <4>1 DEF CursorExact
      <4>. QED  BY <1>5, <4>2
    <3>3. CASE schedule.next <= p
      <4>1. p \in Window(schedule.cron, schedule.next, next - 1)
        BY <2>3, <3>1, <3>3 DEF Window
      <4>2. PICK r \in R : p \in Rebuild(r)
        BY <1>2, <4>1
      <4>. QED  BY <1>5, <4>2
    <3>. QED  BY <2>3, <3>1, <3>2, <3>3
  <2>8. \A i \in DOMAIN outcomes' : \A p \in Rebuild(outcomes'[i]) : p < next
    <3>1. ASSUME NEW i \in DOMAIN outcomes, NEW p \in Rebuild(outcomes[i]) PROVE p < next
      <4>1. p \in Nat /\ p < schedule.next
        BY <2>1 DEF CursorExact, Trail, Exact
      <4>. QED  BY <1>2, <2>3, <4>1
    <3>2. \A r \in R : \A p \in Rebuild(r) : p < next
      BY <1>2
    <3>. QED  BY <1>5, <3>1, <3>2
  <2>9. CursorExact'
    <3>1. rebased <= next /\ next \in Nat
      BY <1>2, <2>3
    <3>2. schedule'.next = next /\ schedule'.cron = schedule.cron /\ rebased' = rebased
      BY <1>1, <1>6
    <3>3. \A p \in active' : p < next
      BY <1>1, <1>2, <2>0, <2>3
    <3>. QED  BY <2>3, <2>7, <2>8, <3>1, <3>2, <3>3 DEF CursorExact
  <2>10. ActiveExact'
    <3>1. \A p \in active' : p <= clock
      BY <1>1, <1>2, <2>0, <2>2
    <3>2. ASSUME NEW p \in exclusive', NEW q \in active' PROVE p <= q
      <4>1. CASE p \in exclusive /\ q \in active
        BY <2>1, <4>1 DEF Trail, ActiveExact
      <4>2. CASE p \in exclusive /\ q \in result.accepted
        <5>1. p \in Nat /\ p < schedule.next
          BY <2>0, <4>2 DEF SInv, OneExclusive
        <5>. QED  BY <1>2, <2>3, <4>2, <5>1
      <4>3. CASE p \notin exclusive
        <5>1. p \in result.accepted /\ active = {} /\ \E x : result.accepted \subseteq {x}
          BY <1>1, <4>3 DEF Sound
        <5>2. p = q /\ p \in Nat
          BY <1>1, <1>2, <5>1
        <5>. QED  BY <5>2
      <4>. QED  BY <1>1, <4>1, <4>2, <4>3
    <3>. QED  BY <1>1, <3>1, <3>2 DEF ActiveExact
  <2>. QED  BY <1>1, <2>4, <2>5, <2>6, <2>9, <2>10 DEF Trail
<1>. QED  BY <1>7, <1>8, <1>9, <1>10 DEF SInv

(* ProcessDueRow keeps the inductive invariant.                            *)
LEMMA ProcessDueRowStep ==
    ASSUME SInv, NEW s \in Schedulers, NEW runnable \in BOOLEAN,
           NEW valid \in BOOLEAN, NEW room \in 0..QueueCap,
           ProcessDueRow(s, runnable, valid, room)
    PROVE  SInv'
<1>. DEFINE due == DuePoints(schedule.cron, schedule.next, tick[s])
            result == IF runnable THEN RabbitmqDue(tick[s], due, valid, room)
                      ELSE Structural(tick[s], due)
<1>1. /\ schedule.enabled /\ tick[s] # NoPoint /\ Commit(s, result)
      /\ schedule.next # NoPoint /\ schedule.next <= tick[s]
  BY Zenon DEF ProcessDueRow, Due
<1>2. Ready(tick[s])
  <2>1. /\ schedule.cron \in Crons /\ schedule.next \in Points \cup {NoPoint}
        /\ tick[s] \in (0..MaxTime) \cup {NoPoint}
    BY DEF SInv, STypeOK
  <2>. QED  BY <1>1, <2>1, PointsType DEF Ready
<1>3. room \in Nat
  BY ConstantsAssumption
<1>4. due \in SUBSET Nat
  <2>1. due \subseteq Ahead(tick[s])
    BY DEF DuePoints, Ahead
  <2>. QED  BY <1>2, <2>1, AheadType
<1>5. /\ Passes(RabbitmqDue(tick[s], due, valid, room), tick[s])
      /\ Passes(Structural(tick[s], due), tick[s])
  BY <1>2, <1>3, RabbitmqPasses, StructuralPasses
<1>6. Sound(Structural(tick[s], due))
  BY DEF Sound, Structural
<1>. HIDE DEF due
<1>7. Sound(RabbitmqDue(tick[s], due, valid, room))
  BY <1>4, RabbitmqSound
<1>8. Sound(result) /\ Passes(result, tick[s])
  BY <1>5, <1>6, <1>7
<1>. HIDE DEF result
<1>. QED  BY <1>1, <1>2, <1>8, CommitStep

(* Upsert keeps the inductive invariant: what has been recorded lies in    *)
(* the past, and a PUT puts the cursor into the future.                    *)
LEMMA UpsertStep ==
    ASSUME SInv, NEW c \in Crons, NEW policy \in Policies, NEW enabled \in BOOLEAN,
           UpsertSchedule(c, policy, enabled)
    PROVE  SInv'
<1>. DEFINE n == NextRunAfter(c, clock)
<1>1. c \in Nat \ {0} /\ clock \in Nat /\ clock \in 0..MaxTime
  <2>1. clock \in 0..MaxTime
    BY DEF SInv, STypeOK
  <2>2. Crons \subseteq Nat \ {0} /\ MaxTime \in Nat
    BY ConstantsAssumption
  <2>. QED  BY <2>1, <2>2
<1>2. n \in Points /\ n \in Nat /\ clock < n
  BY <1>1, PointsType, NextRun
<1>. HIDE DEF n
<1>3. /\ schedule' = [enabled |-> enabled, cron |-> c, policy |-> policy,
                      next |-> IF enabled THEN n ELSE NoPoint]
      /\ rebased' = schedule'.next
      /\ clock' = clock /\ back' = back /\ outcomes' = outcomes /\ created' = created
      /\ active' = active /\ manual' = manual /\ running' = running
      /\ exclusive' = exclusive /\ tick' = tick
  BY DEF UpsertSchedule, executionVars, n
<1>5. STypeOK'
  BY <1>2, <1>3 DEF SInv, STypeOK
<1>6. OneExecutionPerPoint' /\ OneExclusive'
  BY <1>3 DEF SInv, OneExecutionPerPoint, OneExclusive
<1>7. ASSUME back' = 0 PROVE Trail'
  <2>1. Trail
    BY <1>3, <1>7 DEF SInv
  <2>2. ASSUME enabled PROVE CursorExact'
    <3>1. schedule'.cron = c /\ schedule'.next = n /\ rebased' = n
      BY <1>3, <2>2
    <3>2. Window(c, n, n - 1) = {}
      BY <1>2 DEF Window
    <3>3. \A i \in DOMAIN outcomes : \A p \in Rebuild(outcomes[i]) : p < n
      <4>. SUFFICES ASSUME NEW i \in DOMAIN outcomes, NEW p \in Rebuild(outcomes[i])
                    PROVE  p < n
        OBVIOUS
      <4>1. p \in Nat /\ p <= clock
        BY <2>1 DEF Trail, Exact
      <4>. QED  BY <1>1, <1>2, <4>1
    <3>4. \A p \in active : p < n
      <4>. SUFFICES ASSUME NEW p \in active PROVE p < n
        OBVIOUS
      <4>1. p \in Nat /\ p <= clock
        BY <2>1, PointsType DEF SInv, STypeOK, Trail, ActiveExact
      <4>. QED  BY <1>1, <1>2, <4>1
    <3>. QED  BY <1>2, <1>3, <3>1, <3>2, <3>3, <3>4 DEF CursorExact
  <2>3. schedule'.enabled = enabled
    BY <1>3
  <2>4. ActiveExact'
    BY <1>3, <2>1 DEF Trail, ActiveExact
  <2>. QED  BY <1>3, <2>1, <2>2, <2>3, <2>4 DEF Trail, Exact
<1>. QED  BY <1>5, <1>6, <1>7 DEF SInv

(* The trail only looks at the outcomes, the ticks, the cursor, a clock    *)
(* that does not go back and Executions that do not come back.             *)
LEMMA TrailKept ==
    ASSUME SInv, UNCHANGED <<schedule, outcomes, rebased>>,
           active' \subseteq active, exclusive' \subseteq exclusive,
           back' = 0 => back = 0 /\ clock' \in Nat /\ clock <= clock',
           \A s \in Schedulers : tick'[s] # NoPoint => tick'[s] = tick[s] \/ tick'[s] = clock'
    PROVE  back' = 0 => Trail'
<1>. SUFFICES ASSUME back' = 0 PROVE Trail'
  OBVIOUS
<1>1. Trail /\ clock' \in Nat /\ clock <= clock'
  BY DEF SInv
<1>2. clock \in Nat
  BY DEF SInv, STypeOK
<1>3. \A i \in DOMAIN outcomes : Exact(outcomes[i])'
  <2>. SUFFICES ASSUME NEW i \in DOMAIN outcomes, NEW p \in Rebuild(outcomes[i])
                PROVE  p \in Nat /\ p <= clock'
    BY <1>1 DEF Trail, Exact
  <2>1. p \in Nat /\ p <= clock
    BY <1>1 DEF Trail, Exact
  <2>. QED  BY <1>1, <1>2, <2>1
<1>4. \A s \in Schedulers : tick'[s] # NoPoint => tick'[s] <= clock'
  <2>. SUFFICES ASSUME NEW s \in Schedulers, tick'[s] # NoPoint PROVE tick'[s] <= clock'
    OBVIOUS
  <2>1. CASE tick'[s] = clock'
    BY <1>1, <2>1
  <2>2. CASE tick'[s] = tick[s]
    <3>1. tick[s] <= clock /\ tick[s] \in 0..MaxTime
      BY <1>1, <2>2 DEF Trail, SInv, STypeOK
    <3>. QED  BY <1>1, <1>2, <2>2, <3>1
  <2>. QED  BY <2>1, <2>2
<1>5. CursorExact => CursorExact'
  BY DEF CursorExact
<1>6. ActiveExact'
  <2>1. ASSUME NEW p \in active PROVE p <= clock'
    <3>1. p \in Nat /\ p <= clock
      BY <1>1, PointsType DEF SInv, STypeOK, Trail, ActiveExact
    <3>. QED  BY <1>1, <1>2, <3>1
  <2>. QED  BY <1>1, <2>1 DEF Trail, ActiveExact
<1>. QED  BY <1>1, <1>3, <1>4, <1>5, <1>6 DEF Trail

(* The steps of a scheduler that only change its own tick.                 *)
LEMMA TickStep ==
    ASSUME SInv, NEW s \in Schedulers, SchedulerTick(s) \/ SkipRow(s) \/ TickFails(s)
    PROVE  SInv'
<1>1. /\ UNCHANGED <<clock, back, schedule, outcomes, created, rebased>>
      /\ UNCHANGED <<active, manual, running, exclusive>>
      /\ tick' = [tick EXCEPT ![s] = clock] \/ tick' = [tick EXCEPT ![s] = NoPoint]
  BY DEF SchedulerTick, SkipRow, TickFails, executionVars
<1>2. STypeOK'
  BY <1>1 DEF SInv, STypeOK
<1>3. back' = 0 => Trail'
  <2>1. clock \in Nat
    BY DEF SInv, STypeOK
  <2>2. \A t \in Schedulers : tick'[t] # NoPoint => tick'[t] = tick[t] \/ tick'[t] = clock'
    BY <1>1 DEF SInv, STypeOK
  <2>. QED  BY <1>1, <2>1, <2>2, TrailKept
<1>. QED  BY <1>1, <1>2, <1>3 DEF SInv, OneExecutionPerPoint, OneExclusive

(* An Execution that is claimed, retried, ends or is started by hand.      *)
LEMMA ExecutionStep ==
    ASSUME SInv, ExecutionStarts \/ ExecutionRetries \/ ExecutionEnds \/ RunNow
    PROVE  SInv'
<1>1. /\ UNCHANGED <<clock, back, schedule, outcomes, created, tick, rebased>>
      /\ active' \subseteq active
      /\ exclusive' \subseteq exclusive
      /\ exclusive \subseteq active => exclusive' \subseteq active'
  BY DEF ExecutionStarts, ExecutionRetries, ExecutionEnds, RunNow
<1>2. \/ manual' = manual
      \/ manual > 0 /\ manual' = manual - 1
      \/ manual < MaxManual /\ manual' = manual + 1
  BY DEF ExecutionStarts, ExecutionRetries, ExecutionEnds, RunNow
<1>3. manual' \in 0..MaxManual
  <2>1. manual \in 0..MaxManual /\ MaxManual \in Nat
    BY ConstantsAssumption DEF SInv, STypeOK
  <2>. QED  BY <1>2, <2>1
<1>4. running' \in BOOLEAN
  BY DEF SInv, STypeOK, ExecutionStarts, ExecutionRetries, ExecutionEnds, RunNow
<1>5. STypeOK'
  BY <1>1, <1>3, <1>4 DEF SInv, STypeOK
<1>6. clock \in Nat
  BY DEF SInv, STypeOK
<1>7. back' = 0 => Trail'
  BY <1>1, <1>6, TrailKept
<1>. QED  BY <1>1, <1>5, <1>7 DEF SInv, OneExecutionPerPoint, OneExclusive

(* The clock.                                                              *)
LEMMA ClockStep ==
    ASSUME SInv, TimePasses \/ ClockSetBack
    PROVE  SInv'
<1>1. /\ UNCHANGED <<schedule, outcomes, created, tick, rebased>>
      /\ UNCHANGED <<active, manual, running, exclusive>>
  BY DEF TimePasses, ClockSetBack, executionVars
<1>2. clock \in 0..MaxTime /\ back \in 0..MaxBack /\ MaxTime \in Nat /\ MaxBack \in Nat
  BY ConstantsAssumption DEF SInv, STypeOK
<1>3. clock' \in 0..MaxTime /\ back' \in 0..MaxBack
      /\ (back' = 0 => back = 0 /\ clock <= clock')
  BY <1>2 DEF TimePasses, ClockSetBack
<1>4. STypeOK'
  BY <1>1, <1>3 DEF SInv, STypeOK
<1>5. back' = 0 => Trail'
  BY <1>1, <1>3, TrailKept
<1>. QED  BY <1>1, <1>4, <1>5 DEF SInv, OneExecutionPerPoint, OneExclusive

(* Every step keeps the inductive invariant.                               *)
LEMMA SStep == SInv /\ [SNext]_scheduleVars => SInv'
<1>. SUFFICES ASSUME SInv, [SNext]_scheduleVars PROVE SInv'
  OBVIOUS
<1>1. ASSUME NEW s \in Schedulers, ProcessRow(s) PROVE SInv'
  BY <1>1, ProcessDueRowStep DEF ProcessRow
<1>2. CASE Upsert
  BY <1>2, UpsertStep DEF Upsert
<1>3. CASE UNCHANGED scheduleVars
  <2>1. /\ UNCHANGED <<clock, back, schedule, outcomes, created, tick, rebased>>
        /\ UNCHANGED <<active, manual, running, exclusive>>
    BY <1>3 DEF scheduleVars
  <2>2. clock \in Nat
    BY DEF SInv, STypeOK
  <2>3. back' = 0 => Trail'
    BY <2>1, <2>2, TrailKept
  <2>. QED  BY <2>1, <2>3 DEF SInv, STypeOK, OneExecutionPerPoint, OneExclusive
<1>. QED  BY <1>1, <1>2, <1>3, TickStep, ExecutionStep, ClockStep DEF SNext, PlannedNext

(* The initial states satisfy the inductive invariant.                     *)
LEMMA SStart == SInit => SInv
<1>. SUFFICES ASSUME SInit PROVE SInv
  OBVIOUS
<1>1. schedule \in [enabled: {FALSE}, cron: Crons, policy: Policies, next: {NoPoint}]
  BY DEF SInit
<1>2. ~ schedule.enabled
      /\ schedule \in [enabled: BOOLEAN, cron: Crons, policy: Policies,
                       next: Points \cup {NoPoint}]
  BY <1>1
<1>3. outcomes \in Seq(Outcome) /\ DOMAIN outcomes = {}
  BY DEF SInit
<1>4. OneExecutionPerPoint
  BY DEF SInit, OneExecutionPerPoint
<1>5. STypeOK
  <2>1. clock \in 0..MaxTime /\ back \in 0..MaxBack /\ manual \in 0..MaxManual
    BY ConstantsAssumption DEF SInit
  <2>2. /\ created \in [Points -> Nat] /\ active \subseteq Points /\ exclusive \subseteq Points
        /\ tick \in [Schedulers -> (0..MaxTime) \cup {NoPoint}]
        /\ rebased \in Points \cup {NoPoint}
    BY DEF SInit
  <2>3. running \in BOOLEAN
    BY DEF SInit
  <2>. QED  BY <1>2, <1>3, <2>1, <2>2, <2>3 DEF STypeOK
<1>6. Trail
  BY <1>2, <1>3 DEF SInit, Trail, ActiveExact
<1>. QED  BY <1>4, <1>5, <1>6 DEF SInit, SInv, OneExclusive

(* The inductive invariant holds in every reachable state.                 *)
LEMMA SInvariant == SSpec => []SInv
  BY SStart, SStep, PTL DEF SSpec

(* The rows of a Schedule keep their types: a cursor never leaves the      *)
(* clock's range by more than a period, and an outcome is one of the       *)
(* decisions _record_outcome takes.                                        *)
THEOREM ScheduleTypes == SSpec => []STypeOK
<1>1. SInv => STypeOK  BY DEF SInv
<1>. QED  BY SInvariant, <1>1, PTL

(* Unless the clock is set back, validate_schedule_outcomes finds nothing: *)
(* every range is rebuilt from its cron to exactly its count and no two    *)
(* overlap, whatever policies, pages, PUTs and racing schedulers made them. *)
THEOREM AuditIsSound == SSpec => []AuditSound
<1>1. SInv => AuditSound  BY DEF SInv, AuditSound, Trail, Exact
<1>. QED  BY SInvariant, <1>1, PTL

(* Unless the clock is set back, no planned point is lost: what the cursor *)
(* has passed since the last PUT is in the audit trail, and nothing that   *)
(* is still ahead of it.                                                   *)
THEOREM PointsAccounted == SSpec => []EveryPointAccounted
<1>1. ASSUME SInv, schedule.enabled, back = 0
      PROVE  LET audited == UNION {Rebuild(outcomes[i]) : i \in DOMAIN outcomes}
             IN  /\ Window(schedule.cron, rebased, schedule.next - 1) \subseteq audited
                 /\ \A p \in audited : p < schedule.next
  <2>1. CursorExact
    BY <1>1 DEF SInv, Trail
  <2>. QED  BY <2>1, Zenon DEF CursorExact
<1>2. SInv => EveryPointAccounted
  BY <1>1 DEF EveryPointAccounted
<1>. QED  BY SInvariant, <1>2, PTL

(* A planned point becomes at most one Execution, although ticks are read  *)
(* before the row is locked, schedulers race, PUTs move the cursor back    *)
(* and the clock is corrected (uq_executions_schedule_point and the        *)
(* "duplicate" paths of the three policies).                               *)
THEOREM PointsRunOnce == SSpec => []OneExecutionPerPoint
<1>1. SInv => OneExecutionPerPoint  BY DEF SInv
<1>. QED  BY SInvariant, <1>1, PTL

(* What skip_while_busy accepts never runs into other planned work: of the *)
(* Executions that carry this policy in their snapshot one at most is      *)
(* outstanding and, unless the clock is set back, no older planned point   *)
(* beside it, although a PUT may change the policy while Executions wait   *)
(* (_rabbit_outstanding under the Adapter lock, and cursors that a tick    *)
(* and a PUT only move past every point that was accepted).                *)
THEOREM SkipIsExclusive == SSpec => []SkipNeverOverlaps
<1>1. ASSUME SInv PROVE SkipNeverOverlaps
  <2>1. exclusive = {} \/ \E p : exclusive = {p}
    BY <1>1 DEF SInv, OneExclusive
  <2>2. Cardinality({}) = 0
    BY FS_EmptySet
  <2>3. ASSUME NEW p, exclusive = {p} PROVE Cardinality(exclusive) = 1
    BY <2>3, FS_Singleton, Zenon
  <2>4. Cardinality(exclusive) <= 1
    BY <2>1, <2>2, <2>3
  <2>5. back = 0 => \A p \in exclusive, q \in active : p <= q
    BY <1>1 DEF SInv, Trail, ActiveExact
  <2>. QED  BY <2>4, <2>5 DEF SkipNeverOverlaps
<1>. QED  BY SInvariant, <1>1, PTL
=============================================================================
