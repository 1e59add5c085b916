------------------------ MODULE ResourceBlocksProofs ------------------------
(***************************************************************************)
(* For any bandwidth, number of UEs and queues: no group of resource       *)
(* blocks is given twice, the count of a UE's blocks is that of its        *)
(* groups, the rounds keep within their quotas, the bitmaps sent are       *)
(* disjoint and carry the blocks the transport block was sized for, no     *)
(* whole group stays free that a UE needs, and UEs of low priority get     *)
(* equal shares. Quotas is the strengthening that the third needs: what a  *)
(* UE has and what it may still take add up to what the round allows.      *)
(* Conserving, that they add up to no less either, is the one for the      *)
(* fifth, and Fair the one for the last.                                   *)
(***************************************************************************)
EXTENDS ResourceBlocks, TLAPS, FiniteSetTheorems

\* The bitmap of an assignment lies within the groups of its UE.
BitmapWithin == \A u \in Ue : dci[u].bitmap \subseteq alloc[u]

Fresh == pc \in {"idle", "assign"} \/ (pc = "round" /\ round = 0)
FirstRound == (pc = "visit" /\ round = 0) \/ (pc = "round" /\ round = 1)
SecondRound == (pc = "visit" /\ round = 1) \/ pc = "schedule"

QuotaKept(u) ==
  /\ share[u] <= required[u]
  /\ Fresh => available[u] = 0 /\ remaining[u] = 0
  /\ FirstRound => /\ available[u] + remaining[u] <= share[u] + Slack
                   /\ remaining[u] > 0 => available[u] + remaining[u] = share[u]
  /\ SecondRound => available[u] + remaining[u] <= required[u] + Slack

Quotas == \A u \in Ue : QuotaKept(u)

Inv == TypeOK /\ Exclusive /\ Accounting /\ BitmapWithin /\ Quotas

-----------------------------------------------------------------------------
LEMMA CellFacts ==
  /\ MinRbUnit \in 1 .. 4 /\ NbRbg \in 6 .. 25 /\ 0 \in Rbg
  /\ ShortRbg \subseteq Rbg /\ (ShortRbg # {} => MinRbUnit \in 2 .. 3)
  /\ Slack \in 0 .. 1 /\ (ShortRbg # {} => Slack = MinRbUnit - 2)
  /\ NumUe \in Nat /\ Bandwidth \in Nat
  BY RbAssumption DEF RbAssumption, MinRbUnit, NbRbg, Rbg, ShortRbg, Slack

LEMMA FiniteGroups ==
  ASSUME NEW S \in SUBSET Rbg
  PROVE  IsFiniteSet(S) /\ IsFiniteSet(S \cap ShortRbg)
<1>1. IsFiniteSet(Rbg)
  BY CellFacts, FS_Interval DEF Rbg
<1>2. QED
  BY <1>1, FS_Subset

LEMMA FiniteUe == IsFiniteSet(Ue)
  BY CellFacts, FS_Interval DEF Ue

LEMMA RbsEmpty == Rbs({}) = 0
<1>1. {} \cap ShortRbg = {} /\ Cardinality({}) = 0
  BY FS_EmptySet
<1>2. QED
  BY <1>1, CellFacts DEF Rbs

LEMMA GrantedRange ==
  ASSUME NEW i \in Rbg
  PROVE  /\ GrantedRbs(i) \in 1 .. 4
         /\ i \notin ShortRbg => GrantedRbs(i) = MinRbUnit
         /\ i \in ShortRbg => GrantedRbs(i) = Slack + 1
  BY CellFacts DEF GrantedRbs

\* One more group is that many more resource blocks.
LEMMA RbsAdd ==
  ASSUME NEW S \in SUBSET Rbg, NEW i \in Rbg, i \notin S
  PROVE  Rbs(S \cup {i}) = Rbs(S) + GrantedRbs(i)
<1> DEFINE T == S \cap ShortRbg
<1>1. IsFiniteSet(S) /\ IsFiniteSet(T)
  BY FiniteGroups
<1>2. Cardinality(S) \in Nat /\ Cardinality(T) \in Nat
  BY <1>1, FS_CardinalityType
<1>3. Cardinality(S \cup {i}) = Cardinality(S) + 1
  BY <1>1, FS_AddElement
<1>4. MinRbUnit * (Cardinality(S) + 1) = MinRbUnit * Cardinality(S) + MinRbUnit
  <2>1. MinRbUnit \in {1, 2, 3, 4}
    BY CellFacts
  <2>2. QED
    BY <2>1, <1>2
<1>5. CASE i \in ShortRbg
  <2>1. (S \cup {i}) \cap ShortRbg = T \cup {i} /\ i \notin T
    BY <1>5
  <2>2. Cardinality((S \cup {i}) \cap ShortRbg) = Cardinality(T) + 1
    BY <2>1, <1>1, FS_AddElement
  <2>3. QED
    BY <1>2, <1>3, <1>4, <1>5, <2>2, CellFacts DEF Rbs, GrantedRbs
<1>6. CASE i \notin ShortRbg
  <2>1. (S \cup {i}) \cap ShortRbg = T
    BY <1>6
  <2>2. /\ Rbs(S \cup {i}) = MinRbUnit * (Cardinality(S) + 1) - Cardinality(T)
        /\ Rbs(S) = MinRbUnit * Cardinality(S) - Cardinality(T)
    BY <1>3, <2>1 DEF Rbs
  <2>3. GrantedRbs(i) = MinRbUnit /\ MinRbUnit * Cardinality(S) \in Nat
    BY <1>2, <1>6, CellFacts DEF GrantedRbs
  <2>4. QED
    BY <1>2, <1>4, <2>2, <2>3, CellFacts
<1>7. QED
  BY <1>5, <1>6

LEMMA BitmapSubset ==
  ASSUME NEW S \in SUBSET Rbg, NEW nb
  PROVE  Bitmap(Marked(S, nb), nb) \subseteq S
  BY DEF Bitmap, Marked

\* The search for a number of RBs gives a natural number.
LEMMA GrowType ==
  ASSUME NEW try \in Nat, NEW n \in Nat, NEW limit \in Nat
  PROVE  Grow(try, n, limit) \in Nat
<1> DEFINE steps == IF n <= try THEN 0 ELSE (n - try + MinRbUnit - 1) \div MinRbUnit
<1>1. steps \in Nat
  <2>1. MinRbUnit \in {1, 2, 3, 4}
    BY CellFacts
  <2>2. \A m \in Nat : m \div 1 \in Nat /\ m \div 2 \in Nat /\ m \div 3 \in Nat /\ m \div 4 \in Nat
    OBVIOUS
  <2>3. QED
    BY <2>1, <2>2
<1>2. \A s \in Nat : try + s * MinRbUnit \in Nat
  BY CellFacts
<1> HIDE DEF steps
<1>3. (IF steps > 0 /\ try + steps * MinRbUnit > limit THEN limit ELSE try + steps * MinRbUnit) \in Nat
  BY <1>1, <1>2
<1>4. QED
  BY <1>3 DEF Grow, steps

LEMMA FirstTryType == ASSUME NEW small PROVE FirstTry(small) \in Nat
  BY CellFacts DEF FirstTry

LEMMA RequiredType ==
  ASSUME TypeOK, NEW u \in Ue
  PROVE  Required(u) \in Nat
<1>1. report[u].demand \in Nat
  <2>1. report[u] \in Report \/ report[u] = NoReport
    BY DEF TypeOK
  <2>2. CASE report[u] \in Report
    BY <2>2, RbAssumption DEF RbAssumption, Report
  <2>3. CASE report[u] = NoReport
    BY <2>3 DEF NoReport
  <2>4. QED
    BY <2>1, <2>2, <2>3
<1>2. nbScheduled[u] \in Nat
  BY DEF TypeOK
<1>3. Grow(FirstTry(report[u].small), report[u].demand, Bandwidth) \in Nat
  BY <1>1, GrowType, FirstTryType, CellFacts
<1>4. QED
  BY <1>1, <1>2, <1>3 DEF Required

LEMMA AverageType == Average \in Nat
<1> DEFINE n == Cardinality(Counted)
<1>1. n \in Nat
  BY FiniteUe, FS_Subset, FS_CardinalityType DEF Counted
<1>2. ASSUME NEW k \in Nat \ {0} PROVE Bandwidth \div k \in Nat
  BY <1>2, CellFacts
<1> HIDE DEF n
<1>3. (IF n = 0 THEN 0 ELSE IF MinRbUnit * n <= Bandwidth THEN Bandwidth \div n ELSE MinRbUnit) \in Nat
  BY <1>1, <1>2, CellFacts
<1>4. QED
  BY <1>3 DEF Average, n

LEMMA ShareType ==
  ASSUME TypeOK, NEW u \in Ue
  PROVE  ShareOf(u) \in Nat /\ ShareOf(u) <= Required(u)
  BY RequiredType, AverageType DEF ShareOf

-----------------------------------------------------------------------------
LEMMA InitInv == Init => Inv
<1> SUFFICES ASSUME Init PROVE Inv
  OBVIOUS
<1> USE CellFacts DEF Init, Zero
<1>1. TypeOK
  BY DEF TypeOK, Ue, Rbg, Report, NoReport, Assignment, NoAssignment
<1>2. Exclusive
  BY DEF Exclusive
<1>3. Accounting
  BY RbsEmpty DEF Accounting
<1>4. BitmapWithin
  BY DEF BitmapWithin, NoAssignment
<1>5. Quotas
  BY DEF Quotas, QuotaKept, Fresh, FirstRound, SecondRound
<1>6. QED
  BY <1>1, <1>2, <1>3, <1>4, <1>5 DEF Inv

LEMMA TypeStep == TypeOK /\ Quotas /\ [Next]_vars => TypeOK'
<1> SUFFICES ASSUME TypeOK, Quotas, [Next]_vars PROVE TypeOK'
  OBVIOUS
<1> USE CellFacts DEF subframe, wants, grants
<1>1. CASE StartSubframe
  BY <1>1 DEF StartSubframe, TypeOK, Orders
<1>2. CASE AssignRequired
  BY <1>2, RequiredType, ShareType DEF AssignRequired, TypeOK
<1>3. CASE BeginRound
  <2>1. ASSUME NEW u \in Ue PROVE Quota(u) \in Nat
    BY DEF Quota, TypeOK, Quotas, QuotaKept
  <2>2. QED
    BY <1>3, <2>1 DEF BeginRound, TypeOK, Rbg
<1>4. CASE SkipUe
  BY <1>4 DEF SkipUe, TypeOK
<1>5. CASE TakeRbg
  <2> DEFINE u == order[turn]
  <2>1. turn \in Ue /\ u \in Ue /\ turn + 1 \in 1 .. NumUe + 1
    BY <1>5 DEF TakeRbg, Visiting, TypeOK, Ue
  <2>2. GrantedRbs(rbg) \in Nat /\ rbg \in Rbg
    BY GrantedRange DEF TypeOK
  <2>3. remaining[u] \in Nat /\ available[u] \in Nat
    BY <2>1 DEF TypeOK
  <2>4. rbg' \in Rbg /\ turn' \in 1 .. NumUe + 1
    BY <1>5, <2>1, <2>2 DEF TakeRbg, NextRbg, TypeOK, Rbg
  <2>5. remaining' \in [Ue -> Nat] /\ available' \in [Ue -> Nat]
    BY <1>5, <2>1, <2>2, <2>3 DEF TakeRbg, TypeOK
  <2>6. vrb' \subseteq Rbg /\ alloc' \in [Ue -> SUBSET Rbg]
    BY <1>5, <2>2 DEF TakeRbg, TypeOK
  <2>7. QED
    BY <1>5, <2>4, <2>5, <2>6 DEF TakeRbg, TypeOK
<1>6. CASE PassRbg
  BY <1>6 DEF PassRbg, Visiting, NextRbg, TypeOK, Rbg
<1>7. CASE EndFirstRound
  BY <1>7 DEF EndFirstRound, TypeOK
<1>8. CASE EndSecondRound
  BY <1>8 DEF EndSecondRound, TypeOK
<1>9. ASSUME NEW u \in Ue, PassUe(u) PROVE TypeOK'
  BY <1>9 DEF PassUe, AtTurn, TypeOK
<1>10. ASSUME NEW u \in Ue, Retransmit(u) PROVE TypeOK'
  BY <1>10, BitmapSubset DEF Retransmit, Assigned, AtTurn, TypeOK, Assignment
<1>11. ASSUME NEW u \in Ue, Transmit(u) PROVE TypeOK'
  <2>1. PICK n \in (Demands \cup {available[u]}) \cap (1 .. available[u]) :
          LET nb == Grow(FirstTry(report[u].small), n, available[u])
          IN  /\ dci' = [dci EXCEPT ![u] = Assigned(u, nb)]
              /\ nbScheduled' = [nbScheduled EXCEPT ![u] = nb]
    BY <1>11 DEF Transmit
  <2> DEFINE nb == Grow(FirstTry(report[u].small), n, available[u])
  <2>2. n \in Nat /\ available[u] \in Nat
    BY DEF TypeOK
  <2>3. nb \in Nat
    BY <2>2, GrowType, FirstTryType
  <2> HIDE DEF nb
  <2>4. Assigned(u, nb) \in Assignment
    BY <2>3, BitmapSubset DEF Assigned, Assignment, TypeOK
  <2>5. QED
    BY <1>11, <2>1, <2>3, <2>4 DEF Transmit, AtTurn, TypeOK, nb
<1>12. CASE EndSubframe
  BY <1>12 DEF EndSubframe, TypeOK, Zero, Assignment, NoAssignment, Ue
<1>13. CASE UNCHANGED vars
  BY <1>13 DEF vars, TypeOK
<1>14. QED
  BY <1>1, <1>2, <1>3, <1>4, <1>5, <1>6, <1>7, <1>8, <1>9, <1>10, <1>11, <1>12, <1>13 DEF Next

LEMMA ExclusiveStep == TypeOK /\ Exclusive /\ [Next]_vars => Exclusive'
<1> SUFFICES ASSUME TypeOK, Exclusive, [Next]_vars PROVE Exclusive'
  OBVIOUS
<1> USE DEF subframe, wants, grants
<1>1. CASE TakeRbg
  <2>1. order[turn] \in Ue
    BY <1>1, CellFacts DEF TakeRbg, Visiting, TypeOK, Ue
  <2>2. rbg \notin vrb
    BY <1>1 DEF TakeRbg, MayTake
  <2>3. alloc \in [Ue -> SUBSET Rbg]
    BY DEF TypeOK
  <2>4. QED
    BY <1>1, <2>1, <2>2, <2>3 DEF TakeRbg, Exclusive
<1>2. CASE EndSubframe
  BY <1>2 DEF EndSubframe, Exclusive
<1>3. CASE UNCHANGED <<vrb, alloc>>
  BY <1>3 DEF Exclusive
<1>4. QED
  BY <1>1, <1>2, <1>3 DEF Next, vars, StartSubframe, AssignRequired, BeginRound, SkipUe,
     PassRbg, EndFirstRound, EndSecondRound, PassUe, Retransmit, Transmit, AtTurn

LEMMA AccountingStep == TypeOK /\ Accounting /\ [Next]_vars => Accounting'
<1> SUFFICES ASSUME TypeOK, Accounting, [Next]_vars PROVE Accounting'
  OBVIOUS
<1> USE DEF subframe, wants, grants
<1>1. CASE TakeRbg
  <2>1. order[turn] \in Ue /\ rbg \in Rbg /\ rbg \notin alloc[order[turn]]
    BY <1>1, CellFacts DEF TakeRbg, Visiting, MayTake, TypeOK, Ue
  <2>2. alloc \in [Ue -> SUBSET Rbg] /\ available \in [Ue -> Nat]
    BY DEF TypeOK
  <2> SUFFICES ASSUME NEW u \in Ue PROVE available'[u] = Rbs(alloc'[u])
    BY DEF Accounting, Rbs, MinRbUnit, ShortRbg, NbRbg
  <2>3. CASE u = order[turn]
    <3>1. available'[u] = available[u] + GrantedRbs(rbg) /\ alloc'[u] = alloc[u] \cup {rbg}
      BY <1>1, <2>1, <2>2, <2>3 DEF TakeRbg
    <3>2. Rbs(alloc[u] \cup {rbg}) = Rbs(alloc[u]) + GrantedRbs(rbg)
      BY <2>1, <2>2, <2>3, RbsAdd
    <3>3. QED
      BY <3>1, <3>2 DEF Accounting
  <2>4. CASE u # order[turn]
    BY <1>1, <2>2, <2>4 DEF TakeRbg, Accounting
  <2>5. QED
    BY <2>3, <2>4
<1>2. CASE EndSubframe
  BY <1>2, RbsEmpty DEF EndSubframe, Accounting, Zero
<1>3. CASE UNCHANGED <<alloc, available>>
  BY <1>3 DEF Accounting
<1>4. QED
  BY <1>1, <1>2, <1>3 DEF Next, vars, StartSubframe, AssignRequired, BeginRound, SkipUe,
     PassRbg, EndFirstRound, EndSecondRound, PassUe, Retransmit, Transmit, AtTurn

LEMMA BitmapStep == TypeOK /\ BitmapWithin /\ [Next]_vars => BitmapWithin'
<1> SUFFICES ASSUME TypeOK, BitmapWithin, [Next]_vars PROVE BitmapWithin'
  OBVIOUS
<1> USE DEF subframe, wants, grants
<1>1. CASE TakeRbg
  BY <1>1 DEF TakeRbg, BitmapWithin, TypeOK
<1>2. ASSUME NEW u \in Ue, Retransmit(u) PROVE BitmapWithin'
  BY <1>2, BitmapSubset DEF Retransmit, Assigned, AtTurn, BitmapWithin, TypeOK
<1>3. ASSUME NEW u \in Ue, Transmit(u) PROVE BitmapWithin'
  <2>1. PICK nb : dci' = [dci EXCEPT ![u] = Assigned(u, nb)]
    BY <1>3 DEF Transmit
  <2>2. Assigned(u, nb).bitmap \subseteq alloc[u]
    BY BitmapSubset DEF Assigned, TypeOK
  <2>3. QED
    BY <1>3, <2>1, <2>2 DEF Transmit, AtTurn, BitmapWithin, TypeOK
<1>4. CASE EndSubframe
  BY <1>4 DEF EndSubframe, BitmapWithin, NoAssignment
<1>5. CASE UNCHANGED <<alloc, dci>>
  BY <1>5 DEF BitmapWithin
<1>6. QED
  BY <1>1, <1>2, <1>3, <1>4, <1>5 DEF Next, vars, StartSubframe, AssignRequired,
     BeginRound, SkipUe, PassRbg, EndFirstRound, EndSecondRound, PassUe, AtTurn

LEMMA QuotasStep == TypeOK /\ Quotas /\ [Next]_vars => Quotas'
<1> SUFFICES ASSUME TypeOK, Quotas, [Next]_vars, NEW u \in Ue PROVE QuotaKept(u)'
  BY DEF Quotas
<1> USE CellFacts DEF subframe, wants, grants, Fresh, FirstRound, SecondRound
<1>1. QuotaKept(u)
  BY DEF Quotas
<1>2. /\ {required[u], share[u], remaining[u], available[u]} \subseteq Nat
      /\ round \in 0 .. 1
      /\ {required, share, remaining, available} \subseteq [Ue -> Nat]
  BY DEF TypeOK
<1>3. Slack' = Slack
  BY DEF Slack, ShortRbg, NbRbg, MinRbUnit
<1>4. CASE StartSubframe
  BY <1>1, <1>3, <1>4 DEF StartSubframe, QuotaKept
<1>5. CASE AssignRequired
  BY <1>1, <1>3, <1>5, ShareType DEF AssignRequired, QuotaKept
<1>6. CASE BeginRound
  BY <1>1, <1>2, <1>3, <1>6 DEF BeginRound, QuotaKept, Quota
<1>7. CASE SkipUe
  BY <1>1, <1>3, <1>7 DEF SkipUe, QuotaKept
<1>8. CASE TakeRbg
  <2> DEFINE g == GrantedRbs(rbg)
  <2>1. order[turn] \in Ue /\ rbg \in Rbg
    BY <1>8 DEF TakeRbg, Visiting, TypeOK, Ue
  <2>2. CASE u # order[turn]
    BY <1>1, <1>2, <1>3, <1>8, <2>1, <2>2 DEF TakeRbg, Visiting, QuotaKept
  <2>3. CASE u = order[turn]
    <3>1. /\ pc = "visit" /\ pc' = "visit" /\ round' = round
          /\ share' = share /\ required' = required
          /\ remaining[u] > 0 /\ available[u] < required[u]
          /\ rbg \in ShortRbg \/ remaining[u] >= MinRbUnit
      BY <1>8, <2>3 DEF TakeRbg, Visiting, MayTake, Fits
    <3>2. /\ available'[u] = available[u] + g
          /\ remaining'[u] = IF remaining[u] - g <= 0 THEN 0 ELSE remaining[u] - g
      BY <1>2, <1>8, <2>1, <2>3 DEF TakeRbg
    <3>3. g \in 1 .. 4 /\ (rbg \notin ShortRbg => g = MinRbUnit) /\ (rbg \in ShortRbg => g = Slack + 1)
      BY <2>1, GrantedRange
    <3> HIDE DEF g
    <3>4. QED
      BY <1>1, <1>2, <1>3, <3>1, <3>2, <3>3 DEF QuotaKept
  <2>4. QED
    BY <2>2, <2>3
<1>9. CASE PassRbg
  BY <1>1, <1>3, <1>9 DEF PassRbg, Visiting, QuotaKept
<1>10. CASE EndFirstRound
  BY <1>1, <1>3, <1>10 DEF EndFirstRound, QuotaKept
<1>11. CASE EndSecondRound
  BY <1>1, <1>3, <1>11 DEF EndSecondRound, QuotaKept
<1>12. ASSUME NEW v \in Ue, PassUe(v) \/ Retransmit(v) \/ Transmit(v) PROVE QuotaKept(u)'
  BY <1>1, <1>3, <1>12 DEF PassUe, Retransmit, Transmit, AtTurn, QuotaKept
<1>13. CASE EndSubframe
  BY <1>3, <1>13 DEF EndSubframe, QuotaKept, Zero
<1>14. CASE UNCHANGED vars
  BY <1>1, <1>3, <1>14 DEF vars, QuotaKept
<1>15. QED
  BY <1>4, <1>5, <1>6, <1>7, <1>8, <1>9, <1>10, <1>11, <1>12, <1>13, <1>14 DEF Next

LEMMA QuotasBound == TypeOK /\ Quotas => WithinQuota
<1> SUFFICES ASSUME TypeOK, Quotas, NEW u \in Ue
             PROVE  /\ available[u] <= required[u] + Slack
                    /\ pc = "visit" /\ round = 0 => available[u] <= share[u] + Slack
  BY DEF WithinQuota
<1>1. QuotaKept(u)
  BY DEF Quotas
<1>2. {required[u], share[u], remaining[u], available[u]} \subseteq Nat /\ round \in 0 .. 1
      /\ pc \in {"idle", "assign", "round", "visit", "schedule"}
  BY DEF TypeOK
<1>3. QED
  BY <1>1, <1>2, CellFacts DEF QuotaKept, Fresh, FirstRound, SecondRound

LEMMA Invariance == Spec => []Inv
<1>1. Inv /\ [Next]_vars => Inv'
  BY TypeStep, ExclusiveStep, AccountingStep, BitmapStep, QuotasStep DEF Inv
<1>2. QED
  BY <1>1, InitInv, PTL DEF Spec

-----------------------------------------------------------------------------
\* The state of the preprocessor and of the scheduling loop keeps its types: no
\* count goes below zero, no index leaves the cell's groups.
THEOREM TypeCorrect == Spec => []TypeOK
  BY Invariance, PTL DEF Inv

\* For every cell and every number of UEs, no group of resource blocks is held by
\* two UEs, and the cell's map is the union of theirs.
THEOREM GroupsExclusive == Spec => []Exclusive
  BY Invariance, PTL DEF Inv

\* For every cell, the count of a UE's resource blocks is that of its groups.
THEOREM CountsExact == Spec => []Accounting
  BY Invariance, PTL DEF Inv

\* For every cell and every load, the first round keeps a UE within its share and
\* the second within its requirement, but for the one block of the short group.
THEOREM RoundsWithinQuota == Spec => []WithinQuota
  BY Invariance, QuotasBound, PTL DEF Inv

-----------------------------------------------------------------------------
(* The bitmaps of the assignments.                                          *)

\* A set of groups has a first one.
LEMMA FirstGroup ==
  ASSUME NEW T \in SUBSET Rbg, T # {}
  PROVE  \E i \in T : \A k \in T : i <= k
<1> DEFINE Closed == {U \in SUBSET T : U # {} /\ \A i \in U, k \in T : k < i => k \in U}
           R == StrictSubsetOrdering(T)
<1>1. IsFiniteSet(T) /\ \A i \in T : i \in Int
  <2>1. \A i \in Rbg : i \in Int
    BY CellFacts DEF Rbg
  <2> QED
    BY <2>1, FiniteGroups
<1>2. IsWellFoundedOn(R, SUBSET T)
  BY <1>1, FS_StrictSubsetOrderingWellFounded, FS_FiniteSubsetsOfFinite
<1>3. Closed \subseteq SUBSET T /\ Closed # {}
  <2>1. T \in Closed
    OBVIOUS
  <2> QED
    BY <2>1
<1>4. PICK U \in Closed : \A V \in Closed : ~(<<V, U>> \in R)
  <2> HIDE DEF R, Closed
  <2> QED
    BY <1>2, <1>3, WFMin
<1>5. PICK i \in U : TRUE
  OBVIOUS
<1>6. i \in T /\ i \in Int
  BY <1>1
<1>7. ASSUME NEW k \in T, k < i PROVE FALSE
  <2> DEFINE V == {j \in U : j < i}
  <2>1. V \in Closed
    <3>1. k \in V
      BY <1>4, <1>5, <1>7
    <3>2. ASSUME NEW j \in V, NEW h \in T, h < j PROVE h \in V
      BY <1>1, <1>4, <1>6, <3>2
    <3> QED
      BY <1>4, <3>1, <3>2
  <2>2. V \subseteq U /\ V # U
    BY <1>5, <1>6
  <2>3. <<V, U>> \in R
    BY <2>1, <2>2 DEF StrictSubsetOrdering
  <2> QED
    BY <1>4, <2>1, <2>3
<1> QED
  BY <1>1, <1>6, <1>7

\* More groups are more resource blocks.
LEMMA RbsGrow ==
  ASSUME NEW S \in SUBSET Rbg, NEW T \in SUBSET S
  PROVE  /\ Rbs(S) \in Nat /\ Rbs(T) \in Nat /\ Rbs(T) <= Rbs(S)
         /\ T # S => Rbs(T) < Rbs(S)
<1>1. ASSUME NEW U \in SUBSET Rbg
      PROVE  /\ Cardinality(U) \in Nat /\ Cardinality(U \cap ShortRbg) \in Nat
             /\ Cardinality(U \cap ShortRbg) <= Cardinality(U)
             /\ ShortRbg = {} => Cardinality(U \cap ShortRbg) = 0
             /\ Cardinality(U) = 0 <=> U = {}
  <2>1. IsFiniteSet(U) /\ IsFiniteSet(U \cap ShortRbg)
    BY FiniteGroups
  <2> QED
    BY <2>1, FS_CardinalityType, FS_Intersection, FS_EmptySet
<1>2. ASSUME NEW U \in SUBSET Rbg PROVE Rbs(U) \in Nat /\ (U # {} => Rbs(U) > 0)
  <2>1. PICK n \in Nat : n = Cardinality(U)
    BY <1>1
  <2>2. PICK m \in Nat : m = Cardinality(U \cap ShortRbg)
    BY <1>1
  <2>3. m <= n /\ (ShortRbg = {} => m = 0) /\ (n = 0 <=> U = {})
    BY <1>1, <2>1, <2>2
  <2>4. MinRbUnit \in {1, 2, 3, 4} /\ (ShortRbg # {} => MinRbUnit \in {2, 3})
    BY CellFacts
  <2>5. MinRbUnit * n - m \in Nat /\ (n # 0 => MinRbUnit * n - m > 0)
    BY <2>3, <2>4
  <2> QED
    BY <2>1, <2>2, <2>3, <2>5 DEF Rbs
<1>3. Rbs(S) = Rbs(T) + Rbs(S \ T)
  <2>1. IsFiniteSet(S) /\ IsFiniteSet(S \cap ShortRbg)
    BY FiniteGroups
  <2>2. Cardinality(S \ T) = Cardinality(S) - Cardinality(T)
    <3>1. S \cap T = T
      OBVIOUS
    <3>2. Cardinality(S \ T) = Cardinality(S) - Cardinality(S \cap T)
      BY <2>1, FS_Difference
    <3> QED
      BY <3>1, <3>2
  <2>3. Cardinality((S \ T) \cap ShortRbg) = Cardinality(S \cap ShortRbg) - Cardinality(T \cap ShortRbg)
    <3>1. (S \ T) \cap ShortRbg = (S \cap ShortRbg) \ T /\ (S \cap ShortRbg) \cap T = T \cap ShortRbg
      OBVIOUS
    <3>2. Cardinality((S \cap ShortRbg) \ T) = Cardinality(S \cap ShortRbg) - Cardinality((S \cap ShortRbg) \cap T)
      BY <2>1, FS_Difference
    <3> QED
      BY <3>1, <3>2
  <2>4. PICK n \in Nat, m \in Nat, x \in Nat, y \in Nat :
           /\ n = Cardinality(S) /\ m = Cardinality(T)
           /\ x = Cardinality(S \cap ShortRbg) /\ y = Cardinality(T \cap ShortRbg)
    BY <1>1
  <2>5. MinRbUnit \in {1, 2, 3, 4}
    BY CellFacts
  <2>6. MinRbUnit * n - x = (MinRbUnit * m - y) + (MinRbUnit * (n - m) - (x - y))
    BY <2>4, <2>5
  <2> QED
    BY <2>2, <2>3, <2>4, <2>6 DEF Rbs
<1>4. PICK s \in Nat, t \in Nat, d \in Nat : s = Rbs(S) /\ t = Rbs(T) /\ d = Rbs(S \ T)
  BY <1>2
<1>5. s = t + d /\ (T # S => d > 0)
  BY <1>2, <1>3, <1>4
<1> QED
  BY <1>4, <1>5

\* However many resource blocks an assignment was sized for, the loops mark groups for
\* as many, or all there are.
LEMMA BitmapCarries ==
  ASSUME NEW S \in SUBSET Rbg, NEW nb \in Nat
  PROVE  Rbs(Bitmap(Marked(S, nb), nb)) >= IF nb <= Rbs(S) THEN nb ELSE Rbs(S)
<1> DEFINE M == Marked(S, nb)  B == Bitmap(M, nb)
<1> SUFFICES Rbs(B) >= IF nb <= Rbs(S) THEN nb ELSE Rbs(S)
  OBVIOUS
<1>0. \A i \in S : i \in Int
  BY CellFacts DEF Rbg
<1>1. \A i : Below(S, i) \in SUBSET Rbg /\ Below(S, i) \in SUBSET S
  BY DEF Below
<1>2. Rbs(S) \in Nat /\ \A i : Rbs(Below(S, i)) \in Nat
  BY <1>1, RbsGrow
<1>3. ASSUME NEW i \in S, NEW k \in S, k < i PROVE Rbs(Below(S, k)) <= Rbs(Below(S, i))
  <2>1. Below(S, k) \subseteq Below(S, i)
    BY <1>0, <1>3 DEF Below
  <2> QED
    BY <1>1, <2>1, RbsGrow
<1>4. ASSUME NEW i \in S PROVE Rbs(Below(S, i)) < Rbs(S)
  <2>1. Below(S, i) # S
    BY <1>0 DEF Below
  <2> QED
    BY <1>1, <2>1, RbsGrow
<1>5. CASE nb = Rbs(S)
  <2>1. M = S
    BY <1>5 DEF Marked
  <2>2. B = S
    BY <1>4, <1>5, <2>1 DEF Bitmap
  <2> QED
    BY <1>2, <1>5, <2>2
<1>6. CASE nb # Rbs(S)
  <2>1. M = {i \in S : \A k \in S : k <= i => Rbs(Below(S, k)) # nb}
    BY <1>6 DEF Marked
  <2>2. ASSUME NEW i \in M, NEW k \in S, k < i PROVE k \in M
    <3>1. i \in Int /\ k \in Int /\ \A h \in S : h <= k => h <= i
      BY <1>0, <2>1, <2>2
    <3> QED
      BY <2>1, <3>1
  <2>3. \A i \in M : Below(M, i) = Below(S, i)
    BY <2>1, <2>2 DEF Below
  <2> HIDE DEF M
  <2>4. B = {i \in M : Rbs(Below(S, i)) < nb}
    BY <2>3 DEF Bitmap
  <2>5. M \subseteq S /\ B \subseteq S
    BY <2>1, <2>4
  <2> HIDE DEF B
  <2>6. \A i \in B, k \in S : k < i => k \in B
    BY <1>2, <1>3, <2>2, <2>4, <2>5
  <2>7. CASE B = S
    BY <1>2, <2>7
  <2>8. CASE B # S
    <3>1. S \ B \in SUBSET Rbg /\ S \ B # {}
      BY <2>5, <2>8
    <3>2. PICK i \in S \ B : \A k \in S \ B : i <= k
      BY <3>1, FirstGroup
    <3>4. i \in Int /\ i \in S /\ i \notin B
      BY <1>0, <3>2
    <3>3. B = Below(S, i)
      <4>1. ASSUME NEW k \in B PROVE k \in S /\ k < i
        BY <1>0, <2>5, <2>6, <3>4
      <4>2. ASSUME NEW k \in S, k < i PROVE k \in B
        BY <1>0, <3>2, <3>4, <4>2
      <4> QED
        BY <2>5, <4>1, <4>2 DEF Below
    <3>5. CASE i \in M
      <4>1. ~(Rbs(Below(S, i)) < nb)
        BY <2>4, <3>4, <3>5
      <4> QED
        BY <1>2, <1>4, <3>3, <3>4, <4>1
    <3>6. CASE i \notin M
      <4>1. PICK k \in S : k <= i /\ Rbs(Below(S, k)) = nb
        BY <2>1, <3>4, <3>6
      <4>2. k \notin B
        BY <1>2, <2>4, <4>1
      <4>3. k = i
        BY <1>0, <3>2, <3>4, <4>1, <4>2
      <4> QED
        BY <1>2, <1>4, <3>3, <3>4, <4>1, <4>3
    <3> QED
      BY <3>5, <3>6
  <2> QED
    BY <2>7, <2>8
<1> QED
  BY <1>5, <1>6

\* What the assignments of this subframe carry.
Carried ==
  /\ \A u \in Ue : Rbs(dci[u].bitmap) >= IF dci[u].nb <= available[u] THEN dci[u].nb ELSE available[u]
  /\ pc # "schedule" => dci = [u \in Ue |-> NoAssignment]

LEMMA CarriedStep == Inv /\ Carried /\ [Next]_vars => Carried'
<1> SUFFICES ASSUME Inv, Carried, [Next]_vars PROVE Carried'
  OBVIOUS
<1> USE DEF subframe, wants, grants
<1>1. available \in [Ue -> Nat] /\ alloc \in [Ue -> SUBSET Rbg] /\ dci \in [Ue -> Assignment]
  BY DEF Inv, TypeOK
<1>2. ASSUME NEW u \in Ue, NEW nb \in Nat, AtTurn(u), dci' = [dci EXCEPT ![u] = Assigned(u, nb)]
      PROVE  Carried'
  <2>1. UNCHANGED <<pc, available>> /\ pc = "schedule"
    BY <1>2 DEF AtTurn
  <2>2. ASSUME NEW v \in Ue
        PROVE  Rbs(dci'[v].bitmap) >= IF dci'[v].nb <= available[v] THEN dci'[v].nb ELSE available[v]
    <3>1. CASE v = u
      <4>1. dci'[v] = Assigned(u, nb)
        BY <1>1, <1>2, <3>1
      <4>2. dci'[v].nb = nb /\ dci'[v].bitmap = Bitmap(Marked(alloc[u], nb), nb)
        BY <4>1 DEF Assigned
      <4>3. Rbs(Bitmap(Marked(alloc[u], nb), nb)) >= IF nb <= Rbs(alloc[u]) THEN nb ELSE Rbs(alloc[u])
        BY <1>1, BitmapCarries
      <4>4. available[v] = Rbs(alloc[u])
        BY <3>1 DEF Inv, Accounting
      <4> QED
        BY <4>2, <4>3, <4>4
    <3>2. CASE v # u
      <4>1. dci'[v] = dci[v]
        BY <1>1, <1>2, <3>2
      <4> QED
        BY <4>1 DEF Carried
    <3> QED
      BY <3>1, <3>2
  <2>3. \A S : Rbs(S)' = Rbs(S)
    BY DEF Rbs, MinRbUnit, ShortRbg, NbRbg
  <2> QED
    BY <2>1, <2>2 DEF Carried, Rbs, MinRbUnit, ShortRbg, NbRbg
<1>3. ASSUME NEW u \in Ue, Retransmit(u) PROVE Carried'
  <2>1. required[u] \in Nat
    BY DEF Inv, TypeOK
  <2> QED
    BY <1>2, <1>3, <2>1 DEF Retransmit
<1>4. ASSUME NEW u \in Ue, Transmit(u) PROVE Carried'
  <2>1. PICK n \in (Demands \cup {available[u]}) \cap (1 .. available[u]) :
          dci' = [dci EXCEPT ![u] = Assigned(u, Grow(FirstTry(report[u].small), n, available[u]))]
    BY <1>4 DEF Transmit
  <2>2. n \in Nat /\ available[u] \in Nat
    BY <1>1
  <2>3. Grow(FirstTry(report[u].small), n, available[u]) \in Nat
    BY <2>2, GrowType, FirstTryType
  <2> QED
    BY <1>2, <1>4, <2>1, <2>3 DEF Transmit
<1>5. CASE dci' = [u \in Ue |-> NoAssignment] /\ available' \in [Ue -> Nat]
  <2>1. \A u \in Ue : dci'[u].bitmap = {} /\ dci'[u].nb = 0 /\ available'[u] \in Nat
    BY <1>5 DEF NoAssignment
  <2>2. \A u \in Ue : Rbs(dci'[u].bitmap) = 0
    BY <2>1, RbsEmpty
  <2>3. \A u \in Ue : Rbs(dci'[u].bitmap) >= IF dci'[u].nb <= available'[u] THEN dci'[u].nb ELSE available'[u]
    BY <2>1, <2>2
  <2> QED
    BY <1>5, <2>3 DEF Carried, Rbs, MinRbUnit, ShortRbg, NbRbg
<1>6. CASE pc # "schedule" /\ UNCHANGED dci
  <2>1. available' \in [Ue -> Nat]
    BY TypeStep DEF Inv, TypeOK
  <2> QED
    BY <1>5, <1>6, <2>1 DEF Carried
<1>7. CASE UNCHANGED <<pc, available, dci>>
  BY <1>7 DEF Carried, Rbs, MinRbUnit, ShortRbg, NbRbg
<1>8. CASE EndSubframe
  BY <1>5, <1>8 DEF EndSubframe, Zero
<1> QED
  BY <1>3, <1>4, <1>6, <1>7, <1>8 DEF Next, vars, StartSubframe, AssignRequired, BeginRound,
     SkipUe, TakeRbg, PassRbg, Visiting, EndFirstRound, EndSecondRound, PassUe, AtTurn

\* For every cell, the bitmaps of two assignments of a subframe do not overlap, lie
\* within the groups of their UEs, and have resource blocks for what their transport
\* blocks were sized for, or all that the UE has: whatever the unsigned counter of the
\* marking loop does (flexible_scheduler.cc:577-595).
THEOREM AssignmentsCarryBlocks == Spec => []BitmapsCarryBlocks
<1>1. Init => Carried
  <2> SUFFICES ASSUME Init PROVE Carried
    OBVIOUS
  <2>1. \A u \in Ue : dci[u].bitmap = {} /\ dci[u].nb = 0 /\ available[u] = 0
    BY DEF Init, NoAssignment, Zero
  <2> QED
    BY <2>1, RbsEmpty DEF Init, Carried
<1>2. Inv /\ Carried => BitmapsCarryBlocks
  BY DEF Inv, BitmapWithin, Exclusive, Carried, BitmapsCarryBlocks
<1> QED
  BY <1>1, <1>2, CarriedStep, Invariance, PTL DEF Spec

-----------------------------------------------------------------------------
(* The two rounds of the preprocessor leave nothing free that is needed.    *)

\* Only the groups of whole size count.
WholeRbg == Rbg \ ShortRbg

\* A UE that lacks less than a group, or found no group free up to group i.
ServedWith(needs, has, map, u, i) ==
  \/ needs[u] - has[u] < MinRbUnit
  \/ \A k \in WholeRbg : k < i => k \in map
ServedUpTo(u, i) == ServedWith(required, available, vrb, u, i)

\* Some UE that has a HARQ process has something to send.
SomeoneCounted == \E u \in Ue : report[u].harq # "none" /\ required[u] > 0

\* What a UE may still take in the second round is at least what it lacks, and after its
\* turn it lacks less than a group or none is free.
Conserving ==
  /\ \A j, k \in Ue : order[j] = order[k] => j = k
  /\ \A u \in Ue : FirstRound => available[u] + remaining[u] >= share[u]
  /\ \A u \in Ue : SecondRound => available[u] + remaining[u] >= required[u]
  /\ pc = "visit" /\ turn <= NumUe /\ required[order[turn]] = 0 => rbg = 0
  /\ pc = "visit" /\ round = 1 /\ SomeoneCounted =>
       /\ \A k \in Ue : k < turn => ServedUpTo(order[k], NbRbg)
       /\ turn <= NumUe => ServedUpTo(order[turn], rbg)
  /\ pc = "schedule" /\ SomeoneCounted => \A u \in Ue : ServedUpTo(u, NbRbg)

\* Every UE has its turn.
LEMMA EveryTurn ==
  ASSUME TypeOK, \A j, k \in Ue : order[j] = order[k] => j = k, NEW u \in Ue
  PROVE  \E k \in Ue : order[k] = u
<1>1. order \in Injection(Ue, Ue)
  BY DEF TypeOK, Injection, IsInjective
<1>2. order \in Surjection(Ue, Ue)
  BY <1>1, FiniteUe, FS_Injection
<1> QED
  BY <1>2 DEF Surjection

\* A step of a UE's turn that leaves it served up to the next group keeps Conserving.
LEMMA VisitConserves ==
  ASSUME Inv, Conserving, Visiting, NextRbg,
         UNCHANGED <<pc, round, report, order, required, share>>,
         vrb \subseteq vrb',
         \A v \in Ue : /\ available[v] \in Nat /\ available'[v] \in Nat
                        /\ remaining[v] \in Nat /\ remaining'[v] \in Nat
                        /\ available'[v] >= available[v]
                        /\ available'[v] + remaining'[v] >= available[v] + remaining[v],
         round = 1 /\ SomeoneCounted
           => ServedWith(required, available', vrb', order[turn], rbg + 1)
  PROVE  Conserving'
<1> USE CellFacts
<1>0. NbRbg' = NbRbg /\ MinRbUnit' = MinRbUnit /\ NumUe' = NumUe /\ Ue' = Ue
  BY DEF NbRbg, MinRbUnit, Ue
<1>1. /\ pc = "visit" /\ turn <= NumUe /\ required[order[turn]] > 0
      /\ turn \in Ue /\ rbg \in Rbg /\ turn \in Int /\ rbg \in Int /\ round \in 0 .. 1
      /\ \A v \in Ue : required[v] \in Nat /\ share[v] \in Nat /\ order[v] \in Ue /\ v \in Int
  BY DEF Visiting, Inv, TypeOK, Ue, Rbg
<1>2. \/ rbg < NbRbg - 1 /\ rbg' = rbg + 1 /\ turn' = turn
      \/ rbg + 1 = NbRbg /\ rbg' = 0 /\ turn' = turn + 1
  BY <1>1 DEF NextRbg, Rbg
<1>3. \A v \in Ue : FirstRound' => available'[v] + remaining'[v] >= share[v]
  <2> SUFFICES ASSUME NEW v \in Ue, FirstRound' PROVE available'[v] + remaining'[v] >= share[v]
    OBVIOUS
  <2>1. available[v] + remaining[v] >= share[v]
    BY DEF Conserving, FirstRound
  <2> QED
    BY <1>1, <2>1
<1>4. \A v \in Ue : SecondRound' => available'[v] + remaining'[v] >= required[v]
  <2> SUFFICES ASSUME NEW v \in Ue, SecondRound' PROVE available'[v] + remaining'[v] >= required[v]
    OBVIOUS
  <2>1. available[v] + remaining[v] >= required[v]
    BY DEF Conserving, SecondRound
  <2> QED
    BY <1>1, <2>1
<1>5. turn' <= NumUe /\ required[order[turn']] = 0 => rbg' = 0
  <2>1. required[order[turn]] # 0
    BY <1>1
  <2> QED
    BY <1>2, <2>1
<1>6. ASSUME NEW v \in Ue, NEW i, ServedWith(required, available, vrb, v, i)
      PROVE  ServedWith(required, available', vrb', v, i)
  BY <1>1, <1>6 DEF ServedWith
<1>7. ASSUME round = 1, SomeoneCounted
      PROVE  /\ \A k \in Ue : k < turn' => ServedWith(required, available', vrb', order[k], NbRbg)
             /\ turn' <= NumUe => ServedWith(required, available', vrb', order[turn'], rbg')
  <2>1. \A k \in Ue : k < turn => ServedWith(required, available', vrb', order[k], NbRbg)
    BY <1>1, <1>6, <1>7 DEF Conserving, ServedUpTo
  <2>2. \A k \in Ue : k < turn + 1 => k < turn \/ k = turn
    BY <1>1
  <2>3. \A v : ServedWith(required, available', vrb', v, 0)
    <3>1. \A k \in WholeRbg : ~(k < 0)
      BY DEF WholeRbg, Rbg
    <3> QED
      BY <3>1 DEF ServedWith
  <2> QED
    BY <1>2, <1>7, <2>1, <2>2, <2>3
<1>8. /\ pc' = pc /\ round' = round /\ order' = order /\ required' = required /\ share' = share
      /\ SomeoneCounted' <=> SomeoneCounted
  BY DEF SomeoneCounted
<1>9. /\ WholeRbg' = WholeRbg /\ \A j, k \in Ue : order[j] = order[k] => j = k
      /\ pc = "visit"
  BY <1>1 DEF Conserving, WholeRbg, Rbg, ShortRbg
<1> QED
  BY <1>0, <1>3, <1>4, <1>5, <1>7, <1>8, <1>9 DEF Conserving, ServedUpTo, SomeoneCounted

LEMMA ConservingStep == Inv /\ Conserving /\ [Next]_vars => Conserving'
<1> SUFFICES ASSUME Inv, Conserving, [Next]_vars PROVE Conserving'
  OBVIOUS
<1> USE CellFacts DEF subframe, wants, grants
<1>0. NbRbg' = NbRbg /\ MinRbUnit' = MinRbUnit /\ NumUe' = NumUe /\ Ue' = Ue
  BY DEF NbRbg, MinRbUnit, Ue
<1>1. TypeOK /\ TypeOK'
  BY TypeStep DEF Inv
<1>2. /\ {required, share, remaining, available} \subseteq [Ue -> Nat]
      /\ order \in [Ue -> Ue] /\ round \in 0 .. 1 /\ turn \in 1 .. NumUe + 1 /\ rbg \in Rbg
  BY <1>1 DEF TypeOK
<1>3. CASE StartSubframe
  <2>1. \A j, k \in Ue : j < k => order'[j] # order'[k]
    BY <1>3 DEF StartSubframe, Orders
  <2>2. \A j, k \in Ue : order'[j] = order'[k] => j = k
    <3>1. \A j, k \in Ue : j # k => j < k \/ k < j
      BY DEF Ue
    <3> QED
      BY <2>1, <3>1
  <2> QED
    BY <1>3, <2>2 DEF StartSubframe, Conserving, FirstRound, SecondRound
<1>4. CASE AssignRequired
  BY <1>4 DEF AssignRequired, Conserving, FirstRound, SecondRound
<1>5. CASE BeginRound
  <2>1. /\ UNCHANGED <<round, report, order, available, required, share>>
        /\ pc = "round" /\ pc' = "visit" /\ rbg' = 0
        /\ turn' = IF SomeoneCounted THEN 1 ELSE NumUe + 1
        /\ remaining' = [u \in Ue |-> IF required[u] > 0 THEN Quota(u) ELSE remaining[u]]
    BY <1>5 DEF BeginRound, SomeoneCounted
  <2>2. ASSUME NEW u \in Ue
        PROVE  /\ FirstRound' => available[u] + remaining'[u] >= share[u]
               /\ SecondRound' => available[u] + remaining'[u] >= required[u]
    <3>1. /\ required[u] \in Nat /\ share[u] \in Nat /\ remaining[u] \in Nat /\ available[u] \in Nat
          /\ share[u] <= required[u]
      BY <1>2 DEF Inv, Quotas, QuotaKept
    <3>2. CASE round = 0
      <4>1. ~SecondRound'
        BY <2>1, <3>2 DEF SecondRound
      <4>2. remaining'[u] = IF required[u] > 0 THEN share[u] ELSE remaining[u]
        BY <2>1, <3>2 DEF Quota
      <4> QED
        BY <3>1, <4>1, <4>2
    <3>3. CASE round = 1
      <4>1. ~FirstRound' /\ available[u] + remaining[u] >= share[u]
        BY <2>1, <3>3 DEF FirstRound, Conserving
      <4>2. remaining'[u] = IF required[u] > 0 THEN required[u] - share[u] + remaining[u] ELSE remaining[u]
        BY <2>1, <3>3 DEF Quota
      <4> QED
        BY <3>1, <4>1, <4>2
    <3> QED
      BY <1>2, <3>2, <3>3
  <2>3. SomeoneCounted' <=> SomeoneCounted
    BY <2>1 DEF SomeoneCounted
  <2>4. ASSUME SomeoneCounted
        PROVE  /\ \A k \in Ue : ~(k < turn')
               /\ ServedWith(required', available', vrb', order'[turn'], rbg')
    <3>1. turn' = 1 /\ \A k \in Ue : ~(k < 1)
      BY <2>1, <2>4 DEF Ue
    <3>2. \A k \in WholeRbg : ~(k < 0)
      BY DEF WholeRbg, Rbg
    <3> QED
      BY <2>1, <3>1, <3>2 DEF ServedWith
  <2> QED
    BY <1>0, <2>1, <2>2, <2>3, <2>4 DEF Conserving, ServedUpTo, SomeoneCounted
<1>7. CASE SkipUe
  <2>1. /\ UNCHANGED <<pc, round, report, order, rbg, vrb, available, remaining, required, share>>
        /\ turn' = turn + 1 /\ required[order[turn]] = 0 /\ turn <= NumUe /\ pc = "visit"
    BY <1>7 DEF SkipUe
  <2>2. turn \in Ue /\ order[turn] \in Ue /\ turn \in Int /\ \A k \in Ue : k \in Int
    BY <1>2, <2>1 DEF Ue
  <2>3. \A i : ServedWith(required, available, vrb, order[turn], i)
    <3>1. available[order[turn]] \in Nat
      BY <1>2, <2>2
    <3> QED
      BY <2>1, <3>1 DEF ServedWith
  <2>4. \A u \in Ue : FirstRound' => available[u] + remaining[u] >= share[u]
    BY <2>1 DEF Conserving, FirstRound
  <2>5. \A u \in Ue : SecondRound' => available[u] + remaining[u] >= required[u]
    BY <2>1 DEF Conserving, SecondRound
  <2>6. ASSUME round = 1, SomeoneCounted
        PROVE  /\ \A k \in Ue : k < turn + 1 => ServedWith(required, available, vrb, order[k], NbRbg)
               /\ turn + 1 <= NumUe => ServedWith(required, available, vrb, order[turn + 1], rbg)
    <3>1. \A k \in Ue : k < turn => ServedWith(required, available, vrb, order[k], NbRbg)
      BY <2>1, <2>6 DEF Conserving, ServedUpTo
    <3>2. \A k \in Ue : k < turn + 1 => k < turn \/ k = turn
      BY <2>2
    <3>3. ASSUME turn + 1 <= NumUe PROVE ServedWith(required, available, vrb, order[turn + 1], rbg)
      <4>1. rbg = 0 /\ \A k \in WholeRbg : ~(k < 0)
        BY <2>1 DEF Conserving, WholeRbg, Rbg
      <4> QED
        BY <4>1 DEF ServedWith
    <3> QED
      BY <2>3, <3>1, <3>2, <3>3
  <2>7. rbg' = 0
    BY <2>1 DEF Conserving
  <2> QED
    BY <1>0, <2>1, <2>4, <2>5, <2>6, <2>7 DEF Conserving, ServedUpTo, SomeoneCounted
<1>8. CASE TakeRbg
  <2> DEFINE u == order[turn]
             g == GrantedRbs(rbg)
  <2>1. /\ UNCHANGED <<pc, round, report, order, required, share>> /\ Visiting /\ NextRbg
        /\ pc = "visit" /\ turn <= NumUe /\ required[u] > 0
    BY <1>8 DEF TakeRbg, Visiting
  <2>2. turn \in Ue /\ u \in Ue
    BY <1>2, <2>1 DEF Ue
  <2>3. g \in 1 .. 4
    BY <1>2, GrantedRange
  <2>4. /\ vrb' = vrb \cup {rbg}
        /\ available' = [available EXCEPT ![u] = @ + g]
        /\ remaining' = [remaining EXCEPT ![u] = IF @ - g <= 0 THEN 0 ELSE @ - g]
    BY <1>8 DEF TakeRbg
  <2> HIDE DEF u, g
  <2>5. \A v \in Ue : /\ available[v] \in Nat /\ available'[v] \in Nat
                        /\ remaining[v] \in Nat /\ remaining'[v] \in Nat
                        /\ available'[v] >= available[v]
                        /\ available'[v] + remaining'[v] >= available[v] + remaining[v]
    <3> SUFFICES ASSUME NEW v \in Ue
                 PROVE  /\ available[v] \in Nat /\ available'[v] \in Nat
                        /\ remaining[v] \in Nat /\ remaining'[v] \in Nat
                        /\ available'[v] >= available[v]
                        /\ available'[v] + remaining'[v] >= available[v] + remaining[v]
      OBVIOUS
    <3>1. available[v] \in Nat /\ remaining[v] \in Nat /\ available \in [Ue -> Nat] /\ remaining \in [Ue -> Nat]
      BY <1>2
    <3>2. CASE v = u
      <4>1. available'[v] = available[v] + g
        BY <2>2, <2>4, <3>1, <3>2
      <4>2. remaining'[v] = IF remaining[v] - g <= 0 THEN 0 ELSE remaining[v] - g
        BY <2>2, <2>4, <3>1, <3>2
      <4> QED
        BY <2>3, <3>1, <4>1, <4>2
    <3>3. CASE v # u
      BY <2>4, <3>1, <3>3
    <3> QED
      BY <3>2, <3>3
  <2>6. ASSUME round = 1, SomeoneCounted
        PROVE  ServedWith(required, available', vrb', u, rbg + 1)
    <3>1. ServedWith(required, available, vrb, u, rbg)
      BY <2>1, <2>6 DEF Conserving, ServedUpTo, u
    <3>2. CASE required[u] - available[u] < MinRbUnit
      <4>1. required[u] \in Nat
        BY <1>2, <2>2
      <4> QED
        BY <2>2, <2>5, <3>2, <4>1 DEF ServedWith
    <3>3. CASE \A k \in WholeRbg : k < rbg => k \in vrb
      <4>1. \A k \in WholeRbg : k < rbg + 1 => k < rbg \/ k = rbg
        BY <1>2 DEF WholeRbg, Rbg
      <4> QED
        BY <2>4, <3>3, <4>1 DEF ServedWith
    <3> QED
      BY <3>1, <3>2, <3>3 DEF ServedWith
  <2>7. vrb \subseteq vrb'
    BY <2>4
  <2> QED
    BY <2>1, <2>5, <2>6, <2>7, VisitConserves DEF u
<1>9. CASE PassRbg
  <2> DEFINE u == order[turn]
  <2>1. /\ UNCHANGED <<pc, round, report, order, vrb, required, share, remaining, available>>
        /\ Visiting /\ NextRbg /\ pc = "visit" /\ turn <= NumUe
        /\ ~(MayTake(u, rbg) /\ Fits(u, rbg))
    BY <1>9 DEF PassRbg, Visiting
  <2>2. turn \in Ue /\ u \in Ue
    BY <1>2, <2>1 DEF Ue
  <2>3. available[u] \in Nat /\ required[u] \in Nat /\ remaining[u] \in Nat
    BY <1>2, <2>2
  <2> HIDE DEF u
  <2>4. ASSUME round = 1, SomeoneCounted
        PROVE  ServedWith(required, available, vrb, u, rbg + 1)
    <3>1. ServedWith(required, available, vrb, u, rbg)
      BY <2>1, <2>4 DEF Conserving, ServedUpTo, u
    <3>2. SUFFICES ASSUME \A k \in WholeRbg : k < rbg => k \in vrb
                   PROVE  ServedWith(required, available, vrb, u, rbg + 1)
      BY <3>1 DEF ServedWith
    <3>3. CASE rbg \in vrb \/ rbg \notin WholeRbg
      <4>1. \A k \in WholeRbg : k < rbg + 1 => k < rbg \/ k = rbg
        BY <1>2 DEF WholeRbg, Rbg
      <4> QED
        BY <3>2, <3>3, <4>1 DEF ServedWith
    <3>4. CASE rbg \notin vrb /\ rbg \in WholeRbg
      <4>1. rbg \notin alloc[u] /\ rbg \notin ShortRbg
        BY <2>2, <3>4 DEF Inv, Exclusive, WholeRbg
      <4>2. remaining[u] = 0 \/ available[u] >= required[u] \/ remaining[u] < MinRbUnit
        BY <2>1, <2>3, <3>4, <4>1 DEF MayTake, Fits
      <4>3. available[u] + remaining[u] >= required[u]
        BY <2>1, <2>2, <2>4 DEF Conserving, SecondRound
      <4>4. required[u] - available[u] < MinRbUnit
        BY <2>3, <4>2, <4>3
      <4> QED
        BY <4>4 DEF ServedWith
    <3> QED
      BY <3>3, <3>4
  <2>5. vrb \subseteq vrb' /\ \A v \in Ue : available[v] \in Nat /\ remaining[v] \in Nat
    BY <1>2, <2>1
  <2> QED
    BY <2>1, <2>4, <2>5, VisitConserves DEF u
<1>10. CASE EndFirstRound
  BY <1>10 DEF EndFirstRound, Conserving, FirstRound, SecondRound
<1>11. CASE EndSecondRound
  <2>1. /\ UNCHANGED <<report, order, vrb, available, remaining, required, share>>
        /\ pc = "visit" /\ pc' = "schedule" /\ turn > NumUe /\ round = 1
    BY <1>11 DEF EndSecondRound
  <2>2. ASSUME SomeoneCounted, NEW u \in Ue PROVE ServedUpTo(u, NbRbg)
    <3>1. PICK k \in Ue : order[k] = u
      BY <1>1, EveryTurn DEF Conserving
    <3>2. k < turn
      BY <1>2, <2>1, <3>1 DEF Ue
    <3> QED
      BY <2>1, <2>2, <3>1, <3>2 DEF Conserving
  <2> QED
    BY <1>0, <2>1, <2>2 DEF Conserving, ServedUpTo, ServedWith, SomeoneCounted, FirstRound, SecondRound, WholeRbg, Rbg, ShortRbg
<1>12. ASSUME NEW v \in Ue, PassUe(v) \/ Retransmit(v) \/ Transmit(v) PROVE Conserving'
  <2>1. UNCHANGED <<pc, round, turn, rbg, report, order, vrb, available, remaining, required, share>>
    BY <1>12 DEF PassUe, Retransmit, Transmit, AtTurn
  <2> QED
    BY <1>0, <2>1 DEF Conserving, ServedUpTo, ServedWith, SomeoneCounted, FirstRound, SecondRound, WholeRbg, Rbg, ShortRbg
<1>13. CASE EndSubframe
  BY <1>13 DEF EndSubframe, Conserving, FirstRound, SecondRound, Ue
<1>14. CASE UNCHANGED vars
  <2>1. UNCHANGED <<pc, round, turn, rbg, report, order, vrb, available, remaining, required, share>>
    BY <1>14 DEF vars
  <2> QED
    BY <1>0, <2>1 DEF Conserving, ServedUpTo, ServedWith, SomeoneCounted, FirstRound, SecondRound, WholeRbg, Rbg, ShortRbg
<1> QED
  BY <1>3, <1>4, <1>5, <1>7, <1>8, <1>9, <1>10, <1>11, <1>12, <1>13, <1>14 DEF Next

LEMMA InitConserving == Init => Conserving
  BY DEF Init, Conserving, FirstRound, SecondRound

\* For every cell and every load: while a whole group stays free, no UE lacks one.
THEOREM NothingFreeIsNeeded == Spec => []WorkConserving
<1>1. Inv /\ Conserving => WorkConserving
  <2> SUFFICES ASSUME Inv, Conserving, pc = "schedule", SomeoneCounted, Rbg \ (ShortRbg \cup vrb) # {},
                      NEW u \in Ue
               PROVE  required[u] - available[u] < MinRbUnit
    BY DEF WorkConserving, SomeoneCounted
  <2>1. ServedWith(required, available, vrb, u, NbRbg)
    BY DEF Conserving, ServedUpTo
  <2>2. PICK k \in WholeRbg : k \notin vrb
    BY DEF WholeRbg
  <2>3. k < NbRbg
    BY CellFacts DEF WholeRbg, Rbg
  <2> QED
    BY <2>1, <2>2, <2>3 DEF ServedWith
<1>2. Spec => []Conserving
  BY Invariance, InitConserving, ConservingStep, PTL DEF Spec
<1> QED
  BY <1>1, <1>2, Invariance, PTL

-----------------------------------------------------------------------------
(* Every UE of a load of low priority gets its share.                       *)

Needy == {u \in Ue : required[u] > 0}
Crowd == Cardinality(Needy)

\* The loads FairShare is about: all of one class, and not too many for a group each.
EvenLoad ==
  /\ Crowd > 0 /\ Crowd * MinRbUnit <= Bandwidth
  /\ \A u \in Ue : report[u].harq # "none" /\ ~report[u].high

\* What a UE is due, of which it gets the whole groups.
DueOf(needs, n) == IF needs <= Bandwidth \div n THEN needs ELSE Bandwidth \div n
WholePart(d) == d - (d % MinRbUnit)
Due(u) == DueOf(required[u], Crowd)

\* A UE that has what it is due, or found no group free up to group i.
FairWith(has, due, map, i) ==
  \/ has >= WholePart(due)
  \/ \A k \in WholeRbg : k < i => k \in map
FairUpTo(u, i) == FairWith(available[u], Due(u), vrb, i)

\* The whole groups that a UE has taken and what it may still take are within a share.
TakenWithin(has, left, due) == MinRbUnit * Cardinality(has \ ShortRbg) + left <= due

\* No UE takes more whole groups than its share in the first round, so that the groups
\* last until all have had their turn.
Fair ==
  EvenLoad =>
    /\ pc \in {"round", "visit", "schedule"} => \A u \in Ue : share[u] = Due(u)
    /\ pc = "visit" /\ round = 0 =>
         /\ \A u \in Ue : TakenWithin(alloc[u], remaining[u], share[u])
         /\ \A k \in Ue : k > turn => alloc[order[k]] = {}
         /\ turn <= NumUe => /\ \A i \in alloc[order[turn]] : i < rbg
                             /\ FairUpTo(order[turn], rbg)
         /\ \A k \in Ue : k < turn => FairUpTo(order[k], NbRbg)
    /\ (pc = "round" /\ round = 1) \/ SecondRound =>
         \A u \in Ue : available[u] >= WholePart(Due(u))

\* Sets of at most q groups each have at most q times as many together.
LEMMA UnionBound ==
  ASSUME NEW F \in [Ue -> SUBSET Rbg], NEW q \in Nat, NEW T \in SUBSET Ue,
         \A v \in T : Cardinality(F[v]) <= q
  PROVE  Cardinality(UNION {F[v] : v \in T}) <= q * Cardinality(T)
<1> DEFINE U(S) == UNION {F[v] : v \in S}
           Bad == {S \in SUBSET T : ~(Cardinality(U(S)) <= q * Cardinality(S))}
           R == StrictSubsetOrdering(T)
<1>1. IsFiniteSet(T)
  BY FiniteUe, FS_Subset
<1>2. \A S \in SUBSET T : U(S) \in SUBSET Rbg
  OBVIOUS
<1>3. ASSUME NEW S \in SUBSET T
      PROVE  /\ IsFiniteSet(S) /\ Cardinality(S) \in Nat
             /\ IsFiniteSet(U(S)) /\ Cardinality(U(S)) \in Nat
  <2>1. IsFiniteSet(S)
    BY <1>1, FS_Subset
  <2>2. IsFiniteSet(U(S))
    <3> HIDE DEF U
    <3> QED
      BY <1>2, FiniteGroups
  <2> QED
    BY <2>1, <2>2, FS_CardinalityType
<1>4. IsWellFoundedOn(R, SUBSET T)
  BY <1>1, FS_StrictSubsetOrderingWellFounded, FS_FiniteSubsetsOfFinite
<1>5. SUFFICES ASSUME Bad # {} PROVE FALSE
  OBVIOUS
<1>6. PICK S \in Bad : \A V \in Bad : ~(<<V, S>> \in R)
  <2>1. Bad \subseteq SUBSET T
    OBVIOUS
  <2> HIDE DEF R, Bad
  <2> QED
    BY <1>4, <1>5, <2>1, WFMin
<1>7. S # {}
  <2>1. SUFFICES ASSUME S = {} PROVE FALSE
    OBVIOUS
  <2>2. U(S) = {} /\ Cardinality(S) = 0
    BY <2>1, FS_EmptySet
  <2>3. Cardinality(U(S)) = 0
    BY <2>2, FS_EmptySet
  <2> QED
    BY <1>6, <2>2, <2>3
<1>8. PICK t \in S : TRUE
  BY <1>7
<1> DEFINE V == S \ {t}
<1>9. V \in SUBSET T /\ S \in SUBSET T /\ t \in T
  BY <1>6, <1>8
<1>10. Cardinality(U(V)) <= q * Cardinality(V)
  <2>1. <<V, S>> \in R
    BY <1>8, <1>9 DEF StrictSubsetOrdering
  <2>2. V \notin Bad
    BY <1>6, <2>1
  <2> QED
    BY <1>9, <2>2
<1>11. Cardinality(S) = Cardinality(V) + 1
  <2>1. S = V \cup {t} /\ t \notin V
    BY <1>8
  <2> QED
    BY <1>3, <1>9, <2>1, FS_AddElement
<1>12. Cardinality(U(S)) <= Cardinality(U(V)) + Cardinality(F[t]) /\ Cardinality(F[t]) \in Nat
  <2>1. U(S) = U(V) \cup F[t]
    BY <1>8
  <2>2. F[t] \in SUBSET Rbg
    BY <1>9
  <2>3. IsFiniteSet(F[t]) /\ IsFiniteSet(U(V))
    BY <1>3, <1>9, <2>2, FiniteGroups
  <2> HIDE DEF U
  <2>4. IsFiniteSet(U(V) \cap F[t])
    BY <2>3, FS_Subset
  <2>5. Cardinality(U(V) \cup F[t]) = Cardinality(U(V)) + Cardinality(F[t]) - Cardinality(U(V) \cap F[t])
    BY <2>3, FS_Union
  <2>6. /\ Cardinality(U(V) \cap F[t]) \in Nat /\ Cardinality(U(V)) \in Nat
        /\ Cardinality(F[t]) \in Nat
    BY <2>3, <2>4, FS_CardinalityType
  <2> QED
    BY <2>1, <2>5, <2>6
<1>13. Cardinality(U(S)) \in Nat /\ Cardinality(U(V)) \in Nat /\ Cardinality(V) \in Nat
  BY <1>3, <1>9
<1>14. Cardinality(F[t]) <= q
  BY <1>9
<1>15. ~(Cardinality(U(S)) <= q * Cardinality(S))
  BY <1>6
<1> HIDE DEF U, V, Bad, R
<1>16. PICK a \in Nat, b \in Nat, c \in Nat, d \in Nat :
         a = Cardinality(U(S)) /\ b = Cardinality(U(V)) /\ c = Cardinality(V) /\ d = Cardinality(F[t])
  BY <1>12, <1>13
<1>17. b <= q * c /\ a <= b + d /\ d <= q /\ ~(a <= q * (c + 1))
  BY <1>10, <1>11, <1>12, <1>14, <1>15, <1>16
<1>18. q * (c + 1) = q * c + q
  OBVIOUS
<1> QED
  BY <1>17, <1>18

\* The whole groups of a cell are as many as fit in it.
LEMMA WholeGroups ==
  /\ Cardinality(WholeRbg) \in Nat
  /\ \A x \in Nat : MinRbUnit * x <= Bandwidth => x <= Cardinality(WholeRbg)
<1> DEFINE last == IF ShortRbg = {} THEN NbRbg - 1 ELSE NbRbg - 2
<1>1. WholeRbg = 0 .. last /\ last \in Nat
  BY CellFacts DEF WholeRbg, Rbg, ShortRbg
<1>2. \A x \in Nat : MinRbUnit * x <= Bandwidth => x <= last + 1
  BY RbAssumption DEF RbAssumption, NbRbg, ShortRbg, MinRbUnit
<1> HIDE DEF last
<1>3. Cardinality(0 .. last) = last + 1
  BY <1>1, FS_Interval
<1> QED
  BY <1>1, <1>2, <1>3

\* The parts of a number of resource blocks.
LEMMA Parts ==
  ASSUME NEW d \in Nat
  PROVE  /\ WholePart(d) \in Nat /\ WholePart(d) <= d
         /\ \A c \in Nat : d < MinRbUnit * c + MinRbUnit => WholePart(d) <= MinRbUnit * c
         /\ \A b \in Nat : d <= b => /\ b \div MinRbUnit \in Nat
                                     /\ WholePart(d) <= MinRbUnit * (b \div MinRbUnit)
                                     /\ MinRbUnit * (b \div MinRbUnit) <= b
         /\ \A b, c \in Nat : MinRbUnit * c <= b => c <= b \div MinRbUnit
<1>1. MinRbUnit \in {1, 2, 3, 4}
  BY CellFacts
<1>2. CASE MinRbUnit = 1
  BY <1>2 DEF WholePart
<1>3. CASE MinRbUnit = 2
  BY <1>3 DEF WholePart
<1>4. CASE MinRbUnit = 3
  BY <1>4 DEF WholePart
<1>5. CASE MinRbUnit = 4
  BY <1>5 DEF WholePart
<1> QED
  BY <1>1, <1>2, <1>3, <1>4, <1>5

\* An equal part of the resource blocks.
LEMMA EqualPart ==
  ASSUME NEW n \in Nat \ {0}
  PROVE  Bandwidth \div n \in Nat /\ n * (Bandwidth \div n) <= Bandwidth
<1>1. Bandwidth \in Nat
  BY CellFacts
<1> QED
  BY <1>1

LEMMA LoadFacts ==
  ASSUME TypeOK, EvenLoad
  PROVE  /\ IsFiniteSet(Needy) /\ Crowd \in Nat \ {0} /\ Bandwidth \div Crowd \in Nat
         /\ \A u \in Ue : /\ Due(u) \in Nat /\ Due(u) <= Bandwidth \div Crowd
                          /\ Due(u) <= required[u] /\ WholePart(Due(u)) \in Nat
<1>1. IsFiniteSet(Needy)
  BY FiniteUe, FS_Subset DEF Needy
<1>2. Crowd \in Nat \ {0}
  BY <1>1, FS_CardinalityType DEF Crowd, EvenLoad
<1>3. Bandwidth \div Crowd \in Nat
  BY <1>2, EqualPart
<1>4. ASSUME NEW u \in Ue
      PROVE  Due(u) \in Nat /\ Due(u) <= Bandwidth \div Crowd /\ Due(u) <= required[u]
  <2>1. required[u] \in Nat
    BY DEF TypeOK
  <2>2. PICK b \in Nat : b = Bandwidth \div Crowd
    BY <1>3
  <2> QED
    BY <2>1, <2>2 DEF Due, DueOf
<1> QED
  BY <1>1, <1>2, <1>3, <1>4, Parts

\* The whole groups of a UE count in what it has.
LEMMA WholeCounts ==
  ASSUME Inv, NEW u \in Ue
  PROVE  /\ Cardinality(alloc[u] \ ShortRbg) \in Nat
         /\ available[u] >= MinRbUnit * Cardinality(alloc[u] \ ShortRbg)
         /\ alloc[u] \cap ShortRbg = {} => available[u] = MinRbUnit * Cardinality(alloc[u] \ ShortRbg)
<1> DEFINE W == alloc[u] \ ShortRbg
<1>1. alloc[u] \in SUBSET Rbg /\ W \in SUBSET alloc[u] /\ W \in SUBSET Rbg
  BY DEF Inv, TypeOK
<1>2. W \cap ShortRbg = {}
  OBVIOUS
<1>3. Rbs(W) <= Rbs(alloc[u])
  BY <1>1, RbsGrow
<1>4. available[u] = Rbs(alloc[u])
  BY DEF Inv, Accounting
<1>5. alloc[u] \cap ShortRbg = {} => W = alloc[u]
  OBVIOUS
<1>6. Cardinality(W) \in Nat
  BY <1>1, FiniteGroups, FS_CardinalityType
<1>7. Rbs(W) = MinRbUnit * Cardinality(W)
  <2>1. Cardinality(W \cap ShortRbg) = 0
    BY <1>2, FS_EmptySet
  <2>2. MinRbUnit * Cardinality(W) \in Int
    BY <1>6, CellFacts
  <2> HIDE DEF W
  <2> QED
    BY <2>1, <2>2 DEF Rbs
<1> QED
  BY <1>3, <1>4, <1>5, <1>6, <1>7

\* When all whole groups are given out, and none took more than its share of them, every
\* UE has its share of them.
LEMMA AllTaken ==
  ASSUME Inv, EvenLoad, NEW u \in Ue,
         \A v \in Ue : MinRbUnit * Cardinality(alloc[v] \ ShortRbg) <= Due(v),
         WholeRbg \subseteq vrb
  PROVE  available[u] >= WholePart(Due(u))
<1> DEFINE F == [v \in Ue |-> alloc[v] \ ShortRbg]
           b == Bandwidth \div Crowd
           q == b \div MinRbUnit
           Others == Needy \ {u}
<1>1. /\ IsFiniteSet(Needy) /\ Crowd \in Nat \ {0} /\ b \in Nat
      /\ \A v \in Ue : Due(v) \in Nat /\ Due(v) <= b /\ Due(v) <= required[v]
  BY LoadFacts DEF Inv
<1>2. TypeOK /\ F \in [Ue -> SUBSET Rbg]
  BY DEF Inv, TypeOK
<1> HIDE DEF b
<1>3. q \in Nat /\ MinRbUnit * q <= b /\ WholePart(Due(u)) <= MinRbUnit * q
  BY <1>1, Parts
<1>4. ASSUME NEW v \in Ue PROVE Cardinality(F[v]) \in Nat /\ Cardinality(F[v]) <= q
  <2>1. Cardinality(F[v]) \in Nat
    BY WholeCounts
  <2>2. MinRbUnit * Cardinality(F[v]) \in Int /\ MinRbUnit * Cardinality(F[v]) <= Due(v)
    BY <2>1, CellFacts
  <2>3. MinRbUnit * Cardinality(F[v]) <= b
    BY <1>1, <2>2
  <2> HIDE DEF F
  <2> QED
    BY <1>1, <2>1, <2>3, Parts
<1>5. available[u] >= MinRbUnit * Cardinality(F[u]) /\ available[u] \in Nat
  BY <1>2, WholeCounts DEF TypeOK
<1>6. CASE u \notin Needy
  <2>1. required[u] = 0
    BY <1>2, <1>6 DEF Needy, TypeOK
  <2>2. Due(u) = 0
    BY <1>1, <2>1
  <2> QED
    BY <1>5, <2>2, Parts
<1>7. CASE Cardinality(F[u]) >= q
  <2>1. PICK c \in Nat : c = Cardinality(F[u])
    BY <1>4
  <2> HIDE DEF q, F
  <2>2. MinRbUnit * c >= MinRbUnit * q
    <3>1. MinRbUnit \in {1, 2, 3, 4} /\ c >= q
      BY <1>7, <2>1, CellFacts
    <3> QED
      BY <1>3, <3>1
  <2>3. MinRbUnit * c \in Int /\ MinRbUnit * q \in Int /\ WholePart(Due(u)) \in Int
    BY <1>1, <1>3, Parts, CellFacts
  <2> QED
    BY <1>3, <1>5, <2>1, <2>2, <2>3
<1>8. ASSUME u \in Needy, Cardinality(F[u]) < q PROVE FALSE
  <2>1. Others \in SUBSET Ue /\ Needy \in SUBSET Ue
    BY DEF Needy
  <2>2. \A v \in Others : Cardinality(F[v]) <= q
    BY <1>4, <2>1
  <2>3. IsFiniteSet(Others) /\ Cardinality(Others) \in Nat /\ Crowd = Cardinality(Others) + 1
    <3>1. IsFiniteSet(Others)
      BY <1>1, FS_Subset
    <3>2. Needy = Others \cup {u} /\ u \notin Others
      BY <1>8
    <3> QED
      BY <3>1, <3>2, FS_AddElement, FS_CardinalityType DEF Crowd
  <2> DEFINE A == UNION {F[v] : v \in Others}
  <2>4. WholeRbg \subseteq A \cup F[u]
    <3> SUFFICES ASSUME NEW i \in WholeRbg PROVE i \in A \cup F[u]
      <4> HIDE DEF A, F
      <4> QED
        OBVIOUS
    <3>1. i \in vrb /\ i \in Rbg /\ i \notin ShortRbg
      BY DEF WholeRbg
    <3>2. PICK v \in Ue : i \in alloc[v]
      BY <3>1 DEF Inv, Exclusive
    <3>3. i \in F[v]
      BY <3>1, <3>2
    <3>4. v \in Needy
      <4>1. SUFFICES ASSUME v \notin Needy PROVE FALSE
        OBVIOUS
      <4>2. Due(v) = 0
        BY <1>1, <1>2, <4>1 DEF Needy, TypeOK
      <4>3. Cardinality(F[v]) = 0
        <5>1. MinRbUnit * Cardinality(F[v]) <= 0 /\ Cardinality(F[v]) \in Nat
          BY <1>4, <4>2
        <5>2. MinRbUnit \in {1, 2, 3, 4}
          BY CellFacts
        <5> QED
          BY <5>1, <5>2
      <4>4. IsFiniteSet(F[v])
        BY <1>2, FiniteGroups
      <4> QED
        BY <3>3, <4>3, <4>4, FS_EmptySet
    <3>5. v \in Others => F[v] \subseteq A
      OBVIOUS
    <3> HIDE DEF A, F
    <3> QED
      BY <3>3, <3>4, <3>5
  <2>5. Cardinality(A) <= q * Cardinality(Others)
    <3> HIDE DEF F, Others, q
    <3> QED
      BY <1>2, <1>3, <2>1, <2>2, UnionBound
  <2>6. IsFiniteSet(A) /\ IsFiniteSet(F[u]) /\ IsFiniteSet(A \cap F[u])
    <3>1. A \in SUBSET Rbg /\ F[u] \in SUBSET Rbg /\ A \cap F[u] \in SUBSET Rbg
      BY <1>2, <2>1
    <3> HIDE DEF A, F
    <3> QED
      BY <3>1, FiniteGroups
  <2> HIDE DEF A, F, Others, q
  <2>7. /\ Cardinality(A \cup F[u]) = Cardinality(A) + Cardinality(F[u]) - Cardinality(A \cap F[u])
        /\ IsFiniteSet(A \cup F[u])
    BY <2>6, FS_Union
  <2>8. Cardinality(WholeRbg) <= Cardinality(A \cup F[u])
    <3>1. WholeRbg \in SUBSET (A \cup F[u])
      BY <2>4
    <3> QED
      BY <2>7, <3>1, FS_Subset
  <2>9. /\ Cardinality(A) \in Nat /\ Cardinality(F[u]) \in Nat /\ Cardinality(A \cap F[u]) \in Nat
        /\ Cardinality(WholeRbg) \in Nat
    BY <2>6, FS_CardinalityType, WholeGroups
  <2>10. PICK a \in Nat, f \in Nat, o \in Nat, w \in Nat :
            a = Cardinality(A) /\ f = Cardinality(F[u]) /\ o = Cardinality(Others) /\ w = Cardinality(WholeRbg)
    BY <2>3, <2>9
  <2>11. w <= a + f /\ a <= q * o /\ f < q
    BY <1>8, <2>5, <2>7, <2>8, <2>9, <2>10
  <2>12. q * (o + 1) = q * o + q
    BY <1>3
  <2>13. w < q * (o + 1)
    BY <1>3, <2>11, <2>12
  <2>14. MinRbUnit * (q * (o + 1)) <= Bandwidth
    <3>1. (o + 1) * b <= Bandwidth
      BY <2>3, <2>10, EqualPart DEF b
    <3>2. (o + 1) * (MinRbUnit * q) <= (o + 1) * b
      <4>1. \A x, y, z \in Nat : x <= y => z * x <= z * y
        OBVIOUS
      <4>2. MinRbUnit * q \in Nat
        BY <1>3, CellFacts
      <4> QED
        BY <1>1, <1>3, <4>1, <4>2
    <3>3. (o + 1) * (MinRbUnit * q) = MinRbUnit * (q * (o + 1))
      BY <1>3, CellFacts
    <3>4. (o + 1) * b \in Int /\ MinRbUnit * (q * (o + 1)) \in Int /\ Bandwidth \in Int
      BY <1>1, <1>3, CellFacts
    <3> QED
      BY <3>1, <3>2, <3>3, <3>4
  <2>15. q * (o + 1) \in Nat
    BY <1>3
  <2>16. q * (o + 1) <= w
    BY <2>10, <2>14, <2>15, WholeGroups
  <2> QED
    BY <2>13, <2>15, <2>16
<1> QED
  <2>1. Cardinality(F[u]) >= q \/ Cardinality(F[u]) < q
    BY <1>3, <1>4
  <2> QED
    BY <1>6, <1>7, <1>8, <2>1

\* What depends only on reports and requirements.
LEMMA SameLoad ==
  ASSUME UNCHANGED <<report, required>>
  PROVE  /\ (EvenLoad' <=> EvenLoad) /\ Crowd' = Crowd
         /\ WholeRbg' = WholeRbg /\ NbRbg' = NbRbg /\ MinRbUnit' = MinRbUnit
         /\ ShortRbg' = ShortRbg /\ Ue' = Ue /\ NumUe' = NumUe
<1>1. Crowd' = Crowd /\ MinRbUnit' = MinRbUnit
  BY DEF Crowd, Needy, Ue, MinRbUnit
<1>2. EvenLoad' <=> EvenLoad
  BY <1>1 DEF EvenLoad, Ue
<1> QED
  BY <1>1, <1>2 DEF WholeRbg, Rbg, ShortRbg, NbRbg, Ue

\* A step of a UE's turn in the first round that leaves it fairly treated up to the next
\* group keeps Fair.
LEMMA VisitFair ==
  ASSUME Inv, Conserving, Fair, EvenLoad, Visiting, NextRbg, round = 0,
         UNCHANGED <<pc, round, report, order, required, share>>,
         vrb \subseteq vrb',
         \A v \in Ue : available'[v] \in Nat /\ available'[v] >= available[v],
         \A v \in Ue : v # order[turn] => alloc'[v] = alloc[v],
         alloc'[order[turn]] \subseteq alloc[order[turn]] \cup {rbg},
         \A v \in Ue : TakenWithin(alloc'[v], remaining'[v], share[v]),
         FairWith(available'[order[turn]], Due(order[turn]), vrb', rbg + 1)
  PROVE  Fair'
<1> USE CellFacts
<1>0. /\ (EvenLoad' <=> EvenLoad) /\ Crowd' = Crowd
      /\ WholeRbg' = WholeRbg /\ NbRbg' = NbRbg /\ MinRbUnit' = MinRbUnit
      /\ ShortRbg' = ShortRbg /\ Ue' = Ue /\ NumUe' = NumUe
  BY SameLoad
<1>1. /\ pc = "visit" /\ turn <= NumUe /\ turn \in Ue /\ turn \in Int /\ rbg \in Rbg /\ rbg \in Int
      /\ \A v \in Ue : order[v] \in Ue /\ v \in Int /\ available[v] \in Nat
  <2>1. turn \in 1 .. NumUe + 1 /\ rbg \in Rbg /\ order \in [Ue -> Ue] /\ available \in [Ue -> Nat]
    BY DEF Inv, TypeOK
  <2>2. pc = "visit" /\ turn <= NumUe
    BY DEF Visiting
  <2>3. \A v \in Ue : v \in Int
    BY DEF Ue
  <2> QED
    BY <2>1, <2>2, <2>3 DEF Ue, Rbg
<1>2. \/ rbg < NbRbg - 1 /\ rbg' = rbg + 1 /\ turn' = turn
      \/ rbg + 1 = NbRbg /\ rbg' = 0 /\ turn' = turn + 1
  BY <1>1 DEF NextRbg, Rbg
<1>3. /\ \A v \in Ue : share[v] = Due(v)
      /\ \A k \in Ue : k > turn => alloc[order[k]] = {}
      /\ \A i \in alloc[order[turn]] : i < rbg
      /\ \A k \in Ue : k < turn => FairUpTo(order[k], NbRbg)
  BY <1>1 DEF Fair
<1>4. \A v \in Ue : WholePart(Due(v)) \in Nat
  BY LoadFacts DEF Inv
<1>5. ASSUME NEW k \in Ue, k < turn' PROVE FairWith(available'[order[k]], Due(order[k]), vrb', NbRbg)
  <2>1. CASE k < turn
    <3>1. FairWith(available[order[k]], Due(order[k]), vrb, NbRbg)
      BY <1>3, <2>1 DEF FairUpTo
    <3>2. order[k] \in Ue
      BY <1>1
    <3>3. available'[order[k]] \in Nat /\ available'[order[k]] >= available[order[k]]
      BY <3>2
    <3>4. available[order[k]] \in Nat /\ WholePart(Due(order[k])) \in Nat
      BY <1>1, <1>4, <3>2
    <3> QED
      BY <3>1, <3>3, <3>4 DEF FairWith
  <2>2. CASE ~(k < turn)
    <3>1. k = turn /\ rbg + 1 = NbRbg
      BY <1>1, <1>2, <1>5, <2>2
    <3> QED
      BY <3>1
  <2> QED
    BY <2>1, <2>2
<1>6. ASSUME turn' <= NumUe
      PROVE  /\ \A i \in alloc'[order[turn']] : i < rbg'
             /\ FairWith(available'[order[turn']], Due(order[turn']), vrb', rbg')
  <2>1. CASE turn' = turn /\ rbg' = rbg + 1
    <3>1. \A i \in alloc[order[turn]] : i \in Int
      BY <1>1 DEF Inv, TypeOK, Rbg
    <3>2. \A i \in alloc[order[turn]] \cup {rbg} : i < rbg + 1
      BY <1>1, <1>3, <3>1
    <3> QED
      BY <2>1, <3>2
  <2>2. CASE turn' = turn + 1 /\ rbg' = 0
    <3>1. turn' \in Ue /\ turn' # turn /\ turn' > turn
      BY <1>1, <1>6, <2>2 DEF Ue
    <3>2. order[turn'] # order[turn] /\ order[turn'] \in Ue
      BY <1>1, <3>1 DEF Conserving
    <3>3. alloc'[order[turn']] = {}
      BY <1>3, <3>1, <3>2
    <3>4. \A k \in WholeRbg : ~(k < 0)
      BY DEF WholeRbg, Rbg
    <3> QED
      BY <2>2, <3>3, <3>4 DEF FairWith
  <2> QED
    BY <1>2, <2>1, <2>2
<1>7. ASSUME NEW k \in Ue, k > turn' PROVE alloc'[order[k]] = {}
  <2>1. k > turn /\ k # turn
    BY <1>1, <1>2, <1>7
  <2>2. order[k] # order[turn] /\ order[k] \in Ue
    BY <1>1, <2>1 DEF Conserving
  <2> QED
    BY <1>3, <2>1, <2>2
<1>8. ~((pc = "round" /\ round = 1) \/ SecondRound)
  BY <1>1 DEF SecondRound
<1> QED
  BY <1>0, <1>1, <1>3, <1>5, <1>6, <1>7, <1>8 DEF Fair, FairUpTo, TakenWithin, Due, SecondRound

LEMMA FairStep == Inv /\ Conserving /\ Fair /\ [Next]_vars => Fair'
<1> SUFFICES ASSUME Inv, Conserving, Fair, [Next]_vars PROVE Fair'
  OBVIOUS
<1> USE DEF subframe, wants, grants
<1>1. TypeOK
  BY DEF Inv
<1>2. /\ order \in [Ue -> Ue] /\ round \in 0 .. 1 /\ turn \in 1 .. NumUe + 1 /\ rbg \in Rbg
      /\ required \in [Ue -> Nat] /\ share \in [Ue -> Nat]
      /\ remaining \in [Ue -> Nat] /\ available \in [Ue -> Nat]
      /\ alloc \in [Ue -> SUBSET Rbg]
  BY <1>1 DEF TypeOK
<1>3. CASE pc' \notin {"round", "visit", "schedule"}
  BY <1>3 DEF Fair, SecondRound
<1>4. CASE AssignRequired
  <2>1. /\ pc' = "round" /\ round' = 0 /\ report' = report
        /\ required' = [u \in Ue |-> Required(u)] /\ share' = [u \in Ue |-> ShareOf(u)]
    BY <1>4 DEF AssignRequired
  <2>2. ASSUME EvenLoad', NEW u \in Ue PROVE share'[u] = DueOf(required'[u], Crowd')
    <3>1. \A v \in Ue : report[v].harq # "none" /\ ~report[v].high
      BY <2>1, <2>2 DEF EvenLoad, Ue
    <3>2. Needy' = Counted
      BY <2>1, <3>1 DEF Needy, Counted, Ue
    <3>3. Crowd' = Cardinality(Counted) /\ Crowd' > 0 /\ Crowd' * MinRbUnit <= Bandwidth
      BY <2>2, <3>2 DEF Crowd, EvenLoad, MinRbUnit
    <3>4. Crowd' \in Nat
      BY <3>3, FiniteUe, FS_Subset, FS_CardinalityType DEF Counted
    <3>5. MinRbUnit * Crowd' = Crowd' * MinRbUnit
      BY <3>4, CellFacts
    <3>6. Average = Bandwidth \div Crowd'
      BY <3>3, <3>4, <3>5 DEF Average
    <3> QED
      BY <2>1, <3>1, <3>6 DEF ShareOf, DueOf
  <2> QED
    BY <2>1, <2>2 DEF Fair, Due, SecondRound, Ue
<1> SUFFICES ASSUME pc' \in {"round", "visit", "schedule"}, ~AssignRequired PROVE Fair'
  BY <1>3, <1>4
<1>5. CASE StartSubframe \/ EndSubframe
  BY <1>5 DEF StartSubframe, EndSubframe
<1> SUFFICES ASSUME UNCHANGED <<report, required, share>>, pc \in {"round", "visit", "schedule"},
                    ~StartSubframe, ~EndSubframe, EvenLoad
             PROVE  Fair'
  <2>1. UNCHANGED <<report, required, share>> /\ pc \in {"round", "visit", "schedule"}
    BY DEF Next, vars, StartSubframe, EndSubframe, BeginRound, SkipUe, TakeRbg, PassRbg, Visiting, EndFirstRound, EndSecondRound,
       PassUe, Retransmit, Transmit, AtTurn
  <2>2. CASE ~EvenLoad
    BY <2>1, <2>2, SameLoad DEF Fair
  <2> QED
    BY <1>5, <2>1, <2>2
<1>6. /\ (EvenLoad' <=> EvenLoad) /\ Crowd' = Crowd
      /\ WholeRbg' = WholeRbg /\ NbRbg' = NbRbg /\ MinRbUnit' = MinRbUnit
      /\ ShortRbg' = ShortRbg /\ Ue' = Ue /\ NumUe' = NumUe
  BY SameLoad
<1>7. \A u \in Ue : share[u] = Due(u)
  BY DEF Fair
<1>8. \A u \in Ue : Due(u) \in Nat /\ Due(u) <= required[u] /\ WholePart(Due(u)) \in Nat
  BY <1>1, LoadFacts
<1>9. ASSUME (pc = "round" /\ round = 1) \/ SecondRound, round' = round \/ pc' = "schedule",
             (pc' = "visit" /\ round = 1) \/ pc' = "schedule" \/ pc' = pc,
             \A u \in Ue : available'[u] \in Nat /\ available'[u] >= available[u]
      PROVE  Fair'
  <2>1. ~(pc' = "visit" /\ round' = 0)
    BY <1>9 DEF SecondRound
  <2>2. ASSUME NEW u \in Ue PROVE available'[u] >= WholePart(Due(u))
    <3>1. available[u] >= WholePart(Due(u))
      BY <1>9 DEF Fair
    <3>2. /\ available'[u] \in Nat /\ available'[u] >= available[u] /\ available[u] \in Nat
          /\ WholePart(Due(u)) \in Nat
      BY <1>2, <1>8, <1>9
    <3> QED
      BY <3>1, <3>2
  <2> QED
    BY <1>6, <1>7, <2>1, <2>2 DEF Fair, Due
<1>10. CASE BeginRound
  <2>1. /\ UNCHANGED <<round, order, available, alloc>> /\ pc = "round" /\ pc' = "visit" /\ rbg' = 0
        /\ turn' = IF SomeoneCounted THEN 1 ELSE NumUe + 1
        /\ remaining' = [u \in Ue |-> IF required[u] > 0 THEN Quota(u) ELSE remaining[u]]
    BY <1>10 DEF BeginRound, SomeoneCounted
  <2>2. CASE round = 1
    BY <1>2, <1>9, <2>1, <2>2
  <2>3. CASE round = 0
    <3>1. \A u \in Ue : alloc[u] = {} /\ remaining[u] = 0
      <4> SUFFICES ASSUME NEW u \in Ue PROVE alloc[u] = {} /\ remaining[u] = 0
        OBVIOUS
      <4>1. available[u] = 0 /\ remaining[u] = 0
        BY <2>1, <2>3 DEF Inv, Quotas, QuotaKept, Fresh
      <4>2. Rbs(alloc[u]) = 0
        BY <4>1 DEF Inv, Accounting
      <4>3. alloc[u] \in SUBSET Rbg /\ {} \in SUBSET alloc[u]
        BY <1>2
      <4>4. {} # alloc[u] => Rbs({}) < Rbs(alloc[u])
        BY <4>3, RbsGrow
      <4> QED
        BY <4>1, <4>2, <4>4, RbsEmpty
    <3>2. turn' = 1
      <4>1. Needy # {}
        BY FS_EmptySet DEF EvenLoad, Crowd
      <4>2. SomeoneCounted
        BY <4>1 DEF SomeoneCounted, Needy, EvenLoad
      <4> QED
        BY <2>1, <4>2
    <3>3. ASSUME NEW u \in Ue PROVE TakenWithin(alloc[u], remaining'[u], share[u])
      <4>1. remaining'[u] = IF required[u] > 0 THEN share[u] ELSE 0
        BY <2>1, <2>3, <3>1 DEF Quota
      <4>2. MinRbUnit * Cardinality(alloc[u] \ ShortRbg) = 0
        <5>1. Cardinality(alloc[u] \ ShortRbg) = 0
          BY <3>1, FS_EmptySet
        <5> QED
          BY <5>1, CellFacts
      <4>3. share[u] \in Nat
        BY <1>2
      <4> QED
        BY <4>1, <4>2, <4>3 DEF TakenWithin
    <3>4. \A u \in Ue : alloc'[u] = {}
      BY <2>1, <3>1
    <3>5. /\ \A k \in Ue : ~(k < 1) /\ order[k] \in Ue
          /\ \A k \in WholeRbg : ~(k < 0)
          /\ 1 <= NumUe => 1 \in Ue
      BY <1>2, CellFacts DEF Ue, WholeRbg, Rbg
    <3> QED
      BY <1>6, <1>7, <2>1, <2>3, <3>2, <3>3, <3>4, <3>5
         DEF Fair, FairUpTo, FairWith, TakenWithin, Due, SecondRound
  <2> QED
    BY <1>2, <2>2, <2>3
<1>11. CASE SkipUe
  <2>1. /\ UNCHANGED <<pc, round, order, rbg, vrb, available, remaining, alloc>>
        /\ turn' = turn + 1 /\ required[order[turn]] = 0 /\ turn <= NumUe /\ pc = "visit"
    BY <1>11 DEF SkipUe
  <2>2. CASE round = 1
    BY <1>2, <1>9, <2>1, <2>2 DEF SecondRound
  <2>3. CASE round = 0
    <3>1. /\ \A u \in Ue : TakenWithin(alloc[u], remaining[u], share[u])
          /\ \A k \in Ue : k > turn => alloc[order[k]] = {}
          /\ \A k \in Ue : k < turn => FairUpTo(order[k], NbRbg)
      BY <2>1, <2>3 DEF Fair
    <3>2. turn \in Ue /\ order[turn] \in Ue /\ rbg = 0 /\ turn \in Int /\ \A k \in Ue : k \in Int
      BY <1>2, <2>1, CellFacts DEF Ue, Conserving
    <3>3. FairUpTo(order[turn], NbRbg)
      <4>1. Due(order[turn]) = 0
        <5>1. Due(order[turn]) \in Nat /\ Due(order[turn]) <= required[order[turn]]
          BY <1>8, <3>2
        <5> QED
          BY <2>1, <5>1
      <4>2. WholePart(0) = 0
        <5>1. WholePart(0) \in Nat /\ WholePart(0) <= 0
          BY Parts
        <5> QED
          BY <5>1
      <4>3. available[order[turn]] \in Nat
        BY <1>2, <3>2
      <4> QED
        BY <4>1, <4>2, <4>3 DEF FairUpTo, FairWith
    <3>4. \A k \in Ue : k < turn + 1 => FairUpTo(order[k], NbRbg)
      <4>1. \A k \in Ue : k < turn + 1 => k < turn \/ k = turn
        BY <3>2
      <4> QED
        BY <3>1, <3>3, <4>1
    <3>5. \A k \in Ue : k > turn + 1 => alloc[order[k]] = {}
      BY <3>1, <3>2
    <3>6. turn + 1 <= NumUe => /\ \A i \in alloc[order[turn + 1]] : i < rbg
                               /\ FairUpTo(order[turn + 1], rbg)
      <4>1. turn + 1 <= NumUe => turn + 1 \in Ue /\ turn + 1 > turn
        BY <3>2 DEF Ue
      <4>2. \A k \in WholeRbg : ~(k < 0)
        BY CellFacts DEF WholeRbg, Rbg
      <4> QED
        BY <3>1, <3>2, <4>1, <4>2 DEF FairUpTo, FairWith
    <3> QED
      BY <1>6, <1>7, <2>1, <2>3, <3>1, <3>4, <3>5, <3>6
         DEF Fair, FairUpTo, TakenWithin, Due, SecondRound
  <2> QED
    BY <1>2, <2>2, <2>3
<1>12. CASE TakeRbg
  <2> DEFINE u == order[turn]
             g == GrantedRbs(rbg)
  <2>1. /\ UNCHANGED <<pc, round, order>> /\ Visiting /\ NextRbg
        /\ pc = "visit" /\ turn <= NumUe /\ MayTake(u, rbg) /\ Fits(u, rbg)
    BY <1>12 DEF TakeRbg, Visiting
  <2>2. turn \in Ue /\ u \in Ue
    BY <1>2, <2>1, CellFacts DEF Ue
  <2>3. g \in 1 .. 4 /\ (rbg \notin ShortRbg => g = MinRbUnit)
    BY <1>2, GrantedRange
  <2>4. /\ vrb' = vrb \cup {rbg}
        /\ alloc' = [alloc EXCEPT ![u] = @ \cup {rbg}]
        /\ available' = [available EXCEPT ![u] = @ + g]
        /\ remaining' = [remaining EXCEPT ![u] = IF @ - g <= 0 THEN 0 ELSE @ - g]
    BY <1>12 DEF TakeRbg
  <2>5. rbg \notin alloc[u] /\ rbg \notin vrb /\ (rbg \in ShortRbg \/ remaining[u] >= MinRbUnit)
    BY <2>1 DEF MayTake, Fits
  <2> HIDE DEF u, g
  <2>6. ASSUME NEW v \in Ue PROVE available'[v] \in Nat /\ available'[v] >= available[v]
    <3>1. available[v] \in Nat
      BY <1>2
    <3>2. CASE v = u
      BY <1>2, <2>3, <2>4, <3>1, <3>2
    <3>3. CASE v # u
      BY <1>2, <2>4, <3>1, <3>3
    <3> QED
      BY <3>2, <3>3
  <2>7. CASE round = 1
    BY <1>9, <2>1, <2>6, <2>7 DEF SecondRound
  <2>8. CASE round = 0
    <3>1. \A v \in Ue : TakenWithin(alloc[v], remaining[v], share[v])
      BY <2>1, <2>8 DEF Fair
    <3>2. ASSUME NEW v \in Ue PROVE TakenWithin(alloc'[v], remaining'[v], share[v])
      <4>1. CASE v # u
        <5>1. alloc'[v] = alloc[v] /\ remaining'[v] = remaining[v]
          BY <1>2, <2>4, <4>1
        <5> QED
          BY <3>1, <5>1
      <4>2. CASE v = u
        <5>1. alloc'[u] = alloc[u] \cup {rbg}
          BY <1>2, <2>2, <2>4
        <5>2. remaining'[u] = IF remaining[u] - g <= 0 THEN 0 ELSE remaining[u] - g
          BY <1>2, <2>2, <2>4
        <5>3. remaining[u] \in Nat /\ share[u] \in Nat
          BY <1>2, <2>2
        <5> DEFINE W == alloc[u] \ ShortRbg
        <5>4. IsFiniteSet(W) /\ Cardinality(W) \in Nat
          <6>1. W \in SUBSET Rbg
            BY <1>2, <2>2
          <6> QED
            BY <6>1, FiniteGroups, FS_CardinalityType
        <5>5. MinRbUnit * Cardinality(W) \in Nat /\ MinRbUnit * Cardinality(W) + remaining[u] <= share[u]
          BY <2>2, <3>1, <5>4, CellFacts DEF TakenWithin
        <5>6. CASE rbg \in ShortRbg
          <6>1. alloc'[u] \ ShortRbg = W
            BY <5>1, <5>6
          <6>2. remaining'[u] \in Nat /\ remaining'[u] <= remaining[u]
            BY <2>3, <5>2, <5>3
          <6> HIDE DEF W
          <6>3. MinRbUnit * Cardinality(W) + remaining'[u] <= share[u]
            BY <5>3, <5>5, <6>2
          <6> QED
            BY <4>2, <6>1, <6>3 DEF TakenWithin
        <5>7. CASE rbg \notin ShortRbg
          <6>1. alloc'[u] \ ShortRbg = W \cup {rbg} /\ rbg \notin W
            BY <2>5, <5>1, <5>7
          <6>2. Cardinality(W \cup {rbg}) = Cardinality(W) + 1
            BY <5>4, <6>1, FS_AddElement
          <6> HIDE DEF W
          <6>3. MinRbUnit * (Cardinality(W) + 1) = MinRbUnit * Cardinality(W) + MinRbUnit
            BY <5>4, CellFacts
          <6>4. remaining'[u] = remaining[u] - MinRbUnit
            BY <2>3, <2>5, <5>2, <5>3, <5>7, CellFacts
          <6>5. MinRbUnit * Cardinality(alloc'[u] \ ShortRbg) = MinRbUnit * Cardinality(W) + MinRbUnit
            BY <6>1, <6>2, <6>3
          <6> QED
            BY <4>2, <5>3, <5>5, <6>4, <6>5, CellFacts DEF TakenWithin
        <5> QED
          BY <5>6, <5>7
      <4> QED
        BY <4>1, <4>2
    <3>3. FairWith(available'[u], Due(u), vrb', rbg + 1)
      <4>1. FairWith(available[u], Due(u), vrb, rbg)
        BY <2>1, <2>8 DEF Fair, FairUpTo, u
      <4>2. CASE available[u] >= WholePart(Due(u))
        <5>1. /\ available'[u] \in Nat /\ available'[u] >= available[u] /\ available[u] \in Nat
              /\ WholePart(Due(u)) \in Nat
          BY <1>2, <1>8, <2>2, <2>6
        <5> QED
          BY <4>2, <5>1 DEF FairWith
      <4>3. CASE \A k \in WholeRbg : k < rbg => k \in vrb
        <5>1. \A k \in WholeRbg : k < rbg + 1 => k < rbg \/ k = rbg
          BY <1>2, CellFacts DEF WholeRbg, Rbg
        <5> QED
          BY <2>4, <4>3, <5>1 DEF FairWith
      <4> QED
        BY <4>1, <4>2, <4>3 DEF FairWith
    <3>4. /\ \A v \in Ue : v # order[turn] => alloc'[v] = alloc[v]
          /\ alloc'[order[turn]] \subseteq alloc[order[turn]] \cup {rbg}
          /\ vrb \subseteq vrb'
      BY <1>2, <2>2, <2>4 DEF u
    <3> QED
      BY <2>1, <2>6, <2>8, <3>2, <3>3, <3>4, VisitFair DEF u
  <2> QED
    BY <1>2, <2>7, <2>8
<1>13. CASE PassRbg
  <2> DEFINE u == order[turn]
  <2>1. /\ UNCHANGED <<pc, round, order, vrb, remaining, available, alloc>>
        /\ Visiting /\ NextRbg /\ pc = "visit" /\ turn <= NumUe
        /\ ~(MayTake(u, rbg) /\ Fits(u, rbg))
    BY <1>13 DEF PassRbg, Visiting
  <2>2. turn \in Ue /\ u \in Ue
    BY <1>2, <2>1, CellFacts DEF Ue
  <2> HIDE DEF u
  <2>3. /\ available[u] \in Nat /\ required[u] \in Nat /\ remaining[u] \in Nat
        /\ Due(u) \in Nat /\ Due(u) <= required[u] /\ WholePart(Due(u)) \in Nat
    BY <1>2, <1>8, <2>2
  <2>4. CASE round = 1
    BY <1>2, <1>9, <2>1, <2>4 DEF SecondRound
  <2>5. CASE round = 0
    <3>1. FairWith(available[u], Due(u), vrb, rbg + 1)
      <4>1. FairWith(available[u], Due(u), vrb, rbg)
        BY <2>1, <2>5 DEF Fair, FairUpTo, u
      <4>2. SUFFICES ASSUME \A k \in WholeRbg : k < rbg => k \in vrb
                     PROVE  FairWith(available[u], Due(u), vrb, rbg + 1)
        BY <4>1 DEF FairWith
      <4>3. CASE rbg \in vrb \/ rbg \notin WholeRbg
        <5>1. \A k \in WholeRbg : k < rbg + 1 => k < rbg \/ k = rbg
          BY <1>2, CellFacts DEF WholeRbg, Rbg
        <5> QED
          BY <4>2, <4>3, <5>1 DEF FairWith
      <4>4. CASE rbg \notin vrb /\ rbg \in WholeRbg
        <5>1. rbg \notin alloc[u] /\ rbg \notin ShortRbg
          BY <2>2, <4>4 DEF Inv, Exclusive, WholeRbg
        <5>2. remaining[u] = 0 \/ available[u] >= required[u] \/ remaining[u] < MinRbUnit
          BY <2>1, <2>3, <4>4, <5>1, CellFacts DEF MayTake, Fits
        <5>3. available[u] + remaining[u] >= Due(u)
          BY <1>7, <2>1, <2>2, <2>5 DEF Conserving, FirstRound
        <5>4. CASE available[u] >= required[u]
          <6>1. WholePart(Due(u)) <= Due(u)
            BY <2>3, Parts
          <6> QED
            BY <2>3, <5>4, <6>1 DEF FairWith
        <5>5. CASE remaining[u] < MinRbUnit
          <6>1. alloc[u] \cap ShortRbg = {}
            <7>1. \A i \in alloc[u] : i < rbg
              BY <2>1, <2>5 DEF Fair, u
            <7>2. \A i \in ShortRbg : ~(i < rbg)
              BY <1>2, CellFacts DEF ShortRbg, Rbg
            <7> QED
              BY <7>1, <7>2
          <6>2. PICK c \in Nat : available[u] = MinRbUnit * c
            BY <2>2, <6>1, WholeCounts
          <6>3. Due(u) < MinRbUnit * c + MinRbUnit
            BY <2>3, <5>3, <5>5, <6>2, CellFacts
          <6>4. WholePart(Due(u)) <= MinRbUnit * c
            BY <2>3, <6>3, Parts
          <6> QED
            BY <6>2, <6>4 DEF FairWith
        <5> QED
          BY <5>2, <5>4, <5>5, CellFacts
      <4> QED
        BY <4>3, <4>4
    <3>2. /\ \A v \in Ue : available'[v] \in Nat /\ available'[v] >= available[v]
          /\ \A v \in Ue : v # order[turn] => alloc'[v] = alloc[v]
          /\ alloc'[order[turn]] \subseteq alloc[order[turn]] \cup {rbg}
          /\ vrb \subseteq vrb'
      BY <1>2, <2>1
    <3>3. \A v \in Ue : TakenWithin(alloc'[v], remaining'[v], share[v])
      BY <2>1, <2>5 DEF Fair
    <3> QED
      BY <2>1, <2>5, <3>1, <3>2, <3>3, VisitFair DEF u
  <2> QED
    BY <1>2, <2>4, <2>5
<1>14. CASE EndFirstRound
  <2>1. /\ UNCHANGED <<order, vrb, alloc, available, remaining>>
        /\ pc = "visit" /\ pc' = "round" /\ turn > NumUe /\ round = 0 /\ round' = 1
    BY <1>14 DEF EndFirstRound
  <2>2. ASSUME NEW u \in Ue PROVE available[u] >= WholePart(Due(u))
    <3>1. PICK k \in Ue : order[k] = u
      BY <1>1, EveryTurn DEF Conserving
    <3>2. k < turn
      BY <1>2, <2>1, <3>1, CellFacts DEF Ue
    <3>3. FairWith(available[u], Due(u), vrb, NbRbg)
      BY <2>1, <3>1, <3>2 DEF Fair, FairUpTo
    <3>4. CASE \A i \in WholeRbg : i < NbRbg => i \in vrb
      <4>1. WholeRbg \subseteq vrb
        BY <3>4, CellFacts DEF WholeRbg, Rbg
      <4>2. ASSUME NEW v \in Ue PROVE MinRbUnit * Cardinality(alloc[v] \ ShortRbg) <= Due(v)
        <5>1. MinRbUnit * Cardinality(alloc[v] \ ShortRbg) + remaining[v] <= Due(v)
          BY <1>7, <2>1 DEF Fair, TakenWithin
        <5>2. Cardinality(alloc[v] \ ShortRbg) \in Nat /\ remaining[v] \in Nat /\ Due(v) \in Nat
          BY <1>2, <1>8, WholeCounts
        <5>3. PICK w \in Int : w = MinRbUnit * Cardinality(alloc[v] \ ShortRbg)
          BY <5>2, CellFacts
        <5> QED
          BY <5>1, <5>2, <5>3
      <4> QED
        BY <4>1, <4>2, AllTaken
    <3> QED
      BY <3>3, <3>4 DEF FairWith
  <2> QED
    BY <1>6, <1>7, <2>1, <2>2 DEF Fair, Due, SecondRound
<1>15. CASE EndSecondRound
  BY <1>2, <1>9, <1>15 DEF EndSecondRound, SecondRound
<1>16. ASSUME NEW v \in Ue, PassUe(v) \/ Retransmit(v) \/ Transmit(v) PROVE Fair'
  <2>1. pc = "schedule" /\ UNCHANGED <<pc, round, available>>
    BY <1>16 DEF PassUe, Retransmit, Transmit, AtTurn
  <2> QED
    BY <1>2, <1>9, <2>1 DEF SecondRound
<1>17. CASE UNCHANGED vars
  <2>1. UNCHANGED <<pc, round, turn, rbg, order, vrb, alloc, available, remaining>>
    BY <1>17 DEF vars
  <2> QED
    BY <1>6, <2>1 DEF Fair, FairUpTo, FairWith, TakenWithin, WholePart, Due, SecondRound
<1> QED
  BY <1>10, <1>11, <1>12, <1>13, <1>14, <1>15, <1>16, <1>17 DEF Next

LEMMA InitFair == Init => Fair
  BY DEF Init, Fair, SecondRound

\* For every cell and every number of UEs of low priority that a group each can be given
\* to: none is left with less than the whole groups of an equal share when it requires
\* as much.
THEOREM EqualShares == Spec => []FairShare
<1>1. Inv /\ Fair => FairShare
  <2> SUFFICES ASSUME Inv, Fair, pc = "schedule", EvenLoad, NEW u \in Ue
               PROVE  available[u] >= WholePart(Due(u))
    BY DEF FairShare, EvenLoad, Crowd, Needy, Due, DueOf, WholePart
  <2> QED
    BY DEF Fair, SecondRound
<1>2. Spec => []Conserving
  BY Invariance, InitConserving, ConservingStep, PTL DEF Spec
<1>3. Spec => []Fair
  BY Invariance, <1>2, InitFair, FairStep, PTL DEF Spec
<1> QED
  BY <1>1, <1>3, Invariance, PTL
=============================================================================
