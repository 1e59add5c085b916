------------------------ MODULE CentralSchedulerProofs ------------------------
(***************************************************************************)
(* For any number of UEs, whatever they report: the CCEs of the control    *)
(* channel are accounted for, the search for a place of an assignment has  *)
(* one, and a pending timing advance command waits for a bounded number of *)
(* opportunities. With fewer than 900 UEs the control region never grows:  *)
(* the size it starts from, without symbols, has the wrapped number of     *)
(* CCEs that get_nquad makes of a negative one.                            *)
(*                                                                         *)
(* A block holds what was requested for it, at no MCS above that of the    *)
(* CQI, and more than the room is requested only after a first channel or  *)
(* in a room of one header. The loop over the channels and the sum of what *)
(* a block carries are recursive functions: Iterated says that such a      *)
(* function exists, Steps stands for the induction along it.               *)
(***************************************************************************)
EXTENDS CentralScheduler, FiniteSetTheorems, TLAPS

\* What the accounting rests on: the types of the values it reads, and the region
\* as the CCEs that are left and those assigned.
RegionOK ==
  /\ turn \in 0 .. NumUes + 1
  /\ symbols \in Symbols /\ rem \in Int /\ assigned \in Nat
  /\ agg \in Aggregation
  /\ csi \in [Ue -> 0 .. 15 \cup {NoCsi}]
  /\ rem + assigned = NCCEMax(symbols)

\* A UE takes at most eight CCEs, and an assignment is made in its turn only.
FewAssigned == assigned <= 8 * turn \/ turn = 0

\* The timer and the opportunities that have passed since it was set.
TimerOK ==
  /\ taTimer \in [Ue -> Nat] /\ waited \in [Ue -> Nat]
  /\ \A u \in Ue : taTimer[u] + waited[u] <= TaPeriod

\* The search of get_nCCE_offset divides by the number of places.
SearchHasPlace ==
  \A a \in Aggregation :
    Feasible(symbols, rem, a) => Offsets(a, NCCEMax(SymbolsAfter(symbols, rem, a))) # {}

\* The check refuses no assignment, although it is there to do so
\* (flexible_scheduler.cc:380-386).
NeverRefused == turn \in Ue => \A a \in Aggregation : Feasible(symbols, rem, a)

-----------------------------------------------------------------------------
LEMMA CceFacts ==
  ASSUME NEW a \in Aggregation
  PROVE  CceOf(a) \in 1 .. 8
<1>1. a = 0 \/ a = 1 \/ a = 2 \/ a = 3
  BY DEF Aggregation
<1> QED
  BY <1>1 DEF CceOf

LEMMA LeastOf ==
  ASSUME NEW S, S \subseteq Symbols, S # {}
  PROVE  Min(S) \in S /\ \A s \in S : Min(S) <= s
<1>1. \E x \in S : \A y \in S : x =< y
  <2>1. CASE 0 \in S
    BY <2>1 DEF Symbols
  <2>2. CASE 0 \notin S /\ 1 \in S
    BY <2>2 DEF Symbols
  <2>3. CASE 0 \notin S /\ 1 \notin S /\ 2 \in S
    BY <2>3 DEF Symbols
  <2>4. CASE 0 \notin S /\ 1 \notin S /\ 2 \notin S
    <3>1. \A y \in S : y = 3
      BY <2>4 DEF Symbols
    <3>2. PICK y \in S : TRUE
      OBVIOUS
    <3> QED
      BY <3>1, <3>2
  <2> QED
    BY <2>1, <2>2, <2>3, <2>4
<1> QED
  BY <1>1 DEF Min

LEMMA SixthsFacts == PhichSixths \in {1, 3, 6, 12}
  BY PdcchAssumption DEF PhichSixths, PdcchAssumption

LEMMA GroupsFacts == PhichGroups \in 0 .. 50
<1> DEFINE product == PhichSixths * Bandwidth
           groups == product \div 48 + (IF product % 48 > 0 THEN 1 ELSE 0)
<1>1. product \in 0 .. 1200
  <2>1. PhichSixths \in {1, 3, 6, 12} /\ Bandwidth \in {6, 25, 50, 100}
    BY SixthsFacts, PdcchAssumption DEF PdcchAssumption
  <2> HIDE DEF product
  <2> QED
    BY <2>1 DEF product
<1>2. groups \in 0 .. 25
  <2> HIDE DEF product
  <2>1. product \in Int /\ 0 <= product /\ product <= 1200
    BY <1>1
  <2> QED
    BY <2>1
<1>3. PhichGroups = IF ExtendedPrefix THEN 2 * groups ELSE groups
  BY DEF PhichGroups
<1> HIDE DEF groups, product
<1> QED
  BY <1>2, <1>3

LEMMA CceMaxFacts ==
  /\ \A s \in Symbols : NCCEMax(s) \in Nat
  /\ NCCEMax(0) >= 7264
<1>1. PhichGroups \in Int /\ 0 <= PhichGroups /\ PhichGroups <= 50
  BY GroupsFacts
<1>4. ASSUME NEW s \in Symbols
      PROVE  NCCEMax(s) \in Nat
  <2>1. Quadruplets(s) \in Int
    BY PdcchAssumption DEF Quadruplets, Symbols, PdcchAssumption
  <2>2. Quadruplets(s) - 4 - 3 * PhichGroups \in Int
    BY <1>1, <2>1
  <2>3. NQuad(s) \in Nat
    BY <2>2 DEF NQuad
  <2> QED
    BY <2>3 DEF NCCEMax
<1>5. NQuad(0) >= 65382 /\ NQuad(0) \in Int
  <2>1. Quadruplets(0) = 0
    BY DEF Quadruplets
  <2>2. NQuad(0) = (0 - 4 - 3 * PhichGroups) % 65536
    BY <2>1 DEF NQuad
  <2> QED
    BY <2>2, <1>1
<1> QED
  BY <1>4, <1>5 DEF NCCEMax

\* What the check makes of the region, whatever the aggregation.
LEMMA GrownRegion ==
  ASSUME RegionOK, NEW a \in Aggregation
  PROVE  /\ SymbolsAfter(symbols, rem, a) \in Symbols
         /\ RemAfter(symbols, rem, a) = NCCEMax(SymbolsAfter(symbols, rem, a)) - assigned
         /\ RemAfter(symbols, rem, a) \in Int
         /\ Feasible(symbols, rem, a) => CceOf(a) <= RemAfter(symbols, rem, a)
<1> DEFINE S == SizesWithRoom(symbols, rem, a)
<1>1. S \subseteq Symbols
  BY DEF SizesWithRoom, RegionOK, Symbols
<1>2. Feasible(symbols, rem, a) =>
        SymbolsAfter(symbols, rem, a) \in S /\ SymbolsAfter(symbols, rem, a) = Min(S)
  BY <1>1, LeastOf DEF Feasible, SymbolsAfter
<1>3. SymbolsAfter(symbols, rem, a) \in Symbols
  BY <1>1, <1>2 DEF SymbolsAfter, Symbols
<1>4. \A s \in Symbols : RemAt(symbols, rem, s) = NCCEMax(s) - assigned
  BY CceMaxFacts DEF RemAt, RegionOK
<1>5. RemAfter(symbols, rem, a) = NCCEMax(SymbolsAfter(symbols, rem, a)) - assigned
  BY <1>3, <1>4 DEF RemAfter
<1>6. RemAfter(symbols, rem, a) \in Int
  BY <1>3, <1>5, CceMaxFacts DEF RegionOK
<1>7. Feasible(symbols, rem, a) => CceOf(a) <= RemAfter(symbols, rem, a)
  BY <1>2 DEF SizesWithRoom, RemAfter
<1> QED
  BY <1>3, <1>5, <1>6, <1>7

LEMMA AggFacts ==
  ASSUME RegionOK, NEW u \in Ue
  PROVE  AggOf(u) \in Aggregation
<1>1. CASE csi[u] = NoCsi
  BY <1>1 DEF AggOf, RegionOK
<1>2. CASE csi[u] # NoCsi
  <2>1. csi[u] \in 0 .. 15
    BY <1>2 DEF RegionOK
  <2>2. \A c \in 0 .. 15 : CqiToAgg[c] \in Aggregation
    BY PdcchAssumption DEF CqiToAgg, Aggregation, PdcchAssumption
  <2> QED
    BY <1>2, <2>1, <2>2 DEF AggOf
<1> QED
  BY <1>1, <1>2

\* The check, with or without an assignment behind it, keeps the accounting.
LEMMA CheckKeepsRegion ==
  ASSUME RegionOK, NEW u \in Ue, NEW takes \in BOOLEAN, Check(u, takes)
  PROVE  /\ symbols' \in Symbols /\ rem' \in Int /\ assigned' \in Nat
         /\ agg' \in Aggregation
         /\ rem' + assigned' = NCCEMax(symbols')
         /\ assigned' <= assigned + 8
<1> DEFINE a == AggOf(u)
<1>1. a \in Aggregation
  BY AggFacts
<1>2. CceOf(a) \in 1 .. 8
  BY <1>1, CceFacts
<1>3. /\ SymbolsAfter(symbols, rem, a) \in Symbols
      /\ RemAfter(symbols, rem, a) = NCCEMax(SymbolsAfter(symbols, rem, a)) - assigned
      /\ RemAfter(symbols, rem, a) \in Int
  BY <1>1, GrownRegion
<1>4. /\ agg' = a /\ symbols' = SymbolsAfter(symbols, rem, a)
      /\ rem' = RemAfter(symbols, rem, a) - (IF takes THEN CceOf(a) ELSE 0)
      /\ assigned' = IF takes THEN assigned + CceOf(a) ELSE assigned
  BY DEF Check
<1>5. NCCEMax(symbols') \in Int
  BY <1>3, <1>4, CceMaxFacts
<1>6. assigned \in Nat
  BY DEF RegionOK
<1> HIDE DEF a
<1> QED
  BY <1>1, <1>2, <1>3, <1>4, <1>5, <1>6

-----------------------------------------------------------------------------
\* A turn of a UE checks the control channel once.
LEMMA TurnChecks ==
  ASSUME NEW u \in Ue, Turn(u)
  PROVE  /\ turn = u /\ turn' = turn + 1 /\ csi' = csi
         /\ \E takes \in BOOLEAN : Check(u, takes)
<1>1. CASE PassUe(u)
  BY <1>1 DEF PassUe, NextUe, reported
<1>2. ASSUME NEW avail \in RbChoices, NewBlock(u, avail)
      PROVE  turn = u /\ turn' = turn + 1 /\ csi' = csi /\ \E takes \in BOOLEAN : Check(u, takes)
  <2> DEFINE p == Packed(Tbs(McsOf(u), avail), TaLen(u), queues[u])
  <2>1. HasPayload(p) \in BOOLEAN
    BY DEF HasPayload
  <2>2. Check(u, HasPayload(p)) /\ turn = u /\ turn' = turn + 1 /\ csi' = csi
    BY <1>2 DEF NewBlock, NextUe
  <2> QED
    BY <2>1, <2>2
<1>3. ASSUME NEW avail \in RbChoices, NEW old \in OldBlocks, RepeatBlock(u, avail, old)
      PROVE  turn = u /\ turn' = turn + 1 /\ csi' = csi /\ \E takes \in BOOLEAN : Check(u, takes)
  <2>1. (old.nb <= avail) \in BOOLEAN
    OBVIOUS
  <2>2. Check(u, old.nb <= avail) /\ turn = u /\ turn' = turn + 1 /\ csi' = csi
    BY <1>3 DEF RepeatBlock, NextUe, reported
  <2> QED
    BY <2>1, <2>2
<1> QED
  BY <1>1, <1>2, <1>3 DEF Turn

LEMMA InitRegion == Init => RegionOK
<1>1. 0 \in Symbols /\ 1 \in Aggregation
  BY DEF Symbols, Aggregation
<1>2. NCCEMax(0) \in Nat
  BY <1>1, CceMaxFacts
<1>3. NumUes \in Nat
  BY CentralAssumption DEF CentralAssumption
<1> QED
  BY <1>1, <1>2, <1>3 DEF Init, RegionOK, StartSymbols, StartRem

LEMMA NextRegion == RegionOK /\ [Next]_vars => RegionOK'
<1> SUFFICES ASSUME RegionOK, [Next]_vars
             PROVE  RegionOK'
  OBVIOUS
<1> USE CentralAssumption DEF CentralAssumption
<1>1. CASE BeginRun
  <2>1. 0 \in Symbols /\ NCCEMax(0) \in Nat
    BY CceMaxFacts DEF Symbols
  <2>2. /\ turn' = 1 /\ symbols' = 0 /\ rem' = NCCEMax(0) /\ assigned' = 0
        /\ agg' = agg /\ csi' = csi
    BY <1>1 DEF BeginRun, StartSymbols, StartRem, locals, reported
  <2> QED
    BY <2>1, <2>2 DEF RegionOK
<1>2. CASE EndRun
  <2>1. /\ turn' = 0 /\ agg' = 1 /\ csi' = csi
        /\ symbols' = symbols /\ rem' = rem /\ assigned' = assigned
    BY <1>2 DEF EndRun, region, reported
  <2>2. NCCEMax(symbols') = NCCEMax(symbols)
    BY <2>1
  <2> QED
    BY <2>1, <2>2 DEF RegionOK, Aggregation
<1>3. ASSUME NEW u \in Ue, Report(u)
      PROVE  RegionOK'
  <2>1. csi' \in [Ue -> 0 .. 15 \cup {NoCsi}]
    <3>1. \A c \in Cqis[u] : c \in 0 .. 15
      BY DEF Ue
    <3> QED
      BY <1>3, <3>1 DEF Report, RegionOK
  <2>2. /\ turn' = turn /\ agg' = agg
        /\ symbols' = symbols /\ rem' = rem /\ assigned' = assigned
    BY <1>3 DEF Report, region, locals
  <2>3. NCCEMax(symbols') = NCCEMax(symbols)
    BY <2>2
  <2> QED
    BY <2>1, <2>2, <2>3 DEF RegionOK
<1>4. ASSUME NEW u \in Ue, Turn(u)
      PROVE  RegionOK'
  <2>1. /\ symbols' \in Symbols /\ rem' \in Int /\ assigned' \in Nat
        /\ agg' \in Aggregation /\ rem' + assigned' = NCCEMax(symbols')
    BY <1>4, TurnChecks, CheckKeepsRegion
  <2>2. turn' \in 0 .. NumUes + 1 /\ csi' = csi
    BY <1>4, TurnChecks DEF Ue
  <2> QED
    BY <2>1, <2>2 DEF RegionOK
<1>5. CASE UNCHANGED vars
  <2>1. /\ turn' = turn /\ agg' = agg /\ csi' = csi
        /\ symbols' = symbols /\ rem' = rem /\ assigned' = assigned
    BY <1>5 DEF vars, region, locals, reported
  <2>2. NCCEMax(symbols') = NCCEMax(symbols)
    BY <2>1
  <2> QED
    BY <2>1, <2>2 DEF RegionOK
<1> QED
  BY <1>1, <1>2, <1>3, <1>4, <1>5 DEF Next

\* The CCEs that are left and those that were assigned in a run are those of the
\* region, for any number of UEs (get_nCCE_rem, assign_CCE, increase_num_pdcch_symbols).
THEOREM RegionAccounted == Spec => []RegionOK
  BY InitRegion, NextRegion, PTL DEF Spec

-----------------------------------------------------------------------------
LEMMA NextFew == RegionOK /\ FewAssigned /\ [Next]_vars => FewAssigned'
<1> SUFFICES ASSUME RegionOK, FewAssigned, [Next]_vars
             PROVE  FewAssigned'
  OBVIOUS
<1>1. CASE BeginRun
  BY <1>1 DEF BeginRun, FewAssigned
<1>2. CASE EndRun
  BY <1>2 DEF EndRun, FewAssigned
<1>3. ASSUME NEW u \in Ue, Report(u)
      PROVE  FewAssigned'
  BY <1>3 DEF Report, region, FewAssigned
<1>4. ASSUME NEW u \in Ue, Turn(u)
      PROVE  FewAssigned'
  <2>1. turn = u /\ turn' = turn + 1 /\ u # 0 /\ u \in Int
    BY <1>4, TurnChecks, CentralAssumption DEF Ue, CentralAssumption
  <2>2. assigned' <= assigned + 8 /\ assigned' \in Nat /\ assigned \in Nat
    BY <1>4, TurnChecks, CheckKeepsRegion DEF RegionOK
  <2> QED
    BY <2>1, <2>2 DEF FewAssigned
<1>5. CASE UNCHANGED vars
  BY <1>5 DEF vars, region, FewAssigned
<1> QED
  BY <1>1, <1>2, <1>3, <1>4, <1>5 DEF Next

\* With fewer UEs than that the CCEs of no symbols are never used up.
StaysEmpty == symbols = 0 /\ rem >= 0

\* CCE_allocation_infeasible finds room in the region that a round starts with.
LEMMA NoGrowth ==
  ASSUME NumUes <= 900, RegionOK, FewAssigned, StaysEmpty, turn \in Ue,
         NEW a \in Aggregation
  PROVE  /\ Feasible(symbols, rem, a)
         /\ SymbolsAfter(symbols, rem, a) = 0
         /\ RemAfter(symbols, rem, a) >= CceOf(a)
<1> DEFINE S == SizesWithRoom(symbols, rem, a)
<1>1. NumUes \in Nat /\ turn \in Int /\ 1 <= turn /\ turn <= 900
  BY CentralAssumption DEF CentralAssumption, Ue
<1>2. NCCEMax(0) \in Nat /\ NCCEMax(0) >= 7264
  BY CceMaxFacts DEF Symbols
<1>3. assigned \in Nat /\ rem \in Int /\ rem + assigned = NCCEMax(0) /\ assigned <= 7200
  BY <1>1 DEF RegionOK, FewAssigned, StaysEmpty
<1>4. RemAt(symbols, rem, 0) = rem
  BY <1>2, <1>3 DEF RemAt, StaysEmpty
<1>5. CceOf(a) \in 1 .. 8
  BY CceFacts
<1>6. 0 \in S
  BY <1>2, <1>3, <1>4, <1>5 DEF SizesWithRoom, StaysEmpty
<1>7. S \subseteq Symbols
  BY DEF SizesWithRoom, StaysEmpty, Symbols
<1>8. Min(S) = 0
  BY <1>6, <1>7, LeastOf DEF Symbols
<1>9. Feasible(symbols, rem, a) /\ SymbolsAfter(symbols, rem, a) = 0
  BY <1>6, <1>8 DEF Feasible, SymbolsAfter
<1> QED
  BY <1>9, <1>4, <1>2, <1>3, <1>5 DEF RemAfter

LEMMA NextStaysEmpty ==
  ASSUME NumUes <= 900
  PROVE  RegionOK /\ FewAssigned /\ StaysEmpty /\ [Next]_vars => StaysEmpty'
<1> SUFFICES ASSUME RegionOK, FewAssigned, StaysEmpty, [Next]_vars
             PROVE  StaysEmpty'
  OBVIOUS
<1>1. CASE BeginRun
  BY <1>1, CceMaxFacts DEF BeginRun, StaysEmpty, StartSymbols, StartRem, Symbols
<1>2. CASE EndRun
  BY <1>2 DEF EndRun, region, StaysEmpty
<1>3. ASSUME NEW u \in Ue, Report(u)
      PROVE  StaysEmpty'
  BY <1>3 DEF Report, region, StaysEmpty
<1>4. ASSUME NEW u \in Ue, Turn(u)
      PROVE  StaysEmpty'
  <2>1. turn = u
    BY <1>4, TurnChecks
  <2>2. PICK takes \in BOOLEAN : Check(u, takes)
    BY <1>4, TurnChecks
  <2>3. AggOf(u) \in Aggregation /\ CceOf(AggOf(u)) \in 1 .. 8
    BY AggFacts, CceFacts
  <2>4. /\ SymbolsAfter(symbols, rem, AggOf(u)) = 0
        /\ RemAfter(symbols, rem, AggOf(u)) >= CceOf(AggOf(u))
    BY <2>1, <2>3, NoGrowth
  <2>5. RemAfter(symbols, rem, AggOf(u)) \in Int
    BY <2>3, GrownRegion
  <2> QED
    BY <2>2, <2>3, <2>4, <2>5 DEF Check, StaysEmpty
<1>5. CASE UNCHANGED vars
  BY <1>5 DEF vars, region, StaysEmpty
<1> QED
  BY <1>1, <1>2, <1>3, <1>4, <1>5 DEF Next

\* For fewer than 900 UEs the CCEs are accounted for and those left are no fewer than
\* none: the subtraction of assign_CCE does not pass zero.
THEOREM CcesAccounted ==
  ASSUME NumUes <= 900
  PROVE  Spec => []CceAccounting
<1>1. Init => RegionOK /\ FewAssigned /\ StaysEmpty
  BY InitRegion, CceMaxFacts DEF Init, FewAssigned, StaysEmpty, StartSymbols, StartRem, Symbols
<1>2. RegionOK /\ FewAssigned /\ StaysEmpty /\ [Next]_vars => (RegionOK /\ FewAssigned /\ StaysEmpty)'
  BY NextRegion, NextFew, NextStaysEmpty
<1>3. RegionOK /\ FewAssigned /\ StaysEmpty => CceAccounting
  BY DEF RegionOK, StaysEmpty, CceAccounting
<1> QED
  BY <1>1, <1>2, <1>3, PTL DEF Spec

\* For fewer than 900 UEs the region stays without symbols, and the check that an
\* assignment is feasible refuses none: get_nquad counts thousands of CCEs there.
THEOREM RegionNeverGrows ==
  ASSUME NumUes <= 900
  PROVE  Spec => [](symbols = 0 /\ NeverRefused)
<1>1. Init => RegionOK /\ FewAssigned /\ StaysEmpty
  BY InitRegion, CceMaxFacts DEF Init, FewAssigned, StaysEmpty, StartSymbols, StartRem, Symbols
<1>2. RegionOK /\ FewAssigned /\ StaysEmpty /\ [Next]_vars => (RegionOK /\ FewAssigned /\ StaysEmpty)'
  BY NextRegion, NextFew, NextStaysEmpty
<1>3. RegionOK /\ FewAssigned /\ StaysEmpty => symbols = 0 /\ NeverRefused
  BY NoGrowth DEF StaysEmpty, NeverRefused
<1> QED
  BY <1>1, <1>2, <1>3, PTL DEF Spec

\* Where the check finds room, the search that get_nCCE_offset makes in the region has
\* a place: it does not divide by zero.
THEOREM SearchFindsPlace == Spec => []SearchHasPlace
<1>1. RegionOK => SearchHasPlace
  <2> SUFFICES ASSUME RegionOK, NEW a \in Aggregation, Feasible(symbols, rem, a)
               PROVE  Offsets(a, NCCEMax(SymbolsAfter(symbols, rem, a))) # {}
    BY DEF SearchHasPlace
  <2> DEFINE most == NCCEMax(SymbolsAfter(symbols, rem, a))
  <2>1. /\ SymbolsAfter(symbols, rem, a) \in Symbols
        /\ CceOf(a) <= most - assigned
    BY GrownRegion
  <2>2. most \in Nat /\ assigned \in Nat /\ CceOf(a) \in 1 .. 8
    BY <2>1, CceMaxFacts, CceFacts DEF RegionOK
  <2> HIDE DEF most
  <2>3. CceOf(a) <= most
    BY <2>1, <2>2
  <2>4. most \div CceOf(a) >= 1 /\ most \div CceOf(a) \in Int
    <3>1. \A c \in 1 .. 8 : c <= most => most \div c >= 1 /\ most \div c \in Int
      BY <2>2
    <3> QED
      BY <3>1, <2>2, <2>3
  <2>5. 0 \in 0 .. most \div CceOf(a) - 1
    BY <2>4
  <2>6. 0 * CceOf(a) \in Offsets(a, most)
    BY <2>5 DEF Offsets
  <2> QED
    BY <2>6 DEF most
<1> QED
  BY <1>1, RegionAccounted, PTL

-----------------------------------------------------------------------------
LEMMA NextTimerOK == TimerOK /\ [Next]_vars => TimerOK'
<1> SUFFICES ASSUME TimerOK, [Next]_vars
             PROVE  TimerOK'
  OBVIOUS
<1>1. ASSUME UNCHANGED <<taTimer, waited>>
      PROVE  TimerOK'
  BY <1>1 DEF TimerOK
<1>2. BeginRun \/ EndRun \/ UNCHANGED vars => UNCHANGED <<taTimer, waited>>
  BY DEF BeginRun, EndRun, vars
<1>3. ASSUME NEW u \in Ue, Report(u) \/ PassUe(u)
      PROVE  UNCHANGED <<taTimer, waited>>
  BY <1>3 DEF Report, PassUe
<1>4. ASSUME NEW u \in Ue, NEW avail \in RbChoices, NEW old \in OldBlocks,
             RepeatBlock(u, avail, old)
      PROVE  UNCHANGED <<taTimer, waited>>
  BY <1>4 DEF RepeatBlock
<1>5. ASSUME NEW u \in Ue, NEW avail \in RbChoices, NewBlock(u, avail)
      PROVE  TimerOK'
  <2>1. /\ taTimer' = [taTimer EXCEPT ![u] = NextTimer(u)]
        /\ waited' = [waited EXCEPT ![u] = IF wantsTa[u] /\ TaLen(u) = 0 THEN @ + 1 ELSE 0]
    BY <1>5 DEF NewBlock
  <2>2. TaPeriod \in Nat /\ taTimer[u] \in Nat /\ waited[u] \in Nat
        /\ taTimer[u] + waited[u] <= TaPeriod
    BY CentralAssumption DEF CentralAssumption, TimerOK
  <2>3. /\ NextTimer(u) \in Nat
        /\ NextTimer(u) + (IF wantsTa[u] /\ TaLen(u) = 0 THEN waited[u] + 1 ELSE 0) <= TaPeriod
    BY <2>2 DEF NextTimer, TaLen
  <2> QED
    BY <2>1, <2>2, <2>3 DEF TimerOK
<1> QED
  BY <1>1, <1>2, <1>3, <1>4, <1>5 DEF Next, Turn

\* A timing advance command that stays pending is given space after TaPeriod
\* opportunities for a new block, whatever the other UEs get.
THEOREM TaWaitIsBounded == Spec => []TaWaitBounded
<1>1. Init => TimerOK
  BY CentralAssumption DEF CentralAssumption, Init, TimerOK
<1>2. TimerOK => TaWaitBounded
  BY CentralAssumption DEF CentralAssumption, TimerOK, TaWaitBounded
<1> QED
  BY <1>1, <1>2, NextTimerOK, PTL DEF Spec

-----------------------------------------------------------------------------
(* Numbers from 0 to n                                                     *)

\* A set of such numbers has a least one.
LEMMA LeastNumber ==
  ASSUME NEW n \in Nat, NEW T \in SUBSET (0 .. n), T # {}
  PROVE  /\ \E i \in T : \A k \in T : i <= k
         /\ Min(T) \in T /\ \A k \in T : Min(T) <= k
<1> DEFINE Closed == {U \in SUBSET T : U # {} /\ \A i \in U, k \in T : k < i => k \in U}
           R == StrictSubsetOrdering(T)
<1>1. IsFiniteSet(T) /\ \A i \in T : i \in Int
  <2>1. IsFiniteSet(0 .. n)
    BY FS_Interval
  <2>2. IsFiniteSet(T)
    BY <2>1, FS_Subset
  <2> QED
    BY <2>2
<1>2. IsWellFoundedOn(R, SUBSET T)
  BY <1>1, FS_StrictSubsetOrderingWellFounded, FS_FiniteSubsetsOfFinite
<1>3. Closed \subseteq SUBSET T /\ Closed # {}
  <2>1. T \in Closed
    OBVIOUS
  <2> QED
    BY <2>1
<1>4. PICK U \in Closed : \A V \in Closed : ~(<<V, U>> \in R)
  <2> HIDE DEF R, Closed
  <2> QED
    BY <1>2, <1>3, WFMin
<1>5. PICK i \in U : TRUE
  OBVIOUS
<1>6. i \in T /\ i \in Int
  BY <1>1
<1>7. ASSUME NEW k \in T, k < i PROVE FALSE
  <2> DEFINE V == {j \in U : j < i}
  <2>1. V \in Closed
    <3>1. k \in V
      BY <1>4, <1>5, <1>7
    <3>2. ASSUME NEW j \in V, NEW h \in T, h < j PROVE h \in V
      BY <1>1, <1>4, <1>6, <3>2
    <3> QED
      BY <1>4, <3>1, <3>2
  <2>2. V \subseteq U /\ V # U
    BY <1>5, <1>6
  <2>3. <<V, U>> \in R
    BY <2>1, <2>2 DEF StrictSubsetOrdering
  <2> QED
    BY <1>4, <2>1, <2>3
<1>8. \A k \in T : i <= k
  BY <1>1, <1>6, <1>7
<1> QED
  BY <1>6, <1>8 DEF Min

\* And a greatest one.
LEMMA GreatestNumber ==
  ASSUME NEW n \in Nat, NEW T \in SUBSET (0 .. n), T # {}
  PROVE  /\ \E i \in T : \A k \in T : k <= i
         /\ Max(T) \in T /\ \A k \in T : k <= Max(T)
<1> DEFINE M == {n - k : k \in T}
<1>1. M \in SUBSET (0 .. n) /\ M # {} /\ \A k \in T : k \in Int
  <2>1. \A k \in T : k \in Int /\ 0 <= k /\ k <= n
    OBVIOUS
  <2>2. \A k \in T : n - k \in 0 .. n
    BY <2>1
  <2>3. \E k \in T : n - k \in M
    OBVIOUS
  <2> QED
    BY <2>1, <2>2, <2>3
<1>2. PICK i \in M : \A k \in M : i <= k
  BY <1>1, LeastNumber
<1>3. PICK g \in T : i = n - g
  OBVIOUS
<1>4. ASSUME NEW k \in T PROVE k <= g
  <2>1. n - k \in M
    OBVIOUS
  <2>2. i <= n - k
    BY <1>2, <2>1
  <2> QED
    BY <1>1, <1>3, <2>2
<1> QED
  BY <1>3, <1>4 DEF Max

\* What holds of 0, and of a number when it holds of the one before, holds up to n.
LEMMA Steps ==
  ASSUME NEW n \in Nat, NEW S, 0 \in S, \A j \in 1 .. n : j - 1 \in S => j \in S
  PROVE  \A j \in 0 .. n : j \in S
<1> SUFFICES ASSUME (0 .. n) \ S # {} PROVE FALSE
  OBVIOUS
<1>1. PICK i \in (0 .. n) \ S : \A k \in (0 .. n) \ S : i <= k
  <2>1. (0 .. n) \ S \in SUBSET (0 .. n)
    OBVIOUS
  <2> QED
    BY <2>1, LeastNumber
<1>2. i # 0 /\ i \in 1 .. n /\ i - 1 \in 0 .. n
  OBVIOUS
<1>3. i - 1 \in S
  BY <1>1, <1>2
<1> QED
  BY <1>2, <1>3

\* g holds a value that starts as e and is made from the one before by step[j].
Iterates(g, n, T, e, step) ==
  /\ g \in [0 .. n -> T]
  /\ g[0] = e /\ \A j \in 1 .. n : g[j] = step[j][g[j - 1]]

\* There is one.
LEMMA Iterated ==
  ASSUME NEW n \in Nat, NEW T, NEW e \in T, NEW step \in [1 .. n -> [T -> T]]
  PROVE  \E g : Iterates(g, n, T, e, step)
<1> DEFINE Does(g, k) == g[0] = e /\ \A j \in 1 .. k : g[j] = step[j][g[j - 1]]
           S == {k \in 0 .. n : \E g \in [0 .. k -> T] : Does(g, k)}
<1>1. 0 \in S
  <2> DEFINE g == [i \in 0 .. 0 |-> e]
  <2>1. g \in [0 .. 0 -> T] /\ Does(g, 0)
    OBVIOUS
  <2> HIDE DEF g, Does
  <2> QED
    BY <2>1
<1>2. ASSUME NEW k \in 1 .. n, k - 1 \in S PROVE k \in S
  <2>1. PICK g \in [0 .. k - 1 -> T] : Does(g, k - 1)
    BY <1>2
  <2> DEFINE h == [i \in 0 .. k |-> IF i = k THEN step[k][g[k - 1]] ELSE g[i]]
  <2>2. g[k - 1] \in T /\ step[k] \in [T -> T]
    OBVIOUS
  <2>3. h \in [0 .. k -> T]
    BY <2>2
  <2>4. h[0] = e
    <3>1. g[0] = e /\ 0 # k /\ 0 \in 0 .. k
      BY <2>1
    <3> QED
      BY <3>1
  <2>5. ASSUME NEW j \in 1 .. k PROVE h[j] = step[j][h[j - 1]]
    <3>1. CASE j = k
      BY <3>1
    <3>2. CASE j # k
      <4>1. j \in 1 .. k - 1 /\ h[j] = g[j] /\ h[j - 1] = g[j - 1]
        BY <3>2
      <4> QED
        BY <2>1, <4>1
    <3> QED
      BY <3>1, <3>2
  <2>6. k \in 0 .. n /\ Does(h, k)
    <3> HIDE DEF h
    <3> QED
      BY <2>4, <2>5
  <2> HIDE DEF h, Does
  <2> QED
    BY <2>3, <2>6
<1>3. \A j \in 1 .. n : j - 1 \in S => j \in S
  <2> HIDE DEF S
  <2> QED
    BY <1>2
<1>4. n \in S
  <2> HIDE DEF S
  <2>1. \A j \in 0 .. n : j \in S
    BY <1>1, <1>3, Steps
  <2> QED
    BY <2>1
<1> QED
  BY <1>4 DEF Iterates
-----------------------------------------------------------------------------
(* The packing of a block                                                  *)

Pack == [header : Nat, last : Nat, total : Nat, requests : Seq(Nat)]

\* What is requested is no more than what the queue holds, and is nothing only if the
\* queue is empty or there is exactly no room.
LEMMA RequestFacts ==
  ASSUME NEW room \in Int, NEW p, NEW queue \in Nat
  PROVE  /\ Request(room, p, queue) \in Nat /\ Request(room, p, queue) <= queue
         /\ room >= 0 => Request(room, p, queue) <= room
         /\ room # 0 /\ queue # 0 => Request(room, p, queue) > 0
<1>1. CASE room < 0
  BY <1>1 DEF Request
<1>2. CASE room >= 0
  <2> DEFINE least == Min({room, queue})
  <2>1. least = room \/ least = queue
    <3>1. {room, queue} \in SUBSET (0 .. room + queue) /\ {room, queue} # {}
      BY <1>2
    <3> QED
      BY <3>1, <1>2, LeastNumber
  <2>2. least <= room /\ least <= queue
    <3>1. {room, queue} \in SUBSET (0 .. room + queue) /\ {room, queue} # {}
      BY <1>2
    <3> QED
      BY <3>1, <1>2, LeastNumber
  <2>3. Request(room, p, queue) = least
    BY <1>2 DEF Request
  <2> HIDE DEF least
  <2> QED
    BY <1>2, <2>1, <2>2, <2>3
<1> QED
  BY <1>1, <1>2

\* What a channel adds: an entry of its own, and none of the others changes.
LEMMA ChannelFacts ==
  ASSUME NEW p \in Pack, NEW tbs \in Nat, NEW ta \in Nat, NEW queue \in Nat
  PROVE  /\ Channel(p, tbs, ta, queue) \in Pack
         /\ Len(Channel(p, tbs, ta, queue).requests) = Len(p.requests) + 1
         /\ \A i \in 1 .. Len(p.requests) :
              Channel(p, tbs, ta, queue).requests[i] = p.requests[i]
         /\ Channel(p, tbs, ta, queue).requests[Len(p.requests) + 1] <= queue
<1> DEFINE c == Channel(p, tbs, ta, queue)
           header == p.header + 3
           room == tbs - ta - header - p.total
           asked == Request(room, p, queue)
<1>1. /\ p.header \in Nat /\ p.last \in Nat /\ p.total \in Nat /\ p.requests \in Seq(Nat)
      /\ Len(p.requests) \in Nat
  BY DEF Pack
<1>2. room \in Int /\ header \in Nat /\ header >= 3
  BY <1>1
<1>3. asked \in Nat /\ asked <= queue
  BY <1>2, RequestFacts
<1>4. (p.total + asked) % 65536 \in Nat
  <2> HIDE DEF asked
  <2>1. p.total + asked \in Nat
    BY <1>1, <1>3
  <2> QED
    BY <2>1
<1>5. \E r \in Nat : /\ c.requests = Append(p.requests, r) /\ r <= queue
                     /\ c \in Pack
  <2>1. CASE room = 0
    <3>1. c = [p EXCEPT !.header = header, !.requests = Append(@, 0)]
      BY <2>1 DEF Channel
    <3> HIDE DEF c, header, room, asked
    <3>2. c = [header |-> header, last |-> p.last, total |-> p.total,
               requests |-> Append(p.requests, 0)]
      BY <3>1 DEF Pack
    <3>3. Append(p.requests, 0) \in Seq(Nat)
      BY <1>1
    <3>4. c \in Pack
      BY <1>1, <1>2, <3>2, <3>3 DEF Pack
    <3> QED
      BY <3>2, <3>4
  <2>2. CASE room # 0 /\ queue = 0
    <3>1. c = [p EXCEPT !.requests = Append(@, 0)]
      BY <2>2 DEF Channel
    <3> HIDE DEF c, header, room, asked
    <3>2. c = [header |-> p.header, last |-> p.last, total |-> p.total,
               requests |-> Append(p.requests, 0)]
      BY <3>1 DEF Pack
    <3>3. Append(p.requests, 0) \in Seq(Nat)
      BY <1>1
    <3>4. c \in Pack
      BY <1>1, <3>2, <3>3 DEF Pack
    <3> QED
      BY <3>2, <3>4
  <2>3. CASE room # 0 /\ queue # 0
    <3>1. c = [header   |-> IF asked < 128 THEN header - 1 ELSE header,
               last     |-> IF asked < 128 THEN 2 ELSE 3,
               total    |-> (p.total + asked) % 65536,
               requests |-> Append(p.requests, asked)]
      BY <2>3 DEF Channel
    <3> HIDE DEF c, header, asked
    <3>2. (IF asked < 128 THEN header - 1 ELSE header) \in Nat
          /\ (IF asked < 128 THEN 2 ELSE 3) \in Nat
          /\ Append(p.requests, asked) \in Seq(Nat)
      BY <1>1, <1>2, <1>3
    <3>3. c \in Pack
      BY <1>4, <3>1, <3>2 DEF Pack
    <3> QED
      BY <1>3, <3>1, <3>3
  <2> QED
    BY <2>1, <2>2, <2>3
<1> HIDE DEF c
<1>6. PICK r \in Nat : c.requests = Append(p.requests, r) /\ r <= queue /\ c \in Pack
  BY <1>5
<1>7. /\ Len(c.requests) = Len(p.requests) + 1
      /\ \A i \in 1 .. Len(p.requests) : c.requests[i] = p.requests[i]
      /\ c.requests[Len(p.requests) + 1] <= queue
  BY <1>1, <1>6
<1> QED
  BY <1>6, <1>7 DEF c

\* g holds the values of the loop over the channels: before the first, and after each.
Loop(g, tbs, ta, qs) ==
  /\ g \in [0 .. Len(qs) -> Pack]
  /\ g[0] = Empty
  /\ \A j \in 1 .. Len(qs) : g[j] = Channel(g[j - 1], tbs, ta, qs[j])

\* The loop ends with Packed.
LEMMA PackedByLoop ==
  ASSUME NEW tbs \in Nat, NEW ta \in Nat, NEW qs \in Seq(Nat)
  PROVE  \E g : Loop(g, tbs, ta, qs) /\ Packed(tbs, ta, qs) = g[Len(qs)]
<1> DEFINE n == Len(qs)
           E(f) == f = [j \in 0 .. n |->
                          IF j = 0 THEN Empty ELSE Channel(f[j - 1], tbs, ta, qs[j])]
           step == [j \in 1 .. n |-> [p \in Pack |-> Channel(p, tbs, ta, qs[j])]]
<1>1. n \in Nat /\ \A j \in 1 .. n : qs[j] \in Nat
  OBVIOUS
<1>2. Empty \in Pack
  BY DEF Empty, Pack
<1>3. step \in [1 .. n -> [Pack -> Pack]]
  <2> HIDE DEF n
  <2> QED
    BY <1>1, ChannelFacts
<1>4. PICK g : Iterates(g, n, Pack, Empty, step)
  <2> HIDE DEF n, step, E
  <2> QED
    BY <1>1, <1>2, <1>3, Iterated
<1>5. \A j \in 1 .. n : g[j] = Channel(g[j - 1], tbs, ta, qs[j])
  <2> SUFFICES ASSUME NEW j \in 1 .. n PROVE g[j] = Channel(g[j - 1], tbs, ta, qs[j])
    OBVIOUS
  <2> HIDE DEF n
  <2>1. j - 1 \in 0 .. n
    BY <1>1
  <2>2. g[j] = step[j][g[j - 1]] /\ g[j - 1] \in Pack
    <3> HIDE DEF step
    <3> QED
      BY <1>4, <2>1 DEF Iterates
  <2> QED
    BY <2>2
<1>6. E(g)
  <2> HIDE DEF n, step
  <2>1. g \in [0 .. n -> Pack] /\ g[0] = Empty
    BY <1>4 DEF Iterates
  <2> QED
    BY <2>1, <1>1, <1>5
<1> DEFINE h == CHOOSE f : E(f)
<1>7. E(h)
  <2> HIDE DEF E
  <2> QED
    BY <1>6
<1>8. Packed(tbs, ta, qs) = h[n]
  BY DEF Packed
<1>9. h[0] = Empty /\ \A j \in 1 .. n : h[j] = Channel(h[j - 1], tbs, ta, qs[j])
  <2> HIDE DEF h, n
  <2> QED
    BY <1>1, <1>7
<1>10. \A j \in 0 .. n : h[j] \in Pack
  <2> DEFINE S == {j \in 0 .. n : h[j] \in Pack}
  <2> HIDE DEF h
  <2>1. 0 \in S
    BY <1>2, <1>9
  <2>2. \A j \in 1 .. n : j - 1 \in S => j \in S
    <3> HIDE DEF n
    <3> SUFFICES ASSUME NEW j \in 1 .. n, h[j - 1] \in Pack PROVE h[j] \in Pack
      OBVIOUS
    <3>1. qs[j] \in Nat /\ h[j] = Channel(h[j - 1], tbs, ta, qs[j])
      BY <1>1, <1>9
    <3>2. Channel(h[j - 1], tbs, ta, qs[j]) \in Pack
      BY <3>1, ChannelFacts
    <3> QED
      BY <3>1, <3>2
  <2> HIDE DEF S
  <2>3. \A j \in 0 .. n : j \in S
    BY <1>1, <2>1, <2>2, Steps
  <2> QED
    BY <2>3 DEF S
<1>11. h \in [0 .. n -> Pack]
  <2>1. h = [j \in 0 .. n |-> IF j = 0 THEN Empty ELSE Channel(h[j - 1], tbs, ta, qs[j])]
    BY <1>7
  <2> HIDE DEF h, n, E
  <2>2. h = [j \in 0 .. n |-> h[j]]
    BY <2>1
  <2> QED
    BY <2>2, <1>10
<1> QED
  BY <1>8, <1>9, <1>11 DEF Loop

LEMMA Low16 ==
  ASSUME NEW x \in Nat
  PROVE  x % 65536 \in Nat /\ x % 65536 <= x /\ (x < 65536 => x % 65536 = x)
OBVIOUS

\* What a channel whose queue is q makes of the values p before it; r is what was
\* requested of it.
Took(p, c, r, tbs, ta, q) ==
  LET room == tbs - ta - p.header - 3 - p.total
  IN  \/ r = 0 /\ room = 0 /\ c.header = p.header + 3 /\ c.last = p.last /\ c.total = p.total
      \/ r = 0 /\ c.header = p.header /\ c.last = p.last /\ c.total = p.total
      \/ /\ r > 0 /\ c.last = (IF r < 128 THEN 2 ELSE 3) /\ c.header = p.header + c.last
         /\ c.total = (p.total + r) % 65536
         /\ room >= 0 => r <= room

LEMMA ChannelTook ==
  ASSUME NEW p \in Pack, NEW tbs \in Nat, NEW ta \in Nat, NEW q \in Nat
  PROVE  Took(p, Channel(p, tbs, ta, q), Channel(p, tbs, ta, q).requests[Len(p.requests) + 1],
              tbs, ta, q)
<1> DEFINE c == Channel(p, tbs, ta, q)
           header == p.header + 3
           room == tbs - ta - header - p.total
           asked == Request(room, p, q)
           r == c.requests[Len(p.requests) + 1]
<1>1. /\ p.header \in Nat /\ p.last \in Nat /\ p.total \in Nat /\ p.requests \in Seq(Nat)
      /\ Len(p.requests) \in Nat
      /\ p = [header |-> p.header, last |-> p.last, total |-> p.total, requests |-> p.requests]
  BY DEF Pack
<1>2. room \in Int /\ header \in Nat /\ room = tbs - ta - p.header - 3 - p.total
  BY <1>1
<1>3. /\ asked \in Nat /\ (room >= 0 => asked <= room)
      /\ room # 0 /\ q # 0 => asked > 0
  BY <1>2, RequestFacts
<1>4. CASE room = 0
  <2>1. c = [p EXCEPT !.header = header, !.requests = Append(@, 0)]
    BY <1>4 DEF Channel
  <2> HIDE DEF c, asked
  <2>2. /\ c.header = p.header + 3 /\ c.last = p.last /\ c.total = p.total
        /\ c.requests = Append(p.requests, 0)
    BY <1>1, <2>1
  <2>3. r = 0
    BY <1>1, <2>2
  <2> HIDE DEF r, header
  <2> QED
    BY <1>2, <1>4, <2>2, <2>3 DEF Took, c, r
<1>5. CASE room # 0 /\ q = 0
  <2>1. c = [p EXCEPT !.requests = Append(@, 0)]
    BY <1>5 DEF Channel
  <2> HIDE DEF c, asked, header, room
  <2>2. /\ c.header = p.header /\ c.last = p.last /\ c.total = p.total
        /\ c.requests = Append(p.requests, 0)
    BY <1>1, <2>1
  <2>3. r = 0
    BY <1>1, <2>2
  <2> QED
    BY <2>2, <2>3 DEF Took, c, r
<1>6. CASE room # 0 /\ q # 0
  <2>1. c = [header   |-> IF asked < 128 THEN header - 1 ELSE header,
             last     |-> IF asked < 128 THEN 2 ELSE 3,
             total    |-> (p.total + asked) % 65536,
             requests |-> Append(p.requests, asked)]
    BY <1>6 DEF Channel
  <2> HIDE DEF c, asked, room
  <2>2. r = asked
    BY <1>1, <1>3, <2>1
  <2>3. /\ c.last = (IF asked < 128 THEN 2 ELSE 3) /\ c.header = p.header + c.last
        /\ c.total = (p.total + asked) % 65536
    BY <1>1, <1>3, <2>1
  <2>4. asked > 0 /\ (room >= 0 => asked <= room)
    BY <1>3, <1>6
  <2>5. room = tbs - ta - p.header - 3 - p.total
    BY <1>2
  <2> HIDE DEF r
  <2>6. Took(p, c, r, tbs, ta, q)
    BY <2>2, <2>3, <2>4, <2>5 DEF Took
  <2> QED
    BY <2>6 DEF c, r
<1> QED
  BY <1>4, <1>5, <1>6

\* A request stays what it was when the loop goes on.
LEMMA LoopRequests ==
  ASSUME NEW tbs \in Nat, NEW ta \in Nat, NEW qs \in Seq(Nat), NEW g, Loop(g, tbs, ta, qs)
  PROVE  \A j \in 0 .. Len(qs) :
           /\ Len(g[j].requests) = j
           /\ \A i \in 1 .. j : g[j].requests[i] = g[i].requests[i] /\ g[j].requests[i] <= qs[i]
<1> DEFINE n == Len(qs)
           S == {j \in 0 .. n :
                   /\ Len(g[j].requests) = j
                   /\ \A i \in 1 .. j : g[j].requests[i] = g[i].requests[i]
                                        /\ g[j].requests[i] <= qs[i]}
<1>1. n \in Nat /\ \A j \in 1 .. n : qs[j] \in Nat
  OBVIOUS
<1>2. 0 \in S
  BY DEF Loop, Empty
<1>3. ASSUME NEW j \in 1 .. n, j - 1 \in S PROVE j \in S
  <2> HIDE DEF n
  <2>0. j \in Int /\ j - 1 \in 0 .. n
    BY <1>1
  <2>1. g[j - 1] \in Pack /\ qs[j] \in Nat /\ g[j] = Channel(g[j - 1], tbs, ta, qs[j])
    <3>1. g \in [0 .. n -> Pack] /\ \A k \in 1 .. n : g[k] = Channel(g[k - 1], tbs, ta, qs[k])
      BY DEF Loop, n
    <3> QED
      BY <1>1, <2>0, <3>1
  <2>2. Len(g[j - 1].requests) = j - 1
    BY <1>3
  <2>3. /\ Len(g[j].requests) = j
        /\ \A i \in 1 .. j - 1 : g[j].requests[i] = g[j - 1].requests[i]
        /\ g[j].requests[j] <= qs[j]
    <3> DEFINE p == g[j - 1]
               q == qs[j]
               c == Channel(p, tbs, ta, q)
    <3>0. p \in Pack /\ q \in Nat
      BY <2>1
    <3>1. /\ Len(c.requests) = Len(p.requests) + 1
          /\ \A i \in 1 .. Len(p.requests) : c.requests[i] = p.requests[i]
          /\ c.requests[Len(p.requests) + 1] <= q
      <4> HIDE DEF p, q
      <4> QED
        BY <3>0, ChannelFacts
    <3>2. Len(p.requests) = j - 1 /\ Len(p.requests) + 1 = j
      BY <2>0, <2>2
    <3>3. g[j] = c
      BY <2>1
    <3> HIDE DEF p, c
    <3>4. \A i \in 1 .. j - 1 : c.requests[i] = p.requests[i]
      BY <3>1, <3>2
    <3>5. Len(c.requests) = j /\ c.requests[j] <= qs[j]
      BY <3>1, <3>2
    <3> QED
      BY <3>3, <3>4, <3>5 DEF p
  <2>4. ASSUME NEW i \in 1 .. j
        PROVE  g[j].requests[i] = g[i].requests[i] /\ g[j].requests[i] <= qs[i]
    <3>1. CASE i = j
      BY <3>1, <2>3
    <3>2. CASE i # j
      <4>1. i \in 1 .. j - 1
        BY <2>0, <3>2
      <4> QED
        BY <1>3, <2>3, <4>1
    <3> QED
      BY <3>1, <3>2
  <2> QED
    BY <1>1, <2>3, <2>4
<1>4. \A j \in 0 .. n : j \in S
  <2> HIDE DEF S, n
  <2> QED
    BY <1>1, <1>2, <1>3, Steps
<1> QED
  BY <1>4

\* Each channel of the loop takes its part, by what is requested in the end.
LEMMA LoopTook ==
  ASSUME NEW tbs \in Nat, NEW ta \in Nat, NEW qs \in Seq(Nat), NEW g, Loop(g, tbs, ta, qs),
         NEW j \in 1 .. Len(qs)
  PROVE  /\ g[j - 1] \in Pack /\ g[j] \in Pack
         /\ Took(g[j - 1], g[j], g[Len(qs)].requests[j], tbs, ta, qs[j])
         /\ g[Len(qs)].requests[j] \in Nat
<1> DEFINE n == Len(qs)
<1>1. n \in Nat /\ j - 1 \in 0 .. n /\ j \in 0 .. n /\ n \in 0 .. n /\ qs[j] \in Nat /\ j \in 1 .. j
  OBVIOUS
<1>2. /\ g[j - 1] \in Pack /\ g[j] \in Pack /\ g[n] \in Pack
      /\ g[j] = Channel(g[j - 1], tbs, ta, qs[j])
  <2> HIDE DEF n
  <2> QED
    BY <1>1 DEF Loop, n
<1>3. /\ Len(g[j - 1].requests) = j - 1 /\ Len(g[n].requests) = n
      /\ g[n].requests[j] = g[j].requests[j]
  <2> HIDE DEF n
  <2>1. \A k \in 0 .. n :
          /\ Len(g[k].requests) = k
          /\ \A i \in 1 .. k : g[k].requests[i] = g[i].requests[i]
    BY LoopRequests DEF n
  <2> QED
    BY <1>1, <2>1 DEF n
<1>4. Took(g[j - 1], g[j], g[j].requests[j], tbs, ta, qs[j])
  <2>1. Len(g[j - 1].requests) + 1 = j
    BY <1>1, <1>3
  <2> HIDE DEF n
  <2> QED
    BY <1>1, <1>2, <2>1, ChannelTook
<1>5. g[n].requests[j] \in Nat
  <2> DEFINE r == g[n].requests
  <2>1. r \in Seq(Nat)
    BY <1>2 DEF Pack
  <2>2. j \in 1 .. Len(r)
    BY <1>3
  <2> HIDE DEF n, r
  <2>3. r[j] \in Nat
    BY <2>1, <2>2
  <2> QED
    BY <2>3 DEF r
<1> QED
  BY <1>2, <1>3, <1>4, <1>5

\* No two channels have a request.
OneRequest(r) == \A i, j \in DOMAIN r : i < j => r[i] = 0 \/ r[j] = 0

\* A single request, in a room that has place for more than one header, keeps to it.
LEMMA OneRequestFits ==
  ASSUME NEW tbs \in Nat, NEW ta \in Nat, NEW qs \in Seq(Nat), tbs > ta + 3,
         OneRequest(Packed(tbs, ta, qs).requests)
  PROVE  Need(Packed(tbs, ta, qs), ta) <= tbs
<1> DEFINE n == Len(qs)
<1>1. PICK g : Loop(g, tbs, ta, qs) /\ Packed(tbs, ta, qs) = g[n]
  BY PackedByLoop
<1> DEFINE r == g[n].requests
           Fits(p) == p.total + p.header + ta <= tbs
           S == {j \in 0 .. n :
                   /\ Fits(g[j])
                   /\ (\A i \in 1 .. j : r[i] = 0) => g[j].header = 0 /\ g[j].total = 0
                   /\ (\E i \in 1 .. j : r[i] # 0) => g[j].last >= 2}
<1>2. /\ n \in Nat /\ \A j \in 1 .. n : r[j] \in Nat
      /\ \A i, j \in 1 .. n : i < j => r[i] = 0 \/ r[j] = 0
  <2>1. n \in Nat /\ n \in 0 .. n
    OBVIOUS
  <2>2. \A j \in 1 .. n : r[j] \in Nat
    BY <1>1, LoopTook
  <2>3. r \in Seq(Nat) /\ Len(r) = n
    <3>1. g[n] \in Pack
      <4> HIDE DEF n
      <4> QED
        BY <1>1, <2>1 DEF Loop, n
    <3>2. Len(r) = n
      <4>1. \A k \in 0 .. n : Len(g[k].requests) = k
        BY <1>1, LoopRequests
      <4> HIDE DEF n
      <4> QED
        BY <2>1, <4>1
    <3> QED
      BY <3>1, <3>2 DEF Pack
  <2>4. OneRequest(r)
    BY <1>1
  <2> HIDE DEF n, r
  <2>5. DOMAIN r = 1 .. n
    BY <2>3
  <2>6. \A i, j \in 1 .. n : i < j => r[i] = 0 \/ r[j] = 0
    BY <2>4, <2>5 DEF OneRequest
  <2> QED
    BY <2>1, <2>2, <2>6
<1>3. 0 \in S
  BY <1>1 DEF Loop, Empty
<1>4. ASSUME NEW j \in 1 .. n, j - 1 \in S PROVE j \in S
  <2> DEFINE p == g[j - 1]
             c == g[j]
  <2>1. /\ p \in Pack /\ c \in Pack /\ Took(p, c, r[j], tbs, ta, qs[j])
    BY <1>1, LoopTook
  <2>2. /\ Fits(p)
        /\ (\A i \in 1 .. j - 1 : r[i] = 0) => p.header = 0 /\ p.total = 0
        /\ (\E i \in 1 .. j - 1 : r[i] # 0) => p.last >= 2
    BY <1>4
  <2>3. /\ p.header \in Nat /\ p.last \in Nat /\ p.total \in Nat
        /\ c.header \in Nat /\ c.last \in Nat /\ c.total \in Nat
    BY <2>1 DEF Pack
  <2> HIDE DEF p, c, r, n
  <2>4. CASE r[j] > 0
    <3>1. \A i \in 1 .. j - 1 : r[i] = 0
      <4>1. ASSUME NEW i \in 1 .. j - 1 PROVE r[i] = 0
        <5>1. i \in 1 .. n /\ i < j
          BY <1>2
        <5> QED
          BY <1>2, <2>4, <5>1
      <4> QED
        BY <4>1
    <3>2. p.header = 0 /\ p.total = 0
      BY <2>2, <3>1
    <3>3. /\ c.last = (IF r[j] < 128 THEN 2 ELSE 3) /\ c.header = c.last
          /\ c.total = r[j] % 65536 /\ r[j] <= tbs - ta - 3
      BY <1>2, <2>1, <2>3, <2>4, <3>2 DEF Took
    <3>4. c.total <= r[j]
      BY <1>2, <3>3, Low16
    <3>5. Fits(c) /\ c.last >= 2
      BY <1>2, <2>3, <3>3, <3>4
    <3>6. j \in 1 .. j /\ r[j] # 0
      BY <1>2, <2>4
    <3> QED
      BY <1>2, <3>5, <3>6 DEF c
  <2>5. CASE r[j] = 0
    <3>1. CASE \A i \in 1 .. j - 1 : r[i] = 0
      <4>1. p.header = 0 /\ p.total = 0
        BY <2>2, <3>1
      <4>2. c.header = 0 /\ c.total = 0
        BY <2>1, <2>3, <2>5, <4>1 DEF Took
      <4>3. Fits(c)
        BY <4>2
      <4>4. \A i \in 1 .. j : r[i] = 0
        BY <1>2, <2>5, <3>1
      <4> QED
        BY <1>2, <4>2, <4>3, <4>4 DEF c
    <3>2. CASE \E i \in 1 .. j - 1 : r[i] # 0
      <4>1. c.last = p.last /\ p.last >= 2
        BY <2>1, <2>2, <2>5, <3>2 DEF Took
      <4>2. Fits(c)
        <5>1. \/ /\ tbs - ta - p.header - 3 - p.total = 0
                 /\ c.header = p.header + 3 /\ c.total = p.total
              \/ c.header = p.header /\ c.total = p.total
          BY <2>1, <2>5 DEF Took
        <5>2. Fits(p)
          BY <2>2
        <5>3. CASE c.header = p.header /\ c.total = p.total
          BY <5>2, <5>3
        <5>4. CASE tbs - ta - p.header - 3 - p.total = 0 /\ c.header = p.header + 3 /\ c.total = p.total
          <6>1. c.total + c.header + ta = p.total + (p.header + 3) + ta
            BY <5>4
          <6> DEFINE pT == p.total
                     pH == p.header
          <6>2. pT \in Int /\ pH \in Int /\ tbs - ta - pH - 3 - pT = 0
            BY <2>3, <5>4
          <6> HIDE DEF pT, pH
          <6>3. pT + (pH + 3) + ta <= tbs
            BY <6>2
          <6> QED
            BY <6>1, <6>3 DEF pT, pH
        <5> QED
          BY <5>1, <5>3, <5>4
      <4>3. ~\A i \in 1 .. j : r[i] = 0
        BY <1>2, <3>2
      <4> QED
        BY <1>2, <4>1, <4>2, <4>3 DEF c
    <3> QED
      BY <3>1, <3>2
  <2> QED
    BY <1>2, <2>4, <2>5
<1>5. n \in S
  <2> HIDE DEF S, n
  <2>1. \A j \in 0 .. n : j \in S
    BY <1>2, <1>3, <1>4, Steps
  <2> QED
    BY <1>2, <2>1
<1> DEFINE e == g[n]
<1>6. e.header \in Nat /\ e.last \in Nat /\ e.total \in Nat
  <2>1. e \in Pack
    <3> HIDE DEF n
    <3> QED
      BY <1>1, <1>2 DEF Loop, n
  <2> QED
    BY <2>1 DEF Pack
<1>7. Fits(e) /\ (e.header = 0 \/ e.last >= 2)
  <2> HIDE DEF n, r
  <2> QED
    BY <1>5
<1> HIDE DEF e
<1>8. Need(e, ta) <= tbs
  BY <1>6, <1>7 DEF Need
<1> QED
  BY <1>1, <1>8 DEF e

-----------------------------------------------------------------------------
(* What a block carries                                                    *)

\* The subheader that the block has for request j, and what a request takes with it.
SubheaderOf(r, j) ==
  IF \A i \in j + 1 .. Len(r) : r[i] = 0 THEN 1 ELSE IF r[j] < 128 THEN 2 ELSE 3
WithHeader(r, j) == IF r[j] = 0 THEN 0 ELSE r[j] + SubheaderOf(r, j)

\* s holds what the block carries up to each request.
Sums(s, ta, r) ==
  /\ s \in [0 .. Len(r) -> Nat]
  /\ s[0] = ta
  /\ \A j \in 1 .. Len(r) : s[j] = s[j - 1] + WithHeader(r, j)

LEMMA WithHeaderFacts ==
  ASSUME NEW r \in Seq(Nat), NEW j \in 1 .. Len(r)
  PROVE  WithHeader(r, j) \in Nat
<1>1. r[j] \in Nat
  OBVIOUS
<1> QED
  BY <1>1 DEF WithHeader, SubheaderOf

LEMMA CarriedBySums ==
  ASSUME NEW b, b.ta \in Nat, b.requests \in Seq(Nat)
  PROVE  \E s : Sums(s, b.ta, b.requests) /\ Carried(b) = s[Len(b.requests)]
<1> DEFINE r == b.requests
           n == Len(r)
           E(f) == f = [j \in 0 .. n |->
                          IF j = 0 THEN b.ta ELSE f[j - 1] +
                            IF r[j] = 0 THEN 0
                            ELSE r[j] + IF \A i \in j + 1 .. n : r[i] = 0 THEN 1
                                        ELSE IF r[j] < 128 THEN 2 ELSE 3]
           step == [j \in 1 .. n |-> [x \in Nat |-> x + WithHeader(r, j)]]
<1>1. n \in Nat /\ \A j \in 1 .. n : WithHeader(r, j) \in Nat
  BY WithHeaderFacts
<1>2. step \in [1 .. n -> [Nat -> Nat]]
  <2>1. ASSUME NEW j \in 1 .. n, NEW x \in Nat PROVE x + WithHeader(r, j) \in Nat
    BY <1>1
  <2> HIDE DEF n, r
  <2> QED
    BY <2>1
<1>3. PICK g : Iterates(g, n, Nat, b.ta, step)
  <2> HIDE DEF n, step
  <2> QED
    BY <1>1, <1>2, Iterated
<1>4. /\ g \in [0 .. n -> Nat] /\ g[0] = b.ta
      /\ \A j \in 1 .. n : g[j] = g[j - 1] + WithHeader(r, j)
  <2>1. g \in [0 .. n -> Nat] /\ g[0] = b.ta
    BY <1>3 DEF Iterates
  <2>2. ASSUME NEW j \in 1 .. n PROVE g[j] = g[j - 1] + WithHeader(r, j)
    <3> HIDE DEF n, r
    <3>1. j - 1 \in 0 .. n /\ g[j - 1] \in Nat
      BY <1>1, <2>1
    <3>2. g[j] = step[j][g[j - 1]]
      <4> HIDE DEF step
      <4> QED
        BY <1>3 DEF Iterates
    <3> QED
      BY <3>1, <3>2
  <2> QED
    BY <2>1, <2>2
<1>5. E(g)
  <2>1. g = [j \in 0 .. n |-> IF j = 0 THEN b.ta ELSE g[j - 1] + WithHeader(r, j)]
    <3> HIDE DEF n, r
    <3>1. \A j \in 0 .. n : g[j] = IF j = 0 THEN b.ta ELSE g[j - 1] + WithHeader(r, j)
      BY <1>1, <1>4
    <3> QED
      BY <1>4, <3>1
  <2> QED
    BY <2>1 DEF WithHeader, SubheaderOf
<1> DEFINE h == CHOOSE f : E(f)
<1>6. E(h)
  <2> HIDE DEF E
  <2> QED
    BY <1>5
<1>7. Carried(b) = h[n]
  BY DEF Carried
<1>8. h[0] = b.ta /\ \A j \in 1 .. n : h[j] = h[j - 1] + WithHeader(r, j)
  <2>1. h = [j \in 0 .. n |-> IF j = 0 THEN b.ta ELSE h[j - 1] + WithHeader(r, j)]
    BY <1>6 DEF WithHeader, SubheaderOf
  <2> HIDE DEF h, n, r
  <2> QED
    BY <1>1, <2>1
<1>9. \A j \in 0 .. n : h[j] \in Nat
  <2> DEFINE S == {j \in 0 .. n : h[j] \in Nat}
  <2> HIDE DEF h, n, r
  <2>1. 0 \in S
    BY <1>1, <1>8
  <2>2. \A j \in 1 .. n : j - 1 \in S => j \in S
    BY <1>1, <1>8
  <2> HIDE DEF S
  <2>3. \A j \in 0 .. n : j \in S
    BY <1>1, <2>1, <2>2, Steps
  <2> QED
    BY <2>3 DEF S
<1>10. h \in [0 .. n -> Nat]
  <2>1. h = [j \in 0 .. n |-> IF j = 0 THEN b.ta ELSE h[j - 1] + WithHeader(r, j)]
    BY <1>6 DEF WithHeader, SubheaderOf
  <2> HIDE DEF h, n, r, E
  <2>2. h = [j \in 0 .. n |-> h[j]]
    BY <2>1
  <2> QED
    BY <2>2, <1>9
<1> QED
  BY <1>7, <1>8, <1>10 DEF Sums

\* What the block carries up to a request is no more than what it carries.
LEMMA SumsGrow ==
  ASSUME NEW ta \in Nat, NEW r \in Seq(Nat), NEW s, Sums(s, ta, r)
  PROVE  /\ \A j \in 0 .. Len(r) : s[j] \in Nat /\ s[j] <= s[Len(r)]
         /\ \A j \in 1 .. Len(r) : r[j] <= s[Len(r)]
<1> DEFINE n == Len(r)
           S == {k \in 0 .. n : s[n - k] <= s[n]}
<1>1. n \in Nat /\ \A j \in 1 .. n : WithHeader(r, j) \in Nat /\ r[j] \in Nat
  BY WithHeaderFacts
<1>2. /\ \A j \in 0 .. n : s[j] \in Nat
      /\ \A j \in 1 .. n : s[j] = s[j - 1] + WithHeader(r, j)
  BY DEF Sums
<1> HIDE DEF n
<1>3. 0 \in S
  BY <1>1, <1>2
<1>4. ASSUME NEW k \in 1 .. n, k - 1 \in S PROVE k \in S
  <2>1. n - k + 1 \in 1 .. n /\ n - k \in 0 .. n /\ n - (k - 1) = n - k + 1 /\ n - k + 1 - 1 = n - k
    BY <1>1
  <2>2. s[n - k + 1] = s[n - k] + WithHeader(r, n - k + 1)
    BY <1>2, <2>1
  <2>3. s[n - k + 1] <= s[n]
    BY <1>4, <2>1
  <2>4. n \in 0 .. n
    BY <1>1
  <2> QED
    BY <1>1, <1>2, <2>1, <2>2, <2>3, <2>4
<1>5. \A k \in 0 .. n : k \in S
  <2> HIDE DEF S
  <2> QED
    BY <1>1, <1>3, <1>4, Steps
<1>6. ASSUME NEW j \in 0 .. n PROVE s[j] <= s[n]
  <2>1. n - j \in 0 .. n /\ n - (n - j) = j
    BY <1>1
  <2>2. n - j \in S
    <3> HIDE DEF S
    <3> QED
      BY <1>5, <2>1
  <2> QED
    BY <2>1, <2>2
<1>7. ASSUME NEW j \in 1 .. n PROVE r[j] <= s[n]
  <2>1. j - 1 \in 0 .. n /\ j \in 0 .. n /\ n \in 0 .. n
    BY <1>1
  <2>2. s[j] = s[j - 1] + WithHeader(r, j) /\ s[j] <= s[n]
    BY <1>2, <1>6, <2>1
  <2> DEFINE asked == r[j]
             carried == WithHeader(r, j)
             before == s[j - 1]
             after == s[j]
             all == s[n]
  <2>3. asked \in Nat /\ asked <= carried
    <3>1. SubheaderOf(r, j) \in Nat
      BY DEF SubheaderOf
    <3>2. asked \in Nat
      BY <1>1
    <3>3. carried = IF asked = 0 THEN 0 ELSE asked + SubheaderOf(r, j)
      BY DEF WithHeader
    <3> HIDE DEF asked, carried
    <3> QED
      BY <3>1, <3>2, <3>3
  <2>4. /\ before \in Nat /\ after \in Nat /\ all \in Nat /\ carried \in Nat
        /\ after = before + carried /\ after <= all
    BY <1>1, <1>2, <2>1, <2>2
  <2>5. asked <= all
    <3> HIDE DEF asked, carried, before, after, all
    <3> QED
      BY <2>3, <2>4
  <2> QED
    BY <2>5
<1> QED
  BY <1>2, <1>6, <1>7 DEF n

\* What the 16 bits of sdu_length_total can hold.
Below16(x) == x < 65536

\* What was counted while the block was packed is enough for what it carries, where
\* the sum of the requests keeps to its 16 bits.
LEMMA CarriedIsCounted ==
  ASSUME NEW tbs \in Nat, NEW ta \in Nat, NEW qs \in Seq(Nat),
         HasPayload(Packed(tbs, ta, qs)),
         NEW s, Sums(s, ta, Packed(tbs, ta, qs).requests), Below16(s[Len(qs)])
  PROVE  s[Len(qs)] <= Need(Packed(tbs, ta, qs), ta) /\ s[Len(qs)] >= 1
<1> DEFINE n == Len(qs)
<1>1. PICK g : Loop(g, tbs, ta, qs) /\ Packed(tbs, ta, qs) = g[n]
  BY PackedByLoop
<1> DEFINE r == g[n].requests
<1>2. n \in Nat /\ r \in Seq(Nat) /\ Len(r) = n /\ \A j \in 1 .. n : r[j] \in Nat
  <2>1. n \in Nat /\ n \in 0 .. n
    OBVIOUS
  <2>2. g[n] \in Pack
    <3> HIDE DEF n
    <3> QED
      BY <1>1, <2>1 DEF Loop, n
  <2>3. Len(r) = n
    <3>1. \A k \in 0 .. n : Len(g[k].requests) = k
      BY <1>1, LoopRequests
    <3> HIDE DEF n
    <3> QED
      BY <2>1, <3>1
  <2>4. r \in Seq(Nat)
    BY <2>2 DEF Pack
  <2> HIDE DEF r, n
  <2>5. \A j \in 1 .. n : r[j] \in Nat
    BY <2>3, <2>4
  <2> QED
    BY <2>1, <2>3, <2>4, <2>5
<1> DEFINE T == {j \in 1 .. n : r[j] > 0}
<1>3. PICK final \in T : \A k \in T : k <= final
  <2>1. T # {} /\ T \in SUBSET (0 .. n)
    <3>1. \E i \in DOMAIN r : r[i] > 0
      BY <1>1 DEF HasPayload
    <3>2. DOMAIN r = 1 .. n
      <4> HIDE DEF r, n
      <4> QED
        BY <1>2
    <3> HIDE DEF r, n
    <3> QED
      BY <3>1, <3>2
  <2> HIDE DEF T, n
  <2> QED
    BY <1>2, <2>1, GreatestNumber
<1>4. final \in 1 .. n /\ r[final] > 0 /\ \A j \in 1 .. n : final < j => r[j] = 0
  <2> HIDE DEF r, n
  <2> QED
    BY <1>2, <1>3
<1>5. /\ s[0] = ta
      /\ \A j \in 0 .. n : s[j] \in Nat /\ s[j] <= s[n]
      /\ \A j \in 1 .. n : r[j] <= s[n] /\ s[j] = s[j - 1] + WithHeader(r, j)
      /\ s[n] < 65536
  <2>1. Sums(s, ta, r)
    BY <1>1
  <2>2. s[n] < 65536
    BY DEF Below16
  <2> HIDE DEF r, n
  <2>3. s[0] = ta /\ \A j \in 1 .. n : s[j] = s[j - 1] + WithHeader(r, j)
    BY <1>2, <2>1 DEF Sums
  <2>4. /\ \A j \in 0 .. n : s[j] \in Nat /\ s[j] <= s[n]
        /\ \A j \in 1 .. n : r[j] <= s[n]
    BY <1>2, <2>1, SumsGrow
  <2> QED
    BY <2>2, <2>3, <2>4
<1> DEFINE S == {j \in 0 .. n :
                   /\ g[j].total <= s[j]
                   /\ j < final => s[j] <= ta + g[j].total + g[j].header
                   /\ final <= j => /\ s[j] <= ta + g[j].total + g[j].header - (g[j].last - 1)
                                    /\ g[j].last >= 2}
<1>6. 0 \in S
  <2>1. g[0].total = 0 /\ g[0].header = 0
    BY <1>1 DEF Loop, Empty
  <2> HIDE DEF n, r
  <2> QED
    BY <1>2, <1>4, <1>5, <2>1
<1>7. ASSUME NEW j \in 1 .. n, j - 1 \in S PROVE j \in S
  <2> DEFINE p == g[j - 1]
             c == g[j]
             pTotal == p.total
             pHeader == p.header
             pLast == p.last
             cTotal == c.total
             cHeader == c.header
             cLast == c.last
             asked == r[j]
             before == s[j - 1]
             after == s[j]
  <2>1. p \in Pack /\ c \in Pack /\ Took(p, c, asked, tbs, ta, qs[j])
    BY <1>1, LoopTook
  <2>2. /\ pTotal <= before
        /\ j - 1 < final => before <= ta + pTotal + pHeader
        /\ final <= j - 1 => before <= ta + pTotal + pHeader - (pLast - 1) /\ pLast >= 2
    BY <1>7
  <2>3. /\ pHeader \in Nat /\ pLast \in Nat /\ pTotal \in Nat
        /\ cHeader \in Nat /\ cLast \in Nat /\ cTotal \in Nat
    BY <2>1 DEF Pack
  <2>4. j \in Int /\ j - 1 \in 0 .. n /\ j \in 0 .. n /\ n \in 0 .. n /\ final \in Int
    BY <1>2, <1>4
  <2>5. /\ before \in Nat /\ after \in Nat /\ after < 65536 /\ asked \in Nat
        /\ after = before + WithHeader(r, j)
    <3> HIDE DEF r, n
    <3>1. before \in Nat /\ after \in Nat /\ after <= s[n] /\ s[n] \in Nat
      BY <1>5, <2>4
    <3>2. s[n] < 65536 /\ after = before + WithHeader(r, j)
      BY <1>5
    <3>3. asked \in Nat
      BY <1>2
    <3> HIDE DEF before, after
    <3> QED
      BY <3>1, <3>2, <3>3
  <2>8. WithHeader(r, j) = IF asked = 0 THEN 0 ELSE asked + SubheaderOf(r, j)
    BY DEF WithHeader
  <2>9. SubheaderOf(r, j) = IF \A i \in j + 1 .. Len(r) : r[i] = 0 THEN 1
                           ELSE IF asked < 128 THEN 2 ELSE 3
    BY DEF SubheaderOf
  <2>10. asked = 0 => j # final
    BY <1>4
  <2>11. asked > 0 => j <= final
    <3> HIDE DEF r, n
    <3> QED
      BY <1>4, <2>4
  <2> HIDE DEF p, c, r, n, asked, before, after, pTotal, pHeader, pLast, cTotal, cHeader,
              cLast
  <2>6. CASE asked = 0
    <3>1. after = before
      BY <2>5, <2>6, <2>8
    <3>2. /\ cLast = pLast /\ cTotal = pTotal
          /\ cHeader = pHeader \/ cHeader = pHeader + 3
      BY <2>1, <2>6 DEF Took, pTotal, pHeader, pLast, cTotal, cHeader, cLast
    <3>3. j # final
      BY <2>6, <2>10
    <3>4. /\ cTotal <= after
          /\ j < final => after <= ta + cTotal + cHeader
          /\ final <= j => after <= ta + cTotal + cHeader - (cLast - 1) /\ cLast >= 2
      BY <2>2, <2>3, <2>4, <2>5, <3>1, <3>2, <3>3
    <3> QED
      BY <2>4, <3>4 DEF c, after, cTotal, cHeader, cLast
  <2>7. CASE asked > 0
    <3>1. j <= final
      BY <2>7, <2>11
    <3>2. after = before + asked + SubheaderOf(r, j)
      <4>1. SubheaderOf(r, j) \in Nat
        BY DEF SubheaderOf
      <4> QED
        BY <2>5, <2>7, <2>8, <4>1
    <3>3. /\ cLast = (IF asked < 128 THEN 2 ELSE 3) /\ cHeader = pHeader + cLast
          /\ cTotal = (pTotal + asked) % 65536
      BY <2>1, <2>7 DEF Took, pTotal, pHeader, pLast, cTotal, cHeader, cLast
    <3>4. CASE j < final
      <4>1. SubheaderOf(r, j) = cLast
        <5>1. final \in j + 1 .. Len(r) /\ r[final] # 0
          BY <1>2, <1>4, <2>4, <3>4
        <5> QED
          BY <2>9, <3>3, <5>1
      <4>2. cTotal = pTotal + asked
        <5>1. pTotal + asked <= after
          BY <2>2, <2>3, <2>5, <3>2, <4>1
        <5>2. pTotal + asked \in Nat /\ pTotal + asked < 65536
          BY <2>3, <2>5, <5>1
        <5>3. (pTotal + asked) % 65536 = pTotal + asked
          BY <5>2, Low16
        <5> QED
          BY <3>3, <5>3
      <4>3. cTotal <= after /\ after <= ta + cTotal + cHeader
        BY <2>2, <2>3, <2>4, <2>5, <3>2, <3>3, <3>4, <4>1, <4>2
      <4> QED
        BY <2>4, <3>4, <4>3 DEF c, after, cTotal, cHeader, cLast
    <3>5. CASE j = final
      <4>1. SubheaderOf(r, j) = 1
        <5>1. \A i \in j + 1 .. Len(r) : r[i] = 0
          BY <1>2, <1>4, <2>4, <3>5
        <5> QED
          BY <2>9, <5>1
      <4>2. cTotal = pTotal + asked
        <5>1. pTotal + asked <= after
          BY <2>2, <2>3, <2>5, <3>2, <4>1
        <5>2. pTotal + asked \in Nat /\ pTotal + asked < 65536
          BY <2>3, <2>5, <5>1
        <5>3. (pTotal + asked) % 65536 = pTotal + asked
          BY <5>2, Low16
        <5> QED
          BY <3>3, <5>3
      <4>3. cTotal <= after /\ after <= ta + cTotal + cHeader - (cLast - 1) /\ cLast >= 2
        BY <2>2, <2>3, <2>4, <2>5, <3>2, <3>3, <3>5, <4>1, <4>2
      <4> QED
        BY <2>4, <3>5, <4>3 DEF c, after, cTotal, cHeader, cLast
    <3> QED
      BY <2>4, <3>1, <3>4, <3>5
  <2> QED
    BY <2>5, <2>6, <2>7
<1>8. n \in S
  <2> HIDE DEF S, n
  <2>1. \A j \in 0 .. n : j \in S
    BY <1>2, <1>6, <1>7, Steps
  <2> QED
    BY <1>2, <2>1
<1> DEFINE e == g[n]
<1>9. e.header \in Nat /\ e.last \in Nat /\ e.total \in Nat
  <2>1. e \in Pack
    <3> HIDE DEF n
    <3> QED
      BY <1>1, <1>2 DEF Loop, n
  <2> QED
    BY <2>1 DEF Pack
<1>10. s[n] <= ta + e.total + e.header - (e.last - 1) /\ e.last >= 2
  <2> HIDE DEF n, r
  <2> QED
    BY <1>2, <1>4, <1>8
<1>11. s[n] <= Need(e, ta)
  <2>1. s[n] \in Int
    <3> HIDE DEF n
    <3> QED
      BY <1>2, <1>5
  <2> DEFINE all == s[n]
             header == e.header
             last == e.last
             total == e.total
  <2>2. /\ all \in Int /\ header \in Nat /\ last \in Nat /\ total \in Nat
        /\ all <= ta + total + header - (last - 1) /\ last >= 2
    BY <1>9, <1>10, <2>1
  <2>3. Need(e, ta) = total + (IF header = 0 THEN 0 ELSE header - (last - 1)) + ta
    BY DEF Need
  <2>4. all <= total + (IF header = 0 THEN 0 ELSE header - (last - 1)) + ta
    <3> HIDE DEF e, n, all, header, last, total
    <3> QED
      BY <2>2
  <2> QED
    BY <2>3, <2>4
<1>12. s[n] >= 1
  <2> HIDE DEF n, r
  <2>1. r[final] <= s[n] /\ r[final] \in Nat /\ s[n] \in Nat
    BY <1>2, <1>4, <1>5
  <2> QED
    BY <1>4, <2>1
<1> QED
  BY <1>1, <1>11, <1>12 DEF e, n

-----------------------------------------------------------------------------
(* The number of RBs and the MCS                                           *)

LEMMA TbsFacts ==
  ASSUME NEW m, NEW nb \in 0 .. Bandwidth
  PROVE  Tbs(m, nb) \in Nat /\ (Tbs(m, nb) > 0 => m \in 0 .. MaxMcs)
<1>1. CASE nb > 0 /\ m \in 0 .. MaxMcs
  <2>1. ITbs(m) \in 0 .. 26
    BY <1>1 DEF ITbs, MaxMcs
  <2>2. nb \in 1 .. Bandwidth
    BY <1>1, PdcchAssumption DEF PdcchAssumption
  <2>3. TBStable[ITbs(m)][nb] \in Nat
    BY <2>1, <2>2, TableAssumption DEF TableAssumption
  <2> QED
    BY <1>1, <2>3 DEF Tbs
<1>2. CASE ~(nb > 0 /\ m \in 0 .. MaxMcs)
  BY <1>2 DEF Tbs
<1> QED
  BY <1>1, <1>2

LEMMA BandwidthFacts == Bandwidth \in Nat /\ Bandwidth >= 6
BY PdcchAssumption DEF PdcchAssumption

\* The search for the number of RBs ends at one of the cell, and at one that is enough
\* if what is available is.
LEMMA ChosenNb ==
  ASSUME NEW from, NEW avail \in 1 .. Bandwidth, NEW need \in Int
  PROVE  /\ NbRb(from, avail, need) \in 1 .. Bandwidth
         /\ Tbs(from, avail) >= need => Tbs(from, NbRb(from, avail, need)) >= need
<1> DEFINE enough == {n \in Tries(from, avail) : Tbs(from, n) >= need}
<1>1. CASE enough = {}
  BY <1>1 DEF NbRb
<1>2. CASE enough # {}
  <2>1. FirstNb(from) \in 1 .. Bandwidth
    BY CentralAssumption, BandwidthFacts DEF CentralAssumption, FirstNb
  <2>2. Tries(from, avail) \subseteq 1 .. Bandwidth
    <3>1. 1 .. avail \subseteq 1 .. Bandwidth
      BY BandwidthFacts
    <3> QED
      BY <2>1, <3>1 DEF Tries
  <2>3. enough \in SUBSET (0 .. Bandwidth)
    <3>1. 1 .. Bandwidth \subseteq 0 .. Bandwidth
      BY BandwidthFacts
    <3> QED
      BY <2>2, <3>1
  <2>4. Min(enough) \in enough
    <3> HIDE DEF enough
    <3> QED
      BY <1>2, <2>3, BandwidthFacts, LeastNumber
  <2>5. NbRb(from, avail, need) = Min(enough)
    BY <1>2 DEF NbRb
  <2> QED
    BY <2>2, <2>4, <2>5
<1> QED
  BY <1>1, <1>2

\* The MCS that the search goes down to, which has a smaller block than needed or one
\* that is just as large, if it is not the lowest.
LEMMA LoweredFacts ==
  ASSUME NEW from \in Int, NEW nb \in 1 .. Bandwidth, NEW need \in Int
  PROVE  /\ Lowered(from, nb, need) \in Nat
         /\ from >= 0 => Lowered(from, nb, need) <= from
         /\ Lowered(from, nb, need) > 0 => Tbs(Lowered(from, nb, need), nb) <= need
<1> DEFINE T == {k \in 0 .. from : Tbs(k, nb) <= need}
           most == IF from < 0 THEN 0 ELSE from
<1>1. most \in Nat /\ {0} \cup T \in SUBSET (0 .. most) /\ {0} \cup T # {}
  OBVIOUS
<1>2. Max({0} \cup T) \in {0} \cup T
  <2> HIDE DEF T, most
  <2> QED
    BY <1>1, GreatestNumber
<1>3. Lowered(from, nb, need) = Max({0} \cup T)
  BY DEF Lowered
<1> DEFINE low == Max({0} \cup T)
<1>4. low = 0 \/ (low \in 0 .. from /\ Tbs(low, nb) <= need)
  <2> HIDE DEF low
  <2> QED
    BY <1>2 DEF low
<1> HIDE DEF low, T
<1>5. low \in Nat /\ (from >= 0 => low <= from) /\ (low > 0 => Tbs(low, nb) <= need)
  BY <1>4
<1> QED
  BY <1>3, <1>5 DEF low

\* And the one that it comes up to from there.
LEMMA RaisedFacts ==
  ASSUME NEW low \in Nat, low < MaxMcs, NEW nb \in 1 .. Bandwidth, NEW need \in Int
  PROVE  /\ Raised(low, nb, need) \in low .. MaxMcs
         /\ Tbs(Raised(low, nb, need), nb) >= need \/ Raised(low, nb, need) = MaxMcs
         /\ \A k \in low .. MaxMcs : Tbs(k, nb) >= need => Raised(low, nb, need) <= k
<1> DEFINE T == {k \in low .. MaxMcs : Tbs(k, nb) >= need}
           high == Min({MaxMcs} \cup T)
<1>1. {MaxMcs} \cup T \in SUBSET (0 .. MaxMcs) /\ MaxMcs \in Nat
  BY DEF MaxMcs
<1>2. high \in {MaxMcs} \cup T /\ \A k \in {MaxMcs} \cup T : high <= k
  <2> HIDE DEF T
  <2> QED
    BY <1>1, LeastNumber
<1>3. Raised(low, nb, need) = high
  BY DEF Raised, MaxMcs
<1> HIDE DEF high
<1>4. high = MaxMcs \/ (high \in low .. MaxMcs /\ Tbs(high, nb) >= need)
  BY <1>2
<1>5. \A k \in low .. MaxMcs : Tbs(k, nb) >= need => high <= k
  BY <1>2
<1>6. high \in low .. MaxMcs
  BY <1>4 DEF MaxMcs
<1> QED
  BY <1>3, <1>4, <1>5, <1>6

LEMMA ChosenMcs ==
  ASSUME NEW from \in Int, NEW nb \in 1 .. Bandwidth, NEW need \in Int
  PROVE  /\ Mcs(from, nb, need) \in Int
         /\ \A m \in 0 .. Mcs(from, nb, need) - 1 :
              Tbs(m, nb) >= need => Tbs(m, nb) >= Tbs(Mcs(from, nb, need), nb)
         /\ need >= 1 /\ Tbs(from, nb) >= need =>
              Mcs(from, nb, need) <= from /\ Tbs(Mcs(from, nb, need), nb) >= need
<1> DEFINE low == Lowered(from, nb, need)
           high == Mcs(from, nb, need)
<1>0. nb \in 0 .. Bandwidth /\ MaxMcs = 28
  BY BandwidthFacts DEF MaxMcs
<1>1. \A k : Tbs(k, nb) \in Nat /\ (Tbs(k, nb) > 0 => k \in 0 .. 28)
  BY <1>0, TbsFacts
<1>2. low \in Nat /\ (from >= 0 => low <= from) /\ (low > 0 => Tbs(low, nb) <= need)
  BY LoweredFacts
<1>3. high = Raised(low, nb, need)
  BY DEF Mcs
<1> HIDE DEF low, high
<1>4. CASE low >= 28
  <2>1. high = low
    BY <1>0, <1>3, <1>4 DEF Raised
  <2>2. Tbs(high, nb) <= need
    BY <1>2, <1>4, <2>1
  <2>3. ASSUME need >= 1, Tbs(from, nb) >= need
        PROVE  high = from
    <3>1. Tbs(from, nb) > 0
      BY <1>1, <2>3
    <3>2. from \in 0 .. 28
      BY <1>1, <3>1
    <3> QED
      BY <1>2, <1>4, <2>1, <3>2
  <2>4. ASSUME NEW m \in 0 .. high - 1, Tbs(m, nb) >= need
        PROVE  Tbs(m, nb) >= Tbs(high, nb)
    BY <1>1, <2>2, <2>4
  <2>5. high \in Int
    BY <1>2, <2>1
  <2> QED
    BY <2>3, <2>4, <2>5 DEF high
<1>5. CASE low < 28
  <2>1. /\ high \in low .. 28
        /\ Tbs(high, nb) >= need \/ high = 28
        /\ \A k \in low .. 28 : Tbs(k, nb) >= need => high <= k
    BY <1>0, <1>2, <1>3, <1>5, RaisedFacts
  <2>2. high \in Int /\ low \in Int
    BY <1>2, <2>1
  <2>3. ASSUME need >= 1, Tbs(from, nb) >= need
        PROVE  high <= from /\ Tbs(high, nb) >= need
    <3>1. Tbs(from, nb) > 0
      BY <1>1, <2>3
    <3>2. from \in 0 .. 28
      BY <1>1, <3>1
    <3>3. from \in low .. 28
      BY <1>2, <3>2
    <3>4. high <= from
      BY <2>1, <2>3, <3>3
    <3>5. high = 28 => high = from
      BY <3>2, <3>4
    <3> QED
      BY <2>1, <2>3, <3>4, <3>5
  <2>4. ASSUME NEW m \in 0 .. high - 1, Tbs(m, nb) >= need
        PROVE  Tbs(m, nb) >= Tbs(high, nb)
    <3>1. m < low
      BY <1>0, <2>1, <2>2, <2>4
    <3>2. Tbs(low, nb) <= need /\ low \in 0 .. 28 /\ m \in 0 .. 28
      BY <1>2, <1>5, <2>1, <2>2, <3>1
    <3>3. CASE Tbs(low, nb) = need
      <4>1. low \in low .. 28 /\ Tbs(low, nb) >= need
        BY <1>1, <2>2, <3>2, <3>3
      <4>2. high <= low
        BY <2>1, <4>1
      <4>3. high = low
        BY <2>1, <2>2, <4>2
      <4> QED
        BY <2>4, <3>3, <4>3
    <3>4. CASE Tbs(low, nb) # need
      <4>1. Tbs(low, nb) < Tbs(m, nb)
        BY <1>1, <2>4, <3>2, <3>4
      <4>2. PICK k \in low .. 28 :
              Tbs(k, nb) = Tbs(m, nb) /\ \A j \in low .. k : Tbs(j, nb) <= Tbs(m, nb)
        BY <1>0, <3>1, <3>2, <4>1, TableAssumption DEF TableAssumption
      <4>3. high <= k
        BY <2>1, <2>4, <4>2
      <4>4. high \in low .. k
        BY <2>1, <2>2, <4>3
      <4>5. Tbs(high, nb) <= Tbs(m, nb)
        BY <4>2, <4>4
      <4> QED
        BY <1>1, <4>5
    <3> QED
      BY <3>3, <3>4
  <2> QED
    BY <2>2, <2>3, <2>4 DEF high
<1> QED
  BY <1>2, <1>4, <1>5

-----------------------------------------------------------------------------
(* The blocks of a run                                                     *)

\* The queues that the packing reads, and the MCS that it starts from.
QueuesOK == queues \in [Ue -> Seq(Nat)] /\ mcs \in Int

\* What holds of a block, and is BlockFits and OverrunNeedsSecond of the last one.
Fits(b) ==
  /\ \A m \in 0 .. b.mcs - 1 : Tbs(m, b.nb) >= b.need => Tbs(m, b.nb) >= Tbs(b.mcs, b.nb)
  /\ b.need <= Tbs(b.from, b.avail) /\ Carried(b) < 65536 =>
       Carried(b) <= Tbs(b.mcs, b.nb) /\ b.mcs <= b.from
Overrun(b) ==
  b.need > Tbs(b.from, b.avail) =>
    \/ Tbs(b.from, b.avail) <= b.ta + 3
    \/ \E i, j \in DOMAIN b.requests : i < j /\ b.requests[i] > 0 /\ b.requests[j] > 0

\* The block that NewBlock makes for a UE with the queues qs.
BlockOf(from, avail, ta, qs) ==
  LET p == Packed(Tbs(from, avail), ta, qs)
  IN  [from |-> from, avail |-> avail, ta |-> ta, requests |-> p.requests, need |-> Need(p, ta),
       nb |-> NbRb(from, avail, Need(p, ta)),
       mcs |-> Mcs(from, NbRb(from, avail, Need(p, ta)), Need(p, ta))]

LEMMA PackedFacts ==
  ASSUME NEW tbs \in Nat, NEW ta \in Nat, NEW qs \in Seq(Nat)
  PROVE  /\ Packed(tbs, ta, qs) \in Pack /\ Need(Packed(tbs, ta, qs), ta) \in Int
         /\ Len(Packed(tbs, ta, qs).requests) = Len(qs)
         /\ \A j \in 1 .. Len(qs) : Packed(tbs, ta, qs).requests[j] <= qs[j]
<1>1. PICK g : Loop(g, tbs, ta, qs) /\ Packed(tbs, ta, qs) = g[Len(qs)]
  BY PackedByLoop
<1> DEFINE n == Len(qs)
           e == g[n]
<1>2. n \in 0 .. n
  OBVIOUS
<1>3. e \in Pack
  <2> HIDE DEF n
  <2> QED
    BY <1>1, <1>2 DEF Loop, n
<1>4. Len(e.requests) = n /\ \A j \in 1 .. n : e.requests[j] <= qs[j]
  <2>1. \A j \in 0 .. n : Len(g[j].requests) = j /\ \A i \in 1 .. j : g[j].requests[i] <= qs[i]
    BY <1>1, LoopRequests
  <2> HIDE DEF n
  <2> QED
    BY <1>2, <2>1
<1>5. Need(e, ta) \in Int
  <2> HIDE DEF e
  <2> QED
    BY <1>3 DEF Pack, Need
<1> QED
  BY <1>1, <1>3, <1>4, <1>5

LEMMA BlockOfFits ==
  ASSUME NEW from \in Int, NEW avail \in 1 .. Bandwidth, NEW ta \in Nat, NEW qs \in Seq(Nat),
         HasPayload(Packed(Tbs(from, avail), ta, qs))
  PROVE  Fits(BlockOf(from, avail, ta, qs)) /\ Overrun(BlockOf(from, avail, ta, qs))
<1> DEFINE tbs == Tbs(from, avail)
           p == Packed(tbs, ta, qs)
           need == Need(p, ta)
           nb == NbRb(from, avail, need)
           b == BlockOf(from, avail, ta, qs)
<1>1. tbs \in Nat
  <2>1. avail \in 0 .. Bandwidth
    BY BandwidthFacts
  <2> QED
    BY <2>1, TbsFacts
<1>2. p \in Pack /\ need \in Int /\ Len(p.requests) = Len(qs)
  <2> HIDE DEF tbs
  <2> QED
    BY <1>1, PackedFacts
<1>3. /\ b.from = from /\ b.avail = avail /\ b.ta = ta /\ b.requests = p.requests
      /\ b.need = need /\ b.nb = nb /\ b.mcs = Mcs(from, nb, need)
  BY DEF BlockOf
<1>4. HasPayload(p)
  OBVIOUS
<1>5. nb \in 1 .. Bandwidth /\ (tbs >= need => Tbs(from, nb) >= need)
  <2> HIDE DEF p, need
  <2> QED
    BY <1>2, ChosenNb
<1>6. /\ Mcs(from, nb, need) \in Int
      /\ \A m \in 0 .. Mcs(from, nb, need) - 1 :
           Tbs(m, nb) >= need => Tbs(m, nb) >= Tbs(Mcs(from, nb, need), nb)
      /\ need >= 1 /\ Tbs(from, nb) >= need =>
           Mcs(from, nb, need) <= from /\ Tbs(Mcs(from, nb, need), nb) >= need
  <2> HIDE DEF p, need, nb
  <2> QED
    BY <1>2, <1>5, ChosenMcs
<1>7. ASSUME need <= tbs, Carried(b) < 65536
      PROVE  Carried(b) <= Tbs(b.mcs, nb) /\ b.mcs <= from
  <2>1. b.ta \in Nat /\ b.requests \in Seq(Nat)
    <3> HIDE DEF b, p
    <3> QED
      BY <1>2, <1>3 DEF Pack
  <2>2. PICK s : Sums(s, b.ta, b.requests) /\ Carried(b) = s[Len(b.requests)]
    <3> HIDE DEF b
    <3> QED
      BY <2>1, CarriedBySums
  <2>3. Sums(s, ta, p.requests) /\ Carried(b) = s[Len(qs)] /\ Below16(s[Len(qs)])
    <3> HIDE DEF b, p
    <3> QED
      BY <1>2, <1>3, <1>7, <2>2 DEF Below16
  <2>4. s[Len(qs)] <= need /\ s[Len(qs)] >= 1
    <3> HIDE DEF tbs
    <3> QED
      BY <1>1, <1>4, <2>3, CarriedIsCounted
  <2>5. Carried(b) \in Nat
    <3>1. s \in [0 .. Len(b.requests) -> Nat]
      BY <2>2 DEF Sums
    <3>2. Len(b.requests) \in 0 .. Len(b.requests)
      <4> HIDE DEF b
      <4> QED
        BY <2>1
    <3> HIDE DEF b
    <3> QED
      BY <2>2, <3>1, <3>2
  <2> DEFINE most == Carried(b)
  <2>6. most \in Nat /\ most <= need /\ most >= 1
    BY <2>3, <2>4, <2>5
  <2> HIDE DEF most, need, tbs, nb
  <2>7. need >= 1 /\ Tbs(from, nb) >= need
    BY <1>2, <1>5, <1>7, <2>6
  <2>8. Tbs(Mcs(from, nb, need), nb) \in Nat
    <3>1. nb \in 0 .. Bandwidth
      BY <1>5, BandwidthFacts
    <3> QED
      BY <3>1, TbsFacts
  <2>9. Mcs(from, nb, need) <= from /\ most <= Tbs(Mcs(from, nb, need), nb)
    BY <1>2, <1>6, <2>6, <2>7, <2>8
  <2> HIDE DEF b
  <2> QED
    BY <1>3, <2>9 DEF most
<1>8. Fits(b)
  <2> HIDE DEF b, need, nb, tbs, p
  <2> QED
    BY <1>3, <1>6, <1>7 DEF Fits, tbs
<1>9. ASSUME need > tbs, tbs > ta + 3
      PROVE  \E i, j \in DOMAIN p.requests : i < j /\ p.requests[i] > 0 /\ p.requests[j] > 0
  <2>1. ~(need <= tbs)
    BY <1>1, <1>2, <1>9
  <2>2. ~OneRequest(p.requests)
    <3> HIDE DEF tbs
    <3> QED
      BY <1>1, <1>9, <2>1, OneRequestFits
  <2> DEFINE r == p.requests
  <2>3. \A i \in DOMAIN r : r[i] \in Nat
    <3>1. r \in Seq(Nat)
      BY <1>2 DEF Pack
    <3> HIDE DEF r
    <3> QED
      BY <3>1
  <2> HIDE DEF r
  <2>4. \E i, j \in DOMAIN r : i < j /\ ~(r[i] = 0) /\ ~(r[j] = 0)
    BY <2>2 DEF OneRequest, r
  <2>5. \E i, j \in DOMAIN r : i < j /\ r[i] > 0 /\ r[j] > 0
    BY <2>3, <2>4
  <2> QED
    BY <2>5 DEF r
<1>10. Overrun(b)
  <2> HIDE DEF b, need, tbs, p
  <2>1. SUFFICES ASSUME need > tbs, ~(tbs <= ta + 3)
                 PROVE  \E i, j \in DOMAIN p.requests :
                          i < j /\ p.requests[i] > 0 /\ p.requests[j] > 0
    BY <1>3 DEF Overrun, tbs
  <2>2. tbs > ta + 3
    BY <1>1, <2>1
  <2> QED
    BY <1>9, <2>1, <2>2
<1> QED
  BY <1>8, <1>10

LEMMA InitQueues == Init => QueuesOK
<1> SUFFICES ASSUME Init PROVE QueuesOK
  OBVIOUS
<1>1. mcs \in Int
  <2>1. JunkMcs \subseteq -100 .. 100
    BY CentralAssumption DEF CentralAssumption
  <2>2. mcs \in JunkMcs
    BY DEF Init
  <2> QED
    BY <2>1, <2>2
<1>2. queues = [u \in Ue |-> <<>>] /\ <<>> \in Seq(Nat)
  BY DEF Init
<1> QED
  BY <1>1, <1>2 DEF QueuesOK

\* What a new block asks of the queues is taken off them, and the block is as it is
\* described.
LEMMA NewBlockMade ==
  ASSUME RegionOK, QueuesOK, NEW u \in Ue, NEW avail \in RbChoices, NewBlock(u, avail)
  PROVE  /\ QueuesOK'
         /\ block' = NoBlock \/ (Fits(block') /\ Overrun(block'))
<1> DEFINE from == McsOf(u)
           ta == TaLen(u)
           qs == queues[u]
           tbs == Tbs(from, avail)
           p == Packed(tbs, ta, qs)
<1>1. avail \in 1 .. Bandwidth
  <2>1. avail \in 0 .. Bandwidth /\ avail \in 1 .. free
    BY CentralAssumption DEF CentralAssumption, NewBlock
  <2> QED
    BY <2>1, BandwidthFacts
<1>2. from \in Int
  <2>1. CASE csi[u] = NoCsi
    BY <2>1 DEF McsOf, QueuesOK
  <2>2. CASE csi[u] # NoCsi
    <3>1. csi[u] \in 0 .. 15
      BY <2>2 DEF RegionOK
    <3>2. \A c \in 0 .. 15 : CqiToMcs[c] \in Int
      BY DEF CqiToMcs
    <3> QED
      BY <2>2, <3>1, <3>2 DEF McsOf
  <2> QED
    BY <2>1, <2>2
<1>3. ta \in Nat /\ qs \in Seq(Nat)
  BY DEF TaLen, QueuesOK
<1>4. tbs \in Nat
  <2>1. avail \in 0 .. Bandwidth
    BY <1>1, BandwidthFacts
  <2> HIDE DEF from
  <2> QED
    BY <2>1, TbsFacts
<1>5. /\ queues' = [queues EXCEPT ![u] = [j \in DOMAIN @ |-> @[j] - p.requests[j]]]
      /\ mcs' = IF HasPayload(p) THEN Mcs(from, NbRb(from, avail, Need(p, ta)), Need(p, ta))
                ELSE from
      /\ block' = IF HasPayload(p) THEN BlockOf(from, avail, ta, qs) ELSE NoBlock
  BY DEF NewBlock, BlockOf
<1>6. /\ p \in Pack /\ Need(p, ta) \in Int /\ Len(p.requests) = Len(qs)
      /\ \A j \in 1 .. Len(qs) : p.requests[j] <= qs[j]
  <2> HIDE DEF tbs, ta, qs
  <2> QED
    BY <1>3, <1>4, PackedFacts
<1>7. queues' \in [Ue -> Seq(Nat)]
  <2> DEFINE left == [j \in 1 .. Len(qs) |-> qs[j] - p.requests[j]]
             r == p.requests
  <2>1. r \in Seq(Nat) /\ Len(r) = Len(qs) /\ \A j \in 1 .. Len(qs) : r[j] <= qs[j]
    <3> HIDE DEF p
    <3> QED
      BY <1>6 DEF Pack
  <2> HIDE DEF p, r
  <2>2. \A j \in 1 .. Len(qs) : qs[j] \in Nat /\ r[j] \in Nat /\ r[j] <= qs[j]
    <3> HIDE DEF qs
    <3> QED
      BY <1>3, <2>1
  <2>3. left \in Seq(Nat)
    <3>1. \A j \in 1 .. Len(qs) : qs[j] - r[j] \in Nat
      BY <2>2
    <3>2. Len(qs) \in Nat /\ left = [j \in 1 .. Len(qs) |-> qs[j] - r[j]]
      BY <1>3 DEF r
    <3> HIDE DEF left, qs
    <3> QED
      BY <3>1, <3>2
  <2>4. DOMAIN queues[u] = 1 .. Len(qs)
    BY <1>3
  <2>5. queues' = [queues EXCEPT ![u] = left]
    BY <1>5, <2>4
  <2> HIDE DEF left, qs
  <2> QED
    BY <2>3, <2>5 DEF QueuesOK
<1>8. mcs' \in Int
  <2> DEFINE need == Need(p, ta)
             nb == NbRb(from, avail, need)
  <2>1. need \in Int
    BY <1>6
  <2> HIDE DEF p, need, from, ta
  <2>2. nb \in 1 .. Bandwidth
    BY <1>1, <2>1, ChosenNb
  <2> HIDE DEF nb
  <2>3. Mcs(from, nb, need) \in Int
    BY <1>2, <2>1, <2>2, ChosenMcs
  <2>4. mcs' = Mcs(from, nb, need) \/ mcs' = from
    BY <1>5 DEF need, nb
  <2> QED
    BY <1>2, <2>3, <2>4
<1>9. block' = NoBlock \/ (Fits(block') /\ Overrun(block'))
  <2>1. CASE HasPayload(p)
    <3>1. HasPayload(Packed(Tbs(from, avail), ta, qs))
      BY <2>1
    <3>2. Fits(BlockOf(from, avail, ta, qs)) /\ Overrun(BlockOf(from, avail, ta, qs))
      <4> HIDE DEF from, ta, qs
      <4> QED
        BY <1>1, <1>2, <1>3, <3>1, BlockOfFits
    <3> QED
      BY <1>5, <2>1, <3>2
  <2>2. CASE ~HasPayload(p)
    BY <1>5, <2>2
  <2> QED
    BY <2>1, <2>2
<1> QED
  BY <1>7, <1>8, <1>9 DEF QueuesOK

\* The last block of a run.
LastBlockOK == block = NoBlock \/ (Fits(block) /\ Overrun(block))

LEMMA NextBlock ==
  RegionOK /\ QueuesOK /\ LastBlockOK /\ [Next]_vars => QueuesOK' /\ LastBlockOK'
<1> SUFFICES ASSUME RegionOK, QueuesOK, LastBlockOK, [Next]_vars
             PROVE  QueuesOK' /\ LastBlockOK'
  OBVIOUS
<1>1. CASE BeginRun
  BY <1>1 DEF BeginRun, locals, reported, QueuesOK, LastBlockOK
<1>2. CASE EndRun
  BY <1>2, CentralAssumption DEF CentralAssumption, EndRun, reported, QueuesOK, LastBlockOK
<1>3. ASSUME NEW u \in Ue, Report(u)
      PROVE  QueuesOK' /\ LastBlockOK'
  <2>1. QueueSizes[u] \subseteq Seq(Nat)
    BY CentralAssumption DEF CentralAssumption, Ue
  <2>2. queues' \in [Ue -> Seq(Nat)]
    BY <1>3, <2>1 DEF Report, QueuesOK
  <2>3. mcs' = mcs /\ block' = NoBlock
    BY <1>3 DEF Report, locals
  <2> QED
    BY <2>2, <2>3 DEF QueuesOK, LastBlockOK
<1>4. ASSUME NEW u \in Ue, PassUe(u)
      PROVE  QueuesOK' /\ LastBlockOK'
  BY <1>4 DEF PassUe, reported, QueuesOK, LastBlockOK
<1>5. ASSUME NEW u \in Ue, NEW avail \in RbChoices, NewBlock(u, avail)
      PROVE  QueuesOK' /\ LastBlockOK'
  <2>1. /\ QueuesOK'
        /\ block' = NoBlock \/ (Fits(block') /\ Overrun(block'))
    BY <1>5, NewBlockMade
  <2> QED
    BY <2>1 DEF LastBlockOK, Fits, Overrun
<1>6. ASSUME NEW u \in Ue, NEW avail \in RbChoices, NEW old \in OldBlocks,
             RepeatBlock(u, avail, old)
      PROVE  QueuesOK' /\ LastBlockOK'
  <2>1. old.mcs \in Int
    <3>1. old \in [mcs : 0 .. MaxMcs, nb : 1 .. Bandwidth]
      BY CentralAssumption DEF CentralAssumption
    <3> QED
      BY <3>1 DEF MaxMcs
  <2> QED
    BY <1>6, <2>1 DEF RepeatBlock, reported, QueuesOK, LastBlockOK
<1>7. CASE UNCHANGED vars
  BY <1>7 DEF vars, locals, reported, QueuesOK, LastBlockOK, Fits, Overrun
<1> QED
  BY <1>1, <1>2, <1>3, <1>4, <1>5, <1>6, <1>7 DEF Next, Turn

LEMMA BlocksAreOK == Spec => [](RegionOK /\ QueuesOK /\ LastBlockOK)
<1>1. Init => RegionOK /\ QueuesOK /\ LastBlockOK
  BY InitRegion, InitQueues DEF Init, LastBlockOK
<1>2. RegionOK /\ QueuesOK /\ LastBlockOK /\ [Next]_vars => (RegionOK /\ QueuesOK /\ LastBlockOK)'
  BY NextRegion, NextBlock
<1> QED
  BY <1>1, <1>2, PTL DEF Spec

\* The block that is sent holds what was requested for it, for any queues, at no MCS
\* above that of the CQI, and no lower MCS has a smaller block that would do: the two
\* searches, that for the RBs and that for the MCS, never cut off what was counted.
THEOREM BlocksHoldTheirLoad == Spec => []BlockFits
<1>1. LastBlockOK => BlockFits
  BY DEF LastBlockOK, Fits, BlockFits
<1> QED
  BY <1>1, BlocksAreOK, PTL

\* More than the room is requested only when two channels get data, or when the room is
\* no larger than the timing advance command and one header.
THEOREM OverrunsComeFromTheSecond == Spec => []OverrunNeedsSecond
<1>1. LastBlockOK => OverrunNeedsSecond
  BY DEF LastBlockOK, Overrun, OverrunNeedsSecond
<1> QED
  BY <1>1, BlocksAreOK, PTL
=============================================================================
