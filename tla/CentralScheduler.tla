--------------------------- MODULE CentralScheduler ---------------------------
(***************************************************************************)
(* run_central_scheduler in one cell of one agent: in every subframe it    *)
(* visits the UEs in turn, and packs a new transport block for a UE or     *)
(* repeats one. Between two runs the agent's reports come in.              *)
(*                                                                         *)
(* What its variables hold is kept for the whole run, as they are declared *)
(* before the loops over agents, cells and UEs. The choice of the RBs is   *)
(* in ResourceBlocks, that of the HARQ process in Harq: here they are      *)
(* nondeterministic choices.                                               *)
(***************************************************************************)
EXTENDS Packing, Pdcch

CONSTANTS NumUes,     \* UEs of the cell
          QueueSizes, \* by UE: sequences of the queues that it may report, by channel
          Cqis,       \* by UE: wideband CQIs that it may report
          RbChoices,  \* numbers of RBs that a UE may get
          OldBlocks,  \* blocks that may wait for a repetition: [mcs, nb]
          JunkMcs,    \* what an uninitialised mcs may hold
          NoCsi,      \* no CSI report of the UE for this cell
          NoBlock,
          TaPeriod    \* 20: opportunities between two timing advance commands

ASSUME CentralAssumption ==
  /\ NumUes \in Nat \ {0} /\ TaPeriod \in Nat \ {0}
  /\ \A u \in 1 .. NumUes : QueueSizes[u] \subseteq Seq(Nat) /\ Cqis[u] \subseteq 0 .. 15
  \* A UE has fewer channels than the 8 bits of header_len can count headers for.
  /\ \A u \in 1 .. NumUes : \A q \in QueueSizes[u] : Len(q) <= 80
  /\ MinRbUnit \in 1 .. 4
  /\ NoCsi \notin 0 .. 15
  /\ RbChoices \subseteq 0 .. Bandwidth
  /\ OldBlocks \subseteq [mcs : 0 .. MaxMcs, nb : 1 .. Bandwidth]
  /\ JunkMcs \subseteq -100 .. 100 /\ JunkMcs # {}

\* The block sizes of TBStable grow with the MCS, but for one that comes again: the
\* first entry of row 6 is that of row 16.
ASSUME TableAssumption ==
  /\ \A i \in 0 .. 26, n \in 1 .. Bandwidth : TBStable[i][n] \in Nat
  /\ \A m, l \in 0 .. MaxMcs, n \in 1 .. Bandwidth :
       m < l /\ Tbs(l, n) < Tbs(m, n) =>
         \E k \in l .. MaxMcs : Tbs(k, n) = Tbs(m, n) /\ \A j \in l .. k : Tbs(j, n) <= Tbs(m, n)

Ue == 1 .. NumUes

VARIABLES
  turn,     \* the UE whose turn it is; 0 between the runs
  symbols,  \* num_pdcch_symbols_
  rem,      \* nCCE_rem_
  agg,      \* aggregation
  mcs,      \* mcs
  ceTa,     \* ce_flags has FLPCET_TA
  queues,   \* queues[u][j]: tx_queue_size of logical channel j of UE u, in the RIB
  csi,      \* csi[u]: the wideband CQI in the RIB, or NoCsi
  wantsTa,  \* wantsTa[u]: pending_mac_ces has FLPCET_TA
  taTimer,  \* ta_timer_
  free,     \* history: RBs of the cell that no UE has got in this run
  assigned, \* history: CCEs of the assignments of this run
  waited,   \* history: waited[u]: opportunities in a row that left a pending command waiting
  block     \* history: the new block of the last turn, or NoBlock

reported == <<queues, csi, wantsTa>>
region == <<symbols, rem, assigned>>
locals == <<agg, mcs, ceTa>>
vars == <<turn, region, locals, reported, taTimer, waited, free, block>>

\* A new scheduling context starts with ta_timer_(20); no report has come.
Init ==
  /\ turn = 0 /\ free = 0
  /\ symbols = StartSymbols /\ rem = StartRem /\ assigned = 0
  /\ agg = 1 /\ mcs \in JunkMcs /\ ceTa = FALSE
  /\ queues = [u \in Ue |-> <<>>]
  /\ csi = [u \in Ue |-> NoCsi] /\ wantsTa = [u \in Ue |-> FALSE]
  /\ taTimer = [u \in Ue |-> TaPeriod] /\ waited = [u \in Ue |-> 0]
  /\ block = NoBlock

\* update_mac_stats_report: the flags of a report say which parts of it are copied.
Report(u) ==
  /\ turn = 0
  /\ \/ \E q \in QueueSizes[u] : queues' = [queues EXCEPT ![u] = q] /\ UNCHANGED <<csi, wantsTa>>
     \/ \E c \in Cqis[u] : csi' = [csi EXCEPT ![u] = c] /\ UNCHANGED <<queues, wantsTa>>
     \/ wantsTa' = [wantsTa EXCEPT ![u] = ~@] /\ UNCHANGED <<queues, csi>>
  /\ block' = NoBlock
  /\ UNCHANGED <<turn, region, locals, taTimer, waited, free>>

\* The call, and start_new_scheduling_round.
BeginRun ==
  /\ turn = 0 /\ turn' = 1
  /\ symbols' = StartSymbols /\ rem' = StartRem /\ assigned' = 0
  /\ free' = Bandwidth /\ block' = NoBlock
  /\ UNCHANGED <<locals, reported, taTimer, waited>>

-----------------------------------------------------------------------------
(* The turn of a UE                                                        *)

\* Without a CSI report the variables keep what the UE before has left in them.
AggOf(u) == IF csi[u] = NoCsi THEN agg ELSE CqiToAgg[csi[u]]
McsOf(u) == IF csi[u] = NoCsi THEN mcs ELSE CqiToMcs[csi[u]]

NextUe == turn' = turn + 1

\* Mutant of Check: the check assigns the CCEs, too.
CheckMutAssigns(u, takes) ==
  /\ agg' = AggOf(u)
  /\ symbols' = SymbolsAfter(symbols, rem, AggOf(u))
  /\ rem' = RemAfter(symbols, rem, AggOf(u)) - (IF takes THEN 2 * CceOf(AggOf(u)) ELSE CceOf(AggOf(u)))
  /\ assigned' = IF takes THEN assigned + CceOf(AggOf(u)) ELSE assigned

\* CCE_allocation_infeasible may enlarge the region; assign_CCE comes with a block.
Check(u, takes) ==
  /\ agg' = AggOf(u)
  /\ symbols' = SymbolsAfter(symbols, rem, AggOf(u))
  /\ rem' = RemAfter(symbols, rem, AggOf(u)) - (IF takes THEN CceOf(AggOf(u)) ELSE 0)
  /\ assigned' = IF takes THEN assigned + CceOf(AggOf(u)) ELSE assigned

\* No CCEs, no HARQ process or no RBs for the UE: the latter two are choices.
PassUe(u) ==
  /\ turn = u /\ NextUe
  /\ Check(u, FALSE)
  /\ block' = NoBlock
  /\ UNCHANGED <<mcs, ceTa, reported, taTimer, waited, free>>

\* A block waits for its repetition, with the MCS that it had: it is sent if the UE
\* has got the RBs, and leaves its MCS in the variable in any case.
RepeatBlock(u, avail, old) ==
  /\ turn = u /\ NextUe
  /\ avail \in 1 .. free /\ Feasible(symbols, rem, AggOf(u))
  /\ Check(u, old.nb <= avail)
  /\ mcs' = old.mcs
  /\ free' = free - avail /\ block' = NoBlock
  /\ UNCHANGED <<ceTa, reported, taTimer, waited>>

\* Two bytes for a timing advance command, when the timer is over and one is pending.
TaLen(u) == IF taTimer[u] = 0 /\ wantsTa[u] THEN 2 ELSE 0

\* Mutant of NextTimer: it is not counted down.
NextTimerMutStands(u) == IF TaLen(u) > 0 THEN TaPeriod ELSE taTimer[u]

\* An opportunity for a new block counts the timer down, whether or not a block follows.
NextTimer(u) ==
  IF taTimer[u] > 0 THEN taTimer[u] - 1 ELSE IF TaLen(u) > 0 THEN TaPeriod ELSE 0

\* A new block from what the queues hold, if that is anything.
NewBlock(u, avail) ==
  LET from == McsOf(u)
      ta   == TaLen(u)
      p    == Packed(Tbs(from, avail), ta, queues[u])
      need == Need(p, ta)
      nb   == NbRb(from, avail, need)
  IN  /\ turn = u /\ NextUe
      /\ avail \in 1 .. free /\ Feasible(symbols, rem, AggOf(u))
      /\ Check(u, HasPayload(p))
      /\ taTimer' = [taTimer EXCEPT ![u] = NextTimer(u)]
      /\ waited' = [waited EXCEPT ![u] = IF wantsTa[u] /\ ta = 0 THEN @ + 1 ELSE 0]
      /\ ceTa' = (ceTa \/ ta > 0)
      /\ queues' = [queues EXCEPT ![u] = [j \in DOMAIN @ |-> @[j] - p.requests[j]]]
      /\ mcs' = IF HasPayload(p) THEN Mcs(from, nb, need) ELSE from
      /\ block' = IF HasPayload(p)
                  THEN [from |-> from, avail |-> avail, ta |-> ta, requests |-> p.requests,
                        need |-> need, nb |-> nb, mcs |-> Mcs(from, nb, need)]
                  ELSE NoBlock
      /\ free' = free - avail
      /\ UNCHANGED <<csi, wantsTa>>

\* The message is sent, if it has a block, and the variables are gone: those of the
\* next call start anew.
EndRun ==
  /\ turn = NumUes + 1 /\ turn' = 0
  /\ agg' = 1 /\ mcs' \in JunkMcs /\ ceTa' = FALSE
  /\ free' = 0 /\ block' = NoBlock
  /\ UNCHANGED <<region, reported, taTimer, waited>>

Turn(u) ==
  \/ PassUe(u)
  \/ \E avail \in RbChoices :
       NewBlock(u, avail) \/ \E old \in OldBlocks : RepeatBlock(u, avail, old)

Next ==
  \/ BeginRun
  \/ EndRun
  \/ \E u \in Ue : Report(u) \/ Turn(u)

Spec == Init /\ [][Next]_vars

-----------------------------------------------------------------------------
\* What a block carries: the timing advance command and the requests, each with a
\* subheader of two or three bytes but for the last, which has one.
Carried(b) ==
  LET n == Len(b.requests)
      Subheader(j) == IF \A i \in j + 1 .. n : b.requests[i] = 0 THEN 1
                      ELSE IF b.requests[j] < 128 THEN 2 ELSE 3
      upTo[j \in 0 .. n] ==
        IF j = 0 THEN b.ta
        ELSE upTo[j - 1] + IF b.requests[j] = 0 THEN 0 ELSE b.requests[j] + Subheader(j)
  IN  upTo[n]

\* The block is the smallest that holds what was requested: none of the MCSs below the
\* one chosen has a smaller one that would do with as many RBs, although the search goes
\* down too far and up again. And what was requested within the room of the UE's RBs at
\* the MCS of its CQI, with its headers, still has its place when the block has been cut
\* down to fewer RBs and another MCS, never one above that of the CQI; unless it passes
\* the 16 bits of sdu_length_total (flexible_scheduler.cc:536-612).
BlockFits ==
  block # NoBlock =>
    /\ \A m \in 0 .. block.mcs - 1 :
         Tbs(m, block.nb) >= block.need => Tbs(m, block.nb) >= Tbs(block.mcs, block.nb)
    /\ block.need <= Tbs(block.from, block.avail) /\ Carried(block) < 65536 =>
         Carried(block) <= Tbs(block.mcs, block.nb) /\ block.mcs <= block.from

\* More than the room is requested only where the unsigned difference was below zero:
\* when a first channel has left less than the header of a second one, or when the room
\* is too small for any header but the first (flexible_scheduler.cc:497-533).
OverrunNeedsSecond ==
  block # NoBlock /\ block.need > Tbs(block.from, block.avail) =>
    \/ Tbs(block.from, block.avail) <= block.ta + 3
    \/ \E i, j \in DOMAIN block.requests : i < j /\ block.requests[i] > 0 /\ block.requests[j] > 0

\* Whatever UEs were passed over, and whatever the region has grown by: the CCEs that
\* are left and those that were assigned are the region's (enb_scheduling_info.cc:45-58,
\* flexible_scheduler.cc:694).
CceAccounting == rem + assigned = NCCEMax(symbols) /\ rem >= 0

\* A timing advance command that stays pending is given space after TaPeriod
\* opportunities for a new block, not counting turns in which the UE was passed over or
\* repeated a block; what is scheduled for others does not matter
\* (flexible_scheduler.cc:476-491).
TaWaitBounded == \A u \in Ue : waited[u] <= TaPeriod
=============================================================================
