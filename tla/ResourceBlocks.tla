--------------------------- MODULE ResourceBlocks ---------------------------
(***************************************************************************)
(* The downlink resource blocks (RBs) of one cell in the subframes that    *)
(* run_central_scheduler schedules (it skips subframes 0 and 5).           *)
(* run_dlsch_scheduler_preprocessor hands out groups of RBs (RBGs) in two  *)
(* rounds: first up to an equal share for every UE, then what is left.     *)
(* The scheduler then makes of each UE's groups a downlink assignment.     *)
(*                                                                         *)
(* Of the HARQ processes of a UE the model keeps the one that was used     *)
(* last: a UE asks for a retransmission of it, for a new transmission, or  *)
(* has no process available. Queues are counted in RBs: the least number   *)
(* whose transport block holds them at the UE's MCS.                       *)
(***************************************************************************)
EXTENDS Integers, FiniteSets

CONSTANTS Bandwidth, \* RBs of the cell, dl_bandwidth
          NumUe,     \* UEs whose primary cell it is
          Demands    \* bound: RBs that the queues of a UE, or a payload, may take

ASSUME RbAssumption ==
  /\ Bandwidth \in {6, 25, 50, 100}  \* what get_bw_index knows
  /\ NumUe \in Nat
  /\ Demands \subseteq Nat

Ue == 1 .. NumUe

MinRbUnit == CASE Bandwidth = 6 -> 1 [] Bandwidth = 25 -> 2
               [] Bandwidth = 50 -> 3 [] Bandwidth = 100 -> 4

NbRbg == CASE Bandwidth = 6 -> 6 [] Bandwidth = 25 -> 13
           [] Bandwidth = 50 -> 17 [] Bandwidth = 100 -> 25

Rbg == 0 .. NbRbg - 1

\* The last group of a cell of 25 or 50 RBs is one RB short.
ShortRbg == IF Bandwidth \in {25, 50} THEN {NbRbg - 1} ELSE {}

\* RBs in a set of groups.
Rbs(S) == MinRbUnit * Cardinality(S) - Cardinality(S \cap ShortRbg)

\* What the RIB says of a UE when the preprocessor runs. "small" is MCS 0, "high"
\* a UE with at most two logical channels.
Report == [harq : {"retx", "new", "none"}, demand : Demands,
           small : BOOLEAN, high : BOOLEAN]

\* A downlink assignment: its number of RBs and the groups of its bitmap.
Assignment == [nb : Nat, bitmap : SUBSET Rbg]

NoAssignment == [nb |-> 0, bitmap |-> {}]

VARIABLES
  pc,          \* "idle", "assign", "round", "visit", "schedule"
  round,       \* r1: 0 or 1
  report,      \* report[u]: the RIB's data on u in this subframe
  order,       \* sorted_ues: high priority first, each class as sort_UEs leaves it
  turn,        \* position in order of the UE that takes groups
  rbg,         \* i: the group that is considered for it
  vrb,         \* vrb_map_: groups taken
  alloc,       \* alloc[u]: rballoc_sub_
  required,    \* nb_rbs_required_
  share,       \* nb_rbs_required_remaining_1_
  remaining,   \* nb_rbs_required_remaining_
  available,   \* pre_nb_rbs_available_
  nbScheduled, \* nb_scheduled_rbs_ of the process used last
  waiting,     \* UEs that the scheduling loop has not reached
  dci          \* dci[u]: the assignment of this subframe

subframe == <<report, order>>
wants == <<required, share, remaining>>
grants == <<vrb, alloc, available>>
vars == <<pc, round, subframe, turn, rbg, grants, wants, nbScheduled, waiting, dci>>

Zero == [u \in Ue |-> 0]

NoReport == [harq |-> "none", demand |-> 0, small |-> FALSE, high |-> TRUE]

Init ==
  /\ pc = "idle" /\ round = 0 /\ turn = 1 /\ rbg = 0
  /\ report = [u \in Ue |-> NoReport] /\ order = [k \in Ue |-> k]
  /\ vrb = {} /\ alloc = [u \in Ue |-> {}] /\ available = Zero
  /\ required = Zero /\ share = Zero /\ remaining = Zero
  /\ nbScheduled = Zero
  /\ waiting = {} /\ dci = [u \in Ue |-> NoAssignment]

-----------------------------------------------------------------------------
\* compare_stats: retransmissions first; a UE without an available process keeps
\* zeros and ends last. Between equal ranks any order is possible.
Rank(p) ==
  CASE p.harq = "retx" -> 0
    [] p.harq = "new" /\ p.demand > 0 -> 1
    [] OTHER -> 2

\* The two loops over sorted_ues: high priority, then the rest.
Precedes(p, q) == (p.high /\ ~q.high) \/ (p.high = q.high /\ Rank(p) <= Rank(q))

Orders(rep) ==
  {o \in [Ue -> Ue] : \A j, k \in Ue : j < k => o[j] # o[k] /\ Precedes(rep[o[j]], rep[o[k]])}

\* A new subframe is scheduled. Only what was scheduled can need a retransmission.
StartSubframe ==
  /\ pc = "idle"
  /\ \E rep \in [Ue -> Report] :
       /\ \A u \in Ue : rep[u].harq = "retx" => nbScheduled[u] > 0
       /\ report' = rep
       /\ order' \in Orders(rep)
  /\ pc' = "assign"
  /\ UNCHANGED <<round, turn, rbg, grants, wants, nbScheduled, waiting, dci>>

\* The first number of RBs that is tried for a MCS: "don't let the TBS get too small".
FirstTry(small) == IF small THEN 4 ELSE MinRbUnit

\* Both loops that look for a number of RBs: the first of try, try + MinRbUnit, ...
\* that reaches n; one that passes the limit is cut to it, but not the first.
Grow(try, n, limit) ==
  LET steps == IF n <= try THEN 0 ELSE (n - try + MinRbUnit - 1) \div MinRbUnit
      nb == try + steps * MinRbUnit
  IN  IF steps > 0 /\ nb > limit THEN limit ELSE nb

\* assign_rbs_required, and the retransmission that replaces it.
Required(u) ==
  LET p == report[u]
  IN  IF p.harq = "retx" THEN nbScheduled[u]
      ELSE IF p.demand = 0 THEN 0
      ELSE Grow(FirstTry(p.small), p.demand, Bandwidth)

\* total_ue_count: a UE without an available process is not counted.
Counted == {u \in Ue : report[u].harq # "none" /\ Required(u) > 0}

\* average_rbs_per_user
Average ==
  LET n == Cardinality(Counted)
  IN  IF n = 0 THEN 0
      ELSE IF MinRbUnit * n <= Bandwidth THEN Bandwidth \div n
      ELSE MinRbUnit

\* Mutant of ShareOf: a UE of low priority may take all that it requires at once.
ShareOfMutAll(u) == Required(u)

\* A UE without a process gets its share too.
ShareOf(u) ==
  IF report[u].high \/ Required(u) <= Average THEN Required(u) ELSE Average

AssignRequired ==
  /\ pc = "assign"
  /\ required' = [u \in Ue |-> Required(u)]
  /\ share' = [u \in Ue |-> ShareOf(u)]
  /\ nbScheduled' = [u \in Ue |-> IF report[u].harq = "new" THEN 0 ELSE nbScheduled[u]]
  /\ pc' = "round" /\ round' = 0
  /\ UNCHANGED <<subframe, turn, rbg, grants, remaining, waiting, dci>>

-----------------------------------------------------------------------------
\* Mutant of Quota: the second round forgets what the first could not give.
QuotaMutForgets(u) == IF round = 0 THEN share[u] ELSE required[u] - share[u]

\* nb_rbs_required_remaining of a round.
Quota(u) == IF round = 0 THEN share[u] ELSE required[u] - share[u] + remaining[u]

\* Nothing is given out when no UE is counted.
BeginRound ==
  /\ pc = "round"
  /\ remaining' = [u \in Ue |-> IF required[u] > 0 THEN Quota(u) ELSE remaining[u]]
  /\ turn' = IF \E u \in Ue : report[u].harq # "none" /\ required[u] > 0
             THEN 1 ELSE NumUe + 1
  /\ rbg' = 0
  /\ pc' = "visit"
  /\ UNCHANGED <<round, subframe, grants, required, share, nbScheduled, waiting, dci>>

\* Mutant of MayTake: the map of the groups that others hold is not asked.
MayTakeMutTaken(u, i) ==
  i \notin alloc[u] /\ remaining[u] > 0 /\ available[u] < required[u]

MayTake(u, i) ==
  /\ i \notin vrb /\ i \notin alloc[u]
  /\ remaining[u] > 0 /\ available[u] < required[u]

\* Mutant of Fits: a UE may take a group of which it needs only a part.
FitsMutAnyway(u, i) == TRUE

\* Only the short group is given to a UE that needs less than a whole one.
Fits(u, i) == i \in ShortRbg \/ remaining[u] >= MinRbUnit

NextRbg ==
  IF rbg < NbRbg - 1 THEN rbg' = rbg + 1 /\ turn' = turn
                     ELSE rbg' = 0 /\ turn' = turn + 1

\* Mutant of GrantedRbs: every group counts as a whole one.
GrantedRbsMutWhole(i) == MinRbUnit

GrantedRbs(i) == IF i \in ShortRbg THEN MinRbUnit - 1 ELSE MinRbUnit

\* perform_pre_processor_allocation runs for the UE whose turn it is.
Visiting == pc = "visit" /\ turn <= NumUe /\ required[order[turn]] > 0

SkipUe ==
  /\ pc = "visit" /\ turn <= NumUe /\ required[order[turn]] = 0
  /\ turn' = turn + 1
  /\ UNCHANGED <<pc, round, subframe, rbg, grants, wants, nbScheduled, waiting, dci>>

\* One pass of the loop of perform_pre_processor_allocation: group rbg is given to
\* the UE whose turn it is,
TakeRbg ==
  LET u == order[turn]
      left == remaining[u] - GrantedRbs(rbg)
  IN  /\ Visiting
      /\ MayTake(u, rbg) /\ Fits(u, rbg)
      /\ vrb' = vrb \cup {rbg}
      /\ alloc' = [alloc EXCEPT ![u] = @ \cup {rbg}]
      /\ remaining' = [remaining EXCEPT ![u] = IF left <= 0 THEN 0 ELSE left]
      /\ available' = [available EXCEPT ![u] = @ + GrantedRbs(rbg)]
      /\ NextRbg
      /\ UNCHANGED <<pc, round, subframe, required, share, nbScheduled, waiting, dci>>

\* ... or is not.
PassRbg ==
  /\ Visiting
  /\ ~(MayTake(order[turn], rbg) /\ Fits(order[turn], rbg))
  /\ NextRbg
  /\ UNCHANGED <<pc, round, subframe, grants, wants, nbScheduled, waiting, dci>>

EndFirstRound ==
  /\ pc = "visit" /\ turn > NumUe /\ round = 0
  /\ pc' = "round" /\ round' = 1
  /\ UNCHANGED <<subframe, turn, rbg, grants, wants, nbScheduled, waiting, dci>>

EndSecondRound ==
  /\ pc = "visit" /\ turn > NumUe /\ round = 1
  /\ pc' = "schedule" /\ round' = 0
  /\ waiting' = Ue
  /\ UNCHANGED <<subframe, turn, rbg, grants, wants, nbScheduled, dci>>

-----------------------------------------------------------------------------
\* The groups of S before group i, in the order of the loops.
Below(S, i) == {j \in S : j < i}

\* Mutant of Marked: the counter stops below zero, as a signed one would, and one
\* group early.
MarkedMutShort(S, nb) == {i \in S : Rbs(Below(S, i)) + MinRbUnit < nb}

\* rballoc_sub_scheduled_: all groups when nb is exactly what they have; otherwise a
\* loop marks them until nb_rb_tmp is zero. nb_rb_tmp is unsigned: when nb falls
\* within a group it wraps, and the loop marks every group.
Marked(S, nb) ==
  IF nb = Rbs(S) THEN S
  ELSE {i \in S : \A k \in S : k <= i => Rbs(Below(S, k)) # nb}

\* allocate_prbs_sub: its counter is signed, it stops at or below zero.
Bitmap(S, nb) == {i \in S : Rbs(Below(S, i)) < nb}

Assigned(u, nb) == [nb |-> nb, bitmap |-> Bitmap(Marked(alloc[u], nb), nb)]

AtTurn(u) ==
  /\ pc = "schedule" /\ u \in waiting
  /\ waiting' = waiting \ {u}
  /\ UNCHANGED <<pc, round, subframe, turn, rbg, grants, wants>>

\* The UE is not scheduled: no room for its DCI in the control channel (not modelled
\* here), no HARQ process, no group, more RBs to repeat than it got, or no payload.
PassUe(u) ==
  /\ AtTurn(u)
  /\ UNCHANGED <<nbScheduled, dci>>

Retransmit(u) ==
  /\ AtTurn(u)
  /\ report[u].harq = "retx" /\ available[u] > 0
  /\ required[u] <= available[u]
  /\ dci' = [dci EXCEPT ![u] = Assigned(u, required[u])]
  /\ UNCHANGED nbScheduled

\* The payload was cut to the transport block of all the RBs of the UE, so it needs
\* at most that many (one of Demands, as a bound, or all). The first try is not cut.
Transmit(u) ==
  /\ AtTurn(u)
  /\ report[u].harq = "new" /\ report[u].demand > 0 /\ available[u] > 0
  /\ \E n \in (Demands \cup {available[u]}) \cap (1 .. available[u]) :
       LET nb == Grow(FirstTry(report[u].small), n, available[u])
       IN  /\ dci' = [dci EXCEPT ![u] = Assigned(u, nb)]
           /\ nbScheduled' = [nbScheduled EXCEPT ![u] = nb]

\* The message is sent. start_new_scheduling_round clears what this subframe leaves
\* before the next one reads it: here, so that subframes differ in nbScheduled only.
EndSubframe ==
  /\ pc = "schedule" /\ waiting = {}
  /\ report' = [u \in Ue |-> NoReport] /\ order' = [k \in Ue |-> k]
  /\ vrb' = {} /\ alloc' = [u \in Ue |-> {}] /\ available' = Zero
  /\ required' = Zero /\ share' = Zero /\ remaining' = Zero
  /\ dci' = [u \in Ue |-> NoAssignment]
  /\ pc' = "idle"
  /\ UNCHANGED <<round, turn, rbg, nbScheduled, waiting>>

Next ==
  \/ StartSubframe \/ AssignRequired
  \/ BeginRound \/ SkipUe \/ TakeRbg \/ PassRbg \/ EndFirstRound \/ EndSecondRound
  \/ \E u \in Ue : PassUe(u) \/ Retransmit(u) \/ Transmit(u)
  \/ EndSubframe

Spec == Init /\ [][Next]_vars

-----------------------------------------------------------------------------
TypeOK ==
  /\ pc \in {"idle", "assign", "round", "visit", "schedule"}
  /\ round \in 0 .. 1
  /\ report \in [Ue -> Report \cup {NoReport}] /\ order \in [Ue -> Ue]
  /\ turn \in 1 .. NumUe + 1 /\ rbg \in Rbg
  /\ vrb \subseteq Rbg /\ alloc \in [Ue -> SUBSET Rbg]
  /\ {required, share, remaining, available, nbScheduled} \subseteq [Ue -> Nat]
  /\ waiting \subseteq Ue
  /\ dci \in [Ue -> Assignment]

\* No group of resource blocks is given to two UEs, in whatever rounds and turns
\* they took theirs, and the cell's map shows exactly the groups given out
\* (remote_scheduler_helper.cc:274-298: the map and the UEs' own maps are written
\* side by side).
Exclusive ==
  /\ \A u, v \in Ue : u # v => alloc[u] \cap alloc[v] = {}
  /\ vrb = UNION {alloc[u] : u \in Ue}

\* pre_nb_rbs_available is the number of RBs of the groups a UE holds, the short
\* group included (remote_scheduler_helper.cc:286-298): the scheduler sizes the
\* transport block by the one and fills the bitmap from the other.
Accounting == \A u \in Ue : available[u] = Rbs(alloc[u])

\* RBs by which the short group may exceed what a UE asked for.
Slack == IF ShortRbg = {} THEN 0 ELSE MinRbUnit - 2

\* The first round keeps every UE within its share, and the second within what it
\* requires (remote_scheduler_helper.cc:122-150,171-175), but for the short group.
WithinQuota ==
  \A u \in Ue :
    /\ available[u] <= required[u] + Slack
    /\ pc = "visit" /\ round = 0 => available[u] <= share[u] + Slack

\* No whole group stays free while a UE that has something to send lacks a whole
\* group or more, unless no UE with a HARQ process has
\* (remote_scheduler_helper.cc:154-180).
WorkConserving ==
  pc = "schedule" /\ Rbg \ (ShortRbg \cup vrb) # {}
    /\ (\E u \in Ue : report[u].harq # "none" /\ required[u] > 0)
  => \A u \in Ue : required[u] - available[u] < MinRbUnit

\* If every UE is of low priority and has a HARQ process, none is left with less than
\* the whole groups of an equal share when it requires as much
\* (remote_scheduler_helper.cc:122-128).
FairShare ==
  LET n == Cardinality({u \in Ue : required[u] > 0})
  IN  pc = "schedule" /\ n > 0 /\ n * MinRbUnit <= Bandwidth
        /\ (\A u \in Ue : report[u].harq # "none" /\ ~report[u].high)
      => \A u \in Ue :
           LET due == IF required[u] <= Bandwidth \div n THEN required[u] ELSE Bandwidth \div n
           IN  available[u] >= due - (due % MinRbUnit)

\* The bitmaps of the downlink assignments of a subframe are disjoint, each within
\* the groups of its UE, and each has RBs for the number its transport block was
\* sized for, unless the UE has fewer altogether: the unsigned wrap of nb_rb_tmp
\* (flexible_scheduler.cc:577-595) never loses a group.
BitmapsCarryBlocks ==
  \A u, v \in Ue :
    /\ u # v => dci[u].bitmap \cap dci[v].bitmap = {}
    /\ dci[u].bitmap \subseteq alloc[u]
    /\ Rbs(dci[u].bitmap) >= IF dci[u].nb <= available[u] THEN dci[u].nb ELSE available[u]

\* "If we've gone beyond the maximum number of RBs" (flexible_scheduler.cc:560): a
\* transport block is never sized for more RBs than the preprocessor gave the UE.
WithinAvailable == \A u \in Ue : dci[u].nb <= available[u]
=============================================================================
