--------------------------------- MODULE Pdcch ---------------------------------
(***************************************************************************)
(* The downlink control channel of one cell: how many control channel      *)
(* elements (CCEs) its first OFDM symbols hold, and the check that an      *)
(* assignment of some of them is feasible. The unsigned types of the code  *)
(* are kept where a value may pass zero.                                   *)
(***************************************************************************)
EXTENDS Integers, FiniteSetsExt

CONSTANTS Bandwidth,      \* dl_bandwidth: the resource blocks of the cell
          PhichResource,  \* phich_resource of the cell's configuration
          ExtendedPrefix  \* dl_cyclic_prefix_length is FLDCPL_EXTENDED

\* get_nquad and get_bw_index know these bandwidths (for another one there are no
\* CCEs, and the aggregation is that of 25 RBs).
ASSUME PdcchAssumption ==
  /\ Bandwidth \in {6, 25, 50, 100}
  /\ PhichResource \in {"one_sixth", "half", "one", "two"}
  /\ ExtendedPrefix \in BOOLEAN

Symbols == 0 .. 3
Aggregation == 0 .. 3

\* 1 << aggregation: the CCEs of an assignment.
CceOf(agg) == <<1, 2, 4, 8>>[agg + 1]

\* get_phich_resource: in sixths.
PhichSixths == [one_sixth |-> 1, half |-> 3, one |-> 6, two |-> 12][PhichResource]

\* The PHICH groups, each of three quadruplets; get_mi is 1.
PhichGroups ==
  LET product == PhichSixths * Bandwidth
      groups  == product \div 48 + (IF product % 48 > 0 THEN 1 ELSE 0)
  IN  IF ExtendedPrefix THEN 2 * groups ELSE groups

\* n_reg of get_nquad: the quadruplets of the control region, none without symbols.
Quadruplets(symbols) ==
  IF symbols = 0 THEN 0 ELSE 2 * Bandwidth + (symbols - 1) * 3 * Bandwidth

\* get_nquad: what PCFICH and PHICH leave, an unsigned number of 16 bits.
NQuad(symbols) == (Quadruplets(symbols) - 4 - 3 * PhichGroups) % 65536

\* get_nCCE_max
NCCEMax(symbols) == NQuad(symbols) \div 9

\* get_aggregation of DCI format 1: the row of cqi2fmt1x_agg for the bandwidth, by the
\* wideband CQI.
CqiToAgg == [cqi \in 0 .. 15 |->
  (CASE Bandwidth = 6   -> <<3, 3, 3, 2, 2, 1, 1, 1, 1, 0, 0, 0, 0, 0, 0, 0>>
     [] Bandwidth = 25  -> <<3, 3, 3, 3, 2, 2, 1, 1, 1, 1, 0, 0, 0, 0, 0, 0>>
     [] Bandwidth = 50  -> <<3, 3, 3, 3, 2, 2, 2, 1, 1, 1, 1, 0, 0, 0, 0, 0>>
     [] Bandwidth = 100 -> <<3, 3, 3, 3, 2, 2, 2, 2, 1, 1, 1, 1, 0, 0, 0, 0>>)[cqi + 1]]

\* start_new_scheduling_round, in the subframes that are scheduled (neither 0 nor 5).
StartSymbols == 0
StartRem == NCCEMax(StartSymbols)

\* nCCE_rem_ when the region has grown from `symbols` to `grown` by steps of
\* increase_num_pdcch_symbols. It is unsigned, but CCE_allocation_infeasible compares
\* it as an int: so a value below zero counts as one.
RemAt(symbols, rem, grown) == NCCEMax(grown) - (NCCEMax(symbols) - rem)

\* get_nCCE_offset: the places that the search of a UE may return, whatever its rnti.
\* The first one is taken: "This should test a CCE allocation" with those of others.
Offsets(agg, nCCE) == { place * CceOf(agg) : place \in 0 .. nCCE \div CceOf(agg) - 1 }

\* CCE_allocation_infeasible: the sizes of the region with room for the assignment;
\* the least is taken, and without any the region stays at 3 symbols.
SizesWithRoom(symbols, rem, agg) == { s \in symbols .. 3 : CceOf(agg) <= RemAt(symbols, rem, s) }

Feasible(symbols, rem, agg) == SizesWithRoom(symbols, rem, agg) # {}

SymbolsAfter(symbols, rem, agg) ==
  IF Feasible(symbols, rem, agg) THEN Min(SizesWithRoom(symbols, rem, agg)) ELSE 3

RemAfter(symbols, rem, agg) == RemAt(symbols, rem, SymbolsAfter(symbols, rem, agg))
=============================================================================
