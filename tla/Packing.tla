-------------------------------- MODULE Packing --------------------------------
(***************************************************************************)
(* How run_central_scheduler fills a new transport block of a UE: what it  *)
(* requests of each logical channel, the headers it counts, and the number *)
(* of RBs and the MCS that it then looks for. Sizes are in bytes.          *)
(***************************************************************************)
EXTENDS Integers, Sequences, FiniteSetsExt

CONSTANTS TBStable,  \* TBStable[i][n]: bytes of a block of n RBs in row i
          MinRbUnit  \* get_min_rb_unit of the cell

MaxMcs == 28

\* get_I_TBS
ITbs(mcs) ==
  IF mcs < 10 THEN mcs
  ELSE IF mcs = 10 THEN 9
  ELSE IF mcs < 17 THEN mcs - 1
  ELSE IF mcs = 17 THEN 15
  ELSE mcs - 2

\* get_TBS_DL; an MCS that is not one, as an uninitialised variable may be, gives 0.
Tbs(mcs, nb) == IF nb > 0 /\ mcs \in 0 .. MaxMcs THEN TBStable[ITbs(mcs)][nb] ELSE 0

\* cqi_to_mcs
CqiToMcs == [cqi \in 0 .. 15 |->
  <<0, 0, 1, 2, 4, 6, 8, 11, 13, 16, 18, 20, 23, 25, 27, 28>>[cqi + 1]]

-----------------------------------------------------------------------------
(* The loop over the logical channels                                      *)

\* header_len, header_len_last, sdu_length_total, and what each channel was asked for
\* (0: no rlc_pdu was added).
Empty == [header |-> 0, last |-> 0, total |-> 0, requests |-> <<>>]

\* Mutant of Request: the header is not taken off the room.
RequestMutHeader(room, p, queue) ==
  IF room + p.header + 3 < 0 THEN queue ELSE Min({room + p.header + 3, queue})

\* data_to_request. The room that is left is unsigned: what is less than zero is
\* larger than any queue.
Request(room, p, queue) == IF room < 0 THEN queue ELSE Min({room, queue})

\* One channel: its header is counted first, and taken back if its queue is empty;
\* exactly no room leaves the header counted; a request below 128 has a shorter one.
Channel(p, tbs, ta, queue) ==
  LET header == p.header + 3
      room   == tbs - ta - header - p.total
      asked  == Request(room, p, queue)
  IN  IF room = 0 THEN [p EXCEPT !.header = header, !.requests = Append(@, 0)]
      ELSE IF queue = 0 THEN [p EXCEPT !.requests = Append(@, 0)]
      ELSE [header   |-> IF asked < 128 THEN header - 1 ELSE header,
            last     |-> IF asked < 128 THEN 2 ELSE 3,
            total    |-> (p.total + asked) % 65536,
            requests |-> Append(p.requests, asked)]

\* The loop, channel after channel.
Packed(tbs, ta, queues) ==
  LET upTo[j \in 0 .. Len(queues)] ==
        IF j = 0 THEN Empty ELSE Channel(upTo[j - 1], tbs, ta, queues[j])
  IN  upTo[Len(queues)]

\* There is a payload: dl_data has an rlc_pdu.
HasPayload(p) == \E i \in DOMAIN p.requests : p.requests[i] > 0

\* Mutant of Need: the headers are forgotten.
NeedMutNoHeader(p, ta) == p.total + ta

\* What the block has to hold: the last header has one byte only.
Need(p, ta) ==
  LET header == IF p.header = 0 THEN 0 ELSE p.header - (p.last - 1)
  IN  p.total + header + ta

-----------------------------------------------------------------------------
(* The number of RBs and the MCS                                           *)

\* The search for the number of RBs: the first try is not compared with what is
\* available, those after it are.
FirstNb(mcs) == IF mcs = 0 THEN 4 ELSE MinRbUnit
Tries(mcs, avail) ==
  {FirstNb(mcs)} \cup ({ FirstNb(mcs) + k * MinRbUnit : k \in 1 .. avail } \cap 1 .. avail)
NbRb(mcs, avail, need) ==
  LET enough == { n \in Tries(mcs, avail) : Tbs(mcs, n) >= need }
  IN  IF enough = {} THEN avail ELSE Min(enough)

\* Mutant of Lowered: the first loop is missing.
LoweredMutNot(mcs, nb, need) == mcs

\* The MCS goes down until the block is not larger than needed ...
Lowered(mcs, nb, need) == Max({0} \cup { k \in 0 .. mcs : Tbs(k, nb) <= need })

\* Mutant of Raised: the second loop is missing.
RaisedMutNot(mcs, nb, need) == mcs

\* ... and up again until it is large enough.
Raised(mcs, nb, need) ==
  IF mcs >= MaxMcs THEN mcs
  ELSE Min({MaxMcs} \cup { k \in mcs .. MaxMcs : Tbs(k, nb) >= need })

Mcs(mcs, nb, need) == Raised(Lowered(mcs, nb, need), nb, need)
=============================================================================
