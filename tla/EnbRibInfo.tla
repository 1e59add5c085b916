------------------------------ MODULE EnbRibInfo ------------------------------
(***************************************************************************)
(* enb_rib_info: what the RIB keeps of one agent. ue_config_ and          *)
(* lc_config_ are repeated fields of a protobuf message, so sequences      *)
(* that may hold a UE twice; ue_mac_info_ is a map, so its keys. Of a      *)
(* UE's configuration we keep the rnti and one further value.              *)
(***************************************************************************)
EXTENDS Naturals, Sequences, SequencesExt

CONSTANTS Rnti,      \* radio identifiers of UEs
          Conf       \* the rest of a UE's configuration

UeEntry == [rnti : Rnti, conf : Conf]
Info == [ue : Seq(UeEntry), mac : SUBSET Rnti, lc : Seq(Rnti)]

Rntis(ue) == {ue[i].rnti : i \in DOMAIN ue}

\* The constructor.
NewInfo == [ue |-> <<>>, mac |-> {}, lc |-> <<>>]

\* update_UE_config(flex_ue_config_reply): copy the reply, then create the MAC
\* entries that are missing; none is ever removed here.
UpdateUEConfig(info, reply) ==
  [info EXCEPT !.ue = reply, !.mac = @ \cup Rntis(reply)]

\* update_UE_config(flex_ue_state_change), FLUESC_ACTIVATED: append without
\* looking for the rnti; map::insert keeps a MAC entry that is there.
Activate(info, e) ==
  [info EXCEPT !.ue = Append(@, e), !.mac = @ \cup {e.rnti}]

\* The loop over lc_ue_config: DeleteSubrange(j) moves the next entry to j, and
\* j++ then steps over it.
DeleteLc(lc, r) ==
  LET upTo[j \in 0 .. Len(lc)] ==
        IF j = 0 THEN [kept |-> <<>>, stepOver |-> FALSE]
        ELSE IF lc[j] = r /\ ~upTo[j - 1].stepOver THEN [upTo[j - 1] EXCEPT !.stepOver = TRUE]
        ELSE [kept |-> Append(upTo[j - 1].kept, lc[j]), stepOver |-> FALSE]
  IN  upTo[Len(lc)].kept

\* The first entry of an rnti goes.
RemoveFirstOf(ue, r) == RemoveAt(ue, Min({i \in DOMAIN ue : ue[i].rnti = r}))

\* Mutant of Deactivate: the MAC entry is left in the map.
DeactivateMutKeepsMac(info, r) ==
  IF r \notin Rntis(info.ue) THEN info
  ELSE [info EXCEPT !.ue = RemoveFirstOf(info.ue, r),
                    !.lc = DeleteLc(info.lc, r)]

\* FLUESC_DEACTIVATED: the first entry of the rnti goes, with its MAC entry and
\* its logical channels, and the handler returns.
Deactivate(info, r) ==
  IF r \notin Rntis(info.ue) THEN info
  ELSE [ue |-> RemoveFirstOf(info.ue, r),
        mac |-> info.mac \ {r},
        lc |-> DeleteLc(info.lc, r)]

\* FLUESC_UPDATED: every entry of the rnti is overwritten.
UpdateUE(info, e) ==
  [info EXCEPT !.ue = [i \in DOMAIN @ |-> IF @[i].rnti = e.rnti THEN e ELSE @[i]]]

\* update_LC_config: copy the reply.
UpdateLCConfig(info, reply) == [info EXCEPT !.lc = reply]
===============================================================================
