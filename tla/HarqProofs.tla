------------------------------ MODULE HarqProofs ------------------------------
(***************************************************************************)
(* For any number of HARQ processes, sizes of blocks, losses and messages  *)
(* under way: no process is used twice, and what is sent on it is taken as *)
(* what it is. Knows is the strengthening: of a process that is not lost,  *)
(* the context of the controller is what the message under way says or, if *)
(* none is, what the UE has heard.                                         *)
(***************************************************************************)
EXTENDS Harq, SequenceTheorems, TLAPS

\* A trigger's feedback.
Feedback == UNION {[S -> {"ack", "nack"}] : S \in SUBSET Process}

OnceDown(p) == \A i, j \in DOMAIN down : Carries(i, p) /\ Carries(j, p) => i = j
OnceUp(p) == \A i, j \in DOMAIN up : p \in DOMAIN up[i] /\ p \in DOMAIN up[j] => i = j

\* ProcessConserved, of one process.
Conserved(p) ==
  /\ active[p] \/ InDown(p) \/ p \in pending \/ InUp(p) \/ p \in lost
  /\ active[p] => ~InDown(p) /\ p \notin pending /\ ~InUp(p) /\ p \notin lost
  /\ InDown(p) => p \notin pending /\ ~InUp(p) /\ p \notin lost
  /\ p \in pending => ~InUp(p) /\ p \notin lost
  /\ InUp(p) => p \notin lost
  /\ OnceDown(p) /\ OnceUp(p)

\* A message with a block says what the context of its process says.
Says(i, p) ==
  /\ down[i].block = [ndi |-> ndi[p], nb |-> nb[p]] /\ nb[p] > 0
  /\ down[i].kind = "new" => ndi[p] # heard[p].ndi
  /\ down[i].kind = "repeat" => down[i].block = heard[p]

Knows(p) ==
  p \notin lost =>
    /\ \A i \in DOMAIN down : Carries(i, p) => Says(i, p)
    /\ ~InDown(p) => ndi[p] = heard[p].ndi
    /\ ~InDown(p) /\ ~(active[p] /\ ~nack[p]) => nb[p] = heard[p].nb /\ nb[p] > 0

Inv ==
  /\ TypeOK
  /\ ~Strayed => \A p \in Process : Conserved(p) /\ Knows(p)

-----------------------------------------------------------------------------
LEMMA ConfigKinds ==
  ASSUME NEW m \in Config \cup Switch
  PROVE  /\ m.kind \in {"new", "repeat"} <=> m \in Config
         /\ m.kind \in {"central", "local"} <=> m \in Switch
         /\ m \in Config => m.pid \in Process /\ m.block \in Block
  BY DEF Config, Switch

LEMMA InitInv == Init => Inv
<1> SUFFICES ASSUME Init
             PROVE  Inv
  OBVIOUS
<1> USE HarqAssumption DEF HarqAssumption
<1>1. down = <<>> /\ up = <<>> /\ DOMAIN down = {} /\ DOMAIN up = {} /\ Len(down) = 0 /\ Len(up) = 0
  BY DEF Init
<1>2. TypeOK
  <2>1. down \in Seq(Config \cup Switch)
    BY <1>1
  <2>2. up \in Seq(UNION {[S -> {"ack", "nack"}] : S \in SUBSET Process})
    BY <1>1
  <2>3. NoBlock \in [ndi : 0 .. 1, nb : Sizes \cup {0}]
    BY DEF NoBlock
  <2>4. heard \in [Process -> [ndi : 0 .. 1, nb : Sizes \cup {0}]]
    BY <2>3 DEF Init
  <2>5. Len(down) <= Cap /\ Len(up) <= Cap /\ switches \in 0 .. MaxSwitches /\ locals \in 0 .. MaxLocal
    BY <1>1 DEF Init
  <2>6. {fresh, backlog, central, running, remote} \subseteq BOOLEAN
    BY DEF Init
  <2> QED
    BY <2>1, <2>2, <2>4, <2>5, <2>6 DEF Init, TypeOK
<1>3. ASSUME NEW p \in Process
      PROVE  Conserved(p) /\ Knows(p)
  <2>1. ~InDown(p) /\ ~InUp(p)
    BY <1>1 DEF InDown, InUp
  <2> QED
    BY <1>1, <2>1 DEF Init, Conserved, OnceDown, OnceUp, Knows, NoBlock
<1> QED
  BY <1>2, <1>3 DEF Inv

-----------------------------------------------------------------------------
(* Where the messages are                                                  *)

LEMMA DownFacts ==
  ASSUME TypeOK
  PROVE  /\ Len(down) \in Nat /\ DOMAIN down = 1 .. Len(down)
         /\ \A i \in DOMAIN down : down[i] \in Config \cup Switch
  BY LenProperties, ElementOfSeq DEF TypeOK

LEMMA UpFacts ==
  ASSUME TypeOK
  PROVE  /\ Len(up) \in Nat /\ DOMAIN up = 1 .. Len(up)
         /\ \A i \in DOMAIN up : up[i] \in Feedback
  BY LenProperties, ElementOfSeq DEF TypeOK, Feedback

LEMMA DownAppended ==
  ASSUME TypeOK, NEW m \in Config \cup Switch, down' = Append(down, m)
  PROVE  /\ down' \in Seq(Config \cup Switch)
         /\ Len(down') = Len(down) + 1 /\ DOMAIN down' = 1 .. Len(down) + 1
         /\ \A i \in 1 .. Len(down) : down'[i] = down[i]
         /\ down'[Len(down) + 1] = m
<1>1. down \in Seq(Config \cup Switch)
  BY DEF TypeOK
<1>2. /\ down' \in Seq(Config \cup Switch) /\ Len(down') = Len(down) + 1
      /\ \A i \in 1 .. Len(down) : down'[i] = down[i]
      /\ down'[Len(down) + 1] = m
  BY <1>1, AppendProperties
<1>3. DOMAIN down' = 1 .. Len(down')
  BY <1>2, LenProperties
<1> QED
  BY <1>2, <1>3

LEMMA DownTaken ==
  ASSUME TypeOK, down # <<>>, down' = Tail(down)
  PROVE  /\ down' \in Seq(Config \cup Switch)
         /\ Len(down') = Len(down) - 1 /\ DOMAIN down' = 1 .. Len(down) - 1
         /\ 1 \in DOMAIN down /\ Head(down) = down[1] /\ Head(down) \in Config \cup Switch
         /\ \A i \in 1 .. Len(down) - 1 : down'[i] = down[i + 1]
<1>1. down \in Seq(Config \cup Switch)
  BY DEF TypeOK
<1>2. /\ down' \in Seq(Config \cup Switch) /\ Len(down') = Len(down) - 1
      /\ \A i \in 1 .. Len(down') : down'[i] = down[i + 1]
      /\ Head(down) \in Config \cup Switch
  BY <1>1, HeadTailProperties
<1>3. DOMAIN down' = 1 .. Len(down')
  BY <1>2, LenProperties
<1>4. Len(down) \in Nat \ {0}
  BY <1>1, EmptySeq
<1>5. Head(down) = down[1]
  BY <1>1
<1> QED
  BY <1>2, <1>3, <1>4, <1>5, DownFacts

\* A message with a block has been put behind the others.
LEMMA BlockPut ==
  ASSUME TypeOK, NEW m \in Config, down' = Append(down, m), NEW p \in Process
  PROVE  /\ InDown(p)' <=> InDown(p) \/ p = m.pid
         /\ \A i \in DOMAIN down' : Carries(i, p)' =>
              \/ i \in DOMAIN down /\ Carries(i, p) /\ down'[i] = down[i]
              \/ i = Len(down) + 1 /\ p = m.pid /\ down'[i] = m
<1>1. m.kind \in {"new", "repeat"} /\ m \in Config \cup Switch
  BY DEF Config
<1> QED
  BY <1>1, DownAppended, DownFacts DEF InDown, Carries

\* A change of the scheduler has been put behind the others.
LEMMA SwitchPut ==
  ASSUME TypeOK, NEW m \in Switch, down' = Append(down, m), NEW p \in Process
  PROVE  /\ InDown(p)' <=> InDown(p)
         /\ \A i \in DOMAIN down' : Carries(i, p)' =>
              i \in DOMAIN down /\ Carries(i, p) /\ down'[i] = down[i]
<1>1. m.kind \notin {"new", "repeat"} /\ m \in Config \cup Switch
  BY DEF Switch
<1> QED
  BY <1>1, DownAppended, DownFacts DEF InDown, Carries

\* The first message has been taken.
LEMMA FirstTaken ==
  ASSUME TypeOK, down # <<>>, down' = Tail(down), NEW p \in Process
  PROVE  /\ InDown(p) <=> InDown(p)' \/ Carries(1, p)
         /\ \A i \in DOMAIN down' : Carries(i, p)' =>
              i + 1 \in DOMAIN down /\ Carries(i + 1, p) /\ down'[i] = down[i + 1]
<1> USE DownTaken, DownFacts
<1>1. \A i \in DOMAIN down' : i + 1 \in DOMAIN down /\ down'[i] = down[i + 1]
  OBVIOUS
<1>2. \A i \in DOMAIN down : i = 1 \/ (i - 1 \in DOMAIN down' /\ down'[i - 1] = down[i])
  OBVIOUS
<1>3. \A i \in DOMAIN down' : Carries(i, p)' =>
        i + 1 \in DOMAIN down /\ Carries(i + 1, p) /\ down'[i] = down[i + 1]
  BY <1>1 DEF Carries
<1>4. InDown(p)' => InDown(p)
  BY <1>3 DEF InDown
<1>5. Carries(1, p) => InDown(p)
  BY DEF InDown
<1>6. InDown(p) => InDown(p)' \/ Carries(1, p)
  <2> SUFFICES ASSUME NEW i \in DOMAIN down, Carries(i, p), i # 1
               PROVE  InDown(p)'
    BY DEF InDown
  <2>1. i - 1 \in DOMAIN down' /\ down'[i - 1] = down[i]
    BY <1>2
  <2>2. Carries(i - 1, p)'
    BY <2>1 DEF Carries
  <2> QED
    BY <2>1, <2>2 DEF InDown
<1> QED
  BY <1>3, <1>4, <1>5, <1>6

LEMMA FeedbackPut ==
  ASSUME TypeOK, NEW fb \in Feedback, up' = Append(up, fb), NEW p \in Process
  PROVE  /\ up' \in Seq(Feedback) /\ Len(up') = Len(up) + 1
         /\ InUp(p)' <=> InUp(p) \/ p \in DOMAIN fb
         /\ \A i \in DOMAIN up' : p \in DOMAIN up'[i] =>
              \/ i \in DOMAIN up /\ p \in DOMAIN up[i]
              \/ i = Len(up) + 1 /\ p \in DOMAIN fb
<1>1. up \in Seq(Feedback)
  BY DEF TypeOK, Feedback
<1>2. /\ up' \in Seq(Feedback) /\ Len(up') = Len(up) + 1
      /\ \A i \in 1 .. Len(up) : up'[i] = up[i]
      /\ up'[Len(up) + 1] = fb
  BY <1>1, AppendProperties
<1>3. DOMAIN up' = 1 .. Len(up')
  BY <1>2, LenProperties
<1> QED
  BY <1>2, <1>3, UpFacts DEF InUp

LEMMA FeedbackTaken ==
  ASSUME TypeOK, up # <<>>, up' = Tail(up), NEW p \in Process
  PROVE  /\ up' \in Seq(Feedback) /\ Len(up') = Len(up) - 1
         /\ Head(up) = up[1] /\ Head(up) \in Feedback /\ 1 \in DOMAIN up
         /\ InUp(p) <=> InUp(p)' \/ p \in DOMAIN Head(up)
         /\ \A i \in DOMAIN up' : p \in DOMAIN up'[i] => i + 1 \in DOMAIN up /\ p \in DOMAIN up[i + 1]
<1>1. up \in Seq(Feedback)
  BY DEF TypeOK, Feedback
<1>2. /\ up' \in Seq(Feedback) /\ Len(up') = Len(up) - 1
      /\ \A i \in 1 .. Len(up') : up'[i] = up[i + 1]
      /\ Head(up) \in Feedback
  BY <1>1, HeadTailProperties
<1>3. DOMAIN up' = 1 .. Len(up')
  BY <1>2, LenProperties
<1>4. Len(up) \in Nat \ {0}
  BY <1>1, EmptySeq
<1>5. Head(up) = up[1]
  BY <1>1
<1>6. 1 \in DOMAIN up
  BY <1>4, UpFacts
<1>7. \A i \in DOMAIN up' : i + 1 \in DOMAIN up /\ up'[i] = up[i + 1]
  BY <1>2, <1>3, <1>4, UpFacts
<1>8. \A i \in DOMAIN up : i = 1 \/ (i - 1 \in DOMAIN up' /\ up'[i - 1] = up[i])
  BY <1>2, <1>3, <1>4, UpFacts
<1> QED
  BY <1>2, <1>5, <1>6, <1>7, <1>8 DEF InUp

-----------------------------------------------------------------------------
(* Types                                                                   *)

LEMMA SendTypes ==
  ASSUME TypeOK, NEW m \in Config, Send(m)
  PROVE  down' \in Seq(Config \cup Switch) /\ Len(down') <= Cap /\ lost' \subseteq Process
<1>1. m.pid \in Process /\ m \in Config \cup Switch
  BY DEF Config
<1>2. CASE Len(down) < Cap /\ down' = Append(down, m) /\ UNCHANGED lost
  BY <1>1, <1>2, DownAppended, DownFacts, HarqAssumption DEF TypeOK, HarqAssumption
<1>3. CASE lost' = lost \cup {m.pid} /\ UNCHANGED down
  BY <1>1, <1>3 DEF TypeOK
<1> QED
  BY <1>2, <1>3 DEF Send

\* The blocks that the scheduler sends.
LEMMA NewBlockTypes ==
  ASSUME TypeOK, NEW p \in Process, NEW n \in Sizes
  PROVE  /\ 1 - ndi[p] \in 0 .. 1
         /\ [kind |-> "new", pid |-> p, block |-> [ndi |-> 1 - ndi[p], nb |-> n]] \in Config
<1>1. ndi[p] \in 0 .. 1 /\ 1 - ndi[p] \in 0 .. 1
  BY DEF TypeOK
<1> QED
  BY <1>1 DEF Config, Block

LEMMA RepeatBlockTypes ==
  ASSUME TypeOK, NEW p \in Process, nb[p] > 0
  PROVE  [kind |-> "repeat", pid |-> p, block |-> [ndi |-> ndi[p], nb |-> nb[p]]] \in Config
<1>1. ndi[p] \in 0 .. 1 /\ nb[p] \in Sizes
  BY HarqAssumption DEF TypeOK, HarqAssumption
<1> QED
  BY <1>1 DEF Config, Block

LEMMA TypeStep == TypeOK /\ [Next]_vars => TypeOK'
<1> SUFFICES ASSUME TypeOK, [Next]_vars
             PROVE  TypeOK'
  OBVIOUS
<1> USE DEF ribVars, contextVars, agentVars, schedulerVars
<1>1. ASSUME NEW p \in Process, NEW n \in Sizes, ScheduleNew(p, n)
      PROVE  TypeOK'
  <2>1. down' \in Seq(Config \cup Switch) /\ Len(down') <= Cap /\ lost' \subseteq Process
    BY <1>1, SendTypes, NewBlockTypes DEF ScheduleNew
  <2>2. 1 - ndi[p] \in 0 .. 1
    BY NewBlockTypes
  <2> QED
    BY <1>1, <2>1, <2>2 DEF ScheduleNew, EndRun, Taken, TypeOK
<1>2. ASSUME NEW p \in Process, ScheduleRepeat(p)
      PROVE  TypeOK'
  <2>1. down' \in Seq(Config \cup Switch) /\ Len(down') <= Cap /\ lost' \subseteq Process
    BY <1>2, SendTypes, RepeatBlockTypes DEF ScheduleRepeat
  <2> QED
    BY <1>2, <2>1 DEF ScheduleRepeat, EndRun, Taken, TypeOK
<1>3. ASSUME NEW p \in Process, NEW n \in Sizes, TransmitLocally(p, n)
      PROVE  TypeOK'
  <2>1. heard[p].ndi \in 0 .. 1 /\ 1 - heard[p].ndi \in 0 .. 1
    BY DEF TypeOK
  <2>2. [ndi |-> 1 - heard[p].ndi, nb |-> n] \in [ndi : 0 .. 1, nb : Sizes \cup {0}]
    BY <2>1
  <2>3. heard' \in [Process -> [ndi : 0 .. 1, nb : Sizes \cup {0}]]
    BY <1>3, <2>2 DEF TransmitLocally, TypeOK
  <2>4. locals' \in 0 .. MaxLocal
    BY <1>3, HarqAssumption DEF TransmitLocally, TypeOK, HarqAssumption
  <2>5. pending' \subseteq Process
    BY <1>3 DEF TransmitLocally, TypeOK
  <2> QED
    BY <1>3, <2>3, <2>4, <2>5 DEF TransmitLocally, TypeOK
<1>4. CASE BeginRun
  BY <1>4 DEF BeginRun, TypeOK
<1>5. CASE SchedulePass
  BY <1>5 DEF SchedulePass, EndRun, TypeOK
<1>6. CASE HandleTrigger
  <2>1. up' \in Seq(Feedback) /\ Len(up') <= Cap
    <3>1. PICK p : p \in Process
      BY HarqAssumption DEF HarqAssumption, Process
    <3>2. up' \in Seq(Feedback) /\ Len(up') = Len(up) - 1
      BY <1>6, <3>1, FeedbackTaken DEF HandleTrigger
    <3> QED
      BY <3>2, UpFacts, HarqAssumption DEF TypeOK, HarqAssumption
  <2>2. active' \in [Process -> BOOLEAN] /\ nack' \in [Process -> BOOLEAN]
    BY <1>6 DEF HandleTrigger, Updated, TypeOK
  <2> QED
    BY <1>6, <2>1, <2>2 DEF HandleTrigger, TypeOK, Feedback
<1>7. CASE DropTrigger
  <2>1. up' \in Seq(Feedback) /\ Len(up') <= Cap /\ Head(up) \in Feedback
    <3>1. PICK p : p \in Process
      BY HarqAssumption DEF HarqAssumption, Process
    <3>2. up' \in Seq(Feedback) /\ Len(up') = Len(up) - 1 /\ Head(up) \in Feedback
      BY <1>7, <3>1, FeedbackTaken DEF DropTrigger
    <3> QED
      BY <3>2, UpFacts, HarqAssumption DEF TypeOK, HarqAssumption
  <2>2. lost' \subseteq Process
    BY <1>7, <2>1 DEF DropTrigger, TypeOK, Feedback
  <2> QED
    BY <1>7, <2>1, <2>2 DEF DropTrigger, TypeOK, Feedback
<1>8. CASE ReportQueues
  BY <1>8 DEF ReportQueues, TypeOK
<1>9. CASE ChangeScheduler
  <2> DEFINE m == [kind |-> IF central THEN "local" ELSE "central"]
  <2>1. m \in Switch
    BY DEF Switch
  <2>2. down' \in Seq(Config \cup Switch) /\ Len(down') = Len(down) + 1
    BY <1>9, <2>1, DownAppended DEF ChangeScheduler
  <2>3. Len(down') <= Cap
    BY <1>9, <2>2, DownFacts, HarqAssumption DEF ChangeScheduler, HarqAssumption
  <2>4. switches' \in 0 .. MaxSwitches
    BY <1>9, HarqAssumption DEF ChangeScheduler, TypeOK, HarqAssumption
  <2> QED
    BY <1>9, <2>2, <2>3, <2>4 DEF ChangeScheduler, TypeOK
<1>10. CASE TakeConfig
  <2> DEFINE m == Head(down)
  <2>1. /\ down' \in Seq(Config \cup Switch) /\ Len(down') = Len(down) - 1
        /\ m \in Config \cup Switch
    BY <1>10, DownTaken DEF TakeConfig
  <2>2. Len(down') <= Cap
    BY <2>1, DownFacts, HarqAssumption DEF TypeOK, HarqAssumption
  <2>3. CASE m.kind \in {"central", "local"}
    BY <1>10, <2>1, <2>2, <2>3 DEF TakeConfig, TypeOK
  <2>4. CASE m.kind \notin {"central", "local"}
    <3>1. m.pid \in Process /\ m.block \in [ndi : 0 .. 1, nb : Sizes \cup {0}]
      BY <2>1, <2>4, ConfigKinds DEF Block
    <3>2. CASE remote
      <4>1. heard' = [heard EXCEPT ![m.pid] = m.block] /\ pending' = pending \cup {m.pid}
            /\ UNCHANGED <<remote, lost>>
        BY <1>10, <2>4, <3>2 DEF TakeConfig
      <4>2. heard' \in [Process -> [ndi : 0 .. 1, nb : Sizes \cup {0}]]
        BY <3>1, <4>1 DEF TypeOK
      <4> QED
        BY <1>10, <2>1, <2>2, <3>1, <4>1, <4>2 DEF TakeConfig, TypeOK
    <3>3. CASE ~remote
      <4>1. lost' = lost \cup {m.pid} /\ UNCHANGED agentVars
        BY <1>10, <2>4, <3>3 DEF TakeConfig
      <4> QED
        BY <1>10, <2>1, <2>2, <3>1, <4>1 DEF TakeConfig, TypeOK
    <3> QED
      BY <3>2, <3>3
  <2> QED
    BY <2>3, <2>4
<1>11. CASE Subframe
  <2>1. PICK S \in SUBSET pending : \E fb \in [S -> {"ack", "nack"}] :
          up' = Append(up, fb) /\ pending' = pending \ S
    BY <1>11 DEF Subframe
  <2>2. PICK fb \in [S -> {"ack", "nack"}] : up' = Append(up, fb) /\ pending' = pending \ S
    BY <2>1
  <2>3. fb \in Feedback
    BY DEF Feedback, TypeOK
  <2>4. up' \in Seq(Feedback) /\ Len(up') = Len(up) + 1
    <3>1. PICK p : p \in Process
      BY HarqAssumption DEF HarqAssumption, Process
    <3> QED
      BY <2>2, <2>3, <3>1, FeedbackPut
  <2>5. Len(up') <= Cap
    BY <1>11, <2>4, UpFacts, HarqAssumption DEF Subframe, HarqAssumption
  <2> QED
    BY <1>11, <2>2, <2>4, <2>5 DEF Subframe, TypeOK, Feedback
<1>12. CASE UNCHANGED vars
  BY <1>12 DEF vars, TypeOK
<1> QED
  BY <1>1, <1>2, <1>3, <1>4, <1>5, <1>6, <1>7, <1>8, <1>9, <1>10, <1>11, <1>12 DEF Next

-----------------------------------------------------------------------------
(* One process: what a step does to it                                     *)

\* Where nothing of process q is touched, nothing changes.
LEMMA Untouched ==
  ASSUME NEW q \in Process, Conserved(q), Knows(q),
         UNCHANGED <<active[q], nack[q], ndi[q], nb[q], heard[q], q \in pending, q \in lost>>,
         InDown(q)' <=> InDown(q), InUp(q)' <=> InUp(q), OnceDown(q)', OnceUp(q)',
         \A i \in DOMAIN down' : Carries(i, q)' =>
            \E j \in DOMAIN down : Carries(j, q) /\ down'[i] = down[j]
  PROVE  Conserved(q)' /\ Knows(q)'
<1>1. Conserved(q)'
  BY DEF Conserved
<1>2. ASSUME q \notin lost', NEW i \in DOMAIN down', Carries(i, q)'
      PROVE  Says(i, q)'
  <2>1. PICK j \in DOMAIN down : Carries(j, q) /\ down'[i] = down[j]
    BY <1>2
  <2>2. Says(j, q)
    BY <1>2, <2>1 DEF Knows
  <2> QED
    BY <2>1, <2>2 DEF Says
<1>3. Knows(q)'
  BY <1>2 DEF Knows
<1> QED
  BY <1>1, <1>3

\* A block is sent on an available process, and is under way or lost.
LEMMA BlockSent ==
  ASSUME TypeOK, NEW m \in Config, Send(m), active[m.pid], active' = Taken(m.pid),
         NEW q \in Process, Conserved(q), Knows(q),
         UNCHANGED <<nack, heard, pending, up>>,
         q # m.pid => UNCHANGED <<ndi[q], nb[q]>>,
         m.block = [ndi |-> ndi'[m.pid], nb |-> nb'[m.pid]] /\ nb'[m.pid] > 0,
         m.kind = "new" => ndi'[m.pid] # heard[m.pid].ndi,
         m.kind = "repeat" => m.block = heard[m.pid]
  PROVE  Conserved(q)' /\ Knows(q)'
<1> DEFINE p == m.pid
<1>1. InUp(q)' <=> InUp(q)
  BY DEF InUp
<1>2. OnceUp(q)' <=> OnceUp(q)
  BY DEF OnceUp
<1>3. active' = [active EXCEPT ![p] = FALSE] /\ p \in Process /\ active \in [Process -> BOOLEAN]
  BY DEF Taken, TypeOK, Config
<1>4. CASE down' = Append(down, m) /\ UNCHANGED lost
  <2>1. /\ InDown(q)' <=> InDown(q) \/ q = p
        /\ \A i \in DOMAIN down' : Carries(i, q)' =>
             \/ i \in DOMAIN down /\ Carries(i, q) /\ down'[i] = down[i]
             \/ i = Len(down) + 1 /\ q = p /\ down'[i] = m
    BY <1>4, BlockPut
  <2>2. CASE q # p
    <3>1. OnceDown(q)'
      BY <2>1, <2>2 DEF OnceDown, Conserved
    <3> QED
      BY <1>1, <1>2, <1>3, <1>4, <2>1, <2>2, <3>1, Untouched DEF Conserved
  <2>3. CASE q = p
    <3>1. ~InDown(q) /\ q \notin pending /\ ~InUp(q) /\ q \notin lost
      BY <2>3 DEF Conserved
    <3>2. \A i \in DOMAIN down : ~Carries(i, q)
      BY <3>1 DEF InDown
    <3>3. OnceDown(q)'
      BY <2>1, <3>2 DEF OnceDown
    <3>4. Conserved(q)'
      BY <1>1, <1>2, <1>3, <1>4, <2>1, <2>3, <3>1, <3>3 DEF Conserved
    <3>5. \A i \in DOMAIN down' : Carries(i, q)' => Says(i, q)'
      BY <2>1, <2>3, <3>2 DEF Says
    <3> QED
      BY <2>1, <2>3, <3>4, <3>5 DEF Knows
  <2> QED
    BY <2>2, <2>3
<1>5. CASE lost' = lost \cup {p} /\ UNCHANGED down
  <2>1. InDown(q)' <=> InDown(q)
    BY <1>5 DEF InDown, Carries
  <2>2. OnceDown(q)' <=> OnceDown(q)
    BY <1>5 DEF OnceDown, Carries
  <2>3. \A i \in DOMAIN down' : Carries(i, q)' => i \in DOMAIN down /\ Carries(i, q) /\ down'[i] = down[i]
    BY <1>5 DEF Carries
  <2>4. CASE q # p
    <3>1. UNCHANGED <<active[q], nack[q], ndi[q], nb[q], heard[q], q \in pending, q \in lost>>
      BY <1>3, <1>5, <2>4
    <3>2. \A i \in DOMAIN down' : Carries(i, q)' =>
            \E j \in DOMAIN down : Carries(j, q) /\ down'[i] = down[j]
      BY <2>3
    <3>3. OnceDown(q)' /\ OnceUp(q)'
      BY <1>2, <2>2 DEF Conserved
    <3> QED
      BY <1>1, <2>1, <3>1, <3>2, <3>3, Untouched
  <2>5. CASE q = p
    BY <1>1, <1>2, <1>3, <1>5, <2>1, <2>2, <2>5 DEF Conserved, Knows
  <2> QED
    BY <2>4, <2>5
<1> QED
  BY <1>4, <1>5 DEF Send

\* The messages to the agent stay as they are.
LEMMA SameDown ==
  ASSUME UNCHANGED down, NEW q \in Process
  PROVE  /\ InDown(q)' <=> InDown(q)
         /\ OnceDown(q)' <=> OnceDown(q)
         /\ \A i \in DOMAIN down' : Carries(i, q)' => i \in DOMAIN down /\ Carries(i, q) /\ down'[i] = down[i]
         /\ \A i \in DOMAIN down' : Carries(i, q)' =>
              \E j \in DOMAIN down : Carries(j, q) /\ down'[i] = down[j]
  BY DEF InDown, OnceDown, Carries

LEMMA SameUp ==
  ASSUME UNCHANGED up, NEW q \in Process
  PROVE  /\ InUp(q)' <=> InUp(q)
         /\ OnceUp(q)' <=> OnceUp(q)
  BY DEF InUp, OnceUp

\* The updater or the lack of a budget takes the first trigger.
LEMMA TriggerTaken ==
  ASSUME TypeOK, up # <<>>, up' = Tail(up), UNCHANGED <<down, ndi, nb, heard, pending>>,
         NEW q \in Process, Conserved(q), Knows(q),
         q \notin DOMAIN Head(up) => UNCHANGED <<active[q], nack[q], q \in lost>>,
         q \in DOMAIN Head(up) =>
            \/ active'[q] /\ UNCHANGED (q \in lost)
            \/ UNCHANGED <<active[q], nack[q]>> /\ q \in lost'
  PROVE  Conserved(q)' /\ Knows(q)'
<1>1. /\ InUp(q) <=> InUp(q)' \/ q \in DOMAIN Head(up)
      /\ Head(up) = up[1] /\ 1 \in DOMAIN up
      /\ \A i \in DOMAIN up' : q \in DOMAIN up'[i] => i + 1 \in DOMAIN up /\ q \in DOMAIN up[i + 1]
  BY FeedbackTaken
<1>2. DOMAIN up' \subseteq Nat \ {0}
  <2>1. up' \in Seq(Feedback)
    BY FeedbackTaken
  <2> QED
    BY <2>1, LenProperties
<1>3. OnceUp(q)'
  BY <1>1, <1>2 DEF OnceUp, Conserved
<1>4. q \in DOMAIN Head(up) => ~InUp(q)'
  BY <1>1, <1>2 DEF OnceUp, Conserved, InUp
<1>5. CASE q \notin DOMAIN Head(up)
  <2>1. UNCHANGED <<active[q], nack[q], ndi[q], nb[q], heard[q], q \in pending, q \in lost>>
    BY <1>5
  <2> QED
    BY <1>1, <1>3, <1>5, <2>1, SameDown, Untouched DEF Conserved
<1>6. CASE q \in DOMAIN Head(up)
  <2>1. InUp(q) /\ ~active[q] /\ ~InDown(q) /\ q \notin pending /\ q \notin lost
    BY <1>1, <1>6 DEF Conserved
  <2>2. Conserved(q)'
    BY <1>3, <1>4, <1>6, <2>1, SameDown DEF Conserved
  <2>3. ndi[q] = heard[q].ndi /\ nb[q] = heard[q].nb /\ nb[q] > 0
    BY <2>1 DEF Knows
  <2>4. ~InDown(q)' /\ \A i \in DOMAIN down' : ~Carries(i, q)'
    BY <2>1, SameDown DEF InDown
  <2>5. Knows(q)'
    BY <2>3, <2>4 DEF Knows
  <2> QED
    BY <2>2, <2>5
<1> QED
  BY <1>5, <1>6

\* The agent takes a message: a block is transmitted, or lost.
LEMMA ConfigTaken ==
  ASSUME TypeOK, TakeConfig, NEW q \in Process, Conserved(q), Knows(q)
  PROVE  Conserved(q)' /\ Knows(q)'
<1> DEFINE m == Head(down)
<1>1. /\ down # <<>> /\ down' = Tail(down)
      /\ UNCHANGED <<active, nack, ndi, nb, up>>
  BY DEF TakeConfig, ribVars, contextVars
<1>2. m = down[1] /\ 1 \in DOMAIN down /\ m \in Config \cup Switch
  BY <1>1, DownTaken
<1>3. /\ InDown(q) <=> InDown(q)' \/ Carries(1, q)
      /\ \A i \in DOMAIN down' : Carries(i, q)' =>
           i + 1 \in DOMAIN down /\ Carries(i + 1, q) /\ down'[i] = down[i + 1]
  BY <1>1, FirstTaken
<1>4. DOMAIN down' \subseteq Nat \ {0}
  BY <1>1, DownTaken
<1>5. OnceDown(q)'
  BY <1>3, <1>4 DEF OnceDown, Conserved
<1>6. Carries(1, q) => ~InDown(q)'
  BY <1>2, <1>3, <1>4 DEF OnceDown, Conserved, InDown
<1>7. CASE ~Carries(1, q)
  <2>1. UNCHANGED <<heard[q], q \in pending, q \in lost>>
    <3>1. CASE m.kind \in {"central", "local"}
      BY <3>1 DEF TakeConfig
    <3>2. CASE m.kind \notin {"central", "local"}
      <4>1. m.pid # q /\ m.pid \in Process
        BY <1>2, <1>7, <3>2, ConfigKinds DEF Carries
      <4>2. \/ heard' = [heard EXCEPT ![m.pid] = m.block] /\ pending' = pending \cup {m.pid} /\ UNCHANGED lost
            \/ lost' = lost \cup {m.pid} /\ UNCHANGED <<heard, pending>>
        BY <3>2 DEF TakeConfig, agentVars
      <4> QED
        BY <4>1, <4>2 DEF TypeOK
    <3> QED
      BY <3>1, <3>2
  <2>2. \A i \in DOMAIN down' : Carries(i, q)' =>
          \E j \in DOMAIN down : Carries(j, q) /\ down'[i] = down[j]
    BY <1>3
  <2> QED
    BY <1>1, <1>3, <1>5, <1>7, <2>1, <2>2, SameUp, Untouched DEF Conserved
<1>8. CASE Carries(1, q)
  <2>1. m.pid = q /\ m.kind \in {"new", "repeat"} /\ m.kind \notin {"central", "local"}
    BY <1>2, <1>8 DEF Carries
  <2>2. InDown(q) /\ ~active[q] /\ q \notin pending /\ ~InUp(q) /\ q \notin lost
    BY <1>2, <1>8 DEF InDown, Conserved
  <2>3. m.block = [ndi |-> ndi[q], nb |-> nb[q]] /\ nb[q] > 0
    BY <1>2, <1>8, <2>2 DEF Knows, Says
  <2>4. ~InDown(q)' /\ \A i \in DOMAIN down' : ~Carries(i, q)'
    BY <1>6, <1>8 DEF InDown
  <2>5. CASE remote
    <3>1. heard' = [heard EXCEPT ![q] = m.block] /\ pending' = pending \cup {q} /\ UNCHANGED lost
      BY <2>1, <2>5 DEF TakeConfig
    <3>2. heard'[q] = m.block
      BY <3>1 DEF TypeOK
    <3>3. Conserved(q)'
      BY <1>1, <1>5, <2>2, <2>4, <3>1, SameUp DEF Conserved
    <3>4. Knows(q)'
      BY <1>1, <2>2, <2>3, <2>4, <3>2 DEF Knows
    <3> QED
      BY <3>3, <3>4
  <2>6. CASE ~remote
    <3>1. lost' = lost \cup {q} /\ UNCHANGED <<heard, pending>>
      BY <2>1, <2>6 DEF TakeConfig, agentVars
    <3> QED
      BY <1>1, <1>5, <2>2, <2>4, <3>1, SameUp DEF Conserved, Knows
  <2> QED
    BY <2>5, <2>6
<1> QED
  BY <1>7, <1>8

\* The agent answers some transmissions.
LEMMA Answered ==
  ASSUME TypeOK, Subframe, NEW q \in Process, Conserved(q), Knows(q)
  PROVE  Conserved(q)' /\ Knows(q)'
<1>1. UNCHANGED <<active, nack, ndi, nb, heard, down, lost>>
  BY DEF Subframe, ribVars, contextVars
<1>2. PICK S \in SUBSET pending : \E fb \in [S -> {"ack", "nack"}] :
        up' = Append(up, fb) /\ pending' = pending \ S
  BY DEF Subframe
<1>3. PICK fb \in [S -> {"ack", "nack"}] : up' = Append(up, fb) /\ pending' = pending \ S
  BY <1>2
<1>4. fb \in Feedback /\ DOMAIN fb = S
  BY DEF Feedback, TypeOK
<1>5. /\ InUp(q)' <=> InUp(q) \/ q \in S
      /\ \A i \in DOMAIN up' : q \in DOMAIN up'[i] =>
           \/ i \in DOMAIN up /\ q \in DOMAIN up[i]
           \/ i = Len(up) + 1 /\ q \in S
  BY <1>3, <1>4, FeedbackPut
<1>6. q \in S => q \in pending /\ ~InUp(q)
  BY DEF Conserved
<1>7. OnceUp(q)'
  BY <1>5, <1>6 DEF OnceUp, InUp, Conserved
<1>8. Conserved(q)'
  BY <1>1, <1>3, <1>5, <1>6, <1>7, SameDown DEF Conserved
<1>9. \A i \in DOMAIN down' : Carries(i, q)' => i \in DOMAIN down /\ Carries(i, q)
  BY <1>1, SameDown
<1>10. Knows(q)'
  BY <1>1, <1>9, SameDown DEF Knows, Says
<1> QED
  BY <1>8, <1>10

-----------------------------------------------------------------------------
(* The invariant                                                           *)

\* A step that sends and takes nothing, and changes nothing of process q that counts.
LEMMA Quiet ==
  ASSUME UNCHANGED <<active, nack, contextVars, heard, pending, down, up, lost>>,
         NEW q \in Process, Conserved(q), Knows(q)
  PROVE  Conserved(q)' /\ Knows(q)'
<1>1. UNCHANGED <<active[q], nack[q], ndi[q], nb[q], heard[q], q \in pending, q \in lost>>
  BY DEF contextVars
<1>2. /\ InDown(q)' <=> InDown(q)
      /\ OnceDown(q)'
      /\ \A i \in DOMAIN down' : Carries(i, q)' =>
           \E j \in DOMAIN down : Carries(j, q) /\ down'[i] = down[j]
  BY SameDown DEF Conserved
<1>3. (InUp(q)' <=> InUp(q)) /\ OnceUp(q)'
  BY SameUp DEF Conserved
<1> QED
  BY <1>1, <1>2, <1>3, Untouched

LEMMA StepInv == Inv /\ [Next]_vars => Inv'
<1> SUFFICES ASSUME Inv, [Next]_vars
             PROVE  Inv'
  OBVIOUS
<1>1. TypeOK /\ TypeOK'
  BY TypeStep DEF Inv
<1>2. ~Strayed' => ~Strayed
  <2>1. locals' = locals \/ \E p \in Process, n \in Sizes : TransmitLocally(p, n)
    BY DEF Next, vars, ScheduleNew, ScheduleRepeat, BeginRun, SchedulePass, HandleTrigger,
         DropTrigger, ReportQueues, ChangeScheduler, TakeConfig, Subframe
  <2>2. locals \in Nat /\ (locals' = locals \/ locals' = locals + 1)
    BY <1>1, <2>1 DEF TypeOK, TransmitLocally
  <2> QED
    BY <2>2 DEF Strayed
<1>3. SUFFICES ASSUME ~Strayed', NEW q \in Process
               PROVE  Conserved(q)' /\ Knows(q)'
  BY <1>1 DEF Inv
<1>4. Conserved(q) /\ Knows(q)
  BY <1>2, <1>3 DEF Inv
<1>5. CASE \E p \in Process, n \in Sizes : ScheduleNew(p, n)
  <2>1. PICK p \in Process, n \in Sizes : ScheduleNew(p, n)
    BY <1>5
  <2> DEFINE m == [kind |-> "new", pid |-> p, block |-> [ndi |-> 1 - ndi[p], nb |-> n]]
  <2>2. m \in Config /\ Send(m) /\ active[p] /\ active' = Taken(p)
    BY <1>1, <2>1, NewBlockTypes DEF ScheduleNew, IsNext
  <2>3. UNCHANGED <<nack, heard, pending, up>>
    BY <2>1 DEF ScheduleNew, agentVars
  <2>4. ndi' = [ndi EXCEPT ![p] = 1 - ndi[p]] /\ nb' = [nb EXCEPT ![p] = n]
    BY <2>1 DEF ScheduleNew
  <2>5. q # p => UNCHANGED <<ndi[q], nb[q]>>
    BY <1>1, <2>4 DEF TypeOK
  <2>6. m.block = [ndi |-> ndi'[p], nb |-> nb'[p]] /\ nb'[p] > 0
    BY <1>1, <2>4, HarqAssumption DEF TypeOK, HarqAssumption
  <2>7. ndi'[p] # heard[p].ndi
    <3>1. Conserved(p) /\ Knows(p)
      BY <1>2, <1>3 DEF Inv
    <3>2. ndi[p] = heard[p].ndi /\ ndi[p] \in 0 .. 1
      BY <1>1, <2>2, <3>1 DEF Conserved, Knows, TypeOK
    <3> QED
      BY <1>1, <2>4, <3>2 DEF TypeOK
  <2> QED
    BY <1>1, <1>4, <2>2, <2>3, <2>5, <2>6, <2>7, BlockSent
<1>6. CASE \E p \in Process : ScheduleRepeat(p)
  <2>1. PICK p \in Process : ScheduleRepeat(p)
    BY <1>6
  <2> DEFINE m == [kind |-> "repeat", pid |-> p, block |-> [ndi |-> ndi[p], nb |-> nb[p]]]
  <2>2. m \in Config /\ Send(m) /\ active[p] /\ nack[p] /\ nb[p] > 0 /\ active' = Taken(p)
    BY <1>1, <2>1, RepeatBlockTypes DEF ScheduleRepeat, IsNext
  <2>3. UNCHANGED <<nack, heard, pending, up, ndi, nb>>
    BY <2>1 DEF ScheduleRepeat, agentVars, contextVars
  <2>4. m.block = heard[p]
    <3>1. Conserved(p) /\ Knows(p)
      BY <1>2, <1>3 DEF Inv
    <3>2. ndi[p] = heard[p].ndi /\ nb[p] = heard[p].nb
      BY <2>2, <3>1 DEF Conserved, Knows
    <3>3. heard[p] \in [ndi : 0 .. 1, nb : Sizes \cup {0}]
      BY <1>1 DEF TypeOK
    <3> QED
      BY <3>2, <3>3
  <2> QED
    BY <1>1, <1>4, <2>2, <2>3, <2>4, BlockSent
<1>7. CASE \E p \in Process, n \in Sizes : TransmitLocally(p, n)
  BY <1>1, <1>3, <1>7 DEF TransmitLocally, Strayed, TypeOK
<1>8. CASE BeginRun
  BY <1>4, <1>8, Quiet DEF BeginRun, ribVars, agentVars
<1>9. CASE SchedulePass
  <2>1. UNCHANGED <<active, nack, ndi, heard, pending, down, up, lost>>
    BY <1>9 DEF SchedulePass, EndRun, agentVars
  <2>2. nb'[q] = IF IsNext(q) /\ ~nack[q] THEN 0 ELSE nb[q]
    BY <1>9 DEF SchedulePass
  <2>3. CASE IsNext(q) /\ ~nack[q]
    <3>1. active[q] /\ ~InDown(q) /\ ~nack[q]
      BY <1>4, <2>3 DEF IsNext, Conserved
    <3>2. InDown(q)' <=> InDown(q)
      BY <2>1, SameDown
    <3>3. OnceDown(q)' <=> OnceDown(q)
      BY <2>1, SameDown
    <3>4. (InUp(q)' <=> InUp(q)) /\ (OnceUp(q)' <=> OnceUp(q))
      BY <2>1, SameUp
    <3>5. Conserved(q)'
      BY <1>4, <2>1, <3>2, <3>3, <3>4 DEF Conserved
    <3>6. \A i \in DOMAIN down' : ~Carries(i, q)'
      BY <3>1, <3>2 DEF InDown
    <3>7. Knows(q)'
      BY <1>4, <2>1, <3>1, <3>6 DEF Knows
    <3> QED
      BY <3>5, <3>7
  <2>4. CASE ~(IsNext(q) /\ ~nack[q])
    <3>1. UNCHANGED <<active[q], nack[q], ndi[q], nb[q], heard[q], q \in pending, q \in lost>>
      BY <2>1, <2>2, <2>4
    <3>2. /\ InDown(q)' <=> InDown(q)
          /\ OnceDown(q)'
          /\ \A i \in DOMAIN down' : Carries(i, q)' =>
               \E j \in DOMAIN down : Carries(j, q) /\ down'[i] = down[j]
      BY <1>4, <2>1, SameDown DEF Conserved
    <3>3. (InUp(q)' <=> InUp(q)) /\ OnceUp(q)'
      BY <1>4, <2>1, SameUp DEF Conserved
    <3> QED
      BY <1>4, <3>1, <3>2, <3>3, Untouched
  <2> QED
    BY <2>3, <2>4
<1>10. CASE HandleTrigger
  <2>1. up # <<>> /\ up' = Tail(up) /\ UNCHANGED <<down, ndi, nb, heard, pending, lost>>
    BY <1>10 DEF HandleTrigger, contextVars, agentVars
  <2>2. /\ active'[q] <=> q \in DOMAIN Head(up) \/ active[q]
        /\ q \notin DOMAIN Head(up) => nack'[q] = nack[q]
    BY <1>10 DEF HandleTrigger, Updated
  <2>3. active[q] \in BOOLEAN /\ active'[q] \in BOOLEAN
    BY <1>1 DEF TypeOK
  <2>4. q \notin DOMAIN Head(up) => UNCHANGED <<active[q], nack[q], q \in lost>>
    BY <2>1, <2>2, <2>3
  <2>5. q \in DOMAIN Head(up) => active'[q] /\ UNCHANGED (q \in lost)
    BY <2>1, <2>2
  <2> QED
    BY <1>1, <1>4, <2>1, <2>4, <2>5, TriggerTaken
<1>11. CASE DropTrigger
  <2>1. up # <<>> /\ up' = Tail(up) /\ UNCHANGED <<active, nack, down, ndi, nb, heard, pending>>
    BY <1>11 DEF DropTrigger, ribVars, contextVars, agentVars
  <2>2. lost' = lost \cup DOMAIN Head(up)
    BY <1>11 DEF DropTrigger
  <2> QED
    BY <1>1, <1>4, <2>1, <2>2, TriggerTaken
<1>12. CASE ReportQueues
  BY <1>4, <1>12, Quiet DEF ReportQueues, ribVars, agentVars
<1>13. CASE ChangeScheduler
  <2> DEFINE m == [kind |-> IF central THEN "local" ELSE "central"]
  <2>1. m \in Switch /\ down' = Append(down, m)
    BY <1>13 DEF ChangeScheduler, Switch
  <2>2. UNCHANGED <<active, nack, ndi, nb, heard, pending, up, lost>>
    BY <1>13 DEF ChangeScheduler, ribVars, contextVars, agentVars
  <2>3. UNCHANGED <<active[q], nack[q], ndi[q], nb[q], heard[q], q \in pending, q \in lost>>
    BY <2>2
  <2>4. /\ InDown(q)' <=> InDown(q)
        /\ \A i \in DOMAIN down' : Carries(i, q)' =>
             i \in DOMAIN down /\ Carries(i, q) /\ down'[i] = down[i]
    BY <1>1, <2>1, SwitchPut
  <2>5. OnceDown(q)'
    BY <1>4, <2>4 DEF OnceDown, Conserved
  <2>6. (InUp(q)' <=> InUp(q)) /\ OnceUp(q)'
    BY <1>4, <2>2, SameUp DEF Conserved
  <2> QED
    BY <1>4, <2>3, <2>4, <2>5, <2>6, Untouched
<1>14. CASE TakeConfig
  BY <1>1, <1>4, <1>14, ConfigTaken
<1>15. CASE Subframe
  BY <1>1, <1>4, <1>15, Answered
<1>16. CASE UNCHANGED vars
  BY <1>4, <1>16, Quiet DEF vars, ribVars, agentVars
<1> QED
  BY <1>5, <1>6, <1>7, <1>8, <1>9, <1>10, <1>11, <1>12, <1>13, <1>14, <1>15, <1>16 DEF Next

LEMMA InvAlways == Spec => []Inv
  BY InitInv, StepInv, PTL DEF Spec

\* The context of the controller, what is under way and what the UE has heard stay
\* of their types, and neither direction holds more messages than its bound
\* (ue_mac_rib_info.cc:29-37, ue_mac_rib_info.h:69-90).
THEOREM HarqTypes == Spec => []TypeOK
  BY InvAlways, PTL DEF Inv

\* No process is scheduled again before the feedback of what was sent on it, and none
\* is forgotten without a loss: get_next_available_harq, harq_scheduled and
\* update_dl_sf_info keep every process in exactly one place
\* (flexible_scheduler.cc:688, ue_mac_rib_info.cc:33-36).
THEOREM ProcessesConserved == Spec => []ProcessConserved
<1>1. Inv => ProcessConserved
  BY DEF Inv, ProcessConserved, Conserved, OnceDown, OnceUp
<1> QED
  BY <1>1, InvAlways, PTL

\* What the UE takes a block for is what the controller sent it as, whatever has been
\* lost before (flexible_scheduler.cc:415-419,664-665).
THEOREM IndicatorsStayInStep == Spec => []IndicatorsInStep
<1>1. ASSUME Inv, ~Strayed, NEW i \in DOMAIN down
      PROVE  /\ down[i].kind = "new" => down[i].block.ndi # heard[down[i].pid].ndi
             /\ down[i].kind = "repeat" => down[i].block = heard[down[i].pid]
  <2> SUFFICES ASSUME down[i].kind \in {"new", "repeat"}
               PROVE  /\ down[i].kind = "new" => down[i].block.ndi # heard[down[i].pid].ndi
                      /\ down[i].kind = "repeat" => down[i].block = heard[down[i].pid]
    OBVIOUS
  <2> DEFINE p == down[i].pid
  <2>1. down[i] \in Config \cup Switch
    BY <1>1, DownFacts DEF Inv
  <2>2. p \in Process /\ Carries(i, p)
    BY <2>1, ConfigKinds DEF Carries
  <2>3. Conserved(p) /\ Knows(p) /\ InDown(p)
    BY <1>1, <2>2 DEF Inv, InDown
  <2>4. Says(i, p)
    BY <1>1, <2>2, <2>3 DEF Conserved, Knows
  <2> QED
    BY <2>4 DEF Says
<1>2. Inv => IndicatorsInStep
  BY <1>1 DEF IndicatorsInStep
<1> QED
  BY <1>2, InvAlways, PTL

\* A process that is to be repeated has the size of the block it repeats: the
\* preprocessor, which resets the size of the next process, never resets that one
\* (remote_scheduler_helper.cc:110-113, ue_mac_rib_info.h:69).
THEOREM RepetitionsHaveSize == Spec => []RepetitionHasSize
<1>1. Inv => RepetitionHasSize
  BY DEF Inv, RepetitionHasSize, Conserved, Knows
<1> QED
  BY <1>1, InvAlways, PTL
=============================================================================
