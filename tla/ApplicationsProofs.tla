-------------------------- MODULE ApplicationsProofs --------------------------
(***************************************************************************)
(* The time of the radio interface, and what each application does once,   *)
(* in its order or never: for any number of frames and agents, any jumps   *)
(* of the clocks and any timetable. One inductive invariant for each       *)
(* application, over the type of the clocks.                               *)
(***************************************************************************)
EXTENDS Applications, TLAPS

-----------------------------------------------------------------------------
(* Time                                                                    *)

\* The remainder of a number that is less than twice the divisor.
LEMMA Remainder ==
  ASSUME NEW n \in Nat \ {0}, NEW x \in 0 .. 2 * n - 1
  PROVE  x % n = IF x < n THEN x ELSE x - n
<1>1. CASE x < n
  BY <1>1
<1>2. CASE x >= n
  BY <1>2
<1> QED
  BY <1>1, <1>2

\* A frame and a subframe that get_sfn_sf packs are those that the agent unpacks
\* (rib_common.cc:75-103).
THEOREM PackedTime ==
  ASSUME NEW frame \in Frame, NEW subframe \in Subframe
  PROVE  /\ SfnSf(frame, subframe) \in Nat /\ SfnSf(frame, subframe) < 65536
         /\ GetFrame(SfnSf(frame, subframe)) = frame
         /\ GetSubframe(SfnSf(frame, subframe)) = subframe
<1>1. /\ frame \in Nat /\ frame < 4096 /\ frame % 4096 = frame
      /\ subframe \in Nat /\ subframe < 10 /\ subframe % 16 = subframe
  BY FrameAssumption DEF Frame, Subframe
<1>2. SfnSf(frame, subframe) = subframe + 16 * frame
  BY <1>1 DEF SfnSf
<1>3. subframe + 16 * frame \in Nat /\ subframe + 16 * frame < 65536
  BY <1>1
<1>4. (subframe + 16 * frame) \div 16 = frame /\ (subframe + 16 * frame) % 16 = subframe
  BY <1>1
<1>5. GetFrame(SfnSf(frame, subframe)) = frame
  BY <1>1, <1>2, <1>4 DEF GetFrame
<1>6. GetSubframe(SfnSf(frame, subframe)) = subframe
  BY <1>2, <1>4 DEF GetSubframe
<1> QED
  BY <1>2, <1>3, <1>5, <1>6

\* A moment is given by its frame and its subframe.
LEMMA MomentParts ==
  ASSUME NEW t \in Moment
  PROVE  FrameOf(t) \in Frame /\ SubframeOf(t) \in Subframe /\ t = 10 * FrameOf(t) + SubframeOf(t)
BY FrameAssumption DEF Moment, Frame, Subframe, FrameOf, SubframeOf

\* The frame and the subframe that a scheduler plans for are those schedule_ahead
\* subframes after the current ones, also where the subframe or the number of the
\* frame starts again (flexible_scheduler.cc:298-306).
THEOREM TargetIsAhead ==
  ASSUME NEW t \in Moment, NEW ahead \in 0 .. 9
  PROVE  Target(t, ahead) = After(t, ahead) /\ Target(t, ahead) \in Moment
<1> DEFINE f == FrameOf(t)  s == SubframeOf(t)
<1>1. f \in Frame /\ s \in Subframe /\ t = 10 * f + s
  BY MomentParts
<1>2. ahead \div 10 = 0
  OBVIOUS
<1>3. NumFrames \in Int /\ NumFrames > 0
  BY FrameAssumption
<1>4. CASE s + ahead < 10
  <2>1. TargetSubframe(s, ahead) = s + ahead
    BY <1>1, <1>4 DEF TargetSubframe, Subframe
  <2>2. TargetFrame(f, s, ahead) = f
    <3>1. f % NumFrames = f
      BY <1>1, <1>3, Remainder DEF Frame
    <3> QED
      BY <1>1, <1>2, <1>3, <2>1, <3>1 DEF TargetFrame, Frame, Subframe
  <2>3. t + ahead \in Moment /\ After(t, ahead) = t + ahead
    BY <1>1, <1>3, <1>4 DEF After, Moment, Frame, Subframe
  <2> QED
    BY <1>1, <2>1, <2>2, <2>3 DEF Target, Frame, Subframe
<1>5. CASE s + ahead >= 10
  <2>1. TargetSubframe(s, ahead) = s + ahead - 10 /\ s + ahead - 10 < s /\ s + ahead - 10 \in 0 .. 9
    BY <1>1, <1>5 DEF TargetSubframe, Subframe
  <2>2. CASE f < NumFrames - 1
    <3>1. TargetFrame(f, s, ahead) = f + 1
      BY <1>1, <1>2, <1>3, <2>1, <2>2 DEF TargetFrame, Frame
    <3>2. t + ahead \in Moment
      BY <1>1, <1>3, <2>1, <2>2 DEF Moment, Frame, Subframe
    <3>3. After(t, ahead) = t + ahead
      <4> DEFINE n == 10 * NumFrames  x == t + ahead
      <4>1. n \in Nat \ {0} /\ x \in 0 .. 2 * n - 1 /\ x < n
        BY <1>3, <3>2 DEF Moment
      <4> HIDE DEF n, x
      <4>2. x % n = x
        BY <4>1, Remainder
      <4> QED
        BY <4>2 DEF After, n, x
    <3> QED
      BY <1>1, <2>1, <3>1, <3>3, <3>2 DEF Target, Frame, Subframe
  <2>3. CASE f = NumFrames - 1
    <3>1. TargetFrame(f, s, ahead) = 0
      BY <1>1, <1>2, <1>3, <2>1, <2>3 DEF TargetFrame, Frame
    <3>2. t + ahead = 10 * NumFrames + (s + ahead - 10)
      BY <1>1, <1>3, <2>3 DEF Subframe
    <3>3. After(t, ahead) = s + ahead - 10
      BY <1>3, <2>1, <3>2 DEF After
    <3> QED
      BY <1>3, <2>1, <3>1, <3>3 DEF Target, Moment
  <2> QED
    BY <1>1, <1>3, <2>2, <2>3 DEF Frame
<1> QED
  BY <1>1, <1>4, <1>5 DEF Subframe

\* A moment later is a moment.
LEMMA AfterMoment ==
  ASSUME NEW t \in Moment, NEW d \in Nat
  PROVE  After(t, d) \in Moment
<1> DEFINE n == 10 * NumFrames
<1>1. n \in Nat \ {0} /\ t \in Nat
  BY FrameAssumption DEF Moment
<1> HIDE DEF n
<1>2. (t + d) % n \in 0 .. n - 1
  BY <1>1
<1> QED
  BY <1>2 DEF After, Moment, n

\* Less than the time of all the frames later.
LEMMA SoonAfter ==
  ASSUME NEW t \in Moment, NEW d \in 0 .. 9
  PROVE  After(t, d) = IF t + d < 10 * NumFrames THEN t + d ELSE t + d - 10 * NumFrames
<1>1. PICK n : n = 10 * NumFrames
  OBVIOUS
<1>2. PICK x : x = t + d
  OBVIOUS
<1>3. n \in Nat \ {0} /\ x \in 0 .. 2 * n - 1
  BY <1>1, <1>2, FrameAssumption DEF Moment
<1>4. x % n = IF x < n THEN x ELSE x - n
  BY <1>3, Remainder
<1>5. After(t, d) = x % n
  BY <1>1, <1>2 DEF After
<1>6. After(t, d) = IF x < n THEN x ELSE x - n
  BY <1>4, <1>5
<1>7. t \in Int /\ d \in Int /\ 10 * NumFrames \in Int
  BY FrameAssumption DEF Moment
<1>8. CASE x < n
  BY <1>1, <1>2, <1>3, <1>6, <1>7, <1>8
<1>9. CASE ~(x < n)
  BY <1>1, <1>2, <1>3, <1>6, <1>7, <1>9
<1> QED
  BY <1>8, <1>9

\* The clocks show moments.
ClockOK == now \in [Agent -> Moment] /\ phase \in {"update", "run"} /\ app \in Apps

LEMMA ClockInvariance == Spec => []ClockOK
<1>1. Init => ClockOK
  BY ClockAssumption DEF Init, ClockInit, ClockOK
<1>2. ClockOK /\ [Next]_vars => ClockOK'
  <2> SUFFICES ASSUME ClockOK, [Next]_vars PROVE ClockOK'
    OBVIOUS
  <2>1. ASSUME NEW d \in Jumps, Update(d) PROVE ClockOK'
    <3>1. \A a \in Agent : After(now[a], d[a]) \in Moment
      BY ClockAssumption, AfterMoment DEF Jumps, ClockOK
    <3> QED
      BY <2>1, <3>1 DEF Update, UpdateSubframes, ClockOK
  <2>2. CASE Round
    BY <2>2 DEF Round, RunDelegationManager, RunEicic, RunFlexible, RunRemoteDelegation, RunTask, ClockOK
  <2>3. CASE UNCHANGED vars
    BY <2>3 DEF vars, clockVars, ClockOK
  <2> QED
    BY <2>1, <2>2, <2>3 DEF Next
<1> QED
  BY <1>1, <1>2, PTL DEF Spec

-----------------------------------------------------------------------------
(* remote_scheduler_delegation                                             *)

\* Only what the last run sent counts, and once the flag is set runs send nothing.
LEMMA RemoteStep ==
  ASSUME DelegatedLeftAlone, [Next]_vars
  PROVE  DelegatedLeftAlone'
<1>1. CASE RunRemoteDelegation
  <2>1. CASE DelegationEnabled
    BY <1>1, <2>1 DEF RunRemoteDelegation, DelegatedLeftAlone
  <2>2. CASE ~DelegationEnabled
    <3>1. PICK csi \in SUBSET Agent :
            /\ configured' \in SUBSET Reached(Pending, csi)
            /\ delegated' = IF Reached(Pending, csi) = Pending THEN delegated
                            ELSE delegated \cup {Least(Pending \cap csi)}
      BY <1>1, <2>2 DEF RunRemoteDelegation
    <3>2. delegated = {}
      BY <2>2 DEF DelegationEnabled
    <3>3. CASE Pending \cap csi = {}
      BY <3>1, <3>2, <3>3 DEF Reached, DelegatedLeftAlone
    <3>4. CASE Pending \cap csi # {}
      <4>1. \A a \in Reached(Pending, csi) : a \in Nat /\ a < Least(Pending \cap csi)
        BY <3>4, ClockAssumption DEF Reached, Pending
      <4>2. Least(Pending \cap csi) \notin configured'
        BY <3>1, <4>1
      <4> QED
        BY <3>1, <3>2, <4>2 DEF DelegatedLeftAlone
    <3> QED
      BY <3>3, <3>4
  <2> QED
    BY <2>1, <2>2
<1>2. CASE UNCHANGED remoteVars
  BY <1>2 DEF remoteVars, DelegatedLeftAlone
<1> QED
  BY <1>1, <1>2 DEF Next, Update, Round, vars, appVars

\* The control of one agent is delegated at most once and never that of a second one,
\* and the agent gets no dl_mac_config in that run or later: the flag is tested before
\* the loop and set when the loop is left (remote_scheduler_delegation.cc:88,165-170).
THEOREM DelegatedAgentLeftAlone == Spec => []DelegatedLeftAlone
<1>1. Init => DelegatedLeftAlone
  BY DEF Init, RemoteInit, DelegatedLeftAlone
<1> QED
  BY <1>1, RemoteStep, PTL DEF Spec

-----------------------------------------------------------------------------
(* flexible_scheduler: the rounds over the agents                          *)

\* An agent that was sent a dl_mac_config in its subframe has been checked in it.
SentWhenChecked ==
  \A a \in Agent : sent[a] = 0 \/ (sent[a] = 1 /\ last[a] = now[a] /\ app = "flexible")

LEMMA SentStep ==
  ASSUME SentWhenChecked, ClockOK, sent \in [Agent -> Nat], last \in [Agent -> Moment], [Next]_vars
  PROVE  SentWhenChecked' /\ sent' \in [Agent -> Nat] /\ last' \in [Agent -> Moment]
<1>1. ASSUME NEW d \in Jumps, Update(d), app = "flexible"
      PROVE  SentWhenChecked' /\ sent' \in [Agent -> Nat] /\ last' \in [Agent -> Moment]
  BY <1>1 DEF Update, UpdateSubframes, FlexUpdate, Moved, SentWhenChecked
<1>2. CASE RunFlexible
  <2>1. /\ last' = [a \in Agent |-> IF a \in Chosen THEN now[a] ELSE last[a]]
        /\ UNCHANGED <<app, now>> /\ app = "flexible"
    BY <1>2 DEF RunFlexible, RunTask
  <2>2. PICK nonempty \in SUBSET Chosen :
          sent' = [a \in Agent |-> IF a \in nonempty THEN sent[a] + 1 ELSE sent[a]]
    BY <1>2 DEF RunFlexible
  <2>3. \A a \in nonempty : a \in Chosen /\ last[a] # now[a]
    BY <2>2 DEF Chosen
  <2>4. SentWhenChecked'
    BY <2>1, <2>2, <2>3 DEF SentWhenChecked
  <2>5. sent' \in [Agent -> Nat] /\ last' \in [Agent -> Moment]
    BY <2>1, <2>2 DEF ClockOK
  <2> QED
    BY <2>4, <2>5
<1>3. CASE UNCHANGED <<app, now, flexVars>>
  BY <1>3 DEF flexVars, SentWhenChecked
<1>4. ASSUME NEW d \in Jumps, Update(d), app # "flexible"
      PROVE  SentWhenChecked' /\ sent' \in [Agent -> Nat] /\ last' \in [Agent -> Moment]
  BY <1>4 DEF Update, UpdateSubframes, flexVars, SentWhenChecked
<1> QED
  BY <1>1, <1>2, <1>3, <1>4
  DEF Next, Round, RunDelegationManager, RunEicic, RunRemoteDelegation, RunTask, vars, clockVars, appVars

\* However often the scheduler runs in a subframe of an agent, it sends that agent one
\* dl_mac_config for it: needs_scheduling compares with what the last run has noted
\* (flexible_scheduler.cc:292,719-729).
THEOREM OneConfigPerSubframe == Spec => []SubframeOnce
<1> DEFINE I == SentWhenChecked /\ sent \in [Agent -> Nat] /\ last \in [Agent -> Moment]
<1>1. Init => I
  BY ClockAssumption DEF Init, FlexInit, SentWhenChecked
<1>2. I /\ ClockOK /\ [Next]_vars => I'
  BY SentStep
<1>3. I => SubframeOnce
  BY DEF SentWhenChecked, SubframeOnce
<1> QED
  BY <1>1, <1>2, <1>3, ClockInvariance, PTL DEF Spec

\* Two steps in less than a frame do not pass for one.
LEMMA AfterAfter ==
  ASSUME NEW t \in Moment, NEW d \in 0 .. 9, NEW e \in 0 .. 9, d + e < 10
  PROVE  After(After(t, d), e) = After(t, d + e)
<1>1. d + e \in 0 .. 9 /\ After(t, d) \in Moment /\ t \in Int /\ 10 * NumFrames \in Int /\ 10 * NumFrames >= 10
  BY AfterMoment, FrameAssumption DEF Moment
<1>2. After(t, d) = IF t + d < 10 * NumFrames THEN t + d ELSE t + d - 10 * NumFrames
  BY SoonAfter
<1>3. After(t, d + e) = IF t + (d + e) < 10 * NumFrames THEN t + (d + e) ELSE t + (d + e) - 10 * NumFrames
  BY <1>1, SoonAfter
<1>4. After(After(t, d), e) =
        IF After(t, d) + e < 10 * NumFrames THEN After(t, d) + e ELSE After(t, d) + e - 10 * NumFrames
  BY <1>1, SoonAfter
<1> QED
  BY <1>1, <1>2, <1>3, <1>4 DEF Moment

\* The planned moment moves with the clock.
LEMMA TargetMoves ==
  ASSUME NEW t \in Moment, NEW d \in 0 .. 9
  PROVE  Target(After(t, d), FlexAhead) = After(Target(t, FlexAhead), d)
<1>1. FlexAhead \in 0 .. 9 /\ After(t, d) \in Moment
  BY FlexAssumption, AfterMoment
<1>2. /\ Target(t, FlexAhead) = After(t, FlexAhead) /\ Target(t, FlexAhead) \in Moment
      /\ Target(After(t, d), FlexAhead) = After(After(t, d), FlexAhead)
  BY <1>1, TargetIsAhead
<1>3. /\ t \in Int /\ 10 * NumFrames \in Int /\ 10 * NumFrames >= 10
      /\ After(t, d) \in Int /\ After(t, FlexAhead) \in Int
  BY <1>1, <1>2, FrameAssumption DEF Moment
<1>4. After(t, d) = IF t + d < 10 * NumFrames THEN t + d ELSE t + d - 10 * NumFrames
  BY SoonAfter
<1>5. After(t, FlexAhead) =
        IF t + FlexAhead < 10 * NumFrames THEN t + FlexAhead ELSE t + FlexAhead - 10 * NumFrames
  BY <1>1, SoonAfter
<1>6. After(After(t, d), FlexAhead) =
        IF After(t, d) + FlexAhead < 10 * NumFrames THEN After(t, d) + FlexAhead
        ELSE After(t, d) + FlexAhead - 10 * NumFrames
  BY <1>1, SoonAfter
<1>7. After(After(t, FlexAhead), d) =
        IF After(t, FlexAhead) + d < 10 * NumFrames THEN After(t, FlexAhead) + d
        ELSE After(t, FlexAhead) + d - 10 * NumFrames
  BY <1>2, SoonAfter
<1> QED
  BY <1>1, <1>2, <1>3, <1>4, <1>5, <1>6, <1>7

\* Until ten subframes have gone by, the planned moment is that of the last step of
\* power plus what has gone by.
PowerClock ==
  /\ tpcAt \in [PowerAgents -> Moment] /\ elapsed \in [PowerAgents -> 0 .. PowerGap]
  /\ gap \in [PowerAgents -> 0 .. PowerGap]
  /\ \A a \in PowerAgents :
       /\ elapsed[a] < PowerGap => FlexTarget(a) = After(tpcAt[a], elapsed[a]) /\ app = "flexible"
       /\ gap[a] = PowerGap

\* A step is only allowed when ten subframes have gone by.
LEMMA StepAllowed ==
  ASSUME NEW from \in Moment, NEW e \in 0 .. 9
  PROVE  ~CanStep(from, After(from, e))
<1>1. After(from, e) = IF from + e < 10 * NumFrames THEN from + e ELSE from + e - 10 * NumFrames
  BY SoonAfter
<1>2. from \in Int /\ 10 * NumFrames \in Int /\ 10 * NumFrames > 0
  BY FrameAssumption DEF Moment
<1>3. from < 10 * NumFrames
  BY FrameAssumption DEF Moment
<1>4. CASE from + e < 10 * NumFrames
  <2>1. After(from, e) = from + e
    BY <1>1, <1>4
  <2> QED
    BY <1>2, <2>1 DEF CanStep
<1>5. CASE ~(from + e < 10 * NumFrames)
  <2>1. After(from, e) = from + e - 10 * NumFrames
    BY <1>1, <1>5
  <2> DEFINE n == 10 * NumFrames
  <2>2. n \in Int /\ n > 0 /\ from < n /\ After(from, e) = from + e - n /\ e \in Int /\ e <= 9
    BY <1>2, <1>3, <2>1
  <2> HIDE DEF n
  <2>3. ~(from + 10 <= After(from, e))
    BY <1>2, <2>2
  <2>4. n - from + After(from, e) = e
    BY <1>2, <2>2
  <2>5. ~(n - from + After(from, e) >= 10)
    BY <2>2, <2>4
  <2> QED
    BY <2>3, <2>5 DEF CanStep, n
<1> QED
  BY <1>4, <1>5

LEMMA PowerStep ==
  ASSUME PowerClock, ClockOK, [Next]_vars
  PROVE  PowerClock'
<1>1. PowerGap = 10 /\ PowerAgents \subseteq Agent
  BY FlexAssumption DEF PowerGap
<1>2. ASSUME NEW d \in Jumps, Update(d), app = "flexible" PROVE PowerClock'
  <2>1. /\ elapsed' = [a \in PowerAgents |-> AtMost(PowerGap, elapsed[a] + d[a])]
        /\ UNCHANGED <<app, tpcAt, gap>>
        /\ now' = [a \in Agent |-> After(now[a], d[a])]
    BY <1>2 DEF Update, UpdateSubframes, FlexUpdate
  <2>2. ASSUME NEW a \in PowerAgents
        PROVE  /\ elapsed'[a] \in 0 .. PowerGap
               /\ elapsed'[a] < PowerGap => FlexTarget(a)' = After(tpcAt'[a], elapsed'[a])
    <3>1. a \in Agent /\ d[a] \in Nat /\ now[a] \in Moment /\ now'[a] = After(now[a], d[a]) /\ tpcAt[a] \in Moment
      BY <1>1, <2>1, ClockAssumption DEF Jumps, ClockOK, PowerClock
    <3>2. elapsed[a] \in 0 .. 10 /\ elapsed'[a] = AtMost(10, elapsed[a] + d[a])
      BY <1>1, <2>1 DEF PowerClock
    <3>3. elapsed'[a] \in 0 .. 10
      BY <3>1, <3>2 DEF AtMost
    <3>4. ASSUME elapsed'[a] < 10 PROVE FlexTarget(a)' = After(tpcAt'[a], elapsed'[a])
      <4>1. /\ d[a] \in 0 .. 9 /\ elapsed[a] \in 0 .. 9 /\ elapsed[a] + d[a] < 10
            /\ elapsed'[a] = elapsed[a] + d[a]
        BY <3>1, <3>2, <3>4 DEF AtMost
      <4>2. FlexTarget(a) = After(tpcAt[a], elapsed[a])
        BY <1>1, <4>1 DEF PowerClock
      <4>3. FlexTarget(a)' = After(FlexTarget(a), d[a])
        BY <3>1, <4>1, TargetMoves DEF FlexTarget
      <4>4. After(After(tpcAt[a], elapsed[a]), d[a]) = After(tpcAt[a], elapsed[a] + d[a])
        BY <3>1, <4>1, AfterAfter
      <4> QED
        BY <2>1, <4>1, <4>2, <4>3, <4>4
    <3> QED
      BY <1>1, <3>3, <3>4
  <2>3. elapsed' \in [PowerAgents -> 0 .. PowerGap]
    BY <2>1, <2>2
  <2> QED
    BY <1>2, <2>1, <2>2, <2>3 DEF PowerClock
<1>3. CASE RunFlexible
  <2>1. UNCHANGED <<app, now>>
    BY <1>3 DEF RunFlexible, RunTask
  <2>2. PICK off \in SUBSET PowerAgents :
          LET stepping == {a \in off : CanStep(tpcAt[a], FlexTarget(a))}
          IN  /\ tpcAt' = [a \in PowerAgents |-> IF a \in stepping THEN FlexTarget(a) ELSE tpcAt[a]]
              /\ gap' = [a \in PowerAgents |-> IF a \in stepping THEN elapsed[a] ELSE gap[a]]
              /\ elapsed' = [a \in PowerAgents |-> IF a \in stepping THEN 0 ELSE elapsed[a]]
    BY <1>3 DEF RunFlexible
  <2> DEFINE stepping == {a \in off : CanStep(tpcAt[a], FlexTarget(a))}
  <2>3. ASSUME NEW a \in stepping
        PROVE  elapsed[a] = PowerGap /\ FlexTarget(a) \in Moment /\ FlexTarget(a) = After(FlexTarget(a), 0)
    <3>1. a \in PowerAgents /\ CanStep(tpcAt[a], FlexTarget(a)) /\ tpcAt[a] \in Moment /\ elapsed[a] \in 0 .. 10
      BY <1>1 DEF PowerClock
    <3>2. elapsed[a] = 10
      <4>1. ASSUME elapsed[a] # 10 PROVE FALSE
        <5>1. elapsed[a] \in 0 .. 9 /\ FlexTarget(a) = After(tpcAt[a], elapsed[a])
          BY <1>1, <3>1, <4>1 DEF PowerClock
        <5> QED
          BY <3>1, <5>1, StepAllowed
      <4> QED
        BY <4>1
    <3>3. FlexTarget(a) \in Moment
      BY <1>1, <3>1, FlexAssumption, TargetIsAhead DEF FlexTarget, ClockOK
    <3>4. FlexTarget(a) = After(FlexTarget(a), 0)
      BY <3>3, SoonAfter, FrameAssumption DEF Moment
    <3> QED
      BY <1>1, <3>2, <3>3, <3>4
  <2>4. \A a \in PowerAgents : FlexTarget(a)' = FlexTarget(a)
    BY <2>1 DEF FlexTarget
  <2>5. app = "flexible"
    BY <1>3 DEF RunFlexible, RunTask
  <2>6. tpcAt' \in [PowerAgents -> Moment]
    BY <2>2, <2>3 DEF PowerClock
  <2>7. gap' \in [PowerAgents -> 0 .. PowerGap] /\ elapsed' \in [PowerAgents -> 0 .. PowerGap]
    BY <1>1, <2>2, <2>3 DEF PowerClock
  <2>8. ASSUME NEW a \in PowerAgents
        PROVE  /\ elapsed'[a] < PowerGap => FlexTarget(a)' = After(tpcAt'[a], elapsed'[a]) /\ app' = "flexible"
               /\ gap'[a] = PowerGap
    <3>1. CASE a \in stepping
      BY <2>1, <2>2, <2>3, <2>4, <2>5, <3>1
    <3>2. CASE a \notin stepping
      BY <2>1, <2>2, <2>4, <2>5, <3>2 DEF PowerClock
    <3> QED
      BY <3>1, <3>2
  <2> QED
    BY <2>6, <2>7, <2>8 DEF PowerClock
<1>4. CASE UNCHANGED <<app, now, flexVars>>
  BY <1>4 DEF flexVars, PowerClock, FlexTarget
<1>5. ASSUME NEW d \in Jumps, Update(d), app # "flexible" PROVE PowerClock'
  BY <1>5 DEF Update, UpdateSubframes, flexVars, PowerClock
<1> QED
  BY <1>2, <1>3, <1>4, <1>5
  DEF Next, Round, RunDelegationManager, RunEicic, RunRemoteDelegation, RunTask, vars, clockVars, appVars

\* Between two steps of the transmission power of a UE there are ten subframes at least,
\* also over the wrap of the frame numbers and however the clock jumps: the second
\* branch of the test is only taken after the wrap (flexible_scheduler.cc:640-645).
THEOREM PowerSpaced == Spec => []PowerStepsSpaced
<1>1. Init => PowerClock
  <2> SUFFICES ASSUME Init PROVE PowerClock
    OBVIOUS
  <2>1. 0 \in Moment /\ PowerGap = 10
    BY FrameAssumption DEF Moment, PowerGap
  <2> QED
    BY <2>1 DEF Init, FlexInit, PowerClock
<1>2. PowerClock /\ ClockOK /\ [Next]_vars => PowerClock'
  BY PowerStep
<1>3. PowerClock => PowerStepsSpaced
  BY DEF PowerClock, PowerStepsSpaced, PowerGap
<1> QED
  BY <1>1, <1>2, <1>3, ClockInvariance, PTL DEF Spec

-----------------------------------------------------------------------------
(* remote_scheduler_eicic                                                  *)

\* While the clocks are in step, what was granted for this subframe was granted in a run
\* that checked all the agents in it.
Granted ==
  /\ inStep => \A a, b \in Agent : now[a] = now[b]
  /\ \A g \in grants : g.agent \in Agent /\ app = "eicic"
  /\ checked \in [Agent -> Moment]
  /\ inStep => \A g \in grants : checked = now /\ g.at = After(now[g.agent], EicicAhead)
                               /\ SubframeOf(g.at) \in AlmostBlank
  /\ inStep => \A g, h \in grants : g.agent = Macro => h.agent = Macro

\* With no wrap of the subframe there is none of the frame: the moment after this one.
LEMMA GrantMoment ==
  ASSUME ClockOK, NEW a \in Agent,
         TargetSubframe(SubframeOf(now[a]), EicicAhead) \in AlmostBlank
  PROVE  GrantAt(a) = After(now[a], EicicAhead) /\ SubframeOf(GrantAt(a)) \in AlmostBlank
<1> DEFINE f == FrameOf(now[a])  s == SubframeOf(now[a])
<1>1. now[a] \in Moment /\ f \in Frame /\ s \in Subframe /\ now[a] = 10 * f + s
  BY MomentParts DEF ClockOK
<1>2. EicicAhead \in 0 .. 1
  BY EicicAssumption
<1>3. TargetSubframe(s, EicicAhead) = s + EicicAhead /\ s + EicicAhead < 10
  BY <1>1, <1>2 DEF TargetSubframe, Subframe, AlmostBlank
<1>4. (f + EicicAhead \div 10) % NumFrames = f
  <2>1. EicicAhead \div 10 = 0 /\ f \in Nat /\ f < NumFrames /\ NumFrames \in Nat \ {0}
    BY <1>1, <1>2, FrameAssumption DEF Frame
  <2>2. f % NumFrames = f
    BY <2>1, Remainder
  <2> QED
    BY <2>1, <2>2
<1>5. GrantAt(a) = 10 * f + (s + EicicAhead)
  BY <1>3, <1>4 DEF GrantAt
<1>6. now[a] + EicicAhead < 10 * NumFrames /\ 10 * NumFrames \in Int /\ now[a] \in Int
  BY <1>1, <1>2, <1>3, FrameAssumption DEF Frame, Subframe
<1>7. After(now[a], EicicAhead) = now[a] + EicicAhead
  BY <1>1, <1>2, <1>6, SoonAfter
<1>8. GrantAt(a) = After(now[a], EicicAhead)
  BY <1>1, <1>2, <1>5, <1>7 DEF Frame, Subframe
<1>9. SubframeOf(GrantAt(a)) = s + EicicAhead
  BY <1>1, <1>2, <1>3, <1>5 DEF SubframeOf, Frame, Subframe
<1> QED
  BY <1>3, <1>8, <1>9

LEMMA GrantStep ==
  ASSUME Granted, ClockOK, [Next]_vars
  PROVE  Granted'
<1>1. ASSUME NEW d \in Jumps, Update(d) PROVE Granted'
  <2>1. /\ now' = [a \in Agent |-> After(now[a], d[a])] /\ UNCHANGED <<app, checked>>
        /\ inStep' = (inStep /\ \A a, b \in Agent : d[a] = d[b])
    BY <1>1 DEF Update, UpdateSubframes, EicicUpdate, eicicVars
  <2>2. inStep' => inStep /\ \A a, b \in Agent : now'[a] = now'[b] /\ now[a] = now[b]
    BY <2>1 DEF Granted
  <2>3. CASE app = "eicic"
    <3>1. grants' = {g \in grants : ~Moved(g.agent)}
      BY <1>1, <2>3 DEF Update, EicicUpdate
    <3>2. ASSUME inStep', NEW g \in grants' PROVE now' = now
      <4>1. g.agent \in Agent /\ now'[g.agent] = now[g.agent]
        BY <3>1, <3>2 DEF Granted, Moved
      <4>2. \A a \in Agent : now'[a] = now[a]
        BY <2>2, <3>2, <4>1
      <4> QED
        BY <2>1, <4>2 DEF ClockOK
    <3> QED
      BY <2>1, <2>2, <2>3, <3>1, <3>2 DEF Granted
  <2>4. CASE app # "eicic"
    <3>1. grants' = {} /\ grants = {}
      BY <1>1, <2>4 DEF Update, eicicVars, Granted
    <3> QED
      BY <2>1, <2>2, <3>1 DEF Granted
  <2> QED
    BY <2>3, <2>4
<1>2. CASE RunEicic
  <2>1. checked' = now /\ UNCHANGED <<app, now, inStep>> /\ app = "eicic"
    BY <1>2 DEF RunEicic, RunTask
  <2>2. CASE ~ScheduleFlag(Unchecked)
    <3>1. grants' = grants
      BY <1>2, <2>2 DEF RunEicic
    <3> QED
      BY <2>1, <3>1 DEF Granted, ClockOK
  <2>3. CASE ScheduleFlag(Unchecked)
    <3> DEFINE new == { [agent |-> a, at |-> GrantAt(a)] :
                        a \in {b \in Agent : (b = Macro) = ScheduleMacro(Unchecked)} }
    <3>1. grants' = grants \cup new
      BY <1>2, <2>3 DEF RunEicic
    <3>2. PICK u \in Unchecked : TargetSubframe(SubframeOf(now[u]), EicicAhead) \in AlmostBlank
      BY <2>3 DEF ScheduleFlag
    <3>3. u \in Agent /\ checked # now
      BY <3>2 DEF Unchecked
    <3>4. inStep => grants = {}
      BY <3>3 DEF Granted
    <3>5. ASSUME NEW g \in new PROVE g.agent \in Agent /\ g.at = GrantAt(g.agent)
                                  /\ (g.agent = Macro) = ScheduleMacro(Unchecked)
      OBVIOUS
    <3>6. ASSUME inStep, NEW g \in new
          PROVE  g.at = After(now[g.agent], EicicAhead) /\ SubframeOf(g.at) \in AlmostBlank
      <4>1. now[g.agent] = now[u]
        BY <3>3, <3>5, <3>6 DEF Granted
      <4> QED
        BY <3>2, <3>5, <4>1, GrantMoment
    <3>7. \A g \in grants' : g.agent \in Agent
      BY <3>1, <3>5 DEF Granted
    <3>8. inStep => \A g, h \in grants' : g.agent = Macro => h.agent = Macro
      BY <3>1, <3>4, <3>5
    <3> HIDE DEF new
    <3> QED
      BY <2>1, <3>1, <3>4, <3>6, <3>7, <3>8 DEF Granted, ClockOK
  <2> QED
    BY <2>2, <2>3
<1>3. CASE UNCHANGED <<app, now, inStep, eicicVars>>
  BY <1>3 DEF eicicVars, Granted
<1> QED
  BY <1>1, <1>2, <1>3
  DEF Next, Round, RunDelegationManager, RunFlexible, RunRemoteDelegation, RunTask, vars, clockVars, appVars

\* While the clocks of all the agents are in step, macro cell and pico cells are never
\* granted the same subframe, and all grants are for the next one, an almost blank one:
\* also when a run finds agents that have been checked already
\* (remote_scheduler_eicic.cc:95-197).
THEOREM MacroExcludesPico == Spec => []MacroXorPico
<1>1. Init => Granted
  BY ClockAssumption DEF Init, ClockInit, EicicInit, Granted
<1>2. Granted /\ ClockOK /\ [Next]_vars => Granted'
  BY GrantStep
<1>3. Granted => MacroXorPico
  BY DEF Granted, MacroXorPico
<1> QED
  BY <1>1, <1>2, <1>3, ClockInvariance, PTL DEF Spec

-----------------------------------------------------------------------------
(* delegation_manager                                                      *)

\* As long as the clocks are in step and no subframe is passed over, the steps whose
\* subframe has come have been taken, with all that are before them, and the least of
\* all the agents got every message.
Timetable ==
  /\ inStep => \A a, b \in Agent : now[a] = now[b]
  /\ app # "delegation_manager" => told = [a \in Agent |-> {}]
  /\ (app = "delegation_manager" /\ inStep /\ onTime /\ ~skipped) =>
       /\ told = [a \in Agent |-> IF a = Least(Agent) THEN steps ELSE {}]
       /\ \A j, k \in Step : j < k /\ k \in steps => j \in steps
       /\ \A a \in Agent, k \in Step : StepTime[k] < now[a] => k \in steps
       /\ phase = "update" => \A a \in Agent, k \in Step : StepTime[k] = now[a] => k \in steps

\* The steps have moments, the first one the earliest.
LEMMA StepMoments ==
  /\ 1 \in Step /\ \A k \in Step : k \in Nat /\ StepTime[k] \in Moment /\ StepTime[1] <= StepTime[k]
<1>1. 1 \in Step /\ \A k \in Step : k \in Nat /\ k >= 1 /\ StepTime[k] \in Moment
  BY StepAssumption DEF Step
<1>2. ASSUME NEW k \in Step PROVE StepTime[1] <= StepTime[k]
  <2>1. StepTime[1] \in Nat /\ StepTime[k] \in Nat
    BY <1>1 DEF Moment
  <2>2. CASE k = 1
    BY <2>1, <2>2
  <2>3. CASE k > 1
    BY <1>1, <2>1, <2>3, StepAssumption
  <2> QED
    BY <1>1, <2>2, <2>3
<1> QED
  BY <1>1, <1>2

LEMMA TimetableStep ==
  ASSUME Timetable, ClockOK, [Next]_vars
  PROVE  Timetable'
<1>1. ASSUME NEW d \in Jumps, Update(d) PROVE Timetable'
  <2>1. /\ now' = [a \in Agent |-> After(now[a], d[a])] /\ UNCHANGED <<app, told, steps, onTime>>
        /\ inStep' = (inStep /\ \A a, b \in Agent : d[a] = d[b])
        /\ phase = "update" /\ phase' = "run"
        /\ app = "delegation_manager" => skipped' = (skipped \/ \E a \in Agent : d[a] > 1)
    BY <1>1 DEF Update, UpdateSubframes, DelegationUpdate, delegationVars
  <2>2. inStep' => \A a, b \in Agent : now'[a] = now'[b]
    BY <2>1 DEF Timetable
  <2>3. ASSUME app = "delegation_manager", inStep', onTime, ~skipped',
               NEW a \in Agent, NEW k \in Step, StepTime[k] < now'[a]
        PROVE  k \in steps
    <3>0. d[a] \in 0 .. MaxJump /\ MaxJump \in Nat /\ ~(d[a] > 1)
      BY <2>1, <2>3, ClockAssumption DEF Jumps
    <3>1. now[a] \in Moment /\ d[a] \in 0 .. 9 /\ d[a] <= 1 /\ now'[a] = After(now[a], d[a])
      BY <2>1, <3>0 DEF ClockOK
    <3>2. StepTime[k] \in Nat /\ now[a] \in Nat /\ now'[a] \in Int
      <4>1. After(now[a], d[a]) \in Moment
        BY <3>1, AfterMoment
      <4> QED
        BY <3>1, <4>1, StepMoments, FrameAssumption DEF Moment
    <3>3. now'[a] = now[a] + d[a] \/ now'[a] = now[a] + d[a] - 10 * NumFrames
      <4>1. After(now[a], d[a]) = IF now[a] + d[a] < 10 * NumFrames THEN now[a] + d[a]
                                  ELSE now[a] + d[a] - 10 * NumFrames
        BY <3>1, SoonAfter
      <4> QED
        BY <3>1, <4>1
    <3>4. now[a] < 10 * NumFrames /\ 10 * NumFrames \in Int
      BY <3>1, FrameAssumption DEF Moment
    <3>5. StepTime[k] < now[a] \/ StepTime[k] = now[a]
      BY <2>3, <3>1, <3>2, <3>3, <3>4
    <3> QED
      BY <2>1, <2>3, <3>5 DEF Timetable
  <2>4. CASE app = "delegation_manager"
    <3>1. inStep' /\ onTime' /\ ~skipped' => inStep /\ onTime /\ ~skipped
      BY <2>1, <2>4
    <3> QED
      BY <2>1, <2>2, <2>3, <2>4, <3>1 DEF Timetable
  <2>5. CASE app # "delegation_manager"
    BY <2>1, <2>2, <2>5 DEF Timetable
  <2> QED
    BY <2>4, <2>5
<1>2. CASE RunDelegationManager
  <2>1. /\ UNCHANGED <<app, now, inStep, onTime, skipped>> /\ app = "delegation_manager" /\ phase' = "update"
        /\ phase = "run"
        /\ steps' = steps \cup Due(steps)
        /\ told' = [a \in Agent |-> told[a] \cup {k \in Due(steps) : a = Least(DueAt(k))}]
    BY <1>2 DEF RunDelegationManager, RunTask
  <2>2. \A a \in Agent : now[a] \in Int
    BY DEF ClockOK, Moment
  <2>3. ASSUME inStep, onTime, ~skipped
        PROVE  /\ told' = [a \in Agent |-> IF a = Least(Agent) THEN steps' ELSE {}]
               /\ \A j, k \in Step : j < k /\ k \in steps' => j \in steps'
               /\ \A a \in Agent, k \in Step : StepTime[k] < now'[a] => k \in steps'
               /\ \A a \in Agent, k \in Step : StepTime[k] = now'[a] => k \in steps'
    <3>1. /\ told = [a \in Agent |-> IF a = Least(Agent) THEN steps ELSE {}]
          /\ \A j, k \in Step : j < k /\ k \in steps => j \in steps
          /\ \A a \in Agent, k \in Step : StepTime[k] < now[a] => k \in steps
          /\ \A a, b \in Agent : now[a] = now[b]
      BY <2>1, <2>3 DEF Timetable
    <3>2. \A k \in Due(steps) : k \in Step /\ DueAt(k) = Agent
      BY <3>1 DEF Due, DueAt
    <3>3. told' = [a \in Agent |-> IF a = Least(Agent) THEN steps' ELSE {}]
      BY <2>1, <3>1, <3>2
    <3>4. ASSUME NEW j \in Step, NEW k \in Step, j < k, k \in steps' PROVE j \in steps'
      <4>1. CASE k \in steps
        BY <2>1, <3>1, <3>4, <4>1
      <4>2. CASE k \in Due(steps)
        <5>1. PICK a \in Agent : now[a] = StepTime[k]
          BY <4>2 DEF Due, DueAt
        <5>2. StepTime[j] < now[a]
          BY <3>4, <5>1, StepAssumption
        <5> QED
          BY <2>1, <3>1, <5>2
      <4> QED
        BY <2>1, <3>4, <4>1, <4>2
    <3>5. ASSUME NEW a \in Agent, NEW k \in Step, StepTime[k] = now[a] PROVE k \in steps'
      BY <2>1, <3>5 DEF Due, DueAt
    <3> QED
      BY <2>1, <3>1, <3>3, <3>4, <3>5
  <2> QED
    BY <2>1, <2>3 DEF Timetable
<1>3. CASE phase = "run" /\ UNCHANGED <<app, now, inStep, delegationVars>> /\ app # "delegation_manager"
  BY <1>3 DEF delegationVars, Timetable
<1>4. CASE UNCHANGED vars
  BY <1>4 DEF vars, clockVars, appVars, delegationVars, Timetable
<1> QED
  BY <1>1, <1>2, <1>3, <1>4
  DEF Next, Round, RunEicic, RunFlexible, RunRemoteDelegation, RunTask

\* With the agents in step and every subframe seen, the messages of the timetable reach
\* one agent, in the order of the timetable: no policy before the code it is about, for
\* any timetable and any number of agents (delegation_manager.cc:45-198).
THEOREM TimetableInOrder == Spec => []StepsInOrder
<1>1. Init => Timetable
  <2> SUFFICES ASSUME Init PROVE Timetable
    OBVIOUS
  <2>1. /\ now \in [Agent -> Starts] /\ inStep = (\A a, b \in Agent : now[a] = now[b])
        /\ steps = {} /\ told = [a \in Agent |-> {}]
        /\ onTime = (\A a \in Agent : now[a] < StepTime[1])
    BY DEF Init, ClockInit, DelegationInit
  <2>2. ASSUME onTime, NEW a \in Agent, NEW k \in Step PROVE ~(StepTime[k] <= now[a])
    <3>1. now[a] \in Moment /\ StepTime[1] \in Moment /\ StepTime[k] \in Moment
      BY <2>1, ClockAssumption, StepMoments
    <3>3. now[a] \in Int /\ StepTime[1] \in Int /\ StepTime[k] \in Int
      BY <3>1, FrameAssumption DEF Moment
    <3>2. now[a] < StepTime[1] /\ StepTime[1] <= StepTime[k]
      BY <2>1, <2>2, StepMoments
    <3> QED
      BY <3>2, <3>3
  <2>3. ASSUME NEW a \in Agent, NEW k \in Step PROVE now[a] \in Int /\ StepTime[k] \in Int
    <3>1. now[a] \in Moment /\ StepTime[k] \in Moment
      BY <2>1, ClockAssumption, StepMoments
    <3> QED
      BY <3>1, FrameAssumption DEF Moment
  <2>4. onTime => \A a \in Agent, k \in Step : ~(StepTime[k] < now[a]) /\ ~(StepTime[k] = now[a])
    BY <2>2, <2>3
  <2> QED
    BY <2>1, <2>4 DEF Timetable
<1>2. Timetable /\ ClockOK /\ [Next]_vars => Timetable'
  BY TimetableStep
<1>3. Timetable => StepsInOrder
  BY DEF Timetable, StepsInOrder
<1> QED
  BY <1>1, <1>2, <1>3, ClockInvariance, PTL DEF Spec
=============================================================================
