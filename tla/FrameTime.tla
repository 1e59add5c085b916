------------------------------- MODULE FrameTime -------------------------------
(***************************************************************************)
(* The time of the radio interface, as rib_common packs it into messages   *)
(* and as the schedulers count with it: frames of ten subframes, the       *)
(* frames numbered modulo NumFrames. A moment is also counted in subframes *)
(* since frame 0, as delegation_manager and the power control do.          *)
(***************************************************************************)
EXTENDS Integers

CONSTANT NumFrames  \* 1024, where the number of the frame starts again

ASSUME FrameAssumption == NumFrames \in Nat \ {0} /\ NumFrames <= 4096

Frame == 0 .. NumFrames - 1
Subframe == 0 .. 9

\* Moments, counted in subframes.
Moment == 0 .. 10 * NumFrames - 1
FrameOf(t) == t \div 10
SubframeOf(t) == t % 10

\* get_sfn_sf: four bits for the subframe below twelve for the frame.
SfnSf(frame, subframe) == (subframe % 16) + 16 * (frame % 4096)

\* get_frame and get_subframe: what update_subframe reads from a trigger.
GetFrame(sfnSf) == (sfnSf \div 16) % 4096
GetSubframe(sfnSf) == sfnSf % 16

\* The subframe that a scheduler plans for, schedule_ahead of the current one.
TargetSubframe(subframe, ahead) == (subframe + ahead) % 10
TargetFrame(frame, subframe, ahead) ==
  LET next == IF TargetSubframe(subframe, ahead) < subframe THEN (frame + 1) % NumFrames ELSE frame
  IN  (next + ahead \div 10) % NumFrames
Target(t, ahead) ==
  10 * TargetFrame(FrameOf(t), SubframeOf(t), ahead) + TargetSubframe(SubframeOf(t), ahead)

\* The moment d subframes after t.
After(t, d) == (t + d) % (10 * NumFrames)
=============================================================================
