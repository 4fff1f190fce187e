-------------------------- MODULE CaptureLifecycle --------------------------
(***************************************************************************)
(* What the user of the Scanner is promised of captures, whatever the      *)
(* buttons, the filters and the file menu are doing: a capture is started  *)
(* only when none is running, it runs until it is stopped or fails, and a  *)
(* stopped one may store one packet more before it is over.                *)
(***************************************************************************)
EXTENDS Naturals

CONSTANT Thread

VARIABLES
  phase,  \* of each capture: new, running, stopped, over
  extra   \* how many packets each capture stored after it was stopped

Init ==
  /\ phase = [th \in Thread |-> "new"]
  /\ extra = [th \in Thread |-> 0]

Begin(th) ==
  /\ phase[th] = "new"
  /\ \A other \in Thread : phase[other] # "running"
  /\ phase' = [phase EXCEPT ![th] = "running"]
  /\ UNCHANGED extra

Stop(th) ==
  /\ phase[th] = "running"
  /\ phase' = [phase EXCEPT ![th] = "stopped"]
  /\ UNCHANGED extra

StoreExtra(th) ==
  /\ phase[th] = "stopped" /\ extra[th] = 0
  /\ extra' = [extra EXCEPT ![th] = 1]
  /\ UNCHANGED phase

\* Stopped and drained, or failed while running.
Finish(th) ==
  /\ phase[th] \in {"running", "stopped"}
  /\ phase' = [phase EXCEPT ![th] = "over"]
  /\ UNCHANGED extra

Next == \E th \in Thread : Begin(th) \/ Stop(th) \/ StoreExtra(th) \/ Finish(th)

Spec == Init /\ [][Next]_<<phase, extra>>
=============================================================================
