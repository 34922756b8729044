---------------------------- MODULE RunLifecycle ----------------------------
(***************************************************************************)
(* What a reader of one run is promised, whatever calls, cancels, failures *)
(* and restarts happen underneath: the run's status and the steps whose    *)
(* result is kept.  Results appear in the Op's order, only while the run   *)
(* is RUNNING, and are never withdrawn; COMPLETED means every step has     *)
(* one; an ended run moves again only by a retry, and a run that was       *)
(* completed, rejected, cancelled or stopped by its budget never does.     *)
(***************************************************************************)
EXTENDS Integers

CONSTANTS Steps      \* the Op's steps, 1 .. N in order

VARIABLES status,    \* NONE, or a state of the run machine
          done       \* the steps with a kept result

lifecycle == <<status, done>>

Init == status = "NONE" /\ done = {}

Goes(from, to) == status \in from /\ status' \in to /\ UNCHANGED done

Submit    == Goes({"NONE"}, {"SUBMITTED"})
PickUp    == Goes({"SUBMITTED"}, {"RUNNING"})
Hold      == done # Steps /\ Goes({"RUNNING"}, {"WAITING_AT_GATE"})
Decide    == Goes({"WAITING_AT_GATE"}, {"RUNNING", "REJECTED", "FAILED"})
Complete  == done = Steps /\ Goes({"RUNNING"}, {"COMPLETED"})
Stop      == Goes({"RUNNING"}, {"FAILED", "BUDGET_EXCEEDED"})
Interrupt == Goes({"RUNNING", "WAITING_AT_GATE"}, {"INTERRUPTED"})
Cancel    == Goes({"SUBMITTED", "RUNNING", "WAITING_AT_GATE"}, {"CANCELLED"})
Retry     == Goes({"FAILED", "INTERRUPTED"}, {"RUNNING"})

KeepResult(s) ==
  /\ status = "RUNNING"
  /\ s \notin done
  /\ \A r \in Steps : r < s => r \in done
  /\ done' = done \cup {s}
  /\ UNCHANGED status

Next ==
  \/ Submit \/ PickUp \/ Hold \/ Decide \/ Complete
  \/ Stop \/ Interrupt \/ Cancel \/ Retry
  \/ \E s \in Steps : KeepResult(s)

Spec == Init /\ [][Next]_lifecycle
=============================================================================
