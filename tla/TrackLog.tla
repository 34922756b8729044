------------------------------ MODULE TrackLog ------------------------------
(***************************************************************************)
(* What a Track store promises (track.TrackStore): per run, one log that   *)
(* only grows at its end, with at most one submission, in which a          *)
(* conditional append lands only where its condition holds.                *)
(*                                                                         *)
(* An entry's number is its place in the order readers replay; numbers     *)
(* may have gaps.  The conditional entry is a client's request, which the  *)
(* condition of intents.request_cancel guards: the run was submitted, has  *)
(* not ended, and holds no request yet.                                    *)
(***************************************************************************)
EXTENDS Naturals

CONSTANTS Runs

VARIABLES log        \* per run, its entries

Kinds   == {"submitted", "ended", "request"}
Entries == [seq : Nat \ {0}, kind : Kinds]

Holds(entries, kind) == \E e \in entries : e.kind = kind

\* The condition a request is appended under.
StillWanted(entries) ==
  Holds(entries, "submitted") /\ ~Holds(entries, "ended") /\ ~Holds(entries, "request")

Init == log = [r \in Runs |-> {}]

Append(r, e) ==
  /\ \A old \in log[r] : old.seq < e.seq
  /\ e.kind = "submitted" => ~Holds(log[r], "submitted")
  /\ e.kind = "request" => StillWanted(log[r])
  /\ log' = [log EXCEPT ![r] = @ \cup {e}]

Next == \E r \in Runs : \E e \in log'[r] : Append(r, e)

Spec == Init /\ [][Next]_log
=============================================================================
