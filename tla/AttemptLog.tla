----------------------------- MODULE AttemptLog -----------------------------
(***************************************************************************)
(* What a run directory promises to whoever reads it: a set of rows with   *)
(* at most one row per attempt key, from which only inconclusive rows may  *)
(* ever disappear (unless the user wipes the directory), and a status that *)
(* says "complete" only of a plan whose every key has a row.               *)
(***************************************************************************)
CONSTANTS Keys, Rows, Plans

VARIABLES
  rows,    \* the readable attempt rows
  status,  \* "idle", "running", "wiping" or "complete"
  plan     \* the keys the directory's record claims to cover

logVars == <<rows, status, plan>>

Answered(key) == \E row \in rows : row.key = key
Conclusive(row) == row.result # "IF"

Init == rows = {} /\ status = "idle" /\ plan \in Plans

\* A session over the plan p starts; only a wiping one may delete answers.
Start(p) ==
  /\ status \in {"idle", "complete"}
  /\ status' \in {"running", "wiping"} /\ plan' = p /\ UNCHANGED rows
Wipe ==
  /\ status = "wiping"
  /\ rows' = {} /\ UNCHANGED <<status, plan>>
Wiped ==
  /\ status = "wiping" /\ rows = {}
  /\ status' = "running" /\ UNCHANGED <<rows, plan>>
Requeue ==
  /\ status = "running"
  /\ rows' = {row \in rows : Conclusive(row)}
  /\ UNCHANGED <<status, plan>>
Record(row) ==
  /\ status = "running" /\ row.key \in plan /\ ~Answered(row.key)
  /\ rows' = rows \cup {row}
  /\ UNCHANGED <<status, plan>>
Stop ==
  /\ status \in {"running", "wiping"}
  /\ status' = "idle" /\ UNCHANGED <<rows, plan>>
Complete ==
  /\ status = "running" /\ \A key \in plan : Answered(key)
  /\ status' = "complete" /\ UNCHANGED <<rows, plan>>

Next ==
  \/ \E p \in Plans : Start(p)
  \/ Wipe \/ Wiped \/ Requeue
  \/ \E row \in Rows : Record(row)
  \/ Stop \/ Complete

Spec == Init /\ [][Next]_logVars
=============================================================================
