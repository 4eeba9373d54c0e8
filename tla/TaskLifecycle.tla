--------------------------- MODULE TaskLifecycle ---------------------------
(***************************************************************************)
(* What internal/runtime/task.go promises to the users of a TaskManager,   *)
(* without its goroutines, its locks and its maps: every task moves along  *)
(* the lifecycle drawn in the comment of Task and TaskManager              *)
(*                                                                         *)
(*    absent -> pending -> running -> completed | failed | cancelled       *)
(*                                                                         *)
(* never backwards, it becomes cancelled only if somebody asked for it,    *)
(* and once submitted it always reaches a terminal status.                 *)
(***************************************************************************)

CONSTANT Ids  \* the identifiers a task may get

VARIABLES
  state,      \* lifecycle state of every identifier
  requested   \* the tasks whose cancellation was accepted

vars == <<state, requested>>

Terminal == {"completed", "failed", "cancelled"}

Statuses == {"pending", "running"} \cup Terminal

TypeOK ==
  /\ state \in [Ids -> Statuses \cup {"absent"}]
  /\ requested \subseteq Ids

Init ==
  /\ state = [id \in Ids |-> "absent"]
  /\ requested = {}

Move(id, from, to) ==
  /\ state[id] = from
  /\ state' = [state EXCEPT ![id] = to]

Submit(id) == Move(id, "absent", "pending") /\ UNCHANGED requested

Start(id) == Move(id, "pending", "running") /\ UNCHANGED requested

Request(id) ==
  /\ state[id] \in {"pending", "running"}
  /\ requested' = requested \cup {id}
  /\ UNCHANGED state

Finish(id, s) ==
  /\ s = "cancelled" => id \in requested
  /\ Move(id, "running", s)
  /\ UNCHANGED requested

Progress(id) == Start(id) \/ \E s \in Terminal : Finish(id, s)

Next == \E id \in Ids : Submit(id) \/ Request(id) \/ Progress(id)

SafetySpec == Init /\ [][Next]_vars

Spec == SafetySpec /\ \A id \in Ids : WF_vars(Progress(id))
=============================================================================
