----------------------------- MODULE TaskBoard -----------------------------
(***************************************************************************)
(* What `struktly tasks` promises of a task, as docs/task-format.md states *)
(* it: a task is live or filed; completing it sets its status and files it *)
(* in one step; a sweep files what is already finished as it is; a task    *)
(* that is filed is finished and stays as it is; only the user changes a   *)
(* body.                                                                   *)
(***************************************************************************)

CONSTANTS Tasks, Bodies   \* Bodies: the bodies the user may save
VARIABLE board   \* [Tasks -> [filed, status, body]]

Finished == {"done", "canceled"}

Entry == [filed : BOOLEAN, status : Finished \cup {"open"}, body : Bodies]

Init == board \in [Tasks -> {e \in Entry : e.filed => e.status \in Finished}]

CompleteTask(t) ==
  /\ ~board[t].filed
  /\ board' = [board EXCEPT ![t].filed = TRUE, ![t].status = "done"]

ArchiveTask(t) ==
  /\ ~board[t].filed /\ board[t].status \in Finished
  /\ board' = [board EXCEPT ![t].filed = TRUE]

Edit(t) ==
  /\ ~board[t].filed
  /\ \E status \in Finished \cup {"open"}, body \in Bodies :
       board' = [board EXCEPT ![t].status = status, ![t].body = body]

Next == \E t \in Tasks : CompleteTask(t) \/ ArchiveTask(t) \/ Edit(t)

Spec == Init /\ [][Next]_board
=============================================================================
