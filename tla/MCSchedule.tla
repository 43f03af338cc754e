----------------------------- MODULE MCSchedule -----------------------------
(***************************************************************************)
(* Schedule for TLC: one-shot and periodic tasks at once and at a given    *)
(* time, two of them with the same name.                                   *)
(***************************************************************************)
EXTENDS Schedule

Task(name, interval, start) == [name |-> name, interval |-> interval, start |-> start]

MCTasks == {Task("once", 0, 0), Task("job", 0, 3), Task("job", 2, 0), Task("everyFrom", 2, 2)}

MCOneShot == {Task("onceAt", 0, 2)}

=============================================================================
