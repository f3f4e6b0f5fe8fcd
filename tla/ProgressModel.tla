------------------------------ MODULE ProgressModel ------------------------------
(***************************************************************************)
(* ProgressModel (python/subunit/progress_model.py): how far a run has got,*)
(* as a stack of subtasks.  pos and width summarise the stack: a subtask   *)
(* stands for one step of the task below it.                               *)
(***************************************************************************)
EXTENDS Integers, Sequences

VARIABLE _tasks   \* [pos, width, num, den]: num of den was done when it was pushed

Top == _tasks[Len(_tasks)]
Below(tasks) == SubSeq(tasks, 1, Len(tasks) - 1)

\* width or 1: a width that is not known does not scale anything.
Scale(task) == IF task.width = 0 THEN 1 ELSE task.width

\* pos and width as they are when the tasks above the i-th have been popped.
PosAt(tasks, i) ==
    IF i = 0 THEN 0
    ELSE tasks[i].pos + IF i > 1 THEN tasks[i].num * Scale(tasks[i]) ELSE 0

WidthAt(tasks, i) ==
    IF i = 0 THEN 0
    ELSE IF i > 1 THEN tasks[i].den * Scale(tasks[i]) ELSE tasks[i].width

pos(tasks) == PosAt(tasks, Len(tasks))
width(tasks) == WidthAt(tasks, Len(tasks))

push ==
    _tasks' = Append(_tasks, [pos |-> 0, width |-> 0, num |-> pos(_tasks), den |-> width(_tasks)])

\* The last task can be popped too.  On an empty stack these four raise
\* IndexError and leave it empty.
pop == _tasks # <<>> /\ _tasks' = Below(_tasks)

advance == _tasks # <<>> /\ _tasks' = [_tasks EXCEPT ![Len(_tasks)].pos = @ + 1]

set_width(to) == _tasks # <<>> /\ _tasks' = [_tasks EXCEPT ![Len(_tasks)].width = to]

adjust_width(offset) ==
    _tasks # <<>> /\ _tasks' = [_tasks EXCEPT ![Len(_tasks)].width = @ + offset]

Init == _tasks = << [pos |-> 0, width |-> 0, num |-> 0, den |-> 0] >>

Next ==
    \/ push \/ pop \/ advance
    \/ \E to \in Nat : set_width(to)
    \/ \E offset \in Int : adjust_width(offset)

Spec == Init /\ [][Next]_<<_tasks>>
-------------------------------------------------------------------------------
(* Properties. *)

Task == [pos : Nat, width : Int, num : Int, den : Int]
TypeOK == _tasks \in Seq(Task)

\* What a subtask has saved is still the summary of the tasks below it, however
\* its own width and theirs have come about: pop goes back to where push was.
SavedIsCurrent ==
    \A i \in 2 .. Len(_tasks) :
        _tasks[i].num = PosAt(_tasks, i - 1) /\ _tasks[i].den = WidthAt(_tasks, i - 1)

\* A push is not seen in the summary ("after pushing a new subtask, the overall
\* progress hasn't changed"), and a pop shows again what it was when the subtask
\* was pushed ("restore the progress model to the state before push").
PushIsNotSeen ==
    [][push => pos(_tasks') = pos(_tasks) /\ width(_tasks') = width(_tasks)]_<<_tasks>>
PopRestores ==
    [][(pop /\ Len(_tasks) > 1) =>
          pos(_tasks') = Top.num /\ width(_tasks') = Top.den]_<<_tasks>>

\* While no more has been done of a subtask than its width, the summary stays
\* within the one step it stands for: from num of den to num + 1 of den.
StaysInItsStep ==
    (Len(_tasks) > 1 /\ Top.width > 0 /\ Top.pos <= Top.width /\ Top.den > 0) =>
        /\ Top.num * width(_tasks) <= pos(_tasks) * Top.den
        /\ pos(_tasks) * Top.den <= (Top.num + 1) * width(_tasks)
===============================================================================
