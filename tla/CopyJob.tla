-------------------------------- MODULE CopyJob --------------------------------
(***************************************************************************)
(* What Batch.Worker promises the executor, without batches, goroutines or *)
(* recursion: every image of the list is tried at most once; success is    *)
(* returned only when every one was copied, an error only when one failed; *)
(* and the program can only fault when two copies failed together.         *)
(***************************************************************************)
EXTENDS Integers

CONSTANT Image

VARIABLES
    n,         \* length of the list: its images are 0 .. n - 1
    outcome,   \* of each image: "todo", "copied" or "failed"
    answer     \* of the job: "none", "ok", "error" or "panic"

jobVars == <<n, outcome, answer>>

FailedImages == {i \in Image : outcome[i] = "failed"}

Init ==
    /\ n \in Nat /\ 0 .. n - 1 \subseteq Image
    /\ outcome = [i \in Image |-> "todo"]
    /\ answer = "none"

Try(i) ==
    /\ answer = "none" /\ i < n /\ outcome[i] = "todo"
    /\ \E o \in {"copied", "failed"} : outcome' = [outcome EXCEPT ![i] = o]
    /\ UNCHANGED <<n, answer>>

Succeed ==
    /\ answer = "none"
    /\ \A i \in Image : i < n => outcome[i] = "copied"
    /\ answer' = "ok"
    /\ UNCHANGED <<n, outcome>>

Fail ==
    /\ answer = "none" /\ FailedImages # {}
    /\ answer' = "error"
    /\ UNCHANGED <<n, outcome>>

Fault ==
    /\ answer = "none" /\ (\E i, j \in FailedImages : i # j)
    /\ answer' = "panic"
    /\ UNCHANGED <<n, outcome>>

Next == (\E i \in Image : Try(i)) \/ Succeed \/ Fail \/ Fault

Spec == Init /\ [][Next]_jobVars
=============================================================================
