---------------------------- MODULE BatchRefinement ----------------------------
(***************************************************************************)
(* BatchWorker implements CopyJob, and relies on Mirror.Run (CopyCall)     *)
(* only through what CopyCall promises.                                    *)
(***************************************************************************)
EXTENDS BatchWorker

Outcome(g) ==
    IF g \in failed THEN "failed"
    ELSE IF pc[g] \in {"exit", "done"} THEN "copied" ELSE "todo"

Job == INSTANCE CopyJob WITH
    n <- imgs, outcome <- [g \in Image |-> Outcome(g)], answer <- result

CallState(g) ==
    IF pc[g] \in {"idle", "running"} THEN pc[g]
    ELSE IF g \in failed THEN "err" ELSE "nil"

Call(g) == INSTANCE CopyCall WITH st <- CallState(g), atDest <- g \in copied

\* Every goroutine calls Mirror.Run once, and nothing else in the worker
\* touches the destination of its image.
CallsCopyOnce ==
    /\ \A g \in Image : Call(g)!Init
    /\ [][\A g \in Image : [Call(g)!Next]_<<CallState(g), g \in copied>>]_vars

\* Batches, goroutines, the WaitGroup and the recursion implement a job that
\* tries every image at most once and answers "ok" only when all were copied,
\* with one call of Mirror.Run for each.
ImplementsCopyJob == Job!Spec /\ CallsCopyOnce
=============================================================================
