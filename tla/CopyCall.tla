-------------------------------- MODULE CopyCall --------------------------------
(***************************************************************************)
(* What one call of Mirror.Run(ctx, src, dest, "copy", ...) promises its   *)
(* callers (the batch worker and the collectors): when it returns nil the  *)
(* image is complete at its destination; when it returns an error nothing  *)
(* is known of the destination; and it touches the destination only while  *)
(* it runs.                                                                *)
(***************************************************************************)
VARIABLES
    st,      \* "idle", "running", then what was returned: "nil" or "err"
    atDest   \* the image is complete at its destination

callVars == <<st, atDest>>

Init == st = "idle" /\ atDest = FALSE

Start == st = "idle" /\ st' = "running" /\ UNCHANGED atDest

\* A copy delivers the image, or tears down what an earlier attempt delivered.
Work == st = "running" /\ atDest' \in BOOLEAN /\ UNCHANGED st

ReturnNil == st = "running" /\ st' = "nil" /\ atDest' = TRUE

ReturnErr == st = "running" /\ st' = "err" /\ atDest' \in BOOLEAN

Next == Start \/ Work \/ ReturnNil \/ ReturnErr

Spec == Init /\ [][Next]_callVars
=============================================================================
