-------------------------------- MODULE MirrorRun --------------------------------
(***************************************************************************)
(* pkg/mirror/mirror.go: one call of Mirror.Run, which copies or deletes   *)
(* an image.  The options are checked, then the operation is run inside    *)
(* retry.IfNecessary (containers/common): a transient error is retried     *)
(* after a delay, at most MaxRetry times and only until the command's      *)
(* timeout; any other error ends the call.                                 *)
(***************************************************************************)
EXTENDS Integers

CONSTANT MaxRetry     \* --retry-times (0 unless the flag is given)

ASSUME RetryAssumption == MaxRetry \in Nat

VARIABLES
    mode,      \* "copy" or "delete"
    opts,      \* CopyOptions: is DigestFile set, is CommandTimeout set
    step,      \* where the call stands
    attempt,   \* the loop variable of retry.IfNecessary
    err,       \* what the last run of the operation returned
    ctxDone,   \* the context of CommandTimeoutContext has expired
    digest,    \* the digest of the image was written to DigestFile
    tries,     \* history: how often the operation was run
    atDest,    \* the image is complete at its destination
    ret        \* what Run returned: "none" while it runs

vars == <<mode, opts, step, attempt, err, ctxDone, digest, tries, atDest, ret>>

Errors == {"retryable", "permanent"}

Init ==
    /\ mode \in {"copy", "delete"}
    /\ opts \in [DigestFile : BOOLEAN, CommandTimeout : BOOLEAN]
    /\ step = "idle" /\ attempt = 0 /\ err = "none" /\ tries = 0
    /\ ctxDone = FALSE /\ digest = FALSE
    /\ atDest = (mode = "delete")
    /\ ret = "none"

Call ==
    /\ step = "idle" /\ step' = "setup"
    /\ UNCHANGED <<mode, opts, attempt, err, ctxDone, digest, tries, atDest, ret>>

-----------------------------------------------------------------------------
(***************************************************************************)
(* The checks before the operation: names, system contexts, incompatible   *)
(* options, passphrase file.  Those of a copy that follow the creation of  *)
(* the policy context leave through the deferred Destroy.                  *)
(***************************************************************************)
SetupFails ==
    /\ step = "setup"
    /\ err' = "permanent"
    /\ \/ step' = "returned" /\ ret' = "err"
       \/ mode = "copy" /\ step' = "close" /\ UNCHANGED ret
    /\ UNCHANGED <<mode, opts, attempt, ctxDone, digest, tries, atDest>>

SetupOk ==
    /\ step = "setup" /\ step' = "operation"
    /\ UNCHANGED <<mode, opts, attempt, err, ctxDone, digest, tries, atDest, ret>>

\* CommandTimeoutContext: without a timeout the context never expires.
Expire ==
    /\ opts.CommandTimeout /\ ~ctxDone
    /\ step \in {"operation", "digest", "judge", "backoff"}
    /\ ctxDone' = TRUE
    /\ UNCHANGED <<mode, opts, step, attempt, err, digest, tries, atDest, ret>>

-----------------------------------------------------------------------------
(***************************************************************************)
(* The operation: CopyImage and the digest file, or DeleteImage.  A copy   *)
(* starts by erasing what the destination holds, and an error may come     *)
(* from its clean-up: nothing is known of the destination after an error.  *)
(***************************************************************************)
OperationOk ==
    /\ step = "operation"
    /\ tries' = tries + 1
    /\ atDest' = (mode = "copy")
    /\ IF mode = "copy" /\ opts.DigestFile
       THEN step' = "digest" /\ UNCHANGED err
       ELSE step' = "judge" /\ err' = "nil"
    /\ UNCHANGED <<mode, opts, attempt, ctxDone, digest, ret>>

OperationFails ==
    /\ step = "operation"
    /\ tries' = tries + 1
    /\ atDest' \in BOOLEAN
    /\ err' \in Errors
    /\ step' = "judge"
    /\ UNCHANGED <<mode, opts, attempt, ctxDone, digest, ret>>

\* Mutant: the error of the digest file is shadowed and lost.
WriteDigest_ErrLost ==
    /\ step = "digest" /\ step' = "judge"
    /\ err' = "nil" /\ digest' \in {digest, TRUE}
    /\ UNCHANGED <<mode, opts, attempt, ctxDone, tries, atDest, ret>>

WriteDigest ==
    /\ step = "digest" /\ step' = "judge"
    /\ \/ err' = "nil" /\ digest' = TRUE
       \/ err' \in Errors /\ UNCHANGED digest
    /\ UNCHANGED <<mode, opts, attempt, ctxDone, tries, atDest, ret>>

-----------------------------------------------------------------------------
(***************************************************************************)
(* retry.IfNecessary, as the calls of mirror.go:246 and 287 use it.        *)
(***************************************************************************)
\* Mutants: one retry too few, any error retried.
ShouldRetry_OneLess == err = "retryable" /\ attempt + 1 < MaxRetry
ShouldRetry_AnyError == err # "nil" /\ attempt < MaxRetry

ShouldRetry == err = "retryable" /\ attempt < MaxRetry

Judge ==
    /\ step = "judge"
    /\ step' = IF ShouldRetry THEN "backoff" ELSE "close"
    /\ UNCHANGED <<mode, opts, attempt, err, ctxDone, digest, tries, atDest, ret>>

\* Mutant: the select has no case for the timer.
DelayOver_NoTimer ==
    /\ step = "backoff" /\ ctxDone /\ step' = "operation"
    /\ attempt' = attempt + 1
    /\ UNCHANGED <<mode, opts, err, ctxDone, digest, tries, atDest, ret>>

DelayOver ==
    /\ step = "backoff" /\ step' = "operation"
    /\ attempt' = attempt + 1
    /\ UNCHANGED <<mode, opts, err, ctxDone, digest, tries, atDest, ret>>

DelayCancelled ==
    /\ step = "backoff" /\ ctxDone /\ step' = "close"
    /\ UNCHANGED <<mode, opts, attempt, err, ctxDone, digest, tries, atDest, ret>>

\* Mutant: the deferred function overwrites the error of the operation.
Close_ErrLost ==
    /\ step = "close" /\ step' = "returned"
    /\ ret' \in {"nil", "err"}
    /\ UNCHANGED <<mode, opts, attempt, err, ctxDone, digest, tries, atDest>>

\* The deferred Destroy of a copy may turn a nil into an error.
Close ==
    /\ step = "close" /\ step' = "returned"
    /\ \/ ret' = IF err = "nil" THEN "nil" ELSE "err"
       \/ mode = "copy" /\ ret' = "err"
    /\ UNCHANGED <<mode, opts, attempt, err, ctxDone, digest, tries, atDest>>

Returned == step = "returned" /\ UNCHANGED vars

Run == \/ Call \/ SetupFails \/ SetupOk \/ OperationOk \/ OperationFails
       \/ WriteDigest \/ Judge \/ DelayOver \/ DelayCancelled \/ Close

Next == Run \/ Expire \/ Returned

Spec == Init /\ [][Next]_vars

(***************************************************************************)
(* The goroutine runs, timers fire and the registry answers or fails.  The *)
(* timeout itself is never needed for the call to end.                     *)
(***************************************************************************)
FairSpec == Spec /\ WF_vars(Run)

-----------------------------------------------------------------------------
\* Type invariant of the call.
TypeOK ==
    /\ mode \in {"copy", "delete"}
    /\ opts \in [DigestFile : BOOLEAN, CommandTimeout : BOOLEAN]
    /\ step \in {"idle", "setup", "operation", "digest", "judge", "backoff",
                 "close", "returned"}
    /\ attempt \in 0 .. MaxRetry /\ tries \in 0 .. MaxRetry + 1
    /\ err \in Errors \cup {"none", "nil"}
    /\ ctxDone \in BOOLEAN /\ digest \in BOOLEAN /\ atDest \in BOOLEAN
    /\ ret \in {"none", "nil", "err"}

\* The work that was asked for is done.
Accomplished == IF mode = "copy" THEN atDest /\ (opts.DigestFile => digest) ELSE ~atDest

\* Run returns nil only when the last attempt did all of its work: after a
\* copy the image is complete and its digest written, also when an earlier
\* attempt had delivered the image and failed on the digest file
\* (mirror.go:249-263); after a delete it is gone.
NilMeansDone ==
    ret = "nil" => Accomplished

\* Run gives up on a transient error only when it has spent its retries or
\* the context expired while it waited.
RetriesSpent ==
    ret = "err" /\ err = "retryable" => tries = MaxRetry + 1 \/ ctxDone

\* The operation is run again only after a transient error: a success or a
\* permanent error is final.
RetriesOnlyTransient == [][tries' # tries => err \in {"none", "retryable"}]_vars

\* Every call of Run returns.
Termination == <>(step = "returned")

(***************************************************************************)
(* The inductive invariant behind the safety properties.                   *)
(***************************************************************************)
\* Where the call stands tells how often the operation was run and what its
\* last run returned.
StepInv ==
    /\ step \in {"idle", "setup"} => tries = 0 /\ attempt = 0 /\ err = "none"
    /\ step = "idle" => atDest = (mode = "delete")
    /\ step = "operation" => tries = attempt /\ err \in {"none", "retryable"}
    /\ step = "digest" =>
           tries = attempt + 1 /\ mode = "copy" /\ atDest /\ err \in {"none", "retryable"}
    /\ step = "judge" => tries = attempt + 1 /\ err # "none"
    /\ step = "backoff" => tries = attempt + 1 /\ err = "retryable" /\ attempt < MaxRetry
    /\ step \in {"close", "returned"} /\ err = "retryable" =>
           tries = attempt + 1 /\ (attempt = MaxRetry \/ ctxDone)
    /\ err = "nil" => step \in {"judge", "close", "returned"} /\ Accomplished
    /\ ret = "none" <=> step # "returned"
    /\ ret = "nil" => err = "nil"

\* A reachable state of the call, as the proofs need it.
RunInv == TypeOK /\ StepInv

CallState ==
    CASE mode = "delete" \/ step = "idle" -> "idle"
      [] mode = "copy" /\ step # "idle" /\ ret = "none" -> "running"
      [] OTHER -> ret

Promise == INSTANCE CopyCall WITH st <- CallState, atDest <- mode = "copy" /\ atDest

\* The copy, its retries and its deferred clean-up keep the promise that the
\* worker and the collectors rely on.
ImplementsCopyCall == Promise!Spec
=============================================================================
