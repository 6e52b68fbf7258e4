------------------------------ MODULE BatchWorker ------------------------------
(***************************************************************************)
(* pkg/batch/worker.go: Batch.Worker copies a list of images in batches of *)
(* BATCH_SIZE concurrent goroutines, waits for a batch before it starts    *)
(* the next, gives up after a batch in which a copy failed, and calls      *)
(* itself once for the images that do not fill a batch.                    *)
(*                                                                         *)
(* An image is its position in the list, and names the goroutine that      *)
(* copies it.  The goroutines append to errArray without a lock: the       *)
(* append is split into the loads and stores of the slice header that the  *)
(* Go compiler emits, so that every outcome of the race is explored.       *)
(***************************************************************************)
EXTENDS Integers, FiniteSets

CONSTANTS
    BATCH_SIZE,   \* size of a full batch (8 in the code)
    MaxImages     \* bound: the longest list of images considered

ASSUME BatchAssumption == BATCH_SIZE \in Nat \ {0} /\ MaxImages \in Nat

VARIABLES
    imgs,      \* len(images) of the outermost call
    base,      \* where the slice of the current call of Worker starts
    depth,     \* number of Worker calls under the outermost one
    batch,     \* i, the loop variable of the current call
    launched,  \* x, the goroutines launched in the current batch
    wpc,       \* where Worker stands: "create" a log file or "launch" a batch
    wg,        \* the counter of the sync.WaitGroup
    pc,        \* where the goroutine of each image stands
    hdr,       \* errArray: its len and cap words, and the capacity of the
               \* array its ptr word designates (0 for nil)
    reg,       \* the words of it that each goroutine has loaded
    result,    \* what Worker returned: "none" while it runs
    copied,    \* the images complete at their destination
    failed     \* history: the images for which Mirror.Run returned an error

worker == <<imgs, base, depth, batch, launched, wpc>>
vars == <<worker, wg, pc, hdr, reg, result, copied, failed>>

Image == 0 .. MaxImages - 1
EmptySlice == [len |-> 0, cap |-> 0, alloc |-> 0]
Words == {"len", "cap", "alloc"}
NotLoaded == [len |-> 0, cap |-> 0, alloc |-> 0, has |-> {}]

(***************************************************************************)
(* How a call of Worker splits n images.                                   *)
(***************************************************************************)
\* Mutant: the images that do not fill a batch are forgotten.
BatchSchema_NoRemainder(n) ==
    IF n < BATCH_SIZE
    THEN [Count |-> 1, BatchSize |-> n, Remainder |-> 0]
    ELSE [Count |-> n \div BATCH_SIZE, BatchSize |-> BATCH_SIZE, Remainder |-> 0]

BatchSchema(n) ==
    IF n < BATCH_SIZE
    THEN [Count |-> 1, BatchSize |-> n, Remainder |-> 0]
    ELSE [Count |-> n \div BATCH_SIZE, BatchSize |-> BATCH_SIZE,
          Remainder |-> n % BATCH_SIZE]

b == BatchSchema(imgs - base)

Index(x) == base + batch * b.BatchSize + x

Active == Index(0) .. Index(b.BatchSize) - 1

LiveStates == {"running", "load", "storeCap", "storePtr", "storeLen", "exit"}
Live == {g \in Image : pc[g] \in LiveStates}
Pending == {g \in Active : pc[g] # "done"}

Init ==
    /\ imgs \in 0 .. MaxImages
    /\ base = 0 /\ depth = 0 /\ batch = 0 /\ launched = 0
    /\ wpc = "create"
    /\ wg = BatchSchema(imgs).BatchSize
    /\ pc = [g \in Image |-> "idle"]
    /\ hdr = EmptySlice
    /\ reg = [g \in Image |-> NotLoaded]
    /\ result = "none"
    /\ copied = {} /\ failed = {}

-----------------------------------------------------------------------------
(***************************************************************************)
(* The loop of Worker.  A log file that cannot be created is only logged,  *)
(* so whether it was makes no difference to the run.                       *)
(***************************************************************************)
CreateLog ==
    /\ result = "none" /\ wpc = "create"
    /\ wpc' = "launch" /\ launched' = 0
    /\ UNCHANGED <<imgs, base, depth, batch, wg, pc, hdr, reg, result, copied, failed>>

Launch ==
    /\ result = "none" /\ wpc = "launch" /\ launched < b.BatchSize
    /\ pc' = [pc EXCEPT ![Index(launched)] = "running"]
    /\ launched' = launched + 1
    /\ UNCHANGED <<imgs, base, depth, batch, wpc,
                   wg, hdr, reg, result, copied, failed>>

-----------------------------------------------------------------------------
(***************************************************************************)
(* Mirror.Run, called by a goroutine: nil says that the image is at its    *)
(* destination, an error says nothing of the destination.                  *)
(***************************************************************************)
RunOk(g) ==
    /\ result = "none" /\ pc[g] = "running"
    /\ copied' = copied \cup {g}
    /\ pc' = [pc EXCEPT ![g] = "exit"]
    /\ UNCHANGED <<worker, wg, hdr, reg, result, failed>>

RunFails(g) ==
    /\ result = "none" /\ pc[g] = "running"
    /\ copied' \in {copied, copied \cup {g}}
    /\ failed' = failed \cup {g}
    /\ pc' = [pc EXCEPT ![g] = "load"]
    /\ UNCHANGED <<worker, wg, hdr, reg, result>>

(***************************************************************************)
(* errArray = append(errArray, err), unsynchronised.  The three words of   *)
(* the header are loaded, in any order; a full slice grows into a new      *)
(* array whose cap and ptr words are stored; then the len word and the     *)
(* element are stored.  Touching n elements of an array of alloc faults    *)
(* when the pointer is nil, and may fault when it is too short.            *)
(***************************************************************************)
Touch(n, alloc, otherwise) ==
    IF n <= alloc THEN {otherwise}
    ELSE IF alloc = 0 THEN {"panic"} ELSE {otherwise, "panic"}

Full(h) == h.len + 1 > h.cap
NewCap(h) == IF h.len + 1 > 2 * h.cap THEN h.len + 1 ELSE 2 * h.cap

\* What goroutine g holds once it has loaded the word w as well.
Loaded(g, w) ==
    [len |-> IF w = "len" THEN hdr.len ELSE reg[g].len,
     cap |-> IF w = "cap" THEN hdr.cap ELSE reg[g].cap,
     alloc |-> IF w = "alloc" THEN hdr.alloc ELSE reg[g].alloc,
     has |-> reg[g].has \cup {w}]

AppendLoad(g) ==
    /\ result = "none" /\ pc[g] = "load"
    /\ \E w \in Words \ reg[g].has :
           LET r == Loaded(g, w)
           IN /\ reg' = [reg EXCEPT ![g] = r]
              /\ \/ r.has # Words /\ UNCHANGED <<pc, result>>
                 \/ /\ r.has = Words /\ Full(r)
                    /\ pc' = [pc EXCEPT ![g] = "storeCap"]
                    /\ result' \in Touch(r.len, r.alloc, "none")
                 \/ /\ r.has = Words /\ ~Full(r)
                    /\ pc' = [pc EXCEPT ![g] = "storeLen"]
                    /\ UNCHANGED result
    /\ UNCHANGED <<worker, wg, hdr, copied, failed>>

AppendStoreCap(g) ==
    /\ result = "none" /\ pc[g] = "storeCap"
    /\ hdr' = [hdr EXCEPT !.cap = NewCap(reg[g])]
    /\ pc' = [pc EXCEPT ![g] = "storePtr"]
    /\ UNCHANGED <<worker, wg, reg, result, copied, failed>>

AppendStorePtr(g) ==
    /\ result = "none" /\ pc[g] = "storePtr"
    /\ hdr' = [hdr EXCEPT !.alloc = NewCap(reg[g])]
    /\ pc' = [pc EXCEPT ![g] = "storeLen"]
    /\ UNCHANGED <<worker, wg, reg, result, copied, failed>>

AppendStoreLen(g) ==
    /\ result = "none" /\ pc[g] = "storeLen"
    /\ hdr' = [hdr EXCEPT !.len = reg[g].len + 1]
    /\ \/ Full(reg[g]) /\ UNCHANGED result
       \/ ~Full(reg[g]) /\ result' \in Touch(reg[g].len + 1, reg[g].alloc, "none")
    /\ pc' = [pc EXCEPT ![g] = "exit"]
    /\ reg' = [reg EXCEPT ![g] = NotLoaded]
    /\ UNCHANGED <<worker, wg, copied, failed>>

\* Mutant: wg.Done is not deferred, and the error path misses it.
Done_OnlyOnSuccess(g) ==
    /\ result = "none" /\ pc[g] = "exit"
    /\ pc' = [pc EXCEPT ![g] = "done"]
    /\ wg' = IF g \in failed THEN wg ELSE wg - 1
    /\ UNCHANGED <<worker, hdr, reg, result, copied, failed>>

Done(g) ==
    /\ result = "none" /\ pc[g] = "exit"
    /\ pc' = [pc EXCEPT ![g] = "done"]
    /\ wg' = wg - 1
    /\ UNCHANGED <<worker, hdr, reg, result, copied, failed>>

-----------------------------------------------------------------------------
(***************************************************************************)
(* After wg.Wait: what Worker does with a finished batch.                  *)
(***************************************************************************)
\* Mutant: no wg.Wait.
BatchDone_NoWait == result = "none" /\ wpc = "launch" /\ launched = b.BatchSize

BatchDone == result = "none" /\ wpc = "launch" /\ launched = b.BatchSize /\ wg = 0

\* Mutant: the WaitGroup is filled for the first batch only.
WgAfterBatch_Missing == wg

WgAfterBatch == IF b.Count > 1 THEN wg + BATCH_SIZE ELSE wg

\* Mutant: the loop over errArray reads one element too many.
BatchFailed_OffByOne ==
    /\ BatchDone /\ hdr.len > 0
    /\ wg' = WgAfterBatch
    /\ result' \in Touch(hdr.len + 1, hdr.alloc, "error")
    /\ UNCHANGED <<worker, pc, hdr, reg, copied, failed>>

BatchFailed ==
    /\ BatchDone /\ hdr.len > 0
    /\ wg' = WgAfterBatch
    /\ result' \in Touch(hdr.len, hdr.alloc, "error")
    /\ UNCHANGED <<worker, pc, hdr, reg, copied, failed>>

\* Mutant: a failed batch does not stop the run.
NextBatch_IgnoresErrors ==
    /\ BatchDone /\ batch + 1 < b.Count
    /\ batch' = batch + 1
    /\ wpc' = "create"
    /\ wg' = WgAfterBatch
    /\ UNCHANGED <<imgs, base, depth, launched,
                   pc, hdr, reg, result, copied, failed>>

NextBatch ==
    /\ BatchDone /\ hdr.len = 0 /\ batch + 1 < b.Count
    /\ batch' = batch + 1
    /\ wpc' = "create"
    /\ wg' = WgAfterBatch
    /\ UNCHANGED <<imgs, base, depth, launched,
                   pc, hdr, reg, result, copied, failed>>

\* The recursive call has an errArray and a WaitGroup of its own.
Recurse ==
    /\ BatchDone /\ hdr.len = 0 /\ batch + 1 >= b.Count /\ b.Remainder > 0
    /\ base' = base + b.Count * BATCH_SIZE
    /\ depth' = depth + 1
    /\ batch' = 0
    /\ wpc' = "create"
    /\ hdr' = EmptySlice
    /\ wg' = BatchSchema(imgs - base').BatchSize
    /\ UNCHANGED <<imgs, launched, pc, reg, result, copied, failed>>

ReturnOk ==
    /\ BatchDone /\ hdr.len = 0 /\ batch + 1 >= b.Count /\ b.Remainder = 0
    /\ wg' = WgAfterBatch
    /\ result' = "ok"
    /\ UNCHANGED <<worker, pc, hdr, reg, copied, failed>>

Terminated == result # "none" /\ UNCHANGED vars

Worker == CreateLog \/ Launch \/ BatchFailed \/ NextBatch \/ Recurse \/ ReturnOk

AppendErr(g) == AppendLoad(g) \/ AppendStoreCap(g) \/ AppendStorePtr(g) \/ AppendStoreLen(g)

Goroutine(g) == RunOk(g) \/ RunFails(g) \/ AppendErr(g) \/ Done(g)

Next == Worker \/ (\E g \in Image : Goroutine(g)) \/ Terminated

Spec == Init /\ [][Next]_vars

(***************************************************************************)
(* The Go scheduler runs every runnable goroutine, and Mirror.Run returns: *)
(* the registries either answer or fail.                                   *)
(***************************************************************************)
Fairness == WF_vars(Worker) /\ \A g \in Image : WF_vars(Goroutine(g))

FairSpec == Spec /\ Fairness

-----------------------------------------------------------------------------
(***************************************************************************)
(* Properties.                                                             *)
(***************************************************************************)

\* Type invariant of Worker's locals, the goroutines and the slice header.
TypeOK ==
    /\ imgs \in 0 .. MaxImages
    /\ base \in Nat /\ depth \in Nat /\ batch \in Nat /\ launched \in Nat
    /\ wpc \in {"create", "launch"}
    /\ wg \in Nat
    /\ pc \in [Image -> LiveStates \cup {"idle", "done"}]
    /\ hdr \in [len : Nat, cap : Nat, alloc : Nat]
    /\ reg \in [Image -> [len : Nat, cap : Nat, alloc : Nat, has : SUBSET Words]]
    /\ result \in {"none", "ok", "error", "panic"}
    /\ copied \subseteq Image /\ failed \subseteq Image

\* Worker returns nil only when every image of the list is at its
\* destination and no copy failed: the unsynchronised append to errArray
\* (worker.go:92) may lose errors, never the fact that there was one.
OkMeansCopied ==
    result = "ok" => failed = {} /\ 0 .. imgs - 1 \subseteq copied

\* Worker returns its error only when a copy failed, and only after every
\* goroutine it launched has finished.
ErrorMeansFailedCopy ==
    result = "error" => failed # {} /\ Live = {}

\* At most BATCH_SIZE copies are in flight, whatever the length of the list.
BoundedConcurrency == Cardinality(Live) <= BATCH_SIZE

\* The WaitGroup (worker.go:75,89,103) counts exactly the goroutines of the
\* current batch that have not finished, those still to be launched included.
\* Below zero sync.WaitGroup panics; above it wg.Wait never returns.
WaitGroupExact == result = "none" => wg = Cardinality(Pending)

\* The remainder is handled by "one level of simple recursion"
\* (worker.go:113), on fewer images than a batch.
OneLevelOfRecursion ==
    depth <= 1 /\ (depth = 1 => imgs - base < BATCH_SIZE)

\* The racy append can only fault when two copies of the same batch failed.
PanicNeedsTwoFailures ==
    result = "panic" => Cardinality(failed \cap Active) >= 2

LaunchesNext ==
    \A g \in Image :
        pc'[g] = "running" /\ pc[g] # "running" =>
            pc[g] = "idle" /\ Live \cup failed \subseteq Active

\* A goroutine is launched once, with every goroutine outside its own batch
\* finished and with no failure in an earlier batch: a failed batch stops
\* the run.
LaunchInOrder == [][LaunchesNext]_vars

\* Worker returns: no goroutine waits for another, wg.Wait is always released
\* and the batches and the recursion come to an end.
Termination == <>(result # "none")

(***************************************************************************)
(* The inductive invariant behind the safety properties.                   *)
(***************************************************************************)

\* The first image that has not been launched.
Frontier == Index(IF wpc = "launch" THEN launched ELSE 0)

\* The current call works on a slice of the list and its batch lies inside it.
FrameInv ==
    /\ base <= imgs
    /\ depth = 0 => base = 0
    /\ OneLevelOfRecursion
    /\ batch < b.Count
    /\ wpc = "launch" => launched <= b.BatchSize

\* Earlier batches finished without a failure, later ones are untouched.
LaunchInv ==
    \A g \in Image :
        /\ g < Index(0) => pc[g] = "done" /\ g \notin failed
        /\ Index(0) <= g /\ g < Frontier => pc[g] # "idle"
        /\ Frontier <= g => pc[g] = "idle"

\* A goroutine past Mirror.Run has copied its image or has failed, and a
\* failure is visible in the length of errArray before wg.Done.
CallInv ==
    /\ \A g \in Image :
        /\ pc[g] \in {"idle", "running"} => g \notin failed
        /\ pc[g] \in LiveStates \ {"running", "exit"} => g \in failed
        /\ pc[g] \in {"exit", "done"} /\ g \notin failed => g \in copied
        /\ pc[g] \in {"exit", "done"} /\ g \in failed => hdr.len > 0
    /\ hdr.len > 0 => failed # {}

\* Everything the proofs need of a reachable state: where Worker and its
\* goroutines stand, what the WaitGroup counts and what a result means.
BatchInv ==
    /\ TypeOK
    /\ FrameInv
    /\ LaunchInv
    /\ CallInv
    /\ WaitGroupExact
    /\ OkMeansCopied
    /\ ErrorMeansFailedCopy

\* The slice header while the goroutine of g makes the only append so far.
SoloAppend(g) ==
    /\ pc[g] \in {"load", "storeCap"} => hdr = EmptySlice
    /\ pc[g] = "storePtr" => hdr = [EmptySlice EXCEPT !.cap = 1]
    /\ pc[g] = "storeLen" => hdr = [EmptySlice EXCEPT !.cap = 1, !.alloc = 1]
    /\ pc[g] \in {"exit", "done"} => hdr = [len |-> 1, cap |-> 1, alloc |-> 1]
    /\ pc[g] \in {"load", "storeCap", "storePtr", "storeLen"} =>
           reg[g].len = 0 /\ reg[g].cap = 0 /\ reg[g].alloc = 0

\* A single failure leaves a sound errArray behind: only a second one can make
\* the header inconsistent.
AppendInv ==
    /\ failed = {} => hdr = EmptySlice
    /\ \A g \in Image \ failed : reg[g] = NotLoaded
    /\ \A g \in failed : failed = {g} => SoloAppend(g)
    /\ result = "panic" => \E g, h \in failed : g # h

\* The whole inductive invariant, with the race on errArray.
WorkerInv == BatchInv /\ AppendInv

\* worker.go:109 reports a failed batch with "refer to console logs": every
\* failed copy should be one of the errors of errArray that lines 106-108 log.
EveryErrorLogged ==
    result = "error" => hdr.len = Cardinality(failed)
=============================================================================
