-------------------------------- MODULE Signatures --------------------------------
(***************************************************************************)
(* pkg/release/cincinnati.go, GenerateReleaseSignatures: for every release *)
(* image, read its signature from the cache or request it, replace the     *)
(* image by the reference that the signature names, and write the cache.   *)
(* The cache outlives the run.                                             *)
(*                                                                         *)
(* An image is its digest; the signature of digest d is d, and so is the   *)
(* reference that it names.  A file or answer is a whole signature, a      *)
(* whole message whose signature does not verify, "cut" short or "empty".  *)
(***************************************************************************)
EXTENDS Integers, Sequences

CONSTANTS
    Digests,    \* digests of release images
    Unverified, \* of each digest, a message for it whose signature does not verify
    Images,     \* the sequence of images listed, rd; it may repeat one
    MaxRuns     \* bound: how often the program is run

ASSUME SignatureAssumption ==
    /\ Images \in Seq(Digests) /\ MaxRuns \in Nat
    /\ DOMAIN Unverified = Digests
    /\ \A d, e \in Digests : Unverified[d] # e
    /\ \A d \in Digests : {"absent", "cut", "empty"} \cap {d, Unverified[d]} = {}

\* The whole messages for one digest, and for all.
Own(d) == {d, Unverified[d]}
Messages == UNION {Own(d) : d \in Digests}

VARIABLES
    cache,      \* file of each digest: "absent" or its contents
    unusable,   \* messages whose signature is not in the V3 format, or by no known key
    pc,         \* "read", "request", "verify", "write", "fill" or "done"
    next,       \* index of the image
    data,       \* what was read or received
    imgs,       \* the references found
    result,     \* "none", "ok", "error", "panic" or "killed"
    run,
    requested,  \* history: requests in this run for each digest
    lucky,      \* history: every answer and write of this run was good
    clean       \* history: all earlier runs were lucky and none was killed

vars == <<cache, unusable, pc, next, data, imgs, result, run, requested, lucky, clean>>
history == <<run, clean>>

Init ==
    /\ pc = "read" /\ next = 1 /\ data = "empty" /\ imgs = <<>> /\ result = "none"
    /\ requested = [d \in Digests |-> 0] /\ lucky = TRUE
    /\ cache = [d \in Digests |-> "absent"] /\ unusable \in SUBSET Messages
    /\ run = 1 /\ clean = TRUE

digest == Images[next]
Stop(how) == pc' = "done" /\ result' = how

\* Mutant: what was read for the image before is kept when there is no file.
Contents_Kept == IF cache[digest] = "absent" THEN data ELSE cache[digest]

\* os.ReadFile returns nothing when there is no file.
Contents == IF cache[digest] = "absent" THEN "empty" ELSE cache[digest]

ReadCache ==
    /\ pc = "read" /\ next <= Len(Images)
    /\ data' = Contents
    /\ pc' = IF data' = "empty" THEN "request" ELSE "verify"
    /\ UNCHANGED <<cache, unusable, next, imgs, result, requested, lucky, history>>

\* The answer is a message, whole or cut short, or there is none.  Without any
\* answer the response is nil, and closing its body panics.
Request ==
    /\ pc = "request" /\ requested' = [requested EXCEPT ![digest] = @ + 1]
    /\ \/ /\ data' \in Own(digest) \cup {"cut", "empty"} /\ pc' = "verify"
          /\ lucky' = (lucky /\ data' = digest)
          /\ UNCHANGED result
       \/ Stop("panic") /\ lucky' = FALSE /\ UNCHANGED data
    /\ UNCHANGED <<cache, unusable, next, imgs, history>>

\* Mutant: an image without a signature is passed over.
Missing_Skips ==
    /\ pc = "verify" /\ data = "empty" /\ pc' = "read" /\ next' = next + 1
    /\ UNCHANGED <<cache, unusable, data, imgs, result, requested, lucky, history>>

Missing ==
    /\ pc = "verify" /\ data = "empty" /\ Stop("error") /\ imgs' = <<>>
    /\ UNCHANGED <<cache, unusable, next, data, requested, lucky, history>>

\* The message cannot be read and md is nil, or its contents, which need not be
\* what was signed, are not JSON.
Damaged ==
    /\ pc = "verify" /\ data \notin Digests \cup {"empty"} /\ imgs' = <<>>
    /\ Stop("panic") \/ Stop("error")
    /\ UNCHANGED <<cache, unusable, next, data, requested, lucky, history>>

\* md.SignatureError is only logged, and so is that md.SignedBy or md.SignatureV3
\* is nil, before they are used.
Verify ==
    /\ pc = "verify" /\ data \in Messages
    /\ \/ data \notin unusable /\ pc' = "write" /\ UNCHANGED <<result, lucky>>
       \/ data \in unusable /\ Stop("panic") /\ lucky' = FALSE
    /\ UNCHANGED <<cache, unusable, next, data, imgs, requested, history>>

\* os.WriteFile, also of what came from the cache: it opens and truncates the
\* file, or fails to.
WriteStarts ==
    /\ pc = "write"
    /\ \/ cache' = [cache EXCEPT ![digest] = "empty"] /\ pc' = "fill" /\ UNCHANGED <<next, imgs, lucky>>
       \/ /\ pc' = "read" /\ next' = next + 1 /\ imgs' = Append(imgs, data)
          /\ lucky' = FALSE /\ UNCHANGED cache
    /\ UNCHANGED <<unusable, data, result, requested, history>>

\* Mutant: the file is written under the name of the first image.
WriteEnds_First ==
    /\ pc = "fill" /\ pc' = "read" /\ next' = next + 1 /\ imgs' = Append(imgs, data)
    /\ cache' = [cache EXCEPT ![Images[1]] = data]
    /\ UNCHANGED <<unusable, data, result, requested, lucky, history>>

\* Mutant: the file is closed before all of it is written.
WriteEnds_Short ==
    /\ pc = "fill" /\ pc' = "read" /\ next' = next + 1 /\ imgs' = Append(imgs, data)
    /\ cache' = [cache EXCEPT ![digest] = "cut"]
    /\ UNCHANGED <<unusable, data, result, requested, lucky, history>>

\* An error to write is only logged.
WriteEnds ==
    /\ pc = "fill" /\ pc' = "read" /\ next' = next + 1 /\ imgs' = Append(imgs, data)
    /\ \E written \in {data, "cut", "empty"} :
           /\ cache' = [cache EXCEPT ![digest] = written]
           /\ lucky' = (lucky /\ written = data)
    /\ UNCHANGED <<unusable, data, result, requested, history>>

Return ==
    /\ pc = "read" /\ next > Len(Images) /\ Stop("ok")
    /\ UNCHANGED <<cache, unusable, next, data, imgs, requested, lucky, history>>

GenerateReleaseSignatures ==
    ReadCache \/ Request \/ Missing \/ Damaged \/ Verify \/ WriteStarts \/ WriteEnds \/ Return

\* The process is killed; a file may be cut short in the middle of a write.
Kill ==
    /\ pc # "done" /\ Stop("killed")
    /\ cache' \in IF pc = "fill" THEN {cache, [cache EXCEPT ![digest] = "cut"]} ELSE {cache}
    /\ UNCHANGED <<unusable, next, data, imgs, requested, lucky, history>>

RunAgain ==
    /\ pc = "done" /\ run < MaxRuns /\ run' = run + 1
    /\ pc' = "read" /\ next' = 1 /\ data' = "empty" /\ imgs' = <<>> /\ result' = "none"
    /\ requested' = [d \in Digests |-> 0] /\ lucky' = TRUE
    /\ clean' = (clean /\ lucky /\ result = "ok")
    /\ UNCHANGED <<cache, unusable>>

Finished == pc = "done" /\ run = MaxRuns /\ UNCHANGED vars

Next == GenerateReleaseSignatures \/ Kill \/ RunAgain \/ Finished

Spec == Init /\ [][Next]_vars

-----------------------------------------------------------------------------
(***************************************************************************)
(* Properties.                                                             *)
(***************************************************************************)
\* The caller gets one reference for every image, in order and each from a
\* message for that image and no other, or, after any error, nothing at all.
AllOrNothing ==
    /\ result = "ok" => Len(imgs) = Len(Images) /\ \A k \in DOMAIN Images : imgs[k] \in Own(Images[k])
    /\ result = "error" => imgs = <<>>

\* Inductive invariant: a file holds no message but one for its own digest,
\* what is verified and written is a message for the image at hand, and the
\* references found so far are those of the images before it.
SignatureInv ==
    /\ \A d \in Digests : cache[d] \in {"absent", "empty", "cut"} \cup Own(d)
    /\ DOMAIN cache = Digests
    /\ pc \in {"read", "request", "verify", "write", "fill", "done"}
    /\ next \in 1 .. Len(Images) + 1
    /\ pc \in {"request", "verify", "write", "fill"} => next <= Len(Images)
    /\ pc = "verify" => data \in {"empty", "cut"} \cup Own(digest)
    /\ pc \in {"write", "fill"} => data \in Own(digest)
    /\ pc # "done" => result = "none"
    /\ imgs \in Seq(Messages)
    /\ pc # "done" => Len(imgs) = next - 1 /\ \A k \in 1 .. next - 1 : imgs[k] \in Own(Images[k])
    /\ AllOrNothing

\* With good answers and writes a run succeeds, however often it is repeated,
\* and the references are those that were signed.
GoodRunsSucceed ==
    clean /\ lucky =>
        /\ result \notin {"error", "panic"}
        /\ result = "ok" => \A k \in DOMAIN Images : imgs[k] = Images[k]

\* An image listed twice, or in an earlier run, is not requested again.
CachedNotRequested ==
    /\ lucky => \A d \in Digests : requested[d] <= 1
    /\ clean /\ lucky /\ run > 1 => \A d \in Digests : requested[d] = 0

\* The file of image d is complete, or being rewritten with what is in data.
Cached(d) == cache[d] = d \/ (pc = "fill" /\ d = digest)

\* While every answer and write was good: what is verified is a signature, a
\* file is absent or complete, and those of the images already handled, in
\* this run or in an earlier one, are complete.
CleanInv ==
    clean /\ lucky =>
        /\ result \notin {"error", "panic"}
        /\ pc \in {"verify", "write", "fill"} => data = digest
        /\ \A k \in DOMAIN imgs : imgs[k] = Images[k]
        /\ result # "killed" =>
               /\ \A d \in Digests : cache[d] = "absent" \/ Cached(d)
               /\ \A k \in 1 .. Len(Images) : k < next \/ run > 1 => Cached(Images[k])
        /\ run > 1 => pc # "request" /\ \A d \in Digests : requested[d] = 0

\* An image was requested at most once in this run, and its file is complete
\* afterwards, or the answer is at hand.
RequestInv ==
    /\ DOMAIN requested = Digests
    /\ lucky /\ pc \in {"verify", "write", "fill"} /\ requested[digest] # 0 => data = digest
    /\ pc = "request" => cache[digest] \in {"absent", "empty"}
    /\ lucky => \A d \in Digests :
           \/ requested[d] = 0
           \/ requested[d] = 1 /\ ((pc \in {"verify", "write"} /\ d = digest) \/ Cached(d) \/ pc = "done")

\* The whole inductive invariant, over the runs.
ClientInv ==
    /\ SignatureInv /\ CleanInv /\ RequestInv
    /\ run \in Nat \ {0}
    /\ result = "ok" => next > Len(Images)
=============================================================================
