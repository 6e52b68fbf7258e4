---------------------------- MODULE AdditionalCollector ----------------------------
(***************************************************************************)
(* pkg/additional/collector.go.  mirrorToDisk: every additional image      *)
(* whose directory does not exist is planned.  A directory that cannot be  *)
(* created makes the collector return an empty list and no error.          *)
(* diskToMirror: the directory additional-images is walked.                *)
(***************************************************************************)
EXTENDS Workspace

a == Head(todo)
InAdditional == phase = "additional" /\ todo # <<>>

AdditionalCached ==
    /\ InAdditional /\ AdditionalDir(a) \in dirs
    /\ todo' = Tail(todo)
    /\ UNCHANGED <<disk, phase, at, related, found, work, failed, exit, kept, history>>

\* Mutant: the image is planned and the directory is left to the copy.
AdditionalPlan_NoMkdir ==
    /\ InAdditional /\ AdditionalDir(a) \notin dirs
    /\ found' = found \cup {[img |-> <<a>>, dest |-> AdditionalDir(a)]}
    /\ todo' = Tail(todo)
    /\ UNCHANGED <<disk, phase, at, related, work, failed, exit, kept, history>>

AdditionalPlan ==
    /\ InAdditional /\ AdditionalDir(a) \notin dirs
    /\ dirs' = dirs \cup {AdditionalDir(a)}
    /\ found' = found \cup {[img |-> <<a>>, dest |-> AdditionalDir(a)]}
    /\ todo' = Tail(todo)
    /\ UNCHANGED <<hold, onDisk, phase, at, related, work, failed, exit, kept, history>>

\* customImageParser: a name without a namespace and a component is an error.
\* The text of the names is left out, so any image may be rejected.
AdditionalRejected ==
    /\ InAdditional /\ Stop("error")
    /\ UNCHANGED <<disk, collector, work, failed, kept, history>>

AdditionalMkdirFails ==
    /\ InAdditional /\ AdditionalDir(a) \notin dirs
    /\ lost' = TRUE
    /\ Leave("copy", <<>>)
    /\ UNCHANGED <<disk, related, work, failed, exit, kept, listed, clean>>

\* Mutant: the list is overwritten where mergeImages appends to it.
AdditionalDone_Overwrites ==
    /\ phase = "additional" /\ Mode = "mirrorToDisk" /\ todo = <<>>
    /\ work' = found
    /\ Leave("copy", <<>>)
    /\ UNCHANGED <<disk, related, failed, exit, kept, history>>

AdditionalDone ==
    /\ phase = "additional" /\ Mode = "mirrorToDisk" /\ todo = <<>>
    /\ work' = work \cup found
    /\ Leave("copy", <<>>)
    /\ UNCHANGED <<disk, related, failed, exit, kept, history>>

\* diskToMirror: an image is found by its index.json, which only a copy in the
\* oci format leaves.  What the walk cannot read is passed over.
AdditionalWalk ==
    /\ phase = "additional" /\ Mode = "diskToMirror"
    /\ \E S \in SUBSET (IF config.additionalImages = <<>> THEN {} ELSE indexed) :
           /\ work' = work \cup {[img |-> x, dest |-> RegistryRef(CacheDir[x[1]])] : x \in S}
           /\ lost' = (lost \/ S # indexed)
    /\ Leave("copy", <<>>)
    /\ UNCHANGED <<disk, related, failed, exit, kept, listed, clean>>

AdditionalImagesCollector ==
    \/ AdditionalWalk
    \/ AdditionalCached \/ AdditionalPlan \/ AdditionalRejected
    \/ AdditionalMkdirFails \/ AdditionalDone
=============================================================================
