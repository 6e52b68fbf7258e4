----------------------------- MODULE ReleaseCollector -----------------------------
(***************************************************************************)
(* pkg/release/collector.go.  mirrorToDisk: for every release, download    *)
(* the release payload unless its directory exists, read its index,        *)
(* extract its manifests and plan the images it refers to.  diskToMirror:  *)
(* walk the directory of one release and plan the images found there.      *)
(***************************************************************************)
EXTENDS Workspace

r == Head(todo)
InRelease(step) == phase = "release" /\ todo # <<>> /\ at = step

\* The subsequences of s.
Sublists(s) ==
    UNION {{[k \in 1 .. n |-> s[pick[k]]] :
                pick \in {f \in [1 .. n -> DOMAIN s] : \A j, k \in 1 .. n : j < k => f[j] < f[k]}} :
           n \in 0 .. Len(s)}

\* The Cincinnati client only logs its errors: it lists any of the releases.
\* It goes through the channels of every architecture.  A shortest upgrade
\* path names its two ends a second time (gatherUpdates).
ReleaseList ==
    /\ phase = "release" /\ Mode = "mirrorToDisk" /\ at = "list" /\ at' = "stat"
    /\ \E path \in Sublists(IF config.architectures = <<>> THEN <<>> ELSE Releases) :
           /\ \/ todo' = path
              \/ path # <<>> /\ todo' = path \o <<Head(path), path[Len(path)]>>
           /\ listed' = Elements(path)
    /\ UNCHANGED <<disk, phase, related, found, work, failed, exit, kept, clean, lost>>

ReleaseStat ==
    /\ InRelease("stat")
    /\ \/ /\ ReleaseDir(r) \in dirs /\ at' = "index"
          /\ UNCHANGED <<dirs, phase, exit>>
       \/ /\ ReleaseDir(r) \notin dirs /\ at' = "fetch"
          /\ dirs' = dirs \cup {ReleaseDir(r)}
          /\ UNCHANGED <<phase, exit>>
       \/ /\ ReleaseDir(r) \notin dirs /\ Stop("error")
          /\ UNCHANGED <<dirs, at>>
    /\ UNCHANGED <<hold, onDisk, todo, related, found, work, failed, kept, history>>

\* Mirror.Run of the release payload: its error ends the run.
ReleaseFetch ==
    /\ InRelease("fetch")
    /\ \/ onDisk' = onDisk \cup {<<r>>} /\ at' = "index" /\ UNCHANGED <<phase, exit>>
       \/ onDisk' \in {onDisk, onDisk \cup {<<r>>}} /\ Stop("error") /\ UNCHANGED at
    /\ UNCHANGED <<dirs, hold, todo, related, found, work, failed, kept, history>>

\* GetImageIndex and GetImageManifest read files that a copy writes last.
ReleaseIndex ==
    /\ InRelease("index")
    /\ \/ <<r>> \in onDisk /\ at' = "extract" /\ UNCHANGED <<phase, exit>>
       \/ <<r>> \notin onDisk /\ Stop("error") /\ UNCHANGED at
    /\ UNCHANGED <<disk, todo, related, found, work, failed, kept, history>>

ReleaseExtract == phase = "release" /\ todo # <<>> /\ Extract(r)

-----------------------------------------------------------------------------
(***************************************************************************)
(* GetReleaseSchema and batcWorkerConverter: an image whose directory      *)
(* exists is "in cache"; for the others the directory is created and the   *)
(* image is added to the list.  After a partial extraction the file        *)
(* image-references may be missing.  A directory that cannot be created,   *)
(* or a kill in the middle of the loop, leaves the directories made so far.*)
(***************************************************************************)
\* Mutant: images are planned whether or not they are in cache.
Uncached_All(x) == ReleaseImages[x]

Uncached(x) == {i \in ReleaseImages[x] : ImageDir(x, i) \notin dirs}

ReleasePlan ==
    /\ InRelease("schema")
    /\ dirs' = dirs \cup {ImageDir(r, i) : i \in Uncached(r)}
    /\ found' = found \cup {[img |-> <<r, i>>, dest |-> ImageDir(r, i)] : i \in Uncached(r)}
    /\ todo' = Tail(todo) /\ at' = "stat"
    /\ UNCHANGED <<hold, onDisk, phase, related, work, failed, exit, kept, history>>

ReleasePlanFails ==
    /\ InRelease("schema")
    /\ \/ hold[r] = "partial" /\ Stop("error") /\ UNCHANGED dirs
       \/ \E made \in SUBSET Uncached(r) :
              /\ made # Uncached(r)
              /\ dirs' = dirs \cup {ImageDir(r, i) : i \in made}
              /\ Stop("error") \/ Stop("killed")
    /\ UNCHANGED <<hold, onDisk, collector, work, failed, kept, history>>

ReleaseDone ==
    /\ phase = "release" /\ at = "stat" /\ todo = <<>>
    /\ work' = work \cup found
    /\ Leave("operator", ConfiguredCatalogs)
    /\ UNCHANGED <<disk, related, failed, exit, kept, history>>

-----------------------------------------------------------------------------
(***************************************************************************)
(* diskToMirror.  GetReleaseSchema reads image-references, and its error   *)
(* ends the run.  The walk finds the images by their manifest.json, which  *)
(* a copy writes last; any error of the walk, a missing directory images   *)
(* included, makes the collector return an empty list and no error.        *)
(***************************************************************************)
ReleaseSchema ==
    /\ phase = "release" /\ Mode = "diskToMirror" /\ at = "list"
    /\ LET manifests == IF config.release = NoRelease THEN "absent" ELSE hold[config.release]
       IN \/ manifests # "absent" /\ at' = "walk" /\ UNCHANGED <<phase, exit>>
          \/ manifests # "complete" /\ Stop("error") /\ UNCHANGED at
    /\ UNCHANGED <<disk, todo, related, found, work, failed, kept, history>>

\* Mutant: the walk looks for index.json, which an image copied with the dir
\* transport does not have.
OnDiskOf_Index(x) == {i \in ReleaseImages[x] : <<i>> \in indexed}

OnDiskOf(x) == {i \in ReleaseImages[x] : <<x, i>> \in onDisk}

ReleaseWalk ==
    /\ phase = "release" /\ at = "walk"
    /\ LET x == config.release
       IN \/ /\ \E i \in ReleaseImages[x] : ImageDir(x, i) \in dirs
             /\ work' = {[img |-> <<x, i>>, dest |-> RegistryRef(findRelatedImage(x, i))] : i \in OnDiskOf(x)}
             /\ UNCHANGED lost
          \/ work' = {} /\ lost' = TRUE
    /\ Leave("operator", <<>>)
    /\ UNCHANGED <<disk, related, failed, exit, kept, listed, clean>>

ReleaseImageCollector ==
    \/ ReleaseSchema \/ ReleaseWalk
    \/ ReleaseList \/ ReleaseStat \/ ReleaseFetch \/ ReleaseIndex \/ ReleaseExtract
    \/ ReleasePlan \/ ReleasePlanFails \/ ReleaseDone
=============================================================================
