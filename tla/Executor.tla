--------------------------------- MODULE Executor ---------------------------------
(***************************************************************************)
(* pkg/cli/executor.go: Validate and Complete read the configuration, and  *)
(* Run calls the release, the operator and the additional images collector *)
(* in turn and hands what they found to the batch worker.  The program is  *)
(* run several times on the same working directory, to mirror to disk and  *)
(* to publish what is there to a registry, and may be killed at any point. *)
(***************************************************************************)
EXTENDS ReleaseCollector, OperatorCollector, AdditionalCollector

Init ==
    /\ dirs = {} /\ onDisk = {}
    /\ hold = [x \in Elements(Releases) \cup Elements(Catalogs) |-> "absent"]
    /\ phase = "exit" /\ exit = "none" /\ run = 0
    /\ todo = <<>> /\ at = "list" /\ related = <<"none", <<>>>>
    /\ found = {} /\ work = {} /\ failed = FALSE
    /\ indexed = {} /\ registry = {} /\ dest = "oci" /\ config = EmptyConfig
    /\ listed = {} /\ clean = TRUE /\ lost = FALSE

\* Validate: only to publish is the configuration looked at.  Whether a name has
\* the prefix dir:// is not known here, since names have no text: the error for
\* one that lacks it is among those of Start.
Validated(args, file) ==
    args = "docker" => ~ReadConfig(file).err /\ ReadConfig(file).cfg.release # NoRelease

\* Complete: the file is read again, and an error is only logged.
Completed(file) == ReadConfig(file).cfg

\* The memory of a process that has not begun, or is gone.
Fresh ==
    /\ todo' = <<>> /\ at' = "list" /\ related' = <<"none", <<>>>>
    /\ found' = {} /\ work' = {} /\ failed' = FALSE

\* A new run.  An error of Validate, or one to create the working
\* directories, ends it at once.
Start ==
    /\ phase = "exit" /\ run < MaxRuns /\ run' = run + 1
    /\ clean' = (run = 0 \/ (clean /\ exit = "ok" /\ ~lost))
    /\ dest' \in Destinations
    /\ \/ /\ \E cfg \in ConfiguredFor(dest'), first \in Readings, second \in Readings :
                 /\ Validated(dest', [data |-> first, cfg |-> cfg])
                 /\ config' = Completed([data |-> second, cfg |-> cfg])
          /\ phase' = "release" /\ exit' = "none"
       \/ phase' = "exit" /\ exit' = "error" /\ config' = EmptyConfig
    /\ Fresh
    /\ listed' = {} /\ lost' = FALSE
    /\ UNCHANGED <<disk, indexed, registry>>

(***************************************************************************)
(* Batch.Worker, as CopyJob specifies it: it tries the images, and returns *)
(* nil when every one was copied or an error when one failed.              *)
(***************************************************************************)
IsAdditional(w) == w.dest[1] = "additional-images"

\* The copy w is complete.  An additional image has the format of the
\* destination, all others a fixed one.
Stored(w) ==
    \/ /\ Mode = "mirrorToDisk" /\ onDisk' = onDisk \cup {w.img}
       /\ indexed' = indexed \cup {v.img : v \in {u \in {w} : dest = "oci" /\ IsAdditional(u)}}
       /\ UNCHANGED registry
    \/ /\ Mode = "diskToMirror" /\ registry' = registry \cup {w.img}
       /\ UNCHANGED <<onDisk, indexed>>

CopyOk ==
    /\ phase = "copy"
    /\ \E w \in work : work' = work \ {w} /\ Stored(w)
    /\ UNCHANGED <<dirs, hold, phase, collector, failed, exit, run, dest, config, history>>

CopyFails ==
    /\ phase = "copy"
    /\ \E w \in work :
           /\ work' = work \ {w}
           /\ Stored(w) \/ UNCHANGED <<onDisk, indexed, registry>>
    /\ failed' = TRUE
    /\ UNCHANGED <<dirs, hold, phase, collector, exit, run, dest, config, history>>

\* Mutant: the error of the batch worker is not looked at.
WorkerReturns_IgnoresErrors ==
    /\ phase = "copy"
    /\ work = {} /\ Stop("ok")
    /\ UNCHANGED <<disk, collector, work, failed, kept, history>>

\* Mutant: a failed copy keeps the batch worker from returning.
WorkerReturns_HangsOnError ==
    /\ phase = "copy"
    /\ work = {} /\ ~failed /\ Stop("ok")
    /\ UNCHANGED <<disk, collector, work, failed, kept, history>>

WorkerReturns ==
    /\ phase = "copy"
    /\ \/ work = {} /\ ~failed /\ Stop("ok")
       \/ failed /\ Stop("error")
    /\ UNCHANGED <<disk, collector, work, failed, kept, history>>

Worker == CopyOk \/ CopyFails \/ WorkerReturns

Kill ==
    /\ phase # "exit" /\ Stop("killed") /\ Fresh
    /\ UNCHANGED <<disk, kept, history>>

Idle == phase = "exit" /\ run = MaxRuns /\ UNCHANGED vars

Run == ReleaseImageCollector \/ OperatorImageCollector \/ AdditionalImagesCollector \/ Worker

Next == Start \/ Run \/ Kill \/ Idle

Spec == Init /\ [][Next]_vars

\* The program runs; nobody has to kill it or to start it again.
FairSpec == Spec /\ WF_vars(Run)

-----------------------------------------------------------------------------
ImagesOfReleases == UNION {{<<x, i>> : i \in ReleaseImages[x]} : x \in Elements(Releases)}
ImagesOfCatalogs == UNION {{<<x, i>> : i \in Elements(RelatedImages[x])} : x \in Elements(Catalogs)}

Payloads == {<<x>> : x \in Elements(Releases) \cup Elements(Catalogs) \cup Elements(AdditionalImages)}

\* Type invariant of the working directory and of the run.
TypeOK ==
    /\ hold \in [Elements(Releases) \cup Elements(Catalogs) -> {"absent", "partial", "complete"}]
    /\ onDisk \subseteq Payloads \cup ImagesOfReleases \cup ImagesOfCatalogs
    /\ phase \in {"release", "operator", "additional", "copy", "exit"}
    /\ at \in {"list", "stat", "fetch", "index", "extract", "untar", "schema", "walk"}
    /\ \A w \in found \cup work : Mode = "mirrorToDisk" => w.dest \in dirs
    /\ indexed \subseteq onDisk /\ registry \subseteq onDisk
    /\ failed \in BOOLEAN /\ clean \in BOOLEAN /\ lost \in BOOLEAN
    /\ exit \in {"none", "ok", "error", "killed"}
    /\ run \in 0 .. MaxRuns
    /\ listed \subseteq Elements(Releases)

\* The directories of the images in D, and those that hold a complete image.
DirsOf(D) ==
    {ReleaseDir(x) : x \in {y \in Elements(Releases) : <<y>> \in D}}
    \cup {ImageDir(p[1], p[2]) : p \in D \cap ImagesOfReleases}
    \cup {ComponentDir(p[1], p[2]) : p \in D \cap ImagesOfCatalogs}
    \cup {AdditionalDir(x) : x \in {y \in Elements(AdditionalImages) : <<y>> \in D}}
Filled == DirsOf(onDisk)

\* No two images are handed to the batch worker with the same directory: the
\* goroutines of a batch never write over each other on disk, even when two
\* additional images differ only in their tag, or two related images only in
\* what follows their namespace, which is no part of the directory.
DistinctDestinations ==
    Mode = "mirrorToDisk" => \A v, w \in found \cup work : v # w => v.dest # w.dest

\* As long as every run succeeded, a directory that exists holds an image:
\* what the collectors take for a cache is one.
CleanCacheSound == exit = "ok" /\ clean /\ ~lost => dirs \subseteq Filled

\* A first successful run, or one after successful runs, has downloaded every
\* image of the releases that were listed.
CleanRunMirrorsReleases ==
    exit = "ok" /\ clean =>
        \A x \in listed : \A i \in ReleaseImages[x] : <<x, i>> \in onDisk

\* A run succeeds only with every listed release payload and every catalog
\* image complete, whatever happened to the runs before it and although the
\* copy error of a catalog is only logged (operator/collector.go:115-117).
OkMeansIndexes ==
    exit = "ok" /\ Mode = "mirrorToDisk" =>
        \A x \in listed \cup Elements(ConfiguredCatalogs) : <<x>> \in onDisk

\* What the batch worker may be handed to mirror to disk, and to publish.
ReleaseItem(w) ==
    \E x \in Elements(Releases) : \E i \in ReleaseImages[x] :
        w = [img |-> <<x, i>>, dest |-> ImageDir(x, i)]
CatalogItem(w) ==
    \E x \in Elements(Catalogs) : \E i \in Elements(RelatedImages[x]) :
        w = [img |-> <<x, i>>, dest |-> ComponentDir(x, i)]
AdditionalItem(w) ==
    \E x \in Elements(AdditionalImages) : w = [img |-> <<x>>, dest |-> AdditionalDir(x)]
PublishedRelease(w) ==
    \E i \in ReleaseImages[config.release] :
        w = [img |-> <<config.release, i>>, dest |-> RegistryRef(findRelatedImage(config.release, i))]
PublishedCatalog(w) ==
    \E x \in Elements(Catalogs) : w = [img |-> <<x>>, dest |-> RegistryRef(x)]
PublishedAdditional(w) ==
    \E x \in Elements(AdditionalImages) :
        w = [img |-> <<x>>, dest |-> RegistryRef(CacheDir[x])]

\* The run has not failed; what it is at is then in phase.
Good == exit \in {"none", "ok"}

\* The configuration is the one in the file, with or without its defaults, or
\* the empty one.
ConfigInv ==
    /\ dest \in {"oci", "dir", "docker"}
    /\ \/ config = EmptyConfig
       \/ \E cfg \in ConfiguredFor(dest) :
              /\ dest = "docker" => cfg.release # NoRelease
              /\ config \in {cfg, Complete(cfg)}

\* What each phase has left to do, and what it has in memory.
ControlInv ==
    /\ phase = "release" => todo \in Seq(Elements(Releases)) /\ work = {}
    /\ phase = "operator" => todo \in Seq(Elements(Catalogs)) /\ found = {}
    /\ phase = "additional" => todo \in Seq(Elements(AdditionalImages))
    /\ phase = "copy" => found = {}
    /\ phase = "release" /\ at = "list" => listed = {}
    /\ Mode = "diskToMirror" =>
           /\ todo = <<>> /\ found = {} /\ listed = {}
           /\ phase = "release" => at \in {"list", "walk"}
    /\ at = "walk" =>
           /\ phase = "release" /\ Mode = "diskToMirror"
           /\ config.release # NoRelease /\ hold[config.release] # "absent"
    /\ related = <<"none", <<>>>> \/ \E x \in Elements(Catalogs) :
           related[1] = x /\ related[2] \in Seq(Elements(RelatedImages[x]))
    /\ config = EmptyConfig =>
           todo = <<>> /\ found = {} /\ work = {} /\ related = <<"none", <<>>>>
    /\ run \in Nat /\ (phase # "exit" => exit = "none" /\ run # 0)
    /\ failed => phase \in {"copy", "exit"}
    /\ exit = "ok" => work = {} /\ found = {} /\ ~failed
    /\ run = 0 => dirs = {} /\ \A x \in Elements(Releases) : hold[x] = "absent"

\* The images that are planned, and the additional images on disk: no two of
\* these have the same directory.
ItemsInv ==
    /\ Mode = "mirrorToDisk" => \A w \in found \cup work :
           /\ ReleaseItem(w) \/ CatalogItem(w) \/ AdditionalItem(w)
           /\ phase = "release" => ReleaseItem(w)
           /\ w \in found /\ phase = "additional" => AdditionalItem(w)
           /\ \A p \in indexed : w.dest # AdditionalDir(p[1])
    /\ Mode = "diskToMirror" => \A w \in work :
           /\ w.img \in onDisk
           /\ \/ PublishedRelease(w)
              \/ phase # "operator" /\ PublishedCatalog(w)
              \/ phase \notin {"operator", "additional"} /\ PublishedAdditional(w)
    /\ \A p \in indexed :
           /\ \E x \in Elements(AdditionalImages) : p = <<x>>
           /\ \A q \in indexed : CacheDir[p[1]] = CacheDir[q[1]] => p = q

\* An image that is complete has its directory, and so has a release payload
\* that is about to be copied.
DiskInv ==
    /\ Filled \subseteq dirs
    /\ phase = "release" /\ todo # <<>> /\ at = "fetch" => ReleaseDir(Head(todo)) \in dirs

\* The manifests of x were read: its images are on disk or planned.
Processed(x) == <<x>> \in onDisk /\ \A i \in ReleaseImages[x] : ImageDir(x, i) \in dirs

\* The index of what a collector has passed was read.
ProgressInv ==
    /\ phase \in {"release", "operator"} /\ todo # <<>> /\ at \in {"extract", "untar", "schema"} =>
           <<Head(todo)>> \in onDisk
    /\ Good => \A x \in listed : (phase = "release" /\ x \in Elements(todo)) \/ Processed(x)
    /\ Mode = "mirrorToDisk" /\ (phase \in {"operator", "additional", "copy"} \/ exit = "ok") =>
           \A x \in Elements(ConfiguredCatalogs) :
               (phase = "operator" /\ x \in Elements(todo)) \/ <<x>> \in onDisk

\* After successful runs, a directory without an image is one that this run
\* has made: its image is planned, or was being copied, or was dropped.
CacheInv ==
    clean /\ Good => \A d \in dirs :
        \/ d \in Filled \/ failed
        \/ Mode = "mirrorToDisk" /\ \E w \in found \cup work : w.dest = d
        \/ phase = "release" /\ todo # <<>> /\ at = "fetch" /\ d = ReleaseDir(Head(todo))
        \/ lost /\ d[1] = "additional-images"

\* After successful runs, manifests on disk are those of a release that was
\* processed or is being processed.
ManifestInv ==
    clean /\ Good => \A x \in Elements(Releases) :
        \/ hold[x] = "absent" \/ Processed(x)
        \/ phase = "release" /\ todo # <<>> /\ at \in {"untar", "schema"} /\ x = Head(todo)

\* To publish after successful runs: what the walks found is planned or pushed.
PublishInv ==
    Mode = "diskToMirror" /\ clean /\ ~lost /\ ~failed =>
        /\ phase \in {"operator", "additional", "copy"} \/ exit = "ok" =>
               \A i \in ReleaseImages[config.release] :
                   \/ <<config.release, i>> \in registry
                   \/ \E w \in work : w.img = <<config.release, i>>
        /\ phase = "copy" \/ exit = "ok" =>
               \A p \in indexed : p \in registry \/ \E w \in work : w.img = p

\* The inductive invariant of the runs on one working directory: what is in
\* memory, on disk and in the registry agree at every step of every collector.
ExecutorInv ==
    /\ TypeOK /\ ConfigInv /\ ControlInv /\ ItemsInv /\ DistinctDestinations /\ DiskInv
    /\ ProgressInv /\ CacheInv /\ ManifestInv /\ PublishInv

\* An image that is complete on disk is never planned again by a later run.
NeverCopiedTwice ==
    [][Mode = "mirrorToDisk" =>
          \A w \in (found' \cup work') \ (found \cup work) : w.img \notin onDisk]_vars

\* What went to disk comes out in the registry: when every earlier run
\* succeeded, a run that publishes a release and succeeds has pushed every
\* image of that release and every additional image that was mirrored in the
\* oci format, unless the walk dropped an error.
RoundTrip ==
    exit = "ok" /\ Mode = "diskToMirror" /\ clean /\ ~lost =>
        /\ \A i \in ReleaseImages[config.release] : <<config.release, i>> \in registry
        /\ indexed \subseteq registry

\* A run that could not read its configuration goes on with an empty one
\* (executor.go:244-247): it touches neither the disk nor the registry.
UnreadIsInert ==
    [][config = EmptyConfig /\ config' = EmptyConfig => UNCHANGED <<disk, indexed, registry>>]_vars

\* Every run that is started comes to an end.
RunEnds == phase = "release" ~> phase = "exit"

\* NOTES.md:19, the release flow: "download each image to disk".
DownloadsEachImage ==
    exit = "ok" /\ Mode = "mirrorToDisk" => \A x \in listed : \A i \in ReleaseImages[x] : <<x, i>> \in onDisk

\* NOTES.md:27 and 37, the catalog flow: "iterate through each catalog" ...
\* "download each releated image to disk".
DownloadsEachRelatedImage ==
    exit = "ok" /\ clean /\ Mode = "mirrorToDisk" => ImagesOfCatalogs \subseteq onDisk
=============================================================================
