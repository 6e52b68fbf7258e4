-------------------------------- MODULE Workspace --------------------------------
(***************************************************************************)
(* The working directory that the runs of the program share, and the state *)
(* of the run in progress.  The directory survives a failed or killed run; *)
(* it is also the program's cache: the collectors ask whether a directory  *)
(* exists to decide what is still to be downloaded.                        *)
(*                                                                         *)
(* The image set configuration is given by the constants.  An image is     *)
(* named by a tuple: <<x>> is the payload of release x, the catalog x or   *)
(* the additional image x, and <<x, i>> is image i of release or catalog x.*)
(***************************************************************************)
EXTENDS Configuration, Integers, FiniteSets

CONSTANTS
    Releases,           \* sequence of the release payloads configured
    ReleaseImages,      \* the images that each release refers to, by component
    PullSpec,           \* the pull spec of each of them: its host and the rest
    Catalogs,           \* sequence of the operator catalogs configured
    RelatedImages,      \* sequence of the images selected from each catalog
    Component,          \* the directory <bundle>/<namespace> of such an image
    AdditionalImages,   \* sequence of the additional images configured
    CacheDir,           \* the directory <namespace>/<component> of each
    Destinations,       \* bound: "oci", "dir" or "docker", the protocol of the first argument
    Readings,           \* bound: how the configuration file can be read
    MaxRuns             \* bound: how often the program is run

Elements(s) == {s[k] : k \in DOMAIN s}

ASSUME ConfigAssumption ==
    /\ Releases \in Seq(Elements(Releases)) /\ Catalogs \in Seq(Elements(Catalogs))
    /\ AdditionalImages \in Seq(Elements(AdditionalImages))
    /\ \A x \in Elements(Catalogs) : RelatedImages[x] \in Seq(Elements(RelatedImages[x]))
    /\ DOMAIN ReleaseImages = Elements(Releases) /\ DOMAIN PullSpec = Elements(Releases)
    /\ \A x \in Elements(Releases) : DOMAIN PullSpec[x] = ReleaseImages[x]
    /\ DOMAIN RelatedImages = Elements(Catalogs)
    /\ DOMAIN CacheDir = Elements(AdditionalImages)
    /\ Destinations \subseteq {"oci", "dir", "docker"}
    /\ Readings \subseteq {"unreadable", "loose", "strict"}
    /\ MaxRuns \in Nat \ {0}

\* A name stands for one copy on disk: an image that is both a release and an
\* additional image has two of them.
ASSUME NamesAssumption ==
    /\ Elements(Releases) \cap Elements(Catalogs) = {}
    /\ Elements(Releases) \cap Elements(AdditionalImages) = {}
    /\ Elements(Catalogs) \cap Elements(AdditionalImages) = {}

VARIABLES
    \* on disk
    dirs,      \* the directories of images that exist
    hold,      \* extracted manifests: "absent", "partial" or "complete"
    onDisk,    \* the images that are complete on disk
    indexed,   \* the additional images among them that are in the oci format
    registry,  \* the images that were pushed to the registry
    \* the run in progress
    phase,     \* which collector runs, "copy" for the batch worker, or "exit"
    todo,      \* what the collector still has to go through
    at,        \* where the collector stands with the first of them
    related,   \* relatedImages of the operator collector
    found,     \* allImages of the collector
    work,      \* allRelatedImages of Executor.Run: images and destinations
    failed,    \* a copy of the batch worker failed
    exit,      \* how the run ended: "none", "ok", "error" or "killed"
    run,       \* number of the run
    dest,      \* protocol of the destination it was given
    config,    \* what Complete made of the configuration file
    \* history
    listed,    \* the releases that the Cincinnati client listed in this run
    clean,     \* every earlier run succeeded
    lost       \* a collector dropped an error of the file system

disk == <<dirs, hold, onDisk>>
collector == <<todo, at, related, found>>
\* What only Start and the batch worker change.
kept == <<run, dest, config, indexed, registry>>
history == <<listed, clean, lost>>
vars == <<disk, phase, collector, work, failed, exit, kept, history>>

Mode == IF dest \in {"oci", "dir"} THEN "mirrorToDisk" ELSE "diskToMirror"

\* The configuration that the runs are given.  To publish, it names one
\* release on disk in place of the channels.
Configured ==
    [channels |-> <<[name |-> "stable"]>>, architectures |-> <<>>, release |-> NoRelease,
     operators |-> [k \in DOMAIN Catalogs |->
         [catalog |-> Catalogs[k], ref |-> [at |-> "redhat", name |-> Catalogs[k], version |-> "v4.12"],
          targetName |-> NoTarget, targetTag |-> NoTarget]],
     additionalImages |-> AdditionalImages]
ConfiguredFor(d) ==
    IF d # "docker" THEN {Configured}
    ELSE {[Configured EXCEPT !.channels = <<>>, !.release = x] : x \in Elements(Releases)}

\* Mutant: the collector has the configuration from an earlier reading.
ConfiguredCatalogs_Earlier == Catalogs

ConfiguredCatalogs == [k \in DOMAIN config.operators |-> config.operators[k].catalog]

ReleaseDir(r) == <<"release-images", r>>
ImageDir(r, i) == <<"release-images", r, i>>
ComponentDir(c, i) == <<"operator-images", c, Component[i]>>
AdditionalDir(a) == <<"additional-images", CacheDir[a]>>

\* The pull spec of a component, without its host.
findRelatedImage(x, i) == PullSpec[x][i].path

\* Where an image goes in the registry: a release image under the path of its
\* pull spec, which other components may share, and the others under the path
\* of their directory.
RegistryRef(path) == <<"registry", path>>

\* The end of a run.
Stop(how) == phase' = "exit" /\ exit' = how

\* A collector is left for the next phase with what it found.
Leave(next, s) == phase' = next /\ todo' = s /\ at' = "stat" /\ found' = {}

(***************************************************************************)
(* ExtractLayersOCI (pkg/manifest/oci-manifest.go), shared by the release  *)
(* and the operator collector: nothing is done when the directory of the   *)
(* label exists.  A layer that cannot be opened or read is an error, before*)
(* or after the directory is made; untarring is not atomic.                *)
(***************************************************************************)
ExtractSkips(x) ==
    /\ at = "extract" /\ hold[x] # "absent" /\ at' = "schema"
    /\ UNCHANGED <<disk, phase, todo, related, found, work, failed, exit, kept, history>>

ExtractStarts(x) ==
    /\ at = "extract" /\ hold[x] = "absent"
    /\ \/ hold' = [hold EXCEPT ![x] = "partial"] /\ at' = "untar" /\ UNCHANGED <<phase, exit>>
       \/ Stop("error") /\ UNCHANGED <<hold, at>>
    /\ UNCHANGED <<dirs, onDisk, todo, related, found, work, failed, kept, history>>

ExtractEnds(x) ==
    /\ at = "untar"
    /\ \/ hold' = [hold EXCEPT ![x] = "complete"] /\ at' = "schema" /\ UNCHANGED <<phase, exit>>
       \/ Stop("error") /\ UNCHANGED <<hold, at>>
    /\ UNCHANGED <<dirs, onDisk, todo, related, found, work, failed, kept, history>>

Extract(x) == ExtractSkips(x) \/ ExtractStarts(x) \/ ExtractEnds(x)
=============================================================================
