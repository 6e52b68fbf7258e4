# A TLA+ model of golang-fb-mirror

`golang-fb-mirror` mirrors OpenShift releases, operator catalogs and additional
images from registries to disk (`mirrorToDisk`) and from disk to a registry
(`diskToMirror`). This directory holds TLA+ modules translated from its source,
TLC configurations that check them on small instances, and proofs that TLAPS
checks for every value of the constants. `PROJECT.json` maps every definition
to the lines it models and lists components, runs, hazards and theorems.

## 1. Inventory

| Component | Source | State | Operations | Correct when | Model |
|---|---|---|---|---|---|
| Batch worker | `pkg/batch/worker.go` | batches, goroutines, `sync.WaitGroup`, `errArray` | `Worker` | every image is tried once; nil only if all were copied; batches do not overlap | `BatchWorker` |
| Mirror | `pkg/mirror/mirror.go` | one call: attempt, error, timeout, digest file | `Run` (copy, delete) | nil only when the work is done; only transient errors are retried | `MirrorRun` |
| Mirror options | `pkg/mirror/options.go`, `unshare_linux.go` | flags | flags, contexts, timeout | | parts of `MirrorRun` |
| Executor | `pkg/cli/executor.go` | list of images, mode, logs directory | `Run`, `Complete`, `Validate` | success means that what was asked for is mirrored, on every run over the same directory, and that what is on disk can be published | `Executor` |
| Release collector | `pkg/release/collector.go` | working directory | `ReleaseImageCollector` | lists what is not on disk | `ReleaseCollector` |
| Operator collector | `pkg/operator/collector.go` | working directory, `relatedImages` | `OperatorImageCollector` | the same, for every catalog | `OperatorCollector` |
| Additional images | `pkg/additional/collector.go` | working directory | `AdditionalImagesCollector` | the same | `AdditionalCollector` |
| Manifest reader | `pkg/manifest/oci-manifest.go` | extracted layers | index, manifest, extraction, catalog filters | reads only what is complete; selects the channel and versions asked for | `Workspace` (extraction), `CatalogFilter` |
| Cincinnati client | `pkg/release/cincinnati.go`, `client.go` | channels, query of the client | `GetReleaseReferenceImages` | lists the releases configured, for every architecture | `ReleaseClient` |
| Signature client | `pkg/release/cincinnati.go` | signature cache | `GenerateReleaseSignatures` | every reference or none; asks only for what is not cached | `Signatures` |
| Upgrade graph | `pkg/release/core-cincinnati.go`, `find.go` | queue, predecessors | shortest path, channel heads, ranges | finds a shortest path when there is one; joins the paths of several channels | `UpgradePath`, `CrossChannel`, `ReleaseClient` (heads, ranges, `FindRelease`) |
| Differ | `pkg/diff` | metadata and configuration files | `DeleteImages`, `WriteMetadata` | deletes what is no longer configured and nothing else; the record survives kills | `Differ` (nothing calls the package at this commit, and it has no tests) |
| Configuration | `pkg/config`, `pkg/api` | none | load, defaults, checks | a configuration is used as it was read, or not at all | `Configuration` |
| Logger, main, test server | `pkg/log`, `cmd`, `internal` | none | output | | not modelled |

How they interact: `Executor.Run` calls the three collectors in turn. The
release and the operator collector call `Mirror.Run` themselves for the payload
or the catalog image, read and extract it, and return a list of copies. The
lists are appended and given to `Batch.Worker`, which calls `Mirror.Run` from
goroutines. Nothing is shared between components but the working directory,
which outlives the run and is also the cache: a directory that exists stands
for an image that was downloaded. A later run in the diskToMirror mode walks
these directories and pushes what it recognises as an image.

What is hard here: the goroutines of a batch append to `errArray` without a
lock; one WaitGroup is filled anew for every batch; the remainder of the list is
a recursive call; retries race with a timeout; directories are created before
their images are copied, so a failed or killed run misleads the next; several
errors are logged and dropped; publishing depends on files that an earlier run
left behind; the configuration is read more than once; the record of a run is
written in two files. The hazards are listed at their lines in
`PROJECT.json`.

## 2. Modules

* `CopyCall`, the contract of one call of `Mirror.Run(..., "copy", ...)`: nil
  means that the image is complete, an error says nothing, and the destination
  is touched only during the call.
* `MirrorRun`, one call of `Mirror.Run`: the checks (`SetupOk`, `SetupFails`),
  the operation, the digest file, `retry.IfNecessary` of containers/common
  (`Judge`, `DelayOver`, `DelayCancelled`), the timeout of
  `CommandTimeoutContext` (`Expire`) and the deferred `Destroy` (`Close`).
  The many checks are one failing action with two exits, before and after the
  `defer`. The command line of this commit registers no flag for the digest
  file or the timeout, and nothing calls the delete mode; the code handles
  them, so the model does.
* `CopyJob`, the contract of `Batch.Worker` without batches or goroutines.
* `BatchWorker`, `Batch.Worker`: the loop (`CreateLog`, `Launch`, then one of
  `BatchFailed`, `NextBatch`, `Recurse`, `ReturnOk` after `wg.Wait`), and a
  process for every goroutine. `errArray = append(errArray, err)` is a data
  race. It is split into the loads and stores of the slice header that the Go
  compiler emits (the three words are loaded one at a time, in any order; cap and
  ptr are stored when the slice grows; then len), and indexing beyond the array that the pointer word designates may fault.
* `BatchRefinement`: `BatchWorker` implements `CopyJob`, and each goroutine uses
  its call as `CopyCall` describes it.
* `Configuration`, `pkg/config`: `ReadConfig` as a function of what the file
  holds. It returns a configuration together with an error when the file has an
  unknown field or fails the checks, and its callers differ in whether they look
  at the error. `GetUniqueName` gives a catalog the name and the tag of its
  target. `Executor`, `Differ` and `ReleaseClient` use it.
* `Workspace`: the working directory, the registry, the state of a run, and
  `ExtractLayersOCI`, shared by two collectors. `ReleaseCollector`,
  `OperatorCollector`, `AdditionalCollector`: the collectors, in both modes: the
  steps that plan downloads, and the walks (`ReleaseSchema`, `ReleaseWalk`,
  `OperatorWalk`, `AdditionalWalk`) that plan what to publish. `Executor`
  composes them with `Validate` and `Complete`, an abstract batch worker
  (`CopyJob` without its order), a kill at any point, and further runs over the
  same directory, each with its own destination. `MCExecutor` holds the
  configurations for TLC.
* `Differ`, `DeleteImages` with `calculateDiff` and `WriteMetadata`: the list of
  items and one configuration file for each, on disk across calls. The nested
  loops of `calculateDiff` are the set of their writes to the map, each with its
  place in the loops; the last write to a name counts (`Stale`). Truncating
  and writing a file are two steps, a kill may come between any two, a write may
  be cut short, and the configuration file may be edited at any time. Who calls
  it is external: a caller starts the metadata where there is none. `MCDiffer`
  holds the configurations.
* `UpgradePath`, `GetUpdates`: the search (`Visit`, `SearchEnds`), the walk back
  along the predecessors (`WalkBack`), and what `gatherUpdates` downloads.
  `MCUpgradePath` holds the graphs.
* `CrossChannel`, `CalculateUpgrades` and `calculate`: one step for each channel
  of the recursion. Each request to the Cincinnati server is a step of its own
  with an arbitrary answer, since nothing makes two answers agree; a path is any
  that `UpgradePath` can return on a graph of upgrades to newer versions, which
  theorem `AnswersCrossChannel` justifies. The last loop, which keeps the first
  occurrence of every image, is a step for each upgrade (`Keep`).
* `ReleaseClient`, `GetReleaseReferenceImages`: the loops over architectures and
  channels, the versions written back between architectures, and the cross
  channel part, with any request failing. The cross channel part may list any
  versions (`CrossChannel` is about which), and a shortest path any set that
  holds its two ends. `MCReleaseClient` holds configurations and answers.
* `Signatures`, `GenerateReleaseSignatures`: the cache file of each digest, with
  the truncation and the write of `os.WriteFile` as two steps, over several runs
  and kills. A nil response, a message that cannot be read, and a signature that
  is not V3 or by no known key are panics, as in the code. A message whose
  signature does not verify (`Unverified`) is logged and used, as in the code.
* `CatalogFilter`: the map of filters that the operator collector compiles from
  all the operators of the configuration (`Compile`), and for one of them the pass over the objects of a package, one step for each object. A catalog is
  one that `opm` would build (`Valid`): one package object, whose default channel
  exists, and channels with names of their own and entries that are bundles of the
  package. `MCCatalogFilter` holds catalogs and configurations.
* `BatchWorkerProofs` (about `BatchRefinement` as well), `MirrorRunProofs`,
  `SignaturesProofs`, `ExecutorProofs`, `DifferProofs`, `ReleaseClientProofs`,
  `UpgradePathProofs` (about `CrossChannel` as well), `CatalogFilterProofs`:
  theorems and proofs.

Abstractions in the executor: the content of the image set configuration is a
constant, how it can be read is chosen anew for both readings of every run; all
runs name the same path, with a transport of their own; an image is a name; what a catalog selects is a constant sequence (`CatalogFilter`
is about which, and shows that a catalog without packages only fails); a directory is
a tuple built from the parts of its path. The Cincinnati client logs its errors
and returns what it has, and a missing signature empties its list, so
`ReleaseList` may list any of the releases; a shortest path names its two ends
twice (`gatherUpdates`), which the model keeps. A copy that fails or is killed
may or may not leave the image complete. `cleanUp` removes the logs directory
only, which no property is about. An image found by several walks, of
overlapping directories or for several packages, is planned once in the model. A malformed name of an additional image is a
nondeterministic error, since names have no text here; so is one without the
prefix `dir://` that `Validate` asks for, which is among the errors of `Start`.
In the registry a release image goes under the path of its pull spec
(`findRelatedImage`): all images of a release share a repository, and two
components with one pull spec go to one reference. `PullSpec` is any function, and
no property says that what is pushed has a reference of its own.

## 3. Runs

| Run | Instance | Distinct states | Shows |
|---|---|---|---|
| `batch_worker` | batches of 3, 0 to 6 images | 593,550 | `OkMeansCopied`, `WaitGroupExact`, `PanicNeedsTwoFailures`, `LaunchInOrder`, `Termination`, the refinement `ImplementsCopyJob` (with `CallsCopyOnce` in it), and the inductive invariant `WorkerInv` (`BatchInv` with `TypeOK` and `ErrorMeansFailedCopy` in it, and `AppendInv`) |
| `mirror_run` | 2 retries, copy and delete, with and without timeout and digest file | 639 | `NilMeansDone`, `RetriesSpent`, `RetriesOnlyTransient`, `Termination`, `ImplementsCopyCall`, and the inductive invariant `RunInv` |
| `executor` | 3 runs to `oci:`, `dir:` or `docker:`, 3 ways to read the configuration, 2 releases, 1 catalog with 2 images of one namespace, 2 additional images in one directory, 2 components of one release with one pull spec | 779,261 | the inductive invariant `ExecutorInv` (with `TypeOK` in it), `DistinctDestinations`, `CleanCacheSound`, `CleanRunMirrorsReleases`, `OkMeansIndexes`, `RoundTrip`, `NeverCopiedTwice`, `UnreadIsInert`, `RunEnds` |
| `differ` | 3 calls, 2 edits, 15 configurations with images, catalogs (also renamed and tagged by a target), packages and channels added, changed, moved, reordered and dropped | 2,059,997 | `DiffIsExact`, `RecordInOrder`, `ComparesWithApplied`, `FailsOnlyOnOtherNames` |
| `upgrade_path` | every graph of 5 versions with upgrades to newer ones, a cycle and a loop | 790,296 | `PathIsShortest` and `PathIsNewest` against an enumeration of all paths; `Termination` |
| `cross_channel` | 4 versions, 4 minor versions, 2 channel prefixes | 405,384 | `UpgradesConnect`, `UnblockedReachesRequested` |
| `release_client` | 2 architectures, 1 or 2 channels, 3 versions | 2,169,264 | `ChannelsMirrored` (`RangesMirrored` and `HeadsMirrored`), `CrossSpansAll` |
| `signatures` | 3 runs, 2 digests, one listed twice, answers that verify and that do not | 54,208 | `AllOrNothing`, `GoodRunsSucceed`, `CachedNotRequested`, and the inductive invariant `ClientInv` (`SignatureInv`, `CleanInv`, `RequestInv`) |
| `catalog_filter` | 2 packages, 2 channels that may share a bundle, objects in and out of order, other operators with the same packages before and after | 352,128 | `RangeRespected`, `InsideSelected`, `HeadsSelected` (`HeadOfDefault` and `HeadsOfAllChannels`) |
| `batch_lost_error` | batches of 2 | violation | an error of a failed copy is lost and never logged |
| `executor_rerun` | 2 runs, 1 release | violation | a rerun takes an empty directory for a cached image |
| `executor_catalogs` | 2 catalogs, the last with 2 images of one namespace | violation | of two catalogs only the last is downloaded, and of its two images of one namespace only the first |

What holds is as telling as what does not. The race on `errArray` loses errors
but never the fact that there was one: the length word a goroutine stores is at
least one, it stores it before `wg.Done`, and nothing sets it back to zero in
the same call; so a nil result is right (`OkMeansCopied`). It can fault only
when two copies of a batch fail together (`PanicNeedsTwoFailures`). The copy
error of a catalog is only logged, yet a run cannot succeed without the
catalog, because the index is read afterwards (`OkMeansIndexes`). The cache is
sound as long as every earlier run succeeded (`CleanCacheSound`); after a failed
or killed one it is not, which `executor_rerun` shows. After successful runs
every image of a release comes out of the directory again, although it is found
by the name of a file that only one of the formats has (`RoundTrip`). In the
differ the nested loops write the same map entries over and over; for images
and catalogs the last assignment is nevertheless the right one, here for every
pair of the configurations listed and in section 5 for every pair there is
(`DiffIsExact`), and neither kills nor failed calls make
it compare with anything but the last recorded configuration, as long as no
kill fell between the two files (`ComparesWithApplied`).

Every property of a passing run has a mutant in `PROJECT.json`: a change to one
mapped definition, of the kind a bug in that code would make, under which TLC
finds the property violated. The definitions named `X_Something` next to a
definition `X` are these mutants.

**Bounds.** Batches of 3 with up to 6 images give the empty list, lists shorter
than a batch, exact multiples, two full batches, one with a remainder, and three
concurrent failing appends; two batches and a remainder in one list are left to
the proofs, which are for every length. Two retries give a first, an inner and a last
attempt. Three runs of the executor let a run inherit from one that inherited
from a failed one. Two releases tell "the first" from "the last"; the catalog
has two images that share a directory, and so have the additional images.
Two runs to disk, in one format or in both, and one to a registry are the least
for a round trip after an incremental run. Three calls of the differ give an
item before the previous one, and two edits a change between calls and one
during a call; the configurations include names listed twice and a package that
moves from one catalog to another.
Five versions are the least for which a stack in place of the search's queue
gives a longer path. Four minor versions put two channels between source and
target. Two architectures and two channels are what the write back needs to
mix anything up; an image listed twice meets its own cache file. The operators
before and after the one whose catalog is read give channels to both of its
packages, and so overwrite its filters and are overwritten by them. In the catalog
the ranks 0, 2 and 3 stand for 0.0.0, 9.9.9 and a version above it.
`MaxImages`, `MaxRuns`, `MaxEdits`, `Destinations`, `Readings`, and the sets of graphs, answers, catalogs and
configurations are the only bounds that the code does not have;
`BATCH_SIZE` is 8 in the code and `MaxRetry` a flag.

**Fairness.** `BatchWorker`: weak fairness of the worker and of every goroutine.
The Go scheduler runs what is runnable, and `Mirror.Run` returns, which
`mirror_run` shows under weak fairness of its own steps: retries are finite,
timers fire, and the library's copy answers or fails. The timeout is never
assumed to expire. `Executor`: weak fairness of the run; nobody has to kill it
or to start it again.

## 4. Deviations seen while modelling, without a run of their own

Each of these follows from the lines named, against the comment quoted. The
models follow the code, and the properties that hold are stated around them.

* `pkg/release/cincinnati.go:218-223`: the versions found for one architecture
  are written into the configuration by channel name. The second architecture
  takes them for a configured range and never looks up its own head ("IsHeadsOnly
  determine if the mode set mirrors only channel head", `types_config.go:90`), and
  of two entries of one channel both get the range of the second. `RangesMirrored`
  is about channels with distinct names, and `HeadsMirrored` about the first
  architecture.
* `pkg/release/cincinnati.go:374`: only an empty file of the signature cache is
  looked up again ("check if the image is in the cache else do a lookup", 362). A
  signature that a killed run has cut short fails this run and every later one;
  `GoodRunsSucceed` therefore supposes that no earlier run was killed.
* `pkg/release/cincinnati.go:412-417`: a signature that does not verify is logged
  ("signature error:", "invalid signature"), and the reference it names is used
  and its message cached like any other. `AllOrNothing` says that a reference
  comes from a message for its own digest; only `GoodRunsSucceed`, where every
  answer was good, says that it was signed.
* `pkg/manifest/oci-manifest.go:398`: a bundle is selected when it compares
  `>= 1` with the minimum version, so the minimum itself is left out ("MinVersion
  to include", `type_config_include.go:42`). `InsideSelected` is open below.
* `pkg/operator/collector.go:85`: each channel of a package overwrites the filter
  of the one before ("Channels to include", `type_config_include.go:22`), and each
  operator those of an operator before it with a package of the same name.
  `RangeRespected` and `InsideSelected` are about the filter that is left.
* `pkg/manifest/oci-manifest.go:92`: without packages the catalog is looked for
  without its label, where nothing was extracted, and the run ends in an error.
  `HeadOfDefault` is checked on a directory that holds the packages themselves.
* `pkg/operator/collector.go:262`: the directory of a related image does not
  contain its name. The first image of a bundle and namespace creates it, the
  others are taken to be cached ("download each releated image to disk",
  `NOTES.md:37`).
* `pkg/additional/collector.go:74`: a directory that cannot be created makes the
  collector return an empty list and no error, and the run succeeds.
* `pkg/release/core-cincinnati.go:263`: where a version is blocked on the way
  through several channels, the code returns the latest version of the channel
  it has reached, and not the requested one ("If blocked path is found, just
  return the requested version and any accumulated upgrades to the caller", 261).
  `UnblockedReachesRequested` leaves that case out.
* `pkg/operator/collector.go:212`: related images are written with the dir
  transport (276) and have no `index.json`, which is what the walk looks for. No
  related image is ever published ("operator upload to registry from disk",
  `README.md:21`).
* `pkg/additional/collector.go:96`: the same for additional images that were
  mirrored with `dir://`; `RoundTrip` is about those mirrored with `oci://`. The
  release payload itself is never pushed, only the images it refers to.
* `pkg/release/collector.go:200`: an error of the walk is dropped and so are the
  images found, and the run succeeds without them. `RoundTrip` supposes that
  there was none (`lost`).
* `pkg/cli/executor.go:245`: to mirror to disk, a configuration that cannot be
  read makes a run that does nothing and succeeds; one with an unknown field
  makes a run without the default architecture, and so without releases.
* `pkg/diff/diff.go:219`: a channel or a package that is no longer configured is
  not the name of an image, and ends every later call with that configuration in
  an error, before anything is deleted or recorded. The same happens to a package
  that is still configured when a later catalog lacks it: line 186 marks it as
  dropped again. `FailsOnlyOnOtherNames` is about configurations with one catalog.
* `pkg/diff/diff.go:200`: a catalog that is configured as an additional image
  from now on is marked only by a previous list that is not empty. If no image was
  configured before, its path is deleted ("all the false objects that are from
  previous runs should be deleted", 169) although it is still configured.
  `DiffIsExact` bounds what is deleted by `Gone` from below and by `Dropped` from
  above, and they differ in such names alone.
* `pkg/diff/diff.go:136-157`: a kill after the list is written and before the
  file of its last item leaves a list that no later call can use; so does a kill
  while the list is written, until the metadata is started anew. In between, a
  file left by an older list may be compared with.
* `pkg/diff/diff.go:262`: the path to delete has no digest, so dropping one
  digest of an image deletes the path of another that is still configured.
  `mirror.go:74`: `DeleteImage` is a stub, and the record moves on all the same.
* `pkg/batch/worker.go:78`: the recursive call numbers its batches from 0 again,
  so its log file replaces that of the first batch ("create a log file for each
  batch", 77). The log files are not part of the model.

## 5. Proofs

Every proof is for all values of the constants that the named assumptions admit.
Each module of proofs has an inductive invariant, a conjunction of named parts;
one lemma per part or per action shows that a step preserves it, a theorem
`...Invariance` that it always holds, and one theorem per property that the
property follows. `WorkerInv`, `RunInv`, `ExecutorInv` and the `ClientInv` of
`Signatures` are also invariants of their runs.

**`BatchWorkerProofs`**, for every `BATCH_SIZE` above zero and every
`MaxImages`. `BatchInv` gives `TypeOK` (the WaitGroup never goes below zero,
where it would panic), `OkMeansCopied`, `ErrorMeansFailedCopy`, `WaitGroupExact`,
`OneLevelOfRecursion`, `BoundedConcurrency` and the action property
`LaunchInOrder`. None of them is inductive alone. That nil means copied needs to
know that everything before the current batch finished without a failure and
everything after it is idle (`LaunchInv`), that a goroutine past its call has
copied or is in `failed`, and that a failed one has made the length of
`errArray` positive before `wg.Done` (`CallInv`); that `wg = 0` means the batch
is over (`WaitGroupExact`, by counting `Pending`); and that batches and the
recursion stay inside the list (`FrameInv`, by the arithmetic of division and
remainder). The race is part of what is proved about: up to here the proof uses
nothing of the slice header but that its length is positive after a store.
`PanicNeedsTwoFailures` needs more, `AppendInv`: as long as only one goroutine has
failed, its append starts from an empty slice, whose words it finds whatever the
order in which it loads them, and leaves a sound one behind.
`WorkerInv` is both. The refinement `ImplementsCopyJob` follows step by step: a
launch, a call and a return of the worker are a step of `CopyJob` or of the
`CopyCall` of that image, everything else a stutter.
Progress: `NeverStuck` says that whenever Worker waits for the WaitGroup with a
count above zero, a goroutine of the batch is alive (and the guard of every step
of a goroutine is nothing but where it stands); `RunsForward` that no step takes
Worker (`Place`) or a goroutine (`Rank`: where it stands, and how many words it has
loaded) back and every one takes something
forward or returns; `BoundedRun` that both are bounded.

**`MirrorRunProofs`**, for every `MaxRetry`: `RunInv` ties the step to the number
of attempts and to what the last attempt returned, and gives `NilMeansDone`,
`RetriesSpent`, `RetriesOnlyTransient` and the refinement `ImplementsCopyCall`,
which needs that a nil error implies an accomplished copy up to the return.
`CallIsShort`: a call ends after at most 4 * `MaxRetry` + 8 steps, as every step
lessens `StepsLeft`.

**`SignaturesProofs`**, for every list of images and any number of runs and
kills. `SignatureInv` gives `AllOrNothing`: no file ever holds a message for
another digest, and `data` is one for the image at hand from the verification to
the write, although it is declared outside of the loop. `CleanInv` (while every
answer and write was good, a file is absent or complete, and those of the images
handled in this run or an earlier one are complete, with the signature that was
made for them) gives `GoodRunsSucceed`;
`RequestInv` (an image is requested at most once in a run, and its file is
complete afterwards or the answer is at hand) gives `CachedNotRequested`.
`ClientInv` is the three together.

**`ExecutorProofs`**, for every configuration and any number of runs, to disk or
to a registry, killed at any point. `ExecutorInv` is built in layers, each
preserved with the help of those before it: `TypeOK`; the configuration in use is
the one in the file, with or without its defaults, or the empty one
(`ConfigInv`); what each phase has left to do and has in memory (`ControlInv`);
what is planned by whom, with directories of their own (`ItemsInv`); no two
copies to disk have one directory, because what is planned has a directory that
was new (`DistinctDestinations`); what is complete has its directory (`DiskInv`); what
a collector has passed is on disk or planned (`ProgressInv`); after successful
runs, a directory without an image is one that this run has made, and its image
is planned or being copied (`CacheInv`), and manifests are there only of releases
that were processed or are in hand (`ManifestInv`); what the walks found is
planned or pushed (`PublishInv`). From it follow
`CleanCacheSound`, `CleanRunMirrorsReleases`, `OkMeansIndexes`, `RoundTrip` and
the action properties `NeverCopiedTwice` and `UnreadIsInert`.

**`DifferProofs`**, for every set of configurations and any number of calls,
edits and kills. The record (`ListsInv`, `StepInv`, `IntactInv`): the list on
disk, the list in memory and the step determine which files can be read, whatever
is cut short; this gives `RecordInOrder` and `ComparesWithApplied`. The
difference (`FilesInv`, `DeleteInv`, `FailInv`): lemma `StaleWasDropped` takes the
last write to a name and shows for each of the loops that a later one would have
cleared it, had the name been there; `GoneIsStale` shows that nothing but
"previous" is ever written to a name that is gone. They give `DiffIsExact` and
`FailsOnlyOnOtherNames`.

**`ReleaseClientProofs`**, for every configuration, every set of answers and any
failures. `ClientInv` says how far the loops are (`LoopInv`), what the write back
has done to the configuration (`ConfigInv`), what was found for the channels
before this one (`FoundInv`, `ChannelInv`), that it is in the list (`ListInv`),
and from where to where the cross channel part goes (`CrossInv`). It gives
`ChannelsMirrored` and `CrossSpansAll`.

**`UpgradePathProofs`**, for every finite graph, cycles and loops included. That
a search in the order of a queue finds the newest of the shortest paths is an
invariant about all paths: the predecessors form trails (`Trail`), the trail to a
visited version is the best of all paths to it (`Optimal`), versions taken from
the queue have all their successors visited (`Expanded`), the queue is in the
order of the trails (`Frontier`), and after the search every version nearer than
the requested one was expanded, all of them when it was not found (`Settled`). The
trails are quantified: `PathInv` says that there are some. Induction over the
length of a path is replaced by a least counterexample, and `NewestFirst` is shown
to sort by counting (`Sorted`). TLC checked `PathInv` (all of it but `Short`) on
every graph of four versions (8,683,520 states). It gives `PathIsShortest` and
`PathIsNewest`. A trail is no longer than there are visited versions (`Short`),
so that every step lessens the number of those left, and `GetUpdates` ends after
at most 2 * `Nodes` + 3 of them (`SearchIsShort`).

`CrossChannel` is proved about in the same module, which extends both, for
any number of versions, of minor versions between the two channels, and for all
answers. While no version is blocked and every channel has a path, the upgrades
collected are a chain (`Chain`): from the start to the version reached, never to
an older one, each the same as the one before or offered by a channel after it.
That they never go back is what the last loop needs (`Kept`): a version that is
dropped because it was kept before can then only be the one kept last, so
dropping it does not tear the chain. `CrossInv` is both, and TLC checked it on the
instance of `cross_channel`. It gives `UpgradesConnect` and
`UnblockedReachesRequested`. `AnswersCrossChannel` ties the two modules together:
where every upgrade goes to a newer version, and the channel has no more versions
than there are in all, the path that `UpgradePath` returns
is one of those that `CrossChannel` takes from a channel; its length is bounded
because the versions climb at least as fast as the positions (`Climbs`).

**`CatalogFilterProofs`**, for every valid catalog and every list of filters, in
any order of the objects, with any operators before and after. `CatalogInv` says which part of the objects is left to
scan (`Suffix`, `ScanInv`), that what was selected so far was to be selected
(`PassSound`), and that of the objects scanned nothing was left out that the
filter wants (`Handled`). It gives `RangeRespected`, `InsideSelected` and
`HeadsSelected`.

The only assumptions are those named in the modules, and TLC evaluates them in
every run: `BATCH_SIZE \in Nat \ {0}` and `MaxImages \in Nat`
(`BatchAssumption`), `MaxRetry \in Nat` (`RetryAssumption`), neither a digest
nor a message that does not verify is one of the marks "absent", "cut" and "empty",
and the latter is no digest (`SignatureAssumption`), the shape of the
configuration (`ConfigAssumption`) and that releases, catalogs and additional
images have different names (`NamesAssumption`, both in `Workspace`), the shape of the configuration, and answers that are bounded sets of
versions (`ClientAssumption`), a finite graph whose versions are numbered in
their order (`GraphAssumption`), at least one version and any number of minor
versions (`ChannelAssumption`), valid catalogs with bundles of their own and
versions that are ranks or malformed (`FilterAssumption`), and for the differ that images and catalogs have names of
three parts and channels and packages have not (`DifferAssumption`).

Model-checked only: all liveness (`Termination` of three modules, `RunEnds`),
which this prover does not do, and what the three violations show. What the
terminations rest on is proved: steps are bounded in number for the batch worker,
`Mirror.Run` and `GetUpdates`, and the batch worker is never stuck; that a step
which can be taken is taken is the fairness of section 3. `RunEnds` has no such
theorem.

## 6. Not modelled

The network, registries and `containers/image` itself (what a copy does is its
contract); OpenPGP; YAML and JSON decoding beyond its outcome; log output,
including the bytes of the log files, which the goroutines of a batch write
through copies of one buffered writer; the re-exec of `unshare_linux.go`; the
test server. Command line flags and the system contexts built from them
(`options.go`) are data handed to `containers/image`; conflicts between them are
among the checks of `SetupFails`. The query string that one Cincinnati client
accumulates (`client.go:69`): what a server makes of repeated parameters is not
in the repository. `LoadMetadata`, `IncludeConfig.ConvertToDiffIncludeConfig`
and `GetChannels` have no caller; helm charts, samples and blocked images are
fields that no code reads.

## 7. Plan

Done: the batch worker, `Mirror.Run`, the executor with its collectors in both
modes, the release client, upgrade graph, signatures, catalog filters,
configuration and differ, with proofs of all their safety properties. Left:

1. `ReleaseList` of the release collector as a refinement of `ReleaseClient` and
   `Signatures`.
2. A bound on the steps of a run of the executor, as there is for the other
   terminations.
