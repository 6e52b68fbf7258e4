------------------------------ MODULE ExecutorProofs ------------------------------
(***************************************************************************)
(* The runs of the program on one working directory: the invariants that   *)
(* Executor.cfg checks, proved for every image set configuration and any   *)
(* number of runs.                                                         *)
(*                                                                         *)
(* ExecutorInv is proved in layers.  ControlInv and ConfigInv come first;  *)
(* each later layer is preserved by the steps of states in which the layers*)
(* before it hold.                                                         *)
(***************************************************************************)
EXTENDS Executor, TLAPS

\* What is left when the head of a list has been dealt with.
LEMMA TailElements ==
    ASSUME NEW S, NEW s \in Seq(S), s # <<>>
    PROVE  /\ Tail(s) \in Seq(S) /\ Head(s) \in S
           /\ Elements(s) = {Head(s)} \cup Elements(Tail(s))
<1>1. Tail(s) \in Seq(S) /\ Head(s) \in S /\ Len(s) \in Nat \ {0} /\ DOMAIN s = 1 .. Len(s)
  OBVIOUS
<1>2. DOMAIN Tail(s) = 1 .. Len(s) - 1 /\ \A k \in 1 .. Len(s) - 1 : Tail(s)[k] = s[k + 1]
  BY <1>1
<1>3. \A k \in 1 .. Len(s) : k = 1 \/ (k - 1 \in 1 .. Len(s) - 1 /\ s[k] = Tail(s)[k - 1])
  BY <1>1, <1>2
<1>4. \A k \in 1 .. Len(s) - 1 : k + 1 \in 1 .. Len(s)
  BY <1>1
<1>5. Head(s) = s[1] /\ 1 \in DOMAIN s
  BY <1>1
<1>6. ASSUME NEW k \in DOMAIN s PROVE s[k] \in {Head(s)} \cup Elements(Tail(s))
  <2>1. CASE k = 1
    BY <2>1, <1>5
  <2>2. CASE k # 1
    <3>1. k - 1 \in DOMAIN Tail(s) /\ s[k] = Tail(s)[k - 1]
      BY <1>1, <1>2, <1>3, <2>2
    <3> QED
      BY <3>1 DEF Elements
  <2> QED
    BY <2>1, <2>2
<1>7. ASSUME NEW k \in DOMAIN Tail(s) PROVE Tail(s)[k] \in Elements(s)
  <2>1. k + 1 \in DOMAIN s /\ Tail(s)[k] = s[k + 1]
    BY <1>1, <1>2, <1>4
  <2> QED
    BY <2>1 DEF Elements
<1>8. Head(s) \in Elements(s)
  BY <1>5 DEF Elements
<1>9. Elements(s) \subseteq {Head(s)} \cup Elements(Tail(s))
  BY <1>6, Zenon DEF Elements
<1>10. Elements(Tail(s)) \subseteq Elements(s)
  BY <1>7, Zenon DEF Elements
<1> QED
  BY <1>1, <1>8, <1>9, <1>10

\* A subsequence of a list holds members of the list.
LEMMA SublistSeq ==
    ASSUME NEW S, NEW s \in Seq(S), NEW path \in Sublists(s)
    PROVE  path \in Seq(S)
<1>1. PICK n \in 0 .. Len(s) : \E pick \in [1 .. n -> DOMAIN s] : path = [k \in 1 .. n |-> s[pick[k]]]
  BY DEF Sublists
<1>2. PICK pick \in [1 .. n -> DOMAIN s] : path = [k \in 1 .. n |-> s[pick[k]]]
  BY <1>1
<1>3. \A k \in 1 .. n : s[pick[k]] \in S
  BY <1>2
<1> QED
  BY <1>2, <1>3

\* Naming the two ends of a list again adds nothing to its members.
LEMMA EndsAgain ==
    ASSUME NEW S, NEW s \in Seq(S), s # <<>>
    PROVE  /\ s \o <<Head(s), s[Len(s)]>> \in Seq(S)
           /\ Elements(s) \subseteq Elements(s \o <<Head(s), s[Len(s)]>>)
<1>1. Head(s) \in S /\ s[Len(s)] \in S /\ Len(s) \in Nat /\ DOMAIN s = 1 .. Len(s)
  OBVIOUS
<1> DEFINE e == <<Head(s), s[Len(s)]>>
<1>2. e \in Seq(S)
  BY <1>1
<1> HIDE DEF e
<1>3. s \o e \in Seq(S) /\ \A k \in 1 .. Len(s) : k \in DOMAIN (s \o e) /\ (s \o e)[k] = s[k]
  BY <1>1, <1>2
<1> QED
  BY <1>1, <1>3 DEF Elements, e

\* What a run may find in its configuration.
LEMMA ConfigFacts ==
    ASSUME ConfigInv
    PROVE  /\ ConfiguredCatalogs \in {<<>>, Catalogs}
           /\ ConfiguredCatalogs \in Seq(Elements(Catalogs))
           /\ config.additionalImages \in {<<>>, AdditionalImages}
           /\ config.additionalImages \in Seq(Elements(AdditionalImages))
           /\ config.release # NoRelease => config.release \in Elements(Releases)
           /\ config = EmptyConfig =>
                  /\ ConfiguredCatalogs = <<>> /\ config.additionalImages = <<>>
                  /\ config.architectures = <<>> /\ config.release = NoRelease
<1>1. /\ config.operators \in {<<>>, Configured.operators}
      /\ config.additionalImages \in {<<>>, AdditionalImages}
      /\ config.release # NoRelease => config.release \in Elements(Releases)
      /\ config = EmptyConfig =>
              /\ config.operators = <<>> /\ config.additionalImages = <<>>
              /\ config.architectures = <<>> /\ config.release = NoRelease
  <2>1. CASE config = EmptyConfig
    BY <2>1 DEF EmptyConfig
  <2>2. CASE config # EmptyConfig
    <3>1. PICK cfg \in ConfiguredFor(dest) : config \in {cfg, Complete(cfg)}
      BY <2>2 DEF ConfigInv
    <3>2. /\ cfg.operators = Configured.operators /\ cfg.additionalImages = AdditionalImages
          /\ cfg.release # NoRelease => cfg.release \in Elements(Releases)
      <4>1. CASE dest # "docker"
        BY <3>1, <4>1 DEF ConfiguredFor, Configured
      <4>2. CASE dest = "docker"
        <5>1. PICK x \in Elements(Releases) : cfg = [Configured EXCEPT !.channels = <<>>, !.release = x]
          BY <3>1, <4>2 DEF ConfiguredFor
        <5>2. cfg.release = x /\ cfg.additionalImages = AdditionalImages
          BY <5>1 DEF Configured
        <5>3. cfg.operators = Configured.operators
          BY <5>1 DEF Configured
        <5> QED
          BY <5>2, <5>3
      <4> QED
        BY <4>1, <4>2
    <3>3. /\ config.operators = cfg.operators /\ config.release = cfg.release
          /\ config.additionalImages = cfg.additionalImages
      BY <3>1 DEF Complete, ConfiguredFor, Configured
    <3> QED
      BY <2>2, <3>2, <3>3
  <2> QED
    BY <2>1, <2>2
<1>2. config.operators = <<>> => ConfiguredCatalogs = <<>>
  BY DEF ConfiguredCatalogs
<1>3. config.operators = Configured.operators => ConfiguredCatalogs = Catalogs
  BY ConfigAssumption DEF ConfiguredCatalogs, Configured
<1>4. <<>> \in Seq(Elements(Catalogs)) /\ <<>> \in Seq(Elements(AdditionalImages))
  OBVIOUS
<1> QED
  BY <1>1, <1>2, <1>3, <1>4, ConfigAssumption

\* The configuration is read when a run starts, and never again.
LEMMA ConfigStep ==
    ASSUME ConfigInv, [Next]_vars
    PROVE  ConfigInv'
<1>1. CASE UNCHANGED <<dest, config>>
  BY <1>1 DEF ConfigInv
<1>2. CASE Start
  <2>1. dest' \in {"oci", "dir", "docker"}
    BY <1>2, ConfigAssumption DEF Start
  <2>2. CASE config' = EmptyConfig
    BY <2>1, <2>2 DEF ConfigInv
  <2>3. CASE config' # EmptyConfig
    <3>1. PICK cfg \in ConfiguredFor(dest') : \E first, second \in Readings :
              /\ Validated(dest', [data |-> first, cfg |-> cfg])
              /\ config' = Completed([data |-> second, cfg |-> cfg])
      BY <1>2, <2>3 DEF Start
    <3>2. PICK first, second \in Readings :
              /\ Validated(dest', [data |-> first, cfg |-> cfg])
              /\ config' = Completed([data |-> second, cfg |-> cfg])
      BY <3>1
    <3>3. config' \in {cfg, Complete(cfg)}
      BY <3>2, <2>3, ConfigAssumption DEF Completed, ReadConfig
    <3>4. dest' = "docker" => cfg.release # NoRelease
      <4>1. SUFFICES ASSUME dest' = "docker", cfg.release = NoRelease PROVE FALSE
        OBVIOUS
      <4>2. PICK x \in Elements(Releases) : cfg = [Configured EXCEPT !.channels = <<>>, !.release = x]
        BY <4>1 DEF ConfiguredFor
      <4>3. Complete(cfg).release = cfg.release
        BY <4>2 DEF Complete, Configured
      <4> QED
        BY <3>2, <4>1, <4>3, ConfigAssumption DEF Validated, ReadConfig, EmptyConfig
    <3> QED
      BY <2>1, <3>1, <3>3, <3>4 DEF ConfigInv
  <2> QED
    BY <2>2, <2>3
<1> QED
  BY <1>1, <1>2 DEF Next, Run, ReleaseImageCollector, OperatorImageCollector,
     AdditionalImagesCollector, Worker, Idle, Kill, vars, kept,
     ReleaseList, ReleaseStat, ReleaseFetch, ReleaseIndex, ReleaseExtract, ReleasePlan,
     ReleasePlanFails, ReleaseDone, ReleaseSchema, ReleaseWalk,
     CatalogStat, CatalogFetch, CatalogIndex, CatalogExtract, CatalogSelect, OperatorsDone,
     OperatorWalk, AdditionalCached, AdditionalPlan, AdditionalRejected, AdditionalMkdirFails,
     AdditionalDone, AdditionalWalk, CopyOk, CopyFails, WorkerReturns,
     Extract, ExtractSkips, ExtractStarts, ExtractEnds

\* Every step of a run, a kill and a new run keep phase, list and memory in agreement.
LEMMA ControlStep ==
    ASSUME ConfigInv, ControlInv, [Next]_vars
    PROVE  ControlInv'
<1> USE DEF Mode, Stop, Leave, Good, disk, kept, history, collector, InRelease, InCatalog, InAdditional, Fresh
<1>1. CASE ReleaseSchema
  BY <1>1 DEF ControlInv, ReleaseSchema
<1>2. CASE ReleaseWalk
  BY <1>2, ConfigFacts DEF ControlInv, ReleaseWalk
<1>3. CASE ReleaseList
  <2>1. PICK path \in Sublists(IF config.architectures = <<>> THEN <<>> ELSE Releases) :
            /\ \/ todo' = path
               \/ path # <<>> /\ todo' = path \o <<Head(path), path[Len(path)]>>
            /\ listed' = Elements(path)
    BY <1>3 DEF ReleaseList
  <2>2. path \in Seq(Elements(Releases))
    <3>1. <<>> \in Seq(Elements(Releases)) /\ Releases \in Seq(Elements(Releases))
      BY ConfigAssumption
    <3> QED
      BY <3>1, SublistSeq
  <2>3. todo' \in Seq(Elements(Releases))
    BY <2>1, <2>2, EndsAgain
  <2>4. config = EmptyConfig => todo' = <<>>
    <3>1. config = EmptyConfig => path \in Seq({})
      <4>1. <<>> \in Seq({})
        OBVIOUS
      <4>2. config = EmptyConfig => path \in Sublists(<<>>)
        BY <2>1, ConfigFacts
      <4> QED
        BY <4>1, <4>2, SublistSeq
    <3> QED
      BY <3>1, <2>1
  <2> QED
    BY <1>3, <2>3, <2>4 DEF ControlInv, ReleaseList
<1>4. CASE ReleaseStat
  BY <1>4 DEF ControlInv, ReleaseStat
<1>5. CASE ReleaseFetch
  BY <1>5 DEF ControlInv, ReleaseFetch
<1>6. CASE ReleaseIndex
  BY <1>6 DEF ControlInv, ReleaseIndex
<1>7. CASE ReleaseExtract
  BY <1>7 DEF ControlInv, ReleaseExtract, r, Extract, ExtractSkips, ExtractStarts, ExtractEnds
<1>8. CASE ReleasePlan
  BY <1>8 DEF ControlInv, ReleasePlan
<1>9. CASE ReleasePlanFails
  BY <1>9 DEF ControlInv, ReleasePlanFails
<1>10. CASE ReleaseDone
  BY <1>10, ConfigFacts DEF ControlInv, ReleaseDone
<1>11. CASE OperatorWalk
  <2>1. config = EmptyConfig => {x \in Elements(ConfiguredCatalogs) : <<x>> \in onDisk} = {}
    BY ConfigFacts DEF Elements
  <2>2. config = EmptyConfig => work' = {}
    BY <1>11, <2>1 DEF ControlInv, OperatorWalk
  <2> QED
    BY <1>11, <2>2 DEF ControlInv, OperatorWalk
<1>12. CASE CatalogStat
  BY <1>12 DEF ControlInv, CatalogStat
<1>13. CASE CatalogFetch
  BY <1>13 DEF ControlInv, CatalogFetch
<1>14. CASE CatalogIndex
  BY <1>14 DEF ControlInv, CatalogIndex
<1>15. CASE CatalogExtract
  BY <1>15 DEF ControlInv, CatalogExtract, c, Extract, ExtractSkips, ExtractStarts, ExtractEnds
<1>16. CASE CatalogSelect
  <2>1. Tail(todo) \in Seq(Elements(Catalogs)) /\ c \in Elements(Catalogs)
    BY <1>16, TailElements DEF ControlInv, CatalogSelect, c
  <2>2. \A n \in 0 .. Len(RelatedImages[c]) :
            SubSeq(RelatedImages[c], 1, n) \in Seq(Elements(RelatedImages[c]))
    BY <2>1, ConfigAssumption
  <2>3. CASE related' = related
    BY <1>16, <2>1, <2>3 DEF ControlInv, CatalogSelect
  <2>4. CASE \E n \in 0 .. Len(RelatedImages[c]) : related' = <<c, SubSeq(RelatedImages[c], 1, n)>>
    <3>1. related'[1] = c /\ related'[2] \in Seq(Elements(RelatedImages[c]))
      BY <2>2, <2>4
    <3>2. config # EmptyConfig
      BY <1>16 DEF ControlInv, CatalogSelect
    <3> QED
      BY <1>16, <2>1, <3>1, <3>2 DEF ControlInv, CatalogSelect
  <2> QED
    BY <1>16, <2>3, <2>4 DEF CatalogSelect
<1>17. CASE OperatorsDone
  <2>1. config = EmptyConfig => work' = {}
    BY <1>17 DEF ControlInv, OperatorsDone, Planned
  <2> QED
    BY <1>17, <2>1, ConfigFacts DEF ControlInv, OperatorsDone
<1>18. CASE AdditionalWalk
  BY <1>18, ConfigFacts DEF ControlInv, AdditionalWalk
<1>19. CASE AdditionalCached
  BY <1>19 DEF ControlInv, AdditionalCached
<1>20. CASE AdditionalPlan
  BY <1>20 DEF ControlInv, AdditionalPlan
<1>21. CASE AdditionalRejected
  BY <1>21 DEF ControlInv, AdditionalRejected
<1>22. CASE AdditionalMkdirFails
  BY <1>22 DEF ControlInv, AdditionalMkdirFails
<1>23. CASE AdditionalDone
  BY <1>23 DEF ControlInv, AdditionalDone
<1>24. CASE CopyOk
  BY <1>24 DEF ControlInv, CopyOk
<1>25. CASE CopyFails
  BY <1>25 DEF ControlInv, CopyFails
<1>26. CASE WorkerReturns
  BY <1>26 DEF ControlInv, WorkerReturns
<1>27. CASE Start
  BY <1>27 DEF ControlInv, Start
<1>28. CASE Kill
  BY <1>28 DEF ControlInv, Kill
<1>29. CASE UNCHANGED vars
  BY <1>29 DEF ControlInv, vars
<1> QED
  BY <1>1, <1>2, <1>3, <1>4, <1>5, <1>6, <1>7, <1>8, <1>9, <1>10, <1>11, <1>12, <1>13, <1>14, <1>15, <1>16, <1>17, <1>18, <1>19, <1>20, <1>21, <1>22, <1>23, <1>24, <1>25, <1>26, <1>27, <1>28, <1>29 DEF Next, Run, ReleaseImageCollector,
     OperatorImageCollector, AdditionalImagesCollector, Worker, Idle

\* What is planned is one of the images of the configuration, and only an
\* additional image goes to the directory of the additional images.
LEMMA ItemImages ==
    ASSUME NEW w
    PROVE  /\ ReleaseItem(w) \/ CatalogItem(w) \/ AdditionalItem(w) =>
                  /\ w.img \in Payloads \cup ImagesOfReleases \cup ImagesOfCatalogs
                  /\ IsAdditional(w) => AdditionalItem(w)
           /\ AdditionalItem(w) => IsAdditional(w)
<1>1. CASE ReleaseItem(w)
  <2>1. PICK x \in Elements(Releases) : \E i \in ReleaseImages[x] :
            w = [img |-> <<x, i>>, dest |-> ImageDir(x, i)]
    BY <1>1 DEF ReleaseItem
  <2>2. w.img \in ImagesOfReleases
    BY <2>1 DEF ImagesOfReleases
  <2>3. w.dest[1] = "release-images"
    BY <2>1 DEF ImageDir
  <2> QED
    BY <2>2, <2>3 DEF IsAdditional, AdditionalItem, AdditionalDir
<1>2. CASE CatalogItem(w)
  <2>1. PICK x \in Elements(Catalogs) : \E i \in Elements(RelatedImages[x]) :
            w = [img |-> <<x, i>>, dest |-> ComponentDir(x, i)]
    BY <1>2 DEF CatalogItem
  <2>2. w.img \in ImagesOfCatalogs
    BY <2>1 DEF ImagesOfCatalogs
  <2>3. w.dest[1] = "operator-images"
    BY <2>1 DEF ComponentDir
  <2> QED
    BY <2>2, <2>3 DEF IsAdditional, AdditionalItem, AdditionalDir
<1>3. CASE AdditionalItem(w)
  BY <1>3 DEF AdditionalItem, Payloads, AdditionalDir, IsAdditional
<1> QED
  BY <1>1, <1>2, <1>3

\* Every step keeps the types; what is planned to disk has a directory, since the
\* collectors make it first.
LEMMA TypeStep ==
    ASSUME ConfigInv, ControlInv, TypeOK, ItemsInv, [Next]_vars
    PROVE  TypeOK'
<1> USE DEF Mode, Stop, Leave, disk, kept, history, collector, InRelease, InCatalog, InAdditional, Fresh
<1>1. CASE ReleaseSchema
  BY <1>1 DEF TypeOK, ReleaseSchema
<1>2. CASE ReleaseWalk
  BY <1>2 DEF TypeOK, ControlInv, ReleaseWalk
<1>3. CASE ReleaseList
  <2>1. <<>> \in Seq(Elements(Releases)) /\ Releases \in Seq(Elements(Releases))
    BY ConfigAssumption
  <2>2. PICK path \in Seq(Elements(Releases)) : listed' = Elements(path)
    BY <1>3, <2>1, SublistSeq DEF ReleaseList
  <2>3. listed' \subseteq Elements(Releases)
    BY <2>2 DEF Elements
  <2> QED
    BY <1>3, <2>3 DEF TypeOK, ReleaseList
<1>4. CASE ReleaseStat
  BY <1>4 DEF TypeOK, ReleaseStat
<1>5. CASE ReleaseFetch
  <2>1. <<r>> \in Payloads
    BY <1>5 DEF ReleaseFetch, ControlInv, Payloads, r
  <2> QED
    BY <1>5, <2>1 DEF TypeOK, ReleaseFetch
<1>6. CASE ReleaseIndex
  BY <1>6 DEF TypeOK, ReleaseIndex
<1>7. CASE ReleaseExtract
  BY <1>7 DEF TypeOK, ReleaseExtract, Extract, ExtractSkips, ExtractStarts, ExtractEnds
<1>8. CASE ReleasePlan
  BY <1>8 DEF TypeOK, ReleasePlan
<1>9. CASE ReleasePlanFails
  BY <1>9 DEF TypeOK, ReleasePlanFails
<1>10. CASE ReleaseDone
  BY <1>10 DEF TypeOK, ReleaseDone
<1>11. CASE OperatorWalk
  BY <1>11 DEF TypeOK, OperatorWalk
<1>12. CASE CatalogStat
  BY <1>12 DEF TypeOK, CatalogStat
<1>13. CASE CatalogFetch
  <2>1. <<c>> \in Payloads
    BY <1>13 DEF CatalogFetch, ControlInv, Payloads, c
  <2> QED
    BY <1>13, <2>1 DEF TypeOK, CatalogFetch
<1>14. CASE CatalogIndex
  BY <1>14 DEF TypeOK, CatalogIndex
<1>15. CASE CatalogExtract
  BY <1>15 DEF TypeOK, CatalogExtract, Extract, ExtractSkips, ExtractStarts, ExtractEnds
<1>16. CASE CatalogSelect
  BY <1>16 DEF TypeOK, CatalogSelect
<1>17. CASE OperatorsDone
  BY <1>17 DEF TypeOK, OperatorsDone
<1>18. CASE AdditionalWalk
  BY <1>18 DEF TypeOK, AdditionalWalk
<1>19. CASE AdditionalCached
  BY <1>19 DEF TypeOK, AdditionalCached
<1>20. CASE AdditionalPlan
  BY <1>20 DEF TypeOK, AdditionalPlan
<1>21. CASE AdditionalRejected
  BY <1>21 DEF TypeOK, AdditionalRejected
<1>22. CASE AdditionalMkdirFails
  BY <1>22 DEF TypeOK, AdditionalMkdirFails
<1>23. CASE AdditionalDone
  BY <1>23 DEF TypeOK, AdditionalDone
<1>24. CASE CopyOk
  <2>1. PICK w \in work : work' = work \ {w} /\ Stored(w)
    BY <1>24 DEF CopyOk
  <2>2. Mode = "mirrorToDisk" => w.img \in Payloads \cup ImagesOfReleases \cup ImagesOfCatalogs
    BY ItemImages DEF ItemsInv
  <2>3. Mode = "diskToMirror" => w.img \in onDisk
    BY DEF ItemsInv
  <2> QED
    BY <1>24, <2>1, <2>2, <2>3 DEF TypeOK, CopyOk, Stored
<1>25. CASE CopyFails
  <2>1. PICK w \in work :
            work' = work \ {w} /\ (Stored(w) \/ UNCHANGED <<onDisk, indexed, registry>>)
    BY <1>25 DEF CopyFails
  <2>2. Mode = "mirrorToDisk" => w.img \in Payloads \cup ImagesOfReleases \cup ImagesOfCatalogs
    BY ItemImages DEF ItemsInv
  <2>3. Mode = "diskToMirror" => w.img \in onDisk
    BY DEF ItemsInv
  <2> QED
    BY <1>25, <2>1, <2>2, <2>3 DEF TypeOK, CopyFails, Stored
<1>26. CASE WorkerReturns
  BY <1>26 DEF TypeOK, WorkerReturns
<1>27. CASE Start
  <2>1. clean' \in BOOLEAN
    BY <1>27, Zenon DEF Start
  <2>2. run' \in 0 .. MaxRuns
    BY <1>27, ConfigAssumption DEF TypeOK, Start
  <2>3. found' = {} /\ work' = {}
    BY <1>27 DEF Start
  <2> QED
    BY <1>27, <2>1, <2>2, <2>3 DEF TypeOK, Start
<1>28. CASE Kill
  BY <1>28 DEF TypeOK, Kill
<1>29. CASE UNCHANGED vars
  BY <1>29 DEF TypeOK, vars
<1> QED
  BY <1>1, <1>2, <1>3, <1>4, <1>5, <1>6, <1>7, <1>8, <1>9, <1>10, <1>11, <1>12, <1>13, <1>14, <1>15, <1>16, <1>17, <1>18, <1>19, <1>20, <1>21, <1>22, <1>23, <1>24, <1>25, <1>26, <1>27, <1>28, <1>29 DEF Next, Run, ReleaseImageCollector,
     OperatorImageCollector, AdditionalImagesCollector, Worker, Idle

\* The steps that plan images: three of the collectors to disk, and the three
\* walks to publish.
LEMMA PlanningSteps ==
    ASSUME [Next]_vars
    PROVE  \/ found' \cup work' \subseteq found \cup work /\ UNCHANGED dest
           \/ Start
           \/ ReleasePlan \/ OperatorsDone \/ AdditionalPlan
           \/ ReleaseWalk \/ OperatorWalk \/ AdditionalWalk
<1>1. CASE UNCHANGED <<found, work, dest>>
  BY <1>1
<1>2. CASE ReleaseDone \/ AdditionalMkdirFails \/ AdditionalDone
  BY <1>2 DEF ReleaseDone, AdditionalMkdirFails, AdditionalDone, Leave, kept
<1>3. CASE CopyOk \/ CopyFails
  <2>1. found' = found /\ dest' = dest /\ \E w \in work : work' = work \ {w}
    BY <1>3 DEF CopyOk, CopyFails, collector
  <2> QED
    BY <2>1
<1>4. CASE Kill
  BY <1>4 DEF Kill, Fresh, kept
<1> QED
  BY <1>1, <1>2, <1>3, <1>4 DEF Next, Run, ReleaseImageCollector, OperatorImageCollector,
     AdditionalImagesCollector, Worker, Idle, vars, collector, kept,
     ReleaseList, ReleaseStat, ReleaseFetch, ReleaseIndex, ReleaseExtract,
     ReleasePlanFails, ReleaseSchema, CatalogStat, CatalogFetch, CatalogIndex, CatalogExtract,
     CatalogSelect, AdditionalCached, AdditionalRejected, WorkerReturns,
     Extract, ExtractSkips, ExtractStarts, ExtractEnds

\* Of the related images that are planned, no two have the same directory.
LEMMA PlannedDistinct ==
    ASSUME NEW cat, NEW S, NEW imgs \in Seq(S), NEW j \in Planned(cat, imgs),
           NEW k \in Planned(cat, imgs), ComponentDir(cat, imgs[j]) = ComponentDir(cat, imgs[k])
    PROVE  j = k
<1>1. j \in Nat \ {0} /\ k \in Nat \ {0}
  BY DEF Planned
<1>2. Component[imgs[j]] = Component[imgs[k]]
  BY DEF ComponentDir
<1>3. ~(j \in 1 .. k - 1) /\ ~(k \in 1 .. j - 1)
  BY <1>2 DEF Planned
<1> QED
  BY <1>1, <1>3

\* Every step keeps the planned directories distinct: a collector plans only
\* what has no directory yet, and to publish the directories do not count.
LEMMA DistinctStep ==
    ASSUME ControlInv, TypeOK, ItemsInv, DistinctDestinations, [Next]_vars
    PROVE  DistinctDestinations'
<1>1. CASE found' \cup work' \subseteq found \cup work /\ UNCHANGED dest
  BY <1>1 DEF DistinctDestinations, Mode
<1>2. CASE ReleasePlan
  <2>1. Mode = "mirrorToDisk"
    BY <1>2 DEF ReleasePlan, InRelease, ControlInv, Mode
  <2>2. \A w \in found \cup work : w.dest \in dirs
    BY <2>1 DEF TypeOK
  <2>3. \A w \in (found' \cup work') \ (found \cup work) : \E i \in Uncached(r) :
            w = [img |-> <<r, i>>, dest |-> ImageDir(r, i)]
    BY <1>2 DEF ReleasePlan
  <2>4. \A w \in (found' \cup work') \ (found \cup work) : w.dest \notin dirs
    BY <2>3 DEF Uncached
  <2>5. \A v, w \in (found' \cup work') \ (found \cup work) : v.dest = w.dest => v = w
    BY <2>3 DEF ImageDir
  <2> QED
    BY <2>1, <2>2, <2>4, <2>5 DEF DistinctDestinations
<1>3. CASE OperatorsDone
  <2>1. CASE work' = work
    BY <1>3, <2>1 DEF OperatorsDone, DistinctDestinations, Leave
  <2>2. CASE work' # work
    <3> DEFINE cat == related[1]
               imgs == related[2]
    <3>1. /\ work' = work \cup {[img |-> <<cat, imgs[k]>>,
                               dest |-> ComponentDir(cat, imgs[k])] : k \in Planned(cat, imgs)}
          /\ found' = {} /\ Mode = "mirrorToDisk"
      BY <1>3, <2>2 DEF OperatorsDone, Leave
    <3>2. PICK S : imgs \in Seq(S)
      <4>1. CASE related = <<"none", <<>>>>
        <5>1. imgs \in Seq({})
          BY <4>1
        <5> QED
          BY <5>1
      <4>2. CASE related # <<"none", <<>>>>
        BY <4>2 DEF ControlInv
      <4> QED
        BY <4>1, <4>2
    <3>3. \A w \in work : w.dest \in dirs
      BY <3>1 DEF TypeOK
    <3>4. \A w \in work' \ work : \E k \in Planned(cat, imgs) :
              w = [img |-> <<cat, imgs[k]>>, dest |-> ComponentDir(cat, imgs[k])]
      BY <3>1
    <3>5. \A w \in work' \ work : w.dest \notin dirs
      BY <3>4 DEF Planned
    <3>6. \A v, w \in work' \ work : v.dest = w.dest => v = w
      BY <3>2, <3>4, PlannedDistinct
    <3> QED
      BY <3>1, <3>3, <3>5, <3>6 DEF DistinctDestinations
  <2> QED
    BY <2>1, <2>2
<1>4. CASE AdditionalPlan
  <2>1. Mode = "mirrorToDisk"
    BY <1>4 DEF AdditionalPlan, InAdditional, ControlInv, Mode
  <2> QED
    BY <1>4, <2>1 DEF AdditionalPlan, DistinctDestinations, TypeOK
<1>5. CASE ReleaseWalk \/ OperatorWalk \/ AdditionalWalk
  <2>1. Mode = "diskToMirror" /\ UNCHANGED dest
    BY <1>5 DEF ReleaseWalk, OperatorWalk, AdditionalWalk, ControlInv, kept
  <2> QED
    BY <2>1 DEF DistinctDestinations, Mode
<1>6. CASE Start
  BY <1>6 DEF Start, Fresh, DistinctDestinations
<1> QED
  BY <1>1, <1>2, <1>3, <1>4, <1>5, <1>6, PlanningSteps

-----------------------------------------------------------------------------
\* The directories of a set of images, one kind at a time.
LEMMA DirsOfCases ==
    ASSUME NEW D, NEW d
    PROVE  d \in DirsOf(D) <=>
               \/ \E x \in Elements(Releases) : <<x>> \in D /\ d = ReleaseDir(x)
               \/ \E x \in Elements(Releases) : \E i \in ReleaseImages[x] :
                      <<x, i>> \in D /\ d = ImageDir(x, i)
               \/ \E x \in Elements(Catalogs) : \E i \in Elements(RelatedImages[x]) :
                      <<x, i>> \in D /\ d = ComponentDir(x, i)
               \/ \E x \in Elements(AdditionalImages) : <<x>> \in D /\ d = AdditionalDir(x)
<1>1. \A p : p \in ImagesOfReleases <=>
          \E x \in Elements(Releases) : \E i \in ReleaseImages[x] : p = <<x, i>>
  BY DEF ImagesOfReleases
<1>2. \A p : p \in ImagesOfCatalogs <=>
          \E x \in Elements(Catalogs) : \E i \in Elements(RelatedImages[x]) : p = <<x, i>>
  BY DEF ImagesOfCatalogs
<1>3. ASSUME NEW p \in D \cap ImagesOfReleases, d = ImageDir(p[1], p[2])
      PROVE  \E x \in Elements(Releases) : \E i \in ReleaseImages[x] : <<x, i>> \in D /\ d = ImageDir(x, i)
  <2>1. PICK x \in Elements(Releases) : \E i \in ReleaseImages[x] : p = <<x, i>>
    BY <1>1
  <2> QED
    BY <1>3, <2>1
<1>4. ASSUME NEW p \in D \cap ImagesOfCatalogs, d = ComponentDir(p[1], p[2])
      PROVE  \E x \in Elements(Catalogs) : \E i \in Elements(RelatedImages[x]) :
                 <<x, i>> \in D /\ d = ComponentDir(x, i)
  <2>1. PICK x \in Elements(Catalogs) : \E i \in Elements(RelatedImages[x]) : p = <<x, i>>
    BY <1>2
  <2> QED
    BY <1>4, <2>1
<1>5. ASSUME NEW x \in Elements(Releases), NEW i \in ReleaseImages[x], <<x, i>> \in D, d = ImageDir(x, i)
      PROVE  \E p \in D \cap ImagesOfReleases : d = ImageDir(p[1], p[2])
  <2>1. <<x, i>> \in D \cap ImagesOfReleases /\ d = ImageDir(<<x, i>>[1], <<x, i>>[2])
    BY <1>1, <1>5
  <2> QED
    BY <2>1
<1>6. ASSUME NEW x \in Elements(Catalogs), NEW i \in Elements(RelatedImages[x]), <<x, i>> \in D,
             d = ComponentDir(x, i)
      PROVE  \E p \in D \cap ImagesOfCatalogs : d = ComponentDir(p[1], p[2])
  <2>1. <<x, i>> \in D \cap ImagesOfCatalogs /\ d = ComponentDir(<<x, i>>[1], <<x, i>>[2])
    BY <1>2, <1>6
  <2> QED
    BY <2>1
<1> QED
  BY <1>3, <1>4, <1>5, <1>6, Zenon DEF DirsOf

\* The directories of a single image, by its kind.
LEMMA DirsOfOne ==
    ASSUME NEW p, NEW d
    PROVE  d \in DirsOf({p}) <=>
               \/ \E x \in Elements(Releases) : p = <<x>> /\ d = ReleaseDir(x)
               \/ \E x \in Elements(Releases) : \E i \in ReleaseImages[x] :
                      p = <<x, i>> /\ d = ImageDir(x, i)
               \/ \E x \in Elements(Catalogs) : \E i \in Elements(RelatedImages[x]) :
                      p = <<x, i>> /\ d = ComponentDir(x, i)
               \/ \E x \in Elements(AdditionalImages) : p = <<x>> /\ d = AdditionalDir(x)
<1>1. \A q : q \in {p} <=> p = q
  OBVIOUS
<1>2. d \in DirsOf({p}) <=>
          \/ \E x \in Elements(Releases) : <<x>> \in {p} /\ d = ReleaseDir(x)
          \/ \E x \in Elements(Releases) : \E i \in ReleaseImages[x] : <<x, i>> \in {p} /\ d = ImageDir(x, i)
          \/ \E x \in Elements(Catalogs) : \E i \in Elements(RelatedImages[x]) :
                 <<x, i>> \in {p} /\ d = ComponentDir(x, i)
          \/ \E x \in Elements(AdditionalImages) : <<x>> \in {p} /\ d = AdditionalDir(x)
  BY DirsOfCases, Zenon
<1> QED
  BY <1>1, <1>2, Zenon

\* DirsOf distributes over a union, which is what a copy does to onDisk.
LEMMA DirsOfUnion ==
    ASSUME NEW D, NEW E
    PROVE  DirsOf(D \cup E) = DirsOf(D) \cup DirsOf(E)
BY DEF DirsOf

\* More images fill more directories.
LEMMA DirsOfMonotonic ==
    ASSUME NEW D, NEW E, D \subseteq E
    PROVE  DirsOf(D) \subseteq DirsOf(E)
BY DEF DirsOf

\* A release payload fills its own directory, a catalog image none of these.
LEMMA DirsOfPayload ==
    ASSUME NEW D, NEW x
    PROVE  /\ x \in Elements(Releases) => DirsOf(D \cup {<<x>>}) = DirsOf(D) \cup {ReleaseDir(x)}
           /\ x \in Elements(Catalogs) => DirsOf(D \cup {<<x>>}) = DirsOf(D)
<1>1. \A y, z : <<x>> # <<y, z>>
  OBVIOUS
<1>2. \A y : <<x>> = <<y>> <=> x = y
  OBVIOUS
<1>3. ASSUME NEW d \in DirsOf({<<x>>})
      PROVE  (x \in Elements(Releases) /\ d = ReleaseDir(x)) \/ x \in Elements(AdditionalImages)
  BY <1>1, <1>2, DirsOfOne, Zenon
<1>4. x \in Elements(Releases) => ReleaseDir(x) \in DirsOf({<<x>>})
  BY DirsOfOne, Zenon
<1>5. x \in Elements(AdditionalImages) => x \notin Elements(Releases) /\ x \notin Elements(Catalogs)
  BY NamesAssumption
<1>6. x \in Elements(Catalogs) => x \notin Elements(Releases)
  BY NamesAssumption
<1>7. x \in Elements(Releases) => DirsOf({<<x>>}) = {ReleaseDir(x)}
  BY <1>3, <1>4, <1>5, Zenon
<1>8. x \in Elements(Catalogs) => DirsOf({<<x>>}) = {}
  BY <1>3, <1>5, <1>6, Zenon
<1> QED
  BY <1>7, <1>8, DirsOfUnion

\* An image that was planned fills the directory it was planned for.
LEMMA DirsOfItem ==
    ASSUME NEW D, NEW w, ReleaseItem(w) \/ CatalogItem(w) \/ AdditionalItem(w)
    PROVE  DirsOf(D \cup {w.img}) = DirsOf(D) \cup {w.dest}
<1>1. SUFFICES ASSUME NEW d PROVE d \in DirsOf({w.img}) <=> d = w.dest
  BY DirsOfUnion
<1>2. CASE ReleaseItem(w)
  <2>1. PICK x \in Elements(Releases) : \E i \in ReleaseImages[x] :
            w = [img |-> <<x, i>>, dest |-> ImageDir(x, i)]
    BY <1>2 DEF ReleaseItem
  <2>2. PICK i \in ReleaseImages[x] : w = [img |-> <<x, i>>, dest |-> ImageDir(x, i)]
    BY <2>1
  <2>3. \A y : <<y>> # <<x, i>>
    OBVIOUS
  <2>4. d \in DirsOf({<<x, i>>}) <=> d = ImageDir(x, i)
    BY <2>3, DirsOfOne, NamesAssumption
  <2> QED
    BY <2>2, <2>4
<1>3. CASE CatalogItem(w)
  <2>1. PICK x \in Elements(Catalogs) : \E i \in Elements(RelatedImages[x]) :
            w = [img |-> <<x, i>>, dest |-> ComponentDir(x, i)]
    BY <1>3 DEF CatalogItem
  <2>2. PICK i \in Elements(RelatedImages[x]) : w = [img |-> <<x, i>>, dest |-> ComponentDir(x, i)]
    BY <2>1
  <2>3. \A y : <<y>> # <<x, i>>
    OBVIOUS
  <2>4. d \in DirsOf({<<x, i>>}) <=> d = ComponentDir(x, i)
    BY <2>3, DirsOfOne, NamesAssumption
  <2> QED
    BY <2>2, <2>4
<1>4. CASE AdditionalItem(w)
  <2>1. PICK x \in Elements(AdditionalImages) : w = [img |-> <<x>>, dest |-> AdditionalDir(x)]
    BY <1>4 DEF AdditionalItem
  <2>2. \A y, z : <<x>> # <<y, z>>
    OBVIOUS
  <2>3. d \in DirsOf({<<x>>}) <=> d = AdditionalDir(x)
    BY <2>2, DirsOfOne, NamesAssumption
  <2> QED
    BY <2>1, <2>3
<1> QED
  BY <1>2, <1>3, <1>4

\* What is on disk stays there.
LEMMA DiskGrows ==
    ASSUME [Next]_vars
    PROVE  dirs \subseteq dirs' /\ onDisk \subseteq onDisk' /\ indexed \subseteq indexed'
<1>1. CASE UNCHANGED <<dirs, onDisk, indexed>>
  BY <1>1
<1>2. CASE ReleaseStat \/ ReleaseFetch \/ ReleasePlan \/ ReleasePlanFails \/ CatalogFetch
  BY <1>2 DEF ReleaseStat, ReleaseFetch, ReleasePlan, ReleasePlanFails, CatalogFetch, kept
<1>3. CASE OperatorsDone \/ AdditionalPlan
  BY <1>3 DEF OperatorsDone, AdditionalPlan, kept
<1>4. CASE CopyOk \/ CopyFails
  BY <1>4 DEF CopyOk, CopyFails, Stored
<1> QED
  BY <1>1, <1>2, <1>3, <1>4 DEF Next, Run, ReleaseImageCollector, OperatorImageCollector,
     AdditionalImagesCollector, Worker, Idle, vars, disk, kept, Start, Kill,
     ReleaseList, ReleaseIndex, ReleaseExtract, ReleaseSchema, ReleaseWalk, ReleaseDone,
     OperatorWalk, CatalogStat, CatalogIndex, CatalogExtract, CatalogSelect,
     AdditionalWalk, AdditionalMkdirFails, AdditionalDone, AdditionalCached, AdditionalRejected,
     WorkerReturns, Extract, ExtractSkips, ExtractStarts, ExtractEnds

\* The steps that complete an image on disk.
LEMMA StoringSteps ==
    ASSUME [Next]_vars
    PROVE  \/ UNCHANGED <<onDisk, indexed>>
           \/ ReleaseFetch \/ CatalogFetch \/ CopyOk \/ CopyFails
BY DEF Next, Run, ReleaseImageCollector, OperatorImageCollector,
   AdditionalImagesCollector, Worker, Idle, vars, disk, kept, Start, Kill,
   ReleaseList, ReleaseStat, ReleaseIndex, ReleaseExtract, ReleasePlan, ReleasePlanFails, ReleaseSchema,
   ReleaseWalk, ReleaseDone, OperatorWalk, CatalogStat, CatalogIndex, CatalogExtract, CatalogSelect,
   OperatorsDone, AdditionalPlan, AdditionalWalk, AdditionalMkdirFails, AdditionalDone,
   AdditionalCached, AdditionalRejected, WorkerReturns, Extract, ExtractSkips, ExtractStarts, ExtractEnds

\* What a copy of the batch worker does to the disk, complete or not.
LEMMA CopyEffect ==
    ASSUME CopyOk \/ CopyFails
    PROVE  phase = "copy" /\ \E w \in work :
               /\ work' = work \ {w} /\ UNCHANGED <<dirs, hold, phase, found, dest, config, exit, listed>>
               /\ \/ UNCHANGED <<onDisk, indexed>>
                  \/ /\ Mode = "mirrorToDisk" /\ onDisk' = onDisk \cup {w.img}
                     /\ indexed' \in {indexed, indexed \cup {w.img}}
                     /\ ~IsAdditional(w) => indexed' = indexed
<1>1. PICK w \in work :
          work' = work \ {w} /\ (Stored(w) \/ UNCHANGED <<onDisk, indexed>>)
  BY DEF CopyOk, CopyFails
<1>2. Stored(w) => \/ UNCHANGED <<onDisk, indexed>>
                   \/ /\ Mode = "mirrorToDisk" /\ onDisk' = onDisk \cup {w.img}
                      /\ indexed' \in {indexed, indexed \cup {w.img}}
                      /\ ~IsAdditional(w) => indexed' = indexed
  BY DEF Stored
<1>3. UNCHANGED <<dirs, hold, phase, found, dest, config, exit, listed>>
  BY DEF CopyOk, CopyFails, collector, history
<1>4. phase = "copy"
  BY DEF CopyOk, CopyFails
<1> QED
  BY <1>1, <1>2, <1>3, <1>4

\* Every step keeps complete images in directories that exist: nothing removes one.
LEMMA DiskStep ==
    ASSUME ControlInv, TypeOK, ItemsInv, DiskInv, [Next]_vars
    PROVE  DiskInv'
<1>1. dirs \subseteq dirs'
  BY DiskGrows
<1>2. (Filled \subseteq dirs)'
  <2>1. CASE onDisk' = onDisk
    BY <1>1, <2>1 DEF DiskInv, Filled
  <2>2. CASE ReleaseFetch /\ onDisk' # onDisk
    <3>1. onDisk' = onDisk \cup {<<r>>} /\ r \in Elements(Releases) /\ ReleaseDir(r) \in dirs
      BY <2>2 DEF ReleaseFetch, InRelease, ControlInv, DiskInv, r
    <3>2. DirsOf(onDisk') = DirsOf(onDisk) \cup {ReleaseDir(r)}
      BY <3>1, DirsOfPayload
    <3> QED
      BY <1>1, <3>1, <3>2 DEF DiskInv, Filled
  <2>3. CASE CatalogFetch /\ onDisk' # onDisk
    <3>1. onDisk' = onDisk \cup {<<c>>} /\ c \in Elements(Catalogs)
      BY <2>3 DEF CatalogFetch, InCatalog, ControlInv, c
    <3>2. DirsOf(onDisk') = DirsOf(onDisk)
      BY <3>1, DirsOfPayload
    <3> QED
      BY <1>1, <3>2 DEF DiskInv, Filled
  <2>4. CASE (CopyOk \/ CopyFails) /\ onDisk' # onDisk
    <3>1. PICK w \in work : Mode = "mirrorToDisk" /\ onDisk' = onDisk \cup {w.img}
      BY <2>4, CopyEffect
    <3>2. (ReleaseItem(w) \/ CatalogItem(w) \/ AdditionalItem(w)) /\ w.dest \in dirs
      BY <3>1 DEF ItemsInv, TypeOK
    <3>3. DirsOf(onDisk') = DirsOf(onDisk) \cup {w.dest}
      BY <3>1, <3>2, DirsOfItem
    <3> QED
      BY <1>1, <3>2, <3>3 DEF DiskInv, Filled
  <2> QED
    BY <2>1, <2>2, <2>3, <2>4, StoringSteps
<1>3. (phase = "release" /\ todo # <<>> /\ at = "fetch" => ReleaseDir(Head(todo)) \in dirs)'
  <2>1. CASE ReleaseStat
    BY <2>1 DEF ReleaseStat, InRelease, r
  <2>2. CASE UNCHANGED <<phase, todo, at>>
    BY <1>1, <2>2 DEF DiskInv
  <2>3. CASE phase' # "release" \/ at' # "fetch"
    BY <2>3
  <2> QED
    BY <2>1, <2>2, <2>3 DEF Next, Run, ReleaseImageCollector, OperatorImageCollector,
       AdditionalImagesCollector, Worker, Idle, vars, collector, Start, Kill, Fresh, Leave, Stop,
       ReleaseList, ReleaseFetch, ReleaseIndex, ReleaseExtract, ReleasePlan, ReleasePlanFails,
       ReleaseSchema, ReleaseWalk, ReleaseDone, InCatalog,
       OperatorWalk, CatalogStat, CatalogFetch, CatalogIndex, CatalogExtract, CatalogSelect,
       OperatorsDone, AdditionalPlan, AdditionalWalk, AdditionalMkdirFails, AdditionalDone, InAdditional,
       AdditionalCached, AdditionalRejected, CopyOk, CopyFails, WorkerReturns,
       Extract, ExtractSkips, ExtractStarts, ExtractEnds
<1> QED
  BY <1>2, <1>3 DEF DiskInv

\* An additional image on disk has its directory.
LEMMA IndexedDirs ==
    ASSUME TypeOK, ItemsInv, DiskInv, NEW p \in indexed
    PROVE  AdditionalDir(p[1]) \in dirs
<1>1. PICK x \in Elements(AdditionalImages) : p = <<x>>
  BY DEF ItemsInv
<1>2. <<x>> \in onDisk
  BY <1>1 DEF TypeOK
<1>3. AdditionalDir(x) \in DirsOf(onDisk)
  BY <1>2, DirsOfCases
<1> QED
  BY <1>1, <1>3 DEF DiskInv, Filled

\* Every step keeps what is planned of the form its collector gives it.
LEMMA ItemsStep ==
    ASSUME ConfigInv, ControlInv, TypeOK, ItemsInv, DistinctDestinations, DiskInv, [Next]_vars
    PROVE  ItemsInv'
<1> USE DEF Mode, Stop, Leave, disk, kept, history, collector, InRelease, InCatalog, InAdditional, Fresh
<1>1. CASE ReleaseSchema
  BY <1>1 DEF ItemsInv, ControlInv, PublishedRelease, ReleaseSchema
<1>2. CASE ReleaseWalk
  <2>1. Mode = "diskToMirror" /\ found' = {} /\ phase' = "operator" /\ UNCHANGED <<onDisk, indexed, dest, config>>
    BY <1>2 DEF ControlInv, ReleaseWalk
  <2>2. \A w \in work' : \E i \in OnDiskOf(config.release) :
            w = [img |-> <<config.release, i>>, dest |-> RegistryRef(findRelatedImage(config.release, i))]
    BY <1>2 DEF ReleaseWalk
  <2>3. ASSUME NEW w \in work' PROVE w.img \in onDisk /\ PublishedRelease(w)
    <3>1. PICK i \in OnDiskOf(config.release) :
              w = [img |-> <<config.release, i>>, dest |-> RegistryRef(findRelatedImage(config.release, i))]
      BY <2>2
    <3>2. i \in ReleaseImages[config.release] /\ <<config.release, i>> \in onDisk
      BY DEF OnDiskOf
    <3> QED
      BY <3>1, <3>2 DEF PublishedRelease
  <2> QED
    BY <2>1, <2>3 DEF ItemsInv, PublishedRelease
<1>3. CASE ReleaseList
  BY <1>3 DEF ItemsInv, ControlInv, PublishedRelease, ReleaseList
<1>4. CASE ReleaseStat
  BY <1>4 DEF ItemsInv, ControlInv, PublishedRelease, ReleaseStat
<1>5. CASE ReleaseFetch
  BY <1>5 DEF ItemsInv, ControlInv, PublishedRelease, ReleaseFetch
<1>6. CASE ReleaseIndex
  BY <1>6 DEF ItemsInv, ControlInv, PublishedRelease, ReleaseIndex
<1>7. CASE ReleaseExtract
  BY <1>7 DEF ItemsInv, ControlInv, PublishedRelease, ReleaseExtract, Extract, ExtractSkips, ExtractStarts, ExtractEnds
<1>8. CASE ReleasePlan
  <2>1. /\ Mode = "mirrorToDisk" /\ phase = "release" /\ r \in Elements(Releases)
        /\ UNCHANGED <<work, phase, indexed, dest>>
    BY <1>8 DEF ControlInv, ReleasePlan, r
  <2>2. \A w \in found' \ found : ReleaseItem(w) /\ w.dest \notin dirs
    BY <1>8, <2>1 DEF ReleasePlan, ReleaseItem, Uncached
  <2> QED
    BY <2>1, <2>2, IndexedDirs DEF ItemsInv
<1>9. CASE ReleasePlanFails
  BY <1>9 DEF ItemsInv, ControlInv, PublishedRelease, ReleasePlanFails
<1>10. CASE ReleaseDone
  BY <1>10 DEF ItemsInv, ControlInv, PublishedRelease, ReleaseDone
<1>11. CASE OperatorWalk
  <2>1. /\ Mode = "diskToMirror" /\ phase = "operator" /\ found' = {} /\ phase' = "additional"
        /\ UNCHANGED <<onDisk, indexed, dest, config>>
    BY <1>11 DEF OperatorWalk
  <2>2. PICK S \in SUBSET {x \in Elements(ConfiguredCatalogs) : <<x>> \in onDisk} :
            work' = work \cup {[img |-> <<x>>, dest |-> RegistryRef(x)] : x \in S}
    BY <1>11 DEF OperatorWalk
  <2>3. Elements(ConfiguredCatalogs) \subseteq Elements(Catalogs)
    BY ConfigFacts DEF Elements
  <2>4. ASSUME NEW w \in work' \ work PROVE w.img \in onDisk /\ PublishedCatalog(w)
    <3>1. PICK x \in S : w = [img |-> <<x>>, dest |-> RegistryRef(x)]
      BY <2>2
    <3>2. x \in Elements(Catalogs) /\ <<x>> \in onDisk
      BY <2>3
    <3> QED
      BY <3>1, <3>2 DEF PublishedCatalog
  <2>5. \A w \in work : w.img \in onDisk /\ PublishedRelease(w)
    BY <2>1 DEF ItemsInv
  <2> QED
    BY <2>1, <2>4, <2>5 DEF ItemsInv, PublishedRelease
<1>12. CASE CatalogStat
  BY <1>12 DEF ItemsInv, ControlInv, PublishedRelease, CatalogStat
<1>13. CASE CatalogFetch
  BY <1>13 DEF ItemsInv, ControlInv, PublishedRelease, CatalogFetch
<1>14. CASE CatalogIndex
  BY <1>14 DEF ItemsInv, ControlInv, PublishedRelease, CatalogIndex
<1>15. CASE CatalogExtract
  BY <1>15 DEF ItemsInv, ControlInv, PublishedRelease, CatalogExtract, Extract, ExtractSkips, ExtractStarts, ExtractEnds
<1>16. CASE CatalogSelect
  BY <1>16 DEF ItemsInv, ControlInv, PublishedRelease, CatalogSelect
<1>17. CASE OperatorsDone
  <2> DEFINE cat == related[1]
             imgs == related[2]
  <2>1. Mode = "mirrorToDisk" /\ phase = "operator" /\ phase' # "release" /\ found' = {} /\ UNCHANGED <<indexed, dest>>
    BY <1>17 DEF OperatorsDone, ControlInv
  <2>2. \A w \in work' \ work : \E k \in Planned(cat, imgs) :
            w = [img |-> <<cat, imgs[k]>>, dest |-> ComponentDir(cat, imgs[k])]
    BY <1>17 DEF OperatorsDone
  <2>3. \A k \in Planned(cat, imgs) : cat \in Elements(Catalogs) /\ imgs[k] \in Elements(RelatedImages[cat])
    BY DEF Planned, ControlInv
  <2>4. \A w \in work' \ work : CatalogItem(w) /\ w.dest \notin dirs
    BY <2>2, <2>3 DEF CatalogItem, Planned
  <2> QED
    BY <2>1, <2>4, IndexedDirs DEF ItemsInv
<1>18. CASE AdditionalWalk
  <2>1. /\ Mode = "diskToMirror" /\ phase = "additional" /\ found' = {} /\ phase' = "copy"
        /\ UNCHANGED <<onDisk, indexed, dest, config>>
    BY <1>18 DEF AdditionalWalk
  <2>2. \A w \in work' \ work : \E p \in indexed : w = [img |-> p, dest |-> RegistryRef(CacheDir[p[1]])]
    BY <1>18 DEF AdditionalWalk
  <2>3. ASSUME NEW w \in work' \ work PROVE w.img \in onDisk /\ PublishedAdditional(w)
    <3>1. PICK p \in indexed : w = [img |-> p, dest |-> RegistryRef(CacheDir[p[1]])]
      BY <2>2
    <3>2. PICK x \in Elements(AdditionalImages) : p = <<x>>
      BY DEF ItemsInv
    <3>3. p \in onDisk /\ p[1] = x
      BY <3>2 DEF TypeOK
    <3> QED
      BY <3>1, <3>2, <3>3 DEF PublishedAdditional
  <2>4. \A w \in work : w.img \in onDisk /\ (PublishedRelease(w) \/ PublishedCatalog(w))
    BY <2>1 DEF ItemsInv
  <2> QED
    BY <2>1, <2>3, <2>4 DEF ItemsInv, PublishedRelease
<1>19. CASE AdditionalCached
  BY <1>19 DEF ItemsInv, ControlInv, PublishedRelease, AdditionalCached
<1>20. CASE AdditionalPlan
  <2>1. /\ Mode = "mirrorToDisk" /\ phase = "additional" /\ a \in Elements(AdditionalImages)
        /\ UNCHANGED <<work, phase, indexed, dest>>
    BY <1>20 DEF ControlInv, AdditionalPlan, a
  <2>2. \A w \in found' \ found : AdditionalItem(w) /\ w.dest \notin dirs
    BY <1>20, <2>1 DEF AdditionalPlan, AdditionalItem
  <2> QED
    BY <2>1, <2>2, IndexedDirs DEF ItemsInv
<1>21. CASE AdditionalRejected
  BY <1>21 DEF ItemsInv, ControlInv, PublishedRelease, AdditionalRejected
<1>22. CASE AdditionalMkdirFails
  BY <1>22 DEF ItemsInv, ControlInv, PublishedRelease, AdditionalMkdirFails
<1>23. CASE AdditionalDone
  BY <1>23 DEF ItemsInv, ControlInv, PublishedRelease, AdditionalDone
<1>24. CASE CopyOk \/ CopyFails
  <2>1. PICK w \in work :
            /\ work' = work \ {w} /\ UNCHANGED <<dirs, hold, phase, found, dest, config, exit, listed>>
            /\ \/ UNCHANGED <<onDisk, indexed>>
               \/ /\ Mode = "mirrorToDisk" /\ onDisk' = onDisk \cup {w.img}
                  /\ indexed' \in {indexed, indexed \cup {w.img}}
                  /\ ~IsAdditional(w) => indexed' = indexed
    BY <1>24, CopyEffect
  <2>2. found = {}
    BY <1>24, CopyEffect DEF ControlInv
  <2>3. CASE UNCHANGED indexed
    BY <2>1, <2>3 DEF ItemsInv, PublishedRelease
  <2>4. CASE indexed' # indexed
    <3>1. Mode = "mirrorToDisk" /\ indexed' = indexed \cup {w.img} /\ AdditionalItem(w)
      BY <2>1, <2>4, ItemImages DEF ItemsInv
    <3>2. PICK x \in Elements(AdditionalImages) : w = [img |-> <<x>>, dest |-> AdditionalDir(x)]
      BY <3>1 DEF AdditionalItem
    <3>3. \A p \in indexed : CacheDir[p[1]] # CacheDir[x]
      BY <3>1, <3>2 DEF ItemsInv, AdditionalDir
    <3>4. \A v \in found' \cup work' : v.dest # AdditionalDir(x)
      BY <2>1, <2>2, <3>1, <3>2 DEF DistinctDestinations
    <3>5. \A p \in indexed' : p \in indexed \/ p = <<x>>
      BY <3>1, <3>2
    <3>6. \A p \in indexed' : /\ \E y \in Elements(AdditionalImages) : p = <<y>>
                             /\ \A q \in indexed' : CacheDir[p[1]] = CacheDir[q[1]] => p = q
      BY <3>2, <3>3, <3>5 DEF ItemsInv
    <3>7. \A v \in found' \cup work' : \A p \in indexed' : v.dest # AdditionalDir(p[1])
      BY <2>1, <3>1, <3>4, <3>5 DEF ItemsInv
    <3> QED
      BY <2>1, <3>1, <3>6, <3>7 DEF ItemsInv
  <2> QED
    BY <2>3, <2>4
<1>26. CASE WorkerReturns
  BY <1>26 DEF ItemsInv, ControlInv, PublishedRelease, WorkerReturns
<1>27. CASE Start
  BY <1>27 DEF ItemsInv, ControlInv, PublishedRelease, Start
<1>28. CASE Kill
  BY <1>28 DEF ItemsInv, ControlInv, PublishedRelease, Kill
<1>29. CASE UNCHANGED vars
  BY <1>29 DEF ItemsInv, PublishedRelease, vars
<1> QED
  BY <1>1, <1>2, <1>3, <1>4, <1>5, <1>6, <1>7, <1>8, <1>9, <1>10, <1>11, <1>12, <1>13, <1>14, <1>15, <1>16, <1>17, <1>18, <1>19, <1>20, <1>21, <1>22, <1>23, <1>24, <1>26, <1>27, <1>28, <1>29 DEF Next, Run, ReleaseImageCollector,
     OperatorImageCollector, AdditionalImagesCollector, Worker, Idle

-----------------------------------------------------------------------------
\* Every step keeps the promise that what a collector has passed was read.
LEMMA ProgressStep ==
    ASSUME ConfigInv, ControlInv, ProgressInv, [Next]_vars
    PROVE  ProgressInv'
<1> USE DEF Mode, Stop, Leave, Good, disk, kept, history, collector, InRelease, InCatalog, InAdditional, Fresh
<1>30. /\ \A x : Processed(x) => Processed(x)'
       /\ \A x : <<x>> \in onDisk => <<x>> \in onDisk'
  BY DiskGrows DEF Processed
<1>31. config' = config => ConfiguredCatalogs' = ConfiguredCatalogs
  BY DEF ConfiguredCatalogs
<1>32. Elements(<<>>) = {}
  BY DEF Elements
<1>1. CASE ReleaseSchema
  BY <1>1, <1>30, <1>31 DEF ProgressInv, ControlInv, ReleaseSchema
<1>2. CASE ReleaseWalk
  BY <1>2, <1>30, <1>31 DEF ProgressInv, ControlInv, ReleaseWalk
<1>3. CASE ReleaseList
  <2>1. <<>> \in Seq(Elements(Releases)) /\ Releases \in Seq(Elements(Releases))
    BY ConfigAssumption
  <2>2. PICK path \in Sublists(IF config.architectures = <<>> THEN <<>> ELSE Releases) :
            /\ \/ todo' = path
               \/ path # <<>> /\ todo' = path \o <<Head(path), path[Len(path)]>>
            /\ listed' = Elements(path)
    BY <1>3 DEF ReleaseList
  <2>3. path \in Seq(Elements(Releases))
    BY <2>1, SublistSeq
  <2>4. listed' \subseteq Elements(todo')
    BY <2>2, <2>3, EndsAgain
  <2> QED
    BY <1>3, <2>4 DEF ProgressInv, ControlInv, ReleaseList
<1>4. CASE ReleaseStat
  BY <1>4, <1>30, <1>31 DEF ProgressInv, ControlInv, ReleaseStat
<1>5. CASE ReleaseFetch
  BY <1>5, <1>30, <1>31 DEF ProgressInv, ControlInv, ReleaseFetch
<1>6. CASE ReleaseIndex
  BY <1>6, <1>30, <1>31 DEF ProgressInv, ControlInv, ReleaseIndex, r
<1>7. CASE ReleaseExtract
  BY <1>7, <1>30, <1>31 DEF ProgressInv, ControlInv, ReleaseExtract, Extract, ExtractSkips, ExtractStarts, ExtractEnds, r
<1>8. CASE ReleasePlan
  <2>1. PICK x : x = Head(todo)
    OBVIOUS
  <2>2. todo' = Tail(todo) /\ Elements(todo) = {x} \cup Elements(Tail(todo))
    BY <1>8, <2>1, TailElements DEF ReleasePlan, ControlInv
  <2>3. Processed(x)'
    BY <1>8, <2>1 DEF ReleasePlan, ProgressInv, Processed, Uncached, r
  <2> QED
    BY <1>8, <1>30, <2>2, <2>3 DEF ProgressInv, ControlInv, ReleasePlan
<1>9. CASE ReleasePlanFails
  BY <1>9, <1>30, <1>31 DEF ProgressInv, ControlInv, ReleasePlanFails
<1>10. CASE ReleaseDone
  BY <1>10, <1>30, <1>31, <1>32 DEF ProgressInv, ControlInv, ReleaseDone
<1>11. CASE OperatorWalk
  BY <1>11, <1>30, <1>31 DEF ProgressInv, ControlInv, OperatorWalk
<1>12. CASE CatalogStat
  BY <1>12, <1>30, <1>31 DEF ProgressInv, ControlInv, CatalogStat
<1>13. CASE CatalogFetch
  BY <1>13, <1>30, <1>31 DEF ProgressInv, ControlInv, CatalogFetch
<1>14. CASE CatalogIndex
  BY <1>14, <1>30, <1>31 DEF ProgressInv, ControlInv, CatalogIndex, c
<1>15. CASE CatalogExtract
  BY <1>15, <1>30, <1>31 DEF ProgressInv, ControlInv, CatalogExtract, Extract, ExtractSkips, ExtractStarts, ExtractEnds, c
<1>16. CASE CatalogSelect
  <2>1. Elements(todo) = {c} \cup Elements(Tail(todo)) /\ <<c>> \in onDisk
    BY <1>16, TailElements DEF CatalogSelect, ControlInv, ProgressInv, c
  <2> QED
    BY <1>16, <1>30, <1>31, <2>1 DEF ProgressInv, ControlInv, CatalogSelect
<1>17. CASE OperatorsDone
  BY <1>17, <1>30, <1>31, <1>32 DEF ProgressInv, ControlInv, OperatorsDone
<1>18. CASE AdditionalWalk
  BY <1>18, <1>30, <1>31 DEF ProgressInv, ControlInv, AdditionalWalk
<1>19. CASE AdditionalCached
  BY <1>19, <1>30, <1>31 DEF ProgressInv, ControlInv, AdditionalCached
<1>20. CASE AdditionalPlan
  BY <1>20, <1>30, <1>31 DEF ProgressInv, ControlInv, AdditionalPlan
<1>21. CASE AdditionalRejected
  BY <1>21, <1>30, <1>31 DEF ProgressInv, ControlInv, AdditionalRejected
<1>22. CASE AdditionalMkdirFails
  BY <1>22, <1>30, <1>31 DEF ProgressInv, ControlInv, AdditionalMkdirFails
<1>23. CASE AdditionalDone
  BY <1>23, <1>30, <1>31 DEF ProgressInv, ControlInv, AdditionalDone
<1>24. CASE CopyOk
  BY <1>24, <1>30, <1>31 DEF ProgressInv, ControlInv, CopyOk
<1>25. CASE CopyFails
  BY <1>25, <1>30, <1>31 DEF ProgressInv, ControlInv, CopyFails
<1>26. CASE WorkerReturns
  BY <1>26, <1>30, <1>31 DEF ProgressInv, ControlInv, WorkerReturns
<1>27. CASE Start
  BY <1>27, <1>30, <1>31 DEF ProgressInv, ControlInv, Start
<1>28. CASE Kill
  BY <1>28, <1>30, <1>31 DEF ProgressInv, ControlInv, Kill
<1>29. CASE UNCHANGED vars
  BY <1>29, <1>30, <1>31 DEF ProgressInv, vars
<1> QED
  BY <1>1, <1>2, <1>3, <1>4, <1>5, <1>6, <1>7, <1>8, <1>9, <1>10, <1>11, <1>12, <1>13, <1>14, <1>15, <1>16, <1>17, <1>18, <1>19, <1>20, <1>21, <1>22, <1>23, <1>24, <1>25, <1>26, <1>27, <1>28, <1>29 DEF Next, Run, ReleaseImageCollector,
     OperatorImageCollector, AdditionalImagesCollector, Worker, Idle

\* After successful runs, every step keeps the account of the empty directories.
LEMMA CacheStep ==
    ASSUME ControlInv, TypeOK, ItemsInv, CacheInv, [Next]_vars
    PROVE  CacheInv'
<1> USE DEF Mode, Stop, Leave, Good, disk, kept, history, collector, InRelease, InCatalog, InAdditional, Fresh
<1>30. \A d : d \in Filled => d \in Filled'
  BY DiskGrows, DirsOfMonotonic DEF Filled
<1>1. CASE ReleaseSchema
  BY <1>1, <1>30 DEF CacheInv, ControlInv, ReleaseSchema
<1>2. CASE ReleaseWalk
  BY <1>2, <1>30 DEF CacheInv, ControlInv, ReleaseWalk
<1>3. CASE ReleaseList
  BY <1>3, <1>30 DEF CacheInv, ControlInv, ReleaseList
<1>4. CASE ReleaseStat
  <2>1. UNCHANGED <<todo, found, work, failed, dest, clean, lost>> /\ phase = "release" /\ todo # <<>> /\ at = "stat"
    BY <1>4 DEF ReleaseStat
  <2>2. \/ exit' = "error" \/ UNCHANGED <<dirs, phase, exit>>
        \/ dirs' = dirs \cup {ReleaseDir(Head(todo))} /\ at' = "fetch" /\ UNCHANGED <<phase, exit>>
    BY <1>4 DEF ReleaseStat, r
  <2> QED
    BY <1>30, <2>1, <2>2 DEF CacheInv
<1>5. CASE ReleaseFetch
  <2>1. /\ UNCHANGED <<dirs, todo, found, work, failed, dest, clean, lost>>
        /\ phase = "release" /\ todo # <<>> /\ at = "fetch" /\ Head(todo) \in Elements(Releases)
    BY <1>5 DEF ReleaseFetch, ControlInv
  <2>2. CASE exit' = "error"
    BY <2>2 DEF CacheInv
  <2>3. CASE exit' # "error"
    <3>1. onDisk' = onDisk \cup {<<Head(todo)>>} /\ at' = "index" /\ UNCHANGED <<phase, exit>>
      BY <1>5, <2>3 DEF ReleaseFetch, r
    <3>2. ReleaseDir(Head(todo)) \in Filled'
      BY <2>1, <3>1, DirsOfPayload DEF Filled
    <3> QED
      BY <1>30, <2>1, <3>1, <3>2 DEF CacheInv
  <2> QED
    BY <2>2, <2>3
<1>6. CASE ReleaseIndex
  BY <1>6, <1>30 DEF CacheInv, ControlInv, ReleaseIndex
<1>7. CASE ReleaseExtract
  <2>1. /\ UNCHANGED <<dirs, todo, found, work, failed, dest, clean, lost>> /\ at # "fetch"
        /\ exit' = "error" \/ UNCHANGED <<phase, exit>>
    BY <1>7 DEF ReleaseExtract, Extract, ExtractSkips, ExtractStarts, ExtractEnds
  <2> QED
    BY <1>30, <2>1 DEF CacheInv
<1>8. CASE ReleasePlan
  <2>1. /\ UNCHANGED <<phase, work, failed, exit, dest, clean, lost>> /\ found \subseteq found' /\ at = "schema"
        /\ Mode = "mirrorToDisk"
    BY <1>8 DEF ReleasePlan, ControlInv
  <2>2. \A d \in dirs' \ dirs : \E w \in found' : w.dest = d
    <3>1. ASSUME NEW d \in dirs' \ dirs PROVE \E w \in found' : w.dest = d
      <4>1. PICK i \in Uncached(r) : d = ImageDir(r, i)
        BY <1>8 DEF ReleasePlan
      <4>2. [img |-> <<r, i>>, dest |-> ImageDir(r, i)] \in found'
        BY <1>8 DEF ReleasePlan
      <4> QED
        BY <4>1, <4>2
    <3> QED
      BY <3>1
  <2> QED
    BY <1>30, <2>1, <2>2 DEF CacheInv
<1>9. CASE ReleasePlanFails
  BY <1>9, <1>30 DEF CacheInv, ControlInv, ReleasePlanFails
<1>10. CASE ReleaseDone
  BY <1>10, <1>30 DEF CacheInv, ControlInv, ReleaseDone
<1>11. CASE OperatorWalk
  BY <1>11, <1>30 DEF CacheInv, ControlInv, OperatorWalk
<1>12. CASE CatalogStat
  BY <1>12, <1>30 DEF CacheInv, ControlInv, CatalogStat
<1>13. CASE CatalogFetch
  BY <1>13, <1>30 DEF CacheInv, ControlInv, CatalogFetch
<1>14. CASE CatalogIndex
  BY <1>14, <1>30 DEF CacheInv, ControlInv, CatalogIndex
<1>15. CASE CatalogExtract
  <2>1. /\ UNCHANGED <<dirs, todo, found, work, failed, dest, clean, lost>> /\ at # "fetch"
        /\ exit' = "error" \/ UNCHANGED <<phase, exit>>
    BY <1>15 DEF CatalogExtract, Extract, ExtractSkips, ExtractStarts, ExtractEnds
  <2> QED
    BY <1>30, <2>1 DEF CacheInv
<1>16. CASE CatalogSelect
  BY <1>16, <1>30 DEF CacheInv, ControlInv, CatalogSelect
<1>17. CASE OperatorsDone
  <2> DEFINE cat == related[1]
             imgs == related[2]
  <2>1. CASE exit' # exit
    BY <1>17, <2>1 DEF OperatorsDone, CacheInv
  <2>2. CASE exit' = exit
    <3>1. /\ dirs' = dirs \cup {ComponentDir(cat, imgs[k]) : k \in Planned(cat, imgs)}
          /\ work' = work \cup {[img |-> <<cat, imgs[k]>>,
                                dest |-> ComponentDir(cat, imgs[k])] : k \in Planned(cat, imgs)}
          /\ Mode = "mirrorToDisk" /\ found = {} /\ phase = "operator"
          /\ UNCHANGED <<failed, exit, dest, clean, lost>>
      BY <1>17, <2>2 DEF OperatorsDone, ControlInv
    <3>2. ASSUME NEW d \in dirs' \ dirs PROVE \E w \in work' : w.dest = d
      <4>1. PICK k \in Planned(cat, imgs) : d = ComponentDir(cat, imgs[k])
        BY <3>1
      <4>2. [img |-> <<cat, imgs[k]>>, dest |-> ComponentDir(cat, imgs[k])] \in work'
        BY <3>1
      <4> QED
        BY <4>1, <4>2
    <3> QED
      BY <1>30, <3>1, <3>2 DEF CacheInv
  <2> QED
    BY <2>1, <2>2
<1>18. CASE AdditionalWalk
  BY <1>18, <1>30 DEF CacheInv, ControlInv, AdditionalWalk
<1>19. CASE AdditionalCached
  BY <1>19, <1>30 DEF CacheInv, ControlInv, AdditionalCached
<1>20. CASE AdditionalPlan
  <2>1. /\ UNCHANGED <<phase, work, failed, exit, dest, clean, lost>> /\ phase = "additional"
        /\ Mode = "mirrorToDisk" /\ dirs' = dirs \cup {AdditionalDir(a)}
        /\ found' = found \cup {[img |-> <<a>>, dest |-> AdditionalDir(a)]}
    BY <1>20 DEF AdditionalPlan, ControlInv
  <2>2. [img |-> <<a>>, dest |-> AdditionalDir(a)].dest = AdditionalDir(a)
    OBVIOUS
  <2> QED
    BY <1>30, <2>1, <2>2 DEF CacheInv
<1>21. CASE AdditionalRejected
  BY <1>21, <1>30 DEF CacheInv, ControlInv, AdditionalRejected
<1>22. CASE AdditionalMkdirFails
  <2>1. /\ UNCHANGED <<dirs, work, failed, exit, dest, clean>> /\ phase = "additional"
        /\ Mode = "mirrorToDisk" /\ lost'
    BY <1>22 DEF AdditionalMkdirFails, ControlInv
  <2>2. \A w \in found : w.dest[1] = "additional-images"
    BY <2>1 DEF ItemsInv, AdditionalItem, AdditionalDir
  <2> QED
    BY <1>30, <2>1, <2>2 DEF CacheInv
<1>23. CASE AdditionalDone
  BY <1>23, <1>30 DEF CacheInv, ControlInv, AdditionalDone
<1>24. CASE CopyOk
  <2>1. PICK w \in work : work' = work \ {w} /\ Stored(w)
    BY <1>24 DEF CopyOk
  <2>2. UNCHANGED <<dirs, phase, todo, at, found, failed, exit, dest, clean, lost>> /\ phase = "copy"
    BY <1>24 DEF CopyOk
  <2>3. Mode = "mirrorToDisk" => w.dest \in Filled'
    BY <2>1, DirsOfItem DEF Stored, ItemsInv, Filled
  <2> QED
    BY <1>30, <2>1, <2>2, <2>3 DEF CacheInv
<1>25. CASE CopyFails
  BY <1>25, <1>30 DEF CacheInv, ControlInv, CopyFails
<1>26. CASE WorkerReturns
  BY <1>26, <1>30 DEF CacheInv, ControlInv, WorkerReturns
<1>27. CASE Start
  BY <1>27, <1>30 DEF CacheInv, ControlInv, Start
<1>28. CASE Kill
  BY <1>28, <1>30 DEF CacheInv, ControlInv, Kill
<1>29. CASE UNCHANGED vars
  BY <1>29, <1>30 DEF CacheInv, vars
<1> QED
  BY <1>1, <1>2, <1>3, <1>4, <1>5, <1>6, <1>7, <1>8, <1>9, <1>10, <1>11, <1>12, <1>13, <1>14, <1>15, <1>16, <1>17, <1>18, <1>19, <1>20, <1>21, <1>22, <1>23, <1>24, <1>25, <1>26, <1>27, <1>28, <1>29 DEF Next, Run, ReleaseImageCollector,
     OperatorImageCollector, AdditionalImagesCollector, Worker, Idle

\* After successful runs, every step keeps the account of the extracted manifests.
LEMMA ManifestStep ==
    ASSUME ControlInv, TypeOK, ProgressInv, ManifestInv, [Next]_vars
    PROVE  ManifestInv'
<1> USE DEF Mode, Stop, Leave, Good, disk, kept, history, collector, InRelease, InCatalog, InAdditional, Fresh
<1>30. \A x : Processed(x) => Processed(x)'
  BY DiskGrows DEF Processed
<1>1. CASE ReleaseSchema
  BY <1>1, <1>30 DEF ManifestInv, ControlInv, ReleaseSchema
<1>2. CASE ReleaseWalk
  BY <1>2, <1>30 DEF ManifestInv, ControlInv, ReleaseWalk
<1>3. CASE ReleaseList
  BY <1>3, <1>30 DEF ManifestInv, ControlInv, ReleaseList
<1>4. CASE ReleaseStat
  BY <1>4, <1>30 DEF ManifestInv, ControlInv, ReleaseStat
<1>5. CASE ReleaseFetch
  BY <1>5, <1>30 DEF ManifestInv, ControlInv, ReleaseFetch
<1>6. CASE ReleaseIndex
  BY <1>6, <1>30 DEF ManifestInv, ControlInv, ReleaseIndex
<1>7. CASE ReleaseExtract
  <2>1. PICK x : x = Head(todo)
    OBVIOUS
  <2>2. /\ UNCHANGED <<todo, clean>> /\ phase = "release" /\ todo # <<>> /\ x \in Elements(Releases)
        /\ hold' = hold \/ (\E how : hold' = [hold EXCEPT ![x] = how])
        /\ at \in {"extract", "untar"}
        /\ exit' = "error" \/ (UNCHANGED <<phase, exit>> /\ at' \in {"untar", "schema"})
    BY <1>7, <2>1 DEF ReleaseExtract, Extract, ExtractSkips, ExtractStarts, ExtractEnds, r, ControlInv
  <2>3. \A y \in Elements(Releases) : y # x => hold'[y] = hold[y]
    BY <2>2 DEF TypeOK
  <2> QED
    BY <1>30, <2>1, <2>2, <2>3 DEF ManifestInv
<1>8. CASE ReleasePlan
  <2>1. PICK x : x = Head(todo)
    OBVIOUS
  <2>2. Processed(x)'
    BY <1>8, <2>1 DEF ReleasePlan, ProgressInv, Processed, Uncached, r
  <2> QED
    BY <1>8, <1>30, <2>1, <2>2 DEF ManifestInv, ReleasePlan
<1>9. CASE ReleasePlanFails
  BY <1>9, <1>30 DEF ManifestInv, ControlInv, ReleasePlanFails
<1>10. CASE ReleaseDone
  BY <1>10, <1>30 DEF ManifestInv, ControlInv, ReleaseDone
<1>11. CASE OperatorWalk
  BY <1>11, <1>30 DEF ManifestInv, ControlInv, OperatorWalk
<1>12. CASE CatalogStat
  BY <1>12, <1>30 DEF ManifestInv, ControlInv, CatalogStat
<1>13. CASE CatalogFetch
  BY <1>13, <1>30 DEF ManifestInv, ControlInv, CatalogFetch
<1>14. CASE CatalogIndex
  BY <1>14, <1>30 DEF ManifestInv, ControlInv, CatalogIndex
<1>15. CASE CatalogExtract
  <2>1. /\ UNCHANGED clean /\ phase = "operator" /\ c \in Elements(Catalogs)
        /\ hold' = hold \/ (\E how : hold' = [hold EXCEPT ![c] = how])
        /\ exit' = "error" \/ UNCHANGED <<phase, exit>>
    BY <1>15 DEF CatalogExtract, Extract, ExtractSkips, ExtractStarts, ExtractEnds, c, ControlInv
  <2>2. \A y \in Elements(Releases) : hold'[y] = hold[y]
    BY <2>1, NamesAssumption DEF TypeOK
  <2> QED
    BY <1>30, <2>1, <2>2 DEF ManifestInv
<1>16. CASE CatalogSelect
  BY <1>16, <1>30 DEF ManifestInv, ControlInv, CatalogSelect
<1>17. CASE OperatorsDone
  BY <1>17, <1>30 DEF ManifestInv, ControlInv, OperatorsDone
<1>18. CASE AdditionalWalk
  BY <1>18, <1>30 DEF ManifestInv, ControlInv, AdditionalWalk
<1>19. CASE AdditionalCached
  BY <1>19, <1>30 DEF ManifestInv, ControlInv, AdditionalCached
<1>20. CASE AdditionalPlan
  BY <1>20, <1>30 DEF ManifestInv, ControlInv, AdditionalPlan
<1>21. CASE AdditionalRejected
  BY <1>21, <1>30 DEF ManifestInv, ControlInv, AdditionalRejected
<1>22. CASE AdditionalMkdirFails
  BY <1>22, <1>30 DEF ManifestInv, ControlInv, AdditionalMkdirFails
<1>23. CASE AdditionalDone
  BY <1>23, <1>30 DEF ManifestInv, ControlInv, AdditionalDone
<1>24. CASE CopyOk
  BY <1>24, <1>30 DEF ManifestInv, ControlInv, CopyOk
<1>25. CASE CopyFails
  BY <1>25, <1>30 DEF ManifestInv, ControlInv, CopyFails
<1>26. CASE WorkerReturns
  BY <1>26, <1>30 DEF ManifestInv, ControlInv, WorkerReturns
<1>27. CASE Start
  BY <1>27, <1>30 DEF ManifestInv, ControlInv, Start
<1>28. CASE Kill
  BY <1>28, <1>30 DEF ManifestInv, ControlInv, Kill
<1>29. CASE UNCHANGED vars
  BY <1>29, <1>30 DEF ManifestInv, vars
<1> QED
  BY <1>1, <1>2, <1>3, <1>4, <1>5, <1>6, <1>7, <1>8, <1>9, <1>10, <1>11, <1>12, <1>13, <1>14, <1>15, <1>16, <1>17, <1>18, <1>19, <1>20, <1>21, <1>22, <1>23, <1>24, <1>25, <1>26, <1>27, <1>28, <1>29 DEF Next, Run, ReleaseImageCollector,
     OperatorImageCollector, AdditionalImagesCollector, Worker, Idle

\* The directory of a release image is filled by that image alone.
LEMMA ImageFilled ==
    ASSUME NEW D, NEW x \in Elements(Releases), NEW i \in ReleaseImages[x], ImageDir(x, i) \in DirsOf(D)
    PROVE  <<x, i>> \in D
<1>1. \A y : ImageDir(x, i) # ReleaseDir(y) /\ ImageDir(x, i) # AdditionalDir(y)
  BY DEF ImageDir, ReleaseDir, AdditionalDir
<1>2. \A y, j : ImageDir(x, i) # ComponentDir(y, j)
  BY DEF ImageDir, ComponentDir
<1>3. \A y, j : ImageDir(x, i) = ImageDir(y, j) => x = y /\ i = j
  BY DEF ImageDir
<1>4. PICK y \in Elements(Releases) : \E j \in ReleaseImages[y] : <<y, j>> \in D /\ ImageDir(x, i) = ImageDir(y, j)
  <2>1. \/ \E y \in Elements(Releases) : <<y>> \in D /\ ImageDir(x, i) = ReleaseDir(y)
        \/ \E y \in Elements(Releases) : \E j \in ReleaseImages[y] :
               <<y, j>> \in D /\ ImageDir(x, i) = ImageDir(y, j)
        \/ \E y \in Elements(Catalogs) : \E j \in Elements(RelatedImages[y]) :
               <<y, j>> \in D /\ ImageDir(x, i) = ComponentDir(y, j)
        \/ \E y \in Elements(AdditionalImages) : <<y>> \in D /\ ImageDir(x, i) = AdditionalDir(y)
    BY DirsOfCases, Zenon
  <2> QED
    BY <1>1, <1>2, <2>1
<1> QED
  BY <1>3, <1>4

\* After successful runs, the image of a release that was processed is on disk
\* or is planned.
LEMMA ProcessedImages ==
    ASSUME CacheInv, ItemsInv, clean, Good, ~failed, NEW x \in Elements(Releases), Processed(x),
           NEW i \in ReleaseImages[x]
    PROVE  \/ <<x, i>> \in onDisk
           \/ Mode = "mirrorToDisk" /\ found \cup work # {}
<1>1. \A y : ImageDir(x, i) # ReleaseDir(y)
  BY DEF ImageDir, ReleaseDir
<1>2. ImageDir(x, i)[1] # "additional-images"
  BY DEF ImageDir
<1>3. ImageDir(x, i) \in Filled \/ (Mode = "mirrorToDisk" /\ \E w \in found \cup work : w.dest = ImageDir(x, i))
  BY <1>1, <1>2 DEF CacheInv, Processed
<1> QED
  BY <1>3, ImageFilled DEF Filled

\* After successful runs, every step of a run to a registry keeps what the walks
\* found planned or pushed.
LEMMA PublishStep ==
    ASSUME ConfigInv, ControlInv, ItemsInv, CacheInv, ManifestInv, PublishInv, [Next]_vars
    PROVE  PublishInv'
<1> USE DEF Mode, Stop, Leave, Good, disk, kept, history, collector, InRelease, InCatalog, InAdditional, Fresh
<1>1. CASE ReleaseSchema
  BY <1>1 DEF PublishInv, ControlInv, ReleaseSchema
<1>2. CASE ReleaseWalk
  <2> DEFINE x == config.release
  <2>1. /\ UNCHANGED <<config, registry, indexed, dest, exit, failed, clean>> /\ phase' = "operator"
        /\ todo = <<>> /\ found = {} /\ work = {} /\ ~failed /\ exit = "none"
        /\ x \in Elements(Releases) /\ hold[x] # "absent"
    BY <1>2, ConfigFacts DEF ReleaseWalk, ControlInv
  <2>2. SUFFICES ASSUME clean, ~lost', NEW i \in ReleaseImages[x]
                 PROVE  \E w \in work' : w.img = <<x, i>>
    BY <2>1 DEF PublishInv
  <2>3. /\ ~lost
        /\ work' = {[img |-> <<x, j>>, dest |-> RegistryRef(findRelatedImage(x, j))] : j \in OnDiskOf(x)}
    <3>1. lost' # TRUE
      BY <2>2
    <3>2. /\ UNCHANGED lost
          /\ work' = {[img |-> <<x, j>>, dest |-> RegistryRef(findRelatedImage(x, j))] : j \in OnDiskOf(x)}
      BY <1>2, <3>1 DEF ReleaseWalk
    <3> QED
      BY <2>2, <3>2
  <2>4. Processed(x)
    BY <2>1, <2>2 DEF ManifestInv
  <2>5. <<x, i>> \in onDisk
    BY <2>1, <2>2, <2>4, ProcessedImages
  <2>6. [img |-> <<x, i>>, dest |-> RegistryRef(findRelatedImage(x, i))] \in work'
    BY <2>3, <2>5 DEF OnDiskOf
  <2> QED
    BY <2>6
<1>3. CASE ReleaseList
  BY <1>3 DEF PublishInv, ControlInv, ReleaseList
<1>4. CASE ReleaseStat
  BY <1>4 DEF PublishInv, ControlInv, ReleaseStat
<1>5. CASE ReleaseFetch
  BY <1>5 DEF PublishInv, ControlInv, ReleaseFetch
<1>6. CASE ReleaseIndex
  BY <1>6 DEF PublishInv, ControlInv, ReleaseIndex
<1>7. CASE ReleaseExtract
  BY <1>7 DEF PublishInv, ControlInv, ReleaseExtract, Extract, ExtractSkips, ExtractStarts, ExtractEnds
<1>8. CASE ReleasePlan
  BY <1>8 DEF PublishInv, ControlInv, ReleasePlan
<1>9. CASE ReleasePlanFails
  BY <1>9 DEF PublishInv, ControlInv, ReleasePlanFails
<1>10. CASE ReleaseDone
  BY <1>10 DEF PublishInv, ControlInv, ReleaseDone
<1>11. CASE OperatorWalk
  BY <1>11 DEF PublishInv, ControlInv, OperatorWalk
<1>12. CASE CatalogStat
  BY <1>12 DEF PublishInv, ControlInv, CatalogStat
<1>13. CASE CatalogFetch
  BY <1>13 DEF PublishInv, ControlInv, CatalogFetch
<1>14. CASE CatalogIndex
  BY <1>14 DEF PublishInv, ControlInv, CatalogIndex
<1>15. CASE CatalogExtract
  BY <1>15 DEF PublishInv, ControlInv, CatalogExtract, Extract, ExtractSkips, ExtractStarts, ExtractEnds
<1>16. CASE CatalogSelect
  BY <1>16 DEF PublishInv, ControlInv, CatalogSelect
<1>17. CASE OperatorsDone
  BY <1>17 DEF PublishInv, ControlInv, OperatorsDone
<1>18. CASE AdditionalWalk
  <2>1. PICK S \in SUBSET indexed :
            /\ work' = work \cup {[img |-> p, dest |-> RegistryRef(CacheDir[p[1]])] : p \in S}
            /\ lost' = (lost \/ S # indexed)
    BY <1>18 DEF AdditionalWalk
  <2>2. /\ UNCHANGED <<config, registry, indexed, dest, exit, failed, clean>> /\ phase' = "copy"
        /\ phase = "additional"
    BY <1>18 DEF AdditionalWalk
  <2>3. ASSUME ~lost', NEW p \in indexed PROVE \E w \in work' : w.img = p
    <3>1. [img |-> p, dest |-> RegistryRef(CacheDir[p[1]])] \in work'
      BY <2>1, <2>3
    <3> QED
      BY <3>1
  <2> QED
    BY <2>1, <2>2, <2>3 DEF PublishInv
<1>19. CASE AdditionalCached
  BY <1>19 DEF PublishInv, ControlInv, AdditionalCached
<1>20. CASE AdditionalPlan
  BY <1>20 DEF PublishInv, ControlInv, AdditionalPlan
<1>21. CASE AdditionalRejected
  BY <1>21 DEF PublishInv, ControlInv, AdditionalRejected
<1>22. CASE AdditionalMkdirFails
  BY <1>22 DEF PublishInv, ControlInv, AdditionalMkdirFails
<1>23. CASE AdditionalDone
  BY <1>23 DEF PublishInv, ControlInv, AdditionalDone
<1>24. CASE CopyOk
  <2>1. PICK w \in work : work' = work \ {w} /\ Stored(w)
    BY <1>24 DEF CopyOk
  <2>2. UNCHANGED <<config, dest, phase, exit, failed, clean, lost>> /\ phase = "copy"
    BY <1>24 DEF CopyOk
  <2>3. CASE Mode = "mirrorToDisk"
    BY <2>2, <2>3 DEF PublishInv
  <2>4. CASE Mode = "diskToMirror"
    <3>1. registry' = registry \cup {w.img} /\ indexed' = indexed
      BY <2>1, <2>4 DEF Stored
    <3> QED
      BY <2>1, <2>2, <3>1 DEF PublishInv
  <2> QED
    BY <2>3, <2>4
<1>25. CASE CopyFails
  BY <1>25 DEF PublishInv, ControlInv, CopyFails
<1>26. CASE WorkerReturns
  BY <1>26 DEF PublishInv, ControlInv, WorkerReturns
<1>27. CASE Start
  BY <1>27 DEF PublishInv, ControlInv, Start
<1>28. CASE Kill
  BY <1>28 DEF PublishInv, ControlInv, Kill
<1>29. CASE UNCHANGED vars
  BY <1>29 DEF PublishInv, vars
<1> QED
  BY <1>1, <1>2, <1>3, <1>4, <1>5, <1>6, <1>7, <1>8, <1>9, <1>10, <1>11, <1>12, <1>13, <1>14, <1>15, <1>16, <1>17, <1>18, <1>19, <1>20, <1>21, <1>22, <1>23, <1>24, <1>25, <1>26, <1>27, <1>28, <1>29 DEF Next, Run, ReleaseImageCollector,
     OperatorImageCollector, AdditionalImagesCollector, Worker, Idle

-----------------------------------------------------------------------------
\* What a step plans to mirror to disk goes to a directory that it makes.
LEMMA NewItems ==
    ASSUME ControlInv, [Next]_vars, Mode = "mirrorToDisk",
           NEW w \in (found' \cup work') \ (found \cup work)
    PROVE  (ReleaseItem(w) \/ CatalogItem(w) \/ AdditionalItem(w)) /\ w.dest \notin dirs
<1>1. CASE ReleasePlan
  <2>1. PICK i \in Uncached(r) : w = [img |-> <<r, i>>, dest |-> ImageDir(r, i)]
    BY <1>1 DEF ReleasePlan
  <2>2. r \in Elements(Releases)
    BY <1>1 DEF ReleasePlan, InRelease, ControlInv, r
  <2> QED
    BY <2>1, <2>2 DEF Uncached, ReleaseItem
<1>2. CASE OperatorsDone
  <2> DEFINE cat == related[1]
             imgs == related[2]
  <2>1. PICK k \in Planned(cat, imgs) : w = [img |-> <<cat, imgs[k]>>, dest |-> ComponentDir(cat, imgs[k])]
    BY <1>2 DEF OperatorsDone, Leave
  <2>2. cat \in Elements(Catalogs) /\ imgs[k] \in Elements(RelatedImages[cat])
    BY DEF Planned, ControlInv
  <2> QED
    BY <2>1, <2>2 DEF Planned, CatalogItem
<1>3. CASE AdditionalPlan
  <2>1. w = [img |-> <<a>>, dest |-> AdditionalDir(a)] /\ AdditionalDir(a) \notin dirs
    BY <1>3 DEF AdditionalPlan
  <2>2. a \in Elements(AdditionalImages)
    BY <1>3 DEF AdditionalPlan, InAdditional, ControlInv, a
  <2> QED
    BY <2>1, <2>2 DEF AdditionalItem
<1>4. CASE ReleaseWalk \/ OperatorWalk \/ AdditionalWalk
  BY <1>4 DEF ReleaseWalk, OperatorWalk, AdditionalWalk, ControlInv
<1>5. CASE Start
  BY <1>5 DEF Start, Fresh
<1> QED
  BY <1>1, <1>2, <1>3, <1>4, <1>5, PlanningSteps

\* An empty working directory satisfies the invariant.
LEMMA InitInv == Init => ExecutorInv
<1> SUFFICES ASSUME Init PROVE ExecutorInv
  OBVIOUS
<1> USE DEF Init
<1>1. TypeOK /\ DistinctDestinations
  <2>1. failed \in BOOLEAN /\ clean \in BOOLEAN /\ lost \in BOOLEAN
    BY Zenon
  <2>2. run \in 0 .. MaxRuns
    BY ConfigAssumption
  <2> QED
    BY <2>1, <2>2 DEF TypeOK, DistinctDestinations
<1>2. ConfigInv /\ ControlInv
  BY ConfigAssumption DEF ConfigInv, ControlInv, Mode
<1>3. ItemsInv /\ PublishInv
  BY DEF ItemsInv, PublishInv, Mode
<1>4. DiskInv
  BY DEF DiskInv, Filled, DirsOf
<1>5. ProgressInv /\ CacheInv /\ ManifestInv
  BY DEF ProgressInv, CacheInv, ManifestInv
<1> QED
  BY <1>1, <1>2, <1>3, <1>4, <1>5 DEF ExecutorInv

\* The inductive invariant: for every image set configuration, whatever fails
\* and wherever a run is killed, every layer of ExecutorInv holds in every
\* state of every run.
THEOREM ExecutorInvariance == Spec => []ExecutorInv
<1>1. ExecutorInv /\ [Next]_vars => ExecutorInv'
  <2> SUFFICES ASSUME ExecutorInv, [Next]_vars PROVE ExecutorInv'
    OBVIOUS
  <2> USE DEF ExecutorInv
  <2>1. ConfigInv' /\ ControlInv' /\ TypeOK'
    BY ConfigStep, ControlStep, TypeStep
  <2>2. ItemsInv' /\ DistinctDestinations' /\ DiskInv'
    BY ItemsStep, DistinctStep, DiskStep
  <2>3. ProgressInv' /\ CacheInv' /\ ManifestInv' /\ PublishInv'
    BY ProgressStep, CacheStep, ManifestStep, PublishStep
  <2> QED
    BY <2>1, <2>2, <2>3
<1> QED
  BY <1>1, InitInv, PTL DEF Spec

\* No two images that are handed to the batch worker to be mirrored to disk
\* have the same directory, whatever shares a component or a cache directory.
THEOREM DestinationsDistinct == Spec => []DistinctDestinations
<1>1. ExecutorInv => DistinctDestinations
  BY DEF ExecutorInv
<1> QED
  BY <1>1, ExecutorInvariance, PTL

\* As long as every run succeeded, what the collectors take for a cached image
\* is one.
THEOREM CacheIsSound == Spec => []CleanCacheSound
<1>1. ExecutorInv => CleanCacheSound
  BY DEF ExecutorInv, CleanCacheSound, CacheInv, ControlInv, Good
<1> QED
  BY <1>1, ExecutorInvariance, PTL

\* A successful run after successful runs has every image of every release
\* that was listed.
THEOREM ReleasesMirrored == Spec => []CleanRunMirrorsReleases
<1>1. ExecutorInv => CleanRunMirrorsReleases
  <2>1. SUFFICES ASSUME ExecutorInv, exit = "ok", clean, NEW x \in listed, NEW i \in ReleaseImages[x]
                 PROVE  <<x, i>> \in onDisk
    BY DEF CleanRunMirrorsReleases
  <2>2. ~failed /\ found \cup work = {} /\ phase = "exit" /\ Good
    BY <2>1 DEF ExecutorInv, ControlInv, Good
  <2>3. x \in Elements(Releases) /\ Processed(x)
    BY <2>1, <2>2 DEF ExecutorInv, TypeOK, ProgressInv
  <2> QED
    BY <2>1, <2>2, <2>3, ProcessedImages DEF ExecutorInv
<1> QED
  BY <1>1, ExecutorInvariance, PTL

\* A run that mirrors to disk and succeeds has the payload of every listed
\* release and the image of every catalog, whatever happened before it.
THEOREM IndexesPresent == Spec => []OkMeansIndexes
<1>1. ExecutorInv => OkMeansIndexes
  <2>1. SUFFICES ASSUME ExecutorInv, exit = "ok", Mode = "mirrorToDisk"
                 PROVE  \A x \in listed \cup Elements(ConfiguredCatalogs) : <<x>> \in onDisk
    BY DEF OkMeansIndexes
  <2>2. phase = "exit" /\ Good
    BY <2>1 DEF ExecutorInv, ControlInv, Good
  <2> QED
    BY <2>1, <2>2 DEF ExecutorInv, ProgressInv, Processed
<1> QED
  BY <1>1, ExecutorInvariance, PTL

\* What successful runs have put on disk, a successful run that publishes and
\* drops no error has pushed.
THEOREM PublishesWhatWasMirrored == Spec => []RoundTrip
<1>1. ExecutorInv => RoundTrip
  BY DEF ExecutorInv, RoundTrip, PublishInv, ControlInv
<1> QED
  BY <1>1, ExecutorInvariance, PTL

\* An image that is complete on disk is never planned again.
THEOREM CopiesOnce == Spec => NeverCopiedTwice
<1>1. ASSUME ExecutorInv, [Next]_vars
      PROVE  [Mode = "mirrorToDisk" =>
                 \A w \in (found' \cup work') \ (found \cup work) : w.img \notin onDisk]_vars
  <2>1. SUFFICES ASSUME Mode = "mirrorToDisk", NEW w \in (found' \cup work') \ (found \cup work)
                 PROVE  w.img \notin onDisk
    OBVIOUS
  <2>2. (ReleaseItem(w) \/ CatalogItem(w) \/ AdditionalItem(w)) /\ w.dest \notin dirs
    BY <1>1, <2>1, NewItems DEF ExecutorInv
  <2>3. ASSUME w.img \in onDisk PROVE FALSE
    <3>1. onDisk \cup {w.img} = onDisk
      BY <2>3
    <3>2. DirsOf(onDisk \cup {w.img}) = DirsOf(onDisk) \cup {w.dest}
      BY <2>2, DirsOfItem
    <3>3. w.dest \in Filled
      BY <3>1, <3>2 DEF Filled
    <3> QED
      BY <1>1, <2>2, <3>3 DEF ExecutorInv, DiskInv
  <2> QED
    BY <2>3
<1> QED
  BY <1>1, ExecutorInvariance, PTL DEF Spec, NeverCopiedTwice

\* A run with the configuration of a file that could not be read changes
\* neither the disk nor the registry.
THEOREM UnreadChangesNothing == Spec => UnreadIsInert
<1>1. ASSUME ExecutorInv, [Next]_vars
      PROVE  [config = EmptyConfig /\ config' = EmptyConfig => UNCHANGED <<disk, indexed, registry>>]_vars
  <2>1. SUFFICES ASSUME config = EmptyConfig, ~UNCHANGED <<disk, indexed, registry>> PROVE FALSE
    OBVIOUS
  <2>2. todo = <<>> /\ work = {} /\ related = <<"none", <<>>>>
    BY <1>1, <2>1 DEF ExecutorInv, ControlInv
  <2>3. CASE OperatorsDone
    <3>1. Planned(related[1], related[2]) = {}
      BY <2>2 DEF Planned
    <3>2. dirs' = dirs
      BY <2>3, <3>1 DEF OperatorsDone
    <3> QED
      BY <2>1, <2>3, <3>2 DEF OperatorsDone, disk, kept
  <2>4. CASE CopyOk \/ CopyFails
    BY <2>2, <2>4 DEF CopyOk, CopyFails
  <2>5. CASE todo # <<>>
    BY <2>2, <2>5
  <2> QED
    BY <1>1, <2>1, <2>3, <2>4, <2>5 DEF Next, Run, ReleaseImageCollector, OperatorImageCollector,
       AdditionalImagesCollector, Worker, Idle, vars, disk, kept, Start, Kill,
       InRelease, InCatalog, InAdditional, ReleaseStat, ReleaseFetch, ReleasePlan, ReleasePlanFails,
       ReleaseList, ReleaseIndex, ReleaseExtract, ReleaseSchema, ReleaseWalk, ReleaseDone,
       OperatorWalk, CatalogStat, CatalogFetch, CatalogIndex, CatalogExtract, CatalogSelect,
       AdditionalPlan, AdditionalWalk, AdditionalMkdirFails, AdditionalDone, AdditionalCached,
       AdditionalRejected, WorkerReturns
<1> QED
  BY <1>1, ExecutorInvariance, PTL DEF Spec, UnreadIsInert
=============================================================================
