---------------------------------- MODULE Differ ----------------------------------
(***************************************************************************)
(* pkg/diff/diff.go: DeleteImages compares the configuration of the run    *)
(* with that of the run before, deletes the images that are no longer      *)
(* configured, and records the configuration in two files, one after the   *)
(* other: .metadata.toml, a list of items of which the last is current,    *)
(* and .imagesetconfig-<k>.yaml for the new item k.                        *)
(*                                                                         *)
(* The process may be killed at any point, and somebody may edit the       *)
(* configuration file at any time: it is read once when the run starts and *)
(* once more when it is recorded.  The executor has a field for this       *)
(* component and does not call it yet; who calls it is external.           *)
(***************************************************************************)
EXTENDS Configuration, Integers, SequencesExt

CONSTANTS
    Configs,    \* bound: the configurations that the file may hold
    ImagePath,  \* customImageParser: the <namespace>/<component>, without the digest,
                \* of each name that has at least three parts
    MaxRuns,    \* bound: how often the component is called
    MaxEdits    \* bound: how often the configuration file is edited

ImageNames == DOMAIN ImagePath

Unreadable == [data |-> "unreadable", cfg |-> EmptyConfig]
Files == {[data |-> "strict", cfg |-> x] : x \in Configs} \cup {Unreadable}

NamesOf(s) == {s[k].name : k \in DOMAIN s}
CatalogsOf(s) == {s[k].catalog : k \in DOMAIN s}
PackagesOf(s) == UNION {NamesOf(s[k].packages) : k \in DOMAIN s}

\* What a configuration looks like.  The name of an image or a catalog has three
\* parts (the collector of additional images refuses any other), that of a channel
\* or a package has one.
ASSUME DifferAssumption ==
    /\ MaxRuns \in Nat \ {0} /\ MaxEdits \in Nat
    /\ \A x \in Configs :
           /\ DOMAIN x = DOMAIN EmptyConfig
           /\ \A s \in {x.channels, x.operators, x.additionalImages} : s \in Seq(ToSet(s))
           /\ \A k \in DOMAIN x.operators :
                  x.operators[k].packages \in Seq(ToSet(x.operators[k].packages))
           /\ CatalogsOf(x.operators) \cup NamesOf(x.additionalImages) \subseteq ImageNames
           /\ (NamesOf(x.channels) \cup PackagesOf(x.operators)) \cap ImageNames = {}

VARIABLES
    \* on disk
    file,      \* the configuration file
    meta,      \* the items in .metadata.toml, or "absent"
    iscs,      \* the files .imagesetconfig-<k>.yaml
    \* the call in progress
    pc,        \* "idle", or the step of the call
    used,      \* the configuration file as it was when o.Config was read
    force,     \* the flag --force
    sch, prev, \* what GetAllMetadata returned
    imgsToDelete,
    data,      \* the configuration file as WriteMetadata reads it
    exit,      \* "ok", "error", "io" for an error of the file system, or "killed"
    run, edits,\* number of the call, and of edits so far
    \* history
    deleted,   \* the paths that DeleteImage was called for
    applied,   \* used of the last call that recorded its configuration
    torn       \* the last record was cut short, or its file was edited meanwhile

disk == <<file, meta, iscs>>
call == <<used, force, sch, prev, imgsToDelete, data>>
history == <<deleted, applied, torn>>
vars == <<disk, edits, pc, call, exit, run, history>>

Init ==
    /\ file \in Files /\ meta = "absent" /\ iscs = [k \in 0 .. MaxRuns |-> Unreadable]
    /\ pc = "idle" /\ exit = "none" /\ run = 0 /\ edits = 0
    /\ used = Unreadable /\ force = FALSE /\ sch = <<>> /\ prev = EmptyConfig
    /\ imgsToDelete = {} /\ data = Unreadable
    /\ deleted = {} /\ applied = Unreadable /\ torn = FALSE

cfg == ReadConfig(used).cfg

Return(how) == pc' = "idle" /\ exit' = how

\* The items that readMetaData finds, and those of them that are current.
Items == IF meta = "absent" THEN <<>> ELSE meta
CurrentItems == {k \in DOMAIN Items : Items[k].current}

-----------------------------------------------------------------------------
(***************************************************************************)
(* The environment.  A caller reads the configuration and calls            *)
(* DeleteImages; where there is no current item it starts the metadata     *)
(* with WriteMetadata and an empty list.                                   *)
(***************************************************************************)
Call ==
    /\ pc = "idle" /\ run < MaxRuns /\ run' = run + 1
    /\ used' = file /\ force' \in BOOLEAN
    /\ pc' = "metadata" \/ (CurrentItems = {} /\ pc' = "create")
    /\ sch' = <<>> /\ prev' = EmptyConfig /\ imgsToDelete' = {} /\ data' = Unreadable
    /\ exit' = "none" /\ deleted' = {}
    /\ UNCHANGED <<disk, edits, applied, torn>>

Edit ==
    /\ edits < MaxEdits /\ edits' = edits + 1
    /\ file' \in Files \ {file}
    /\ UNCHANGED <<meta, iscs, pc, call, exit, run, history>>

\* The steps that write the record.
Writing == {"encode", "truncate", "isc"}

Kill ==
    /\ pc # "idle" /\ Return("killed")
    /\ torn' = (torn \/ pc \in Writing)
    /\ UNCHANGED <<disk, call, run, edits, deleted, applied>>

-----------------------------------------------------------------------------
(***************************************************************************)
(* DeleteImages.                                                           *)
(***************************************************************************)
\* Mutant: the first of all items.
PreviousISC_First == Items[1].value

\* getPreviousISC: the last of the current items.
PreviousISC == Items[CHOOSE k \in CurrentItems : \A j \in CurrentItems : j <= k].value

\* GetAllMetadata
GetAllMetadata ==
    /\ pc = "metadata"
    /\ \/ /\ CurrentItems # {} /\ ~ReadConfig(iscs[PreviousISC]).err
          /\ sch' = meta /\ prev' = ReadConfig(iscs[PreviousISC]).cfg
          /\ pc' = "diff" /\ UNCHANGED exit
       \/ /\ CurrentItems # {} => ReadConfig(iscs[PreviousISC]).err
          /\ Return("error") /\ UNCHANGED <<sch, prev>>
    /\ UNCHANGED <<disk, used, force, imgsToDelete, data, run, edits, history>>

(***************************************************************************)
(* calculateDiff: nested loops that write to a map from the names of       *)
(* channels, catalogs, packages and images to where they were seen.  A     *)
(* write has its place in the loops, and the last one to a name counts.    *)
(***************************************************************************)
Write(at, name, from) == [at |-> at, name |-> name, from |-> from]

\* Mutant: a current object of the same name that differs is passed over.
LookFor_OnlyEqual(at, previous, current) ==
    {Write(<<at[1], at[2], at[3], i, 0>>, previous[i].name, "previous") : i \in DOMAIN previous}
    \cup {Write(<<at[1], at[2], at[3], k[1], k[2]>>, current[k[2]].name, "both") :
             k \in {k \in (DOMAIN previous) \X (DOMAIN current) : current[k[2]] = previous[k[1]]}}

\* Every object of the previous configuration is looked for among the current ones.
LookFor(at, previous, current) ==
    {Write(<<at[1], at[2], at[3], i, 0>>, previous[i].name, "previous") : i \in DOMAIN previous}
    \cup {Write(<<at[1], at[2], at[3], i, j>>, current[j].name,
                IF current[j] = previous[i] THEN "both" ELSE "current") :
             i \in DOMAIN previous, j \in DOMAIN current}

\* Mutant: a catalog counts only when it is equal.
CompareOperator_OnlyEqual(i, j, prOp, op) ==
    LookFor(<<2, i, j>>, prOp.packages, op.packages)
    \cup {Write(<<2, i, j, Len(prOp.packages) + 1, 0>>, x.catalog, "both") : x \in {prOp} \cap {op}}

CompareOperator(i, j, prOp, op) ==
    {Write(<<2, i, j, 0, 0>>, op.catalog, "current")}
    \cup LookFor(<<2, i, j>>, prOp.packages, op.packages)
    \cup {Write(<<2, i, j, Len(prOp.packages) + 1, 0>>, x.catalog, "both") : x \in {prOp} \cap {op}}

CompareOperators(previous, current) ==
    {Write(<<2, i, 0, 0, 0>>, previous[i].catalog, "previous") : i \in DOMAIN previous}
    \cup UNION {CompareOperator(i, j, previous[i], current[j]) :
                   i \in DOMAIN previous, j \in DOMAIN current}

calculateDiff(old, new) ==
    LookFor(<<1, 0, 0>>, old.channels, new.channels)
    \cup CompareOperators(old.operators, new.operators)
    \cup LookFor(<<3, 0, 0>>, old.additionalImages, new.additionalImages)

Later(v, w) == \E k \in 1 .. 5 : v.at[k] > w.at[k] /\ \A j \in 1 .. k - 1 : v.at[j] = w.at[j]

\* The names that end as "previous": nothing else is written after it.
Stale(old, new) ==
    {w.name : w \in {w \in calculateDiff(old, new) :
        /\ w.from = "previous"
        /\ \A v \in calculateDiff(old, new) : v.name = w.name /\ Later(v, w) => v.from = "previous"}}

\* CheckDiff, calculateDiff and batchWorkerConverter: a stale name that is not
\* the name of an image is an error, before anything is deleted.
Diff ==
    /\ pc = "diff"
    /\ \/ /\ cfg # prev /\ ~force /\ Stale(prev, cfg) \subseteq ImageNames
          /\ imgsToDelete' = Stale(prev, cfg) /\ pc' = "delete" /\ UNCHANGED exit
       \/ /\ cfg # prev /\ ~force /\ ~(Stale(prev, cfg) \subseteq ImageNames)
          /\ Return("error") /\ UNCHANGED imgsToDelete
       \/ /\ cfg = prev \/ force
          /\ pc' = "create" /\ UNCHANGED <<imgsToDelete, exit>>
    /\ UNCHANGED <<disk, used, force, sch, prev, data, run, edits, history>>

\* MirrorDelete.DeleteImage does nothing yet and returns nil.
DeleteImage ==
    /\ pc = "delete"
    /\ \/ \E i \in imgsToDelete :
             /\ imgsToDelete' = imgsToDelete \ {i} /\ deleted' = deleted \cup {ImagePath[i]}
             /\ UNCHANGED pc
       \/ imgsToDelete = {} /\ pc' = "create" /\ UNCHANGED <<imgsToDelete, deleted>>
    /\ UNCHANGED <<disk, used, force, sch, prev, data, exit, run, edits, applied, torn>>

-----------------------------------------------------------------------------
(***************************************************************************)
(* WriteMetadata.  os.Create truncates the file; the encoder writes it in  *)
(* one or more pieces, and in a file that was cut no item is current: the  *)
(* new item is the last.  os.WriteFile truncates its file as well, and     *)
(* writes it in one piece.                                                 *)
(***************************************************************************)
\* Mutant: the earlier items stay current.
New_KeepsCurrent == sch \o <<[value |-> Len(sch), current |-> TRUE]>>

New == [k \in DOMAIN sch |-> [sch[k] EXCEPT !.current = FALSE]]
       \o <<[value |-> Len(sch), current |-> TRUE]>>

WriteCreate ==
    /\ pc = "create"
    /\ \/ meta' = <<>> /\ pc' = "encode" /\ UNCHANGED exit
       \/ Return("io") /\ UNCHANGED meta
    /\ UNCHANGED <<file, iscs, call, run, edits, history>>

WriteEncode ==
    /\ pc = "encode"
    /\ \/ meta' = New /\ pc' = "truncate" /\ UNCHANGED <<exit, torn>>
       \/ \E n \in 0 .. Len(sch) : meta' = SubSeq(New, 1, n) /\ Return("killed") /\ torn' = TRUE
       \/ \E n \in 0 .. Len(New) : meta' = SubSeq(New, 1, n) /\ Return("io") /\ torn' = TRUE
    /\ UNCHANGED <<file, iscs, call, run, edits, deleted, applied>>

WriteTruncate ==
    /\ pc = "truncate"
    /\ \/ /\ data' = file /\ iscs' = [iscs EXCEPT ![Len(sch)] = Unreadable]
          /\ pc' = "isc" /\ UNCHANGED <<exit, torn>>
       \/ Return("io") /\ torn' = TRUE /\ UNCHANGED <<iscs, data>>
    /\ UNCHANGED <<file, meta, used, force, sch, prev, imgsToDelete, run, edits, deleted, applied>>

WriteISC ==
    /\ pc = "isc"
    /\ \/ /\ iscs' = [iscs EXCEPT ![Len(sch)] = data]
          /\ Return("ok") /\ applied' = used /\ torn' = (data # used)
       \/ Return("io") /\ torn' = TRUE /\ UNCHANGED <<iscs, applied>>
    /\ UNCHANGED <<file, meta, call, run, edits, deleted>>

DeleteImages ==
    \/ GetAllMetadata \/ Diff \/ DeleteImage
    \/ WriteCreate \/ WriteEncode \/ WriteTruncate \/ WriteISC

Idle == pc = "idle" /\ run = MaxRuns /\ UNCHANGED vars

Next == Call \/ Edit \/ Kill \/ DeleteImages \/ Idle

Spec == Init /\ [][Next]_vars

-----------------------------------------------------------------------------
(***************************************************************************)
(* Properties.                                                             *)
(***************************************************************************)
\* The images and catalogs of the old configuration that the new one lacks.
Dropped(old, new) ==
    (NamesOf(old.additionalImages) \ NamesOf(new.additionalImages))
    \cup (CatalogsOf(old.operators) \ CatalogsOf(new.operators))

\* Those of them that it does not name at all.  A catalog may move to the images,
\* or the other way round.
Gone(old, new) == Dropped(old, new) \ (NamesOf(new.additionalImages) \cup CatalogsOf(new.operators))

Paths(names) == {ImagePath[i] : i \in names}

\* When the difference is acted upon, the paths of the images and catalogs that
\* are no longer configured are deleted and no others, for every pair of
\* configurations: what the nested loops write over in the map never makes one
\* of them stale that stays where it was, or hides one that is gone.
DiffIsExact ==
    pc = "delete" =>
        /\ Paths(Gone(prev, cfg)) \subseteq Paths(imgsToDelete) \cup deleted
        /\ Paths(imgsToDelete) \cup deleted \subseteq Paths(Dropped(prev, cfg))

\* The list of items on disk is in order at every point of every call: the
\* items are numbered, only the last may be current, and the configuration
\* of every item before the last can be read.
RecordInOrder ==
    /\ \A k \in DOMAIN Items : Items[k].value = k - 1 /\ (Items[k].current => k = Len(Items))
    /\ \A k \in CurrentItems : \A j \in 1 .. k - 1 : ~ReadConfig(iscs[Items[j].value]).err

\* The configuration compared with is the one the last recorded call worked
\* with, unless that record was torn: kills, errors and calls that fail
\* before they write, in any number, do not make it another.
ComparesWithApplied ==
    pc = "diff" /\ ~torn => prev = ReadConfig(applied).cfg

\* With one catalog, a call after an intact record fails only for a channel
\* or a package that is no longer configured, or a file system error.
FailsOnlyOnOtherNames ==
    pc = "idle" /\ exit = "error" /\ ~torn /\ meta # "absent" /\ Len(cfg.operators) <= 1 =>
        \/ NamesOf(prev.channels) \ NamesOf(cfg.channels) # {}
        \/ PackagesOf(prev.operators) \ PackagesOf(cfg.operators) # {}
        \/ ReadConfig(applied).err
=============================================================================
