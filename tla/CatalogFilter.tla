------------------------------- MODULE CatalogFilter -------------------------------
(***************************************************************************)
(* Which bundles of a catalog are mirrored: the map of filters that        *)
(* pkg/operator/collector.go compiles from the configuration, and          *)
(* GetRelatedImagesFromCatalog and GetRelatedImagesFromCatalogByFilter of  *)
(* pkg/manifest/oci-manifest.go, which read the objects of a package in    *)
(* one pass.                                                               *)
(*                                                                         *)
(* A version is its rank, 0 is 0.0.0; the version of a bundle is parsed    *)
(* from its name, which may fail (Malformed).  A bundle stands for its     *)
(* related images.                                                         *)
(***************************************************************************)
EXTENDS Integers, Sequences, SequencesExt

CONSTANTS
    Packages,     \* the sequence of packages in the catalog, by name
    CatalogFiles, \* bound: for each package, the catalog.json it may have
    Versioning,   \* bound: the versions that the bundles may have
    Configs,      \* bound: the configurations of the operator
    Nines         \* the rank of 9.9.9

Malformed == -1
None == -2      \* a version that is not set
NoChannel == "" \* a channel that is not set

ObjectsOf(file, schema) == {o \in ToSet(file) : o.schema = schema}
NamesIn(file) == {o.name : o \in ObjectsOf(file, "olm.bundle")}

\* What opm sees to when it builds a catalog: one package object, whose default
\* channel is one of its channels; channels have names of their own, and
\* entries that are bundles of the package; bundles are not named as channels.
Valid(file) ==
    /\ file \in Seq(ToSet(file))
    /\ \A o \in ToSet(file) : o.schema \in {"olm.package", "olm.channel", "olm.bundle"}
    /\ \E o \in ToSet(file) :
           /\ ObjectsOf(file, "olm.package") = {o} /\ o.default \notin NamesIn(file)
           /\ \E ch \in ObjectsOf(file, "olm.channel") : ch.name = o.default
    /\ \A ch \in ObjectsOf(file, "olm.channel") :
           /\ ch.name # NoChannel
           /\ ch.entries \in Seq(NamesIn(file)) \ {<<>>}
           /\ \A x \in ObjectsOf(file, "olm.channel") : x.name = ch.name => x = ch

Bound == Nat \cup {None, Malformed}
ConfiguredPackage ==
    [name : STRING, channels : Seq([name : STRING, min : Bound, max : Bound])]
Operator == [packages : Seq(ConfiguredPackage), full : BOOLEAN]

\* No two packages of a catalog share the name of a bundle, and the directory
\* of the label holds no catalog.json of its own.
ASSUME FilterAssumption ==
    /\ Nines \in Nat
    /\ \A c \in CatalogFiles :
           /\ "label" \notin DOMAIN c
           /\ \A p \in DOMAIN c : Valid(c[p])
           /\ \A p, q \in DOMAIN c : p # q => NamesIn(c[p]) \cap NamesIn(c[q]) = {}
    /\ \A v \in Versioning, c \in CatalogFiles : \A p \in DOMAIN c : \A b \in NamesIn(c[p]) :
           v[b] \in Nat \cup {Malformed}
    /\ \A c \in Configs :
           /\ c.packages \in Seq(ConfiguredPackage) /\ c.full \in BOOLEAN
           /\ c.before \in Seq(Operator) /\ c.after \in Seq(Operator)
    /\ Packages \in Seq(STRING)

VARIABLES
    catalog,    \* the objects of each package, in the order of the file
    ver,        \* the version of each bundle
    config,     \* packages and full of the operator in the configuration, and
                \* those of the operators before and after it
    flat,       \* the directory given holds the packages themselves
    pc,         \* "compile", "list", "read", "scan" or "done"
    compare,    \* the filter of each package
    todo,       \* packages still to be read
    rest,       \* objects still to be read of the first of them
    defaultChannel, bundles, selected,   \* of the pass over a package
    relatedImages,
    result      \* "none", "ok" or "error"

input == <<catalog, ver, config, flat>>
pass == <<defaultChannel, bundles, selected>>
vars == <<input, pc, compare, todo, rest, pass, relatedImages, result>>

\* ISCPackage, and the value of a package that the map does not have.
NoFilter == [channel |-> NoChannel, min |-> None, max |-> None, full |-> FALSE]

Init ==
    /\ catalog \in CatalogFiles /\ ver \in Versioning
    /\ config \in Configs
    /\ flat \in IF config.packages = <<>> THEN BOOLEAN ELSE {FALSE}
    /\ pc = "compile" /\ compare = [p \in {} |-> NoFilter]
    /\ todo = <<>> /\ rest = <<>>
    /\ defaultChannel = NoChannel /\ bundles = {} /\ selected = {}
    /\ relatedImages = {} /\ result = "none"

Filter(p) == IF p \in DOMAIN compare THEN compare[p] ELSE NoFilter

Operators == config.before \o <<[packages |-> config.packages, full |-> config.full]>> \o config.after

\* The places <<i, k>> in the configuration, of package k of operator i, that
\* give channels to a package; the last one of a package.
Given == {at \in UNION {{i} \X DOMAIN Operators[i].packages : i \in DOMAIN Operators} :
             Operators[at[1]].packages[at[2]].channels # <<>>}
PackageAt(at) == Operators[at[1]].packages[at[2]]
IsFinal(p, at) ==
    /\ PackageAt(at).name = p
    /\ \A x \in Given : PackageAt(x).name = p => x[1] < at[1] \/ (x[1] = at[1] /\ x[2] <= at[2])

\* One map for all operators, with one entry for every package that has
\* channels: a channel overwrites the one before it, and an operator what
\* those before it gave for a package of the same name.
Compile ==
    /\ pc = "compile" /\ pc' = "list"
    /\ LET entry(at) == LET ch == Last(PackageAt(at).channels)
                        IN [channel |-> ch.name, min |-> ch.min, max |-> ch.max,
                            full |-> Operators[at[1]].full]
       IN compare' = [p \in {PackageAt(at).name : at \in Given} |->
                         entry(CHOOSE at \in Given : IsFinal(p, at))]
    /\ UNCHANGED <<input, todo, rest, pass, relatedImages, result>>

\* GetRelatedImagesFromCatalog reads what the directory lists.  The directory
\* that the collector gives holds that of the label, which holds the packages.
ListAll ==
    /\ pc = "list" /\ config.packages = <<>> /\ pc' = "read"
    /\ todo' = IF flat THEN Packages ELSE <<"label">>
    /\ UNCHANGED <<input, compare, rest, pass, relatedImages, result>>

\* GetRelatedImagesFromCatalogByFilter reads the packages configured.
ListConfigured ==
    /\ pc = "list" /\ config.packages # <<>> /\ pc' = "read"
    /\ todo' = [k \in DOMAIN config.packages |-> config.packages[k].name]
    /\ UNCHANGED <<input, compare, rest, pass, relatedImages, result>>

-----------------------------------------------------------------------------
\* readOperatorCatalog.
Read ==
    /\ pc = "read" /\ todo # <<>> /\ Head(todo) \in DOMAIN catalog
    /\ pc' = "scan" /\ rest' = catalog[Head(todo)]
    /\ defaultChannel' = NoChannel /\ bundles' = {} /\ selected' = {}
    /\ UNCHANGED <<input, compare, todo, relatedImages, result>>

ReadFails ==
    /\ pc = "read" /\ todo # <<>> /\ Head(todo) \notin DOMAIN catalog
    /\ pc' = "done" /\ result' = "error"
    /\ UNCHANGED <<input, compare, todo, rest, pass, relatedImages>>

Parses(entries) == \A k \in DOMAIN entries : ver[entries[k]] # Malformed

\* Mutant: the maximum found is not kept for the next comparison.
semverFindMax_Forgets(entries) ==
    LET better(best, k) == IF ver[entries[k]] > 0 THEN k ELSE best
    IN IF Parses(entries) THEN {entries[FoldLeft(better, 1, [k \in DOMAIN entries |-> k])]}
       ELSE {}

\* The first entry of the highest version; none when a name does not parse.
semverFindMax(entries) ==
    IF Parses(entries)
    THEN {entries[k] : k \in {k \in DOMAIN entries :
             /\ \A j \in DOMAIN entries : ver[entries[j]] <= ver[entries[k]]
             /\ \A j \in 1 .. k - 1 : ver[entries[j]] < ver[entries[k]]}}
    ELSE {}

\* Mutant: the maximum is not compared with when the minimum is.
semverFindRange_NoMax(entries, min, max) ==
    LET least == IF min = None THEN 0 ELSE min
    IN IF Malformed \in {min, max} \/ ~Parses(entries) THEN {}
       ELSE {b \in ToSet(entries) : ver[b] > least}

\* version.Compare(minVersion) >= 1 leaves out the minimum itself.
semverFindRange(entries, min, max) ==
    LET least == IF min = None THEN 0 ELSE min
        most == IF max = None THEN Nines ELSE max
    IN IF Malformed \in {min, max} \/ ~Parses(entries) THEN {}
       ELSE {b \in ToSet(entries) : ver[b] <= most /\ ver[b] > least}

-----------------------------------------------------------------------------
(***************************************************************************)
(* The pass over the objects: getRelatedImageByDefaultChannel when no      *)
(* package is configured, getRelatedImageByFilter otherwise.               *)
(***************************************************************************)
obj == Head(rest)
Scanning(schema) == pc = "scan" /\ rest # <<>> /\ obj.schema = schema /\ rest' = Tail(rest)
Unfiltered == config.packages = <<>>

\* The filter marks the default channel as if it were a bundle.
ScanPackage ==
    /\ Scanning("olm.package")
    /\ \/ Unfiltered /\ defaultChannel' = obj.default /\ UNCHANGED bundles
       \/ ~Unfiltered /\ bundles' = bundles \cup {obj.default} /\ UNCHANGED defaultChannel
    /\ UNCHANGED <<input, pc, compare, todo, selected, relatedImages, result>>

\* Mutant: the channel's name is not looked at.
Marked_AnyChannel(f) ==
    IF Unfiltered \/ f.channel = NoChannel THEN semverFindMax(obj.entries)
    ELSE semverFindRange(obj.entries, f.min, f.max)

Marked(f) ==
    IF Unfiltered
    THEN IF obj.name = defaultChannel THEN semverFindMax(obj.entries) ELSE {}
    ELSE IF f.channel = NoChannel THEN semverFindMax(obj.entries)
         ELSE IF f.channel = obj.name THEN semverFindRange(obj.entries, f.min, f.max) ELSE {}

ScanChannel ==
    /\ Scanning("olm.channel")
    /\ bundles' = bundles \cup Marked(Filter(Head(todo)))
    /\ UNCHANGED <<input, pc, compare, todo, defaultChannel, selected, relatedImages, result>>

Wanted == obj.name \in bundles \/ (~Unfiltered /\ Filter(Head(todo)).full)

ScanBundle ==
    /\ Scanning("olm.bundle")
    /\ selected' = IF Wanted THEN selected \cup {obj.name} ELSE selected
    /\ UNCHANGED <<input, pc, compare, todo, defaultChannel, bundles, relatedImages, result>>

\* Mutant: the images of a package replace those of the one before.
Collect_Replaces == selected

Collect == relatedImages \cup selected

NextPackage ==
    /\ pc = "scan" /\ rest = <<>> /\ pc' = "read" /\ todo' = Tail(todo)
    /\ relatedImages' = Collect
    /\ UNCHANGED <<input, compare, rest, pass, result>>

Return ==
    /\ pc = "read" /\ todo = <<>> /\ pc' = "done" /\ result' = "ok"
    /\ UNCHANGED <<input, compare, todo, rest, pass, relatedImages>>

Finished == pc = "done" /\ UNCHANGED vars

Next ==
    \/ Compile \/ ListAll \/ ListConfigured \/ Read \/ ReadFails
    \/ ScanPackage \/ ScanChannel \/ ScanBundle \/ NextPackage \/ Return \/ Finished

Spec == Init /\ [][Next]_vars

-----------------------------------------------------------------------------
(***************************************************************************)
(* Properties.  Reference definitions first.                               *)
(***************************************************************************)
Objects(p, schema) == ObjectsOf(catalog[p], schema)
BundlesOf(p) == NamesIn(catalog[p])
Channel(p, name) == UNION {ToSet(o.entries) : o \in {x \in Objects(p, "olm.channel") : x.name = name}}
Rank(o) == IF o.schema = "olm.package" THEN 1 ELSE IF o.schema = "olm.channel" THEN 2 ELSE 3

\* The order in which opm writes a catalog: package, channels, bundles.
InOrder(p) ==
    \A j, k \in DOMAIN catalog[p] : j < k => Rank(catalog[p][j]) <= Rank(catalog[p][k])
WellFormed(p) == \A b \in BundlesOf(p) : ver[b] # Malformed
Chosen(p) == relatedImages \cap BundlesOf(p)
Configured == {config.packages[k].name : k \in DOMAIN config.packages}
IsHead(b, S) == b \in S /\ \A x \in S : ver[x] <= ver[b]

\* A package filtered by a channel gets bundles of that channel only, and none
\* outside of the range, whatever the order of the objects in the file.
RangeRespected ==
    result = "ok" => \A p \in Configured :
        LET f == Filter(p)
        IN f.channel # NoChannel /\ ~f.full =>
            \A b \in Chosen(p) :
                /\ b \in Channel(p, f.channel)
                /\ f.min # None => ver[b] >= f.min
                /\ f.max # None => ver[b] <= f.max

\* In a catalog in order, every bundle of the channel that is strictly inside
\* the range is selected, for every package; with full every bundle is,
\* whatever the order of the objects and however its name is written.
InsideSelected ==
    result = "ok" => \A p \in Configured :
        LET f == Filter(p)
        IN /\ f.full => Chosen(p) = BundlesOf(p)
           /\ f.channel # NoChannel /\ Malformed \notin {f.min, f.max} /\ InOrder(p) /\ WellFormed(p) =>
                  \A b \in Channel(p, f.channel) :
                      /\ ver[b] > (IF f.min = None THEN 0 ELSE f.min)
                      /\ ver[b] <= (IF f.max = None THEN Nines ELSE f.max)
                      => b \in Chosen(p)

\* Without packages, the selection of each package is one bundle: a head of
\* its default channel (oci-manifest.go:252, "the HEAD (latest version ...)").
HeadOfDefault ==
    Unfiltered => \A p \in ToSet(Packages) :
        InOrder(p) /\ WellFormed(p) =>
            \E o \in Objects(p, "olm.package") : \E b \in Chosen(p) :
                Chosen(p) = {b} /\ IsHead(b, Channel(p, o.default))

\* A package without channels gets a head of every channel, and only heads.
HeadsOfAllChannels ==
    \A p \in Configured :
        Filter(p) = NoFilter /\ InOrder(p) /\ WellFormed(p) =>
            LET channels == {ToSet(o.entries) : o \in Objects(p, "olm.channel")}
            IN /\ \A S \in channels : \E b \in Chosen(p) : IsHead(b, S)
               /\ \A b \in Chosen(p) : \E S \in channels : IsHead(b, S)

\* Where no channel is given the selection is heads: of the default channel
\* without packages, of every channel of a package without channels.
HeadsSelected == result = "ok" => HeadOfDefault /\ HeadsOfAllChannels
=============================================================================
