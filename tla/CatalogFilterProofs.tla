---------------------------- MODULE CatalogFilterProofs ----------------------------
(***************************************************************************)
(* Proofs about CatalogFilter, for every catalog and every configuration:  *)
(* the bundles selected are those of the channel and the range, or heads.  *)
(***************************************************************************)
EXTENDS CatalogFilter, WellFoundedInduction, TLAPS

-----------------------------------------------------------------------------
(***************************************************************************)
(* The inductive invariant.                                                *)
(***************************************************************************)
\* The packages to be read.
ToBeRead ==
    IF ~Unfiltered THEN Configured ELSE IF flat THEN ToSet(Packages) ELSE {"label"}

Channels(p) == Objects(p, "olm.channel")

\* The bundles that the channel object o marks in a pass over package p.
Hits(p, o) ==
    IF Unfiltered
    THEN IF \E x \in Objects(p, "olm.package") : x.default = o.name THEN semverFindMax(o.entries) ELSE {}
    ELSE IF Filter(p).channel = NoChannel THEN semverFindMax(o.entries)
         ELSE IF Filter(p).channel = o.name
              THEN semverFindRange(o.entries, Filter(p).min, Filter(p).max) ELSE {}

WantsAll(p) == ~Unfiltered /\ Filter(p).full
Hit(p, b) == \E o \in Channels(p) : b \in Hits(p, o)
Due(p, b) == WantsAll(p) \/ Hit(p, b)

\* Every bundle of p that is due is in S.
Holds(p, S) ==
    \A b \in BundlesOf(p) : WantsAll(p) \/ (InOrder(p) /\ Hit(p, b)) => b \in S

FilterType == [channel : STRING \cup {NoChannel}, min : Bound, max : Bound, full : BOOLEAN]

TypeInv ==
    /\ catalog \in CatalogFiles /\ ver \in Versioning /\ config \in Configs
    /\ pc \in {"compile", "list", "read", "scan", "done"}
    /\ \A p \in DOMAIN compare : compare[p] \in FilterType
    /\ pc \in {"compile", "list"} => relatedImages = {} /\ result = "none"
    /\ pc \in {"read", "scan"} => todo \in Seq(ToBeRead) /\ result = "none"
    /\ result = "ok" => pc = "done" /\ todo = <<>>

\* What was collected is due, and what was read is collected.
ReadInv ==
    /\ \A b \in relatedImages : \E p \in DOMAIN catalog : b \in BundlesOf(p) /\ Due(p, b)
    /\ pc \in {"read", "scan"} \/ result = "ok" =>
           \A p \in ToBeRead : p \in ToSet(todo) \/ (p \in DOMAIN catalog /\ Holds(p, relatedImages))

\* What is left to be read of package p is the end of its file.
Suffix(p) ==
    /\ rest \in Seq(ToSet(catalog[p])) /\ Len(rest) <= Len(catalog[p])
    /\ \A k \in 1 .. Len(rest) : rest[k] = catalog[p][Len(catalog[p]) - Len(rest) + k]

\* The pass over package p marks and selects nothing that is not due.
PassSound(p) ==
    /\ defaultChannel = NoChannel \/ \E x \in Objects(p, "olm.package") : defaultChannel = x.default
    /\ \A b \in bundles : Hit(p, b) \/ \E x \in Objects(p, "olm.package") : b = x.default
    /\ \A b \in selected : b \in BundlesOf(p) /\ Due(p, b)

\* The pass over package p has done with o what is due.
Handled(p, o) ==
    /\ o.schema = "olm.package" /\ Unfiltered => defaultChannel = o.default
    /\ o.schema = "olm.channel" /\ InOrder(p) => Hits(p, o) \subseteq bundles
    /\ o.schema = "olm.bundle" /\ (WantsAll(p) \/ (InOrder(p) /\ Hit(p, o.name))) => o.name \in selected

ScanInv ==
    pc = "scan" =>
        /\ todo # <<>> /\ Head(todo) \in DOMAIN catalog
        /\ Suffix(Head(todo)) /\ PassSound(Head(todo))
        /\ \A k \in 1 .. Len(catalog[Head(todo)]) - Len(rest) : Handled(Head(todo), catalog[Head(todo)][k])

CatalogInv == TypeInv /\ ReadInv /\ ScanInv

-----------------------------------------------------------------------------
(***************************************************************************)
(* Numbers and sequences.                                                  *)
(***************************************************************************)
\* A set of naturals has a least element: induction by the least
\* counterexample.
LEMMA Least ==
    ASSUME NEW T \in SUBSET Nat, T # {}
    PROVE  \E x \in T : \A y \in T : x <= y
<1> DEFINE R == {ss \in Nat \X Nat : ss[1] < ss[2]}
<1>1. OpToRel(<, Nat) = R
  BY Zenon DEF OpToRel
<1>2. IsWellFoundedOn(R, Nat)
  BY <1>1, NatLessThanWellFounded, Zenon
<1>3. PICK x \in T : \A y \in T : <<y, x>> \notin R
  <2> HIDE DEF R
  <2> QED
    BY <1>2, WFMin
<1>4. ASSUME NEW y \in T PROVE x <= y
  <2>1. x \in Nat /\ y \in Nat /\ <<y, x>> \notin R
    BY <1>3
  <2> QED
    BY <2>1
<1> QED
  BY <1>4

\* A nonempty set of indices has a last one.
LEMMA Greatest ==
    ASSUME NEW n \in Nat, NEW T \in SUBSET (1 .. n), T # {}
    PROVE  \E x \in T : \A y \in T : y <= x
<1> DEFINE M == {m \in Nat : \A y \in T : y <= m}
<1>1. n \in M
  OBVIOUS
<1>2. M \in SUBSET Nat /\ M # {}
  BY <1>1
<1> HIDE DEF M
<1>3. PICK m \in M : \A k \in M : m <= k
  BY <1>2, Least
<1> USE DEF M
<1>4. m \in Nat /\ \A y \in T : y <= m
  BY <1>3
<1>5. m \in T
  <2> SUFFICES ASSUME m \notin T PROVE FALSE
    OBVIOUS
  <2>1. \A y \in T : y <= m - 1
    BY <1>4
  <2>2. m - 1 \in M
    <3>1. PICK t \in T : t \in 1 .. n
      OBVIOUS
    <3>2. m - 1 \in Nat
      BY <3>1, <2>1, <1>4
    <3> QED
      BY <3>2, <2>1
  <2> QED
    BY <2>2, <1>3, <1>4
<1> QED
  BY <1>4, <1>5

\* The first of a list, and the rest.
LEMMA HeadTail ==
    ASSUME NEW S, NEW q \in Seq(S), q # <<>>
    PROVE  /\ Head(q) \in S /\ Tail(q) \in Seq(S) /\ Head(q) = q[1]
           /\ Len(q) \in Nat /\ Len(q) >= 1 /\ Len(Tail(q)) = Len(q) - 1
           /\ \A k \in 1 .. Len(Tail(q)) : Tail(q)[k] = q[k + 1]
           /\ ToSet(q) = {Head(q)} \cup ToSet(Tail(q))
<1>1. /\ Head(q) \in S /\ Tail(q) \in Seq(S) /\ Head(q) = q[1]
      /\ Len(q) \in Nat /\ Len(q) >= 1 /\ Len(Tail(q)) = Len(q) - 1
      /\ \A k \in 1 .. Len(Tail(q)) : Tail(q)[k] = q[k + 1]
  OBVIOUS
<1>2. ASSUME NEW x \in ToSet(q) PROVE x = q[1] \/ x \in ToSet(Tail(q))
  <2>1. PICK k \in 1 .. Len(q) : x = q[k]
    BY <1>2 DEF ToSet
  <2>2. CASE k = 1
    BY <2>1, <2>2
  <2>3. CASE k # 1
    <3>1. k - 1 \in 1 .. Len(Tail(q)) /\ (k - 1) + 1 = k
      BY <2>3, <1>1
    <3>2. Tail(q)[k - 1] = x /\ k - 1 \in DOMAIN Tail(q)
      BY <3>1, <2>1, <1>1
    <3> QED
      BY <3>2 DEF ToSet
  <2> QED
    BY <2>2, <2>3
<1>3. ASSUME NEW x \in ToSet(Tail(q)) PROVE x \in ToSet(q)
  <2>1. PICK k \in 1 .. Len(Tail(q)) : x = Tail(q)[k]
    BY <1>1, <1>3 DEF ToSet
  <2>2. k + 1 \in DOMAIN q /\ x = q[k + 1]
    BY <2>1, <1>1
  <2> QED
    BY <2>2 DEF ToSet
<1>4. q[1] \in ToSet(q)
  BY <1>1 DEF ToSet
<1> QED
  BY <1>1, <1>2, <1>3, <1>4

\* What is in a list has a place in it.
LEMMA Placed ==
    ASSUME NEW S, NEW q \in Seq(S)
    PROVE  /\ \A x \in ToSet(q) : \E k \in 1 .. Len(q) : q[k] = x
           /\ \A k \in 1 .. Len(q) : q[k] \in ToSet(q) /\ q[k] \in S
BY DEF ToSet

-----------------------------------------------------------------------------
(***************************************************************************)
(* What the code's comparisons find.                                       *)
(***************************************************************************)
\* In a list of versions one is the greatest, and of the greatest one is first.
LEMMA MaxExists ==
    ASSUME NEW n \in Nat, NEW v \in [1 .. n -> Int], n # 0
    PROVE  \E k \in 1 .. n : (\A j \in 1 .. n : v[j] <= v[k]) /\ (\A j \in 1 .. k - 1 : v[j] < v[k])
<1> DEFINE Top(m, k) == (\A j \in 1 .. m : v[j] <= v[k]) /\ (\A j \in 1 .. k - 1 : v[j] < v[k])
           Bad == {m \in 1 .. n : \A k \in 1 .. m : ~Top(m, k)}
<1>1. CASE Bad = {}
  <2>1. n \in 1 .. n
    OBVIOUS
  <2>2. n \notin Bad
    <3> HIDE DEF Bad
    <3> QED
      BY <1>1
  <2>3. PICK k \in 1 .. n : Top(n, k)
    BY <2>1, <2>2
  <2> QED
    BY <2>3
<1>2. CASE Bad # {}
  <2>1. Bad \in SUBSET Nat
    OBVIOUS
  <2> HIDE DEF Bad
  <2>2. PICK m \in Bad : \A j \in Bad : m <= j
    BY <1>2, <2>1, Least
  <2>3. m \in 1 .. n /\ \A k \in 1 .. m : ~Top(m, k)
    BY <2>2 DEF Bad
  <2>4. m # 1
    <3> SUFFICES ASSUME m = 1 PROVE FALSE
      OBVIOUS
    <3>1. Top(1, 1)
      OBVIOUS
    <3> QED
      BY <3>1, <2>3
  <2>5. m - 1 \in 1 .. n /\ m - 1 \notin Bad
    BY <2>2, <2>3, <2>4
  <2>6. PICK k \in 1 .. m - 1 : Top(m - 1, k)
    BY <2>5 DEF Bad
  <2>7. CASE v[m] <= v[k]
    <3>1. Top(m, k)
      BY <2>3, <2>6, <2>7
    <3>2. k \in 1 .. m
      BY <2>3, <2>6
    <3> HIDE DEF Top
    <3> QED
      BY <3>1, <3>2, <2>3
  <2>8. CASE v[k] < v[m]
    <3>1. Top(m, m)
      BY <2>3, <2>6, <2>8
    <3>2. m \in 1 .. m
      BY <2>3
    <3> HIDE DEF Top
    <3> QED
      BY <3>1, <3>2, <2>3
  <2>9. v[m] \in Int /\ v[k] \in Int
    BY <2>3, <2>6
  <2> QED
    BY <2>7, <2>8, <2>9
<1> QED
  BY <1>1, <1>2

\* The entries of a channel are bundles with versions.
Versioned(entries) ==
    entries \in Seq(ToSet(entries)) /\ \A b \in ToSet(entries) : ver[b] \in Nat \cup {Malformed}

\* semverFindMax finds one head, if all versions can be read.
LEMMA MaxIsHead ==
    ASSUME NEW entries, Versioned(entries), entries # <<>>, Parses(entries)
    PROVE  \E b : semverFindMax(entries) = {b} /\ IsHead(b, ToSet(entries))
<1> DEFINE n == Len(entries)
           v == [k \in 1 .. n |-> ver[entries[k]]]
<1>1. n \in Nat /\ n # 0 /\ DOMAIN entries = 1 .. n
  BY DEF Versioned
<1>2. v \in [1 .. n -> Int]
  BY <1>1, Placed DEF Versioned, Malformed
<1> HIDE DEF n, v
<1>3. PICK k \in 1 .. n : (\A j \in 1 .. n : v[j] <= v[k]) /\ (\A j \in 1 .. k - 1 : v[j] < v[k])
  BY <1>1, <1>2, MaxExists
<1> DEFINE Best(i) == (\A j \in DOMAIN entries : ver[entries[j]] <= ver[entries[i]])
                        /\ (\A j \in 1 .. i - 1 : ver[entries[j]] < ver[entries[i]])
<1>4. \A i \in 1 .. n : v[i] = ver[entries[i]] /\ v[i] \in Int
  BY <1>2 DEF v
<1>5. Best(k)
  BY <1>1, <1>3, <1>4
<1>6. ASSUME NEW i \in DOMAIN entries, Best(i) PROVE i = k
  <2>1. v[i] <= v[k] /\ v[k] <= v[i] /\ i \in 1 .. n
    BY <1>1, <1>3, <1>4, <1>6
  <2>2. ~(i < k)
    BY <2>1, <1>3, <1>4
  <2>3. ~(k < i)
    BY <2>1, <1>4, <1>6
  <2> QED
    BY <2>1, <2>2, <2>3
<1>7. semverFindMax(entries) = {entries[k]}
  <2>1. semverFindMax(entries) = {entries[i] : i \in {i \in DOMAIN entries : Best(i)}}
    BY DEF semverFindMax
  <2> HIDE DEF Best
  <2>2. {i \in DOMAIN entries : Best(i)} = {k}
    BY <1>1, <1>5, <1>6
  <2> QED
    BY <2>1, <2>2
<1>8. IsHead(entries[k], ToSet(entries))
  <2>1. entries[k] \in ToSet(entries)
    BY <1>1 DEF ToSet
  <2>2. \A x \in ToSet(entries) : ver[x] <= ver[entries[k]]
    BY <1>5 DEF ToSet
  <2> QED
    BY <2>1, <2>2 DEF IsHead
<1> QED
  BY <1>7, <1>8

\* Neither comparison finds anything but entries.
LEMMA FoundInEntries ==
    ASSUME NEW entries, NEW min, NEW max
    PROVE  /\ semverFindMax(entries) \subseteq ToSet(entries)
           /\ semverFindRange(entries, min, max) \subseteq ToSet(entries)
BY DEF semverFindMax, semverFindRange, ToSet

-----------------------------------------------------------------------------
(***************************************************************************)
(* The steps.                                                              *)
(***************************************************************************)
kept == <<catalog, ver, config, flat, compare>>

\* What a file that opm has built looks like.
LEMMA FileFacts ==
    ASSUME TypeInv, NEW p \in DOMAIN catalog
    PROVE  /\ Valid(catalog[p]) /\ catalog[p] \in Seq(ToSet(catalog[p]))
           /\ \A b \in BundlesOf(p) : ver[b] \in Nat \cup {Malformed}
           /\ \A q \in DOMAIN catalog : p # q => BundlesOf(p) \cap BundlesOf(q) = {}
<1>1. catalog \in CatalogFiles /\ ver \in Versioning
  BY DEF TypeInv
<1>2. Valid(catalog[p])
  BY <1>1, FilterAssumption
<1> QED
  BY <1>1, <1>2, FilterAssumption DEF Valid, BundlesOf

\* Every filter of the map has a filter's fields.
LEMMA FilterFacts ==
    ASSUME TypeInv, NEW p
    PROVE  Filter(p) \in FilterType
<1>1. NoFilter \in FilterType
  <2>1. None \in Bound /\ FALSE \in BOOLEAN
    BY DEF Bound
  <2> QED
    BY <2>1 DEF FilterType, NoFilter
<1>2. \A x \in DOMAIN compare : compare[x] \in FilterType
  BY DEF TypeInv
<1> QED
  BY <1>1, <1>2 DEF Filter

\* A channel marks bundles of its package.
LEMMA HitsAreBundles ==
    ASSUME TypeInv, NEW p \in DOMAIN catalog, NEW o \in Channels(p)
    PROVE  Hits(p, o) \subseteq ToSet(o.entries) /\ ToSet(o.entries) \subseteq BundlesOf(p)
<1>1. o.entries \in Seq(BundlesOf(p))
  BY FileFacts DEF Valid, Channels, Objects, BundlesOf
<1>2. ToSet(o.entries) \subseteq BundlesOf(p)
  BY <1>1 DEF ToSet
<1> QED
  BY <1>2, FoundInEntries DEF Hits

\* What is due depends only on the input and the filters.
LEMMA Kept ==
    ASSUME UNCHANGED kept
    PROVE  /\ ToBeRead' = ToBeRead /\ Unfiltered' = Unfiltered
           /\ \A p, o : Hits(p, o)' = Hits(p, o)
           /\ \A p : Channels(p)' = Channels(p) /\ BundlesOf(p)' = BundlesOf(p)
           /\ \A p : WantsAll(p)' = WantsAll(p) /\ InOrder(p)' = InOrder(p)
           /\ \A p, b : Hit(p, b)' = Hit(p, b) /\ Due(p, b)' = Due(p, b)
           /\ \A p, S : Holds(p, S)' = Holds(p, S)
<1> USE DEF kept
<1>1. ToBeRead' = ToBeRead /\ Unfiltered' = Unfiltered
  BY DEF ToBeRead, Unfiltered, Configured
<1>2. \A p : Filter(p)' = Filter(p)
  BY DEF Filter
<1>3. \A p, o : Hits(p, o)' = Hits(p, o)
  <2>1. \A entries : Parses(entries)' = Parses(entries)
    BY DEF Parses
  <2>2. \A entries : semverFindMax(entries)' = semverFindMax(entries)
    BY <2>1 DEF semverFindMax
  <2>3. \A entries, min, max : semverFindRange(entries, min, max)' = semverFindRange(entries, min, max)
    BY <2>1 DEF semverFindRange
  <2>4. \A p, schema : Objects(p, schema)' = Objects(p, schema)
    BY DEF Objects
  <2> QED
    BY <1>1, <1>2, <2>2, <2>3, <2>4 DEF Hits
<1>4. \A p : Channels(p)' = Channels(p) /\ BundlesOf(p)' = BundlesOf(p)
  BY DEF Channels, Objects, BundlesOf
<1>5. \A p : WantsAll(p)' = WantsAll(p) /\ InOrder(p)' = InOrder(p)
  BY <1>1, <1>2 DEF WantsAll, InOrder
<1>6. \A p, b : Hit(p, b)' = Hit(p, b) /\ Due(p, b)' = Due(p, b)
  BY <1>3, <1>4, <1>5 DEF Hit, Due
<1>7. \A p, S : Holds(p, S)' = Holds(p, S)
  BY <1>4, <1>5, <1>6 DEF Holds
<1> QED
  BY <1>1, <1>3, <1>4, <1>5, <1>6, <1>7

\* A place that gives channels is a place of the configuration, and what it
\* gives makes a filter.
LEMMA GivenType ==
    ASSUME TypeInv, NEW at \in Given
    PROVE  /\ at[1] \in 1 .. Len(Operators) /\ Len(Operators) \in Nat
           /\ at[2] \in 1 .. Len(Operators[at[1]].packages) /\ Len(Operators[at[1]].packages) \in Nat
           /\ LET ch == Last(PackageAt(at).channels)
              IN [channel |-> ch.name, min |-> ch.min, max |-> ch.max,
                  full |-> Operators[at[1]].full] \in FilterType
<1>1. /\ config.packages \in Seq(ConfiguredPackage) /\ config.full \in BOOLEAN
      /\ config.before \in Seq(Operator) /\ config.after \in Seq(Operator)
  BY FilterAssumption DEF TypeInv
<1>2. [packages |-> config.packages, full |-> config.full] \in Operator
  BY <1>1 DEF Operator
<1>3. Operators \in Seq(Operator)
  BY <1>1, <1>2 DEF Operators
<1>4. PICK i \in DOMAIN Operators : at \in {i} \X DOMAIN Operators[i].packages
  BY DEF Given
<1>5. at[1] = i /\ at[2] \in DOMAIN Operators[i].packages
  BY <1>4
<1>6. Operators[i] \in Operator
  BY <1>3
<1>7. Operators[i].packages \in Seq(ConfiguredPackage) /\ Operators[i].full \in BOOLEAN
  BY <1>6 DEF Operator
<1> DEFINE chs == PackageAt(at).channels
           ChannelType == [name : STRING, min : Bound, max : Bound]
<1>8. PackageAt(at) \in ConfiguredPackage /\ chs # <<>>
  BY <1>5, <1>7 DEF PackageAt, Given
<1>9. chs \in Seq(ChannelType)
  BY <1>8 DEF ConfiguredPackage
<1> HIDE DEF chs, ChannelType
<1>10. Len(chs) \in DOMAIN chs
  BY <1>8, <1>9
<1>11. Last(chs) \in ChannelType
  BY <1>9, <1>10 DEF Last
<1>12. [channel |-> Last(chs).name, min |-> Last(chs).min, max |-> Last(chs).max,
        full |-> Operators[at[1]].full] \in FilterType
  BY <1>5, <1>7, <1>11 DEF FilterType, ChannelType
<1> QED
  BY <1>3, <1>5, <1>7, <1>12 DEF chs

\* Of the places that give channels to a package, one is the last.
LEMMA FinalExists ==
    ASSUME TypeInv, NEW p \in {PackageAt(at).name : at \in Given}
    PROVE  \E at \in Given : IsFinal(p, at)
<1> DEFINE T == {at \in Given : PackageAt(at).name = p}
           I == {at[1] : at \in T}
<1>1. \A at \in T : at \in Given /\ PackageAt(at).name = p
  OBVIOUS
<1>2. Len(Operators) \in Nat /\ I \in SUBSET (1 .. Len(Operators)) /\ I # {} /\ T # {}
  BY GivenType
<1> HIDE DEF T
<1>3. PICK i \in I : \A j \in I : j <= i
  BY <1>2, Greatest
<1> DEFINE K == {at[2] : at \in {x \in T : x[1] = i}}
<1>4. Len(Operators[i].packages) \in Nat /\ K \in SUBSET (1 .. Len(Operators[i].packages)) /\ K # {}
  BY <1>1, <1>3, GivenType
<1>5. PICK k \in K : \A j \in K : j <= k
  BY <1>4, Greatest
<1>6. PICK at \in T : at[1] = i /\ at[2] = k
  BY <1>5
<1>7. ASSUME NEW x \in Given, PackageAt(x).name = p
      PROVE  x[1] < at[1] \/ (x[1] = at[1] /\ x[2] <= at[2])
  <2>1. x \in T /\ x[1] \in Int /\ i \in Int
    <3>1. x \in T /\ x[1] \in 1 .. Len(Operators) /\ Len(Operators) \in Nat
      BY <1>7, GivenType DEF T
    <3>2. i \in 1 .. Len(Operators)
      BY <1>1, <1>6, GivenType
    <3> QED
      BY <3>1, <3>2
  <2>2. x[1] <= i
    BY <1>3, <2>1
  <2>3. CASE x[1] = i
    BY <1>5, <1>6, <2>1, <2>3
  <2> QED
    BY <1>6, <2>1, <2>2, <2>3
<1> QED
  BY <1>1, <1>6, <1>7 DEF IsFinal

\* The filters that the collector compiles are filters.
LEMMA CompileStep ==
    ASSUME CatalogInv, Compile
    PROVE  CatalogInv'
<1> DEFINE entry(at) == LET ch == Last(PackageAt(at).channels)
                        IN [channel |-> ch.name, min |-> ch.min, max |-> ch.max,
                            full |-> Operators[at[1]].full]
           names == {PackageAt(at).name : at \in Given}
           final(p) == CHOOSE at \in Given : IsFinal(p, at)
<1>1. TypeInv /\ UNCHANGED <<catalog, ver, config, flat, todo, relatedImages, result>> /\ pc = "compile" /\ pc' = "list"
  BY DEF CatalogInv, Compile, input
<1>2. compare' = [p \in names |-> entry(final(p))]
  BY DEF Compile
<1>3. ASSUME NEW p \in names PROVE entry(final(p)) \in FilterType
  <2>1. PICK at \in Given : IsFinal(p, at)
    BY <1>1, FinalExists
  <2>2. final(p) \in Given
    BY <2>1
  <2> HIDE DEF final, entry
  <2> QED
    BY <1>1, <2>2, GivenType DEF entry
<1> HIDE DEF names, entry, final
<1>5. \A p \in DOMAIN compare' : compare'[p] \in FilterType
  BY <1>2, <1>3
<1>6. TypeInv'
  BY <1>1, <1>5 DEF TypeInv
<1>7. relatedImages' = {} /\ result' = "none"
  BY <1>1 DEF TypeInv
<1> QED
  BY <1>1, <1>6, <1>7 DEF CatalogInv, ReadInv, ScanInv

\* Everything that is to be read is listed.
LEMMA ListStep ==
    ASSUME CatalogInv, ListAll \/ ListConfigured
    PROVE  CatalogInv'
<1>1. /\ TypeInv /\ UNCHANGED kept /\ UNCHANGED <<relatedImages, result>>
      /\ pc = "list" /\ pc' = "read"
  BY DEF CatalogInv, ListAll, ListConfigured, input, kept
<1>2. ToBeRead' = ToBeRead
  BY <1>1, Kept
<1>3. todo' \in Seq(ToBeRead) /\ ToBeRead \subseteq ToSet(todo')
  <2>1. CASE ListAll
    <3>1. Unfiltered /\ todo' = IF flat THEN Packages ELSE <<"label">>
      BY <2>1 DEF ListAll, Unfiltered
    <3>2. Packages \in Seq(ToSet(Packages))
      BY FilterAssumption DEF ToSet
    <3>3. <<"label">> \in Seq({"label"}) /\ ToSet(<<"label">>) = {"label"}
      BY DEF ToSet
    <3> QED
      BY <3>1, <3>2, <3>3 DEF ToBeRead
  <2>2. CASE ListConfigured
    <3>1. ~Unfiltered /\ todo' = [k \in DOMAIN config.packages |-> config.packages[k].name]
      BY <2>2 DEF ListConfigured, Unfiltered
    <3>2. config.packages \in Seq(ConfiguredPackage)
      BY <1>1, FilterAssumption DEF TypeInv
    <3>3. todo' \in Seq(Configured) /\ DOMAIN todo' = DOMAIN config.packages
      BY <3>1, <3>2 DEF Configured
    <3>4. Configured \subseteq ToSet(todo')
      BY <3>1, <3>3 DEF Configured, ToSet
    <3> QED
      BY <3>1, <3>3, <3>4 DEF ToBeRead
  <2> QED
    BY <2>1, <2>2
<1>4. relatedImages' = {} /\ result' = "none"
  BY <1>1 DEF TypeInv
<1>5. TypeInv'
  BY <1>1, <1>2, <1>3, <1>4 DEF TypeInv, kept
<1> QED
  BY <1>1, <1>2, <1>3, <1>4, <1>5 DEF CatalogInv, ReadInv, ScanInv

\* A pass starts with nothing read, and nothing marked.
LEMMA ReadStep ==
    ASSUME CatalogInv, Read \/ ReadFails
    PROVE  CatalogInv'
<1>1. /\ TypeInv /\ ReadInv /\ UNCHANGED kept /\ UNCHANGED <<todo, relatedImages>>
      /\ pc = "read" /\ todo # <<>>
  BY DEF CatalogInv, Read, ReadFails, input, kept
<1>2. /\ ToBeRead' = ToBeRead /\ catalog' = catalog
      /\ \A p : BundlesOf(p)' = BundlesOf(p)
      /\ \A p, b : Due(p, b)' = Due(p, b)
      /\ \A p, S : Holds(p, S)' = Holds(p, S)
  BY <1>1, Kept DEF kept
<1>3. todo \in Seq(ToBeRead) /\ result = "none"
  BY <1>1 DEF TypeInv
<1>4. CASE Read
  <2>1. PICK p \in DOMAIN catalog : p = Head(todo)
    BY <1>4 DEF Read
  <2>2. /\ pc' = "scan" /\ rest' = catalog[p] /\ result' = "none"
        /\ defaultChannel' = NoChannel /\ bundles' = {} /\ selected' = {}
    BY <1>3, <1>4, <2>1 DEF Read
  <2>3. TypeInv'
    BY <1>1, <1>2, <1>3, <2>2 DEF TypeInv, kept
  <2>4. ReadInv'
    BY <1>1, <1>2, <2>2 DEF ReadInv
  <2>5. catalog[p] \in Seq(ToSet(catalog[p])) /\ Len(catalog[p]) \in Nat
    BY <1>1, FileFacts
  <2>6. Suffix(p)'
    BY <1>2, <2>2, <2>5 DEF Suffix
  <2>7. PassSound(p)'
    BY <2>2 DEF PassSound
  <2>8. \A k \in 1 .. Len(catalog[p])' - Len(rest)' : FALSE
    BY <1>2, <2>2, <2>5
  <2>9. Head(todo)' = p /\ todo' # <<>> /\ p \in DOMAIN catalog'
    BY <1>1, <1>2, <2>1
  <2>10. ScanInv'
    BY <2>6, <2>7, <2>8, <2>9 DEF ScanInv
  <2> QED
    BY <2>3, <2>4, <2>10 DEF CatalogInv
<1>5. CASE ReadFails
  <2>1. pc' = "done" /\ result' = "error"
    BY <1>5 DEF ReadFails
  <2> QED
    BY <1>1, <1>2, <2>1 DEF CatalogInv, TypeInv, ReadInv, ScanInv, kept
<1> QED
  BY <1>4, <1>5

\* A step of the pass reads the object at place i of package p, and keeps the
\* invariant if it handles that object.
Reads(p, i) ==
    /\ i \in 1 .. Len(catalog[p])
    /\ p = Head(todo) /\ obj = catalog[p][i] /\ obj \in ToSet(catalog[p])
    /\ PassSound(p)
    /\ \A k \in 1 .. i - 1 : Handled(p, catalog[p][k])
    /\ PassSound(p)' /\ (\A k \in 1 .. i : Handled(p, catalog[p][k])') => CatalogInv'

\* Every step of the pass reads the object at the next place.
LEMMA ScanMove ==
    ASSUME CatalogInv, pc = "scan", rest # <<>>, rest' = Tail(rest),
           UNCHANGED kept, UNCHANGED <<pc, todo, relatedImages, result>>
    PROVE  \E p \in DOMAIN catalog, i \in Nat : Reads(p, i)
<1>1. TypeInv /\ ReadInv /\ ScanInv
  BY DEF CatalogInv
<1>2. PICK p \in DOMAIN catalog : p = Head(todo)
  BY <1>1 DEF ScanInv
<1> DEFINE L == Len(catalog[p])
           R == Len(rest)
           i == (L - R) + 1
<1>3. /\ todo # <<>> /\ Suffix(p) /\ PassSound(p)
      /\ \A k \in 1 .. L - R : Handled(p, catalog[p][k])
  BY <1>1, <1>2 DEF ScanInv
<1>4. catalog[p] \in Seq(ToSet(catalog[p])) /\ L \in Nat
  BY <1>1, FileFacts
<1>5. /\ rest \in Seq(ToSet(catalog[p])) /\ R \in Nat /\ R <= L
      /\ \A k \in 1 .. R : rest[k] = catalog[p][L - R + k]
  BY <1>3 DEF Suffix
<1>6. /\ Head(rest) \in ToSet(catalog[p]) /\ Head(rest) = rest[1] /\ R >= 1
      /\ Tail(rest) \in Seq(ToSet(catalog[p])) /\ Len(Tail(rest)) = R - 1
      /\ \A k \in 1 .. R - 1 : Tail(rest)[k] = rest[k + 1]
  BY <1>5, HeadTail
<1> HIDE DEF L, R
<1>7. i \in 1 .. L /\ i - 1 = L - R
  BY <1>4, <1>5, <1>6
<1>8. obj = catalog[p][i] /\ obj \in ToSet(catalog[p])
  <2>1. 1 \in 1 .. R
    BY <1>5, <1>6
  <2> QED
    BY <2>1, <1>5, <1>6 DEF obj
<1>9. Suffix(p)'
  <2>1. ASSUME NEW k \in 1 .. R - 1 PROVE Tail(rest)[k] = catalog[p][L - (R - 1) + k]
    <3>1. k + 1 \in 1 .. R /\ L - R + (k + 1) = L - (R - 1) + k
      BY <1>4, <1>5
    <3> QED
      BY <3>1, <1>5, <1>6
  <2>2. catalog' = catalog
    BY DEF kept
  <2>3. rest' = Tail(rest) /\ Len(rest') = R - 1
    BY <1>6
  <2>4. L = Len(catalog'[p])
    BY <2>2 DEF L
  <2>5. rest' \in Seq(ToSet(catalog'[p])) /\ Len(rest') <= L
    BY <2>2, <2>3, <1>4, <1>5, <1>6
  <2>6. \A k \in 1 .. Len(rest') : rest'[k] = catalog'[p][L - Len(rest') + k]
    BY <2>1, <2>2, <2>3
  <2> QED
    BY <2>4, <2>5, <2>6 DEF Suffix
<1>10. ASSUME PassSound(p)', \A k \in 1 .. i : Handled(p, catalog[p][k])' PROVE CatalogInv'
  <2>1. /\ ToBeRead' = ToBeRead /\ catalog' = catalog
        /\ \A q : BundlesOf(q)' = BundlesOf(q)
        /\ \A q, b : Due(q, b)' = Due(q, b)
        /\ \A q, S : Holds(q, S)' = Holds(q, S)
    BY Kept DEF kept
  <2>2. TypeInv'
    BY <1>1, <2>1 DEF TypeInv, kept
  <2>3. ReadInv'
    BY <1>1, <2>1 DEF ReadInv
  <2>4. Head(todo)' = p /\ todo' # <<>> /\ p \in DOMAIN catalog'
    BY <1>2, <1>3, <2>1
  <2>5. Len(catalog[p])' - Len(rest)' = i
    <3>1. Len(catalog[p])' = L
      BY <2>1 DEF L
    <3>2. Len(rest)' = R - 1
      BY <1>6
    <3>3. L - (R - 1) = i
      BY <1>4, <1>5
    <3> QED
      BY <3>1, <3>2, <3>3
  <2> HIDE DEF i
  <2>6. ScanInv'
    BY <2>4, <2>5, <1>9, <1>10 DEF ScanInv
  <2> QED
    BY <2>2, <2>3, <2>6 DEF CatalogInv
<1>11. \A k \in 1 .. i - 1 : Handled(p, catalog[p][k])
  BY <1>3, <1>7
<1> HIDE DEF i
<1> USE DEF L
<1> QED
  BY <1>2, <1>3, <1>7, <1>8, <1>10, <1>11 DEF Reads

\* The package object is read once: it names the default channel.
LEMMA ScanPackageStep ==
    ASSUME CatalogInv, ScanPackage
    PROVE  CatalogInv'
<1>1. /\ pc = "scan" /\ rest # <<>> /\ rest' = Tail(rest) /\ obj.schema = "olm.package"
      /\ UNCHANGED kept /\ UNCHANGED <<pc, todo, relatedImages, result>> /\ selected' = selected
      /\ \/ Unfiltered /\ defaultChannel' = obj.default /\ bundles' = bundles
         \/ ~Unfiltered /\ bundles' = bundles \cup {obj.default} /\ defaultChannel' = defaultChannel
  BY DEF ScanPackage, Scanning, input, kept
<1>2. PICK p \in DOMAIN catalog, i \in Nat : Reads(p, i)
  BY <1>1, ScanMove
<1> USE DEF Reads
<1>3. catalog[p] \in Seq(ToSet(catalog[p])) /\ Len(catalog[p]) \in Nat /\ Valid(catalog[p])
  BY FileFacts DEF CatalogInv
<1>4. PICK x : x = obj
  OBVIOUS
<1>5. Objects(p, "olm.package") = {x}
  BY <1>1, <1>2, <1>3, <1>4 DEF Valid, Objects, ObjectsOf
<1>6. /\ catalog' = catalog /\ Unfiltered' = Unfiltered /\ InOrder(p)' = InOrder(p)
      /\ \A o : Hits(p, o)' = Hits(p, o)
      /\ BundlesOf(p)' = BundlesOf(p) /\ WantsAll(p)' = WantsAll(p)
      /\ \A b : Hit(p, b)' = Hit(p, b) /\ Due(p, b)' = Due(p, b)
  BY <1>1, Kept DEF kept
<1>7. Objects(p, "olm.package")' = {x}
  BY <1>5, <1>6 DEF Objects
<1>8. PassSound(p)'
  BY <1>1, <1>2, <1>4, <1>5, <1>6, <1>7 DEF PassSound
<1>9. ASSUME NEW k \in 1 .. i PROVE Handled(p, catalog[p][k])'
  <2>1. PICK o : o = catalog[p][k]
    OBVIOUS
  <2>2. o \in ToSet(catalog[p])
    <3>1. k \in 1 .. Len(catalog[p])
      BY <1>2, <1>3
    <3> QED
      BY <3>1, <2>1, <1>3, Placed
  <2>3. o.schema = "olm.package" => o = x
    BY <2>2, <1>5 DEF Objects, ObjectsOf
  <2>4. k = i => o = x
    BY <2>1, <1>2, <1>4
  <2>5. k # i => Handled(p, o)
    BY <2>1, <1>2
  <2>6. o.schema = "olm.package" /\ Unfiltered' => defaultChannel' = o.default
    BY <2>3, <1>1, <1>4, <1>6
  <2>7. o.schema = "olm.channel" /\ InOrder(p)' => Hits(p, o)' \subseteq bundles'
    BY <2>4, <2>5, <1>1, <1>4, <1>6 DEF Handled
  <2>8. o.schema = "olm.bundle" /\ (WantsAll(p)' \/ (InOrder(p)' /\ Hit(p, o.name)')) => o.name \in selected'
    BY <2>4, <2>5, <1>1, <1>4, <1>6 DEF Handled
  <2>9. Handled(p, o)'
    BY <2>6, <2>7, <2>8 DEF Handled
  <2> QED
    BY <2>1, <2>9, <1>6
<1> QED
  BY <1>2, <1>8, <1>9

\* A channel marks its hits, once the package object was read.
LEMMA ScanChannelStep ==
    ASSUME CatalogInv, ScanChannel
    PROVE  CatalogInv'
<1>1. /\ pc = "scan" /\ rest # <<>> /\ rest' = Tail(rest) /\ obj.schema = "olm.channel"
      /\ UNCHANGED kept /\ UNCHANGED <<pc, todo, relatedImages, result>>
      /\ UNCHANGED <<selected, defaultChannel>>
      /\ bundles' = bundles \cup Marked(Filter(Head(todo)))
  BY DEF ScanChannel, Scanning, input, kept
<1>2. PICK p \in DOMAIN catalog, i \in Nat : Reads(p, i)
  BY <1>1, ScanMove
<1> USE DEF Reads
<1>3. catalog[p] \in Seq(ToSet(catalog[p])) /\ Len(catalog[p]) \in Nat /\ Valid(catalog[p])
  BY FileFacts DEF CatalogInv
<1>4. PICK x : x = obj
  OBVIOUS
<1>5. x \in Channels(p) /\ x.name # NoChannel
  BY <1>1, <1>2, <1>3, <1>4 DEF Valid, Channels, Objects, ObjectsOf
<1>6. /\ catalog' = catalog /\ Unfiltered' = Unfiltered /\ InOrder(p)' = InOrder(p)
      /\ \A o : Hits(p, o)' = Hits(p, o)
      /\ BundlesOf(p)' = BundlesOf(p) /\ WantsAll(p)' = WantsAll(p)
      /\ \A b : Hit(p, b)' = Hit(p, b) /\ Due(p, b)' = Due(p, b)
  BY <1>1, Kept DEF kept
<1>7. PICK M : M = Marked(Filter(p)) /\ bundles' = bundles \cup M
  BY <1>1, <1>2
<1>8. M \subseteq Hits(p, x)
  <2>1. CASE Unfiltered /\ x.name = defaultChannel
    <3>1. \E y \in Objects(p, "olm.package") : y.default = x.name
      BY <2>1, <1>2, <1>5 DEF PassSound
    <3> QED
      BY <3>1, <2>1, <1>4, <1>7 DEF Marked, Hits
  <2>2. CASE Unfiltered /\ x.name # defaultChannel
    BY <2>2, <1>4, <1>7 DEF Marked
  <2>3. CASE ~Unfiltered
    BY <2>3, <1>4, <1>7 DEF Marked, Hits
  <2> QED
    BY <2>1, <2>2, <2>3
<1>9. ASSUME InOrder(p) PROVE Hits(p, x) \subseteq M
  <2>1. CASE Unfiltered
    <3> SUFFICES ASSUME NEW y \in Objects(p, "olm.package"), y.default = x.name
                 PROVE  defaultChannel = x.name
      BY <2>1, <1>4, <1>7 DEF Marked, Hits
    <3>1. y \in ToSet(catalog[p]) /\ y.schema = "olm.package"
      BY DEF Objects, ObjectsOf
    <3>2. PICK k \in 1 .. Len(catalog[p]) : catalog[p][k] = y
      BY <3>1, <1>3, Placed
    <3>3. Rank(y) = 1 /\ Rank(x) = 2
      BY <3>1, <1>1, <1>4 DEF Rank
    <3>4. ~(i < k)
      BY <3>2, <3>3, <1>2, <1>3, <1>4, <1>9 DEF InOrder
    <3>5. i # k
      BY <3>2, <3>3, <1>2, <1>4
    <3>6. Handled(p, y)
      BY <3>2, <3>4, <3>5, <1>2, <1>3
    <3> QED
      BY <3>1, <3>6, <2>1 DEF Handled
  <2>2. CASE ~Unfiltered
    BY <2>2, <1>4, <1>7 DEF Marked, Hits
  <2> QED
    BY <2>1, <2>2
<1>10. Objects(p, "olm.package")' = Objects(p, "olm.package")
  BY <1>6 DEF Objects
<1>11. \A b \in M : Hit(p, b)
  BY <1>5, <1>8 DEF Hit
<1>12. PassSound(p)'
  BY <1>1, <1>2, <1>6, <1>7, <1>10, <1>11 DEF PassSound
<1>13. ASSUME NEW k \in 1 .. i PROVE Handled(p, catalog[p][k])'
  <2>1. PICK o : o = catalog[p][k]
    OBVIOUS
  <2>2. k = i => o = x
    BY <2>1, <1>2, <1>4
  <2>3. k # i => Handled(p, o)
    BY <2>1, <1>2
  <2>4. x.schema = "olm.channel"
    BY <1>1, <1>4
  <2>5. o.schema = "olm.package" /\ Unfiltered' => defaultChannel' = o.default
    BY <2>2, <2>3, <2>4, <1>1, <1>6 DEF Handled
  <2>6. o.schema = "olm.channel" /\ InOrder(p)' => Hits(p, o)' \subseteq bundles'
    BY <2>2, <2>3, <2>4, <1>6, <1>7, <1>9 DEF Handled
  <2>7. o.schema = "olm.bundle" /\ (WantsAll(p)' \/ (InOrder(p)' /\ Hit(p, o.name)')) => o.name \in selected'
    BY <2>2, <2>3, <2>4, <1>1, <1>6 DEF Handled
  <2>8. Handled(p, o)'
    BY <2>5, <2>6, <2>7 DEF Handled
  <2> QED
    BY <2>1, <2>8, <1>6
<1> QED
  BY <1>2, <1>12, <1>13

\* A bundle that is marked, or wanted anyway, is selected.
LEMMA ScanBundleStep ==
    ASSUME CatalogInv, ScanBundle
    PROVE  CatalogInv'
<1>1. /\ pc = "scan" /\ rest # <<>> /\ rest' = Tail(rest) /\ obj.schema = "olm.bundle"
      /\ UNCHANGED kept /\ UNCHANGED <<pc, todo, relatedImages, result>>
      /\ UNCHANGED <<bundles, defaultChannel>>
      /\ selected' = IF Wanted THEN selected \cup {obj.name} ELSE selected
  BY DEF ScanBundle, Scanning, input, kept
<1>2. PICK p \in DOMAIN catalog, i \in Nat : Reads(p, i)
  BY <1>1, ScanMove
<1> USE DEF Reads
<1>3. catalog[p] \in Seq(ToSet(catalog[p])) /\ Len(catalog[p]) \in Nat /\ Valid(catalog[p])
  BY FileFacts DEF CatalogInv
<1>4. PICK x : x = obj
  OBVIOUS
<1>5. x.name \in BundlesOf(p) /\ x.schema = "olm.bundle"
  BY <1>1, <1>2, <1>4 DEF BundlesOf, NamesIn, ObjectsOf
<1>6. /\ catalog' = catalog /\ Unfiltered' = Unfiltered /\ InOrder(p)' = InOrder(p)
      /\ \A o : Hits(p, o)' = Hits(p, o)
      /\ BundlesOf(p)' = BundlesOf(p) /\ WantsAll(p)' = WantsAll(p)
      /\ \A b : Hit(p, b)' = Hit(p, b) /\ Due(p, b)' = Due(p, b)
  BY <1>1, Kept DEF kept
<1>7. PICK W \in BOOLEAN :
          /\ W <=> (x.name \in bundles \/ WantsAll(p))
          /\ selected' = IF W THEN selected \cup {x.name} ELSE selected
  BY <1>1, <1>2, <1>4 DEF Wanted, WantsAll
<1>8. W => Due(p, x.name)
  <2>1. \A y \in Objects(p, "olm.package") : y.default # x.name
    BY <1>3, <1>5 DEF Valid, Objects, BundlesOf
  <2> QED
    BY <2>1, <1>2, <1>7 DEF PassSound, Due
<1>9. WantsAll(p) \/ (InOrder(p) /\ Hit(p, x.name)) => W
  <2> SUFFICES ASSUME InOrder(p), NEW o \in Channels(p), x.name \in Hits(p, o)
               PROVE  x.name \in bundles
    BY <1>7 DEF Hit
  <2>1. o \in ToSet(catalog[p]) /\ o.schema = "olm.channel"
    BY DEF Channels, Objects, ObjectsOf
  <2>2. PICK k \in 1 .. Len(catalog[p]) : catalog[p][k] = o
    BY <2>1, <1>3, Placed
  <2>3. Rank(o) = 2 /\ Rank(x) = 3
    BY <2>1, <1>5 DEF Rank
  <2>4. ~(i < k)
    BY <2>2, <2>3, <1>2, <1>3, <1>4 DEF InOrder
  <2>5. i # k
    BY <2>2, <2>3, <1>2, <1>4
  <2>6. Handled(p, o)
    BY <2>2, <2>4, <2>5, <1>2, <1>3
  <2> QED
    BY <2>1, <2>6 DEF Handled
<1>10. Objects(p, "olm.package")' = Objects(p, "olm.package")
  BY <1>6 DEF Objects
<1>11. PassSound(p)'
  BY <1>1, <1>2, <1>5, <1>6, <1>7, <1>8, <1>10 DEF PassSound
<1>12. ASSUME NEW k \in 1 .. i PROVE Handled(p, catalog[p][k])'
  <2>1. PICK o : o = catalog[p][k]
    OBVIOUS
  <2>2. k = i => o = x
    BY <2>1, <1>2, <1>4
  <2>3. k # i => Handled(p, o)
    BY <2>1, <1>2
  <2>4. o.schema = "olm.package" /\ Unfiltered' => defaultChannel' = o.default
    BY <2>2, <2>3, <1>1, <1>5, <1>6 DEF Handled
  <2>5. o.schema = "olm.channel" /\ InOrder(p)' => Hits(p, o)' \subseteq bundles'
    BY <2>2, <2>3, <1>1, <1>5, <1>6 DEF Handled
  <2>6. o.schema = "olm.bundle" /\ (WantsAll(p)' \/ (InOrder(p)' /\ Hit(p, o.name)')) => o.name \in selected'
    BY <2>2, <2>3, <1>5, <1>6, <1>7, <1>9 DEF Handled
  <2>7. Handled(p, o)'
    BY <2>4, <2>5, <2>6 DEF Handled
  <2> QED
    BY <2>1, <2>7, <1>6
<1> QED
  BY <1>2, <1>11, <1>12

\* A pass that has read the whole file has selected what is due.
LEMMA NextPackageStep ==
    ASSUME CatalogInv, NextPackage
    PROVE  CatalogInv'
<1>1. /\ TypeInv /\ ReadInv /\ ScanInv /\ UNCHANGED kept /\ result' = result
      /\ pc = "scan" /\ rest = <<>> /\ pc' = "read" /\ todo' = Tail(todo)
      /\ relatedImages' = relatedImages \cup selected
  BY DEF CatalogInv, NextPackage, Collect, input, kept
<1>2. PICK p \in DOMAIN catalog : p = Head(todo)
  BY <1>1 DEF ScanInv
<1>3. /\ ToBeRead' = ToBeRead /\ catalog' = catalog
      /\ \A q : BundlesOf(q)' = BundlesOf(q)
      /\ \A q, b : Due(q, b)' = Due(q, b)
      /\ \A q, S : Holds(q, S)' = Holds(q, S)
  BY <1>1, Kept DEF kept
<1>4. catalog[p] \in Seq(ToSet(catalog[p])) /\ Len(catalog[p]) \in Nat
  BY <1>1, FileFacts
<1>5. /\ todo # <<>> /\ PassSound(p)
      /\ \A k \in 1 .. Len(catalog[p]) - Len(rest) : Handled(p, catalog[p][k])
  BY <1>1, <1>2 DEF ScanInv
<1>6. \A k \in 1 .. Len(catalog[p]) : Handled(p, catalog[p][k])
  <2>1. Len(catalog[p]) - Len(rest) = Len(catalog[p])
    BY <1>1, <1>4
  <2> QED
    BY <2>1, <1>5
<1>7. Holds(p, selected)
  <2> SUFFICES ASSUME NEW b \in BundlesOf(p), WantsAll(p) \/ (InOrder(p) /\ Hit(p, b))
               PROVE  b \in selected
    BY DEF Holds
  <2>1. PICK o \in ToSet(catalog[p]) : o.schema = "olm.bundle" /\ o.name = b
    BY DEF BundlesOf, NamesIn, ObjectsOf
  <2>2. PICK k \in 1 .. Len(catalog[p]) : catalog[p][k] = o
    BY <1>4, Placed
  <2> QED
    BY <2>1, <2>2, <1>6 DEF Handled
<1>8. todo \in Seq(ToBeRead) /\ result = "none"
  BY <1>1 DEF TypeInv
<1>9. Tail(todo) \in Seq(ToBeRead) /\ ToSet(todo) = {p} \cup ToSet(Tail(todo))
  BY <1>2, <1>5, <1>8, HeadTail
<1>10. TypeInv'
  BY <1>1, <1>3, <1>8, <1>9 DEF TypeInv, kept
<1>11. \A q : Holds(q, relatedImages) => Holds(q, relatedImages')
  BY <1>1 DEF Holds
<1>12. Holds(p, relatedImages')
  BY <1>1, <1>7 DEF Holds
<1>13. \A q : Holds(q, relatedImages)' <=> Holds(q, relatedImages')
  BY <1>3
<1>14. \A b \in relatedImages' : \E q \in DOMAIN catalog : b \in BundlesOf(q) /\ Due(q, b)
  BY <1>1, <1>5 DEF ReadInv, PassSound
<1>15. \A q \in ToBeRead : q \in ToSet(todo') \/ (q \in DOMAIN catalog /\ Holds(q, relatedImages'))
  BY <1>1, <1>9, <1>11, <1>12 DEF ReadInv
<1>16. ReadInv'
  BY <1>3, <1>13, <1>14, <1>15 DEF ReadInv
<1> QED
  BY <1>1, <1>10, <1>16 DEF CatalogInv, ScanInv

\* When nothing is left to be read everything was.
LEMMA ReturnStep ==
    ASSUME CatalogInv, Return
    PROVE  CatalogInv'
<1>1. /\ TypeInv /\ ReadInv /\ UNCHANGED kept /\ UNCHANGED <<todo, relatedImages>>
      /\ pc = "read" /\ todo = <<>> /\ pc' = "done" /\ result' = "ok"
  BY DEF CatalogInv, Return, input, kept
<1>2. /\ ToBeRead' = ToBeRead /\ catalog' = catalog
      /\ \A q : BundlesOf(q)' = BundlesOf(q)
      /\ \A q, b : Due(q, b)' = Due(q, b)
      /\ \A q, S : Holds(q, S)' = Holds(q, S)
  BY <1>1, Kept DEF kept
<1> QED
  BY <1>1, <1>2 DEF CatalogInv, TypeInv, ReadInv, ScanInv, kept

\* CatalogInv holds in every state: what was collected is due, and what was
\* read is collected.
THEOREM CatalogInvariance == Spec => []CatalogInv
<1>1. Init => CatalogInv
  BY DEF Init, CatalogInv, TypeInv, ReadInv, ScanInv
<1>2. ASSUME CatalogInv, [Next]_vars PROVE CatalogInv'
  <2>1. CASE UNCHANGED vars
    <3>1. UNCHANGED kept /\ UNCHANGED <<pc, todo, rest, defaultChannel, bundles, selected, relatedImages, result>>
      BY <2>1 DEF vars, input, pass, kept
    <3>2. /\ ToBeRead' = ToBeRead /\ catalog' = catalog /\ Unfiltered' = Unfiltered
          /\ \A q : InOrder(q)' = InOrder(q) /\ WantsAll(q)' = WantsAll(q)
          /\ \A q, o : Hits(q, o)' = Hits(q, o)
          /\ \A q : BundlesOf(q)' = BundlesOf(q)
          /\ \A q, b : Due(q, b)' = Due(q, b) /\ Hit(q, b)' = Hit(q, b)
          /\ \A q, S : Holds(q, S)' = Holds(q, S)
      BY <3>1, Kept DEF kept
    <3>3. TypeInv' /\ ReadInv'
      BY <1>2, <3>1, <3>2 DEF CatalogInv, TypeInv, ReadInv, kept
    <3>4. \A q : Suffix(q)' = Suffix(q)
      BY <3>1, <3>2 DEF Suffix
    <3>5. \A q : PassSound(q)' = PassSound(q)
      BY <3>1, <3>2 DEF PassSound, Objects
    <3>6. \A q, o : Handled(q, o)' = Handled(q, o)
      BY <3>1, <3>2 DEF Handled
    <3> QED
      BY <1>2, <3>1, <3>2, <3>3, <3>4, <3>5, <3>6 DEF CatalogInv, ScanInv
  <2>2. CASE Next
    BY <1>2, <2>1, <2>2, CompileStep, ListStep, ReadStep, ScanPackageStep, ScanChannelStep,
       ScanBundleStep, NextPackageStep, ReturnStep DEF Next, Finished
  <2> QED
    BY <1>2, <2>1, <2>2
<1> QED
  BY <1>1, <1>2, PTL DEF Spec

-----------------------------------------------------------------------------
(***************************************************************************)
(* What was asked for is what is mirrored.                                 *)
(***************************************************************************)
\* After a run without error every package was read, and what was chosen of
\* it is what is due.
LEMMA AllRead ==
    ASSUME CatalogInv, result = "ok", NEW p \in ToBeRead
    PROVE  p \in DOMAIN catalog /\ Holds(p, relatedImages) /\ \A b \in Chosen(p) : Due(p, b)
<1>1. TypeInv /\ ReadInv /\ todo = <<>>
  BY DEF CatalogInv, TypeInv
<1>2. p \in DOMAIN catalog /\ Holds(p, relatedImages)
  BY <1>1 DEF ReadInv, ToSet
<1>3. ASSUME NEW b \in Chosen(p) PROVE Due(p, b)
  <2>1. PICK q \in DOMAIN catalog : b \in BundlesOf(q) /\ Due(q, b)
    BY <1>1 DEF ReadInv, Chosen
  <2>2. b \in BundlesOf(p)
    BY DEF Chosen
  <2>3. p = q
    BY <1>1, <1>2, <2>1, <2>2, FileFacts
  <2> QED
    BY <2>1, <2>3
<1> QED
  BY <1>2, <1>3

\* Whoever configures a package has configured packages.
LEMMA ConfiguredIsRead ==
    ASSUME TypeInv, NEW p \in Configured
    PROVE  ~Unfiltered /\ p \in ToBeRead
BY DEF Unfiltered, Configured, ToBeRead

\* Every channel of a well-formed package has one head that is found.
LEMMA HeadFound ==
    ASSUME TypeInv, NEW p \in DOMAIN catalog, WellFormed(p), NEW o \in Channels(p)
    PROVE  /\ Parses(o.entries)
           /\ \E b \in BundlesOf(p) : semverFindMax(o.entries) = {b} /\ IsHead(b, ToSet(o.entries))
<1>1. o.entries \in Seq(BundlesOf(p)) /\ o.entries # <<>>
  BY FileFacts DEF Valid, Channels, Objects, BundlesOf
<1>2. ToSet(o.entries) \subseteq BundlesOf(p)
  BY HitsAreBundles
<1>3. Versioned(o.entries)
  <2>1. o.entries \in Seq(ToSet(o.entries))
    BY <1>1 DEF ToSet
  <2> QED
    BY <2>1, <1>2, FileFacts DEF Versioned
<1>4. Parses(o.entries)
  BY <1>1 DEF Parses, WellFormed
<1>5. PICK b : semverFindMax(o.entries) = {b} /\ IsHead(b, ToSet(o.entries))
  BY <1>1, <1>3, <1>4, MaxIsHead
<1>6. b \in BundlesOf(p)
  BY <1>2, <1>5 DEF IsHead
<1> QED
  BY <1>4, <1>5, <1>6

\* A package filtered by a channel gets bundles of that channel only, and none
\* outside of the range, in whatever order a catalog has its objects.
THEOREM RangeIsRespected == Spec => []RangeRespected
<1>1. ASSUME CatalogInv PROVE RangeRespected
  <2> SUFFICES ASSUME result = "ok", NEW p \in Configured,
                      Filter(p).channel # NoChannel, ~Filter(p).full, NEW b \in Chosen(p)
               PROVE  /\ b \in Channel(p, Filter(p).channel)
                      /\ Filter(p).min # None => ver[b] >= Filter(p).min
                      /\ Filter(p).max # None => ver[b] <= Filter(p).max
    BY DEF RangeRespected
  <2>1. TypeInv
    BY <1>1 DEF CatalogInv
  <2>2. ~Unfiltered /\ p \in ToBeRead
    BY <2>1, ConfiguredIsRead
  <2>3. p \in DOMAIN catalog /\ Due(p, b)
    BY <1>1, <2>2, AllRead
  <2>4. PICK o \in Channels(p) : b \in Hits(p, o)
    BY <2>2, <2>3 DEF Due, WantsAll, Hit
  <2>5. o.name = Filter(p).channel /\ b \in semverFindRange(o.entries, Filter(p).min, Filter(p).max)
    BY <2>2, <2>4 DEF Hits
  <2>6. b \in ToSet(o.entries)
    BY <2>5, FoundInEntries
  <2>7. b \in Channel(p, Filter(p).channel)
    BY <2>4, <2>5, <2>6 DEF Channel, Channels
  <2>8. ver[b] \in Nat \cup {Malformed}
    BY <2>1, <2>3, FileFacts DEF Chosen
  <2>9. Filter(p).min \in Bound /\ Filter(p).max \in Bound
    BY <2>1, FilterFacts DEF FilterType
  <2> QED
    BY <2>5, <2>7, <2>8, <2>9 DEF semverFindRange, Bound, None, Malformed
<1> QED
  BY <1>1, CatalogInvariance, PTL

\* Every bundle strictly inside of the range is selected from a catalog in
\* order, and every bundle of a package when full is set.
THEOREM InsideIsSelected == Spec => []InsideSelected
<1>1. ASSUME CatalogInv PROVE InsideSelected
  <2> SUFFICES ASSUME result = "ok", NEW p \in Configured
               PROVE  LET f == Filter(p)
                      IN /\ f.full => Chosen(p) = BundlesOf(p)
                         /\ f.channel # NoChannel /\ Malformed \notin {f.min, f.max} /\ InOrder(p) /\ WellFormed(p) =>
                                \A b \in Channel(p, f.channel) :
                                    /\ ver[b] > (IF f.min = None THEN 0 ELSE f.min)
                                    /\ ver[b] <= (IF f.max = None THEN Nines ELSE f.max)
                                    => b \in Chosen(p)
    BY DEF InsideSelected
  <2>1. TypeInv
    BY <1>1 DEF CatalogInv
  <2>2. ~Unfiltered /\ p \in ToBeRead
    BY <2>1, ConfiguredIsRead
  <2>3. p \in DOMAIN catalog /\ Holds(p, relatedImages)
    BY <1>1, <2>2, AllRead
  <2>4. ASSUME Filter(p).full PROVE Chosen(p) = BundlesOf(p)
    BY <2>2, <2>3, <2>4 DEF Holds, WantsAll, Chosen
  <2>5. ASSUME Filter(p).channel # NoChannel, Malformed \notin {Filter(p).min, Filter(p).max},
               InOrder(p), WellFormed(p), NEW b \in Channel(p, Filter(p).channel),
               ver[b] > (IF Filter(p).min = None THEN 0 ELSE Filter(p).min),
               ver[b] <= (IF Filter(p).max = None THEN Nines ELSE Filter(p).max)
        PROVE  b \in Chosen(p)
    <3>1. PICK o \in Channels(p) : o.name = Filter(p).channel /\ b \in ToSet(o.entries)
      BY DEF Channel, Channels
    <3>2. Parses(o.entries) /\ b \in BundlesOf(p)
      BY <2>1, <2>3, <2>5, <3>1, HeadFound, HitsAreBundles
    <3>3. b \in semverFindRange(o.entries, Filter(p).min, Filter(p).max)
      BY <2>5, <3>1, <3>2 DEF semverFindRange
    <3>4. Hit(p, b)
      BY <2>2, <2>5, <3>1, <3>3 DEF Hit, Hits
    <3> QED
      BY <2>3, <2>5, <3>2, <3>4 DEF Holds, Chosen
  <2> QED
    BY <2>4, <2>5
<1> QED
  BY <1>1, CatalogInvariance, PTL

\* Where no channel is asked for, heads are selected: one of the default
\* channel without packages, one of every channel of a package without
\* channels, and nothing else.
THEOREM HeadsAreSelected == Spec => []HeadsSelected
<1>1. ASSUME CatalogInv, result = "ok" PROVE HeadOfDefault
  <2> SUFFICES ASSUME Unfiltered, NEW p \in ToSet(Packages), InOrder(p), WellFormed(p)
               PROVE  \E o \in Objects(p, "olm.package") : \E b \in Chosen(p) :
                          Chosen(p) = {b} /\ IsHead(b, Channel(p, o.default))
    BY DEF HeadOfDefault
  <2>1. TypeInv
    BY <1>1 DEF CatalogInv
  <2>2. flat
    <3>1. "label" \notin DOMAIN catalog
      BY <2>1, FilterAssumption DEF TypeInv
    <3>2. ~flat => "label" \in ToBeRead
      BY DEF ToBeRead
    <3> QED
      BY <1>1, <3>1, <3>2, AllRead
  <2>3. p \in ToBeRead
    BY <2>2 DEF ToBeRead
  <2>4. p \in DOMAIN catalog /\ Holds(p, relatedImages) /\ \A b \in Chosen(p) : Due(p, b)
    BY <1>1, <2>3, AllRead
  <2>5. Valid(catalog[p])
    BY <2>1, <2>4, FileFacts
  <2>6. PICK x : Objects(p, "olm.package") = {x} /\ \E ch \in Channels(p) : ch.name = x.default
    BY <2>5 DEF Valid, Objects, Channels
  <2>7. PICK ch \in Channels(p) : ch.name = x.default
    BY <2>6
  <2>8. \A y \in Channels(p) : y.name = x.default => y = ch
    BY <2>5, <2>7 DEF Valid, Objects, Channels
  <2>9. PICK b \in BundlesOf(p) : semverFindMax(ch.entries) = {b} /\ IsHead(b, ToSet(ch.entries))
    BY <2>1, <2>4, HeadFound
  <2>10. Hits(p, ch) = {b}
    BY <2>6, <2>7, <2>9 DEF Hits
  <2>11. \A y \in Channels(p) : y # ch => Hits(p, y) = {}
    BY <2>6, <2>8 DEF Hits
  <2>12. \A c : Due(p, c) <=> c = b
    BY <2>10, <2>11 DEF Due, WantsAll, Hit
  <2>13. b \in Chosen(p) /\ Chosen(p) = {b}
    BY <2>4, <2>12 DEF Holds, Due, WantsAll, Chosen
  <2>14. Channel(p, x.default) = ToSet(ch.entries)
    BY <2>7, <2>8 DEF Channel, Channels
  <2> QED
    BY <2>6, <2>9, <2>13, <2>14
<1>2. ASSUME CatalogInv, result = "ok" PROVE HeadsOfAllChannels
  <2> SUFFICES ASSUME NEW p \in Configured, Filter(p) = NoFilter, InOrder(p), WellFormed(p)
               PROVE  LET channels == {ToSet(o.entries) : o \in Objects(p, "olm.channel")}
                      IN /\ \A S \in channels : \E b \in Chosen(p) : IsHead(b, S)
                         /\ \A b \in Chosen(p) : \E S \in channels : IsHead(b, S)
    BY DEF HeadsOfAllChannels
  <2>1. TypeInv
    BY <1>2 DEF CatalogInv
  <2>2. ~Unfiltered /\ p \in ToBeRead
    BY <2>1, ConfiguredIsRead
  <2>3. p \in DOMAIN catalog /\ Holds(p, relatedImages) /\ \A b \in Chosen(p) : Due(p, b)
    BY <1>2, <2>2, AllRead
  <2>4. \A o \in Channels(p) : Hits(p, o) = semverFindMax(o.entries)
    BY <2>2 DEF Hits, NoFilter
  <2>5. ~WantsAll(p)
    BY DEF WantsAll, NoFilter
  <2>6. ASSUME NEW o \in Channels(p) PROVE \E b \in Chosen(p) : IsHead(b, ToSet(o.entries))
    <3>1. PICK b \in BundlesOf(p) : semverFindMax(o.entries) = {b} /\ IsHead(b, ToSet(o.entries))
      BY <2>1, <2>3, HeadFound
    <3>2. b \in Chosen(p)
      BY <2>3, <2>4, <3>1 DEF Holds, Hit, Chosen
    <3> QED
      BY <3>1, <3>2
  <2>7. ASSUME NEW b \in Chosen(p) PROVE \E o \in Channels(p) : IsHead(b, ToSet(o.entries))
    <3>1. PICK o \in Channels(p) : b \in Hits(p, o)
      BY <2>3, <2>5 DEF Due, Hit
    <3>2. PICK c \in BundlesOf(p) : semverFindMax(o.entries) = {c} /\ IsHead(c, ToSet(o.entries))
      BY <2>1, <2>3, HeadFound
    <3> QED
      BY <2>4, <3>1, <3>2
  <2> QED
    BY <2>6, <2>7 DEF Channels
<1>3. CatalogInv => HeadsSelected
  BY <1>1, <1>2 DEF HeadsSelected
<1> QED
  BY <1>3, CatalogInvariance, PTL
=============================================================================
