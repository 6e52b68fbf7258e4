------------------------------- MODULE DifferProofs -------------------------------
(***************************************************************************)
(* DeleteImages for every set of configurations and any number of calls,   *)
(* edits and kills.  The record: the list on disk is in order at every     *)
(* point, and the configuration compared with is the one that was applied  *)
(* last.  The difference: what calculateDiff leaves as stale is what was   *)
(* dropped.                                                                *)
(***************************************************************************)
EXTENDS Differ, TLAPS

Item == [value : Nat, current : BOOLEAN]

\* The list s is numbered, and only its last item may be current.
Numbered(s) ==
    \A k \in DOMAIN s : s[k].value = k - 1 /\ (s[k].current => k = Len(s))

\* The first n configurations recorded can be read.
Readable(n) == \A j \in 1 .. n : ~ReadConfig(iscs[j - 1]).err

\* The two lists.  A call adds at most one item, so there is a file for it.
ListsInv ==
    /\ meta = "absent" \/ meta \in Seq(Item)
    /\ sch \in Seq(Item)
    /\ DOMAIN iscs = 0 .. MaxRuns
    /\ run \in 0 .. MaxRuns
    /\ Numbered(Items) /\ Numbered(sch)
    /\ Len(Items) <= run
    /\ pc # "idle" => Len(sch) < run
    /\ pc \notin {"idle", "truncate", "isc"} => Len(Items) < run

\* What is known of the files at each step of a call: the list in memory has
\* only readable configurations, also while the list on disk is rewritten.
StepInv ==
    /\ pc \in {"idle", "metadata", "diff", "delete", "create"} \cup Writing
    /\ pc = "metadata" => sch = <<>>
    /\ pc # "idle" => Readable(Len(sch))
    /\ pc \in {"truncate", "isc"} => meta = New
    /\ \A k \in CurrentItems : Readable(k - 1)

\* The record is intact: the current item is that of the last call that
\* recorded its configuration.
IntactInv ==
    /\ torn \in BOOLEAN
    /\ ~torn /\ pc \notin Writing => CurrentItems = {} \/ iscs[Len(Items) - 1] = applied
    /\ ~torn /\ pc = "diff" => prev = ReadConfig(applied).cfg

DifferInv == ListsInv /\ StepInv /\ IntactInv

-----------------------------------------------------------------------------
(***************************************************************************)
(* The difference of two configurations.                                   *)
(***************************************************************************)
\* The configurations that a file can be read as.
Known == {ReadConfig(f).cfg : f \in Files}

\* Reading changes nothing that is compared.
LEMMA AsConfigured ==
    ASSUME NEW x \in Known
    PROVE  \E y \in Configs \cup {EmptyConfig} :
               /\ x.channels = y.channels /\ x.operators = y.operators
               /\ x.additionalImages = y.additionalImages
<1>1. PICK f \in Files : x = ReadConfig(f).cfg
  BY DEF Known
<1>2. CASE f = Unreadable
  <2>1. f.data = "unreadable"
    BY <1>2 DEF Unreadable
  <2>2. x = EmptyConfig
    BY <1>1, <2>1 DEF ReadConfig
  <2> QED
    BY <2>2
<1>3. ASSUME NEW y \in Configs, f = [data |-> "strict", cfg |-> y] PROVE x = Complete(y)
  <2>1. f.data = "strict" /\ f.cfg = y
    BY <1>3
  <2> QED
    BY <1>1, <2>1 DEF ReadConfig
<1>4. ASSUME NEW y \in Configs
      PROVE  /\ Complete(y).channels = y.channels /\ Complete(y).operators = y.operators
             /\ Complete(y).additionalImages = y.additionalImages
  <2>1. DOMAIN y = DOMAIN EmptyConfig
    BY DifferAssumption
  <2> QED
    BY <2>1 DEF Complete, EmptyConfig
<1> QED
  BY <1>1, <1>2, <1>3, <1>4 DEF Files

\* What the assumption says of configurations holds of what was read.
LEMMA KnownFacts ==
    ASSUME NEW x \in Known
    PROVE  /\ x.channels \in Seq(ToSet(x.channels)) /\ x.operators \in Seq(ToSet(x.operators))
           /\ x.additionalImages \in Seq(ToSet(x.additionalImages))
           /\ \A k \in DOMAIN x.operators :
                  x.operators[k].packages \in Seq(ToSet(x.operators[k].packages))
           /\ CatalogsOf(x.operators) \cup NamesOf(x.additionalImages) \subseteq ImageNames
           /\ (NamesOf(x.channels) \cup PackagesOf(x.operators)) \cap ImageNames = {}
<1>1. PICK y \in Configs \cup {EmptyConfig} :
          /\ x.channels = y.channels /\ x.operators = y.operators
          /\ x.additionalImages = y.additionalImages
  BY AsConfigured
<1>2. CASE y \in Configs
  <2>1. /\ y.channels \in Seq(ToSet(y.channels)) /\ y.operators \in Seq(ToSet(y.operators))
        /\ y.additionalImages \in Seq(ToSet(y.additionalImages))
        /\ \A k \in DOMAIN y.operators :
               y.operators[k].packages \in Seq(ToSet(y.operators[k].packages))
        /\ CatalogsOf(y.operators) \cup NamesOf(y.additionalImages) \subseteq ImageNames
        /\ (NamesOf(y.channels) \cup PackagesOf(y.operators)) \cap ImageNames = {}
    BY <1>2, DifferAssumption
  <2> QED
    BY <1>1, <2>1
<1>3. CASE y = EmptyConfig
  <2>1. x.channels = <<>> /\ x.operators = <<>> /\ x.additionalImages = <<>>
    BY <1>1, <1>3 DEF EmptyConfig
  <2>2. NamesOf(<<>>) = {} /\ CatalogsOf(<<>>) = {} /\ PackagesOf(<<>>) = {}
    BY DEF NamesOf, CatalogsOf, PackagesOf
  <2> QED
    BY <2>1, <2>2
<1> QED
  BY <1>2, <1>3

\* A write to n is the last word on n if only "previous" is written after it.
Final(w, W) == w.from = "previous" /\ \A v \in W : v.name = w.name /\ Later(v, w) => v.from = "previous"

\* Of two writes in one turn of the outer loops the one further on is later.
LEMMA LaterInTurn ==
    ASSUME NEW v, NEW w, NEW s, NEW i, NEW j, NEW a, NEW b \in Int, NEW c \in Int, b > c,
           v.at = <<s, i, j, a, b>>, w.at = <<s, i, j, a, c>>
    PROVE  Later(v, w)
<1>1. 5 \in 1 .. 5 /\ v.at[5] > w.at[5] /\ \A k \in 1 .. 5 - 1 : v.at[k] = w.at[k]
  OBVIOUS
<1> QED
  BY <1>1 DEF Later

\* The same of the loop over the current catalogs.
LEMMA LaterTurn ==
    ASSUME NEW v, NEW w, NEW s, NEW i, NEW a, NEW b, NEW c, NEW d,
           NEW j \in Int, NEW k \in Int, j > k,
           v.at = <<s, i, j, a, b>>, w.at = <<s, i, k, c, d>>
    PROVE  Later(v, w)
<1>1. 3 \in 1 .. 5 /\ v.at[3] > w.at[3] /\ \A m \in 1 .. 3 - 1 : v.at[m] = w.at[m]
  OBVIOUS
<1> QED
  BY <1>1 DEF Later

\* Where an object is looked for, "previous" is the last word on a name only if
\* no current object has it.
LEMMA LookForFinal ==
    ASSUME NEW s, NEW i, NEW j, NEW previous, NEW current, current \in Seq(ToSet(current)),
           NEW w \in LookFor(<<s, i, j>>, previous, current), Final(w, LookFor(<<s, i, j>>, previous, current))
    PROVE  w.name \in NamesOf(previous) \ NamesOf(current)
<1>1. PICK a \in DOMAIN previous : w = Write(<<s, i, j, a, 0>>, previous[a].name, "previous")
  BY DEF LookFor, Final, Write
<1>2. w.name \in NamesOf(previous) /\ w.at = <<s, i, j, a, 0>>
  BY <1>1 DEF Write, NamesOf
<1>3. ASSUME NEW b \in DOMAIN current, current[b].name = w.name PROVE FALSE
  <2> DEFINE v == Write(<<s, i, j, a, b>>, current[b].name,
                        IF current[b] = previous[a] THEN "both" ELSE "current")
  <2>1. v \in LookFor(<<s, i, j>>, previous, current)
    <3> DEFINE hit(at, x, y) == Write(<<at[1], at[2], at[3], x, y>>, current[y].name,
                                      IF current[y] = previous[x] THEN "both" ELSE "current")
               at == <<s, i, j>>
    <3>1. hit(at, a, b) \in LookFor(at, previous, current)
      <4> HIDE DEF at
      <4>1. {hit(at, x, y) : x \in DOMAIN previous, y \in DOMAIN current} \subseteq LookFor(at, previous, current)
        BY DEF LookFor
      <4> HIDE DEF hit
      <4>2. hit(at, a, b) \in {hit(at, x, y) : x \in DOMAIN previous, y \in DOMAIN current}
        BY <1>1
      <4> QED
        BY <4>1, <4>2
    <3>2. <<s, i, j>>[1] = s /\ <<s, i, j>>[2] = i /\ <<s, i, j>>[3] = j
      OBVIOUS
    <3> QED
      BY <3>1, <3>2
  <2>2. v.name = w.name /\ v.from # "previous" /\ v.at = <<s, i, j, a, b>>
    BY <1>3 DEF Write
  <2>3. b \in Int /\ b > 0
    OBVIOUS
  <2> HIDE DEF v
  <2>4. Later(v, w)
    BY <1>2, <2>2, <2>3, LaterInTurn
  <2> QED
    BY <2>1, <2>2, <2>4 DEF Final
<1> QED
  BY <1>2, <1>3 DEF NamesOf

\* A stale name was configured, and is not where it was looked for.
LEMMA StaleWasDropped ==
    ASSUME NEW old \in Known, NEW new \in Known, NEW n \in Stale(old, new)
    PROVE  \/ n \in NamesOf(old.channels) \ NamesOf(new.channels)
           \/ n \in CatalogsOf(old.operators) \ CatalogsOf(new.operators)
           \/ \E i \in DOMAIN old.operators, j \in DOMAIN new.operators :
                  n \in NamesOf(old.operators[i].packages) \ NamesOf(new.operators[j].packages)
           \/ n \in NamesOf(old.additionalImages) \ NamesOf(new.additionalImages)
<1> DEFINE W == calculateDiff(old, new)
<1>1. PICK w \in W : w.name = n /\ Final(w, W)
  BY DEF Stale, Final
<1>2. \A V \in SUBSET W : Final(w, V)
  BY <1>1 DEF Final
<1>3. ASSUME w \in LookFor(<<1, 0, 0>>, old.channels, new.channels)
      PROVE  n \in NamesOf(old.channels) \ NamesOf(new.channels)
  <2>1. Final(w, LookFor(<<1, 0, 0>>, old.channels, new.channels))
    BY <1>2 DEF calculateDiff
  <2> QED
    BY <1>1, <1>3, <2>1, KnownFacts, LookForFinal
<1>4. ASSUME w \in LookFor(<<3, 0, 0>>, old.additionalImages, new.additionalImages)
      PROVE  n \in NamesOf(old.additionalImages) \ NamesOf(new.additionalImages)
  <2>1. Final(w, LookFor(<<3, 0, 0>>, old.additionalImages, new.additionalImages))
    BY <1>2 DEF calculateDiff
  <2> QED
    BY <1>1, <1>4, <2>1, KnownFacts, LookForFinal
<1>5. ASSUME NEW i \in DOMAIN old.operators,
             w = Write(<<2, i, 0, 0, 0>>, old.operators[i].catalog, "previous")
      PROVE  n \in CatalogsOf(old.operators) \ CatalogsOf(new.operators)
  <2>1. n = old.operators[i].catalog /\ w.at = <<2, i, 0, 0, 0>>
    BY <1>1, <1>5 DEF Write
  <2>2. ASSUME NEW j \in DOMAIN new.operators, new.operators[j].catalog = n PROVE FALSE
    <3> DEFINE v == Write(<<2, i, j, 0, 0>>, new.operators[j].catalog, "current")
    <3>1. v \in CompareOperator(i, j, old.operators[i], new.operators[j])
      BY DEF CompareOperator
    <3>2. v \in W
      BY <3>1 DEF calculateDiff, CompareOperators
    <3>3. v.name = n /\ v.from # "previous" /\ v.at = <<2, i, j, 0, 0>>
      BY <2>2 DEF Write
    <3>4. j \in Int /\ j > 0
      BY KnownFacts
    <3> HIDE DEF v, W
    <3>5. Later(v, w)
      BY <2>1, <3>3, <3>4, LaterTurn
    <3> QED
      BY <1>1, <3>2, <3>3, <3>5 DEF Final
  <2> QED
    BY <2>1, <2>2 DEF CatalogsOf
<1>6. ASSUME NEW i \in DOMAIN old.operators, NEW j \in DOMAIN new.operators,
             w \in CompareOperator(i, j, old.operators[i], new.operators[j])
      PROVE  n \in NamesOf(old.operators[i].packages) \ NamesOf(new.operators[j].packages)
  <2> DEFINE V == LookFor(<<2, i, j>>, old.operators[i].packages, new.operators[j].packages)
  <2>1. w \in V
    BY <1>1, <1>6 DEF CompareOperator, Final, Write
  <2>2. V \subseteq W
    <3>1. V \subseteq CompareOperator(i, j, old.operators[i], new.operators[j])
      BY DEF CompareOperator
    <3> HIDE DEF V
    <3>2. CompareOperator(i, j, old.operators[i], new.operators[j])
          \subseteq CompareOperators(old.operators, new.operators)
      BY DEF CompareOperators
    <3> QED
      BY <3>1, <3>2 DEF calculateDiff
  <2>3. Final(w, V)
    BY <1>2, <2>2
  <2>4. new.operators[j].packages \in Seq(ToSet(new.operators[j].packages))
    BY KnownFacts
  <2> QED
    BY <1>1, <2>1, <2>3, <2>4, LookForFinal
<1>7. ASSUME w \in CompareOperators(old.operators, new.operators)
      PROVE  \/ \E i \in DOMAIN old.operators :
                    w = Write(<<2, i, 0, 0, 0>>, old.operators[i].catalog, "previous")
             \/ \E i \in DOMAIN old.operators, j \in DOMAIN new.operators :
                    w \in CompareOperator(i, j, old.operators[i], new.operators[j])
  BY <1>7 DEF CompareOperators
<1>8. \/ w \in LookFor(<<1, 0, 0>>, old.channels, new.channels)
      \/ w \in CompareOperators(old.operators, new.operators)
      \/ w \in LookFor(<<3, 0, 0>>, old.additionalImages, new.additionalImages)
  BY <1>1 DEF calculateDiff
<1> HIDE DEF W
<1> QED
  BY <1>3, <1>4, <1>5, <1>6, <1>7, <1>8

\* Every write to a name that is none of the new configuration is "previous".
LEMMA GoneIsStale ==
    ASSUME NEW old \in Known, NEW new \in Known, NEW n \in Gone(old, new)
    PROVE  n \in Stale(old, new)
<1> DEFINE W == calculateDiff(old, new)
<1>1. \/ n \in NamesOf(old.additionalImages) \ NamesOf(new.additionalImages)
      \/ n \in CatalogsOf(old.operators) \ CatalogsOf(new.operators)
  BY DEF Gone, Dropped
<1>2. /\ n \notin NamesOf(new.additionalImages) /\ n \notin CatalogsOf(new.operators)
      /\ n \notin NamesOf(new.channels) /\ n \notin PackagesOf(new.operators)
  BY <1>1, KnownFacts DEF Gone
<1>3. \A s, previous, current : \A v \in LookFor(s, previous, current) :
          v.from = "previous" \/ v.name \in NamesOf(current)
  BY DEF LookFor, Write, NamesOf
<1>4. ASSUME NEW i \in DOMAIN old.operators, NEW j \in DOMAIN new.operators,
             NEW v \in CompareOperator(i, j, old.operators[i], new.operators[j])
      PROVE  v.from = "previous" \/ v.name \in CatalogsOf(new.operators) \cup PackagesOf(new.operators)
  <2>1. new.operators[j].catalog \in CatalogsOf(new.operators)
    BY DEF CatalogsOf
  <2>2. NamesOf(new.operators[j].packages) \subseteq PackagesOf(new.operators)
    BY DEF PackagesOf
  <2>3. CASE v \in LookFor(<<2, i, j>>, old.operators[i].packages, new.operators[j].packages)
    BY <1>3, <2>2, <2>3
  <2>4. CASE v \notin LookFor(<<2, i, j>>, old.operators[i].packages, new.operators[j].packages)
    <3>1. v.name = new.operators[j].catalog
      BY <1>4, <2>4 DEF CompareOperator, Write
    <3> QED
      BY <2>1, <3>1
  <2> QED
    BY <2>3, <2>4
<1>5. ASSUME NEW v \in W, v.name = n PROVE v.from = "previous"
  <2>1. CASE v \in LookFor(<<1, 0, 0>>, old.channels, new.channels)
    BY <1>2, <1>3, <1>5, <2>1
  <2>2. CASE v \in LookFor(<<3, 0, 0>>, old.additionalImages, new.additionalImages)
    BY <1>2, <1>3, <1>5, <2>2
  <2>3. CASE v \in CompareOperators(old.operators, new.operators)
    BY <1>2, <1>4, <1>5, <2>3 DEF CompareOperators, Write
  <2> QED
    BY <1>5, <2>1, <2>2, <2>3 DEF calculateDiff
<1>6. \E w \in W : w.name = n /\ w.from = "previous"
  <2>1. ASSUME NEW i \in DOMAIN old.additionalImages, n = old.additionalImages[i].name
        PROVE  \E w \in W : w.name = n /\ w.from = "previous"
    <3> DEFINE w == Write(<<3, 0, 0, i, 0>>, old.additionalImages[i].name, "previous")
    <3>1. w \in LookFor(<<3, 0, 0>>, old.additionalImages, new.additionalImages)
      BY DEF LookFor
    <3>2. w \in W /\ w.name = n /\ w.from = "previous"
      BY <2>1, <3>1 DEF calculateDiff, Write
    <3> QED
      BY <3>2
  <2>2. ASSUME NEW i \in DOMAIN old.operators, n = old.operators[i].catalog
        PROVE  \E w \in W : w.name = n /\ w.from = "previous"
    <3> DEFINE w == Write(<<2, i, 0, 0, 0>>, old.operators[i].catalog, "previous")
    <3>1. w \in W /\ w.name = n /\ w.from = "previous"
      BY <2>2 DEF calculateDiff, CompareOperators, Write
    <3> QED
      BY <3>1
  <2> QED
    BY <1>1, <2>1, <2>2 DEF NamesOf, CatalogsOf
<1> HIDE DEF W
<1>7. PICK w \in W : w.name = n /\ w.from = "previous" /\ \A v \in W : v.name = n => v.from = "previous"
  BY <1>5, <1>6
<1> USE DEF W
<1> QED
  BY <1>7 DEF Stale

\* If all that is stale can be deleted, it was dropped, and what is gone is in it.
LEMMA StaleIsDropped ==
    ASSUME NEW old \in Known, NEW new \in Known, Stale(old, new) \subseteq ImageNames
    PROVE  Gone(old, new) \subseteq Stale(old, new) /\ Stale(old, new) \subseteq Dropped(old, new)
<1>1. ASSUME NEW n \in Stale(old, new) PROVE n \in Dropped(old, new)
  <2>1. n \notin NamesOf(old.channels) \cup PackagesOf(old.operators)
    BY KnownFacts
  <2>2. \A i \in DOMAIN old.operators : n \notin NamesOf(old.operators[i].packages)
    BY <2>1 DEF PackagesOf
  <2> QED
    BY <2>1, <2>2, StaleWasDropped DEF Dropped
<1> QED
  BY <1>1, GoneIsStale

\* With one catalog, a stale name that cannot be deleted was a channel or a package.
LEMMA OtherNamesDropped ==
    ASSUME NEW old \in Known, NEW new \in Known, ~(Stale(old, new) \subseteq ImageNames),
           Len(new.operators) <= 1
    PROVE  \/ NamesOf(old.channels) \ NamesOf(new.channels) # {}
           \/ PackagesOf(old.operators) \ PackagesOf(new.operators) # {}
<1>1. PICK n \in Stale(old, new) : n \notin ImageNames
  OBVIOUS
<1>2. n \notin CatalogsOf(old.operators) /\ n \notin NamesOf(old.additionalImages)
  BY <1>1, KnownFacts
<1>3. ASSUME NEW i \in DOMAIN old.operators, NEW j \in DOMAIN new.operators,
             n \in NamesOf(old.operators[i].packages) \ NamesOf(new.operators[j].packages)
      PROVE  n \in PackagesOf(old.operators) \ PackagesOf(new.operators)
  <2>1. new.operators \in Seq(ToSet(new.operators))
    BY KnownFacts
  <2>2. \A k \in DOMAIN new.operators : k = j
    BY <2>1
  <2> QED
    BY <1>3, <2>2 DEF PackagesOf
<1> QED
  BY <1>1, <1>2, <1>3, StaleWasDropped

-----------------------------------------------------------------------------
\* One more item at the end of a list.
LEMMA OneMore ==
    ASSUME NEW S, NEW s \in Seq(S), NEW e \in S
    PROVE  /\ s \o <<e>> \in Seq(S) /\ Len(s \o <<e>>) = Len(s) + 1
           /\ \A k \in 1 .. Len(s) : (s \o <<e>>)[k] = s[k]
           /\ (s \o <<e>>)[Len(s) + 1] = e
OBVIOUS

\* The new list: the old one without its current mark, and one item more.
LEMMA NewList ==
    ASSUME sch \in Seq(Item), Numbered(sch)
    PROVE  /\ New \in Seq(Item) /\ Len(New) = Len(sch) + 1
           /\ \A k \in 1 .. Len(New) : New[k].value = k - 1 /\ (New[k].current <=> k = Len(New))
<1> DEFINE old == [k \in DOMAIN sch |-> [sch[k] EXCEPT !.current = FALSE]]
           one == [value |-> Len(sch), current |-> TRUE]
<1>1. Len(sch) \in Nat /\ DOMAIN sch = 1 .. Len(sch) /\ \A k \in 1 .. Len(sch) : sch[k] \in Item
  OBVIOUS
<1>2. \A k \in 1 .. Len(sch) : [sch[k] EXCEPT !.current = FALSE] \in Item
  BY <1>1 DEF Item
<1>3. /\ old \in Seq(Item) /\ Len(old) = Len(sch)
      /\ \A k \in 1 .. Len(sch) : old[k].value = k - 1 /\ old[k].current = FALSE
  BY <1>1, <1>2 DEF Numbered, Item
<1>4. one \in Item /\ one.value = Len(sch) /\ one.current = TRUE
  BY <1>1 DEF Item
<1>5. New = old \o <<one>>
  BY DEF New
<1> HIDE DEF old, one
<1>6. /\ New \in Seq(Item) /\ Len(New) = Len(sch) + 1
      /\ \A k \in 1 .. Len(sch) : New[k] = old[k]
      /\ New[Len(sch) + 1] = one
  <2>1. /\ old \o <<one>> \in Seq(Item) /\ Len(old \o <<one>>) = Len(old) + 1
        /\ \A k \in 1 .. Len(old) : (old \o <<one>>)[k] = old[k]
        /\ (old \o <<one>>)[Len(old) + 1] = one
    <3>1. old \in Seq(Item) /\ one \in Item
      BY <1>3, <1>4
    <3> QED
      BY <3>1, OneMore
  <2>2. Len(old) = Len(sch)
    BY <1>3
  <2> QED
    BY <1>5, <2>1, <2>2, Zenon
<1>7. ASSUME NEW k \in 1 .. Len(New)
      PROVE  New[k].value = k - 1 /\ (New[k].current <=> k = Len(New))
  <2>1. CASE k = Len(New)
    BY <1>1, <1>4, <1>6, <2>1
  <2>2. CASE k # Len(New)
    <3>1. k \in 1 .. Len(sch)
      BY <1>1, <1>6, <2>2
    <3> QED
      BY <1>3, <1>6, <2>2, <3>1
  <2> QED
    BY <2>1, <2>2
<1> QED
  BY <1>6, <1>7

\* A list that was cut.
LEMMA CutList ==
    ASSUME sch \in Seq(Item), Numbered(sch), NEW n \in 0 .. Len(New), NEW s, s = SubSeq(New, 1, n)
    PROVE  /\ s \in Seq(Item) /\ Len(s) = n /\ Numbered(s)
           /\ \A k \in DOMAIN s : s[k].current => k = Len(sch) + 1
<1>1. New \in Seq(Item) /\ Len(New) \in Nat
  BY NewList
<1>2. \A k \in 1 .. Len(New) : New[k].value = k - 1 /\ (New[k].current <=> k = Len(New))
  BY NewList, Zenon
<1>3. s \in Seq(Item) /\ Len(s) = n /\ \A k \in 1 .. n : s[k] = New[k]
  BY <1>1
<1>4. DOMAIN s = 1 .. n
  BY <1>3
<1>5. ASSUME NEW k \in 1 .. n
      PROVE  s[k].value = k - 1 /\ (s[k].current => k = Len(sch) + 1 /\ k = n)
  <2>1. k \in 1 .. Len(New)
    BY <1>1
  <2>2. s[k].value = k - 1 /\ (s[k].current => k = Len(New))
    <3>1. New[k].value = k - 1 /\ (New[k].current <=> k = Len(New))
      BY <2>1, <1>2, Zenon
    <3>2. s[k] = New[k]
      BY <1>3
    <3> QED
      BY <3>1, <3>2, Zenon
  <2> QED
    BY <1>1, <2>2, NewList
<1> QED
  BY <1>3, <1>4, <1>5 DEF Numbered

-----------------------------------------------------------------------------
\* Of a record in order at most the last item is current, and getPreviousISC
\* returns its number.
LEMMA LastIsCurrent ==
    ASSUME ListsInv
    PROVE  /\ Items \in Seq(Item) /\ Items \in {<<>>, meta}
           /\ \A k \in CurrentItems : k = Len(Items) /\ k \in Nat \ {0}
           /\ CurrentItems # {} => Items = meta /\ PreviousISC = Len(Items) - 1
<1>1. Items \in Seq(Item) /\ Items \in {<<>>, meta}
  BY DEF ListsInv, Items
<1>2. DOMAIN Items = 1 .. Len(Items) /\ Len(Items) \in Nat
  BY <1>1
<1>3. \A k \in CurrentItems : k = Len(Items) /\ k \in Nat \ {0} /\ Items[k].value = k - 1
  BY <1>2 DEF ListsInv, Numbered, CurrentItems
<1>4. ASSUME CurrentItems # {} PROVE Items = meta /\ PreviousISC = Len(Items) - 1
  <2>1. CurrentItems = {Len(Items)}
    BY <1>3, <1>4
  <2>2. Items # <<>>
    BY <1>2, <1>3, <1>4
  <2>3. (CHOOSE k \in CurrentItems : \A j \in CurrentItems : j <= k) = Len(Items)
    <3>1. \E k \in CurrentItems : \A j \in CurrentItems : j <= k
      BY <1>2, <2>1
    <3> QED
      BY <2>1, <3>1
  <2> QED
    BY <1>1, <1>3, <2>1, <2>2, <2>3 DEF PreviousISC
<1> QED
  BY <1>1, <1>3, <1>4

\* Nothing of the record changes.
LEMMA SameRecord ==
    ASSUME UNCHANGED <<meta, iscs>>
    PROVE  Items' = Items /\ CurrentItems' = CurrentItems /\ \A n : Readable(n)' = Readable(n)
BY DEF Items, CurrentItems, Readable

\* A piece of the new list, or all of it, is on disk.
LEMMA Rewritten ==
    ASSUME ListsInv, NEW n \in 0 .. Len(New), meta' = SubSeq(New, 1, n)
    PROVE  /\ meta' \in Seq(Item) /\ Numbered(Items)' /\ Len(Items') <= Len(sch) + 1
           /\ Len(Items') \in Nat
           /\ \A k \in CurrentItems' : k = Len(sch) + 1 /\ k = Len(Items')
<1> DEFINE s == meta'
<1>1. /\ s \in Seq(Item) /\ Len(s) = n /\ Numbered(s)
      /\ \A k \in DOMAIN s : s[k].current => k = Len(sch) + 1
  BY CutList, Zenon DEF ListsInv
<1>2. Len(New) = Len(sch) + 1 /\ Len(sch) \in Nat
  BY NewList DEF ListsInv
<1>3. Items' = <<>> \/ Items' = s
  BY DEF Items
<1>4. CASE Items' = <<>>
  BY <1>1, <1>2, <1>4 DEF Numbered, CurrentItems
<1>5. CASE Items' = s
  <2>1. Numbered(Items)' /\ Len(Items') <= Len(sch) + 1 /\ Len(Items') \in Nat
    BY <1>1, <1>2, <1>5 DEF Numbered
  <2>2. \A k \in CurrentItems' : k = Len(sch) + 1 /\ k = Len(Items')
    BY <1>1, <1>5 DEF Numbered, CurrentItems
  <2> QED
    BY <1>1, <2>1, <2>2
<1> QED
  BY <1>3, <1>4, <1>5

\* The configuration of the new item is written, whatever it is, or is not.
OneFile(x) == iscs' = [iscs EXCEPT ![Len(sch)] = x]

\* Writing the file of the new item leaves those of the earlier items alone.
LEMMA FileWritten ==
    ASSUME DifferInv, pc \in {"truncate", "isc"}, pc' \in {"isc", "idle"},
           UNCHANGED <<meta, sch, run>>, \E x : OneFile(x) \/ iscs' = iscs
    PROVE  ListsInv' /\ StepInv'
<1> USE DifferAssumption DEF DifferInv
<1>1. Items' = Items /\ CurrentItems' = CurrentItems /\ New' = New
  BY DEF Items, CurrentItems, New
<1>2. Len(sch) \in Nat /\ Len(sch) < run /\ run \in Nat /\ run <= MaxRuns /\ Len(New) = Len(sch) + 1
  BY NewList DEF ListsInv
<1>3. DOMAIN iscs' = 0 .. MaxRuns /\ \A j \in 1 .. Len(sch) : iscs'[j - 1] = iscs[j - 1]
  BY <1>2 DEF ListsInv, OneFile
<1>4. ListsInv'
  BY <1>1, <1>2, <1>3 DEF ListsInv, Numbered
<1>5. Readable(Len(sch))'
  BY <1>3 DEF StepInv, Readable
<1>6. ASSUME NEW k \in CurrentItems PROVE k - 1 = Len(sch)
  <2>1. k = Len(Items) /\ Items = New
    BY <1>6, LastIsCurrent DEF StepInv
  <2> QED
    BY <1>2, <2>1
<1> QED
  BY <1>1, <1>4, <1>5, <1>6 DEF StepInv, Writing

-----------------------------------------------------------------------------
\* Every step of the caller, the file system and DeleteImages keeps the
\* record in order.
LEMMA DifferStep ==
    ASSUME DifferInv, [Next]_vars
    PROVE  DifferInv'
<1> USE DifferAssumption DEF DifferInv
<1>1. CASE Call
  <2>1. UNCHANGED <<meta, iscs>> /\ run \in Nat /\ run' = run + 1 /\ run' \in 0 .. MaxRuns
    BY <1>1 DEF Call, disk, ListsInv
  <2>2. sch' = <<>> /\ pc' \in {"metadata", "create"} /\ UNCHANGED <<applied, torn>> /\ pc = "idle"
    BY <1>1 DEF Call
  <2>3. ListsInv'
    BY <2>1, <2>2, SameRecord DEF ListsInv, Numbered
  <2>4. StepInv'
    BY <2>1, <2>2, SameRecord DEF StepInv, Readable
  <2>5. IntactInv'
    BY <2>1, <2>2, SameRecord DEF IntactInv, Writing
  <2> QED
    BY <2>3, <2>4, <2>5
<1>2. CASE Edit
  <2>1. UNCHANGED <<meta, iscs, pc, sch, prev, run, applied, torn>>
    BY <1>2 DEF Edit, call, history
  <2>2. New' = New
    BY <2>1 DEF New
  <2> QED
    BY <2>1, <2>2, SameRecord DEF ListsInv, StepInv, IntactInv, Numbered
<1>3. CASE Kill
  <2>1. UNCHANGED <<meta, iscs, sch, prev, run, applied>> /\ pc' = "idle" /\ torn' = (torn \/ pc \in Writing)
    BY <1>3 DEF Kill, Return, disk, call
  <2>2. ListsInv' /\ StepInv'
    BY <2>1, SameRecord DEF ListsInv, StepInv, Numbered
  <2>3. IntactInv'
    BY <2>1, SameRecord DEF IntactInv
  <2> QED
    BY <2>2, <2>3
<1>4. CASE GetAllMetadata
  <2>1. UNCHANGED <<meta, iscs, run, applied, torn>> /\ pc = "metadata"
    BY <1>4 DEF GetAllMetadata, disk, history
  <2>2. CASE CurrentItems # {} /\ ~ReadConfig(iscs[PreviousISC]).err
             /\ sch' = meta /\ prev' = ReadConfig(iscs[PreviousISC]).cfg /\ pc' = "diff"
    <3>1. sch' = Items /\ Items \in Seq(Item) /\ PreviousISC = Len(Items) - 1
      BY <2>2, LastIsCurrent
    <3>2. Len(Items) \in Nat /\ Len(Items) < run
      BY <2>1, <3>1 DEF ListsInv
    <3>3. ListsInv'
      BY <2>1, <2>2, <3>1, <3>2, SameRecord DEF ListsInv, Numbered
    <3>4. Readable(Len(Items))
      BY <2>2, <3>1, <3>2, LastIsCurrent DEF StepInv, Readable
    <3>5. StepInv'
      BY <2>1, <2>2, <3>1, <3>4, SameRecord DEF StepInv, Writing
    <3>6. IntactInv'
      BY <2>1, <2>2, <3>1, SameRecord DEF IntactInv, Writing
    <3> QED
      BY <3>3, <3>5, <3>6
  <2>3. CASE pc' = "idle" /\ UNCHANGED <<sch, prev>>
    BY <2>1, <2>3, SameRecord DEF ListsInv, StepInv, IntactInv, Numbered, Writing
  <2> QED
    BY <1>4, <2>2, <2>3 DEF GetAllMetadata, Return
<1>5. CASE Diff \/ DeleteImage
  <2>1. UNCHANGED <<meta, iscs, sch, prev, run, applied, torn>> /\ pc \in {"diff", "delete"}
        /\ pc' \in {"delete", "create", "idle"}
    BY <1>5 DEF Diff, DeleteImage, Return, disk, history
  <2>2. ListsInv'
    BY <2>1, SameRecord DEF ListsInv, Numbered
  <2>3. StepInv'
    BY <2>1, SameRecord DEF StepInv
  <2>4. IntactInv'
    BY <2>1, SameRecord DEF IntactInv, Writing
  <2> QED
    BY <2>2, <2>3, <2>4
<1>6. CASE WriteCreate
  <2>1. UNCHANGED <<iscs, sch, prev, run, applied, torn>> /\ pc = "create"
    BY <1>6 DEF WriteCreate, call, history
  <2>2. CASE meta' = <<>> /\ pc' = "encode"
    <3>1. Items' = <<>> /\ CurrentItems' = {}
      BY <2>2 DEF Items, CurrentItems
    <3>2. ListsInv'
      BY <2>1, <2>2, <3>1 DEF ListsInv, Numbered
    <3>3. StepInv' /\ IntactInv'
      BY <2>1, <2>2, <3>1 DEF StepInv, IntactInv, Writing, Readable
    <3> QED
      BY <3>2, <3>3
  <2>3. CASE pc' = "idle" /\ UNCHANGED meta
    BY <2>1, <2>3, SameRecord DEF ListsInv, StepInv, IntactInv, Numbered, Writing
  <2> QED
    BY <1>6, <2>2, <2>3 DEF WriteCreate, Return
<1>7. CASE WriteEncode
  <2>1. UNCHANGED <<iscs, sch, prev, run, applied>> /\ pc = "encode" /\ New' = New
    BY <1>7 DEF WriteEncode, call, New
  <2>2. New \in Seq(Item) /\ Len(New) = Len(sch) + 1 /\ Len(sch) \in Nat
    BY NewList DEF ListsInv
  <2>3. PICK n \in 0 .. Len(New) :
            /\ meta' = SubSeq(New, 1, n)
            /\ \/ pc' = "truncate" /\ meta' = New /\ torn' = torn
               \/ pc' = "idle" /\ torn' = TRUE
    <3>1. New = SubSeq(New, 1, Len(New)) /\ Len(New) \in 0 .. Len(New) /\ 0 .. Len(sch) \subseteq 0 .. Len(New)
      BY <2>2
    <3> QED
      BY <1>7, <3>1 DEF WriteEncode, Return
  <2>4. /\ meta' \in Seq(Item) /\ Numbered(Items)' /\ Len(Items') <= Len(sch) + 1
        /\ Len(Items') \in Nat
        /\ \A k \in CurrentItems' : k = Len(sch) + 1 /\ k = Len(Items')
    BY <2>3, Rewritten
  <2>5. ListsInv'
    BY <2>1, <2>2, <2>3, <2>4 DEF ListsInv, Numbered
  <2>6. StepInv'
    <3>1. Readable(Len(sch))'
      BY <2>1 DEF StepInv, Readable
    <3>2. \A k \in CurrentItems' : k - 1 = Len(sch)
      BY <2>2, <2>4
    <3> QED
      BY <2>1, <2>3, <3>1, <3>2 DEF StepInv, Writing
  <2>7. IntactInv'
    BY <2>1, <2>3 DEF IntactInv, Writing
  <2> QED
    BY <2>5, <2>6, <2>7
<1>8. CASE WriteTruncate
  <2>1. UNCHANGED <<meta, sch, prev, run, applied>> /\ pc = "truncate"
    BY <1>8 DEF WriteTruncate
  <2>2. /\ \E x : OneFile(x) \/ iscs' = iscs
        /\ \/ pc' = "isc" /\ torn' = torn
           \/ pc' = "idle" /\ torn' = TRUE
    BY <1>8 DEF WriteTruncate, Return, OneFile
  <2>3. ListsInv' /\ StepInv'
    BY <2>1, <2>2, FileWritten
  <2>4. IntactInv'
    BY <2>1, <2>2 DEF IntactInv, Writing
  <2> QED
    BY <2>3, <2>4
<1>9. CASE WriteISC
  <2>1. UNCHANGED <<meta, sch, prev, run>> /\ pc = "isc" /\ pc' = "idle"
    BY <1>9 DEF WriteISC, Return, call
  <2>2. \/ OneFile(data) /\ applied' = used /\ torn' = (data # used)
        \/ iscs' = iscs /\ torn' = TRUE
    BY <1>9 DEF WriteISC, Return, OneFile
  <2>3. \E x : OneFile(x) \/ iscs' = iscs
    BY <2>2
  <2>4. ListsInv' /\ StepInv'
    BY <2>1, <2>3, FileWritten
  <2>5. IntactInv'
    <3>1. CASE OneFile(data) /\ applied' = used /\ torn' = (data # used)
      <4>1. CurrentItems' = {} \/ iscs'[Len(Items') - 1] = data
        <5>1. Items' = Items /\ CurrentItems' = CurrentItems /\ Items \in {<<>>, meta}
          BY <2>1, LastIsCurrent DEF Items, CurrentItems
        <5>2. CurrentItems # {} => Items = New
          BY <2>1, LastIsCurrent DEF StepInv
        <5>3. Len(New) - 1 = Len(sch) /\ Len(sch) \in DOMAIN iscs
          BY <2>1, NewList DEF ListsInv
        <5> QED
          BY <3>1, <5>1, <5>2, <5>3 DEF OneFile
      <4> QED
        BY <2>1, <3>1, <4>1 DEF IntactInv
    <3>2. CASE torn' = TRUE
      BY <3>2 DEF IntactInv
    <3> QED
      BY <2>2, <3>1, <3>2
  <2> QED
    BY <2>4, <2>5
<1>10. CASE Idle \/ UNCHANGED vars
  <2>1. UNCHANGED <<meta, iscs, pc, sch, prev, run, applied, torn>>
    BY <1>10 DEF Idle, vars, disk, call, history
  <2>2. New' = New
    BY <2>1 DEF New
  <2> QED
    BY <2>1, <2>2, SameRecord DEF ListsInv, StepInv, IntactInv, Numbered
<1> QED
  BY <1>1, <1>2, <1>3, <1>4, <1>5, <1>6, <1>7, <1>8, <1>9, <1>10 DEF Next, DeleteImages

\* There is no record at first.
LEMMA InitInv == Init => DifferInv
<1> SUFFICES ASSUME Init PROVE DifferInv
  OBVIOUS
<1> USE DifferAssumption
<1>1. Items = <<>> /\ CurrentItems = {}
  BY DEF Init, Items, CurrentItems
<1>2. ListsInv
  BY <1>1 DEF Init, ListsInv, Numbered
<1> QED
  BY <1>1, <1>2 DEF Init, DifferInv, StepInv, IntactInv, Writing

\* DifferInv is an invariant of every behaviour of the caller and DeleteImages.
THEOREM DifferInvariance == Spec => []DifferInv
BY InitInv, DifferStep, PTL DEF Spec

\* .metadata.toml is in order at every point of every call, also between the
\* writes of WriteMetadata and after any number of kills and failed writes:
\* numbered, at most the last item current, and the configuration file of
\* every item before a current one readable.
THEOREM RecordStaysInOrder == Spec => []RecordInOrder
<1>1. DifferInv => RecordInOrder
  <2> SUFFICES ASSUME DifferInv PROVE RecordInOrder
    OBVIOUS
  <2>1. Items \in Seq(Item) /\ Numbered(Items)
    BY LastIsCurrent DEF DifferInv, ListsInv
  <2>2. ASSUME NEW k \in CurrentItems, NEW j \in 1 .. k - 1
        PROVE  ~ReadConfig(iscs[Items[j].value]).err
    <3>1. k = Len(Items) /\ k \in Nat
      BY LastIsCurrent DEF DifferInv
    <3>2. Items[j].value = j - 1
      BY <2>1, <3>1 DEF Numbered
    <3> QED
      BY <3>1, <3>2 DEF DifferInv, StepInv, Readable
  <2> QED
    BY <2>1, <2>2 DEF RecordInOrder, Numbered
<1> QED
  BY <1>1, DifferInvariance, PTL

\* CheckDiff compares the configuration with the one that the last call
\* recorded, whatever was killed, edited or failed in between, as long as
\* that record was written whole.
THEOREM ComparesWithLastRecord == Spec => []ComparesWithApplied
<1>1. DifferInv => ComparesWithApplied
  BY DEF DifferInv, IntactInv, ComparesWithApplied
<1> QED
  BY <1>1, DifferInvariance, PTL

-----------------------------------------------------------------------------
(***************************************************************************)
(* What is compared and deleted, over the steps of the calls.              *)
(***************************************************************************)
\* Everything on disk and in memory was a configuration file.
FilesInv ==
    /\ file \in Files /\ used \in Files /\ data \in Files
    /\ \A k \in 0 .. MaxRuns : iscs[k] \in Files
    /\ prev \in Known

\* What was deleted and what is still to be deleted is what was dropped.
DeleteInv ==
    /\ pc \in {"metadata", "diff"} => deleted = {}
    /\ DiffIsExact

\* A list that was written whole has a current item.
FailInv ==
    /\ ~torn /\ pc \notin Writing /\ meta # "absent" => CurrentItems # {}
    /\ FailsOnlyOnOtherNames

\* Every step keeps to configuration files.
LEMMA FilesStep ==
    ASSUME DifferInv, FilesInv, [Next]_vars
    PROVE  FilesInv'
<1> USE DEF FilesInv
<1>1. EmptyConfig \in Known /\ Unreadable \in Files
  <2>1. Unreadable.data = "unreadable" /\ Unreadable \in Files
    BY DEF Unreadable, Files
  <2>2. ReadConfig(Unreadable).cfg = EmptyConfig
    BY <2>1 DEF ReadConfig
  <2> QED
    BY <2>1, <2>2 DEF Known
<1>2. DOMAIN iscs = 0 .. MaxRuns
  BY DEF DifferInv, ListsInv
<1>3. CASE Call
  BY <1>1, <1>3 DEF Call, disk
<1>4. CASE Edit
  BY <1>4 DEF Edit, call
<1>5. CASE GetAllMetadata
  <2>1. UNCHANGED <<file, used, data, iscs>>
    BY <1>5 DEF GetAllMetadata, disk
  <2>2. CASE CurrentItems # {} /\ prev' = ReadConfig(iscs[PreviousISC]).cfg
    <3>1. PreviousISC \in 0 .. MaxRuns
      <4>1. PreviousISC = Len(Items) - 1 /\ Items \in Seq(Item) /\ Len(Items) # 0
        BY <2>2, LastIsCurrent DEF DifferInv
      <4>2. Len(Items) <= run /\ run \in 0 .. MaxRuns /\ Len(Items) \in Nat /\ MaxRuns \in Nat
        BY <4>1, DifferAssumption DEF DifferInv, ListsInv
      <4> QED
        BY <4>1, <4>2
    <3> QED
      BY <2>1, <2>2, <3>1 DEF Known
  <2>3. CASE prev' = prev
    BY <2>1, <2>3
  <2> QED
    BY <1>5, <2>2, <2>3 DEF GetAllMetadata
<1>6. CASE WriteTruncate
  <2>1. UNCHANGED <<file, used, prev>> /\ data' \in {file, data}
        /\ (iscs' = iscs \/ iscs' = [iscs EXCEPT ![Len(sch)] = Unreadable])
    BY <1>6 DEF WriteTruncate
  <2> QED
    BY <1>1, <1>2, <2>1
<1>7. CASE WriteISC
  <2>1. UNCHANGED <<file, used, data, prev>>
        /\ (iscs' = iscs \/ iscs' = [iscs EXCEPT ![Len(sch)] = data])
    BY <1>7 DEF WriteISC, call
  <2> QED
    BY <1>2, <2>1
<1>8. CASE Kill \/ Diff \/ DeleteImage \/ WriteCreate \/ WriteEncode \/ Idle \/ UNCHANGED vars
  <2>1. UNCHANGED <<file, used, data, prev, iscs>>
    BY <1>8 DEF Kill, Diff, DeleteImage, WriteCreate, WriteEncode, Idle, vars, disk, call
  <2> QED
    BY <2>1
<1> QED
  BY <1>3, <1>4, <1>5, <1>6, <1>7, <1>8 DEF Next, DeleteImages

\* Every step deletes only what is dropped, and forgets nothing of it.
LEMMA DeleteStep ==
    ASSUME DifferInv, FilesInv, DeleteInv, [Next]_vars
    PROVE  DeleteInv'
<1> USE DEF DeleteInv
<1>1. CASE Call
  BY <1>1 DEF Call, DiffIsExact
<1>2. CASE Diff
  <2>1. pc = "diff" /\ deleted' = {} /\ UNCHANGED <<prev, used>> /\ pc' \in {"delete", "create", "idle"}
    BY <1>2 DEF Diff, Return, history
  <2>2. ASSUME pc' = "delete"
        PROVE  /\ Paths(Gone(prev, cfg)) \subseteq Paths(imgsToDelete')
               /\ Paths(imgsToDelete') \subseteq Paths(Dropped(prev, cfg))
    <3>1. imgsToDelete' = Stale(prev, cfg) /\ Stale(prev, cfg) \subseteq ImageNames
      BY <1>2, <2>2 DEF Diff, Return
    <3>2. prev \in Known /\ cfg \in Known
      BY DEF FilesInv, Known, cfg
    <3>3. Gone(prev, cfg) \subseteq imgsToDelete' /\ imgsToDelete' \subseteq Dropped(prev, cfg)
      BY <3>1, <3>2, StaleIsDropped
    <3> QED
      BY <3>3 DEF Paths
  <2>3. Dropped(prev, cfg)' = Dropped(prev, cfg) /\ Gone(prev, cfg)' = Gone(prev, cfg)
    BY <2>1 DEF cfg
  <2>4. DiffIsExact'
    BY <2>1, <2>2, <2>3 DEF DiffIsExact
  <2> QED
    BY <2>1, <2>4
<1>3. CASE DeleteImage
  <2>1. pc = "delete" /\ UNCHANGED <<prev, used>> /\ pc' \in {"delete", "create"}
    BY <1>3 DEF DeleteImage
  <2>2. ASSUME pc' = "delete"
        PROVE  Paths(imgsToDelete') \cup deleted' = Paths(imgsToDelete) \cup deleted
    <3>1. PICK i \in imgsToDelete : imgsToDelete' = imgsToDelete \ {i} /\ deleted' = deleted \cup {ImagePath[i]}
      BY <1>3, <2>2 DEF DeleteImage
    <3> QED
      BY <3>1 DEF Paths
  <2>3. Dropped(prev, cfg)' = Dropped(prev, cfg) /\ Gone(prev, cfg)' = Gone(prev, cfg)
    BY <2>1 DEF cfg
  <2>4. DiffIsExact'
    BY <2>1, <2>2, <2>3 DEF DiffIsExact
  <2> QED
    BY <2>1, <2>4
<1>4. CASE Edit \/ Idle \/ UNCHANGED vars
  <2>1. UNCHANGED <<pc, imgsToDelete, deleted, prev, used>>
    BY <1>4 DEF Edit, Idle, vars, call, history
  <2>2. Dropped(prev, cfg)' = Dropped(prev, cfg) /\ Gone(prev, cfg)' = Gone(prev, cfg)
    BY <2>1 DEF cfg
  <2> QED
    BY <2>1, <2>2 DEF DiffIsExact
<1>5. CASE GetAllMetadata
  <2>1. pc = "metadata" /\ deleted' = deleted /\ pc' \in {"diff", "idle"}
    BY <1>5 DEF GetAllMetadata, Return, history
  <2> QED
    BY <2>1 DEF DiffIsExact
<1>6. CASE Kill \/ WriteCreate \/ WriteEncode \/ WriteTruncate \/ WriteISC
  <2>1. pc' \notin {"metadata", "diff", "delete"}
    BY <1>6 DEF Kill, WriteCreate, WriteEncode, WriteTruncate, WriteISC, Return
  <2> QED
    BY <2>1 DEF DiffIsExact
<1> QED
  BY <1>1, <1>2, <1>3, <1>4, <1>5, <1>6 DEF Next, DeleteImages

\* Every step that fails after an intact record has a dropped name to blame.
LEMMA FailStep ==
    ASSUME DifferInv, FilesInv, FailInv, [Next]_vars
    PROVE  FailInv'
<1> USE DEF FailInv
<1>1. CASE Call
  <2>1. UNCHANGED <<meta, iscs, torn>> /\ pc = "idle" /\ exit' = "none"
    BY <1>1 DEF Call, disk
  <2> QED
    BY <2>1, SameRecord DEF FailsOnlyOnOtherNames, Writing
<1>2. CASE Edit \/ Idle \/ UNCHANGED vars
  <2>1. UNCHANGED <<pc, exit, torn, meta, iscs, used, prev, applied>>
    BY <1>2 DEF Edit, Idle, vars, disk, call, history
  <2>2. cfg' = cfg
    BY <2>1 DEF cfg
  <2> QED
    BY <2>1, <2>2, SameRecord DEF FailsOnlyOnOtherNames
<1>3. CASE Kill
  <2>1. UNCHANGED <<meta, iscs>> /\ exit' = "killed" /\ torn' = (torn \/ pc \in Writing)
    BY <1>3 DEF Kill, Return, disk
  <2> QED
    BY <2>1, SameRecord DEF FailsOnlyOnOtherNames
<1>4. CASE GetAllMetadata
  <2>1. UNCHANGED <<meta, iscs, torn, applied, used>> /\ pc = "metadata"
    BY <1>4 DEF GetAllMetadata, disk, history
  <2>2. CASE pc' = "diff"
    BY <2>1, <2>2, SameRecord DEF FailsOnlyOnOtherNames, Writing
  <2>3. CASE CurrentItems # {} => ReadConfig(iscs[PreviousISC]).err
    <3>1. ASSUME ~torn, meta # "absent" PROVE ReadConfig(applied).err
      <4>1. CurrentItems # {} /\ ReadConfig(iscs[PreviousISC]).err
        BY <2>1, <2>3, <3>1 DEF Writing
      <4>2. PreviousISC = Len(Items) - 1
        BY <4>1, LastIsCurrent DEF DifferInv
      <4>3. iscs[Len(Items) - 1] = applied
        BY <2>1, <3>1, <4>1 DEF DifferInv, IntactInv, Writing
      <4> QED
        BY <4>1, <4>2, <4>3
    <3> QED
      BY <2>1, <3>1, SameRecord DEF FailsOnlyOnOtherNames, Writing
  <2> QED
    BY <1>4, <2>2, <2>3 DEF GetAllMetadata
<1>5. CASE Diff
  <2>1. UNCHANGED <<meta, iscs, torn, applied, used, prev>> /\ pc = "diff"
    BY <1>5 DEF Diff, disk, history
  <2>2. cfg' = cfg
    BY <2>1 DEF cfg
  <2>3. CASE pc' # "idle"
    BY <2>1, <2>3, SameRecord DEF FailsOnlyOnOtherNames, Writing
  <2>4. CASE ~(Stale(prev, cfg) \subseteq ImageNames)
    <3>1. prev \in Known /\ cfg \in Known
      BY DEF FilesInv, Known, cfg
    <3>2. Len(cfg.operators) <= 1 =>
              \/ NamesOf(prev.channels) \ NamesOf(cfg.channels) # {}
              \/ PackagesOf(prev.operators) \ PackagesOf(cfg.operators) # {}
      BY <2>4, <3>1, OtherNamesDropped
    <3> QED
      BY <2>1, <2>2, <3>2, SameRecord DEF FailsOnlyOnOtherNames, Writing
  <2> QED
    BY <1>5, <2>3, <2>4 DEF Diff
<1>6. CASE DeleteImage
  <2>1. UNCHANGED <<meta, iscs, torn>> /\ pc = "delete" /\ pc' \in {"delete", "create"}
    BY <1>6 DEF DeleteImage, disk
  <2> QED
    BY <2>1, SameRecord DEF FailsOnlyOnOtherNames, Writing
<1>7. CASE WriteCreate
  <2>1. torn' = torn /\ pc = "create"
        /\ (pc' = "encode" \/ (pc' = "idle" /\ exit' = "io" /\ UNCHANGED <<meta, iscs>>))
    BY <1>7 DEF WriteCreate, Return, history
  <2> QED
    BY <2>1, SameRecord DEF FailsOnlyOnOtherNames, Writing
<1>8. CASE WriteEncode \/ WriteTruncate
  <2>1. pc' \in Writing \/ (torn' = TRUE /\ exit' # "error")
    BY <1>8 DEF WriteEncode, WriteTruncate, Return, Writing
  <2> QED
    BY <2>1 DEF FailsOnlyOnOtherNames, Writing
<1>9. CASE WriteISC
  <2>1. UNCHANGED <<meta, sch>> /\ pc = "isc" /\ exit' # "error"
    BY <1>9 DEF WriteISC, Return, call
  <2>2. ASSUME meta # "absent" PROVE CurrentItems # {}
    <3>1. Items = New
      BY <2>1, <2>2 DEF DifferInv, StepInv, Items
    <3>2. New[Len(New)].current /\ Len(New) \in DOMAIN New
      BY NewList DEF DifferInv, ListsInv
    <3> QED
      BY <3>1, <3>2 DEF CurrentItems
  <2>3. CurrentItems' = CurrentItems
    BY <2>1 DEF CurrentItems, Items
  <2> QED
    BY <2>1, <2>2, <2>3 DEF FailsOnlyOnOtherNames
<1> QED
  BY <1>1, <1>2, <1>3, <1>4, <1>5, <1>6, <1>7, <1>8, <1>9 DEF Next, DeleteImages

\* Over any number of calls, edits and kills the difference is that of the two
\* configurations compared, and a failure has its reason.
THEOREM ChangeInvariance == Spec => [](FilesInv /\ DeleteInv /\ FailInv)
<1>1. Init => FilesInv /\ DeleteInv /\ FailInv
  <2> SUFFICES ASSUME Init PROVE FilesInv /\ DeleteInv /\ FailInv
    OBVIOUS
  <2>1. Unreadable.data = "unreadable" /\ Unreadable \in Files
    BY DEF Unreadable, Files
  <2>2. ReadConfig(Unreadable).cfg = EmptyConfig
    BY <2>1 DEF ReadConfig
  <2>3. FilesInv
    BY <2>1, <2>2 DEF Init, FilesInv, Known
  <2> QED
    BY <2>3 DEF Init, DeleteInv, FailInv, DiffIsExact, FailsOnlyOnOtherNames
<1>2. DifferInv /\ FilesInv /\ DeleteInv /\ FailInv /\ [Next]_vars => FilesInv' /\ DeleteInv' /\ FailInv'
  BY FilesStep, DeleteStep, FailStep
<1> QED
  BY <1>1, <1>2, DifferInvariance, PTL DEF Spec

\* For every pair of configurations, the images and catalogs that are no longer
\* configured are deleted and no others, whatever the nested loops write over.
THEOREM DeletesWhatWasDropped == Spec => []DiffIsExact
<1>1. DeleteInv => DiffIsExact
  BY DEF DeleteInv
<1> QED
  BY <1>1, ChangeInvariance, PTL

\* With one catalog, a call after an intact record fails only for a channel or
\* package that was dropped.
THEOREM FailsForAReason == Spec => []FailsOnlyOnOtherNames
<1>1. FailInv => FailsOnlyOnOtherNames
  BY DEF FailInv
<1> QED
  BY <1>1, ChangeInvariance, PTL
=============================================================================
