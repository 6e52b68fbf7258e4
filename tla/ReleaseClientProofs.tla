---------------------------- MODULE ReleaseClientProofs ----------------------------
(***************************************************************************)
(* GetReleaseReferenceImages lists what each channel asks for, and spans   *)
(* all OCP channels with the upgrades between them, for every sequence of  *)
(* architectures and channels, every answer of the server and any failure. *)
(***************************************************************************)
EXTENDS ReleaseClient, TLAPS

\* The steps of one channel.
InChannel == {"max", "min", "downloads"}

\* Entry c is entry d with versions found for those that d leaves open.
Completes(c, d) ==
    /\ c \in ChannelConfig
    /\ c.name = d.name /\ c.type = d.type /\ c.shortestPath = d.shortestPath
    /\ d.min # Unset => c.min = d.min
    /\ d.max # Unset => c.max = d.max

\* Where the two loops stand.
LoopInv ==
    /\ given \in Configs /\ graphs \in Answers
    /\ pc \in {"channel", "cross", "sign", "done"} \cup InChannel
    /\ arch \in 1 .. Len(Archs) + 1 /\ index \in 1 .. Len(given) + 1
    /\ pc \in {"sign", "done"} => arch = Len(Archs) + 1
    /\ pc \notin {"sign", "done"} => arch <= Len(Archs)
    /\ pc \in InChannel => index <= Len(given)
    /\ pc = "cross" => index = Len(given) + 1

\* What is written back into the configuration only completes it.
ConfigInv ==
    /\ config \in Seq(ChannelConfig) /\ Len(config) = Len(given)
    /\ \A k \in DOMAIN given : config[k].name = given[k].name
    /\ DistinctNames => \A k \in DOMAIN given : Completes(config[k], given[k])
    /\ arch = 1 /\ pc \in {"channel"} \cup InChannel => config = given

\* versionsByChannel has completed entries under their names.
FoundInv ==
    /\ \A n \in DOMAIN versionsByChannel :
           versionsByChannel[n] \in ChannelConfig /\ versionsByChannel[n].name = n
    /\ DistinctNames => \A k \in DOMAIN given :
           config[k].name \in DOMAIN versionsByChannel =>
               Completes(versionsByChannel[config[k].name], config[k])

\* The channel at hand; one without a range has the versions found so far.
ChannelInv ==
    pc \in InChannel =>
        /\ Completes(ch, config[index]) /\ pc = FirstMissing(ch)
        /\ config[index].min = Unset /\ config[index].max = Unset =>
               /\ ch.full = config[index].full
               /\ pc = "max" => ch.min = Unset
               /\ pc # "max" => graph # {} /\ ch.max = Max(graph)
               /\ pc = "min" => ch.full
               /\ pc = "downloads" => ch.min = IF ch.full THEN Min(graph) ELSE Max(graph)

\* Channel k was handled for architecture a.
Handled(a, k) == a < arch \/ (a = arch /\ k < index)

\* What RangesMirrored and HeadsMirrored say of one channel.
RangeListed(a, k) ==
    DistinctNames /\ Ranged(k) =>
        IF given[k].shortestPath THEN {given[k].min, given[k].max} \subseteq Listed(a, k)
        ELSE Listed(a, k) = Asked(a, k)

HeadListed(k) ==
    ~given[k].shortestPath /\ given[k].min = Unset /\ given[k].max = Unset =>
        Listed(1, k) = IF given[k].full THEN Offered(1, k) ELSE {Max(Offered(1, k))}

\* Nothing is listed for a channel before its turn, and what it asks for after it.
ListInv ==
    \A a \in 1 .. Len(Archs), k \in DOMAIN given :
        /\ ~Handled(a, k) => Listed(a, k) = {}
        /\ Handled(a, k) /\ <<a, k>> \notin errs =>
               RangeListed(a, k) /\ (a = 1 => HeadListed(k))

\* The cross channel part is only made when no OCP channel is open, and then
\* the versions do not change any more.
CrossInv ==
    /\ CrossSpansAll
    /\ DistinctNames /\ cross # {} =>
           \A k \in ocpChannels : config[k].min # Unset /\ config[k].max # Unset

ClientInv == LoopInv /\ ConfigInv /\ FoundInv /\ ChannelInv /\ ListInv /\ CrossInv

-----------------------------------------------------------------------------
\* The newest and the oldest version of an answer.
LEMMA Extremes ==
    ASSUME NEW S, Bounded(S), S # {}
    PROVE  /\ Max(S) \in S /\ Min(S) \in S /\ Max(S) \in Nat /\ Min(S) \in Nat
           /\ \A v \in S : v \in Nat /\ Min(S) <= v /\ v <= Max(S)
<1>1. PICK first, last \in S : S \subseteq first .. last
  BY DEF Bounded
<1>2. S \subseteq Nat
  BY DEF Bounded
<1>3. \E x \in S : \A y \in S : x >= y
  BY <1>1, <1>2
<1>4. \E x \in S : \A y \in S : x <= y
  BY <1>1, <1>2
<1>5. Max(S) \in S /\ \A y \in S : Max(S) >= y
  BY <1>3 DEF Max
<1>6. Min(S) \in S /\ \A y \in S : Min(S) <= y
  BY <1>4 DEF Min
<1> QED
  BY <1>2, <1>5, <1>6

\* The constants and the input.
LEMMA InputFacts ==
    ASSUME LoopInv
    PROVE  /\ Len(Archs) \in Nat \ {0} /\ DOMAIN Archs = 1 .. Len(Archs)
           /\ given \in Seq(ChannelConfig) /\ Len(given) \in Nat /\ DOMAIN given = 1 .. Len(given)
           /\ \A k \in DOMAIN given : given[k] \in ChannelConfig
           /\ \A a \in 1 .. Len(Archs), k \in DOMAIN given : Bounded(Offered(a, k))
<1>1. Archs \in Seq(STRING) /\ Archs # <<>> /\ given \in Seq(ChannelConfig)
  BY ClientAssumption DEF LoopInv
<1>2. Len(Archs) \in Nat \ {0} /\ DOMAIN Archs = 1 .. Len(Archs)
  BY <1>1
<1>3. \A a \in 1 .. Len(Archs), k \in DOMAIN given : Bounded(Offered(a, k))
  BY <1>2, ClientAssumption DEF LoopInv, Offered
<1> QED
  BY <1>1, <1>2, <1>3

\* What is asked of the server for the channel at hand.
LEMMA GraphFacts ==
    ASSUME LoopInv, ConfigInv, ChannelInv, pc \in InChannel
    PROVE  /\ index \in DOMAIN given /\ arch \in 1 .. Len(Archs)
           /\ ch.name = given[index].name /\ graph = Offered(arch, index) /\ Bounded(graph)
           /\ ch \in ChannelConfig /\ config[index] \in ChannelConfig
<1>1. index \in DOMAIN given /\ arch \in 1 .. Len(Archs)
  BY InputFacts DEF LoopInv, InChannel
<1>2. ch.name = given[index].name /\ ch \in ChannelConfig
  BY <1>1 DEF ConfigInv, ChannelInv, Completes
<1>3. graph = Offered(arch, index)
  BY <1>2 DEF graph, Offered
<1>4. config[index] \in ChannelConfig
  BY <1>1, InputFacts DEF ConfigInv
<1> QED
  BY <1>1, <1>2, <1>3, <1>4, InputFacts

\* Completing a completed entry completes the first.
LEMMA CompletesTwice ==
    ASSUME NEW c, NEW d, NEW e, Completes(c, d), Completes(d, e)
    PROVE  Completes(c, e)
BY DEF Completes

\* Every entry completes itself.
LEMMA CompletesItself ==
    ASSUME NEW c \in ChannelConfig
    PROVE  Completes(c, c)
BY DEF Completes

-----------------------------------------------------------------------------
\* The two loops go through every architecture and channel in turn.
LEMMA LoopStep ==
    ASSUME LoopInv, ConfigInv, Next
    PROVE  LoopInv'
<1> USE InputFacts DEF LoopInv, InChannel
<1>0. Len(config) = Len(given)
  BY DEF ConfigInv
<1>1. CASE ChannelFails
  BY <1>1 DEF ChannelFails, Continue, input
<1>2. CASE NextChannel
  BY <1>0, <1>2 DEF NextChannel, FirstMissing, input
<1>3. CASE FindMax \/ FindMin
  BY <1>3 DEF FindMax, FindMin, Found, FirstMissing, input
<1>4. CASE RangeDownloads \/ PathDownloads
  BY <1>4 DEF RangeDownloads, PathDownloads, List, Continue, input
<1>5. CASE Update
  BY <1>0, <1>5 DEF Update, NextArch, input
<1>6. CASE CrossChannels \/ NoCrossChannels \/ CrossFails
  BY <1>6 DEF CrossChannels, NoCrossChannels, CrossFails, NextArch, input
<1>7. CASE Sign
  BY <1>7 DEF Sign, input
<1>8. CASE Finished
  BY <1>8 DEF Finished, vars, input
<1> QED
  BY <1>1, <1>2, <1>3, <1>4, <1>5, <1>6, <1>7, <1>8 DEF Next

\* Only Update writes the configuration.
LEMMA ConfigStep ==
    ASSUME LoopInv, LoopInv', ConfigInv, FoundInv, Next
    PROVE  ConfigInv'
<1>1. CASE Update
  <2>1. given' = given /\ config' = [k \in DOMAIN config |-> Updated(k)] /\ DOMAIN config = DOMAIN given
        /\ DOMAIN given = 1 .. Len(given) /\ Len(given) \in Nat
    BY <1>1, InputFacts DEF Update, input, ConfigInv
  <2>2. \A k \in DOMAIN given : config[k] \in ChannelConfig
    BY InputFacts DEF ConfigInv
  <2>3. \A k \in DOMAIN given : config'[k] \in ChannelConfig /\ config'[k].name = config[k].name
    BY <2>1, <2>2 DEF Updated, FoundInv
  <2>4. config' \in Seq(ChannelConfig) /\ Len(config') = Len(given)
    BY <2>1, <2>3
  <2>5. ASSUME DistinctNames, NEW k \in DOMAIN given
        PROVE  Completes(config'[k], given[k])
    <3>1. Completes(config'[k], config[k])
      BY <2>1, <2>2, <2>5, CompletesItself DEF Updated, FoundInv
    <3> QED
      BY <2>5, <3>1, CompletesTwice DEF ConfigInv
  <2>6. DistinctNames' = DistinctNames
    BY <2>1 DEF DistinctNames, validateReleaseChannels
  <2>7. ~(arch' = 1 /\ pc' \in {"channel"} \cup InChannel)
    BY <1>1 DEF Update, NextArch, LoopInv, InChannel
  <2> QED
    BY <2>1, <2>3, <2>4, <2>5, <2>6, <2>7 DEF ConfigInv
<1>2. CASE ~Update
  <2>1. UNCHANGED <<given, config>>
    BY <1>2 DEF Next, ChannelFails, NextChannel, FindMax, FindMin, Found, RangeDownloads, PathDownloads,
                List, CrossChannels, NoCrossChannels, CrossFails, Sign, Finished, vars, input
  <2>2. arch' = 1 /\ pc' \in {"channel"} \cup InChannel => arch = 1 /\ pc \in {"channel"} \cup InChannel
    BY <1>2, InputFacts DEF Next, ChannelFails, NextChannel, FindMax, FindMin, Found, RangeDownloads, PathDownloads,
                List, Continue, CrossChannels, NoCrossChannels, CrossFails, NextArch, Sign, Finished, vars,
                LoopInv, InChannel
  <2>3. DistinctNames' = DistinctNames
    BY <2>1 DEF DistinctNames, validateReleaseChannels
  <2> QED
    BY <2>1, <2>2, <2>3 DEF ConfigInv
<1> QED
  BY <1>1, <1>2

\* The channel at hand is noted under its name.
LEMMA NotedFound ==
    ASSUME LoopInv, ConfigInv, FoundInv, index \in DOMAIN given, NEW c, Completes(c, config[index]),
           versionsByChannel' = Noted(c), UNCHANGED <<given, config>>
    PROVE  FoundInv'
<1>1. c \in ChannelConfig /\ c.name = config[index].name
  BY DEF Completes
<1>2. \A n \in DOMAIN versionsByChannel' :
          \/ n = c.name /\ versionsByChannel'[n] = c
          \/ n # c.name /\ n \in DOMAIN versionsByChannel /\ versionsByChannel'[n] = versionsByChannel[n]
  BY DEF Noted
<1>3. ASSUME DistinctNames, NEW k \in DOMAIN given, config[k].name \in DOMAIN versionsByChannel'
      PROVE  Completes(versionsByChannel'[config[k].name], config[k])
  <2>1. CASE config[k].name = c.name
    <3>1. k = index
      BY <1>1, <1>3, <2>1 DEF ConfigInv, DistinctNames, validateReleaseChannels
    <3> QED
      BY <1>2, <1>3, <2>1, <3>1
  <2>2. CASE config[k].name # c.name
    BY <1>2, <1>3, <2>2 DEF FoundInv
  <2> QED
    BY <2>1, <2>2
<1>4. DistinctNames' = DistinctNames
  BY DEF DistinctNames, validateReleaseChannels
<1> QED
  BY <1>1, <1>2, <1>3, <1>4 DEF FoundInv

\* The channel at hand is completed step by step.
LEMMA ChannelStep ==
    ASSUME LoopInv, LoopInv', ConfigInv, ChannelInv, Next
    PROVE  /\ ChannelInv'
           /\ pc' \in InChannel => config' = config /\ index' = index /\ index \in DOMAIN given
<1>1. CASE NextChannel
  <2> DEFINE c == config[index]
  <2>1. index \in DOMAIN given /\ c \in ChannelConfig /\ UNCHANGED <<config, index>>
    BY <1>1, InputFacts DEF NextChannel, LoopInv, ConfigInv
  <2>2. /\ pc' = FirstMissing(c)
        /\ ch' = IF c.max # Unset /\ c.min # Unset THEN [c EXCEPT !.full = TRUE] ELSE c
    BY <1>1 DEF NextChannel
  <2>3. Completes(ch', c) /\ pc' = FirstMissing(ch')
    BY <2>1, <2>2 DEF Completes, FirstMissing, ChannelConfig
  <2>4. c.min = Unset /\ c.max = Unset => ch' = c /\ pc' = "max"
    BY <2>2 DEF FirstMissing
  <2> QED
    BY <2>1, <2>3, <2>4 DEF ChannelInv, InChannel
<1>2. CASE FindMax
  <2> DEFINE d == config[index]
             top == Max(graph)
  <2>1. pc = "max" /\ pc \in InChannel /\ graph # {} /\ ch' = WithMax(ch, top) /\ pc' = FirstMissing(ch')
        /\ UNCHANGED <<config, index, arch, graphs>>
    BY <1>2 DEF FindMax, Found, InChannel, input
  <2>2. index \in DOMAIN given /\ Bounded(graph) /\ ch \in ChannelConfig /\ d \in ChannelConfig
    BY <2>1, GraphFacts
  <2>3. top \in Nat /\ top # Unset
    BY <2>1, <2>2, Extremes DEF Unset
  <2>4. ch.max = Unset /\ Completes(ch, d)
    BY <2>1 DEF ChannelInv, FirstMissing
  <2> HIDE DEF top
  <2>5. /\ ch' \in ChannelConfig /\ ch'.name = ch.name /\ ch'.type = ch.type
        /\ ch'.shortestPath = ch.shortestPath /\ ch'.full = ch.full
        /\ ch'.max = top /\ ch'.min = IF ch.min = Unset /\ ~ch.full THEN top ELSE ch.min
    <3> DEFINE m == IF ch.min = Unset /\ ~ch.full THEN top ELSE ch.min
    <3>1. ch' = [ch EXCEPT !.max = top, !.min = m]
      BY <2>1 DEF WithMax
    <3>2. m \in Int /\ top \in Int
      BY <2>2, <2>3 DEF ChannelConfig
    <3> HIDE DEF m
    <3>3. /\ ch' \in ChannelConfig /\ ch'.name = ch.name /\ ch'.type = ch.type
          /\ ch'.shortestPath = ch.shortestPath /\ ch'.full = ch.full
          /\ ch'.max = top /\ ch'.min = m
      BY <2>2, <3>1, <3>2 DEF ChannelConfig
    <3> QED
      BY <3>3 DEF m
  <2>6. Completes(ch', d)
    BY <2>4, <2>5 DEF Completes
  <2>7. graph' = graph
    BY <2>1, <2>5 DEF graph
  <2>8. ASSUME d.min = Unset, d.max = Unset
        PROVE  /\ ch'.full = d.full /\ ch'.max = Max(graph) /\ pc' # "max"
               /\ pc' = "min" => ch'.full
               /\ pc' = "downloads" => ch'.min = IF ch'.full THEN Min(graph) ELSE Max(graph)
    <3>1. ch.min = Unset /\ ch.full = d.full /\ ch.full \in BOOLEAN
      BY <2>1, <2>2, <2>8 DEF ChannelInv, ChannelConfig
    <3> QED
      BY <2>1, <2>3, <2>5, <3>1 DEF FirstMissing, top
  <2> QED
    BY <2>1, <2>2, <2>6, <2>7, <2>8 DEF ChannelInv
<1>3. CASE FindMin
  <2> DEFINE d == config[index]
             low == Min(graph)
  <2>1. pc = "min" /\ pc \in InChannel /\ graph # {} /\ ch' = [ch EXCEPT !.min = low] /\ pc' = FirstMissing(ch')
        /\ UNCHANGED <<config, index, arch, graphs>>
    BY <1>3 DEF FindMin, Found, InChannel, input
  <2>2. index \in DOMAIN given /\ Bounded(graph) /\ ch \in ChannelConfig /\ d \in ChannelConfig
    BY <2>1, GraphFacts
  <2>3. low \in Nat /\ low # Unset
    BY <2>1, <2>2, Extremes DEF Unset
  <2>4. ch.min = Unset /\ ch.max # Unset /\ Completes(ch, d)
    BY <2>1 DEF ChannelInv, FirstMissing
  <2> HIDE DEF low
  <2>5. /\ ch' \in ChannelConfig /\ ch'.name = ch.name /\ ch'.type = ch.type
        /\ ch'.shortestPath = ch.shortestPath /\ ch'.full = ch.full
        /\ ch'.max = ch.max /\ ch'.min = low
    BY <2>1, <2>2, <2>3 DEF ChannelConfig
  <2>6. Completes(ch', d) /\ pc' = "downloads"
    BY <2>1, <2>3, <2>4, <2>5 DEF Completes, FirstMissing
  <2>7. graph' = graph
    BY <2>1, <2>5 DEF graph
  <2> QED
    BY <2>1, <2>2, <2>5, <2>6, <2>7 DEF ChannelInv, low
<1>4. CASE ~(NextChannel \/ FindMax \/ FindMin)
  <2>1. \/ pc' \notin InChannel
        \/ UNCHANGED vars
    BY <1>4 DEF Next, ChannelFails, RangeDownloads, PathDownloads, List, Continue, Update, NextArch,
                CrossChannels, NoCrossChannels, CrossFails, Sign, Finished, InChannel
  <2>2. CASE UNCHANGED vars
    <3>1. UNCHANGED <<pc, ch, config, index, arch, graphs>>
      BY <2>2 DEF vars, input
    <3> QED
      BY <3>1, InputFacts DEF ChannelInv, graph, LoopInv
  <2> QED
    BY <2>1, <2>2 DEF ChannelInv
<1> QED
  BY <1>1, <1>2, <1>3, <1>4

\* What is noted completes the configuration, also after Update.
LEMMA FoundStep ==
    ASSUME LoopInv, ConfigInv, FoundInv, ChannelInv, ChannelInv', Next,
           pc' \in InChannel => config' = config /\ index' = index /\ index \in DOMAIN given
    PROVE  FoundInv'
<1>1. CASE NextChannel \/ FindMax \/ FindMin
  <2>1. UNCHANGED <<given, config, index>> /\ versionsByChannel' \in {Noted(ch'), versionsByChannel}
    BY <1>1 DEF NextChannel, FindMax, FindMin, Found, input
  <2>2. pc' \in InChannel
    BY <1>1 DEF NextChannel, FindMax, FindMin, Found, FirstMissing, InChannel
  <2>3. Completes(ch', config[index]) /\ index \in DOMAIN given
    BY <2>1, <2>2 DEF ChannelInv
  <2>4. CASE versionsByChannel' = Noted(ch')
    BY <2>1, <2>3, <2>4, NotedFound
  <2>5. CASE versionsByChannel' = versionsByChannel
    BY <2>1, <2>5 DEF FoundInv, DistinctNames, validateReleaseChannels
  <2> QED
    BY <2>1, <2>4, <2>5
<1>2. CASE versionsByChannel' = [n \in {} |-> <<>>]
  BY <1>2 DEF FoundInv
<1>3. CASE Update /\ versionsByChannel' = versionsByChannel
  <2>1. given' = given /\ config' = [k \in DOMAIN config |-> Updated(k)] /\ DOMAIN config = DOMAIN given
    BY <1>3, InputFacts DEF Update, input, ConfigInv
  <2>2. \A k \in DOMAIN given : config[k] \in ChannelConfig
    BY InputFacts DEF ConfigInv
  <2>3. ASSUME NEW k \in DOMAIN given, config'[k].name \in DOMAIN versionsByChannel
        PROVE  Completes(versionsByChannel[config'[k].name], config'[k])
    <3>1. config'[k].name = config[k].name
      BY <2>1, <2>2 DEF Updated, FoundInv
    <3>2. config'[k] = versionsByChannel[config[k].name] /\ config'[k] \in ChannelConfig
      BY <2>1, <2>3, <3>1 DEF Updated, FoundInv
    <3> QED
      BY <3>1, <3>2, CompletesItself
  <2> QED
    BY <1>3, <2>1, <2>3 DEF FoundInv
<1>4. CASE UNCHANGED <<given, config, versionsByChannel>>
  BY <1>4 DEF FoundInv, DistinctNames, validateReleaseChannels
<1> QED
  BY <1>1, <1>2, <1>3, <1>4 DEF Next, ChannelFails, RangeDownloads, PathDownloads, List, Update, NextArch,
     CrossChannels, NoCrossChannels, CrossFails, Sign, Finished, vars, input

-----------------------------------------------------------------------------
\* A step that lists nothing for a channel, and turns to the next at most
\* after an error of this one.
LEMMA NothingListed ==
    ASSUME ListInv, UNCHANGED <<given, graphs>>, errs \subseteq errs',
           \A a \in 1 .. Len(Archs), k \in DOMAIN given :
               /\ Listed(a, k)' = Listed(a, k)
               /\ Handled(a, k) => Handled(a, k)'
               /\ Handled(a, k)' => Handled(a, k) \/ <<a, k>> \in errs'
    PROVE  ListInv'
<1> SUFFICES ASSUME NEW a \in 1 .. Len(Archs), NEW k \in DOMAIN given
             PROVE  /\ ~Handled(a, k)' => Listed(a, k)' = {}
                    /\ Handled(a, k)' /\ <<a, k>> \notin errs' =>
                           RangeListed(a, k)' /\ (a = 1 => HeadListed(k)')
  BY DEF ListInv
<1>1. RangeListed(a, k)' <=> RangeListed(a, k)
  BY DEF RangeListed, DistinctNames, validateReleaseChannels, Ranged, Asked, Offered
<1>2. a = 1 => (HeadListed(k)' <=> HeadListed(k))
  BY DEF HeadListed, Offered
<1> QED
  BY <1>1, <1>2 DEF ListInv

\* The next architecture comes after the last channel.
LEMMA ArchHandled ==
    ASSUME LoopInv, index = Len(given) + 1, arch' = arch + 1, index' = 1, UNCHANGED given,
           NEW a \in 1 .. Len(Archs), NEW k \in DOMAIN given
    PROVE  Handled(a, k)' <=> Handled(a, k)
BY InputFacts DEF LoopInv, Handled

\* The next channel comes after this one.
LEMMA ChannelHandled ==
    ASSUME LoopInv, arch' = arch, index' = index + 1,
           NEW a \in 1 .. Len(Archs), NEW k \in DOMAIN given
    PROVE  Handled(a, k)' <=> Handled(a, k) \/ (a = arch /\ k = index)
BY InputFacts DEF LoopInv, Handled

\* The releases of a range, or on a path, are listed for the channel at hand.
LEMMA DownloadsStep ==
    ASSUME LoopInv, ConfigInv, ChannelInv, ListInv, RangeDownloads \/ PathDownloads
    PROVE  ListInv'
<1>1. PICK S : /\ List(S) /\ pc = "downloads"
               /\ \/ ~ch.shortestPath /\ S = InRange(graph, ch)
                  \/ ch.shortestPath /\ {ch.min, ch.max} \subseteq S
  <2>1. CASE RangeDownloads
    <3>1. List(InRange(graph, ch)) /\ pc = "downloads" /\ ~ch.shortestPath
      BY <2>1 DEF RangeDownloads
    <3> QED
      BY <3>1
  <2>2. CASE PathDownloads
    <3>1. PICK P \in SUBSET InRange(graph, ch) : List(P \cup {ch.min, ch.max})
      BY <2>2 DEF PathDownloads
    <3>2. pc = "downloads" /\ ch.shortestPath /\ {ch.min, ch.max} \subseteq P \cup {ch.min, ch.max}
      BY <2>2 DEF PathDownloads
    <3> QED
      BY <3>1, <3>2
  <2> QED
    BY <2>1, <2>2
<1>2. /\ UNCHANGED <<given, graphs, errs, arch>> /\ index' = index + 1
      /\ allImages' = allImages \cup {[arch |-> arch, for |-> index, ver |-> v] : v \in S}
  BY <1>1 DEF List, Continue, input
<1>3. /\ index \in DOMAIN given /\ arch \in 1 .. Len(Archs) /\ graph = Offered(arch, index) /\ Bounded(graph)
      /\ ch \in ChannelConfig /\ config[index] \in ChannelConfig
  BY <1>1, GraphFacts DEF InChannel
<1>4. ASSUME NEW a, NEW k
      PROVE  Listed(a, k)' = IF a = arch /\ k = index THEN Listed(a, k) \cup S ELSE Listed(a, k)
  <2> DEFINE new == {[arch |-> arch, for |-> index, ver |-> v] : v \in S}
  <2>1. {x \in allImages' : x.arch = a /\ x.for = k} =
            {x \in allImages : x.arch = a /\ x.for = k} \cup {x \in new : x.arch = a /\ x.for = k}
    BY <1>2
  <2>2. {i.ver : i \in {x \in new : x.arch = a /\ x.for = k}} = IF a = arch /\ k = index THEN S ELSE {}
    <3>1. \A x \in new : x.arch = arch /\ x.for = index
      OBVIOUS
    <3>2. {x.ver : x \in new} = S
      <4>1. \A x \in new : x.ver \in S
        OBVIOUS
      <4>2. ASSUME NEW v \in S PROVE v \in {x.ver : x \in new}
        <5>1. [arch |-> arch, for |-> index, ver |-> v] \in new
          OBVIOUS
        <5>2. [arch |-> arch, for |-> index, ver |-> v].ver = v
          OBVIOUS
        <5> HIDE DEF new
        <5> QED
          BY <5>1, <5>2, Zenon
      <4> HIDE DEF new
      <4> QED
        BY <4>1, <4>2
    <3> HIDE DEF new
    <3>3. CASE a = arch /\ k = index
      <4>1. {x \in new : x.arch = a /\ x.for = k} = new
        BY <3>1, <3>3
      <4> QED
        BY <3>2, <3>3, <4>1
    <3>4. CASE ~(a = arch /\ k = index)
      <4>1. {x \in new : x.arch = a /\ x.for = k} = {}
        BY <3>1, <3>4
      <4> QED
        BY <3>4, <4>1
    <3> QED
      BY <3>3, <3>4
  <2> HIDE DEF new
  <2> QED
    BY <2>1, <2>2 DEF Listed
<1>5. Listed(arch, index) = {}
  <2>1. ~Handled(arch, index)
    BY <1>3, InputFacts DEF Handled, LoopInv
  <2> QED
    BY <1>3, <2>1 DEF ListInv
<1>6. Completes(ch, config[index]) /\ ch.min \in Int /\ ch.max \in Int /\ graph \subseteq Nat
  BY <1>1, <1>3 DEF ChannelInv, ChannelConfig, InChannel, Bounded
<1>7. ASSUME DistinctNames, Ranged(index)
      PROVE  IF given[index].shortestPath THEN {given[index].min, given[index].max} \subseteq S
             ELSE S = Asked(arch, index)
  <2>1. Completes(config[index], given[index])
    BY <1>3, <1>7 DEF ConfigInv
  <2>2. ch.min = given[index].min /\ ch.max = given[index].max /\ ch.shortestPath = given[index].shortestPath
    BY <1>6, <1>7, <2>1 DEF Completes, Ranged
  <2> QED
    BY <1>1, <1>3, <2>2 DEF InRange, Asked
<1>8. ASSUME arch = 1, ~given[index].shortestPath, given[index].min = Unset, given[index].max = Unset
      PROVE  S = IF given[index].full THEN Offered(1, index) ELSE {Max(Offered(1, index))}
  <2>1. config = given
    BY <1>1, <1>8 DEF ConfigInv, InChannel
  <2>2. /\ ch.full = given[index].full /\ graph # {} /\ ch.max = Max(graph)
        /\ ch.min = IF ch.full THEN Min(graph) ELSE Max(graph)
        /\ ~ch.shortestPath
    BY <1>1, <1>6, <1>8, <2>1 DEF ChannelInv, InChannel, Completes
  <2>3. /\ Max(graph) \in graph /\ Max(graph) \in Nat /\ Min(graph) \in Nat
        /\ \A v \in graph : v \in Nat /\ Min(graph) <= v /\ v <= Max(graph)
    BY <1>3, <2>2, Extremes
  <2>4. S = {v \in graph : ch.min <= v /\ v <= ch.max}
    BY <1>1, <2>2 DEF InRange
  <2>5. CASE ch.full
    BY <1>3, <1>8, <2>2, <2>3, <2>4, <2>5
  <2>6. CASE ~ch.full
    BY <1>3, <1>8, <2>2, <2>3, <2>4, <2>6
  <2> QED
    BY <2>5, <2>6
<1>9. ASSUME NEW a \in 1 .. Len(Archs), NEW k \in DOMAIN given
      PROVE  /\ ~Handled(a, k)' => Listed(a, k)' = {}
             /\ Handled(a, k)' /\ <<a, k>> \notin errs' =>
                    RangeListed(a, k)' /\ (a = 1 => HeadListed(k)')
  <2>1. Handled(a, k)' <=> Handled(a, k) \/ (a = arch /\ k = index)
    BY <1>2, ChannelHandled
  <2>2. CASE a = arch /\ k = index
    <3>1. \A x : x = index => Listed(arch, x)' = S
      BY <1>2, <1>4, <1>5
    <3>2. RangeListed(a, k)'
      BY <1>2, <1>4, <1>5, <1>7, <2>2 DEF RangeListed, DistinctNames, validateReleaseChannels, Ranged, Asked, Offered
    <3>3. a = 1 => HeadListed(k)'
      BY <1>2, <1>4, <1>5, <1>8, <2>2 DEF HeadListed, Offered
    <3> QED
      BY <2>1, <2>2, <3>2, <3>3
  <2>3. CASE ~(a = arch /\ k = index)
    <3>1. Listed(a, k)' = Listed(a, k)
      BY <1>4, <2>3
    <3>2. RangeListed(a, k)' <=> RangeListed(a, k)
      BY <1>2, <3>1 DEF RangeListed, DistinctNames, validateReleaseChannels, Ranged, Asked, Offered
    <3>3. a = 1 => (HeadListed(k)' <=> HeadListed(k))
      BY <1>2, <3>1 DEF HeadListed, Offered
    <3> QED
      BY <1>2, <2>1, <2>3, <3>1, <3>2, <3>3 DEF ListInv
  <2> QED
    BY <2>2, <2>3
<1> QED
  BY <1>2, <1>9 DEF ListInv

\* Every step keeps the list complete for the channels handled.
LEMMA ListStep ==
    ASSUME LoopInv, ConfigInv, ChannelInv, ListInv, Next
    PROVE  ListInv'
<1>1. CASE RangeDownloads \/ PathDownloads
  BY <1>1, DownloadsStep
<1>2. CASE ChannelFails
  <2>1. UNCHANGED <<given, graphs, allImages, arch>> /\ index' = index + 1 /\ errs' = errs \cup {<<arch, index>>}
    BY <1>2 DEF ChannelFails, Continue, input
  <2>2. \A a \in 1 .. Len(Archs), k \in DOMAIN given : Handled(a, k)' <=> Handled(a, k) \/ (a = arch /\ k = index)
    BY <2>1, ChannelHandled
  <2>3. \A a, k : Listed(a, k)' = Listed(a, k)
    BY <2>1 DEF Listed
  <2> QED
    BY <2>1, <2>2, <2>3, NothingListed
<1>3. CASE NextChannel \/ FindMax \/ FindMin \/ Sign \/ Finished
  <2>1. UNCHANGED <<given, graphs, allImages, arch, index, errs>>
    BY <1>3 DEF NextChannel, FindMax, FindMin, Found, Sign, Finished, vars, input
  <2>2. \A a, k : Listed(a, k)' = Listed(a, k) /\ Handled(a, k)' = Handled(a, k)
    BY <2>1 DEF Listed, Handled
  <2> QED
    BY <2>1, <2>2, NothingListed
<1>4. CASE Update \/ CrossChannels \/ NoCrossChannels \/ CrossFails
  <2>1. UNCHANGED <<given, graphs>> /\ errs \subseteq errs' /\ index = Len(given) + 1
        /\ (UNCHANGED <<arch, index>> \/ (arch' = arch + 1 /\ index' = 1))
    BY <1>4, InputFacts DEF Update, CrossChannels, NoCrossChannels, CrossFails, NextArch, input, LoopInv, ConfigInv
  <2>2. \A a \in 1 .. Len(Archs), k \in DOMAIN given : Handled(a, k)' <=> Handled(a, k)
    <3>1. CASE UNCHANGED <<arch, index>>
      BY <3>1 DEF Handled
    <3>2. CASE arch' = arch + 1 /\ index' = 1
      BY <2>1, <3>2, ArchHandled
    <3> QED
      BY <2>1, <3>1, <3>2
  <2>3. \E S : allImages' = allImages \cup {[arch |-> arch, for |-> Cross, ver |-> v] : v \in S}
    <3>1. CASE allImages' = allImages
      <4>1. allImages' = allImages \cup {[arch |-> arch, for |-> Cross, ver |-> v] : v \in {}}
        BY <3>1
      <4> QED
        BY <4>1
    <3>2. CASE CrossChannels
      BY <3>2 DEF CrossChannels
    <3> QED
      BY <1>4, <3>1, <3>2 DEF Update, NoCrossChannels, CrossFails
  <2>4. \A a \in 1 .. Len(Archs), k \in DOMAIN given : Listed(a, k)' = Listed(a, k)
    <3>1. \A k \in DOMAIN given : k # Cross
      BY InputFacts DEF Cross
    <3> QED
      BY <2>1, <2>3, <3>1 DEF Listed
  <2> QED
    BY <2>1, <2>2, <2>4, NothingListed
<1> QED
  BY <1>1, <1>2, <1>3, <1>4 DEF Next

-----------------------------------------------------------------------------
\* The cross channel part takes the first and the last version of all OCP
\* channels, and what is found afterwards does not widen them.
LEMMA CrossStep ==
    ASSUME LoopInv, ConfigInv, ConfigInv', FoundInv, CrossInv, Next
    PROVE  CrossInv'
<1>1. DOMAIN config = DOMAIN given /\ \A k \in DOMAIN given : config[k] \in ChannelConfig
  BY InputFacts DEF ConfigInv
<1>2. CASE CrossChannels
  <2>1. UNCHANGED <<given, config>>
    BY <1>2 DEF CrossChannels, input
  <2>2. ocpChannels' = ocpChannels /\ DistinctNames' = DistinctNames
    BY <2>1 DEF ocpChannels, DistinctNames, validateReleaseChannels
  <2>3. \A k \in ocpChannels : config[k].min # Unset /\ config[k].max # Unset
    BY <1>2 DEF CrossChannels
  <2>4. PICK first \in FirstRelease, last \in LastRelease : cross' = cross \cup {<<arch, first, last>>}
    BY <1>2 DEF CrossChannels
  <2>5. ASSUME DistinctNames, NEW k \in ocpChannels
        PROVE  first <= config[k].min /\ config[k].max <= last
    <3>1. Named = ocpChannels
      BY <1>1, <2>5, InputFacts DEF Named, ocpChannels, DistinctNames, validateReleaseChannels, ConfigInv
    <3>2. \A j \in ocpChannels : config[j].min \in Int /\ config[j].max \in Int
      BY <1>1 DEF ocpChannels, ChannelConfig
    <3>3. PICK x \in Named : first = config[x].min /\ \A j \in Named : config[j].min >= config[x].min
      BY <2>4 DEF FirstRelease
    <3>4. PICK y \in Named : last = config[y].max /\ \A j \in Named : config[j].max <= config[y].max
      BY <2>4 DEF LastRelease
    <3> QED
      BY <2>5, <3>1, <3>2, <3>3, <3>4
  <2>6. CrossSpansAll'
    <3>1. ASSUME DistinctNames, NEW c \in cross', NEW k \in ocpChannels
          PROVE  c[2] <= config[k].min /\ config[k].max <= c[3]
      <4>1. CASE c \in cross
        BY <3>1, <4>1 DEF CrossInv, CrossSpansAll
      <4>2. CASE c = <<arch, first, last>>
        BY <2>5, <3>1, <4>2
      <4> QED
        BY <2>4, <4>1, <4>2
    <3> QED
      BY <2>1, <2>2, <3>1 DEF CrossSpansAll
  <2> QED
    BY <2>1, <2>2, <2>3, <2>6 DEF CrossInv
<1>3. CASE Update
  <2>1. given' = given /\ cross' = cross /\ config' = [k \in DOMAIN config |-> Updated(k)]
    BY <1>3 DEF Update, input
  <2>2. DistinctNames' = DistinctNames
    BY <2>1 DEF DistinctNames, validateReleaseChannels
  <2>3. ASSUME DistinctNames
        PROVE  /\ ocpChannels' = ocpChannels
               /\ \A k \in ocpChannels : Completes(config'[k], config[k])
    <3>1. \A k \in DOMAIN given : Completes(config'[k], config[k])
      BY <1>1, <2>1, <2>3, CompletesItself DEF Updated, FoundInv
    <3>2. DOMAIN config' = DOMAIN config /\ \A k \in DOMAIN given : config'[k].type = config[k].type
      BY <2>1, <3>1 DEF Completes
    <3> QED
      BY <1>1, <3>1, <3>2 DEF ocpChannels
  <2>4. ASSUME DistinctNames, cross # {}, NEW k \in ocpChannels
        PROVE  config'[k].min = config[k].min /\ config'[k].max = config[k].max
    BY <2>3, <2>4 DEF CrossInv, Completes
  <2>5. CASE DistinctNames /\ cross # {}
    BY <2>1, <2>2, <2>3, <2>4, <2>5 DEF CrossInv, CrossSpansAll
  <2>6. CASE ~(DistinctNames /\ cross # {})
    BY <2>1, <2>2, <2>6 DEF CrossInv, CrossSpansAll
  <2> QED
    BY <2>5, <2>6
<1>4. CASE UNCHANGED <<given, config, cross>>
  BY <1>4 DEF CrossInv, CrossSpansAll, ocpChannels, DistinctNames, validateReleaseChannels
<1> QED
  BY <1>2, <1>3, <1>4 DEF Next, ChannelFails, NextChannel, FindMax, FindMin, Found, RangeDownloads,
     PathDownloads, List, NoCrossChannels, CrossFails, Sign, Finished, vars, input

\* Before the first channel.
LEMMA InitInv == Init => ClientInv
<1> SUFFICES ASSUME Init PROVE ClientInv
  OBVIOUS
<1>1. Len(Archs) \in Nat \ {0} /\ given \in Seq(ChannelConfig) /\ Len(given) \in Nat
  BY ClientAssumption DEF Init
<1>2. LoopInv
  BY <1>1 DEF Init, LoopInv, InChannel
<1>3. ConfigInv
  BY <1>1, CompletesItself DEF Init, ConfigInv, InChannel
<1>4. FoundInv /\ ChannelInv /\ CrossInv
  BY DEF Init, FoundInv, ChannelInv, CrossInv, CrossSpansAll, InChannel
<1>5. ListInv
  <2>1. \A a \in 1 .. Len(Archs), k \in DOMAIN given : ~Handled(a, k) /\ Listed(a, k) = {}
    BY <1>1 DEF Init, Handled, Listed
  <2> QED
    BY <2>1 DEF ListInv
<1> QED
  BY <1>2, <1>3, <1>4, <1>5 DEF ClientInv

\* Every step of the client preserves the invariant.
LEMMA ClientStep == ClientInv /\ [Next]_vars => ClientInv'
<1> SUFFICES ASSUME ClientInv, [Next]_vars PROVE ClientInv'
  OBVIOUS
<1> USE DEF ClientInv
<1>1. CASE Next
  <2>1. LoopInv'
    BY <1>1, LoopStep
  <2>2. ConfigInv'
    BY <1>1, <2>1, ConfigStep
  <2>3. ChannelInv' /\ (pc' \in InChannel => config' = config /\ index' = index /\ index \in DOMAIN given)
    BY <1>1, <2>1, ChannelStep
  <2>4. FoundInv'
    BY <1>1, <2>3, FoundStep
  <2>5. ListInv'
    BY <1>1, ListStep
  <2>6. CrossInv'
    BY <1>1, <2>2, CrossStep
  <2> QED
    BY <2>1, <2>2, <2>3, <2>4, <2>5, <2>6
<1>2. CASE UNCHANGED vars
  <2>1. UNCHANGED <<given, graphs, config, pc, arch, index, ch, versionsByChannel, allImages, errs, cross>>
    BY <1>2 DEF vars, input
  <2>2. LoopInv' /\ ConfigInv' /\ FoundInv' /\ ChannelInv'
    BY <2>1 DEF LoopInv, ConfigInv, FoundInv, ChannelInv, graph, DistinctNames, validateReleaseChannels
  <2>3. CrossInv'
    BY <2>1 DEF CrossInv, CrossSpansAll, ocpChannels, DistinctNames, validateReleaseChannels
  <2>4. ListInv'
    <3>1. \A a, k : Listed(a, k)' = Listed(a, k) /\ Handled(a, k)' = Handled(a, k)
      BY <2>1 DEF Listed, Handled
    <3> QED
      BY <2>1, <3>1, NothingListed
  <2> QED
    BY <2>2, <2>3, <2>4
<1> QED
  BY <1>1, <1>2

\* The inductive invariant of the release client, for every number of
\* architectures and channels and every answer of the server.
THEOREM ClientInvariance == Spec => []ClientInv
BY InitInv, ClientStep, PTL DEF Spec

\* A channel gets the releases it asks for unless one of its own requests
\* fails: with a range exactly those of the range for every architecture,
\* without one the head or all of the channel for the first.
THEOREM ListsWhatIsAsked == Spec => []ChannelsMirrored
<1>1. ClientInv => ChannelsMirrored
  <2> SUFFICES ASSUME ClientInv, pc = "done" PROVE RangesMirrored /\ HeadsMirrored
    BY DEF ChannelsMirrored
  <2> USE DEF ClientInv
  <2>1. 1 \in 1 .. Len(Archs) /\ \A a \in 1 .. Len(Archs), k \in DOMAIN given : Handled(a, k)
    BY InputFacts DEF LoopInv, Handled
  <2>2. \A a \in 1 .. Len(Archs), k \in DOMAIN given :
            <<a, k>> \notin errs => RangeListed(a, k) /\ (a = 1 => HeadListed(k))
    BY <2>1 DEF ListInv
  <2>3. HeadsMirrored
    BY <2>1, <2>2 DEF HeadsMirrored, HeadListed
  <2>4. ASSUME DistinctNames, NEW p \in Unfailed, Ranged(p[2])
        PROVE  IF given[p[2]].shortestPath
               THEN {given[p[2]].min, given[p[2]].max} \subseteq Listed(p[1], p[2])
               ELSE Listed(p[1], p[2]) = Asked(p[1], p[2])
    <3>1. p[1] \in 1 .. Len(Archs) /\ p[2] \in DOMAIN given /\ <<p[1], p[2]>> \notin errs
      BY DEF Unfailed
    <3>2. RangeListed(p[1], p[2])
      BY <2>2, <3>1
    <3> QED
      BY <2>4, <3>2 DEF RangeListed
  <2> QED
    BY <2>3, <2>4 DEF RangesMirrored
<1> QED
  BY <1>1, ClientInvariance, PTL

\* The upgrades between channels span every OCP channel, for every
\* architecture, also after the versions found for a later architecture are
\* written back into the configuration.
THEOREM CrossPartSpans == Spec => []CrossSpansAll
<1>1. ClientInv => CrossSpansAll
  BY DEF ClientInv, CrossInv
<1> QED
  BY <1>1, ClientInvariance, PTL
=============================================================================
