------------------------------- MODULE ReleaseClient -------------------------------
(***************************************************************************)
(* pkg/release/cincinnati.go, GetReleaseReferenceImages: for every         *)
(* architecture and channel, find the versions that the configuration      *)
(* leaves open, list the releases of the range, write the versions found   *)
(* back into the configuration, and add the upgrades between channels.     *)
(* An error is logged, and what it concerns is left out.                   *)
(*                                                                         *)
(* A version is its rank.  Both kinds of client are the one the executor   *)
(* made, so OKD and OCP channels differ only for the cross channel part.   *)
(* Any request to the server may fail.                                     *)
(***************************************************************************)
EXTENDS Configuration, Integers, FiniteSets, FiniteSetsExt

CONSTANTS
    Archs,      \* the sequence of architectures
    Configs,    \* bound: the sequences of channels that may be configured
    Answers     \* bound: the versions that each architecture has in each channel

Unset == -1     \* a version that is not configured
Cross == 0      \* stands for the cross channel part where a channel's index is expected

\* ReleaseChannel
ChannelConfig == [name : STRING, type : {"ocp", "okd"}, min : Int, max : Int,
                  shortestPath : BOOLEAN, full : BOOLEAN]

\* An answer is finite: empty, or with a first and a last version.
Bounded(S) == S \subseteq Nat /\ (S = {} \/ \E first, last \in S : S \subseteq first .. last)

\* completeReleaseArchitectures sees to it that there is an architecture.
ASSUME ClientAssumption ==
    /\ Archs \in Seq(STRING) \ {<<>>}
    /\ Configs \subseteq Seq(ChannelConfig)
    /\ \A g \in Answers, a \in DOMAIN Archs, c \in Configs : \A k \in DOMAIN c :
           Bounded(g[Archs[a]][c[k].name])

VARIABLES
    given,      \* the configuration at the start
    graphs,     \* versions by architecture and channel
    config,     \* o.Config.Mirror.Platform.Channels
    pc,         \* "channel", "max", "min", "downloads", "update", "cross", "sign" or "done"
    arch, index,\* of the loops
    ch,         \* the channel at hand, completed step by step
    versionsByChannel,
    allImages,  \* releases listed, and the channel they are for
    errs,       \* where an error was met
    cross,      \* history: first and last version of each cross channel part
    imgs        \* what is returned

input == <<given, graphs>>
vars == <<input, config, pc, arch, index, ch, versionsByChannel, allImages, errs, cross, imgs>>

Init ==
    /\ given \in Configs /\ graphs \in Answers /\ config = given
    /\ pc = "channel" /\ arch = 1 /\ index = 1
    /\ ch = <<>> /\ versionsByChannel = [n \in {} |-> <<>>]
    /\ allImages = {} /\ errs = {} /\ cross = {} /\ imgs = {}

graph == graphs[Archs[arch]][ch.name]

\* An error is noted and the loop goes on with the next channel.
Continue == pc' = "channel" /\ index' = index + 1

\* Mutant: the loop over the channels ends at the first error.
ChannelFails_Breaks ==
    /\ pc \in {"max", "min", "downloads"} /\ pc' = "channel" /\ index' = Len(config) + 1
    /\ errs' = errs \cup {<<arch, index>>}
    /\ UNCHANGED <<input, config, arch, ch, versionsByChannel, allImages, cross, imgs>>

ChannelFails ==
    /\ pc \in {"max", "min", "downloads"} /\ Continue
    /\ errs' = errs \cup {<<arch, index>>}
    /\ UNCHANGED <<input, config, arch, ch, versionsByChannel, allImages, cross, imgs>>

-----------------------------------------------------------------------------
(***************************************************************************)
(* One channel.                                                            *)
(***************************************************************************)
FirstMissing(c) == IF c.max = Unset THEN "max" ELSE IF c.min = Unset THEN "min" ELSE "downloads"

\* versionsByChannel[ch.Name] = ch
Noted(c) ==
    [n \in DOMAIN versionsByChannel \cup {c.name} |->
        IF n = c.name THEN c ELSE versionsByChannel[n]]

\* With a range configured, Full is set as well.
NextChannel ==
    /\ pc = "channel" /\ index <= Len(config)
    /\ LET c == config[index]
           ranged == c.max # Unset /\ c.min # Unset
           done == IF ranged THEN [c EXCEPT !.full = TRUE] ELSE c
       IN /\ ch' = done /\ pc' = FirstMissing(c)
          /\ versionsByChannel' = IF ranged THEN Noted(done) ELSE versionsByChannel
    /\ UNCHANGED <<input, config, arch, index, allImages, errs, cross, imgs>>

\* Heads only: the minimum is the maximum as well.
WithMax(c, latest) ==
    [c EXCEPT !.max = latest, !.min = IF c.min = Unset /\ ~c.full THEN latest ELSE c.min]

Found(c) ==
    /\ ch' = c /\ pc' = FirstMissing(c)
    /\ versionsByChannel' = IF FirstMissing(c) = "downloads" THEN Noted(c) ELSE versionsByChannel
    /\ UNCHANGED <<input, config, arch, index, allImages, errs, cross, imgs>>

\* GetChannelMinOrMax; a channel without versions is an error.
FindMax == pc = "max" /\ graph # {} /\ Found(WithMax(ch, Max(graph)))
FindMin == pc = "min" /\ graph # {} /\ Found([ch EXCEPT !.min = Min(graph)])

List(S) ==
    /\ allImages' = allImages \cup {[arch |-> arch, for |-> index, ver |-> v] : v \in S}
    /\ Continue
    /\ UNCHANGED <<input, config, arch, ch, versionsByChannel, errs, cross, imgs>>

\* Mutant: the maximum is left out of the range.
InRange_Below(S, c) == {v \in S : c.min <= v /\ v < c.max}

\* GetUpdatesInRange
InRange(S, c) == {v \in S : c.min <= v /\ v <= c.max}

RangeDownloads == pc = "downloads" /\ ~ch.shortestPath /\ List(InRange(graph, ch))

\* Any path between two versions of the channel, or only the two.
PathDownloads ==
    /\ pc = "downloads" /\ ch.shortestPath /\ {ch.min, ch.max} \subseteq graph
    /\ \E S \in SUBSET InRange(graph, ch) : List(S \cup {ch.min, ch.max})

-----------------------------------------------------------------------------
(***************************************************************************)
(* After the channels of an architecture.                                  *)
(***************************************************************************)
NextArch == arch' = arch + 1 /\ index' = 1 /\ versionsByChannel' = [n \in {} |-> <<>>]
            /\ pc' = IF arch < Len(Archs) THEN "channel" ELSE "sign"

\* An entry takes the versions found under its name.
Updated(k) ==
    IF config[k].name \in DOMAIN versionsByChannel THEN versionsByChannel[config[k].name]
    ELSE config[k]

Update ==
    /\ pc = "channel" /\ index > Len(config)
    /\ config' = [k \in DOMAIN config |-> Updated(k)]
    /\ IF Len(config) > 1 THEN pc' = "cross" /\ UNCHANGED <<arch, index, versionsByChannel>>
                          ELSE NextArch
    /\ UNCHANGED <<input, ch, allImages, errs, cross, imgs>>

ocpChannels == {k \in DOMAIN config : config[k].type = "ocp"}

\* findReleases: a map by name, so the last of the channels of one name.
Named == {k \in ocpChannels : \A j \in ocpChannels : config[j].name = config[k].name => j <= k}

\* Mutant: the smallest of the maxima.
LastRelease_Least == {config[k].max : k \in {x \in Named : \A j \in Named : config[j].max >= config[x].max}}

\* FindRelease; of equal versions any may come last in the sorted keys.
FirstRelease == {config[k].min : k \in {x \in Named : \A j \in Named : config[j].min >= config[x].min}}
LastRelease == {config[k].max : k \in {x \in Named : \A j \in Named : config[j].max <= config[x].max}}

\* CalculateUpgrades (module CrossChannel) may return any of these versions.
Known == UNION {graphs[Archs[arch]][n] : n \in DOMAIN graphs[Archs[arch]]}

CrossChannels ==
    /\ pc = "cross" /\ ocpChannels # {}
    /\ \A k \in ocpChannels : config[k].min # Unset /\ config[k].max # Unset
    /\ \E first \in FirstRelease, last \in LastRelease :
           /\ cross' = cross \cup {<<arch, first, last>>}
           /\ \E S \in SUBSET Known :
                  allImages' = allImages \cup {[arch |-> arch, for |-> Cross, ver |-> v] : v \in S}
    /\ NextArch
    /\ UNCHANGED <<input, config, ch, errs, imgs>>

\* Only OKD channels: nothing to do.
NoCrossChannels ==
    /\ pc = "cross" /\ ocpChannels = {} /\ NextArch
    /\ UNCHANGED <<input, config, ch, allImages, errs, cross, imgs>>

\* A version that is still open, or an error of CalculateUpgrades.
CrossFails ==
    /\ pc = "cross" /\ ocpChannels # {} /\ NextArch
    /\ errs' = errs \cup {<<arch, Cross>>}
    /\ UNCHANGED <<input, config, ch, allImages, cross, imgs>>

\* GenerateReleaseSignatures: all images or none (module Signatures).  The
\* errors met are logged and the list is returned all the same.
Sign ==
    /\ pc = "sign" /\ pc' = "done"
    /\ imgs' \in {allImages, {}}
    /\ UNCHANGED <<input, config, arch, index, ch, versionsByChannel, allImages, errs, cross>>

Finished == pc = "done" /\ UNCHANGED vars

Next ==
    \/ ChannelFails \/ NextChannel \/ FindMax \/ FindMin \/ RangeDownloads \/ PathDownloads
    \/ Update \/ CrossChannels \/ NoCrossChannels \/ CrossFails \/ Sign \/ Finished

Spec == Init /\ [][Next]_vars

-----------------------------------------------------------------------------
(***************************************************************************)
(* Properties.                                                             *)
(***************************************************************************)
Listed(a, k) == {i.ver : i \in {x \in allImages : x.arch = a /\ x.for = k}}
Offered(a, k) == graphs[Archs[a]][given[k].name]
Ranged(k) == given[k].min # Unset /\ given[k].max # Unset
Unfailed == {p \in (1 .. Len(Archs)) \X DOMAIN given : p \notin errs}
DistinctNames == validateReleaseChannels([channels |-> given])

\* The releases of a range that the configuration gives.
Asked(a, k) == {v \in Offered(a, k) : given[k].min <= v /\ v <= given[k].max}

\* Of a channel with a range, exactly the releases of the range.
RangesMirrored ==
    DistinctNames => \A p \in Unfailed :
        Ranged(p[2]) => IF given[p[2]].shortestPath
                        THEN {given[p[2]].min, given[p[2]].max} \subseteq Listed(p[1], p[2])
                        ELSE Listed(p[1], p[2]) = Asked(p[1], p[2])

\* For the first architecture a channel without a range means its head, or
\* with full all of it (types_config.go:84-86, 90).
HeadsMirrored ==
    \A k \in DOMAIN given :
        /\ <<1, k>> \notin errs /\ ~given[k].shortestPath
        /\ given[k].min = Unset /\ given[k].max = Unset
        => Listed(1, k) = IF given[k].full THEN Offered(1, k) ELSE {Max(Offered(1, k))}

\* What a channel asks for is listed unless its own requests fail, for every
\* architecture when it gives a range: failures of other channels, and the
\* versions found for other channels and architectures, take nothing from it.
ChannelsMirrored == pc = "done" => RangesMirrored /\ HeadsMirrored

\* The upgrades between channels start no later than any OCP channel and end
\* no earlier, for every architecture.
CrossSpansAll ==
    DistinctNames => \A c \in cross : \A k \in ocpChannels :
        c[2] <= config[k].min /\ config[k].max <= c[3]
=============================================================================
