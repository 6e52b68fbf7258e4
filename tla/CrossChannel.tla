------------------------------- MODULE CrossChannel -------------------------------
(***************************************************************************)
(* pkg/release/core-cincinnati.go, CalculateUpgrades and calculate: the    *)
(* upgrades from a version of one channel to a version of another, through *)
(* the channels of the minor versions in between.                          *)
(*                                                                         *)
(* Every question to the Cincinnati server is an HTTP request of its own   *)
(* and may fail; nothing makes the answers to two of them agree.  So the   *)
(* contents of the channels are left open: the head of a channel is any    *)
(* version, a version may or may not be in a channel, and an upgrade path  *)
(* is any that UpgradePath can return on a graph of upgrades to newer      *)
(* versions, the empty one included.  Where a name is one of UpgradePath's *)
(* too, it has "cross" in front.                                           *)
(***************************************************************************)
EXTENDS Integers, Sequences

CONSTANTS
    Versions,    \* bound: the number of versions
    MaxMinor     \* bound: the newest minor version that has channels

ASSUME ChannelAssumption == Versions \in Nat \ {0} /\ MaxMinor \in Nat

Version == 0 .. Versions - 1
Channel == [prefix : {"stable", "eus"}, minor : 0 .. MaxMinor]
NoVersion == -1

VARIABLES
    sourceChannel, targetChannel,   \* arguments of CalculateUpgrades
    startVer, crossReqVer,
    crossPc,     \* "start", "calculate", "return" or "done"
    chan,        \* the channel that the last upgrades are from
    head,        \* the version reached in it
    upgrades,    \* the upgrades of the channels so far
    scanned,     \* how many of them the last loop has gone through
    current, requested, finalUpgrades,   \* the results
    crossResult, \* "none", "ok" or "error"
    blocked,     \* history: a version was not found in the next channel
    legs         \* history: the path found in each channel

args == <<sourceChannel, targetChannel, startVer, crossReqVer>>
crossVars ==
    <<args, crossPc, chan, head, upgrades, scanned, current, requested, finalUpgrades, crossResult, blocked, legs>>

CrossInit ==
    /\ sourceChannel \in Channel /\ targetChannel \in Channel
    /\ startVer \in Version /\ crossReqVer \in Version
    /\ crossPc = "start" /\ chan = sourceChannel /\ head = startVer
    /\ upgrades = <<>> /\ scanned = 0
    /\ current = NoVersion /\ requested = NoVersion /\ finalUpgrades = <<>>
    /\ crossResult = "none" /\ blocked = FALSE /\ legs = <<>>

Elements(s) == {s[k] : k \in DOMAIN s}
Ascending(s) == \A j, k \in DOMAIN s : j < k => s[j] < s[k]

\* The paths that GetUpdates may return.
ChannelUpdates(from, to) ==
    IF from = to THEN {<<from>>}
    ELSE {<<>>} \cup {s \in UNION {[1 .. n -> from .. to] : n \in 2 .. Versions} :
                         s[1] = from /\ s[Len(s)] = to /\ Ascending(s)}

\* A request fails, or a version is not in the channel it is looked up in.
Fails ==
    /\ crossPc \in {"start", "calculate"} /\ crossPc' = "done" /\ crossResult' = "error"
    /\ UNCHANGED <<args, chan, head, upgrades, scanned, current, requested, finalUpgrades, blocked, legs>>

-----------------------------------------------------------------------------
\* One channel: no other channel is asked.
WithinChannel ==
    /\ crossPc = "start" /\ sourceChannel = targetChannel
    /\ \E s \in ChannelUpdates(startVer, crossReqVer) : finalUpgrades' = s /\ legs' = <<s>>
    /\ current' = startVer /\ requested' = crossReqVer
    /\ crossPc' = "done" /\ crossResult' = "ok"
    /\ UNCHANGED <<args, chan, head, upgrades, scanned, blocked>>

\* Two channels of one minor version: only the target is asked.
SameMinor ==
    /\ crossPc = "start" /\ sourceChannel # targetChannel
    /\ sourceChannel.minor = targetChannel.minor
    /\ blocked' \in BOOLEAN
    /\ current' = (IF blocked' THEN crossReqVer ELSE startVer) /\ requested' = crossReqVer
    /\ \E s \in ChannelUpdates(current', crossReqVer) : finalUpgrades' = s /\ legs' = <<s>>
    /\ crossPc' = "done" /\ crossResult' = "ok" /\ chan' = targetChannel
    /\ UNCHANGED <<args, head, upgrades, scanned>>

\* The first channel, from the start to its latest version.
FirstChannel ==
    /\ crossPc = "start" /\ sourceChannel.minor # targetChannel.minor /\ crossPc' = "calculate"
    /\ \E latest \in Version :
           /\ head' = latest
           /\ \E s \in ChannelUpdates(startVer, latest) : upgrades' = s /\ legs' = <<s>>
    /\ current' = startVer
    /\ UNCHANGED <<args, chan, scanned, requested, finalUpgrades, crossResult, blocked>>

-----------------------------------------------------------------------------
(***************************************************************************)
(* One level of the recursion of calculate.                                *)
(***************************************************************************)

IsTarget(minor) == minor = targetChannel.minor

NextChannel ==
    LET minor == chan.minor + 1
    IN IF IsTarget(minor) THEN targetChannel ELSE [chan EXCEPT !.minor = minor]

\* Mutant: the target channel too is followed up to its latest version.
TargetVersions_Latest == Version

TargetVersions == IF IsTarget(chan.minor + 1) THEN {crossReqVer} ELSE Version

\* handleBlockedEdges: the head of the last channel is not in the next one.
Blocked ==
    /\ crossPc = "calculate" /\ chan.minor < MaxMinor /\ crossPc' = "return"
    /\ requested' \in TargetVersions
    /\ blocked' = TRUE
    /\ UNCHANGED <<args, chan, head, upgrades, scanned, current, finalUpgrades, crossResult, legs>>

\* Mutant: every path starts from the version of the first call.
Upgrade_FromStart ==
    /\ crossPc = "calculate" /\ chan.minor < MaxMinor
    /\ \E to \in TargetVersions : \E s \in ChannelUpdates(startVer, to) :
           /\ requested' = to /\ head' = to
           /\ upgrades' = upgrades \o s /\ legs' = Append(legs, s)
    /\ chan' = NextChannel
    /\ crossPc' = IF IsTarget(chan.minor + 1) THEN "return" ELSE "calculate"
    /\ UNCHANGED <<args, scanned, current, finalUpgrades, crossResult, blocked>>

Upgrade ==
    /\ crossPc = "calculate" /\ chan.minor < MaxMinor
    /\ \E to \in TargetVersions : \E s \in ChannelUpdates(head, to) :
           /\ requested' = to /\ head' = to
           /\ upgrades' = upgrades \o s /\ legs' = Append(legs, s)
    /\ chan' = NextChannel
    /\ crossPc' = IF IsTarget(chan.minor + 1) THEN "return" ELSE "calculate"
    /\ UNCHANGED <<args, scanned, current, finalUpgrades, crossResult, blocked>>

\* The first occurrence of every image is kept.
Keep ==
    /\ crossPc = "return" /\ scanned < Len(upgrades) /\ scanned' = scanned + 1
    /\ LET v == upgrades[scanned + 1]
       IN finalUpgrades' = IF v \in Elements(finalUpgrades) THEN finalUpgrades ELSE Append(finalUpgrades, v)
    /\ UNCHANGED <<args, crossPc, chan, head, upgrades, current, requested, crossResult, blocked, legs>>

CrossReturn ==
    /\ crossPc = "return" /\ scanned = Len(upgrades) /\ crossPc' = "done" /\ crossResult' = "ok"
    /\ UNCHANGED <<args, chan, head, upgrades, scanned, current, requested, finalUpgrades, blocked, legs>>

CrossFinished == crossPc = "done" /\ UNCHANGED crossVars

CalculateUpgrades ==
    Fails \/ WithinChannel \/ SameMinor \/ FirstChannel \/ Blocked \/ Upgrade \/ Keep \/ CrossReturn

CrossNext == CalculateUpgrades \/ CrossFinished

CrossSpec == CrossInit /\ [][CrossNext]_crossVars

-----------------------------------------------------------------------------
(***************************************************************************)
(* Properties.                                                             *)
(***************************************************************************)
\* Some channel offers the upgrade from v to w.
Offered(v, w) ==
    \E s \in Elements(legs) : \E j \in 1 .. Len(s) - 1 : s[j] = v /\ s[j + 1] = w

\* When no version is blocked and there is a path in every channel, the
\* upgrades of all channels form one chain from the start to the requested
\* version, in which every step is an upgrade that some channel offers.
UpgradesConnect ==
    crossResult = "ok" /\ ~blocked /\ <<>> \notin Elements(legs) =>
        /\ finalUpgrades[1] = startVer /\ finalUpgrades[Len(finalUpgrades)] = crossReqVer
        /\ \A k \in 1 .. Len(finalUpgrades) - 1 : Offered(finalUpgrades[k], finalUpgrades[k + 1])

\* core-cincinnati.go:244, "so we don't exceed the maximum version": unless a
\* version is blocked, the last version is the requested one.
UnblockedReachesRequested ==
    crossResult = "ok" /\ ~blocked => requested = crossReqVer /\ current = startVer
=============================================================================
