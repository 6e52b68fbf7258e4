------------------------------ MODULE MCReleaseClient ------------------------------
(***************************************************************************)
(* Configurations and answers for model checking ReleaseClient.            *)
(***************************************************************************)
EXTENDS ReleaseClient

TwoArchs == <<"amd64", "arm64">>

Entry(name, type, min, max, path, full) ==
    [name |-> name, type |-> type, min |-> min, max |-> max, shortestPath |-> path, full |-> full]

\* Ranges, open and half open, of the first channel.
Firsts ==
    {Entry("a", "ocp", min, max, path, full) :
        min \in {Unset, 0}, max \in {Unset, 1}, path \in BOOLEAN, full \in BOOLEAN}

\* The second channel: of either type, or the first channel once more.
Seconds ==
    {Entry("b", "ocp", Unset, Unset, FALSE, FALSE), Entry("b", "ocp", 1, 2, FALSE, FALSE),
     Entry("b", "okd", Unset, Unset, FALSE, TRUE), Entry("a", "ocp", 1, 2, FALSE, FALSE)}

ChannelConfigs ==
    {<<f>> : f \in Firsts} \cup {<<f, s>> : f \in Firsts, s \in Seconds}
    \cup {<<Entry("a", "okd", 0, 1, FALSE, FALSE), Entry("b", "okd", 0, Unset, FALSE, FALSE)>>}

\* Channels that offer the same to both architectures, and that do not.
Offers ==
    {[amd64 |-> [a |-> x, b |-> {1, 2}], arm64 |-> [a |-> y, b |-> z]] :
        x \in {{}, {0, 1}, {0, 1, 2}}, y \in {{0, 1}, {0, 2}}, z \in {{}, {1, 2}}}
=============================================================================
