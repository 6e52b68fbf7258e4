---------------------------------- MODULE MCDiffer ----------------------------------
(***************************************************************************)
(* Configurations for model checking Differ.                               *)
(***************************************************************************)
EXTENDS Differ

Channel(v) == [name |-> "stable", min |-> v]
Package(n, v) == [name |-> n, min |-> v]
Catalog(n, packages) ==
    [catalog |-> n, ref |-> [at |-> "redhat", name |-> n, version |-> "v4.12"],
     targetName |-> NoTarget, targetTag |-> NoTarget, packages |-> packages]
Image(n) == [name |-> n]

Config(channels, operators, images) ==
    [EmptyConfig EXCEPT !.channels = channels, !.operators = operators, !.additionalImages = images]

albo == Package("albo", 1)
redhat == Catalog("redhat", <<albo>>)
certified == Catalog("certified", <<Package("proxy", 1)>>)
ubi7 == Image("ubi7")
ubi8 == Image("ubi8")
ubi9 == Image("ubi9")

\* Images added, dropped, reordered and named twice; a catalog replaced, given
\* another package or version, dropped, joined by a second one and reordered;
\* a channel changed and dropped; catalogs of one name, by themselves or through
\* a target, which is not valid, and a catalog built under two tags, which is; a
\* catalog that is mirrored as an image.
SomeConfigs ==
    {Config(<<>>, ops, imgs) :
        ops \in {<<redhat>>, <<Catalog("certified", <<albo>>)>>},
        imgs \in {<<ubi8, ubi9>>, <<ubi9, ubi7, ubi8>>, <<ubi7, ubi7>>}}
    \cup {Config(<<>>, ops, <<ubi8>>) :
        ops \in {<<redhat, certified>>, <<certified, redhat>>, <<redhat, redhat>>,
                 <<redhat, [redhat EXCEPT !.targetTag = "v4.13"]>>,
                 <<redhat, [certified EXCEPT !.targetName = "redhat"]>>,
                 <<Catalog("redhat", <<Package("albo", 2)>>), Catalog("certified", <<albo>>)>>}}
    \cup {Config(<<Channel(1)>>, <<>>, <<ubi8>>), Config(<<Channel(2)>>, <<Catalog("redhat", <<>>)>>, <<>>),
          Config(<<>>, <<certified>>, <<Image("redhat")>>)}

\* ubi8 and ubi9 are two digests of one image.
SomeImagePath ==
    [n \in {"ubi7", "ubi8", "ubi9", "redhat", "certified"} |->
        IF n \in {"ubi8", "ubi9"} THEN "ubi" ELSE n]
=============================================================================
