------------------------------ MODULE MCCatalogFilter ------------------------------
(***************************************************************************)
(* Catalogs and configurations for model checking CatalogFilter: a package *)
(* "p" with two channels that may share a bundle, its objects in order or  *)
(* not, and a package "q" with one bundle.  Other catalogs, before or      *)
(* after this one, may give channels to packages of the same names.        *)
(***************************************************************************)
EXTENDS CatalogFilter

Package(default) == [schema |-> "olm.package", default |-> default]
ChannelOf(name, entries) == [schema |-> "olm.channel", name |-> name, entries |-> entries]
Bundle(name) == [schema |-> "olm.bundle", name |-> name]

TwoPackages == <<"p", "q">>

PFiles ==
    UNION {LET P == Package("alpha")
               A == ChannelOf("alpha", as)
               B == ChannelOf("beta", bs)
           IN { <<P, A, B, Bundle("a1"), Bundle("a2"), Bundle("b1")>>,
                <<P, Bundle("a1"), B, A, Bundle("b1"), Bundle("a2")>>,
                <<A, P, B, Bundle("b1"), Bundle("a2"), Bundle("a1")>> } :
             as \in {<<"a1", "a2">>, <<"a2", "a1">>},
             bs \in {<<"b1">>, <<"a1", "b1">>}}

QFile == <<Package("gamma"), ChannelOf("gamma", <<"c1">>), Bundle("c1")>>

Files == {[p |-> f, q |-> QFile] : f \in PFiles}

Numbering ==
    {[a1 |-> x, a2 |-> y, b1 |-> z, c1 |-> 1] :
        x \in {Malformed, 0, 1, 3}, y \in {1, 2}, z \in {0, 2}}

Include(name, min, max) == [name |-> name, min |-> min, max |-> max]
Whole(name) == Include(name, None, None)
With(name, channels) == [name |-> name, channels |-> channels]

Alphas == {Include("alpha", min, max) : min \in {None, Malformed, 0, 1}, max \in {None, 1, 2}}
PConfigs == {With("p", s) : s \in {<<>>} \cup {<<a>> : a \in Alphas} \cup {<<Whole("beta"), a>> : a \in Alphas}}

Alone ==
    [packages : {<<>>, <<With("missing", <<>>)>>}
                \cup {<<c>> : c \in PConfigs}
                \cup {<<c, With("q", <<>>)>> : c \in PConfigs},
     full : BOOLEAN, before : {<<>>}, after : {<<>>}]

Other(full) == [packages |-> <<With("p", <<Include("alpha", 0, 1)>>), With("q", <<Whole("gamma")>>)>>, full |-> full]
AmongOthers ==
    [packages : {<<>>, <<With("p", <<>>)>>, <<With("p", <<Whole("beta")>>), With("q", <<>>)>>},
     full : BOOLEAN, before : {<<>>, <<Other(TRUE)>>}, after : {<<>>, <<Other(FALSE)>>}]

OperatorConfigs == Alone \cup AmongOthers
=============================================================================
