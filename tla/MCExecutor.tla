-------------------------------- MODULE MCExecutor --------------------------------
(***************************************************************************)
(* Image set configurations for model checking Executor.                   *)
(***************************************************************************)
EXTENDS Executor

OneRelease == <<"4.12">>
TwoReleases == <<"4.12", "4.13">>
OneReleaseImages == [x \in {"4.12"} |-> {"cli", "etcd"}]
TwoReleaseImages == [x \in {"4.12", "4.13"} |-> IF x = "4.12" THEN {"cli", "etcd"} ELSE {"cli"}]

\* A release keeps all its images in one repository.  Both components of 4.12
\* have one pull spec, which a registry holds once.
Spec412 == [host |-> "quay.io", path |-> "ocp@sha256:1"]
OnePullSpecs == [x \in {"4.12"} |-> [i \in {"cli", "etcd"} |-> Spec412]]
TwoPullSpecs ==
    [x \in {"4.12", "4.13"} |->
        IF x = "4.12" THEN [i \in {"cli", "etcd"} |-> Spec412]
        ELSE [i \in {"cli"} |-> [host |-> "quay.io", path |-> "ocp@sha256:2"]]]

NoCatalog == <<>>
OneCatalog == <<"redhat">>
TwoCatalogs == <<"redhat", "certified">>
NoImages == [x \in {} |-> <<>>]
OneCatalogImages == [x \in {"redhat"} |-> <<"bundle", "proxy">>]
TwoCatalogImages == [x \in {"redhat", "certified"} |->
                        IF x = "redhat" THEN <<"bundle">> ELSE <<"proxy", "agent">>]

\* A component directory of its own for every image, or one for both.
OwnComponent == [i \in {"bundle", "proxy"} |-> i]
SameComponent == [i \in {"bundle", "proxy", "agent"} |-> "albo"]

NoAdditional == <<>>
TwoTags == <<"ubi9:latest", "ubi9:9.2">>
NoCacheDir == [x \in {} |-> "none"]
TagsCacheDir == [x \in {"ubi9:latest", "ubi9:9.2"} |-> "ubi9"]
=============================================================================
