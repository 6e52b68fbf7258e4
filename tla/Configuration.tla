------------------------------- MODULE Configuration -------------------------------
(***************************************************************************)
(* pkg/config: how the image set configuration is read.  A configuration   *)
(* is a record; a file is how far its data can be read, and what it says:  *)
(*   "unreadable"  no file, not YAML, or of another kind;                  *)
(*   "loose"       it has a field that the types do not know;              *)
(*   "strict"      it can be decoded.                                      *)
(* ReadConfig returns a configuration and an error at the same time, and   *)
(* its callers differ in whether they look at the error.                   *)
(***************************************************************************)
EXTENDS Sequences

NoRelease == "none"
NoTarget == "none"

\* The zero value of ImageSetConfiguration.
EmptyConfig ==
    [channels |-> <<>>, architectures |-> <<>>, release |-> NoRelease,
     operators |-> <<>>, additionalImages |-> <<>>]

\* completeReleaseArchitectures
Complete(cfg) ==
    IF cfg.channels # <<>> /\ cfg.architectures = <<>>
    THEN [cfg EXCEPT !.architectures = <<"amd64">>] ELSE cfg

\* The reference a catalog is built under: its own, parsed into registry and
\* namespace, name and version, with the name of the target it is given and
\* with its tag in place of a tag or a digest.
GetUniqueName(op) ==
    [at |-> op.ref.at,
     name |-> IF op.targetName = NoTarget THEN op.ref.name ELSE op.targetName,
     version |-> IF op.targetTag = NoTarget THEN op.ref.version ELSE op.targetTag]

validateOperatorOptions(cfg) ==
    \A j, k \in DOMAIN cfg.operators :
        GetUniqueName(cfg.operators[j]) = GetUniqueName(cfg.operators[k]) => j = k

validateReleaseChannels(cfg) ==
    \A j, k \in DOMAIN cfg.channels : cfg.channels[j].name = cfg.channels[k].name => j = k

Validate(cfg) == validateOperatorOptions(cfg) /\ validateReleaseChannels(cfg)

\* The decoder notes an unknown field and goes on, so LoadConfig returns the
\* rest of the configuration with its error; only the defaults are missing.
\* A configuration that is not valid is returned whole.
ReadConfig(file) ==
    CASE file.data = "unreadable" -> [cfg |-> EmptyConfig, err |-> TRUE]
      [] file.data = "loose" -> [cfg |-> file.cfg, err |-> TRUE]
      [] file.data = "strict" -> [cfg |-> Complete(file.cfg), err |-> ~Validate(Complete(file.cfg))]
=============================================================================
