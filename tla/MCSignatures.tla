------------------------------- MODULE MCSignatures -------------------------------
(***************************************************************************)
(* A list of images for model checking Signatures, with one image twice,   *)
(* as the two ends of a shortest path are, and messages whose signature    *)
(* does not verify.                                                        *)
(***************************************************************************)
EXTENDS Signatures, TLC

Repeated == <<"d1", "d2", "d1">>
Altered == ("d1" :> "altered1" @@ "d2" :> "altered2")
=============================================================================
