-------------------------- MODULE MCCanonicalizer --------------------------
(* Instances of the canonicalizer process for TLC.                         *)
EXTENDS CanonicalizerProcess

Mixed == {<<"L2_DEPTH", "malformed", "BINANCE">>}

AllKinds == [Msgs -> Kinds]
===========================================================================
