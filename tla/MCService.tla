------------------------------ MODULE MCService ------------------------------
(* Instances of Service for TLC: two versions, the first and its successor.  *)
EXTENDS Service

TwoVersions == {<<1, 0, 0>>, <<1, 1, 0>>}

TwoScores == 1 .. 2
=============================================================================
