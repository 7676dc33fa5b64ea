----------------------------- MODULE MCRetrain -----------------------------
(* Instances of Retrain for TLC.                                           *)
EXTENDS Retrain

\* What at most three starts reach from 1.0.0 with one kind of bump.
MinorVersions == {<<1, n, 0>> : n \in 0 .. 3}

\* What three starts reach from 1.0.0 with minor and patch bumps.
MixedVersions == {<<1, n, k>> : n, k \in 0 .. 3}

Scores == 1 .. 3
=============================================================================
