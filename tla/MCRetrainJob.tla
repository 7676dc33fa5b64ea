---------------------------- MODULE MCRetrainJob ----------------------------
(* An instance of RetrainJob for TLC: two configs, and a push that comes    *)
(* while the job of another one runs.                                       *)
EXTENDS RetrainJob

CONSTANTS battery, reactor

MCConfig == {battery, reactor}
=============================================================================
