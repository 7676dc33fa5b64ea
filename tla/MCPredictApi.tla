---------------------------- MODULE MCPredictApi ----------------------------
(* An instance of PredictApi for TLC: a double-precision model in two       *)
(* versions, one of which has an infinite bound, and a single-precision one *)
(* whose upper bound no float32 hits.                                       *)
EXTENDS PredictApi, TLC

CONSTANTS battery, reactor

Served(lo, hi, dtype, uq, raises) ==
    [inputs |-> <<"x", "y">>,
     lo |-> [x |-> lo, y |-> 0],
     hi |-> [x |-> hi, y |-> 8],
     dtype |-> dtype, variance |-> uq, supports_uq |-> uq, mayRaise |-> raises]

MCModels ==
    <<battery, <<1, 0, 0>>>> :> Served(1, 6, "float64", TRUE, FALSE)
    @@ <<battery, <<1, 10, 0>>>> :> Served(1, PlusInf, "float64", TRUE, TRUE)
    @@ <<reactor, <<1, 0, 0>>>> :> Served(1, 6, "float32", FALSE, FALSE)

Row(x) == [x |-> x, y |-> 4]

\* One batch of each fate: too long, served, not finite either way, and one row
\* with three kinds of error before a good one.  Text comes with the example of
\* the model whose bound is infinite.
MCBatch ==
    {<<Row(2), Row(3), Row(2)>>, <<Row(2), Row(6)>>, <<Row(PlusInf), Row(NaN)>>,
     <<[x |-> 0, z |-> 0], Row(2)>>}
=============================================================================
