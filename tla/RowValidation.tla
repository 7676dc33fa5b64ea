--------------------------- MODULE RowValidation ---------------------------
(***************************************************************************)
(* src/api/schemas.py: what validate_batch() makes of a batch, and the     *)
(* tensor that registry_loader.py builds of the result.                    *)
(*                                                                         *)
(* Numbers are counted in units of a double's spacing: a float64 is an     *)
(* integer, a float32 a multiple of SingleStep, plus the three values that *)
(* are not finite.  Text stands for anything Pydantic cannot read as a     *)
(* number, null among it; what it can read (a numeric string, a boolean)   *)
(* is that number.                                                         *)
(***************************************************************************)
EXTENDS Integers, Sequences, FiniteSets, Functions

CONSTANTS NaN, PlusInf, MinusInf, Text,
          SingleStep,     \* spacing of float32 in units of float64's
          ExampleStep     \* one unit of an example's last decimal, likewise

NonFinite == {NaN, PlusInf, MinusInf}
Number == Int \cup NonFinite

ASSUME StepAssumption == SingleStep \in Nat \ {0} /\ ExampleStep \in Nat \ {0}
ASSUME NumberAssumption ==
    /\ \A x \in NonFinite : x \notin Int
    /\ NaN \notin {PlusInf, MinusInf} /\ PlusInf # MinusInf
    /\ Text \notin Number

\* IEEE <=: false as soon as one side is NaN.
AtMost(a, b) ==
    /\ NaN \notin {a, b}
    /\ \/ a = MinusInf \/ b = PlusInf
       \/ a \in Int /\ b \in Int /\ a <= b

\* The compiled field: float, ge=min, le=max.  Whether a bound check stops a
\* NaN depends on which way Pydantic's core writes the comparison: nanPasses.
FieldAccepts(v, lo, hi, nanPasses) ==
    \/ v = NaN /\ nanPasses
    \/ AtMost(lo, v) /\ AtMost(v, hi)

\* build_row_model(): required fields, no others, each a number in its bounds.
RowErrors(m, row, nanPasses) ==
    {<<n, "missing">> : n \in Range(m.inputs) \ DOMAIN row}
    \cup {<<n, "extra_forbidden">> : n \in DOMAIN row \ Range(m.inputs)}
    \cup {<<n, "not_a_number">> : n \in {x \in DOMAIN row \cap Range(m.inputs) : row[x] = Text}}
    \cup {<<n, "out_of_bounds">> :
            n \in {x \in DOMAIN row \cap Range(m.inputs) :
                     row[x] # Text /\ ~ FieldAccepts(row[x], m.lo[x], m.hi[x], nanPasses)}}

\* Mutant: the guard on non-finite values is taken for redundant.
NoNonFinite(m, row) == {}

\* The guard behind the bounds: values of a validated row that are not finite.
NonFiniteIn(m, row) == {<<n, "not_finite">> : n \in {x \in Range(m.inputs) : row[x] \in NonFinite}}

Violations(m, row, nanPasses) ==
    LET errors == RowErrors(m, row, nanPasses)
    IN  IF errors # {} THEN errors ELSE NonFiniteIn(m, row)

\* One row of the matrix, in the manifest's column order.
RowValues(m, row) == [i \in DOMAIN m.inputs |-> row[m.inputs[i]]]

\* Mutant: rows that violate are dropped, the others served.
OffendersDropped(m, rows, nanPasses) == {}

\* All violations of the batch, row by row; any of them rejects the batch.
BatchViolations(m, rows, nanPasses) ==
    UNION {{i} \X Violations(m, rows[i], nanPasses) : i \in DOMAIN rows}

\* The rows that pass.
Passing(m, rows, nanPasses) == {i \in DOMAIN rows : Violations(m, rows[i], nanPasses) = {}}

\* matrix.append(), for one row after the other of those that pass.
Matrix(m, rows, nanPasses) ==
    LET passing == Passing(m, rows, nanPasses)
        Place(k) == CHOOSE i \in passing : Cardinality({j \in passing : j <= i}) = k
    IN  [k \in 1 .. Cardinality(passing) |-> RowValues(m, rows[Place(k)])]

\* A parameter whose bounds JSON can carry: the schema admits an infinite one.
Bounded(m, n) == {m.lo[n], m.hi[n]} \subseteq Int

\* _error(): a violation states the bounds of its parameter, if the manifest has
\* it, as floats that stay infinite, and JSONResponse raises on those.
Renderable(m, violations) ==
    \A v \in violations : v[2][1] \in Range(m.inputs) => Bounded(m, v[2][1])

\* Round half to even on multiples of step.
RoundTo(v, step) ==
    LET q == v \div step
        twice == 2 * (v % step)
    IN  IF twice < step \/ (twice = step /\ q % 2 = 0) THEN q * step ELSE (q + 1) * step

\* Mutant: an end of the domain is as good as its middle.
UpperEnd(lo, hi) == hi

\* InputParameter.midpoint: (min + max) / 2.0, to the nearest double.
Midpoint(lo, hi) == RoundTo(lo + hi, 2) \div 2

\* example_request(): one row, every parameter's midpoint to six decimals.  One
\* that is not finite is null in the dict[str, Any] that GET /models/{id} returns.
ExampleRequest(m) ==
    <<[n \in Range(m.inputs) |->
         IF Bounded(m, n) THEN RoundTo(Midpoint(m.lo[n], m.hi[n]), ExampleStep) ELSE Text]>>

\* LoadedModel.to_tensor(): torch.tensor(rows, dtype=self.dtype).
ToTensor(matrix, dtype) ==
    IF dtype = "float64" THEN matrix
    ELSE [i \in DOMAIN matrix |->
            [j \in DOMAIN matrix[i] |->
               IF matrix[i][j] \in Int THEN RoundTo(matrix[i][j], SingleStep) ELSE matrix[i][j]]]

\* Whether a row of a tensor lies in the training domain the manifest states.
InDomain(m, values) ==
    \A i \in DOMAIN m.inputs :
        /\ values[i] \in Int
        /\ AtMost(m.lo[m.inputs[i]], values[i]) /\ AtMost(values[i], m.hi[m.inputs[i]])
=============================================================================
