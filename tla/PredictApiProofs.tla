-------------------------- MODULE PredictApiProofs --------------------------
(***************************************************************************)
(* For every registry, every bound of every manifest, every batch and any  *)
(* number of requests: what an emulator is asked about was validated, what *)
(* a client gets is what it asked for, and log lines carry their request's *)
(* own id.                                                                 *)
(***************************************************************************)
EXTENDS PredictApi, FiniteSetTheorems, TLAPS

USE StepAssumption, NumberAssumption
-----------------------------------------------------------------------------
(* The matrix of a batch nothing was found wrong with.                     *)

LEMMA CountUpTo ==
    ASSUME NEW n \in Nat, NEW i \in 0 .. n
    PROVE  Cardinality({j \in 1 .. n : j <= i}) = i
<1>1. {j \in 1 .. n : j <= i} = 1 .. i
  OBVIOUS
<1>2. Cardinality(1 .. i) = i
  BY FS_Interval
<1>. QED BY <1>1, <1>2

\* A row of which no violation is reported is one without violations.
LEMMA NoRowViolates ==
    ASSUME NEW m, NEW batch, batch \in Seq(Range(batch)), NEW np, BatchViolations(m, batch, np) = {}
    PROVE  \A i \in DOMAIN batch : Violations(m, batch[i], np) = {}
<1>. SUFFICES ASSUME NEW i \in DOMAIN batch, NEW e \in Violations(m, batch[i], np) PROVE FALSE
  OBVIOUS
<1>1. <<i, e>> \in {i} \X Violations(m, batch[i], np)
  OBVIOUS
<1>2. {i} \X Violations(m, batch[i], np) \subseteq BatchViolations(m, batch, np)
  BY DEF BatchViolations
<1>. QED BY <1>1, <1>2

\* Every row is then in the matrix, at its place.
LEMMA WholeMatrix ==
    ASSUME NEW m, NEW batch, batch \in Seq(Range(batch)), NEW np, BatchViolations(m, batch, np) = {}
    PROVE  Matrix(m, batch, np) = [k \in 1 .. Len(batch) |-> RowValues(m, batch[k])]
<1>. DEFINE n == Len(batch)
            passing == Passing(m, batch, np)
            Place(k) == CHOOSE i \in passing : Cardinality({j \in passing : j <= i}) = k
<1>1. n \in Nat /\ DOMAIN batch = 1 .. n
  OBVIOUS
<1>2. passing = 1 .. n
  BY <1>1, NoRowViolates DEF Passing
<1>3. Cardinality(1 .. n) = n
  BY <1>1, FS_Interval
<1>4. ASSUME NEW k \in 1 .. n PROVE Place(k) = k
  <2>1. \A i \in 1 .. n : Cardinality({j \in 1 .. n : j <= i}) = i
    BY <1>1, CountUpTo
  <2>. QED BY <1>2, <2>1
<1>5. Matrix(m, batch, np) = [k \in 1 .. Cardinality(passing) |-> RowValues(m, batch[Place(k)])]
  BY DEF Matrix
<1>. HIDE DEF passing, n, Place
<1>6. Matrix(m, batch, np) = [k \in 1 .. n |-> RowValues(m, batch[Place(k)])]
  BY <1>2, <1>3, <1>5
<1>. QED BY <1>4, <1>6 DEF n
-----------------------------------------------------------------------------
(* Rows and tensors.                                                       *)

\* A JSON array of objects whose values are numbers or text.
IsBatch(batch) ==
    /\ batch \in Seq(Range(batch))
    /\ \A i \in DOMAIN batch : \A n \in DOMAIN batch[i] : batch[i][n] \in Number \cup {Text}

IsModel(m) ==
    /\ m.inputs \in Seq(Range(m.inputs))
    /\ m.variance = m.supports_uq
    /\ m.dtype \in {"float64", "float32"}

\* A row without violations has every input, finite and within its bounds.
LEMMA RowIsInDomain ==
    ASSUME NEW m, IsModel(m), NEW row, NEW np, Violations(m, row, np) = {},
           \A n \in DOMAIN row : row[n] \in Number \cup {Text}
    PROVE  InDomain(m, RowValues(m, row))
<1>. SUFFICES ASSUME NEW i \in DOMAIN m.inputs
              PROVE  LET n == m.inputs[i]
                         v == RowValues(m, row)[i]
                     IN  v \in Int /\ AtMost(m.lo[n], v) /\ AtMost(v, m.hi[n])
  BY DEF InDomain
<1>. DEFINE n == m.inputs[i]
<1>1. n \in Range(m.inputs) /\ RowValues(m, row)[i] = row[n]
  BY DEF Range, RowValues
<1>2. RowErrors(m, row, np) = {} /\ NonFiniteIn(m, row) = {}
  BY DEF Violations
<1>3. n \in DOMAIN row
  <2>. DEFINE Lacking == Range(m.inputs) \ DOMAIN row
  <2>1. {<<x, "missing">> : x \in Lacking} = {}
    BY <1>2 DEF RowErrors
  <2>. HIDE DEF Lacking
  <2>2. Lacking = {}
    BY <2>1
  <2>. QED BY <1>1, <2>2 DEF Lacking
<1>4. row[n] # Text /\ FieldAccepts(row[n], m.lo[n], m.hi[n], np)
  <2>. DEFINE Wrong == {x \in DOMAIN row \cap Range(m.inputs) : row[x] = Text}
              Outside == {x \in DOMAIN row \cap Range(m.inputs) :
                            row[x] # Text /\ ~ FieldAccepts(row[x], m.lo[x], m.hi[x], np)}
  <2>1. {<<x, "not_a_number">> : x \in Wrong} = {} /\ {<<x, "out_of_bounds">> : x \in Outside} = {}
    BY <1>2 DEF RowErrors
  <2>. HIDE DEF Wrong, Outside
  <2>2. Wrong = {} /\ Outside = {}
    BY <2>1
  <2>. QED BY <1>1, <1>3, <2>2 DEF Wrong, Outside
<1>5. row[n] \notin NonFinite
  <2>. DEFINE Odd == {x \in Range(m.inputs) : row[x] \in NonFinite}
  <2>1. {<<x, "not_finite">> : x \in Odd} = {}
    BY <1>2 DEF NonFiniteIn
  <2>. HIDE DEF Odd
  <2>2. Odd = {}
    BY <2>1
  <2>. QED BY <1>1, <2>2 DEF Odd
<1>6. row[n] \in Int /\ row[n] # NaN
  BY <1>3, <1>4, <1>5 DEF Number, NonFinite
<1>. QED BY <1>1, <1>4, <1>6 DEF FieldAccepts

\* The conversion goes row by row and keeps their number.
LEMMA TensorOf ==
    ASSUME NEW m, IsModel(m), NEW batch, IsBatch(batch)
    PROVE  LET M == [k \in 1 .. Len(batch) |-> RowValues(m, batch[k])]
               T == ToTensor(M, m.dtype)
           IN  /\ DOMAIN T = 1 .. Len(batch) /\ Len(T) = Len(batch)
               /\ m.dtype = "float64" => T = M
               /\ \A k \in 1 .. Len(batch) :
                     T[k] = ToTensor(<<RowValues(m, batch[k])>>, m.dtype)[1]
<1>. DEFINE M == [k \in 1 .. Len(batch) |-> RowValues(m, batch[k])]
            T == ToTensor(M, m.dtype)
            n == Len(batch)
<1>1. n \in Nat
  BY DEF IsBatch
<1>2. CASE m.dtype = "float64"
  BY <1>1, <1>2 DEF ToTensor
<1>3. CASE m.dtype = "float32"
  <2>. DEFINE Single(values) ==
                [j \in DOMAIN values |->
                   IF values[j] \in Int THEN RoundTo(values[j], SingleStep) ELSE values[j]]
  <2>1. \A matrix_ : ToTensor(matrix_, m.dtype) = [i \in DOMAIN matrix_ |-> Single(matrix_[i])]
    BY <1>3 DEF ToTensor
  <2>. HIDE DEF Single
  <2>2. T = [k \in 1 .. n |-> Single(RowValues(m, batch[k]))]
    BY <2>1
  <2>3. \A values : ToTensor(<<values>>, m.dtype)[1] = Single(values)
    <3>. TAKE values
    <3>1. ToTensor(<<values>>, m.dtype) = [i \in DOMAIN <<values>> |-> Single(<<values>>[i])]
      BY <2>1
    <3>2. 1 \in DOMAIN <<values>> /\ <<values>>[1] = values
      OBVIOUS
    <3>. QED BY <3>1, <3>2
  <2>. QED BY <1>1, <1>3, <2>2, <2>3
<1>. QED BY <1>2, <1>3 DEF IsModel

LEMMA RoundedIsInt ==
    ASSUME NEW v \in Int, NEW step \in Nat \ {0}
    PROVE  RoundTo(v, step) \in Int
BY DEF RoundTo

\* Rounding moves a number by at most half a step.
LEMMA RoundedIsNear ==
    ASSUME NEW v \in Int, NEW step \in Nat \ {0}
    PROVE  /\ 2 * (v - RoundTo(v, step)) <= step
           /\ 2 * (RoundTo(v, step) - v) <= step
<1>. DEFINE q == v \div step
            rest == v % step
<1>1. q \in Int /\ rest \in 0 .. step - 1 /\ v = step * q + rest
  OBVIOUS
<1>2. RoundTo(v, step) = IF 2 * rest < step \/ (2 * rest = step /\ q % 2 = 0)
                         THEN q * step ELSE (q + 1) * step
  BY DEF RoundTo
<1>. HIDE DEF q, rest
<1>3. q * step = step * q /\ (q + 1) * step = step * q + step /\ step * q \in Int
  BY <1>1
<1>. QED BY <1>1, <1>2, <1>3

\* In single precision a row of finite values is each of them, rounded.
LEMMA SingleIsNear ==
    ASSUME NEW m, m.dtype = "float32", NEW values, NEW j \in DOMAIN values, values[j] \in Int
    PROVE  LET off == ToTensor(<<values>>, m.dtype)[1][j] - values[j]
           IN  2 * off <= SingleStep /\ - SingleStep <= 2 * off
<1>1. <<values>>[1] = values /\ DOMAIN <<values>> = {1}
  OBVIOUS
<1>2. ToTensor(<<values>>, m.dtype)[1][j] = RoundTo(values[j], SingleStep)
  BY <1>1 DEF ToTensor
<1>3. RoundTo(values[j], SingleStep) \in Int
  BY RoundedIsInt
<1>. QED BY <1>2, <1>3, RoundedIsNear

\* The example of a page is a batch of one row, of numbers and nulls.
LEMMA ExampleIsBatch ==
    ASSUME NEW m
    PROVE  IsBatch(ExampleRequest(m))
<1>. DEFINE row == [n \in Range(m.inputs) |->
                      IF Bounded(m, n) THEN RoundTo(Midpoint(m.lo[n], m.hi[n]), ExampleStep) ELSE Text]
<1>1. ASSUME NEW n \in Range(m.inputs) PROVE row[n] \in Int \cup {Text}
  <2>1. CASE Bounded(m, n)
    <3>1. m.lo[n] \in Int /\ m.hi[n] \in Int
      BY <2>1 DEF Bounded
    <3>2. RoundTo(m.lo[n] + m.hi[n], 2) \in Int
      BY <3>1, RoundedIsInt
    <3>3. Midpoint(m.lo[n], m.hi[n]) \in Int
      BY <3>2 DEF Midpoint
    <3>. QED BY <2>1, <3>3, RoundedIsInt
  <2>2. CASE ~ Bounded(m, n)
    BY <2>2
  <2>. QED BY <2>1, <2>2
<1>2. DOMAIN row = Range(m.inputs) /\ ExampleRequest(m) = <<row>>
  BY DEF ExampleRequest
<1>. HIDE DEF row
<1>3. <<row>> \in Seq({row}) /\ Range(<<row>>) = {row}
  BY DEF Range
<1>. QED
  BY <1>1, <1>2, <1>3 DEF IsBatch, Number

LEMMA ClientsSendBatches == \A b \in Batch \cup {<< >>} : IsBatch(b)
<1>1. IsBatch(<< >>)
  BY DEF IsBatch
<1>. QED BY <1>1, BatchAssumption DEF IsBatch

LEMMA ModelsAreModels == \A k \in DOMAIN Models : IsModel(Models[k])
  BY ModelsAssumption DEF IsModel
-----------------------------------------------------------------------------
(* The inductive invariant.                                                *)

\* The context of a request's task holds its own id, and so does every line it
\* has logged itself.
OwnId ==
    /\ \A r \in Request : stage[r] \notin {"none", "done"} => context[r] = id[r]
    /\ \A line \in lines :
          /\ line[1] \in Request /\ stage[line[1]] # "none"
          /\ line[3] = IF line[2] = "asgi_exception" THEN None ELSE id[line[1]]

\* The tensor of a batch without violations: a row of it for each of the batch's,
\* all of which are inside the domain, and in double precision just these.
LEMMA TensorOfAccepted ==
    ASSUME NEW m, IsModel(m), NEW batch, IsBatch(batch), NEW np, BatchViolations(m, batch, np) = {}
    PROVE  LET T == ToTensor(Matrix(m, batch, np), m.dtype)
           IN  /\ Len(batch) \in Nat /\ DOMAIN T = 1 .. Len(batch) /\ Len(T) = Len(batch)
               /\ \A k \in 1 .. Len(batch) :
                     /\ T[k] = ToTensor(<<RowValues(m, batch[k])>>, m.dtype)[1]
                     /\ InDomain(m, RowValues(m, batch[k]))
                     /\ m.dtype = "float64" => T[k] = RowValues(m, batch[k])
<1>. DEFINE M == [k \in 1 .. Len(batch) |-> RowValues(m, batch[k])]
            T == ToTensor(M, m.dtype)
<1>1. Len(batch) \in Nat /\ DOMAIN batch = 1 .. Len(batch) /\ batch \in Seq(Range(batch))
  BY DEF IsBatch
<1>2. Matrix(m, batch, np) = M
  BY <1>1, WholeMatrix
<1>3. /\ DOMAIN T = 1 .. Len(batch) /\ Len(T) = Len(batch)
      /\ m.dtype = "float64" => T = M
      /\ \A k \in 1 .. Len(batch) : T[k] = ToTensor(<<RowValues(m, batch[k])>>, m.dtype)[1]
  BY TensorOf
<1>4. ASSUME NEW k \in 1 .. Len(batch) PROVE InDomain(m, RowValues(m, batch[k]))
  <2>1. \A n \in DOMAIN batch[k] : batch[k][n] \in Number \cup {Text}
    BY <1>1 DEF IsBatch
  <2>2. Violations(m, batch[k], np) = {}
    BY <1>1, NoRowViolates
  <2>. QED BY <2>1, <2>2, RowIsInDomain
<1>. HIDE DEF T
<1>. QED BY <1>1, <1>2, <1>3, <1>4 DEF T

\* A request that has got past validation, or to a prediction: it was resolved
\* as it asked, nothing was found wrong with its batch, and its matrix is it.
Accepted(r) ==
    /\ key[r] \in DOMAIN Models /\ Resolves(target[r], key[r])
    /\ BatchViolations(Models[key[r]], rows[r], nanPasses) = {}
    /\ matrix[r] = Matrix(Models[key[r]], rows[r], nanPasses)

Tensor(r) == ToTensor(matrix[r], Models[key[r]].dtype)

Predicted(r) ==
    /\ means[r] = [i \in DOMAIN Tensor(r) |-> <<key[r], Tensor(r)[i]>>]
    /\ stds[r] = IF Models[key[r]].variance THEN means[r] ELSE << >>

\* What a request holds at each of its stages.
InOrder ==
    \A r \in Request :
        /\ IsBatch(rows[r])
        /\ stage[r] \notin {"answering", "done"} => status[r] = 0
        /\ stage[r] = "validating" => key[r] \in DOMAIN Models /\ Resolves(target[r], key[r])
        /\ stage[r] \in {"predicting", "serving"} \/ status[r] = 200 => Accepted(r)
        /\ stage[r] = "serving" \/ status[r] = 200 => Predicted(r)

\* An emulator is called by requests that were accepted, with their tensor.
CalledByAccepted ==
    \A c \in calls :
        LET r == c[1] IN
        /\ r \in Request
        /\ stage[r] \in {"serving", "raised", "answering", "done"} /\ status[r] \notin {404, 422}
        /\ Accepted(r)
        /\ c[2] = key[r] /\ c[3] = Tensor(r)

Shaped == DOMAIN matrix = Request /\ DOMAIN means = Request /\ DOMAIN stds = Request

PredictInv == TypeOK /\ Shaped /\ OwnId /\ InOrder /\ CalledByAccepted

LEMMA PredictInit == Init => PredictInv
<1>. SUFFICES ASSUME Init PROVE PredictInv
  OBVIOUS
<1>1. TypeOK
  <2>1. <<UnknownId, None>> \in Target /\ << >> \in Sent
    BY DEF Target, Sent
  <2>. QED BY <2>1 DEF Init, TypeOK
<1>2. Shaped /\ OwnId /\ InOrder /\ CalledByAccepted
  BY ClientsSendBatches DEF Init, Shaped, OwnId, InOrder, CalledByAccepted
<1>. QED BY <1>1, <1>2 DEF PredictInv

\* No request has anything to do with another's variables.
LEMMA TypeNext == TypeOK /\ [Next]_vars => TypeOK'
<1>. SUFFICES ASSUME TypeOK, [Next]_vars PROVE TypeOK'
  OBVIOUS
<1>1. CASE UNCHANGED vars
  BY <1>1 DEF TypeOK, vars, asked
<1>2. ASSUME NEW r \in Request, Receive(r) PROVE TypeOK'
  <2>1. PICK t \in Target : target' = [target EXCEPT ![r] = t] /\ Compose(r, t)
    BY <1>2 DEF Receive
  <2>2. /\ \E b \in Sent : rows' = [rows EXCEPT ![r] = b]
        /\ \E k \in DOMAIN Models \cup {None} : page' = [page EXCEPT ![r] = k]
    BY <2>1 DEF Compose, Sent
  <2>. QED BY <1>2, <2>1, <2>2 DEF TypeOK, Receive, SetId, Goto
<1>3. ASSUME NEW r \in Request, Parse(r) PROVE TypeOK'
  BY <1>3 DEF TypeOK, Parse, Answer, Goto, asked
<1>4. ASSUME NEW r \in Request, Resolve(r) PROVE TypeOK'
  <2>1. UNCHANGED <<nanPasses, id, context, asked, header>>
    BY <1>4 DEF Resolve
  <2>2. /\ \E s \in {"validating", "answering"} : stage' = [stage EXCEPT ![r] = s]
        /\ status' = status \/ status' = [status EXCEPT ![r] = 404]
        /\ key' = key \/ \E k \in DOMAIN Models : key' = [key EXCEPT ![r] = k]
    BY <1>4 DEF Resolve, Answer, Goto
  <2>. QED BY <2>1, <2>2 DEF TypeOK, asked
<1>5. ASSUME NEW r \in Request, Validate(r) PROVE TypeOK'
  BY <1>5 DEF TypeOK, Validate, Answer, Goto, asked
<1>6. ASSUME NEW r \in Request, Predict(r) PROVE TypeOK'
  BY <1>6 DEF TypeOK, Predict, Goto, asked
<1>7. ASSUME NEW r \in Request, Serve(r) PROVE TypeOK'
  <2>1. UNCHANGED <<nanPasses, id, context, asked, key, header>>
    BY <1>7 DEF Serve
  <2>2. /\ \E s \in {"raised", "answering"} : stage' = [stage EXCEPT ![r] = s]
        /\ status' = status \/ status' = [status EXCEPT ![r] = 200]
    BY <1>7 DEF Serve, Answer, Goto
  <2>. QED BY <2>1, <2>2 DEF TypeOK, asked
<1>8. ASSUME NEW r \in Request, Respond(r) PROVE TypeOK'
  BY <1>8 DEF TypeOK, Respond, SetId, Goto, asked
<1>9. ASSUME NEW r \in Request, Fail(r) PROVE TypeOK'
  BY <1>9 DEF TypeOK, Fail, SetId, Goto, asked
<1>. QED
  BY <1>1, <1>2, <1>3, <1>4, <1>5, <1>6, <1>7, <1>8, <1>9 DEF Next, Step

\* What request q holds is what it held.
Untouched(q) ==
    /\ stage'[q] = stage[q] /\ id'[q] = id[q] /\ context'[q] = context[q]
    /\ target'[q] = target[q] /\ rows'[q] = rows[q] /\ key'[q] = key[q]
    /\ matrix'[q] = matrix[q] /\ means'[q] = means[q] /\ stds'[q] = stds[q]
    /\ status'[q] = status[q]

LEMMA OnlyOwnVariables ==
    ASSUME NEW r \in Request, Receive(r) \/ Step(r), NEW q \in Request \ {r}, TypeOK, Shaped
    PROVE  Untouched(q) /\ UNCHANGED nanPasses
<1>1. CASE Receive(r)
  BY <1>1 DEF TypeOK, Shaped, Receive, Compose, SetId, Goto, Untouched
<1>2. CASE Parse(r) \/ Resolve(r)
  BY <1>2 DEF TypeOK, Parse, Resolve, Answer, Goto, asked, Shaped, Untouched
<1>3. CASE Validate(r)
  BY <1>3 DEF TypeOK, Validate, Answer, Goto, asked, Shaped, Untouched
<1>4. CASE Predict(r)
  BY <1>4 DEF TypeOK, Predict, Goto, asked, Shaped, Untouched
<1>5. CASE Serve(r)
  <2>1. UNCHANGED <<nanPasses, id, context, asked, key, matrix, means, stds>>
    BY <1>5 DEF Serve
  <2>2. /\ stage' = [stage EXCEPT ![r] = stage'[r]]
        /\ status' = status \/ status' = [status EXCEPT ![r] = 200]
    BY <1>5 DEF TypeOK, Serve, Answer, Goto
  <2>. QED BY <2>1, <2>2 DEF TypeOK, asked, Shaped, Untouched
<1>6. CASE Respond(r)
  BY <1>6 DEF TypeOK, Respond, SetId, Goto, asked, Shaped, Untouched
<1>7. CASE Fail(r)
  BY <1>7 DEF TypeOK, Fail, SetId, Goto, asked, Shaped, Untouched
<1>. QED BY <1>1, <1>2, <1>3, <1>4, <1>5, <1>6, <1>7 DEF Step

\* What a step does to its request's stage, and where it logs.
Arrives(r) ==
    /\ stage[r] = "none" /\ stage'[r] = "parsing"
    /\ context'[r] = id'[r] /\ UNCHANGED lines

Proceeds(r) ==
    /\ stage[r] \notin {"none", "done"} /\ stage'[r] # "none"
    /\ stage'[r] # "done" => UNCHANGED context
    /\ UNCHANGED id
    /\ \A line \in lines' :
          \/ line \in lines
          \/ line[1] = r /\ line[2] # "asgi_exception" /\ line[3] = context[r]
          \/ line[1] = r /\ line[2] = "asgi_exception" /\ line[3] = None

LEMMA StagesGoOn ==
    ASSUME TypeOK, NEW r \in Request, Receive(r) \/ Step(r)
    PROVE  Arrives(r) \/ Proceeds(r)
<1>1. CASE Receive(r)
  BY <1>1 DEF TypeOK, Receive, SetId, Goto, Arrives
<1>2. CASE Parse(r) \/ Resolve(r)
  BY <1>2 DEF TypeOK, Parse, Resolve, Answer, Goto, asked, Proceeds
<1>3. CASE Validate(r)
  BY <1>3 DEF TypeOK, Validate, Answer, Log, Goto, asked, Proceeds
<1>4. CASE Predict(r)
  BY <1>4 DEF TypeOK, Predict, Goto, asked, Proceeds
<1>5. CASE Serve(r)
  <2>1. stage[r] = "serving" /\ \E s \in {"answering", "raised"} : stage' = [stage EXCEPT ![r] = s]
    BY <1>5 DEF Serve, Answer, Goto
  <2>. QED BY <1>5, <2>1 DEF TypeOK, Serve, Log, asked, Proceeds
<1>6. CASE Respond(r)
  BY <1>6 DEF TypeOK, Respond, Log, Goto, asked, Proceeds
<1>7. CASE Fail(r)
  <2>1. stage[r] = "raised" /\ stage'[r] = "done" /\ UNCHANGED id
    BY <1>7 DEF TypeOK, Fail, Goto
  <2>2. lines' = lines \cup {<<r, "request_failed", context[r]>>, <<r, "asgi_exception", None>>}
    BY <1>7 DEF TypeOK, Fail, SetId
  <2>. QED BY <2>1, <2>2 DEF Proceeds
<1>. QED BY <1>1, <1>2, <1>3, <1>4, <1>5, <1>6, <1>7 DEF Step

\* A request sets its own context when it comes and clears it when it goes, and
\* logs under what the context holds in between.
LEMMA OwnIdStep ==
    ASSUME PredictInv, NEW r \in Request, Receive(r) \/ Step(r)
    PROVE  OwnId'
<1>. USE DEF PredictInv
<1>1. \A q \in Request \ {r} : Untouched(q)
  BY OnlyOwnVariables
<1>2. Arrives(r) \/ Proceeds(r)
  BY StagesGoOn
<1>3. ASSUME NEW q \in Request, stage'[q] \notin {"none", "done"} PROVE context'[q] = id'[q]
  BY <1>1, <1>2, <1>3 DEF OwnId, Untouched, Arrives, Proceeds
<1>4. ASSUME NEW line \in lines'
      PROVE  /\ line[1] \in Request /\ stage'[line[1]] # "none"
             /\ line[3] = IF line[2] = "asgi_exception" THEN None ELSE id'[line[1]]
  BY <1>1, <1>2, <1>4 DEF OwnId, Untouched, Arrives, Proceeds
<1>. QED BY <1>3, <1>4 DEF OwnId

LEMMA KeptByOthers ==
    ASSUME NEW q, Untouched(q), UNCHANGED nanPasses
    PROVE  /\ Accepted(q)' <=> Accepted(q)
           /\ Predicted(q)' <=> Predicted(q)
           /\ Tensor(q)' = Tensor(q)
BY DEF Untouched, Accepted, Predicted, Tensor

LEMMA SentAreBatches == \A b \in Sent : IsBatch(b)
  BY ClientsSendBatches, ExampleIsBatch DEF Sent

HoldsInOrder(r) ==
    /\ IsBatch(rows[r])
    /\ stage[r] \notin {"answering", "done"} => status[r] = 0
    /\ stage[r] = "validating" => key[r] \in DOMAIN Models /\ Resolves(target[r], key[r])
    /\ stage[r] \in {"predicting", "serving"} \/ status[r] = 200 => Accepted(r)
    /\ stage[r] = "serving" \/ status[r] = 200 => Predicted(r)

\* From its arrival to its answer, a request's own step.
LEMMA RequestInOrder ==
    ASSUME PredictInv, TypeOK', NEW r \in Request, Receive(r) \/ Step(r)
    PROVE  HoldsInOrder(r)'
<1>. USE DEF PredictInv
<1>1. HoldsInOrder(r)
  BY DEF InOrder, HoldsInOrder
<1>2. IsBatch(rows[r])' /\ UNCHANGED nanPasses
  <2>1. rows' \in [Request -> Sent]
    BY DEF TypeOK
  <2>2. IsBatch(rows'[r])
    BY <2>1, SentAreBatches
  <2>3. UNCHANGED nanPasses
    BY DEF Receive, Step, Parse, Resolve, Validate, Predict, Serve, Respond, Fail
  <2>. QED BY <2>2, <2>3 DEF IsBatch
<1>3. CASE Receive(r)
  BY <1>1, <1>2, <1>3 DEF TypeOK, HoldsInOrder, Receive, Goto
<1>4. CASE Parse(r)
  BY <1>1, <1>2, <1>4 DEF TypeOK, HoldsInOrder, Parse, Answer, Goto
<1>5. CASE Resolve(r)
  BY <1>1, <1>2, <1>5 DEF TypeOK, HoldsInOrder, Resolve, Answer, Goto, asked
<1>6. CASE Validate(r)
  BY <1>1, <1>2, <1>6 DEF TypeOK, Shaped, HoldsInOrder, Validate, Answer, Goto, asked, Accepted
<1>7. CASE Predict(r)
  BY <1>1, <1>2, <1>7 DEF TypeOK, Shaped, HoldsInOrder, Predict, Goto, asked, Accepted, Predicted, Tensor
<1>8. CASE Serve(r)
  BY <1>1, <1>2, <1>8 DEF TypeOK, HoldsInOrder, Serve, Answer, Goto, asked, Accepted, Predicted, Tensor
<1>9. CASE Respond(r)
  <2>1. UNCHANGED <<nanPasses, id, asked, key, matrix, means, stds, status>>
    BY <1>9 DEF Respond
  <2>2. stage[r] = "answering" /\ stage'[r] = "done"
    BY <1>9 DEF TypeOK, Respond, Goto
  <2>. QED
    BY <1>1, <1>2, <2>1, <2>2 DEF HoldsInOrder, asked, Accepted, Predicted, Tensor
<1>10. CASE Fail(r)
  BY <1>1, <1>2, <1>10 DEF TypeOK, HoldsInOrder, Fail, Goto, asked
<1>. QED BY <1>3, <1>4, <1>5, <1>6, <1>7, <1>8, <1>9, <1>10 DEF Step

LEMMA InOrderStep ==
    ASSUME PredictInv, TypeOK', NEW r \in Request, Receive(r) \/ Step(r)
    PROVE  InOrder'
<1>1. ASSUME NEW q \in Request \ {r} PROVE HoldsInOrder(q)'
  <2>1. Untouched(q) /\ UNCHANGED nanPasses /\ HoldsInOrder(q)
    BY OnlyOwnVariables DEF PredictInv, InOrder, HoldsInOrder
  <2>2. IsBatch(rows[q])'
    BY <2>1 DEF Untouched, HoldsInOrder, IsBatch
  <2>. QED BY <2>1, <2>2, KeptByOthers DEF HoldsInOrder, Untouched
<1>. QED BY <1>1, RequestInOrder DEF InOrder, HoldsInOrder

\* A call is made by an accepted request, which keeps what it was accepted with
\* and is answered 200 or 500.
LEMMA CalledStep ==
    ASSUME PredictInv, TypeOK', NEW r \in Request, Receive(r) \/ Step(r)
    PROVE  CalledByAccepted'
<1>. USE DEF PredictInv
<1>. SUFFICES ASSUME NEW c \in calls'
              PROVE  LET q == c[1] IN
                     /\ q \in Request
                     /\ stage'[q] \in {"serving", "raised", "answering", "done"}
                     /\ status'[q] \notin {404, 422}
                     /\ Accepted(q)'
                     /\ c[2] = key'[q] /\ c[3] = Tensor(q)'
  BY DEF CalledByAccepted
<1>1. CASE c \in calls /\ c[1] # r
  <2>1. c[1] \in Request \ {r}
    BY <1>1 DEF CalledByAccepted
  <2>2. Untouched(c[1]) /\ UNCHANGED nanPasses
    BY <2>1, OnlyOwnVariables
  <2>. QED BY <1>1, <2>2, KeptByOthers DEF CalledByAccepted, Untouched
<1>2. CASE c \in calls /\ c[1] = r
  <2>1. stage[r] \in {"serving", "raised", "answering", "done"} /\ status[r] \notin {404, 422}
        /\ Accepted(r) /\ c[2] = key[r] /\ c[3] = Tensor(r)
    BY <1>2 DEF CalledByAccepted
  <2>2. Serve(r) \/ Respond(r) \/ Fail(r)
    BY <2>1 DEF Receive, Step, Parse, Resolve, Validate, Predict
  <2>3. UNCHANGED <<nanPasses, target, rows, key, matrix>>
    BY <2>2 DEF Serve, Respond, Fail, asked
  <2>4. stage'[r] \in {"raised", "answering", "done"}
    BY <2>2 DEF TypeOK, Serve, Respond, Fail, Answer, Goto
  <2>5. status'[r] \in {status[r], 200, 500}
    BY <2>2 DEF TypeOK, Serve, Respond, Fail, Answer
  <2>. QED BY <1>2, <2>1, <2>3, <2>4, <2>5 DEF Accepted, Tensor
<1>3. CASE c \notin calls
  <2>1. Predict(r) /\ c = <<r, key[r], Tensor(r)>>
    BY <1>3 DEF Receive, Step, Parse, Resolve, Validate, Predict, Serve, Respond, Fail, Tensor
  <2>2. Accepted(r) /\ status[r] = 0
    BY <2>1 DEF Predict, InOrder
  <2>3. UNCHANGED <<nanPasses, target, rows, key, matrix, status>>
    BY <2>1 DEF Predict, asked
  <2>4. stage'[r] \in {"serving", "raised"}
    BY <2>1 DEF TypeOK, Predict, Goto
  <2>. QED BY <2>1, <2>2, <2>3, <2>4 DEF Accepted, Tensor
<1>. QED BY <1>1, <1>2, <1>3

LEMMA PredictNext == PredictInv /\ [Next]_vars => PredictInv'
<1>. SUFFICES ASSUME PredictInv, [Next]_vars PROVE PredictInv'
  OBVIOUS
<1>1. TypeOK'
  BY TypeNext DEF PredictInv
<1>2. CASE UNCHANGED vars
  <2>1. UNCHANGED <<nanPasses, calls, lines, matrix, means, stds, id, context, stage>>
        /\ \A q : Untouched(q)
    BY <1>2 DEF vars, asked, Untouched
  <2>2. Shaped' /\ OwnId'
    BY <2>1 DEF PredictInv, Shaped, OwnId
  <2>3. InOrder'
    <3>1. \A q \in Request : HoldsInOrder(q)
      BY DEF PredictInv, InOrder, HoldsInOrder
    <3>2. \A q \in Request : IsBatch(rows[q])' <=> IsBatch(rows[q])
      BY <2>1 DEF Untouched, IsBatch
    <3>. QED BY <2>1, <3>1, <3>2, KeptByOthers DEF InOrder, HoldsInOrder, Untouched
  <2>4. CalledByAccepted'
    BY <2>1, KeptByOthers DEF PredictInv, CalledByAccepted, Untouched
  <2>. QED BY <1>1, <2>2, <2>3, <2>4 DEF PredictInv
<1>3. ASSUME NEW r \in Request, Receive(r) \/ Step(r) PROVE PredictInv'
  <2>1. Shaped'
    <3>1. \/ UNCHANGED <<matrix, means, stds>>
          \/ \E x : matrix' = [matrix EXCEPT ![r] = x] /\ UNCHANGED <<means, stds>>
          \/ \E x, y : /\ means' = [means EXCEPT ![r] = x] /\ stds' = [stds EXCEPT ![r] = y]
                       /\ UNCHANGED matrix
      BY <1>3 DEF Receive, Step, Parse, Resolve, Validate, Predict, Serve, Respond, Fail
    <3>. QED BY <3>1 DEF PredictInv, Shaped
  <2>. QED
    BY <1>1, <1>3, <2>1, OwnIdStep, InOrderStep, CalledStep DEF PredictInv
<1>. QED BY <1>2, <1>3 DEF Next

\* Whatever the requests are and however they interleave.
THEOREM PredictInvariance == Spec => []PredictInv
  BY PredictInit, PredictNext, PTL DEF Spec

\* Every variable of every request keeps its type.
THEOREM PredictTypes == Spec => []TypeOK
<1>1. PredictInv => TypeOK
  BY DEF PredictInv
<1>. QED BY <1>1, PredictInvariance, PTL

\* "Nothing reaches the emulator unless every row of the batch is inside its
\* training domain", for any bounds, finite or not, and either treatment of NaN;
\* single precision moves a value by half of its spacing at most.
THEOREM DomainGuarded == Spec => []EmulatorSeesDomain
<1>1. PredictInv => EmulatorSeesDomain
  <2>. SUFFICES ASSUME PredictInv, NEW c \in calls
                PROVE  LET m == Models[c[2]]
                           sent == rows[c[1]]
                       IN  /\ Len(c[3]) = Len(sent)
                           /\ \A i \in DOMAIN sent :
                                 /\ InDomain(m, RowValues(m, sent[i]))
                                 /\ \A j \in DOMAIN m.inputs :
                                       LET off == c[3][i][j] - sent[i][m.inputs[j]]
                                       IN  IF m.dtype = "float64" THEN off = 0
                                           ELSE 2 * off <= SingleStep /\ - SingleStep <= 2 * off
    BY DEF EmulatorSeesDomain
  <2>. DEFINE r == c[1]
              m == Models[c[2]]
              batch == rows[r]
  <2>1. r \in Request /\ Accepted(r) /\ c[2] = key[r] /\ c[3] = Tensor(r)
    BY DEF PredictInv, CalledByAccepted
  <2>2. IsBatch(batch) /\ IsModel(m) /\ BatchViolations(m, batch, nanPasses) = {}
    BY <2>1, ModelsAreModels DEF PredictInv, InOrder, Accepted
  <2>3. c[3] = ToTensor(Matrix(m, batch, nanPasses), m.dtype)
    BY <2>1 DEF Accepted, Tensor
  <2>4. /\ DOMAIN batch = 1 .. Len(batch) /\ Len(c[3]) = Len(batch)
        /\ \A i \in 1 .. Len(batch) :
              /\ c[3][i] = ToTensor(<<RowValues(m, batch[i])>>, m.dtype)[1]
              /\ InDomain(m, RowValues(m, batch[i]))
              /\ m.dtype = "float64" => c[3][i] = RowValues(m, batch[i])
    <3>. HIDE DEF m, batch
    <3>. QED BY <2>2, <2>3, TensorOfAccepted DEF IsBatch
  <2>5. ASSUME NEW i \in DOMAIN batch, NEW j \in DOMAIN m.inputs
        PROVE  LET off == c[3][i][j] - batch[i][m.inputs[j]]
               IN  IF m.dtype = "float64" THEN off = 0
                   ELSE 2 * off <= SingleStep /\ - SingleStep <= 2 * off
    <3>. DEFINE values == RowValues(m, batch[i])
    <3>1. values[j] = batch[i][m.inputs[j]] /\ j \in DOMAIN values
      BY DEF RowValues
    <3>2. values[j] \in Int
      BY <2>4 DEF InDomain
    <3>. HIDE DEF values, m
    <3>3. CASE m.dtype = "float64"
      <4>1. c[3][i][j] = values[j]
        BY <2>4, <3>3 DEF values
      <4>2. c[3][i][j] - values[j] = 0
        BY <3>2, <4>1
      <4>. QED BY <3>1, <3>3, <4>2
    <3>4. CASE m.dtype = "float32"
      <4>1. c[3][i] = ToTensor(<<values>>, m.dtype)[1]
        BY <2>4 DEF values
      <4>2. LET off == ToTensor(<<values>>, m.dtype)[1][j] - values[j]
            IN  2 * off <= SingleStep /\ - SingleStep <= 2 * off
        BY <3>1, <3>2, <3>4, SingleIsNear
      <4>. QED BY <3>1, <3>4, <4>1, <4>2
    <3>. QED BY <2>2, <3>3, <3>4 DEF IsModel
  <2>6. Len(c[3]) = Len(batch) /\ \A i \in DOMAIN batch : InDomain(m, RowValues(m, batch[i]))
    BY <2>4
  <2>. QED BY <2>5, <2>6
<1>. QED BY <1>1, PredictInvariance, PTL

\* A 200 is the whole batch, row by row, of the model it names; a 404 or 422
\* asked no emulator anything.
THEOREM WholeOrNothing == Spec => []AllOrNothing
<1>1. PredictInv => AllOrNothing
  <2>. SUFFICES ASSUME PredictInv, NEW r \in Request PROVE AllOrNothing!(r)
    BY DEF AllOrNothing
  <2>1. ASSUME status[r] \in {404, 422} PROVE \A c \in calls : c[1] # r
    BY <2>1 DEF PredictInv, CalledByAccepted
  <2>2. ASSUME status[r] = 200
        PROVE  LET m == Models[key[r]] IN
               /\ Len(means[r]) = Len(rows[r])
               /\ \A i \in DOMAIN means[r] :
                     means[r][i] = <<key[r], ToTensor(<<RowValues(m, rows[r][i])>>, m.dtype)[1]>>
               /\ Len(stds[r]) = IF m.supports_uq THEN Len(rows[r]) ELSE 0
    <3>. DEFINE m == Models[key[r]]
                batch == rows[r]
    <3>1. /\ Accepted(r) /\ Predicted(r) /\ IsBatch(batch) /\ IsModel(m)
          /\ BatchViolations(m, batch, nanPasses) = {}
      BY <2>2, ModelsAreModels DEF PredictInv, InOrder, Accepted
    <3>2. Tensor(r) = ToTensor(Matrix(m, batch, nanPasses), m.dtype)
      BY <3>1 DEF Accepted, Tensor
    <3>3. /\ means[r] = [i \in DOMAIN Tensor(r) |-> <<key[r], Tensor(r)[i]>>]
          /\ stds[r] = IF m.supports_uq THEN means[r] ELSE << >>
      BY <3>1 DEF Predicted, IsModel
    <3>. HIDE DEF m, batch
    <3>4. /\ DOMAIN Tensor(r) = 1 .. Len(batch) /\ Len(batch) \in Nat
          /\ \A k \in 1 .. Len(batch) :
                Tensor(r)[k] = ToTensor(<<RowValues(m, batch[k])>>, m.dtype)[1]
      BY <3>1, <3>2, TensorOfAccepted
    <3>5. DOMAIN means[r] = 1 .. Len(batch) /\ Len(means[r]) = Len(batch)
      BY <3>3, <3>4
    <3>6. Len(stds[r]) = IF m.supports_uq THEN Len(batch) ELSE 0
      BY <3>3, <3>5
    <3>7. \A i \in DOMAIN means[r] :
             means[r][i] = <<key[r], ToTensor(<<RowValues(m, batch[i])>>, m.dtype)[1]>>
      BY <3>3, <3>4, <3>5
    <3>. QED BY <3>5, <3>6, <3>7 DEF m, batch
  <2>. QED BY <2>1, <2>2
<1>. QED BY <1>1, PredictInvariance, PTL

\* No request is answered by a model it did not ask for, nor by an older version
\* than the latest when it did not say.
THEOREM AnsweredAsAsked == Spec => []AnsweredByAsked
<1>1. PredictInv => AnsweredByAsked
  BY DEF PredictInv, InOrder, Accepted, AnsweredByAsked, Resolves, IsLatest, IsHighest
<1>. QED BY <1>1, PredictInvariance, PTL

\* However many requests run beside each other, a line carries the id of the
\* request that wrote it, and only the server's own line about an exception none.
THEOREM LinesJoin == Spec => []LogLinesJoin
<1>1. PredictInv => LogLinesJoin
  BY DEF PredictInv, OwnId, LogLinesJoin
<1>. QED BY <1>1, PredictInvariance, PTL
-----------------------------------------------------------------------------
(* The example of a page, sent back.                                       *)

\* The midpoint to six decimals stays in a domain that is wide enough.
LEMMA MidpointIsInside ==
    ASSUME NEW lo \in Int, NEW hi \in Int, hi - lo >= ExampleStep
    PROVE  LET e == RoundTo(Midpoint(lo, hi), ExampleStep)
           IN  e \in Int /\ lo <= e /\ e <= hi
<1>. DEFINE mid == Midpoint(lo, hi)
            e == RoundTo(mid, ExampleStep)
<1>1. mid \in Int /\ lo + hi - 1 <= 2 * mid /\ 2 * mid <= lo + hi + 1
  <2>. DEFINE s == lo + hi
              q == s \div 2
              odd == s % 2
  <2>1. s \in Int /\ q \in Int /\ odd \in {0, 1} /\ s = 2 * q + odd
    OBVIOUS
  <2>2. RoundTo(s, 2) = IF 2 * odd < 2 \/ (2 * odd = 2 /\ q % 2 = 0)
                        THEN q * 2 ELSE (q + 1) * 2
    BY DEF RoundTo
  <2>3. mid = RoundTo(s, 2) \div 2
    BY DEF Midpoint
  <2>. HIDE DEF s, q, odd
  <2>4. RoundTo(s, 2) = q * 2 \/ (RoundTo(s, 2) = (q + 1) * 2 /\ odd = 1)
    <3>1. CASE odd = 0
      BY <2>1, <2>2, <3>1
    <3>2. CASE odd = 1
      BY <2>1, <2>2, <3>2
    <3>. QED BY <2>1, <3>1, <3>2
  <2>5. mid = q \/ (mid = q + 1 /\ odd = 1)
    BY <2>1, <2>3, <2>4
  <2>. QED BY <2>1, <2>5 DEF s
<1>. HIDE DEF mid
<1>2. e \in Int /\ 2 * (mid - e) <= ExampleStep /\ 2 * (e - mid) <= ExampleStep
  BY <1>1, RoundedIsInt, RoundedIsNear
<1>. HIDE DEF e
<1>3. lo <= e /\ e <= hi
  BY <1>1, <1>2
<1>. QED BY <1>2, <1>3 DEF e, mid

Wide(m) == \A n \in Range(m.inputs) : Bounded(m, n) /\ m.hi[n] - m.lo[n] >= ExampleStep

\* Nothing is wrong with the example of a model whose domain is.
LEMMA ExampleIsValid ==
    ASSUME NEW m, Wide(m), NEW np
    PROVE  /\ Len(ExampleRequest(m)) = 1
           /\ BatchViolations(m, ExampleRequest(m), np) = {}
<1>. DEFINE row == [n \in Range(m.inputs) |-> RoundTo(Midpoint(m.lo[n], m.hi[n]), ExampleStep)]
<1>1. \A n \in Range(m.inputs) :
         /\ m.lo[n] \in Int /\ m.hi[n] \in Int /\ row[n] \in Int
         /\ m.lo[n] <= row[n] /\ row[n] <= m.hi[n]
  <2>. SUFFICES ASSUME NEW n \in Range(m.inputs)
                PROVE  /\ m.lo[n] \in Int /\ m.hi[n] \in Int /\ row[n] \in Int
                       /\ m.lo[n] <= row[n] /\ row[n] <= m.hi[n]
    OBVIOUS
  <2>1. m.lo[n] \in Int /\ m.hi[n] \in Int
    BY DEF Wide, Bounded
  <2>2. m.hi[n] - m.lo[n] >= ExampleStep
    BY DEF Wide
  <2>. QED BY <2>1, <2>2, MidpointIsInside
<1>2. DOMAIN row = Range(m.inputs) /\ ExampleRequest(m) = <<row>>
  BY DEF ExampleRequest, Wide
<1>. HIDE DEF row
<1>3. ASSUME NEW n \in Range(m.inputs)
      PROVE  row[n] # Text /\ row[n] \notin NonFinite /\ FieldAccepts(row[n], m.lo[n], m.hi[n], np)
  BY <1>1 DEF Number, NonFinite, FieldAccepts, AtMost
<1>4. RowErrors(m, row, np) = {}
  BY <1>2, <1>3 DEF RowErrors
<1>5. NonFiniteIn(m, row) = {}
  BY <1>3 DEF NonFiniteIn
<1>6. Violations(m, row, np) = {}
  BY <1>4, <1>5 DEF Violations
<1>7. BatchViolations(m, <<row>>, np) = {}
  BY <1>6 DEF BatchViolations
<1>. QED BY <1>2, <1>7

\* A request names one model at most.
LEMMA ResolvesToOne ==
    ASSUME NEW t, NEW k \in DOMAIN Models, NEW l \in DOMAIN Models, Resolves(t, k), Resolves(t, l)
    PROVE  k = l
<1>1. k = <<k[1], k[2]>> /\ l = <<l[1], l[2]>> /\ k[2] \in Semver /\ l[2] \in Semver
  BY ModelsAssumption
<1>2. k[1] = l[1]
  BY DEF Resolves
<1>3. CASE t[2] # None
  BY <1>1, <1>2, <1>3 DEF Resolves
<1>4. CASE t[2] = None
  <2>1. k[2] \in Versions(k[1]) /\ l[2] \in Versions(k[1])
    BY <1>2 DEF Versions
  <2>2. ~ VersionLess(k[2], l[2]) /\ ~ VersionLess(l[2], k[2])
    BY <1>2, <1>4, <2>1 DEF Resolves, IsLatest, IsHighest
  <2>3. k[2] = l[2]
    BY <1>1, <2>2 DEF VersionLess, Semver
  <2>. QED BY <1>1, <1>2, <2>3
<1>. QED BY <1>3, <1>4

LEMMA NoneIsNoModel == None \notin DOMAIN Models
  BY ModelsAssumption

\* A request with the example of a page asks for that page's model.
OfPage(r) ==
    /\ stage[r] = "none" => key[r] = None
    /\ page[r] # None =>
          /\ page[r] \in DOMAIN Models /\ Resolves(target[r], page[r])
          /\ rows[r] = ExampleRequest(Models[page[r]])
          /\ key[r] \in {None, page[r]}
          /\ stage[r] = "validating" => key[r] = page[r]
          /\ Wide(Models[page[r]]) =>
                /\ status[r] \in {0, 200, 500}
                /\ stage[r] = "raised" \/ status[r] = 500 => Models[page[r]].mayRaise

PageInv == \A r \in Request : OfPage(r)

LEMMA PageStep ==
    ASSUME PredictInv, TypeOK', NEW r \in Request, OfPage(r), Receive(r) \/ Step(r)
    PROVE  OfPage(r)'
<1>. USE DEF PredictInv
<1>1. CASE Receive(r)
  <2>1. PICK t \in Target : target' = [target EXCEPT ![r] = t] /\ Compose(r, t)
    BY <1>1 DEF Receive
  <2>2. stage[r] = "none" /\ stage'[r] = "parsing" /\ key'[r] = None /\ status'[r] = 0
    BY <1>1 DEF TypeOK, InOrder, Receive, Goto, OfPage
  <2>3. \/ page'[r] = None
        \/ /\ page'[r] \in DOMAIN Models /\ Resolves(target'[r], page'[r])
           /\ rows'[r] = ExampleRequest(Models[page'[r]])
    BY <2>1 DEF TypeOK, Compose
  <2>. QED BY <2>2, <2>3 DEF OfPage
<1>2. CASE Parse(r)
  <2>1. stage[r] = "parsing" /\ UNCHANGED <<asked, key>> /\ stage'[r] \in {"resolving", "answering"}
    BY <1>2 DEF TypeOK, Parse, Answer, Goto
  <2>2. ASSUME page[r] # None, Wide(Models[page[r]]) PROVE status'[r] = status[r]
    <3>1. Len(rows[r]) = 1 /\ MaxBatchRows \in Nat \ {0}
      BY <2>2, ExampleIsValid, BatchAssumption DEF OfPage
    <3>. QED BY <1>2, <3>1 DEF Parse
  <2>. QED BY <2>1, <2>2 DEF OfPage, asked
<1>3. CASE Resolve(r)
  <2>1. stage[r] = "resolving" /\ UNCHANGED asked /\ stage'[r] \in {"validating", "answering"}
    BY <1>3 DEF TypeOK, Resolve, Answer, Goto
  <2>2. ASSUME page[r] # None PROVE key'[r] = page[r] /\ status' = status
    <3>1. page[r] \in DOMAIN Models /\ Resolves(target[r], page[r])
      BY <2>2 DEF OfPage
    <3>2. PICK k \in DOMAIN Models : /\ Resolves(target[r], k) /\ key' = [key EXCEPT ![r] = k]
                                     /\ UNCHANGED status
      BY <1>3, <3>1 DEF Resolve
    <3>3. key'[r] = k
      BY <3>2 DEF TypeOK
    <3>. QED BY <3>1, <3>2, <3>3, ResolvesToOne
  <2>. QED BY <2>1, <2>2 DEF OfPage, asked
<1>4. CASE Validate(r)
  <2>1. /\ stage[r] = "validating" /\ UNCHANGED <<asked, key>>
        /\ stage'[r] \in {"predicting", "answering", "raised"}
    BY <1>4 DEF TypeOK, Validate, Answer, Goto
  <2>2. ASSUME page[r] # None, Wide(Models[page[r]])
        PROVE  status' = status /\ stage'[r] = "predicting"
    <3>1. BatchViolations(Models[key[r]], rows[r], nanPasses) = {}
      BY <2>1, <2>2, ExampleIsValid DEF OfPage
    <3>. QED BY <1>4, <3>1 DEF TypeOK, Validate, Goto
  <2>. QED BY <2>1, <2>2 DEF OfPage, asked
<1>5. CASE Predict(r)
  <2>1. /\ stage[r] = "predicting" /\ UNCHANGED <<asked, key, status>>
        /\ stage'[r] = "serving" \/ (stage'[r] = "raised" /\ Models[key[r]].mayRaise)
    BY <1>5 DEF TypeOK, Predict, Goto
  <2>2. key[r] # None
    BY <2>1, NoneIsNoModel DEF InOrder, Accepted
  <2>. QED BY <2>1, <2>2 DEF OfPage, asked
<1>6. CASE Serve(r)
  <2>1. /\ stage[r] = "serving" /\ UNCHANGED <<asked, key>>
        /\ \/ stage'[r] = "answering" /\ status'[r] = 200
           \/ stage'[r] = "raised" /\ Models[key[r]].mayRaise /\ UNCHANGED status
    BY <1>6 DEF TypeOK, Serve, Answer, Goto
  <2>2. key[r] # None
    BY <2>1, NoneIsNoModel DEF InOrder, Accepted
  <2>. QED BY <2>1, <2>2 DEF OfPage, asked
<1>7. CASE Respond(r) \/ Fail(r)
  <2>1. UNCHANGED <<asked, key>> /\ stage'[r] = "done"
    BY <1>7 DEF TypeOK, Respond, Fail, Goto
  <2>2. status'[r] = status[r] \/ (status'[r] = 500 /\ stage[r] = "raised")
    BY <1>7 DEF TypeOK, Respond, Fail
  <2>. QED BY <2>1, <2>2 DEF OfPage, asked
<1>. QED BY <1>1, <1>2, <1>3, <1>4, <1>5, <1>6, <1>7 DEF Step

LEMMA PageNext == PredictInv /\ TypeOK' /\ PageInv /\ [Next]_vars => PageInv'
<1>. SUFFICES ASSUME PredictInv, TypeOK', PageInv, [Next]_vars, NEW q \in Request PROVE OfPage(q)'
  BY DEF PageInv
<1>1. OfPage(q)
  BY DEF PageInv
<1>2. CASE UNCHANGED vars
  BY <1>1, <1>2 DEF vars, asked, OfPage
<1>3. ASSUME NEW r \in Request, Receive(r) \/ Step(r) PROVE OfPage(q)'
  <2>1. CASE q = r
    BY <1>1, <1>3, <2>1, PageStep
  <2>2. CASE q # r
    <3>1. Untouched(q)
      BY <1>3, <2>2, OnlyOwnVariables DEF PredictInv
    <3>2. page'[q] = page[q]
      <4>1. page' = page \/ \E x : page' = [page EXCEPT ![r] = x]
        BY <1>3 DEF Receive, Compose, Step, Parse, Resolve, Validate, Predict, Serve, Respond, Fail,
                    asked
      <4>. QED BY <2>2, <4>1 DEF PredictInv, TypeOK
    <3>. QED BY <1>1, <3>1, <3>2 DEF OfPage, Untouched
  <2>. QED BY <2>1, <2>2
<1>. QED BY <1>2, <1>3 DEF Next

\* An example the service hands out is one it takes, and only an emulator of its own
\* that fails keeps it from a 200, whatever finite bounds the manifest has, as long
\* as six decimals resolve them.
THEOREM ExampleTaken == Spec => []ExampleIsAccepted
<1>1. Init => PageInv
  BY DEF Init, PageInv, OfPage
<1>2. Spec => []PageInv
  <2>1. PredictInv' => TypeOK'
    BY DEF PredictInv
  <2>. QED BY <1>1, <2>1, PageNext, PredictInvariance, PTL DEF Spec
<1>3. PageInv => ExampleIsAccepted
  BY DEF PageInv, OfPage, ExampleIsAccepted, Wide
<1>. QED BY <1>2, <1>3, PTL
-----------------------------------------------------------------------------
(* The contract of an exchange.                                            *)

\* A row without violations fits the manifest and the other way round, whichever
\* way the bound check treats a NaN.
LEMMA ValidIsFit ==
    ASSUME NEW m, IsModel(m), NEW row, NEW np, \A n \in DOMAIN row : row[n] \in Number \cup {Text}
    PROVE  Violations(m, row, np) = {} <=> Fits(m, row)
<1>1. ASSUME Violations(m, row, np) = {} PROVE Fits(m, row)
  <2>. DEFINE Lacking == Range(m.inputs) \ DOMAIN row
              Unknown == DOMAIN row \ Range(m.inputs)
  <2>1. {<<n, "missing">> : n \in Lacking} = {} /\ {<<n, "extra_forbidden">> : n \in Unknown} = {}
    BY <1>1 DEF Violations, RowErrors
  <2>. HIDE DEF Lacking, Unknown
  <2>2. Lacking = {} /\ Unknown = {}
    BY <2>1
  <2>3. DOMAIN row = Range(m.inputs)
    BY <2>2 DEF Lacking, Unknown
  <2>. QED BY <1>1, <2>3, RowIsInDomain DEF Fits
<1>2. ASSUME Fits(m, row) PROVE Violations(m, row, np) = {}
  <2>1. ASSUME NEW n \in Range(m.inputs)
        PROVE  row[n] \in Int /\ AtMost(m.lo[n], row[n]) /\ AtMost(row[n], m.hi[n])
    <3>1. PICK i \in DOMAIN m.inputs : m.inputs[i] = n
      BY DEF Range
    <3>2. RowValues(m, row)[i] = row[n]
      BY <3>1 DEF RowValues
    <3>. QED BY <1>2, <3>1, <3>2 DEF Fits, InDomain
  <2>2. \A n \in Range(m.inputs) :
           row[n] # Text /\ row[n] \notin NonFinite /\ FieldAccepts(row[n], m.lo[n], m.hi[n], np)
    BY <2>1 DEF Number, FieldAccepts
  <2>3. DOMAIN row = Range(m.inputs)
    BY <1>2 DEF Fits
  <2>4. RowErrors(m, row, np) = {}
    BY <2>2, <2>3 DEF RowErrors
  <2>5. NonFiniteIn(m, row) = {}
    BY <2>2 DEF NonFiniteIn
  <2>. QED BY <2>4, <2>5 DEF Violations
<1>. QED BY <1>1, <1>2

LEMMA ValidBatchFits ==
    ASSUME NEW m, IsModel(m), NEW batch, IsBatch(batch), NEW np
    PROVE  BatchViolations(m, batch, np) = {} <=> \A i \in DOMAIN batch : Fits(m, batch[i])
<1>1. \A i \in DOMAIN batch : Violations(m, batch[i], np) = {} <=> Fits(m, batch[i])
  BY ValidIsFit DEF IsBatch
<1>2. ASSUME BatchViolations(m, batch, np) = {}
      PROVE  \A i \in DOMAIN batch : Violations(m, batch[i], np) = {}
  BY <1>2, NoRowViolates DEF IsBatch
<1>3. ASSUME \A i \in DOMAIN batch : Violations(m, batch[i], np) = {}
      PROVE  BatchViolations(m, batch, np) = {}
  BY <1>3 DEF BatchViolations
<1>. QED BY <1>1, <1>2, <1>3

LEMMA NamedResolves ==
    ASSUME NEW t, NEW k \in DOMAIN Models
    PROVE  k \in Named(t) <=> Resolves(t, k)
BY DEF Named, Resolves, IsLatest, IsHighest

\* What the manifest of the model named says is what the API may say.
LEMMA AnswersOfNamed ==
    ASSUME NEW q, Len(q.rows) \in 1 .. MaxBatchRows, NEW k \in DOMAIN Models, Resolves(q.target, k)
    PROVE  AnswersOf(q, k) \subseteq Answers(q)
BY NamedResolves DEF Answers

\* A rejection that cannot be rendered names a parameter without a finite domain,
\* in which its row is wrong.
LEMMA UnrenderableIsBeyond ==
    ASSUME NEW m, NEW batch, NEW np,
           \A i \in DOMAIN batch : \A n \in DOMAIN batch[i] : batch[i][n] \in Number \cup {Text},
           ~ Renderable(m, BatchViolations(m, batch, np))
    PROVE  \E i \in DOMAIN batch : WrongBeyondJson(m, batch[i])
<1>1. PICK v \in BatchViolations(m, batch, np) : v[2][1] \in Range(m.inputs) /\ ~ Bounded(m, v[2][1])
  BY DEF Renderable
<1>2. PICK i \in DOMAIN batch : v \in {i} \X Violations(m, batch[i], np)
  BY DEF BatchViolations
<1>. DEFINE row == batch[i]
            e == v[2]
            n == e[1]
<1>3. e \in RowErrors(m, row, np) \/ e \in NonFiniteIn(m, row)
  BY <1>2 DEF Violations
<1>4. n \in Range(m.inputs) /\ ~ Bounded(m, n)
  BY <1>1
<1>5. \A x \in DOMAIN row : row[x] \in Number \cup {Text}
  OBVIOUS
<1>. HIDE DEF row, e
<1>6. CASE e \in NonFiniteIn(m, row)
  <2>1. row[n] \in NonFinite
    BY <1>6 DEF NonFiniteIn
  <2>. QED BY <1>4, <2>1 DEF WrongBeyondJson, row
<1>7. CASE e \in RowErrors(m, row, np)
  <2>1. \/ n \notin DOMAIN row
        \/ n \in DOMAIN row /\ row[n] = Text
        \/ n \in DOMAIN row /\ ~ FieldAccepts(row[n], m.lo[n], m.hi[n], np)
    BY <1>4, <1>7 DEF RowErrors
  <2>2. row[n] = Text => row[n] \notin Int
    BY DEF Number
  <2>3. ~ FieldAccepts(row[n], m.lo[n], m.hi[n], np) =>
           ~ (AtMost(m.lo[n], row[n]) /\ AtMost(row[n], m.hi[n]))
    BY DEF FieldAccepts
  <2>. QED BY <1>4, <2>1, <2>2, <2>3 DEF WrongBeyondJson, row
<1>. QED BY <1>3, <1>6, <1>7

\* The answer a request has on its way, with its id on it.
Pending(r) ==
    IF status[r] = 200
    THEN [status |-> 200, id |-> id[r], key |-> key[r], means |-> means[r], stds |-> stds[r]]
    ELSE Plain(status[r], id[r])

\* What a request was found to be so far, and that its answer is one it may get.
Answerable(r) ==
    /\ stage[r] # "none" => id[r] \in RequestId
    /\ stage[r] # "done" => header[r] = None
    /\ stage[r] \in {"resolving", "validating", "predicting", "serving", "raised"} =>
          Len(rows[r]) \in 1 .. MaxBatchRows
    /\ stage[r] = "raised" => Plain(500, None) \in Answers(QuestionOf(r))
    /\ stage[r] = "answering" => Pending(r) \in Answers(QuestionOf(r))

ContractInv == \A r \in Request : Answerable(r)

\* An accepted batch may be answered with its predictions, or by an emulator that
\* can raise with nothing.
LEMMA AcceptedMayBeServed ==
    ASSUME PredictInv, NEW r \in Request, Accepted(r), Len(rows[r]) \in 1 .. MaxBatchRows
    PROVE  /\ Prediction(QuestionOf(r), key[r]) \in Answers(QuestionOf(r))
           /\ Models[key[r]].mayRaise => Plain(500, None) \in Answers(QuestionOf(r))
<1>. DEFINE q == QuestionOf(r)
            k == key[r]
<1>1. q.rows = rows[r] /\ q.target = target[r] /\ IsBatch(rows[r])
  BY DEF QuestionOf, PredictInv, InOrder
<1>2. k \in DOMAIN Models /\ IsModel(Models[k]) /\ Resolves(q.target, k)
  BY <1>1, ModelsAreModels DEF Accepted
<1>3. BatchViolations(Models[k], rows[r], nanPasses) = {}
  BY DEF Accepted
<1>. HIDE DEF q, k
<1>4. \A i \in DOMAIN q.rows : Fits(Models[k], q.rows[i])
  BY <1>1, <1>2, <1>3, ValidBatchFits
<1>5. Prediction(q, k) \in AnswersOf(q, k)
  BY <1>4 DEF AnswersOf
<1>6. Models[k].mayRaise => Plain(500, None) \in AnswersOf(q, k)
  BY <1>4 DEF AnswersOf
<1>7. AnswersOf(q, k) \subseteq Answers(q)
  BY <1>1, <1>2, AnswersOfNamed
<1>. QED BY <1>5, <1>6, <1>7 DEF q, k

\* What was predicted for an accepted batch is that prediction.
LEMMA PredictedIsPrediction ==
    ASSUME PredictInv, NEW r \in Request, Accepted(r), Predicted(r)
    PROVE  LET p == Prediction(QuestionOf(r), key[r])
           IN  p = [status |-> 200, id |-> id[r], key |-> key[r], means |-> means[r], stds |-> stds[r]]
<1>. DEFINE m == Models[key[r]]
            batch == rows[r]
            each == [i \in DOMAIN batch |-> <<key[r], ToTensor(<<RowValues(m, batch[i])>>, m.dtype)[1]>>]
<1>1. /\ IsBatch(batch) /\ IsModel(m) /\ BatchViolations(m, batch, nanPasses) = {}
      /\ Tensor(r) = ToTensor(Matrix(m, batch, nanPasses), m.dtype)
  BY ModelsAreModels DEF PredictInv, InOrder, Accepted, Tensor
<1>2. /\ DOMAIN Tensor(r) = 1 .. Len(batch) /\ DOMAIN batch = 1 .. Len(batch)
      /\ \A i \in 1 .. Len(batch) : Tensor(r)[i] = ToTensor(<<RowValues(m, batch[i])>>, m.dtype)[1]
  <2>. HIDE DEF m, batch
  <2>. QED BY <1>1, TensorOfAccepted DEF IsBatch
<1>3. means[r] = [i \in DOMAIN Tensor(r) |-> <<key[r], Tensor(r)[i]>>]
  BY DEF Predicted
<1>4. means[r] = each
  BY <1>2, <1>3
<1>5. stds[r] = IF m.supports_uq THEN each ELSE << >>
  BY <1>1, <1>4 DEF Predicted, IsModel
<1>6. Prediction(QuestionOf(r), key[r]) =
        [status |-> 200, id |-> id[r], key |-> key[r],
         means |-> each, stds |-> IF m.supports_uq THEN each ELSE << >>]
  BY DEF Prediction, QuestionOf
<1>. QED BY <1>4, <1>5, <1>6

\* A request's own step keeps its answer one it may get.
LEMMA AnswerableStep ==
    ASSUME PredictInv, TypeOK', NEW r \in Request, Answerable(r), Receive(r) \/ Step(r)
    PROVE  Answerable(r)'
<1>. USE DEF PredictInv
<1>1. CASE Receive(r)
  <2>1. PICK i \in RequestId : id' = [id EXCEPT ![r] = i]
    BY <1>1 DEF Receive
  <2>2. stage[r] = "none" /\ stage'[r] = "parsing" /\ id'[r] \in RequestId /\ header'[r] = header[r]
    BY <1>1, <2>1 DEF TypeOK, Receive, Goto
  <2>. QED BY <2>2 DEF Answerable
<1>2. CASE Parse(r)
  <2>1. stage[r] = "parsing" /\ UNCHANGED <<id, asked, key, means, stds, header>>
    BY <1>2 DEF Parse
  <2>2. CASE Len(rows[r]) \in 1 .. MaxBatchRows
    <3>1. stage'[r] = "resolving"
      BY <1>2, <2>2 DEF Parse, Goto, TypeOK
    <3>. QED BY <2>1, <2>2, <3>1 DEF Answerable, asked
  <2>3. CASE Len(rows[r]) \notin 1 .. MaxBatchRows
    <3>1. stage'[r] = "answering" /\ status'[r] = 422
      BY <1>2, <2>3 DEF Parse, Answer, Goto, TypeOK
    <3>2. Plain(422, id[r]) \in Answers(QuestionOf(r))
      BY <2>3 DEF Answers, QuestionOf
    <3>. QED BY <2>1, <3>1, <3>2 DEF Answerable, asked, Pending, QuestionOf
  <2>. QED BY <2>2, <2>3
<1>3. CASE Resolve(r)
  <2>1. stage[r] = "resolving" /\ UNCHANGED <<id, asked, means, stds, header>>
    BY <1>3 DEF Resolve
  <2>2. CASE \E k \in DOMAIN Models : Resolves(target[r], k)
    <3>1. stage'[r] = "validating"
      BY <1>3, <2>2 DEF Resolve, Goto, TypeOK
    <3>. QED BY <2>1, <3>1 DEF Answerable, asked
  <2>3. CASE \A k \in DOMAIN Models : ~ Resolves(target[r], k)
    <3>1. stage'[r] = "answering" /\ status'[r] = 404
      BY <1>3, <2>3 DEF Resolve, Answer, Goto, TypeOK
    <3>2. Named(target[r]) = {}
      <4>1. Named(target[r]) \subseteq DOMAIN Models
        BY DEF Named
      <4>. QED BY <2>3, <4>1, NamedResolves
    <3>3. Plain(404, id[r]) \in Answers(QuestionOf(r))
      BY <2>1, <3>2 DEF Answers, QuestionOf, Answerable
    <3>. QED BY <2>1, <3>1, <3>3 DEF Answerable, asked, Pending, QuestionOf
  <2>. QED BY <2>2, <2>3
<1>4. CASE Validate(r)
  <2>. DEFINE m == Models[key[r]]
  <2>1. /\ stage[r] = "validating" /\ UNCHANGED <<id, asked, key, means, stds, header>>
        /\ key[r] \in DOMAIN Models /\ Resolves(target[r], key[r])
    BY <1>4 DEF Validate, InOrder
  <2>2. CASE BatchViolations(m, rows[r], nanPasses) = {}
    <3>1. stage'[r] = "predicting"
      BY <1>4, <2>2 DEF Validate, Goto, TypeOK
    <3>. QED BY <2>1, <3>1 DEF Answerable, asked
  <2>3. CASE BatchViolations(m, rows[r], nanPasses) # {}
    <3>1. \/ stage'[r] = "answering" /\ status'[r] = 422
          \/ stage'[r] = "raised" /\ ~ Renderable(m, BatchViolations(m, rows[r], nanPasses))
      BY <1>4, <2>3 DEF Validate, Answer, Goto, TypeOK
    <3>2. ~ \A i \in DOMAIN rows[r] : Fits(m, rows[r][i])
      <4>1. IsModel(m) /\ IsBatch(rows[r])
        BY <2>1, ModelsAreModels DEF InOrder
      <4>. HIDE DEF m
      <4>. QED BY <2>3, <4>1, ValidBatchFits
    <3>3. Plain(422, id[r]) \in AnswersOf(QuestionOf(r), key[r])
      BY <3>2 DEF AnswersOf, QuestionOf
    <3>4. AnswersOf(QuestionOf(r), key[r]) \subseteq Answers(QuestionOf(r))
      <4>1. Len(QuestionOf(r).rows) \in 1 .. MaxBatchRows /\ Resolves(QuestionOf(r).target, key[r])
        BY <2>1 DEF Answerable, QuestionOf
      <4>. QED BY <2>1, <4>1, AnswersOfNamed
    <3>5. Plain(422, id[r]) \in Answers(QuestionOf(r))
      BY <3>3, <3>4
    <3>6. CASE stage'[r] = "answering" /\ status'[r] = 422
      BY <2>1, <3>5, <3>6 DEF Answerable, asked, Pending, QuestionOf
    <3>7. CASE stage'[r] = "raised" /\ ~ Renderable(m, BatchViolations(m, rows[r], nanPasses))
      <4>1. \E i \in DOMAIN rows[r] : WrongBeyondJson(m, rows[r][i])
        <5>1. IsBatch(rows[r])
          BY DEF InOrder
        <5>. HIDE DEF m
        <5>. QED BY <3>7, <5>1, UnrenderableIsBeyond DEF IsBatch
      <4>2. Plain(500, None) \in AnswersOf(QuestionOf(r), key[r])
        BY <3>2, <4>1 DEF AnswersOf, QuestionOf
      <4>3. Plain(500, None) \in Answers(QuestionOf(r))
        BY <3>4, <4>2
      <4>. QED BY <2>1, <3>7, <4>3 DEF Answerable, asked, QuestionOf
    <3>. QED BY <3>1, <3>6, <3>7
  <2>. QED BY <2>2, <2>3
<1>5. CASE Predict(r)
  <2>1. /\ stage[r] = "predicting" /\ UNCHANGED <<nanPasses, id, asked, key, matrix, header>>
        /\ stage'[r] \in {"serving", "raised"}
        /\ stage'[r] = "raised" => Models[key[r]].mayRaise
    BY <1>5 DEF Predict, Goto, TypeOK
  <2>2. Models[key[r]].mayRaise => Plain(500, None) \in Answers(QuestionOf(r))
    BY <2>1, AcceptedMayBeServed DEF InOrder, Answerable
  <2>. QED BY <2>1, <2>2 DEF Answerable, asked, QuestionOf
<1>6. CASE Serve(r)
  <2>1. /\ stage[r] = "serving" /\ UNCHANGED <<nanPasses, id, asked, key, matrix, means, stds, header>>
    BY <1>6 DEF Serve
  <2>2. Accepted(r) /\ Predicted(r)
    BY <2>1 DEF InOrder
  <2>3. CASE Answer(r, 200)
    <3>1. stage'[r] = "answering" /\ status'[r] = 200
      BY <2>3 DEF Answer, Goto, TypeOK
    <3>2. Prediction(QuestionOf(r), key[r]) \in Answers(QuestionOf(r))
      BY <2>1, <2>2, AcceptedMayBeServed DEF Answerable
    <3>3. [status |-> 200, id |-> id[r], key |-> key[r], means |-> means[r], stds |-> stds[r]]
            \in Answers(QuestionOf(r))
      BY <2>2, <3>2, PredictedIsPrediction
    <3>. QED BY <2>1, <3>1, <3>3 DEF Answerable, asked, Pending, QuestionOf
  <2>4. CASE Models[key[r]].mayRaise /\ Goto(r, "raised") /\ UNCHANGED status
    <3>1. stage'[r] = "raised"
      BY <2>4 DEF Goto, TypeOK
    <3>2. Plain(500, None) \in Answers(QuestionOf(r))
      BY <2>1, <2>2, <2>4, AcceptedMayBeServed DEF Answerable
    <3>. QED BY <2>1, <3>1, <3>2 DEF Answerable, asked, QuestionOf
  <2>. QED BY <1>6, <2>3, <2>4 DEF Serve
<1>7. CASE Respond(r) \/ Fail(r)
  <2>1. stage[r] # "none" /\ stage'[r] = "done" /\ UNCHANGED id
    BY <1>7 DEF Respond, Fail, Goto, TypeOK
  <2>. QED BY <2>1 DEF Answerable
<1>. QED BY <1>1, <1>2, <1>3, <1>4, <1>5, <1>6, <1>7 DEF Step

\* The header too is the request's own.
LEMMA OnlyOwnHeader ==
    ASSUME TypeOK, NEW r \in Request, Receive(r) \/ Step(r), NEW q \in Request \ {r}
    PROVE  header'[q] = header[q]
<1>1. header' = header \/ header' = [header EXCEPT ![r] = id[r]]
  BY DEF Receive, Step, Parse, Resolve, Validate, Predict, Serve, Respond, Fail
<1>. QED BY <1>1 DEF TypeOK

\* A request another's step leaves alone looks to its client as before.
LEMMA LooksAsBefore ==
    ASSUME NEW q \in Request, Untouched(q), header'[q] = header[q], UNCHANGED nanPasses
    PROVE  /\ ClientView'[q] = ClientView[q]
           /\ Answerable(q) => Answerable(q)'
<1>1. /\ QuestionOf(q)' = QuestionOf(q) /\ AnswerOf(q)' = AnswerOf(q) /\ Pending(q)' = Pending(q)
      /\ Accepted(q)' <=> Accepted(q)
  BY KeptByOthers DEF QuestionOf, AnswerOf, Pending, Untouched
<1>2. ClientView'[q] = ClientView[q]
  BY <1>1 DEF ClientView, Untouched
<1>3. Answerable(q) => Answerable(q)'
  BY <1>1 DEF Answerable, Untouched
<1>. QED BY <1>2, <1>3

LEMMA ContractNext == PredictInv /\ TypeOK' /\ ContractInv /\ [Next]_vars => ContractInv'
<1>. SUFFICES ASSUME PredictInv, TypeOK', ContractInv, [Next]_vars, NEW q \in Request
              PROVE  Answerable(q)'
  BY DEF ContractInv
<1>1. Answerable(q)
  BY DEF ContractInv
<1>2. CASE UNCHANGED vars
  <2>1. Untouched(q) /\ header'[q] = header[q] /\ UNCHANGED nanPasses
    BY <1>2 DEF vars, asked, Untouched
  <2>. QED BY <1>1, <2>1, LooksAsBefore
<1>3. ASSUME NEW r \in Request, Receive(r) \/ Step(r) PROVE Answerable(q)'
  <2>1. CASE q = r
    BY <1>1, <1>3, <2>1, AnswerableStep
  <2>2. CASE q # r
    <3>1. Untouched(q) /\ UNCHANGED nanPasses /\ header'[q] = header[q]
      BY <1>3, <2>2, OnlyOwnVariables, OnlyOwnHeader DEF PredictInv
    <3>. QED BY <1>1, <3>1, LooksAsBefore
  <2>. QED BY <2>1, <2>2
<1>. QED BY <1>2, <1>3 DEF Next

\* A client that sends its request asks, one that gets its response is told, and
\* nothing else shows.
LEMMA StepIsExchange ==
    ASSUME PredictInv, TypeOK', ContractInv, NEW r \in Request, Receive(r) \/ Step(r)
    PROVE  Contract!Ask(r) \/ Contract!Tell(r) \/ UNCHANGED ClientView
<1>. USE DEF PredictInv
<1>1. \A q \in Request \ {r} : ClientView'[q] = ClientView[q]
  BY OnlyOwnVariables, OnlyOwnHeader, LooksAsBefore
<1>2. /\ ClientView = [q \in Request |-> ClientView[q]]
      /\ ClientView' = [q \in Request |-> ClientView'[q]]
  BY DEF ClientView
<1>3. ClientView' = [ClientView EXCEPT ![r] = ClientView'[r]]
  BY <1>1, <1>2
<1>4. Answerable(r)
  BY DEF ContractInv
<1>5. stage[r] # "none" => QuestionOf(r) \in [target : Target, rows : Sent, id : RequestId]
  BY <1>4 DEF Answerable, QuestionOf, TypeOK
<1>6. CASE Receive(r)
  <2>1. stage[r] = "none" /\ stage'[r] = "parsing"
    BY <1>6 DEF Receive, Goto, TypeOK
  <2>2. ClientView[r] = << >> /\ ClientView'[r] = <<QuestionOf(r)'>>
    BY <2>1 DEF ClientView
  <2>3. id'[r] \in RequestId
    BY <1>4, <1>6, <2>1, AnswerableStep DEF Answerable
  <2>4. QuestionOf(r)' \in [target : Target, rows : Sent, id : RequestId]
    BY <2>3 DEF QuestionOf, TypeOK
  <2>5. Contract!Ask(r)
    <3>. HIDE DEF PredictInv
    <3>. QED BY <1>3, <2>2, <2>4 DEF Contract!Ask
  <2>. QED BY <2>5
<1>7. CASE Parse(r) \/ Resolve(r) \/ Validate(r) \/ Predict(r) \/ Serve(r)
  <2>1. stage[r] \notin {"none", "done"} /\ stage'[r] \notin {"none", "done"}
    <3>1. CASE Serve(r)
      BY <3>1 DEF Serve, Answer, Goto, TypeOK
    <3>2. CASE Resolve(r)
      BY <3>2 DEF Resolve, Answer, Goto, TypeOK
    <3>. QED BY <1>7, <3>1, <3>2 DEF Parse, Validate, Predict, Answer, Goto, TypeOK
  <2>2. UNCHANGED <<target, rows, id>>
    BY <1>7 DEF Parse, Resolve, Validate, Predict, Serve, asked
  <2>3. ClientView'[r] = ClientView[r]
    BY <2>1, <2>2 DEF ClientView, QuestionOf
  <2>. QED BY <1>1, <1>2, <2>3
<1>8. CASE Respond(r) \/ Fail(r)
  <2>1. stage[r] \in {"answering", "raised"} /\ stage'[r] = "done" /\ UNCHANGED <<target, rows, id>>
    BY <1>8 DEF Respond, Fail, Goto, asked, TypeOK
  <2>2. ClientView[r] = <<QuestionOf(r)>> /\ ClientView'[r] = <<QuestionOf(r), AnswerOf(r)'>>
    BY <2>1 DEF ClientView, QuestionOf
  <2>3. AnswerOf(r)' \in Answers(QuestionOf(r))
    <3>1. CASE Respond(r)
      <4>1. header'[r] = id[r] /\ UNCHANGED <<status, key, means, stds>> /\ stage[r] = "answering"
        BY <3>1 DEF Respond, TypeOK
      <4>2. AnswerOf(r)' = Pending(r)
        BY <4>1 DEF AnswerOf, Pending
      <4>. QED BY <1>4, <4>1, <4>2 DEF Answerable
    <3>2. CASE Fail(r)
      <4>1. header'[r] = header[r] /\ status'[r] = 500 /\ stage[r] = "raised"
        BY <3>2 DEF Fail, TypeOK
      <4>2. AnswerOf(r)' = Plain(500, None)
        BY <1>4, <4>1 DEF AnswerOf, Answerable
      <4>. QED BY <1>4, <4>1, <4>2 DEF Answerable
    <3>. QED BY <1>8, <3>1, <3>2
  <2>4. QuestionOf(r) \in [target : Target, rows : Sent, id : RequestId]
    BY <1>5, <2>1
  <2>5. Contract!Tell(r)
    <3>. HIDE DEF PredictInv
    <3>. QED BY <1>3, <2>2, <2>3, <2>4 DEF Contract!Tell
  <2>. QED BY <2>5
<1>. QED BY <1>6, <1>7, <1>8 DEF Step

\* Every response, whatever runs beside its request, is one that the README allows
\* for what was asked: POST /predict implements its contract.
THEOREM PredictImplements == Spec => ImplementsContract
<1>1. Init => ContractInv
  BY DEF Init, ContractInv, Answerable
<1>2. Spec => []ContractInv
  <2>1. PredictInv' => TypeOK'
    BY DEF PredictInv
  <2>. QED BY <1>1, <2>1, ContractNext, PredictInvariance, PTL DEF Spec
<1>3. Init => Contract!CInit
  BY DEF Init, Contract!CInit, ClientView
<1>4. PredictInv /\ TypeOK' /\ ContractInv /\ [Next]_vars => [Contract!CNext]_ClientView
  <2>. SUFFICES ASSUME PredictInv, TypeOK', ContractInv, [Next]_vars
                PROVE  [Contract!CNext]_ClientView
    OBVIOUS
  <2>1. CASE UNCHANGED vars
    BY <2>1 DEF vars, asked, ClientView, QuestionOf, AnswerOf
  <2>2. ASSUME NEW r \in Request, Receive(r) \/ Step(r) PROVE [Contract!CNext]_ClientView
    BY <2>2, StepIsExchange DEF Contract!CNext
  <2>. QED BY <2>1, <2>2 DEF Next
<1>5. PredictInv' => TypeOK'
  BY DEF PredictInv
<1>. QED
  BY <1>2, <1>3, <1>4, <1>5, PredictInvariance, PTL DEF Spec, ImplementsContract, Contract!CSpec
=============================================================================
