----------------------------- MODULE PredictApi -----------------------------
(***************************************************************************)
(* src/api/main.py: concurrent POST /models/{id}/predict requests against  *)
(* the registry of a running service, from the logging middleware through  *)
(* body validation, resolution, row validation and the emulator to the     *)
(* response and its log line.                                              *)
(*                                                                         *)
(* The registry does not change while the service is up.  Every request is *)
(* a task with a context of its own; endpoints run in worker threads and   *)
(* interleave at the points where they log or call the emulator.           *)
(***************************************************************************)
EXTENDS RowValidation, Semver

CONSTANTS Request,      \* requests a client sends
          Models,       \* [key -> what is served under it], key = <<model id, version>>
          UnknownId,    \* a model id nobody registered
          Batch,        \* batches clients send: sequences of rows
          MaxBatchRows, \* MAX_BATCH_ROWS
          RequestId,    \* request ids
          None

\* What the registry guarantees of every model it serves.
ASSUME ModelsAssumption ==
    /\ None \notin DOMAIN Models
    /\ \A k \in DOMAIN Models :
          LET m == Models[k] IN
          /\ k = <<k[1], k[2]>> /\ k[2] \in Semver
          /\ m.inputs \in Seq(Range(m.inputs))
          /\ m.variance = m.supports_uq
          /\ m.dtype \in {"float64", "float32"}

\* A batch is a JSON array of objects.
ASSUME BatchAssumption ==
    /\ MaxBatchRows \in Nat \ {0}
    /\ \A b \in Batch :
          /\ b \in Seq(Range(b))
          /\ \A i \in DOMAIN b : \A n \in DOMAIN b[i] : b[i][n] \in Number \cup {Text}

VARIABLES nanPasses,    \* how this build's Pydantic treats a NaN at a bound
          stage,        \* where each request is
          id,           \* its request id
          context,      \* request_id_var in its task
          target,       \* what it asks for: <<model id, version or None>>
          rows,         \* its batch
          page,         \* the model whose example it sends, or None
          key,          \* the model it was resolved to
          matrix,       \* the validated batch
          means, stds,  \* what the emulator returned, and uncertainty
          status,       \* the status of the response
          header,       \* X-Request-ID of the response
          calls,        \* history: tensors an emulator was asked about
          lines         \* history: log lines, <<request, event, request_id>>

\* What the client sends.
asked == <<target, rows, page>>
vars == <<nanPasses, stage, id, context, asked, key, matrix, means, stds, status,
          header, calls, lines>>

Ids == {k[1] : k \in DOMAIN Models}

\* ModelRegistry.versions(), latest_version() and get().
Versions(model_id) == {k[2] : k \in {x \in DOMAIN Models : x[1] = model_id}}
IsLatest(k) == IsHighest(k[2], Versions(k[1]))

\* Mutant: the first version instead of the last.
ResolvesToFirst(t, k) ==
    /\ k[1] = t[1]
    /\ IF t[2] = None THEN \A v \in Versions(t[1]) : v = k[2] \/ VersionLess(k[2], v) ELSE k[2] = t[2]

Resolves(t, k) ==
    /\ k[1] = t[1]
    /\ IF t[2] = None THEN IsLatest(k) ELSE k[2] = t[2]

\* What a client may ask for.
Target == (Ids \cup {UnknownId}) \X ((UNION {Versions(m) : m \in Ids}) \cup {None})

Init ==
    /\ nanPasses \in BOOLEAN
    /\ stage = [r \in Request |-> "none"]
    /\ id = [r \in Request |-> None]
    /\ context = [r \in Request |-> None]
    /\ target = [r \in Request |-> <<UnknownId, None>>]
    /\ rows = [r \in Request |-> << >>]
    /\ page = [r \in Request |-> None]
    /\ key = [r \in Request |-> None]
    /\ matrix = [r \in Request |-> << >>]
    /\ means = [r \in Request |-> << >>]
    /\ stds = [r \in Request |-> << >>]
    /\ status = [r \in Request |-> 0]
    /\ header = [r \in Request |-> None]
    /\ calls = {}
    /\ lines = {}

Goto(r, s) == stage' = [stage EXCEPT ![r] = s]
Log(r, event) == lines' = lines \cup {<<r, event, context[r]>>}

\* Mutant: a module-level variable instead of a context variable.
SetSharedId(r, i) == context' = [q \in Request |-> i]

\* request_id_var.set(): seen by this task and the threads it starts.
SetId(r, i) == context' = [context EXCEPT ![r] = i]

\* A batch of the client's own, or the example GET /models/{id} handed it.
Compose(r, t) ==
    \/ \E b \in Batch :
          /\ rows' = [rows EXCEPT ![r] = b]
          /\ page' = [page EXCEPT ![r] = None]
    \/ \E k \in DOMAIN Models :
          /\ Resolves(t, k)
          /\ rows' = [rows EXCEPT ![r] = ExampleRequest(Models[k])]
          /\ page' = [page EXCEPT ![r] = k]

\* The middleware: an id the client sent, which another may send too, or a
\* generated one.
Receive(r) ==
    /\ stage[r] = "none"
    /\ \E i \in RequestId :
          /\ id' = [id EXCEPT ![r] = i]
          /\ SetId(r, i)
    /\ \E t \in Target :
          /\ target' = [target EXCEPT ![r] = t]
          /\ Compose(r, t)
    /\ Goto(r, "parsing")
    /\ UNCHANGED <<nanPasses, key, matrix, means, stds, status, header, calls, lines>>

\* Mutant: an error handler's response goes out past the middleware.
AnswerPastMiddleware(r, code) ==
    /\ status' = [status EXCEPT ![r] = code]
    /\ Goto(r, "done")

\* The response of the endpoint or of an exception handler goes to the middleware.
Answer(r, code) ==
    /\ status' = [status EXCEPT ![r] = code]
    /\ Goto(r, "answering")

\* Mutant: a status of its own for an oversized batch.
ParseTooLarge(r) ==
    /\ stage[r] = "parsing"
    /\ IF Len(rows[r]) \in 1 .. MaxBatchRows
       THEN Goto(r, "resolving") /\ UNCHANGED status
       ELSE Answer(r, 413)
    /\ UNCHANGED <<nanPasses, id, context, asked, key, matrix, means, stds, header, calls, lines>>

\* PredictRequest: between one and MaxBatchRows rows, or 422 invalid_request.
Parse(r) ==
    /\ stage[r] = "parsing"
    /\ IF Len(rows[r]) \in 1 .. MaxBatchRows
       THEN Goto(r, "resolving") /\ UNCHANGED status
       ELSE Answer(r, 422)
    /\ UNCHANGED <<nanPasses, id, context, asked, key, matrix, means, stds, header, calls, lines>>

\* _resolve(): the model, or ModelNotFound and 404.
Resolve(r) ==
    /\ stage[r] = "resolving"
    /\ \/ \E k \in DOMAIN Models :
             /\ Resolves(target[r], k)
             /\ key' = [key EXCEPT ![r] = k]
             /\ Goto(r, "validating")
             /\ UNCHANGED status
       \/ /\ \A k \in DOMAIN Models : ~ Resolves(target[r], k)
          /\ Answer(r, 404)
          /\ UNCHANGED key
    /\ UNCHANGED <<nanPasses, id, context, asked, matrix, means, stds, header, calls, lines>>

\* validate_batch(): the whole matrix, or a log line and 422, unless that response
\* cannot be rendered: then the handler raises, and its exception is the middleware's.
Validate(r) ==
    /\ stage[r] = "validating"
    /\ LET m == Models[key[r]]
           violations == BatchViolations(m, rows[r], nanPasses)
       IN  \/ /\ violations # {}
              /\ Log(r, "input_rejected")
              /\ \/ Renderable(m, violations) /\ Answer(r, 422)
                 \/ ~ Renderable(m, violations) /\ Goto(r, "raised") /\ UNCHANGED status
              /\ UNCHANGED matrix
           \/ /\ violations = {}
              /\ matrix' = [matrix EXCEPT ![r] = Matrix(m, rows[r], nanPasses)]
              /\ Goto(r, "predicting")
              /\ UNCHANGED <<lines, status>>
    /\ UNCHANGED <<nanPasses, id, context, asked, key, means, stds, header, calls>>

\* LoadedModel.predict(): one mean per row of the tensor, and a standard
\* deviation each if the emulator has one.  An exception is the middleware's.
Predict(r) ==
    /\ stage[r] = "predicting"
    /\ LET m == Models[key[r]]
           tensor == ToTensor(matrix[r], m.dtype)
       IN  /\ calls' = calls \cup {<<r, key[r], tensor>>}
           /\ \/ /\ means' = [means EXCEPT ![r] = [i \in DOMAIN tensor |-> <<key[r], tensor[i]>>]]
                 /\ stds' = [stds EXCEPT ![r] = IF m.variance THEN means'[r] ELSE << >>]
                 /\ Goto(r, "serving")
              \/ /\ m.mayRaise
                 /\ Goto(r, "raised")
                 /\ UNCHANGED <<means, stds>>
    /\ UNCHANGED <<nanPasses, id, context, asked, key, matrix, status, header, lines>>

\* The response is built; a value JSON cannot carry raises while it is encoded.
Serve(r) ==
    /\ stage[r] = "serving"
    /\ Log(r, "prediction")
    /\ \/ Answer(r, 200)
       \/ Models[key[r]].mayRaise /\ Goto(r, "raised") /\ UNCHANGED status
    /\ UNCHANGED <<nanPasses, id, context, asked, key, matrix, means, stds, header, calls>>

\* The middleware after call_next(): header, log line, context reset.
Respond(r) ==
    /\ stage[r] = "answering"
    /\ header' = [header EXCEPT ![r] = id[r]]
    /\ Log(r, "request")
    /\ SetId(r, None)
    /\ Goto(r, "done")
    /\ UNCHANGED <<nanPasses, id, asked, key, matrix, means, stds, status, calls>>

\* The middleware's except branch logs, resets the context and re-raises; the
\* server answers 500 and logs the exception through the same handler.
Fail(r) ==
    /\ stage[r] = "raised"
    /\ SetId(r, None)
    /\ lines' = lines \cup {<<r, "request_failed", context[r]>>, <<r, "asgi_exception", context'[r]>>}
    /\ status' = [status EXCEPT ![r] = 500]
    /\ Goto(r, "done")
    /\ UNCHANGED <<nanPasses, id, asked, key, matrix, means, stds, header, calls>>

Step(r) ==
    \/ Parse(r) \/ Resolve(r) \/ Validate(r) \/ Predict(r) \/ Serve(r) \/ Respond(r) \/ Fail(r)

Next == \E r \in Request : Receive(r) \/ Step(r)

Spec == Init /\ [][Next]_vars

\* Every worker thread is scheduled.
FairSpec == Spec /\ \A r \in Request : WF_vars(Step(r))
-----------------------------------------------------------------------------
Sent == Batch \cup {<< >>} \cup {ExampleRequest(Models[k]) : k \in DOMAIN Models}

\* A request of predict() at any stage; its status is one the API documents.
TypeOK ==
    /\ nanPasses \in BOOLEAN
    /\ stage \in [Request -> {"none", "parsing", "resolving", "validating", "predicting",
                              "serving", "raised", "answering", "done"}]
    /\ id \in [Request -> RequestId \cup {None}]
    /\ context \in [Request -> RequestId \cup {None}]
    /\ target \in [Request -> Target]
    /\ rows \in [Request -> Sent]
    /\ page \in [Request -> DOMAIN Models \cup {None}]
    /\ key \in [Request -> DOMAIN Models \cup {None}]
    /\ status \in [Request -> {0, 200, 404, 422, 500}]
    /\ header \in [Request -> RequestId \cup {None}]

\* Whatever the manifest's bounds (infinite ones too), however Pydantic treats
\* NaN, a model is only ever asked about finite rows inside its training domain,
\* all of the batch, in its order and the manifest's column order: in double
\* precision about exactly these, in single at most one rounding away.
EmulatorSeesDomain ==
    \A c \in calls :
        LET m == Models[c[2]]
            sent == rows[c[1]]
        IN  /\ Len(c[3]) = Len(sent)
            /\ \A i \in DOMAIN sent :
                  /\ InDomain(m, RowValues(m, sent[i]))
                  /\ \A j \in DOMAIN m.inputs :
                        LET off == c[3][i][j] - sent[i][m.inputs[j]]
                        IN  IF m.dtype = "float64" THEN off = 0
                            ELSE 2 * off <= SingleStep /\ - SingleStep <= 2 * off

\* A batch is served whole or not at all: a 200 has one prediction per row, of
\* that row and of the model the response names, with a standard deviation
\* exactly if the manifest claims one; a 422 or 404 never reached an emulator.
AllOrNothing ==
    \A r \in Request :
        /\ status[r] = 200 =>
              LET m == Models[key[r]] IN
              /\ Len(means[r]) = Len(rows[r])
              /\ \A i \in DOMAIN means[r] :
                    means[r][i] = <<key[r], ToTensor(<<RowValues(m, rows[r][i])>>, m.dtype)[1]>>
              /\ Len(stds[r]) = IF m.supports_uq THEN Len(rows[r]) ELSE 0
        /\ status[r] \in {404, 422} => \A c \in calls : c[1] # r

\* A client that pins a version is answered by that version or not at all, one
\* that does not by the highest.
AnsweredByAsked ==
    \A r \in Request :
        status[r] = 200 =>
            /\ key[r][1] = target[r][1]
            /\ \/ key[r][2] = target[r][2]
               \/ target[r][2] = None /\ \A v \in Versions(key[r][1]) : ~ VersionLess(key[r][2], v)

\* "A ready-to-paste request body": an example the service hands out is one it
\* takes, although six decimals are not the midpoint, when each parameter's
\* domain is finite and at least one unit of the last decimal wide; then nothing
\* but the emulator's own failure keeps it from being answered by 200.
ExampleIsAccepted ==
    \A r \in Request :
        /\ page[r] # None
        /\ LET m == Models[page[r]] IN
            \A n \in Range(m.inputs) : Bounded(m, n) /\ m.hi[n] - m.lo[n] >= ExampleStep
        => /\ status[r] \in {0, 200} \cup {x \in {500} : Models[page[r]].mayRaise}
           /\ key[r] \in {None, page[r]}

\* README: the request id is "present on every log line for that request", but
\* for the server's own line about an exception, written after the reset; and no
\* line of one request carries the id of another that runs beside it.
LogLinesJoin ==
    \A line \in lines :
        line[3] = IF line[2] = "asgi_exception" THEN None ELSE id[line[1]]

\* Every request is answered, and exactly one line sums it up.
EveryRequestAnswered ==
    \A r \in Request :
        stage[r] = "parsing" ~>
            /\ status[r] # 0
            /\ Cardinality({l \in lines : l[1] = r /\ l[2] \in {"request", "request_failed"}}) = 1

\* What a request asks.
QuestionOf(r) == [target |-> target[r], rows |-> rows[r], id |-> id[r]]

\* Of every parameter one number inside its bounds, and nothing else.
Fits(m, row) == DOMAIN row = Range(m.inputs) /\ InDomain(m, RowValues(m, row))

Plain(code, i) == [status |-> code, id |-> i, key |-> None, means |-> << >>, stds |-> << >>]

\* Every row's prediction by the model k, in the order of the rows.
Prediction(q, k) ==
    LET m == Models[k]
        each == [i \in DOMAIN q.rows |-> <<k, ToTensor(<<RowValues(m, q.rows[i])>>, m.dtype)[1]>>]
    IN  [status |-> 200, id |-> q.id, key |-> k,
         means |-> each, stds |-> IF m.supports_uq THEN each ELSE << >>]

\* A row that is wrong in a parameter whose bounds no response can state.
WrongBeyondJson(m, row) ==
    \E n \in Range(m.inputs) :
        /\ ~ Bounded(m, n)
        /\ \/ n \notin DOMAIN row
           \/ row[n] \notin Int
           \/ ~ (AtMost(m.lo[n], row[n]) /\ AtMost(row[n], m.hi[n]))

\* What the manifest of k says of a batch; an emulator that can raise may, and so
\* may a rejection that would have to name an infinite bound.
AnswersOf(q, k) ==
    IF \A i \in DOMAIN q.rows : Fits(Models[k], q.rows[i])
    THEN {Prediction(q, k)} \cup {a \in {Plain(500, None)} : Models[k].mayRaise}
    ELSE {Plain(422, q.id)} \cup
         {a \in {Plain(500, None)} : \E i \in DOMAIN q.rows : WrongBeyondJson(Models[k], q.rows[i])}

\* The model by the name a client gave: the version it pinned, or the highest.
Named(t) ==
    {k \in DOMAIN Models :
        /\ k[1] = t[1]
        /\ \/ t[2] # None /\ k[2] = t[2]
           \/ t[2] = None /\ \A v \in Versions(k[1]) : ~ VersionLess(k[2], v)}

\* README, "Try to leave the training domain", and what becomes of it when a bound
\* is infinite: what the API may answer, by what was asked alone.
Answers(q) ==
    LET named == Named(q.target)
    IN  IF Len(q.rows) \notin 1 .. MaxBatchRows THEN {Plain(422, q.id)}
        ELSE IF named = {} THEN {Plain(404, q.id)}
        ELSE UNION {AnswersOf(q, k) : k \in named}

\* What its client gets.
AnswerOf(r) ==
    IF status[r] = 200
    THEN [status |-> 200, id |-> header[r], key |-> key[r], means |-> means[r], stds |-> stds[r]]
    ELSE Plain(status[r], header[r])

\* What a client sees of its request: that it sent it, and what came back.
ClientView ==
    [r \in Request |-> CASE stage[r] = "none" -> << >>
                         [] stage[r] = "done" -> <<QuestionOf(r), AnswerOf(r)>>
                         [] OTHER -> <<QuestionOf(r)>>]

Contract == INSTANCE PredictContract
              WITH Question <- [target : Target, rows : Sent, id : RequestId], exchange <- ClientView

\* However requests interleave and fail, and however Pydantic treats NaN, each is
\* answered by what it asked alone: 404 exactly if no such model is served, 200 with
\* every row's prediction by the model it names only if the batch and each row is
\* what the manifest asks for, 422 only if it is not, and a 500 only if the
\* emulator fails or the 422 would have to name an infinite bound.
ImplementsContract == Contract!CSpec

\* tests/test_api.py: every response carries a request id.
EveryResponseHasId == \A r \in Request : stage[r] = "done" => header[r] = id[r]

\* README: "an out-of-domain input can never reach an emulator."
OnlyDomainReachesEmulator ==
    \A c \in calls : \A i \in DOMAIN c[3] : InDomain(Models[c[2]], c[3][i])
=============================================================================
