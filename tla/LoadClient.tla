----------------------------- MODULE LoadClient -----------------------------
(***************************************************************************)
(* scripts/loadtest.py: one client that asks for the health and the detail *)
(* of a model, warms the service up and then times predictions, over one   *)
(* kept-alive connection and with one retry.                               *)
(*                                                                         *)
(* The service is what the client can notice of it: it answers, it closes  *)
(* a connection that idles, or it breaks one, before or after it has       *)
(* served the request.                                                     *)
(***************************************************************************)
EXTENDS Integers, Sequences

CONSTANTS MaxRequests,  \* bound: --requests
          MaxWarmup,    \* bound: --warmup
          MaxSamples,   \* bound: sample sizes at which percentiles are compared
          Crash,        \* the exit of an exception that main() does not catch
          None

ASSUME ClientAssumption ==
    /\ {MaxRequests, MaxWarmup, MaxSamples} \subseteq Nat
    /\ Crash \notin Int /\ None \notin Int /\ Crash # None

VARIABLES requests,     \* --requests
          warmup,       \* --warmup
          phase,        \* what the client asks for
          healthy,      \* /health said what the summary will need
          warmed,       \* warmup requests answered
          samples,      \* the timed requests: [answer, served]
          connection,   \* "none", "open", or "stale": closed by the service
          fresh,        \* history: the last attempt had to connect
          attempt,      \* of the request under way
          served,       \* history: times the service has served it
          exit          \* how the process exited

vars == <<requests, warmup, phase, healthy, warmed, samples, connection, fresh, attempt,
          served, exit>>
options == <<requests, warmup>>

\* The parts of an answer main() looks at.
Answer == [status : {200, 404, 422, 500}, complete : BOOLEAN]

Init ==
    /\ requests \in 0 .. MaxRequests
    /\ warmup \in 0 .. MaxWarmup
    /\ phase = "health"
    /\ healthy = FALSE
    /\ warmed = 0
    /\ samples = << >>
    /\ connection = "none"
    /\ fresh = FALSE
    /\ attempt = 1
    /\ served = 0
    /\ exit = None
-----------------------------------------------------------------------------
(* Client.request().                                                        *)

\* Mutant: the connection is kept for the second attempt.
KeepOpen == connection' = "stale"

\* Client.close()
Close == connection' = "none"

\* Mutant: it goes on until there is an answer.
TriesForever == TRUE

\* for attempt in (1, 2)
TriesAgain == attempt < 2

\* A request is under way or about to be made.
Asking == exit = None /\ ~ (warmed = warmup /\ Len(samples) = requests /\ phase = "timing")

\* The connection is refused, breaks or times out, perhaps after the service has
\* served the request.  The second time it is main()'s: "cannot reach" and 2 if
\* nothing was measured yet and http.client raised an OSError, and uncaught
\* otherwise.
Break ==
    /\ Asking
    /\ fresh' = (connection = "none")
    /\ served' \in {served} \cup (IF connection = "stale" THEN {} ELSE {served + 1})
    /\ Close
    /\ \/ TriesAgain /\ attempt' = attempt + 1 /\ UNCHANGED exit
       \/ /\ ~ TriesAgain
          /\ exit' \in {Crash} \cup (IF phase \in {"health", "detail"} THEN {2} ELSE {})
          /\ UNCHANGED attempt
    /\ UNCHANGED <<options, phase, healthy, warmed, samples>>

\* The service closes the connection between two requests.
IdleClose ==
    /\ Asking /\ connection = "open" /\ attempt = 1
    /\ connection' = "stale"
    /\ UNCHANGED <<options, phase, healthy, warmed, samples, fresh, attempt, served, exit>>

\* An answer is read in full.
Receive ==
    /\ Asking /\ connection # "stale"
    /\ connection' = "open"
    /\ fresh' = (connection = "none")
    /\ attempt' = 1
    /\ served' = 0
    /\ UNCHANGED options

\* json.loads() of a body that is not JSON, a proxy's page or the plain text of
\* an internal error, is not caught.
NotJson ==
    /\ Receive
    /\ exit' = Crash
    /\ UNCHANGED <<phase, healthy, warmed, samples>>
-----------------------------------------------------------------------------
(* main().                                                                  *)

\* The status of /health is not looked at.
Health ==
    /\ phase = "health"
    /\ Receive
    /\ healthy' \in BOOLEAN
    /\ phase' = "detail"
    /\ UNCHANGED <<warmed, samples, exit>>

\* Without the model there is nothing to measure.
Detail ==
    /\ phase = "detail"
    /\ Receive
    /\ \/ phase' = "timing" /\ UNCHANGED exit
       \/ exit' = 2 /\ UNCHANGED phase
    /\ UNCHANGED <<healthy, warmed, samples>>

Warm ==
    /\ phase = "timing" /\ warmed < warmup
    /\ Receive
    /\ \/ warmed' = warmed + 1 /\ UNCHANGED exit
       \/ exit' = 1 /\ UNCHANGED warmed
    /\ UNCHANGED <<phase, healthy, samples>>

\* Mutant: n_rows is not compared.
CountsWithoutRows(answer) == answer.status = 200

Counts(answer) == answer.status = 200 /\ answer.complete

Time ==
    /\ phase = "timing" /\ warmed = warmup
    /\ Receive
    /\ \E answer \in Answer :
          \/ /\ Counts(answer)
             /\ samples' = Append(samples, [answer |-> answer, served |-> served + 1])
             /\ UNCHANGED exit
          \/ ~ Counts(answer) /\ exit' = 1 /\ UNCHANGED samples
    /\ UNCHANGED <<phase, healthy, warmed>>

\* percentile() of no sample raises, and so does an entry /health did not have.
Summarise ==
    /\ exit = None /\ phase = "timing" /\ ~ Asking
    /\ connection' = "none"
    /\ exit' = IF requests = 0 \/ ~ healthy THEN Crash ELSE 0
    /\ UNCHANGED <<options, phase, healthy, warmed, samples, fresh, attempt, served>>

Next ==
    \/ Health \/ Detail \/ Warm \/ Time \/ NotJson \/ Break \/ IdleClose \/ Summarise

Spec == Init /\ [][Next]_vars
-----------------------------------------------------------------------------
(* percentile().                                                            *)

AtLeast(a, b) == IF a >= b THEN a ELSE b
AtMost(a, b) == IF a <= b THEN a ELSE b

\* Mutant: int() alone, which rounds down.
RoundedRankDown(percent, n) == (2 * percent * n + 100) \div 200

\* int(round(percent/100 * n + 0.5)), where round() takes a half to the even side.
RoundedRank(percent, n) ==
    LET t == 2 * percent * n + 100
        q == t \div 200
        r == t % 200
    IN  IF r < 100 \/ (r = 100 /\ q % 2 = 0) THEN q ELSE q + 1

Rank(percent, n) == AtLeast(1, AtMost(n, RoundedRank(percent, n)))

\* The smallest rank that percent of n samples do not exceed.
NearestRank(percent, n) == (percent * n + 99) \div 100
-----------------------------------------------------------------------------
\* A measurement under way; no request is tried more than twice.
TypeOK ==
    /\ requests \in 0 .. MaxRequests /\ warmup \in 0 .. MaxWarmup
    /\ phase \in {"health", "detail", "timing"}
    /\ healthy \in BOOLEAN
    /\ warmed \in 0 .. warmup
    /\ samples \in Seq([answer : Answer, served : 1 .. 2]) /\ Len(samples) <= requests
    /\ connection \in {"none", "open", "stale"}
    /\ fresh \in BOOLEAN
    /\ attempt \in 1 .. 2 /\ served \in 0 .. 2
    /\ exit \in {None, 0, 1, 2, Crash}

\* "Measure serving latency honestly": what is reported as measured is the whole
\* sample, each of a request answered with every row it asked for, and never of
\* one the service computed more than twice.
ReportsWhatItMeasured ==
    exit = 0 =>
        /\ Len(samples) = requests /\ samples # << >>
        /\ \A i \in DOMAIN samples :
              /\ samples[i].answer = [status |-> 200, complete |-> TRUE]
              /\ samples[i].served \in 1 .. 2

\* "A pooled connection can be closed by the server between requests; reconnect
\* once before giving up": a run that gives up on a connection has just made it.
GivesUpOnFreshConnection == exit # None /\ attempt = 2 => fresh

\* What is printed as p50, p95 and p99, for a sample of any size: the nearest
\* rank, or one sample above it exactly where percent of the sample is an odd
\* whole number, whose half round() takes to the even side (p50 of 2, 6 or 10
\* samples, p95 and p99 of 100).
PercentileIsRounded ==
    exit = 0 =>
        \A percent \in {50, 95, 99}, n \in 1 .. MaxSamples :
            LET above == IF (percent * n) % 200 = 100 THEN 1 ELSE 0
            IN  Rank(percent, n) = AtMost(n, NearestRank(percent, n) + above)

\* percentile() says of itself "Nearest-rank percentile. Explicit, so the reported
\* number is unambiguous.": a report gives the nearest ranks of its sample.  It
\* does not: the p50 it prints of two samples is the larger one.
ReportsNearestRank ==
    exit = 0 =>
        \A percent \in {50, 95, 99} :
            Rank(percent, Len(samples)) = NearestRank(percent, Len(samples))
=============================================================================
