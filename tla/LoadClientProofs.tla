-------------------------- MODULE LoadClientProofs --------------------------
(* Theorems about the load-test client: its exits, its retries and its      *)
(* percentiles, for any number of requests and of samples.                  *)
EXTENDS LoadClient, TLAPS

\* What is timed was answered in full.
Honest ==
    \A i \in DOMAIN samples : samples[i].answer = [status |-> 200, complete |-> TRUE]

\* A second attempt has nothing to reuse, is still owed an answer, and follows
\* one that was served at most once.
SecondIsFresh ==
    /\ attempt = 2 /\ exit = None => connection = "none" /\ Asking
    /\ exit = None => served < attempt
    /\ exit # None /\ attempt = 2 => fresh

\* A report is written at the end and not before.
ReportsAtEnd == exit = 0 => Len(samples) = requests /\ requests # 0

ClientInv == TypeOK /\ Honest /\ SecondIsFresh /\ ReportsAtEnd
-----------------------------------------------------------------------------
\* The exits differ, whatever values stand for them.
LEMMA Exits ==
    /\ None # Crash
    /\ \A e \in {0, 1, 2} : e # None /\ e # Crash
BY ClientAssumption DEF ClientAssumption

LEMMA ClientInit == Init => ClientInv
<1> SUFFICES ASSUME Init PROVE ClientInv
    OBVIOUS
<1>1. TypeOK
  <2>1. samples \in Seq([answer : Answer, served : 1 .. 2]) /\ Len(samples) = 0
        BY DEF Init
  <2>2. requests \in Nat /\ warmup \in Nat
        BY ClientAssumption DEF Init, ClientAssumption
  <2>3. warmed \in 0 .. warmup /\ attempt \in 1 .. 2 /\ served \in 0 .. 2
        BY <2>2 DEF Init
  <2>4. /\ phase \in {"health", "detail", "timing"} /\ connection \in {"none", "open", "stale"}
        /\ healthy \in BOOLEAN /\ fresh \in BOOLEAN /\ exit \in {None, 0, 1, 2, Crash}
        BY DEF Init
  <2>5. requests \in 0 .. MaxRequests /\ warmup \in 0 .. MaxWarmup
        BY DEF Init
  <2> QED BY <2>1, <2>2, <2>3, <2>4, <2>5 DEF TypeOK
<1>2. Honest /\ SecondIsFresh /\ ReportsAtEnd
      BY Exits DEF Init, Honest, SecondIsFresh, ReportsAtEnd
<1> QED BY <1>1, <1>2 DEF ClientInv

\* A connection that breaks: the first time it is gone for the second attempt,
\* the second time the client gives up.
LEMMA BreakKeeps == ClientInv /\ Break => ClientInv'
<1> SUFFICES ASSUME ClientInv, Break PROVE ClientInv'
    OBVIOUS
<1> USE DEF ClientInv
<1>1. /\ exit = None /\ Asking /\ connection' = "none" /\ fresh' = (connection = "none")
      /\ UNCHANGED <<requests, warmup, phase, healthy, warmed, samples>>
      /\ served' \in {served, served + 1}
      BY DEF Break, Close, options, Asking
<1>2. \/ attempt = 1 /\ attempt' = 2 /\ exit' = None
      \/ attempt = 2 /\ attempt' = 2 /\ exit' \in {Crash, 2}
      BY <1>1 DEF Break, TriesAgain, TypeOK
<1>3. served \in 0 .. 2 /\ served < attempt
      BY <1>1 DEF TypeOK, SecondIsFresh
<1>4. TypeOK'
      BY <1>1, <1>2, <1>3, ClientAssumption DEF TypeOK, ClientAssumption
<1>5. Honest'
      BY <1>1 DEF Honest
<1>6. SecondIsFresh'
  <2>1. attempt = 2 => fresh' = TRUE
        BY <1>1 DEF SecondIsFresh
  <2>2. Asking /\ exit' = None => Asking'
        BY <1>1 DEF Asking
  <2>3. exit' # None => attempt = 2
        BY <1>2
  <2>4. exit' = None => attempt' = 2 /\ served' < attempt'
        BY <1>2, <1>3, <1>1, Exits
  <2> QED BY <1>1, <2>1, <2>2, <2>3, <2>4 DEF SecondIsFresh
<1>7. ReportsAtEnd'
      BY <1>1, <1>2, Exits DEF ReportsAtEnd
<1> QED BY <1>4, <1>5, <1>6, <1>7

\* An answer to anything but a timed request.
LEMMA UntimedKeeps ==
    ASSUME ClientInv, Receive, UNCHANGED samples, exit' \in {exit, 1, 2, Crash},
           phase' \in {"health", "detail", "timing"}, healthy' \in BOOLEAN,
           warmed' \in 0 .. warmup
    PROVE  ClientInv'
<1> USE DEF ClientInv
<1>1. /\ exit = None /\ attempt' = 1 /\ served' = 0 /\ connection' = "open"
      /\ fresh' \in BOOLEAN /\ UNCHANGED <<requests, warmup>>
      BY DEF Receive, Asking, options
<1>2. TypeOK'
      BY <1>1, ClientAssumption DEF TypeOK, ClientAssumption
<1>3. Honest'
      BY DEF Honest
<1>4. SecondIsFresh'
      BY <1>1 DEF SecondIsFresh
<1>5. ReportsAtEnd'
      BY <1>1, Exits DEF ReportsAtEnd
<1> QED BY <1>2, <1>3, <1>4, <1>5

\* A timed request: its answer joins the sample if it counts.
LEMMA TimeKeeps == ClientInv /\ Time => ClientInv'
<1> SUFFICES ASSUME ClientInv, Time PROVE ClientInv'
    OBVIOUS
<1>1. PICK answer \in Answer :
          \/ /\ Counts(answer)
             /\ samples' = Append(samples, [answer |-> answer, served |-> served + 1])
             /\ UNCHANGED exit
          \/ ~ Counts(answer) /\ exit' = 1 /\ UNCHANGED samples
      BY DEF Time
<1>2. /\ Receive /\ UNCHANGED <<phase, healthy, warmed>>
      /\ phase = "timing" /\ warmed = warmup
      BY DEF Time
<1>3. /\ exit = None /\ Asking /\ attempt' = 1 /\ served' = 0 /\ connection' = "open"
      /\ fresh' \in BOOLEAN /\ UNCHANGED <<requests, warmup>>
      BY <1>2 DEF Receive, Asking, options
<1>4. CASE ~ Counts(answer)
      BY <1>1, <1>2, <1>4, UntimedKeeps DEF ClientInv, TypeOK
<1>5. CASE Counts(answer)
  <2> DEFINE sample == [answer |-> answer, served |-> served + 1]
  <2>1. samples' = Append(samples, sample) /\ exit' = None
        BY <1>1, <1>3, <1>5
  <2>2. /\ samples \in Seq([answer : Answer, served : 1 .. 2])
        /\ sample \in [answer : Answer, served : 1 .. 2]
        BY <1>1, <1>3 DEF ClientInv, TypeOK, SecondIsFresh
  <2>3. sample.answer = [status |-> 200, complete |-> TRUE]
        BY <1>1, <1>5 DEF Counts, Answer
  <2>4. Len(samples) < requests
        BY <1>2, <1>3, <2>2 DEF ClientInv, TypeOK, Asking
  <2> HIDE DEF sample
  <2>5. /\ samples' \in Seq([answer : Answer, served : 1 .. 2])
        /\ Len(samples') = Len(samples) + 1
        /\ \A i \in DOMAIN samples' : samples'[i] = IF i = Len(samples) + 1 THEN sample ELSE samples[i]
        /\ \A i \in DOMAIN samples' : i = Len(samples) + 1 \/ i \in DOMAIN samples
        BY <2>1, <2>2
  <2>6. TypeOK'
        BY <1>2, <1>3, <2>1, <2>4, <2>5, ClientAssumption DEF ClientInv, TypeOK, ClientAssumption
  <2>7. Honest'
        BY <2>3, <2>5 DEF ClientInv, Honest
  <2>8. SecondIsFresh' /\ ReportsAtEnd'
        BY <1>3, <2>1, Exits DEF SecondIsFresh, ReportsAtEnd
  <2> QED BY <2>6, <2>7, <2>8 DEF ClientInv
<1> QED BY <1>4, <1>5

\* The connection idles away, or the measurement ends.
LEMMA QuietKeeps == ClientInv /\ (IdleClose \/ Summarise) => ClientInv'
<1> SUFFICES ASSUME ClientInv, IdleClose \/ Summarise PROVE ClientInv'
    OBVIOUS
<1> USE DEF ClientInv
<1>1. CASE IdleClose
      BY <1>1, ClientAssumption, Exits
      DEF IdleClose, options, TypeOK, Honest, SecondIsFresh, ReportsAtEnd, Asking, ClientAssumption
<1>2. CASE Summarise
  <2>1. /\ exit = None /\ attempt = 1 /\ Len(samples) = requests
        /\ exit' \in {0, Crash} /\ (exit' = 0 => requests # 0) /\ connection' = "none"
        /\ UNCHANGED <<requests, warmup, phase, healthy, warmed, samples, fresh, attempt, served>>
        BY <1>2, Exits DEF Summarise, options, Asking, SecondIsFresh, TypeOK
  <2>2. TypeOK'
        BY <2>1, ClientAssumption DEF TypeOK, ClientAssumption
  <2> QED BY <2>1, <2>2, Exits DEF Honest, SecondIsFresh, ReportsAtEnd
<1> QED BY <1>1, <1>2

LEMMA ClientStep == ClientInv /\ [Next]_vars => ClientInv'
<1> SUFFICES ASSUME ClientInv, [Next]_vars PROVE ClientInv'
    OBVIOUS
<1>1. CASE Health
      BY <1>1, UntimedKeeps DEF Health, ClientInv, TypeOK
<1>2. CASE Detail
      BY <1>2, UntimedKeeps DEF Detail, ClientInv, TypeOK
<1>3. CASE Warm
  <2>1. warmed' \in 0 .. warmup
        BY <1>3, ClientAssumption DEF Warm, ClientInv, TypeOK, ClientAssumption
  <2> QED BY <1>3, <2>1, UntimedKeeps DEF Warm, ClientInv, TypeOK
<1>4. CASE NotJson
      BY <1>4, UntimedKeeps DEF NotJson, ClientInv, TypeOK
<1>5. CASE UNCHANGED vars
      BY <1>5 DEF vars, options, ClientInv, TypeOK, Honest, SecondIsFresh, ReportsAtEnd, Asking
<1> QED BY <1>1, <1>2, <1>3, <1>4, <1>5, BreakKeeps, TimeKeeps, QuietKeeps DEF Next

\* Client.request() and main(): what the client knows of its sample and of its
\* connection holds at every step, however the service behaves.
THEOREM ClientInvariance == Spec => []ClientInv
BY ClientInit, ClientStep, PTL DEF Spec

\* No request is tried more than twice, and every variable keeps its type.
THEOREM ClientTypes == Spec => []TypeOK
<1>1. ClientInv => TypeOK
      BY DEF ClientInv
<1> QED BY <1>1, ClientInvariance, PTL

\* A successful report is of the whole sample, every request of it answered with
\* all its rows and computed at most twice.
THEOREM Honesty == Spec => []ReportsWhatItMeasured
<1>1. ClientInv => ReportsWhatItMeasured
  <2> SUFFICES ASSUME ClientInv, exit = 0 PROVE ReportsWhatItMeasured
      BY DEF ReportsWhatItMeasured
  <2>1. Len(samples) = requests /\ requests # 0
        BY DEF ClientInv, ReportsAtEnd
  <2>2. samples # << >>
        BY <2>1
  <2>3. \A i \in DOMAIN samples : samples[i].served \in 1 .. 2
    <3> DEFINE Sample == [answer : Answer, served : 1 .. 2]
    <3>1. samples \in Seq(Sample)
          BY DEF ClientInv, TypeOK
    <3>2. \A t \in Sample : t.served \in 1 .. 2
          OBVIOUS
    <3> HIDE DEF Sample
    <3>3. \A i \in DOMAIN samples : samples[i] \in Sample
          BY <3>1
    <3> QED BY <3>2, <3>3
  <2> QED BY <2>1, <2>2, <2>3 DEF ClientInv, Honest, ReportsWhatItMeasured
<1> QED BY <1>1, ClientInvariance, PTL

\* The connection given up on was made for the attempt that failed.
THEOREM FreshConnection == Spec => []GivesUpOnFreshConnection
<1>1. ClientInv => GivesUpOnFreshConnection
      BY DEF ClientInv, SecondIsFresh, GivesUpOnFreshConnection
<1> QED BY <1>1, ClientInvariance, PTL
-----------------------------------------------------------------------------
\* percentile(): rounding half to even after adding a half hits the nearest rank,
\* except where percent of n is an odd whole number: there it is the next one.
LEMMA RankIsRounded ==
    ASSUME NEW percent \in {50, 95, 99}, NEW n \in Nat \ {0}
    PROVE  LET above == IF (percent * n) % 200 = 100 THEN 1 ELSE 0
           IN  Rank(percent, n) = AtMost(n, NearestRank(percent, n) + above)
<1> DEFINE near == NearestRank(percent, n)
           above == IF (percent * n) % 200 = 100 THEN 1 ELSE 0
<1>1. near \in 1 .. n /\ above \in 0 .. 1
      BY DEF NearestRank
<1>2. RoundedRank(percent, n) = near + above
  <2>1. CASE percent = 50
        BY <2>1 DEF RoundedRank, NearestRank
  <2>2. CASE percent = 95
        BY <2>2 DEF RoundedRank, NearestRank
  <2>3. CASE percent = 99
        BY <2>3 DEF RoundedRank, NearestRank
  <2> QED BY <2>1, <2>2, <2>3
<1> HIDE DEF near, above
<1>3. Rank(percent, n) = AtMost(n, near + above)
      BY <1>1, <1>2 DEF Rank, AtLeast, AtMost
<1> QED BY <1>3 DEF near, above

\* The percentiles of the summary, for samples of any size: the nearest rank, or
\* the one above it exactly where percent of the sample is an odd whole number.
THEOREM RoundedPercentiles == Spec => []PercentileIsRounded
<1>1. PercentileIsRounded
      BY RankIsRounded, ClientAssumption DEF PercentileIsRounded, ClientAssumption
<1> QED BY <1>1, PTL
=============================================================================
