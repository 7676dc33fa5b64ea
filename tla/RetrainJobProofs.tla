-------------------------- MODULE RetrainJobProofs --------------------------
(* Theorems about the retrain job: what its comment, its evidence and the   *)
(* tracking server's runs are, for any number of pushes and configs.        *)
EXTENDS RetrainJob, TLAPS

\* Only the last push has a job that is queued or at its steps.
LastPushRuns ==
    \A j \in Job :
        /\ j > pushes => job[j] = NoJob
        /\ job[j].stage \in Steps \cup {"queued"} => j = pushes

\* main() runs inside the step that retrains.
OneStepAtATime == \A j \in Job : job[j].stage # "retraining" => main[j] = NoProcess

\* The report consists of the configs that are neither to do nor being retrained.
Reported ==
    \A j \in Job :
        LET selected == job[j].selected
            body == disk[j].body
        IN
        /\ job[j].stage \in {"none", "queued", "fetching"} => selected = {} /\ body = {}
        /\ job[j].stage = "retraining" => selected = body \cup job[j].todo \cup ({main[j].config} \ {None})
        /\ job[j].stage = "explaining" => body = selected
        /\ job[j].stage = "posting" => body = selected \cup {HowTo}

\* The comment is of a job that is past posting it.
Commented ==
    comment # None =>
        /\ comment.push \in 1 .. pushes
        /\ job[comment.push].stage \in {"uploading", "ended"}

\* An exception is of main()'s own making.
RaisedItself == \A j \in Job : main[j].raised => j \in broke

\* A run that is open has a client that can close it.
OpenHasClient ==
    \A j \in Job :
        /\ main[j].at \in {"preparing", "connecting"} => ~ main[j].client
        /\ \A c \in Config : runs[j][c] = "open" => main[j].client

\* main() is past writing the candidate that it will recommend.
WrittenBefore ==
    \A j \in Job :
        main[j].at \in {"archiving", "reporting"} /\ main[j].promote =>
            main[j].config \in disk[j].candidates

JobInv ==
    /\ TypeOK
    /\ LastPushRuns
    /\ OneStepAtATime
    /\ Reported
    /\ Commented
    /\ RaisedItself
    /\ OpenHasClient
    /\ WrittenBefore
    /\ OnlyOwnStepsFail
    /\ CommentIsWhole
    /\ CommentIsNewest
    /\ EvidenceIsKept
    /\ RecommendationHasCandidate
    /\ RunsAreClosed
-----------------------------------------------------------------------------
\* What TypeOK says of a process and of a disk.
Process == [config : Config, at : Position, client : BOOLEAN, raised : BOOLEAN, promote : BOOLEAN]
Disk == [tree : SUBSET Config, reports : SUBSET Config, promotes : SUBSET Config,
         candidates : SUBSET Config, body : SUBSET (Config \cup {HowTo})]

LEMMA Processes == NoProcess \notin Process /\ NoProcess.at = "none" /\ "none" \notin Position
BY DEF NoProcess, Process, Position, Inside, AfterCall

\* The positions of main(), spelled out.
LEMMA Positions ==
    /\ DOMAIN AfterCall = {"announcing", "recording", "archiving", "attaching", "attachingSummary"}
    /\ Position = {"preparing", "connecting", "entering", "leaving", "exited", "training",
                   "deciding", "writing", "reporting", "summarising", "announcing", "recording",
                   "archiving", "attaching", "attachingSummary"}
BY DEF Position, Inside, AfterCall

LEMMA JobInit == Init => JobInv
<1> SUFFICES ASSUME Init PROVE JobInv
    OBVIOUS
<1>1. TypeOK
      BY JobAssumption DEF Init, TypeOK, JobAssumption, Job, NoJob, NoProcess, EmptyDisk, Steps
<1>2. LastPushRuns /\ OneStepAtATime /\ Reported /\ Commented /\ RaisedItself
      BY DEF Init, LastPushRuns, OneStepAtATime, Reported, Commented, RaisedItself, Job, NoJob,
             NoProcess, EmptyDisk, Steps
<1>3. OpenHasClient /\ WrittenBefore /\ OnlyOwnStepsFail /\ CommentIsWhole /\ CommentIsNewest
      BY DEF Init, OpenHasClient, WrittenBefore, OnlyOwnStepsFail, CommentIsWhole,
             CommentIsNewest, NoJob, NoProcess
<1>4. EvidenceIsKept /\ RecommendationHasCandidate /\ RunsAreClosed
      BY DEF Init, EvidenceIsKept, RecommendationHasCandidate, RunsAreClosed, NoJob, EmptyDisk
<1> QED BY <1>1, <1>2, <1>3, <1>4 DEF JobInv
-----------------------------------------------------------------------------
(* main().                                                                  *)

\* What a step of a process leaves alone: the jobs and the comment.
LEMMA MainKeeps ==
    ASSUME JobInv, NEW j \in Job, main[j] # NoProcess,
           UNCHANGED <<pushes, job, comment, uploaded>>, broke \subseteq broke',
           \A i \in Job : i # j => main'[i] = main[i] /\ disk'[i] = disk[i],
           main'[j].config = main[j].config, disk'[j].body = disk[j].body
    PROVE  /\ LastPushRuns' /\ OneStepAtATime' /\ Reported' /\ Commented'
           /\ OnlyOwnStepsFail' /\ CommentIsWhole' /\ CommentIsNewest' /\ EvidenceIsKept'
<1>1. job[j].stage = "retraining"
      BY DEF JobInv, OneStepAtATime
<1>2. LastPushRuns' /\ Commented' /\ CommentIsWhole' /\ CommentIsNewest' /\ OnlyOwnStepsFail'
      BY DEF JobInv, LastPushRuns, Commented, CommentIsWhole, CommentIsNewest, OnlyOwnStepsFail
<1>3. OneStepAtATime' /\ EvidenceIsKept'
      BY <1>1 DEF JobInv, OneStepAtATime, EvidenceIsKept
<1>4. Reported'
      BY <1>1 DEF JobInv, Reported
<1> QED BY <1>2, <1>3, <1>4

\* A step of a process that writes no file and leaves the server alone.
LEMMA QuietStepKeeps ==
    ASSUME JobInv, NEW j \in Job, main[j] \in Process,
           UNCHANGED <<pushes, job, comment, uploaded, disk, runs>>,
           NEW p \in Process, main' = [main EXCEPT ![j] = p],
           p.config = main[j].config,
           broke' \subseteq Job, broke \subseteq broke', p.raised => j \in broke',
           p.at # "preparing", p.at = "connecting" => ~ p.client,
           p.client = main[j].client \/ main[j].at = "connecting",
           p.at \in {"archiving", "reporting"} /\ p.promote => p.config \in disk[j].candidates,
           p.at = "exited" => ~ main[j].client
    PROVE  JobInv'
<1>1. /\ main'[j] = p
      /\ \A i \in Job : i # j => main'[i] = main[i]
      /\ main \in [Job -> Process \cup {NoProcess}]
      BY DEF JobInv, TypeOK, Process
<1>2. /\ LastPushRuns' /\ OneStepAtATime' /\ Reported' /\ Commented'
      /\ OnlyOwnStepsFail' /\ CommentIsWhole' /\ CommentIsNewest' /\ EvidenceIsKept'
      BY <1>1, Processes, MainKeeps
<1>3. TypeOK'
      BY <1>1 DEF JobInv, TypeOK, Process
<1>4. RaisedItself'
      BY <1>1 DEF JobInv, RaisedItself
<1>5. \A c \in Config : runs[j][c] = "open" => main[j].client /\ p.client /\ main[j].config = c
      BY DEF JobInv, OpenHasClient, RunsAreClosed
<1>6. OpenHasClient'
      BY <1>1, <1>5 DEF JobInv, OpenHasClient
<1>7. RunsAreClosed'
      BY <1>1, <1>5 DEF JobInv, RunsAreClosed
<1>8. WrittenBefore' /\ RecommendationHasCandidate'
      BY <1>1 DEF JobInv, WrittenBefore, RecommendationHasCandidate
<1> QED BY <1>2, <1>3, <1>4, <1>6, <1>7, <1>8 DEF JobInv

\* The steps between the calls, and the calls that the server may fail.
LEMMA QuietStepsKeep ==
    ASSUME JobInv, NEW j \in Job,
           \/ Prepare(j) \/ Connect(j) \/ Call(j) \/ OwnStepFails(j)
           \/ Train(j) \/ Decide(j) \/ Summarise(j)
    PROVE  JobInv'
<1> DEFINE q == main[j]
<1>0. q \in Process /\ broke \subseteq Job
  <2>1. q.at \in Position
        BY Positions DEF Prepare, Connect, Call, OwnStepFails, Train, Decide, Summarise, Inside
  <2>2. q \in Process \cup {NoProcess} /\ broke \subseteq Job
        BY DEF JobInv, TypeOK, Process
  <2> QED BY <2>1, <2>2, Processes
<1>1. q.raised => j \in broke
      BY DEF JobInv, RaisedItself
<1>2. q.at \in {"preparing", "connecting"} => ~ q.client
      BY DEF JobInv, OpenHasClient
<1>3. q.at \in {"archiving", "reporting"} /\ q.promote => q.config \in disk[j].candidates
      BY DEF JobInv, WrittenBefore
<1> DEFINE At(a) == [q EXCEPT !.at = a]
           Raised(a) == [q EXCEPT !.at = a, !.raised = TRUE]
<1>4. \A a \in Position :
          /\ At(a) \in Process /\ Raised(a) \in Process
          /\ At(a).at = a /\ At(a).client = q.client /\ At(a).raised = q.raised
          /\ At(a).config = q.config /\ At(a).promote = q.promote
          /\ Raised(a).at = a /\ Raised(a).client = q.client
          /\ Raised(a).config = q.config /\ Raised(a).promote = q.promote
      BY <1>0 DEF Process
<1>5. \A a \in Position : Goto(j, a) => main' = [main EXCEPT ![j] = At(a)]
      BY DEF Goto
<1> HIDE DEF At, Raised
<1> USE Positions
<1>6. CASE Prepare(j)
  <2>1. /\ q.at = "preparing"
        /\ UNCHANGED <<pushes, job, disk, runs, comment, uploaded>>
        BY <1>6 DEF Prepare
  <2>2. CASE Goto(j, "connecting") /\ UNCHANGED broke
        BY <1>0, <1>1, <1>2, <1>4, <1>5, <2>1, <2>2, QuietStepKeeps
  <2>3. CASE /\ main' = [main EXCEPT ![j].at = "exited", ![j].raised = TRUE]
             /\ broke' = broke \cup {j}
    <3>1. main' = [main EXCEPT ![j] = Raised("exited")]
          BY <2>3 DEF Raised
    <3> QED BY <1>0, <1>2, <1>4, <2>1, <2>3, <3>1, QuietStepKeeps
  <2> QED BY <1>6, <2>2, <2>3 DEF Prepare
<1>7. CASE Connect(j)
  <2>1. PICK client \in BOOLEAN :
            main' = [main EXCEPT ![j].at = "entering", ![j].client = client]
        BY <1>7 DEF Connect
  <2> DEFINE p == [q EXCEPT !.at = "entering", !.client = client]
  <2>2. /\ q.at = "connecting"
        /\ UNCHANGED <<pushes, job, disk, runs, comment, uploaded, broke>>
        BY <1>7 DEF Connect
  <2>3. p \in Process /\ p.at = "entering" /\ p.config = q.config /\ p.raised = q.raised
        BY <1>0 DEF Process
  <2>4. main' = [main EXCEPT ![j] = p]
        BY <2>1
  <2> HIDE DEF p
  <2> QED BY <1>0, <1>1, <2>2, <2>3, <2>4, QuietStepKeeps
<1>8. CASE Call(j)
  <2>1. /\ q.at \in DOMAIN AfterCall /\ Goto(j, AfterCall[q.at])
        /\ UNCHANGED <<pushes, job, disk, runs, comment, uploaded, broke>>
        BY <1>8 DEF Call, Safe
  <2>2. /\ AfterCall[q.at] \in {"training", "deciding", "reporting", "summarising", "leaving"}
        /\ AfterCall[q.at] = "reporting" => q.at = "archiving"
        BY <2>1 DEF AfterCall
  <2>3. AfterCall[q.at] \in Position
        BY <2>2
  <2> QED BY <1>0, <1>1, <1>3, <1>4, <1>5, <2>1, <2>2, <2>3, QuietStepKeeps
<1>9. CASE OwnStepFails(j)
  <2>1. /\ main' = [main EXCEPT ![j] = Raised("leaving")] /\ broke' = broke \cup {j}
        /\ UNCHANGED <<pushes, job, disk, runs, comment, uploaded>>
        BY <1>9 DEF OwnStepFails, Raise, Raised
  <2>2. q.at \notin {"exited", "connecting"}
        BY <1>9 DEF OwnStepFails, Inside
  <2> QED BY <1>0, <1>4, <2>1, <2>2, QuietStepKeeps
<1>10. CASE Train(j) \/ Summarise(j)
  <2>1. /\ \/ Goto(j, "recording")
           \/ Goto(j, "attachingSummary")
        /\ q.at \in {"training", "summarising"}
        /\ UNCHANGED <<pushes, job, disk, runs, comment, uploaded, broke>>
        BY <1>10 DEF Train, Summarise
  <2> QED BY <1>0, <1>1, <1>4, <1>5, <2>1, QuietStepKeeps
<1>11. CASE Decide(j)
  <2>1. PICK promote \in BOOLEAN :
            main' = [main EXCEPT ![j].promote = promote,
                                 ![j].at = IF promote THEN "writing" ELSE "reporting"]
        BY <1>11 DEF Decide
  <2> DEFINE p == [q EXCEPT !.promote = promote, !.at = IF promote THEN "writing" ELSE "reporting"]
  <2>2. /\ q.at = "deciding"
        /\ UNCHANGED <<pushes, job, disk, runs, comment, uploaded, broke>>
        BY <1>11 DEF Decide
  <2>3. /\ p \in Process /\ p.at \in {"writing", "reporting"} /\ p.config = q.config
        /\ p.raised = q.raised /\ p.client = q.client /\ (p.at = "reporting" => ~ p.promote)
        BY <1>0 DEF Process
  <2>4. main' = [main EXCEPT ![j] = p]
        BY <2>1
  <2> HIDE DEF p
  <2> QED BY <1>0, <1>1, <2>2, <2>3, <2>4, QuietStepKeeps
<1> QED BY <1>6, <1>7, <1>8, <1>9, <1>10, <1>11

\* The run is started, and closed, by the one client there is.
LEMMA RunStepsKeep ==
    ASSUME JobInv, NEW j \in Job, StartRun(j) \/ Leave(j)
    PROVE  JobInv'
<1> DEFINE q == main[j]
<1>1. q \in Process /\ q.at \in {"entering", "leaving"}
  <2>1. q.at \in {"entering", "leaving"}
        BY DEF StartRun, Leave
  <2>2. q \in Process \cup {NoProcess}
        BY DEF JobInv, TypeOK, Process
  <2> QED BY <2>1, <2>2, Processes
<1>2. UNCHANGED <<pushes, job, disk, comment, uploaded, broke>>
      BY DEF StartRun, Leave
<1>3. PICK run \in {"none", "open", "closed", "abandoned"} :
          /\ \/ /\ run # "closed" /\ runs' = [runs EXCEPT ![j][q.config] = run]
                /\ main' = [main EXCEPT ![j].at = "announcing", ![j].client = (run = "open")]
             \/ /\ main' = [main EXCEPT ![j].at = "exited"]
                /\ \/ run \in {"closed", "abandoned"} /\ runs' = [runs EXCEPT ![j][q.config] = run]
                   \/ ~ q.client /\ UNCHANGED runs
  <2>1. CASE StartRun(j)
        BY <2>1, Zenon DEF StartRun
  <2>2. CASE Leave(j)
    <3>1. CASE q.client
          BY <2>2, <3>1 DEF Leave, Goto
    <3>2. CASE ~ q.client
          BY <2>2, <3>2 DEF Leave, Goto
    <3> QED BY <3>1, <3>2
  <2> QED BY <2>1, <2>2
<1> DEFINE p == main'[j]
<1>4. /\ p \in Process /\ p.config = q.config /\ p.raised = q.raised
      /\ p.at \in {"announcing", "exited"}
      /\ \A i \in Job : i # j => main'[i] = main[i]
      /\ main' \in [Job -> Process \cup {NoProcess}]
  <2>1. main \in [Job -> Process \cup {NoProcess}]
        BY DEF JobInv, TypeOK, Process
  <2>2. CASE main' = [main EXCEPT ![j].at = "exited"]
        BY <1>1, <2>1, <2>2, Positions DEF Process
  <2>3. CASE main' = [main EXCEPT ![j].at = "announcing", ![j].client = (run = "open")]
    <3>1. (run = "open") \in BOOLEAN
          OBVIOUS
    <3>2. PICK client \in BOOLEAN :
              main' = [main EXCEPT ![j].at = "announcing", ![j].client = client]
          BY <2>3, <3>1
    <3> QED BY <1>1, <2>1, <3>2, Positions DEF Process
  <2> QED BY <1>3, <2>2, <2>3
<1>5. \A c \in Config : runs[j][c] = "open" => q.config = c /\ q.client
      BY DEF JobInv, RunsAreClosed, OpenHasClient
<1>6. /\ runs' \in [Job -> [Config -> {"none", "open", "closed", "abandoned"}]]
      /\ \A i \in Job : i # j => runs'[i] = runs[i]
  <2>1. runs \in [Job -> [Config -> {"none", "open", "closed", "abandoned"}]] /\ q.config \in Config
        BY <1>1 DEF JobInv, TypeOK, Process
  <2>2. CASE runs' = [runs EXCEPT ![j][q.config] = run]
        BY <2>1, <2>2
  <2>3. CASE UNCHANGED runs
        BY <2>1, <2>3
  <2> QED BY <1>3, <2>2, <2>3
<1>7. \A c \in Config : runs'[j][c] = "open" => p.config = c /\ p.client /\ p.at = "announcing"
  <2> SUFFICES ASSUME NEW c \in Config, runs'[j][c] = "open"
               PROVE  p.config = c /\ p.client /\ p.at = "announcing"
      OBVIOUS
  <2>1. runs \in [Job -> [Config -> {"none", "open", "closed", "abandoned"}]] /\ main \in [Job -> Process \cup {NoProcess}]
        BY DEF JobInv, TypeOK, Process
  <2> QED BY <1>1, <1>3, <1>5, <2>1 DEF Process
<1> HIDE DEF p
<1>8. /\ LastPushRuns' /\ OneStepAtATime' /\ Reported' /\ Commented'
      /\ OnlyOwnStepsFail' /\ CommentIsWhole' /\ CommentIsNewest' /\ EvidenceIsKept'
      BY <1>1, <1>2, <1>4, Processes, MainKeeps DEF p
<1>9. TypeOK'
      BY <1>2, <1>4, <1>6 DEF JobInv, TypeOK, Process
<1>10. RaisedItself' /\ OpenHasClient' /\ RunsAreClosed'
      BY <1>2, <1>4, <1>6, <1>7 DEF p, JobInv, RaisedItself, OpenHasClient, RunsAreClosed
<1>11. WrittenBefore' /\ RecommendationHasCandidate'
      BY <1>2, <1>4 DEF p, JobInv, WrittenBefore, RecommendationHasCandidate
<1> QED BY <1>8, <1>9, <1>10, <1>11 DEF JobInv

\* The candidate is on the disk before the report that recommends it.
LEMMA FileStepsKeep ==
    ASSUME JobInv, NEW j \in Job, WriteCandidate(j) \/ Report(j)
    PROVE  JobInv'
<1> DEFINE q == main[j]
           p == main'[j]
<1>1. q \in Process /\ q.at \in {"writing", "reporting"}
  <2>1. q.at \in {"writing", "reporting"}
        BY DEF WriteCandidate, Report
  <2>2. q \in Process \cup {NoProcess}
        BY DEF JobInv, TypeOK, Process
  <2> QED BY <2>1, <2>2, Processes
<1>2. UNCHANGED <<pushes, job, runs, comment, uploaded, broke>>
      BY DEF WriteCandidate, Report
<1>3. /\ main \in [Job -> Process \cup {NoProcess}]
      /\ disk \in [Job -> Disk]
      BY DEF JobInv, TypeOK, Process, Disk
<1>4. /\ p \in Process /\ p.config = q.config /\ p.raised = q.raised /\ p.client = q.client
      /\ p.promote = q.promote /\ p.at \in {"archiving", "attaching"}
      /\ \A i \in Job : i # j => main'[i] = main[i]
      /\ main' \in [Job -> Process \cup {NoProcess}]
      BY <1>1, <1>3, Positions DEF WriteCandidate, Report, Goto, Process
<1>5. /\ disk' \in [Job -> Disk]
      /\ \A i \in Job : i # j => disk'[i] = disk[i]
      /\ disk'[j].body = disk[j].body
      /\ disk[j].candidates \subseteq disk'[j].candidates
  <2>1. q.config \in Config
        BY <1>1 DEF Process
  <2> QED BY <1>3, <2>1 DEF WriteCandidate, Report, Disk
<1>6. disk'[j].promotes \subseteq disk'[j].candidates
  <2>1. disk[j].promotes \subseteq disk[j].candidates
        BY DEF JobInv, RecommendationHasCandidate
  <2>2. CASE WriteCandidate(j)
        BY <1>3, <1>5, <2>1, <2>2 DEF WriteCandidate, Disk
  <2>3. CASE Report(j)
        BY <1>3, <2>1, <2>3 DEF Report, Disk, JobInv, WrittenBefore
  <2> QED BY <2>2, <2>3
<1>7. p.at = "archiving" => q.config \in disk'[j].candidates
  <2>1. CASE WriteCandidate(j)
        BY <1>3, <2>1 DEF WriteCandidate, Disk
  <2>2. CASE Report(j)
        BY <1>3, <2>2 DEF Report, Goto, Process
  <2> QED BY <2>1, <2>2
<1> HIDE DEF p
<1>8. /\ LastPushRuns' /\ OneStepAtATime' /\ Reported' /\ Commented'
      /\ OnlyOwnStepsFail' /\ CommentIsWhole' /\ CommentIsNewest' /\ EvidenceIsKept'
      BY <1>1, <1>2, <1>4, <1>5, Processes, MainKeeps DEF p
<1>9. TypeOK'
      BY <1>2, <1>4, <1>5 DEF JobInv, TypeOK, Process, Disk
<1>10. RaisedItself' /\ OpenHasClient'
      BY <1>2, <1>4 DEF p, JobInv, RaisedItself, OpenHasClient
<1>11. RunsAreClosed'
      BY <1>2, <1>4 DEF p, JobInv, RunsAreClosed
<1>12. WrittenBefore' /\ RecommendationHasCandidate'
      BY <1>4, <1>5, <1>6, <1>7 DEF p, JobInv, WrittenBefore, RecommendationHasCandidate
<1> QED BY <1>8, <1>9, <1>10, <1>11, <1>12 DEF JobInv
-----------------------------------------------------------------------------
-----------------------------------------------------------------------------
(* The workflow.                                                            *)

JobRecord == [stage : Steps \cup {"none", "queued", "uploading", "ended"},
              verdict : {"none", "running", "success", "failure", "cancelled"},
              selected : SUBSET Config, todo : SUBSET Config]

\* The processes that are killed leave nothing open behind.
LEMMA KillKeeps ==
    ASSUME JobInv, NEW jobs, Kill(jobs), UNCHANGED <<disk, broke>>
    PROVE  /\ main' \in [Job -> Process \cup {NoProcess}]
           /\ runs' \in [Job -> [Config -> {"none", "open", "closed", "abandoned"}]]
           /\ \A j \in Job : main'[j] = IF j \in jobs THEN NoProcess ELSE main[j]
           /\ RaisedItself' /\ OpenHasClient' /\ WrittenBefore'
           /\ RecommendationHasCandidate' /\ RunsAreClosed'
<1>1. /\ main \in [Job -> Process \cup {NoProcess}]
      /\ runs \in [Job -> [Config -> {"none", "open", "closed", "abandoned"}]]
      BY DEF JobInv, TypeOK, Process
<1>2. /\ main' \in [Job -> Process \cup {NoProcess}]
      /\ \A j \in Job : main'[j] = IF j \in jobs THEN NoProcess ELSE main[j]
      BY <1>1 DEF Kill
<1>3. /\ runs' \in [Job -> [Config -> {"none", "open", "closed", "abandoned"}]]
      /\ \A j \in Job, c \in Config :
            /\ j \notin jobs => runs'[j][c] = runs[j][c]
            /\ j \in jobs /\ main[j].config = c => runs'[j][c] # "open"
            /\ runs'[j][c] = "open" => runs[j][c] = "open"
      BY <1>1 DEF Kill
<1>4. RaisedItself' /\ WrittenBefore' /\ RecommendationHasCandidate'
      BY <1>2 DEF JobInv, RaisedItself, WrittenBefore, RecommendationHasCandidate, NoProcess
<1>5. \A j \in jobs \cap Job, c \in Config : runs'[j][c] # "open"
      BY <1>3 DEF JobInv, RunsAreClosed
<1>6. OpenHasClient' /\ RunsAreClosed'
      BY <1>2, <1>3, <1>5 DEF JobInv, OpenHasClient, RunsAreClosed, NoProcess
<1> QED BY <1>2, <1>3, <1>4, <1>6

\* A job that is stopped goes to its last step, or never starts.
LEMMA StoppedRecord ==
    ASSUME NEW record \in JobRecord, record.stage \in Steps \cup {"queued"}
    PROVE  /\ Stopped(record) \in JobRecord
           /\ Stopped(record).verdict = "cancelled"
           /\ Stopped(record).selected = record.selected
           /\ Stopped(record).stage = IF record.stage = "queued" THEN "ended" ELSE "uploading"
BY DEF Stopped, JobRecord, Steps

LEMMA PushKeeps == ASSUME JobInv, Push PROVE JobInv'
<1> DEFINE new == pushes + 1
           stopped == {j \in 1 .. pushes : /\ Group(j) = Group(new)
                                           /\ job[j].stage \in Steps \cup {"queued"}}
<1>1. /\ pushes < MaxPushes /\ pushes' = new /\ Kill(stopped)
      /\ UNCHANGED <<disk, comment, uploaded, broke>>
      /\ job' = [j \in Job |->
                   CASE j = new -> [NoJob EXCEPT !.stage = "queued", !.verdict = "running"]
                     [] j \in stopped -> Stopped(job[j])
                     [] OTHER -> job[j]]
      BY DEF Push
<1>2. /\ pushes \in Nat /\ new \in Job /\ pushes' \in 0 .. MaxPushes
      /\ Job = 1 .. MaxPushes /\ MaxPushes \in Nat
      /\ job \in [Job -> JobRecord]
      BY <1>1, JobAssumption DEF JobInv, TypeOK, JobAssumption, Job, JobRecord
<1>3. \A j \in Job : j \in stopped <=> job[j].stage \in Steps \cup {"queued"}
      BY <1>2 DEF JobInv, LastPushRuns, Group
<1>4. new \notin stopped /\ job[new] = NoJob
      BY <1>2 DEF JobInv, LastPushRuns
<1> HIDE DEF stopped
<1>5. /\ job'[new].stage = "queued" /\ job'[new].verdict = "running"
      /\ job'[new].selected = {} /\ job'[new] \in JobRecord
  <2>1. job'[new] = [NoJob EXCEPT !.stage = "queued", !.verdict = "running"]
        BY <1>1, <1>2, <1>4
  <2> QED BY <2>1 DEF NoJob, JobRecord
<1>6. \A j \in Job : j \in stopped =>
          /\ job'[j] \in JobRecord /\ job'[j].verdict = "cancelled"
          /\ job'[j].selected = job[j].selected
          /\ job'[j].stage = IF job[j].stage = "queued" THEN "ended" ELSE "uploading"
  <2> SUFFICES ASSUME NEW j \in Job, j \in stopped
               PROVE  /\ job'[j] \in JobRecord /\ job'[j].verdict = "cancelled"
                      /\ job'[j].selected = job[j].selected
                      /\ job'[j].stage = IF job[j].stage = "queued" THEN "ended" ELSE "uploading"
      OBVIOUS
  <2>1. job'[j] = Stopped(job[j])
        BY <1>1, <1>2, <1>4
  <2> QED BY <1>2, <1>3, <2>1, StoppedRecord
<1>7. \A j \in Job : j # new /\ j \notin stopped => job'[j] = job[j]
      BY <1>1, <1>2
<1>8. job' \in [Job -> JobRecord]
  <2>1. \A j \in Job : job'[j] \in JobRecord
        BY <1>2, <1>5, <1>6, <1>7
  <2> QED BY <1>1, <2>1
<1>9. /\ main' \in [Job -> Process \cup {NoProcess}]
      /\ runs' \in [Job -> [Config -> {"none", "open", "closed", "abandoned"}]]
      /\ \A j \in Job : main'[j] = IF j \in stopped THEN NoProcess ELSE main[j]
      /\ RaisedItself' /\ OpenHasClient' /\ WrittenBefore'
      /\ RecommendationHasCandidate' /\ RunsAreClosed'
      BY <1>1, KillKeeps
<1>10. TypeOK'
      BY <1>1, <1>2, <1>8, <1>9 DEF JobInv, TypeOK, JobRecord, Process
<1>11. LastPushRuns'
  <2>1. \A j \in Job : j > new => job'[j] = NoJob
    <3> SUFFICES ASSUME NEW j \in Job, j > new PROVE job'[j] = NoJob
        OBVIOUS
    <3>1. j > pushes /\ j # new
          BY <1>2
    <3>2. job[j] = NoJob
          BY <3>1 DEF JobInv, LastPushRuns
    <3>3. NoJob.stage = "none" /\ "none" \notin Steps \cup {"queued"}
          BY DEF NoJob, Steps
    <3> QED BY <1>3, <1>7, <3>1, <3>2, <3>3
  <2>2. \A j \in Job : job'[j].stage \in Steps \cup {"queued"} => j = new
        BY <1>3, <1>6, <1>7 DEF Steps
  <2> QED BY <1>1, <2>1, <2>2 DEF LastPushRuns
<1>12. OneStepAtATime'
      BY <1>4, <1>5, <1>6, <1>7, <1>9 DEF JobInv, OneStepAtATime, NoJob
<1>13. Reported'
      BY <1>1, <1>4, <1>5, <1>6, <1>7, <1>9 DEF JobInv, Reported, NoJob
<1>14. Commented' /\ CommentIsWhole'
  <2>1. comment # None => comment.push \in Job /\ comment.push # new /\ comment.push \notin stopped
        BY <1>1, <1>2, <1>3 DEF JobInv, Commented, Steps
  <2> QED BY <1>1, <1>2, <1>7, <2>1 DEF JobInv, Commented, CommentIsWhole
<1>15. CommentIsNewest' /\ OnlyOwnStepsFail'
      BY <1>1, <1>5, <1>6, <1>7 DEF JobInv, CommentIsNewest, OnlyOwnStepsFail
<1>16. EvidenceIsKept'
      BY <1>1, <1>3, <1>5, <1>6, <1>7 DEF JobInv, EvidenceIsKept, Reported
<1> QED BY <1>9, <1>10, <1>11, <1>12, <1>13, <1>14, <1>15, <1>16 DEF JobInv

LEMMA TimeoutKeeps == ASSUME JobInv, NEW j \in Job, Timeout(j) PROVE JobInv'
<1> DEFINE r == Stopped(job[j])
<1>1. /\ job[j].stage \in Steps /\ job' = [job EXCEPT ![j] = r] /\ Kill({j})
      /\ UNCHANGED <<pushes, disk, comment, uploaded, broke>>
      BY DEF Timeout
<1>2. job \in [Job -> JobRecord]
      BY DEF JobInv, TypeOK, JobRecord
<1>3. /\ r \in JobRecord /\ r.verdict = "cancelled" /\ r.selected = job[j].selected
      /\ r.stage = "uploading"
      BY <1>1, <1>2, StoppedRecord DEF Steps
<1> HIDE DEF r
<1>4. /\ job' \in [Job -> JobRecord] /\ job'[j] = r
      /\ \A i \in Job : i # j => job'[i] = job[i]
      BY <1>1, <1>2, <1>3
<1>5. /\ main' \in [Job -> Process \cup {NoProcess}]
      /\ runs' \in [Job -> [Config -> {"none", "open", "closed", "abandoned"}]]
      /\ \A i \in Job : main'[i] = IF i \in {j} THEN NoProcess ELSE main[i]
      /\ RaisedItself' /\ OpenHasClient' /\ WrittenBefore'
      /\ RecommendationHasCandidate' /\ RunsAreClosed'
      BY <1>1, KillKeeps
<1>6. TypeOK'
      BY <1>1, <1>4, <1>5 DEF JobInv, TypeOK, JobRecord, Process
<1>7. LastPushRuns' /\ OneStepAtATime' /\ Reported'
  <2>1. j = pushes /\ ~ (j > pushes)
        BY <1>1, JobAssumption DEF JobInv, TypeOK, LastPushRuns, Job, JobAssumption
  <2>2. LastPushRuns'
        BY <1>1, <1>3, <1>4, <2>1 DEF JobInv, LastPushRuns, Steps
  <2>3. OneStepAtATime'
        BY <1>3, <1>4, <1>5 DEF JobInv, OneStepAtATime
  <2>4. \A i \in Job : i # j => main'[i] = main[i]
        BY <1>5
  <2>5. Reported'
        BY <1>1, <1>3, <1>4, <2>4 DEF JobInv, Reported
  <2> QED BY <2>2, <2>3, <2>5
<1>8. Commented' /\ CommentIsWhole'
      BY <1>1, <1>3, <1>4 DEF JobInv, Commented, CommentIsWhole, Steps
<1>9. CommentIsNewest' /\ OnlyOwnStepsFail' /\ EvidenceIsKept'
      BY <1>1, <1>3, <1>4 DEF JobInv, CommentIsNewest, OnlyOwnStepsFail, EvidenceIsKept
<1> QED BY <1>5, <1>6, <1>7, <1>8, <1>9 DEF JobInv

\* The steps that run no config: what they change of their own job.
LEMMA StepKeeps ==
    ASSUME JobInv, NEW j \in Job, NEW r \in JobRecord,
           job[j].stage \in Steps \cup {"queued", "uploading"},
           job' = [job EXCEPT ![j] = r], main[j] = NoProcess,
           UNCHANGED <<pushes, main, runs>>,
           \A i \in Job : i # j => disk'[i] = disk[i],
           disk' \in [Job -> Disk],
           disk'[j].promotes \subseteq disk'[j].candidates,
           broke' \subseteq Job, broke \subseteq broke', r.verdict = "failure" => j \in broke',
           uploaded' \subseteq Job, uploaded \subseteq uploaded',
           r.stage \in Steps => job[j].stage \in Steps \cup {"queued"}, r.stage # "queued",
           \/ r.stage = "fetching" /\ r.selected = {} /\ disk'[j].body = {}
           \/ r.stage = "retraining" /\ r.selected = disk'[j].body \cup r.todo
           \/ r.stage = "explaining" /\ r.selected = disk'[j].body
           \/ r.stage = "posting" /\ disk'[j].body = r.selected \cup {HowTo}
           \/ r.stage = "uploading"
           \/ r.stage = "ended" /\ disk'[j] = EmptyDisk /\ j \in uploaded',
           \/ UNCHANGED comment /\ (r.verdict = "success" => job[j].verdict = "success")
           \/ /\ comment' = [push |-> j, body |-> r.selected \cup {HowTo}]
              /\ r.stage = "uploading" /\ job[j].stage \in Steps,
           job[j].stage = "uploading" => r.selected = job[j].selected /\ r.stage = "ended"
    PROVE  JobInv'
<1>1. /\ job \in [Job -> JobRecord] /\ job' \in [Job -> JobRecord] /\ job'[j] = r
      /\ \A i \in Job : i # j => job'[i] = job[i]
      BY DEF JobInv, TypeOK, JobRecord
<1>2. /\ pushes \in Nat /\ Job = 1 .. MaxPushes /\ MaxPushes \in Nat
      /\ \A i \in Job : i \in Nat
      BY JobAssumption DEF JobInv, TypeOK, JobAssumption, Job
<1>3. j \in 1 .. pushes
  <2>1. NoJob.stage = "none" /\ "none" \notin Steps \cup {"queued", "uploading"}
        BY DEF NoJob, Steps
  <2> QED BY <1>2, <2>1 DEF JobInv, LastPushRuns
<1>4. TypeOK'
  <2>1. comment' \in [push : Job, body : SUBSET (Config \cup {HowTo})] \cup {None}
        BY DEF JobInv, TypeOK, JobRecord
  <2> QED BY <1>1, <2>1 DEF JobInv, TypeOK, JobRecord, Process, Disk
<1>5. LastPushRuns' /\ OneStepAtATime'
      BY <1>1, <1>2, <1>3 DEF JobInv, LastPushRuns, OneStepAtATime
<1>6. Reported'
  <2>1. Steps = {"fetching", "retraining", "explaining", "posting"}
        BY DEF Steps
  <2>2. NoProcess.config = None
        BY DEF NoProcess
  <2> QED BY <1>1, <2>2 DEF JobInv, Reported
<1>7. Commented' /\ CommentIsWhole'
  <2>1. CASE UNCHANGED comment
    <3>1. comment # None => comment.push \in Job
          BY <1>2 DEF JobInv, TypeOK
    <3>2. comment # None /\ comment.push = j => job[j].stage = "uploading"
          BY <1>3 DEF JobInv, Commented, Steps
    <3> QED BY <1>1, <2>1, <3>1, <3>2 DEF JobInv, Commented, CommentIsWhole
  <2>2. CASE /\ comment' = [push |-> j, body |-> r.selected \cup {HowTo}]
             /\ r.stage = "uploading"
        BY <1>1, <1>3, <2>2 DEF Commented, CommentIsWhole
  <2> QED BY <2>1, <2>2
<1>8. CommentIsNewest'
  <2>1. CASE UNCHANGED comment /\ (r.verdict = "success" => job[j].verdict = "success")
        BY <1>1, <2>1 DEF JobInv, CommentIsNewest
  <2>2. CASE comment' = [push |-> j, body |-> r.selected \cup {HowTo}] /\ job[j].stage \in Steps
    <3>1. j = pushes
          BY <2>2 DEF JobInv, LastPushRuns
    <3>2. \A i \in Job : i > pushes => job[i].verdict # "success"
          BY DEF JobInv, LastPushRuns, NoJob
    <3>3. comment' # None
          BY <2>2, JobAssumption DEF JobAssumption, Job, JobRecord
    <3> QED BY <1>1, <1>2, <2>2, <3>1, <3>2, <3>3 DEF CommentIsNewest
  <2> QED BY <2>1, <2>2
<1>9. OnlyOwnStepsFail' /\ RaisedItself'
      BY <1>1 DEF JobInv, OnlyOwnStepsFail, RaisedItself
<1>10. EvidenceIsKept'
      BY <1>1 DEF JobInv, EvidenceIsKept
<1>11. OpenHasClient' /\ RunsAreClosed'
      BY DEF JobInv, OpenHasClient, RunsAreClosed
<1>12. WrittenBefore' /\ RecommendationHasCandidate'
      BY DEF JobInv, WrittenBefore, RecommendationHasCandidate, NoProcess
<1> QED BY <1>4, <1>5, <1>6, <1>7, <1>8, <1>9, <1>10, <1>11, <1>12 DEF JobInv

LEMMA WorkflowStepsKeep ==
    ASSUME JobInv, NEW j \in Job,
           \/ Begin(j) \/ StepFails(j) \/ Fetch(j) \/ LoopEnds(j) \/ Explain(j)
           \/ Post(j) \/ Upload(j)
    PROVE  JobInv'
<1> DEFINE q == job[j]
           r == job'[j]
<1>1. /\ job \in [Job -> JobRecord] /\ disk \in [Job -> Disk] /\ broke \subseteq Job
      /\ uploaded \subseteq Job
      BY DEF JobInv, TypeOK, JobRecord, Disk
<1>2. /\ UNCHANGED <<pushes, main, runs>>
      /\ q.stage \in Steps \cup {"queued", "uploading"}
      BY DEF Begin, StepFails, Fetch, LoopEnds, Explain, Post, Upload, Steps
<1>3. main[j] = NoProcess
      BY DEF JobInv, OneStepAtATime, Begin, StepFails, Fetch, LoopEnds, Explain, Post, Upload, Steps
<1>4. disk[j].promotes \subseteq disk[j].candidates
      BY DEF JobInv, RecommendationHasCandidate
<1>5. /\ q.verdict = "failure" => j \in broke
      /\ q.stage \in {"queued", "fetching"} => q.selected = {} /\ disk[j].body = {}
      /\ q.stage = "retraining" => q.selected = disk[j].body \cup q.todo
      /\ q.stage = "explaining" => disk[j].body = q.selected
      /\ q.stage = "posting" => disk[j].body = q.selected \cup {HowTo}
      BY <1>3 DEF JobInv, OnlyOwnStepsFail, Reported, NoProcess
<1>6. CASE Begin(j)
  <2>1. /\ job' = [job EXCEPT ![j] = r] /\ r \in JobRecord /\ r.stage = "fetching"
        /\ r.verdict = q.verdict /\ r.selected = q.selected /\ q.stage = "queued"
        /\ UNCHANGED <<disk, comment, uploaded, broke>>
        BY <1>1, <1>6 DEF Begin, JobRecord, Steps
  <2> HIDE DEF r
  <2> QED BY <1>1, <1>2, <1>3, <1>4, <1>5, <2>1, StepKeeps
<1>7. CASE StepFails(j)
  <2>1. /\ job' = [job EXCEPT ![j] = r] /\ r \in JobRecord /\ r.stage = "uploading"
        /\ r.verdict = "failure" /\ q.stage \in Steps /\ broke' = broke \cup {j}
        /\ UNCHANGED <<disk, comment, uploaded>>
        BY <1>1, <1>7 DEF StepFails, Abort, JobRecord, Steps
  <2>2. q.stage # "uploading" /\ "uploading" \notin Steps
        BY <2>1 DEF Steps
  <2> HIDE DEF r
  <2> QED BY <1>1, <1>2, <1>3, <1>4, <1>5, <2>1, <2>2, StepKeeps
<1>8. CASE Fetch(j)
  <2>1. PICK touched \in SUBSET Path \ {{}}, tree \in SUBSET Config :
            /\ disk' = [disk EXCEPT ![j].tree = tree]
            /\ job' = [job EXCEPT ![j].stage = "retraining", ![j].selected = Affected(touched, tree),
                                  ![j].todo = Affected(touched, tree)]
        BY <1>8 DEF Fetch
  <2>2. /\ q.stage = "fetching" /\ Affected(touched, tree) \in SUBSET Config
        /\ UNCHANGED <<comment, uploaded, broke>>
        BY <1>8 DEF Fetch, Affected
  <2>3. /\ job' = [job EXCEPT ![j] = r] /\ r \in JobRecord /\ r.stage = "retraining"
        /\ r.verdict = q.verdict /\ r.selected = r.todo
        BY <1>1, <2>1, <2>2 DEF JobRecord, Steps
  <2>4. /\ disk' \in [Job -> Disk] /\ \A i \in Job : i # j => disk'[i] = disk[i]
        /\ disk'[j].body = disk[j].body /\ disk'[j].promotes = disk[j].promotes
        /\ disk'[j].candidates = disk[j].candidates
        BY <1>1, <2>1 DEF Disk
  <2> HIDE DEF r
  <2> QED BY <1>1, <1>2, <1>3, <1>4, <1>5, <2>2, <2>3, <2>4, StepKeeps DEF Steps
<1>9. CASE LoopEnds(j)
  <2>1. /\ job' = [job EXCEPT ![j] = r] /\ r \in JobRecord /\ r.stage = "explaining"
        /\ r.verdict = q.verdict /\ r.selected = q.selected /\ q.stage = "retraining" /\ q.todo = {}
        /\ UNCHANGED <<disk, comment, uploaded, broke>>
        BY <1>1, <1>9 DEF LoopEnds, Enter, JobRecord, Steps
  <2> HIDE DEF r
  <2> QED BY <1>1, <1>2, <1>3, <1>4, <1>5, <2>1, StepKeeps DEF Steps
<1>10. CASE Explain(j)
  <2>1. /\ job' = [job EXCEPT ![j] = r] /\ r \in JobRecord /\ r.stage = "posting"
        /\ r.verdict = q.verdict /\ r.selected = q.selected /\ q.stage = "explaining"
        /\ UNCHANGED <<comment, uploaded, broke>>
        BY <1>1, <1>10 DEF Explain, Enter, JobRecord, Steps
  <2>2. /\ disk' \in [Job -> Disk] /\ \A i \in Job : i # j => disk'[i] = disk[i]
        /\ disk'[j].body = disk[j].body \cup {HowTo} /\ disk'[j].promotes = disk[j].promotes
        /\ disk'[j].candidates = disk[j].candidates
        BY <1>1, <1>10 DEF Explain, Disk
  <2> HIDE DEF r
  <2> QED BY <1>1, <1>2, <1>3, <1>4, <1>5, <2>1, <2>2, StepKeeps DEF Steps
<1>11. CASE Post(j)
  <2>1. /\ job' = [job EXCEPT ![j] = r] /\ r \in JobRecord /\ r.stage = "uploading"
        /\ r.verdict = "success" /\ r.selected = q.selected /\ q.stage = "posting"
        /\ comment' = [push |-> j, body |-> disk[j].body]
        /\ UNCHANGED <<disk, uploaded, broke>>
        BY <1>1, <1>11 DEF Post, JobRecord, Steps
  <2> HIDE DEF r
  <2> QED BY <1>1, <1>2, <1>3, <1>4, <1>5, <2>1, StepKeeps DEF Steps
<1>12. CASE Upload(j)
  <2>1. /\ job' = [job EXCEPT ![j] = r] /\ r \in JobRecord /\ r.stage = "ended"
        /\ r.verdict = q.verdict /\ r.selected = q.selected
        /\ uploaded' = uploaded \cup {j} /\ disk' = [disk EXCEPT ![j] = EmptyDisk]
        /\ UNCHANGED <<comment, broke>>
        BY <1>1, <1>12 DEF Upload, Enter, JobRecord, Steps
  <2>2. /\ disk' \in [Job -> Disk] /\ \A i \in Job : i # j => disk'[i] = disk[i]
        /\ disk'[j] = EmptyDisk /\ EmptyDisk.promotes = EmptyDisk.candidates
        BY <1>1, <2>1 DEF Disk, EmptyDisk
  <2> HIDE DEF r
  <2> QED BY <1>1, <1>2, <1>3, <1>5, <2>1, <2>2, StepKeeps DEF Steps
<1> QED BY <1>6, <1>7, <1>8, <1>9, <1>10, <1>11, <1>12

\* The loop's next config becomes a process of which nothing is known yet.
LEMMA NextConfigKeeps == ASSUME JobInv, NEW j \in Job, NextConfig(j) PROVE JobInv'
<1> DEFINE q == job[j]
           r == job'[j]
<1>1. /\ job \in [Job -> JobRecord] /\ main \in [Job -> Process \cup {NoProcess}]
      /\ q.stage = "retraining" /\ main[j] = NoProcess
      /\ UNCHANGED <<pushes, disk, runs, comment, uploaded, broke>>
      BY DEF JobInv, TypeOK, JobRecord, Process, NextConfig
<1>2. PICK c \in q.todo :
          /\ job' = [job EXCEPT ![j].todo = q.todo \ {c}]
          /\ main' = [main EXCEPT ![j].config = c, ![j].at = "preparing"]
      BY DEF NextConfig
<1>3. /\ c \in Config /\ job' \in [Job -> JobRecord]
      /\ r.stage = "retraining" /\ r.verdict = q.verdict /\ r.selected = q.selected
      /\ r.todo = q.todo \ {c}
      /\ \A i \in Job : i # j => job'[i] = job[i]
      BY <1>1, <1>2 DEF JobRecord
<1>4. /\ main'[j] \in Process /\ main'[j].config = c /\ main'[j].at = "preparing"
      /\ ~ main'[j].client /\ ~ main'[j].raised
      /\ main' \in [Job -> Process \cup {NoProcess}]
      /\ \A i \in Job : i # j => main'[i] = main[i]
  <2>1. main'[j] = [config |-> c, at |-> "preparing", client |-> FALSE, raised |-> FALSE,
                    promote |-> FALSE]
        BY <1>1, <1>2 DEF NoProcess
  <2>2. main'[j] \in Process
        BY <1>3, <2>1, Positions DEF Process
  <2> QED BY <1>1, <1>2, <2>1, <2>2
<1> HIDE DEF r
<1>5. TypeOK'
      BY <1>1, <1>3, <1>4 DEF JobInv, TypeOK, JobRecord, Process
<1>6. LastPushRuns' /\ OneStepAtATime'
  <2>1. "retraining" \in Steps /\ j = pushes /\ ~ (j > pushes)
        BY <1>1, JobAssumption DEF JobInv, TypeOK, LastPushRuns, Job, JobAssumption, Steps
  <2> QED BY <1>1, <1>3, <1>4, <2>1 DEF r, JobInv, LastPushRuns, OneStepAtATime
<1>7. Reported'
  <2>1. q.selected = disk[j].body \cup q.todo
        BY <1>1 DEF JobInv, Reported, NoProcess
  <2>2. r.selected = disk'[j].body \cup r.todo \cup ({main'[j].config} \ {None})
        BY <1>1, <1>2, <1>3, <1>4, <2>1, JobAssumption DEF JobAssumption
  <2> QED BY <1>1, <1>3, <1>4, <2>2 DEF r, JobInv, Reported
<1>8. Commented' /\ CommentIsWhole' /\ CommentIsNewest'
  <2>1. comment # None => comment.push \in Job
        BY DEF JobInv, TypeOK
  <2> QED BY <1>1, <1>3, <2>1 DEF r, JobInv, Commented, CommentIsWhole, CommentIsNewest
<1>9. RaisedItself' /\ WrittenBefore' /\ OnlyOwnStepsFail' /\ EvidenceIsKept'
      BY <1>1, <1>3, <1>4 DEF r, JobInv, RaisedItself, WrittenBefore, OnlyOwnStepsFail,
                              EvidenceIsKept
<1>10. RecommendationHasCandidate' /\ OpenHasClient' /\ RunsAreClosed'
  <2>1. \A d \in Config : runs[j][d] # "open"
        BY <1>1 DEF JobInv, OpenHasClient, NoProcess
  <2> QED BY <1>1, <1>4, <2>1 DEF JobInv, RecommendationHasCandidate, OpenHasClient, RunsAreClosed
<1> QED BY <1>5, <1>6, <1>7, <1>8, <1>9, <1>10 DEF JobInv

\* A report joins the others, or the job fails without a comment.
LEMMA CollectKeeps == ASSUME JobInv, NEW j \in Job, Collect(j) PROVE JobInv'
<1> DEFINE q == job[j]
           r == job'[j]
           p == main[j]
<1>1. /\ job \in [Job -> JobRecord] /\ main \in [Job -> Process \cup {NoProcess}]
      /\ disk \in [Job -> Disk]
      /\ p.at = "exited" /\ main' = [main EXCEPT ![j] = NoProcess]
      /\ UNCHANGED <<pushes, runs, comment, uploaded, broke>>
      BY DEF JobInv, TypeOK, JobRecord, Process, Disk, Collect
<1>2. p \in Process /\ p # NoProcess
      BY <1>1, Processes, Positions
<1>3. q.stage = "retraining" /\ p.config \in Config
      BY <1>2 DEF JobInv, OneStepAtATime, Process
<1>4. /\ job' \in [Job -> JobRecord] /\ disk' \in [Job -> Disk]
      /\ \A i \in Job : i # j => job'[i] = job[i] /\ disk'[i] = disk[i]
      /\ disk'[j].promotes = disk[j].promotes /\ disk'[j].candidates = disk[j].candidates
      /\ r.selected = q.selected
      /\ \/ r.stage = "uploading" /\ r.verdict = "failure" /\ p.raised
         \/ job' = job /\ disk'[j].body = disk[j].body \cup {p.config}
  <2>1. CASE p.raised /\ Abort(j) /\ UNCHANGED disk
    <3>1. q \in JobRecord
          BY <1>1
    <3>2. /\ r \in JobRecord /\ r.selected = q.selected
          /\ r.stage = "uploading" /\ r.verdict = "failure"
          BY <1>1, <2>1, <3>1 DEF Abort, JobRecord
    <3>3. job' = [job EXCEPT ![j] = r]
          BY <1>1, <2>1, <3>1 DEF Abort
    <3> QED BY <1>1, <2>1, <3>2, <3>3
  <2>2. CASE /\ disk' = [disk EXCEPT ![j].body = @ \cup {p.config}]
             /\ UNCHANGED job
        BY <1>1, <1>3, <2>2 DEF Disk
  <2> QED BY <2>1, <2>2 DEF Collect
<1>5. /\ main' \in [Job -> Process \cup {NoProcess}] /\ main'[j] = NoProcess
      /\ \A i \in Job : i # j => main'[i] = main[i]
      BY <1>1
<1> HIDE DEF r
<1>6. TypeOK'
      BY <1>1, <1>4, <1>5 DEF JobInv, TypeOK, JobRecord, Process, Disk
<1>7. LastPushRuns' /\ OneStepAtATime'
  <2>1. "retraining" \in Steps /\ j = pushes /\ ~ (j > pushes)
        BY <1>3, JobAssumption DEF JobInv, TypeOK, LastPushRuns, Job, JobAssumption, Steps
  <2> QED BY <1>1, <1>4, <1>5, <2>1 DEF r, JobInv, LastPushRuns, OneStepAtATime, Steps
<1>8. Reported'
  <2>1. q.selected = disk[j].body \cup q.todo \cup {p.config}
        BY <1>3, JobAssumption DEF JobInv, Reported, JobAssumption
  <2>2. r.stage = "retraining" => r.selected = disk'[j].body \cup r.todo
        BY <1>4, <2>1 DEF r
  <2>3. r.stage \in {"retraining", "uploading"} /\ NoProcess.config = None
        BY <1>3, <1>4 DEF r, NoProcess
  <2> QED BY <1>4, <1>5, <2>2, <2>3 DEF r, JobInv, Reported
<1>9. Commented' /\ CommentIsWhole' /\ CommentIsNewest'
  <2>1. comment # None => comment.push \in Job
        BY DEF JobInv, TypeOK
  <2>2. r.verdict = "success" => q.verdict = "success"
        BY <1>4 DEF r
  <2>3. q.stage \in {"uploading", "ended"} => r.stage \in {"uploading", "ended"}
        BY <1>3
  <2> QED BY <1>1, <1>4, <2>1, <2>2, <2>3 DEF r, JobInv, Commented, CommentIsWhole, CommentIsNewest
<1>10. RaisedItself' /\ OnlyOwnStepsFail'
      BY <1>1, <1>4, <1>5 DEF r, JobInv, RaisedItself, OnlyOwnStepsFail, NoProcess
<1>11. WrittenBefore' /\ EvidenceIsKept' /\ RecommendationHasCandidate'
      BY <1>1, <1>3, <1>4, <1>5 DEF r, JobInv, WrittenBefore, EvidenceIsKept,
                                     RecommendationHasCandidate, NoProcess
<1>12. OpenHasClient' /\ RunsAreClosed'
  <2>1. \A d \in Config : runs[j][d] # "open"
        BY <1>1 DEF JobInv, RunsAreClosed
  <2> QED BY <1>1, <1>5, <2>1 DEF JobInv, OpenHasClient, RunsAreClosed, NoProcess
<1> QED BY <1>6, <1>7, <1>8, <1>9, <1>10, <1>11, <1>12 DEF JobInv
-----------------------------------------------------------------------------
LEMMA JobStep == JobInv /\ [Next]_vars => JobInv'
<1> SUFFICES ASSUME JobInv, [Next]_vars PROVE JobInv'
    OBVIOUS
<1>1. CASE UNCHANGED vars
      BY <1>1 DEF vars, JobInv, TypeOK, LastPushRuns, OneStepAtATime, Reported, Commented,
                  RaisedItself, OpenHasClient, WrittenBefore, OnlyOwnStepsFail, CommentIsWhole,
                  CommentIsNewest, EvidenceIsKept, RecommendationHasCandidate, RunsAreClosed
<1>2. ASSUME NEW j \in Job, Main(j) PROVE JobInv'
      BY <1>2, QuietStepsKeep, RunStepsKeep, FileStepsKeep DEF Main
<1>3. ASSUME NEW j \in Job, Workflow(j) PROVE JobInv'
      BY <1>3, TimeoutKeeps, WorkflowStepsKeep, NextConfigKeeps, CollectKeeps DEF Workflow
<1> QED BY <1>1, <1>2, <1>3, PushKeeps DEF Next

\* retrain.yaml and main(): what is known of jobs, processes, disks and the
\* comment holds at every step, for any number of pushes and configs.
THEOREM JobInvariance == Spec => []JobInv
BY JobInit, JobStep, PTL DEF Spec

\* Every variable keeps its type.
THEOREM JobTypes == Spec => []TypeOK
BY JobInvariance, PTL DEF JobInv

\* Whatever the tracking server does, a job fails only over a step of its own.
THEOREM TrackerIsHarmless == Spec => []OnlyOwnStepsFail
BY JobInvariance, PTL DEF JobInv

\* A process that is over leaves no run open that it could have closed.
THEOREM NoRunLeftOpen == Spec => []RunsAreClosed
BY JobInvariance, PTL DEF JobInv

\* The comment is the whole report of its push: a job of which one config failed
\* leaves none.
THEOREM WholeComment == Spec => []CommentIsWhole
BY JobInvariance, PTL DEF JobInv

\* No job of an earlier push replaces what a later one has said.
THEOREM NewestComment == Spec => []CommentIsNewest
BY JobInvariance, PTL DEF JobInv

\* However a job ends, what it wrote was uploaded before.
THEOREM KeptEvidence == Spec => []EvidenceIsKept
BY JobInvariance, PTL DEF JobInv

\* A recommendation comes with the candidate it is about.
THEOREM CandidateFirst == Spec => []RecommendationHasCandidate
BY JobInvariance, PTL DEF JobInv
=============================================================================
