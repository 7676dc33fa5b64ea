----------------------------- MODULE RetrainJob -----------------------------
(***************************************************************************)
(* .github/workflows/retrain.yaml around training/retrain.py: every push   *)
(* to ONE pull request queues a job, which retrains the configs the pull   *)
(* request touches, one main() after the other, into a scratch registry,   *)
(* posts their reports as the pull request's comment and uploads them.     *)
(*                                                                         *)
(* main() is followed through its calls of the MLflow Tracker, any of      *)
(* which may fail or hang; its registry write, whose steps Retrain models, *)
(* is one step here.  GitHub's scheduling of jobs, the runner's disk, the  *)
(* comment and the tracking server are modelled as the workflow uses them. *)
(***************************************************************************)
EXTENDS Naturals

CONSTANTS Config,       \* dataset configs, named by their stems
          OtherStem,    \* a dataset no config belongs to
          Recipe,       \* retrain.py or make_standin_datasets.py
          HowTo,        \* the section on what a human still has to do
          None,
          MaxPushes     \* bound: pushes to the pull request

ASSUME JobAssumption ==
    /\ {OtherStem, HowTo, None} \cap Config = {}
    /\ MaxPushes \in Nat
    /\ None \notin [push : 1 .. MaxPushes, body : SUBSET (Config \cup {HowTo})]

Job == 1 .. MaxPushes

\* Paths of the diff that start the workflow.
Path == {Recipe} \cup (Config \X {"config"}) \cup ((Config \cup {OtherStem}) \X {"data"})

\* The steps of a job that are skipped once it failed or was cancelled.
Steps == {"fetching", "retraining", "explaining", "posting"}

\* Where main() goes after a call it makes through _safe().
AfterCall == [announcing |-> "training", recording |-> "deciding", archiving |-> "reporting",
              attaching |-> "summarising", attachingSummary |-> "leaving"]
\* What main() does between those calls, inside the Tracker's with block.
Inside == {"training", "deciding", "writing", "reporting", "summarising"}
Position == {"preparing", "connecting", "entering", "leaving", "exited"}
                \cup Inside \cup DOMAIN AfterCall

VARIABLES pushes,       \* pushes so far; the job of push j is j
          job,          \* [stage, verdict, selected, todo]
          main,         \* the process of a job: [config, at, client, raised, promote]
          disk,         \* its runner's: [tree, reports, promotes, candidates, body]
          runs,         \* what the tracking server holds of each job and config
          comment,      \* the comment on the pull request: [push, body]
          uploaded,     \* jobs whose reports and candidates were uploaded
          broke         \* history: jobs of which a step of their own failed

vars == <<pushes, job, main, disk, runs, comment, uploaded, broke>>

NoJob == [stage |-> "none", verdict |-> "none", selected |-> {}, todo |-> {}]
NoProcess == [config |-> None, at |-> "none", client |-> FALSE, raised |-> FALSE,
              promote |-> FALSE]
EmptyDisk == [tree |-> {}, reports |-> {}, promotes |-> {}, candidates |-> {}, body |-> {}]

Running(j) == job[j].stage \in Steps \cup {"uploading"}

Init ==
    /\ pushes = 0
    /\ job = [j \in Job |-> NoJob]
    /\ main = [j \in Job |-> NoProcess]
    /\ disk = [j \in Job |-> EmptyDisk]
    /\ runs = [j \in Job |-> [c \in Config |-> "none"]]
    /\ comment = None
    /\ uploaded = {}
    /\ broke = {}
-----------------------------------------------------------------------------
(* The workflow.                                                            *)

\* Mutant: a changed dataset selects a config of its name, there or not.
AffectedUnchecked(touched, tree) ==
    IF Recipe \in touched THEN tree ELSE {p[1] : p \in touched \ {Recipe}}

\* The configs to retrain: all there are if the recipe changed, and otherwise
\* those the diff names, deleted ones too, and those of a changed dataset.
Affected(touched, tree) ==
    IF Recipe \in touched THEN tree
    ELSE {c \in Config : <<c, "config">> \in touched}
         \cup {c \in tree : <<c, "data">> \in touched}

\* Mutant: retrain-${{ github.sha }}.
GroupBySha(j) == j

\* concurrency.group is retrain-${{ github.ref }}: one for the pull request.
Group(j) == 0

\* The processes of these jobs are gone, and nobody closes their runs.
Kill(jobs) ==
    /\ main' = [j \in Job |-> IF j \in jobs THEN NoProcess ELSE main[j]]
    /\ runs' = [j \in Job |-> [c \in Config |->
                  IF j \in jobs /\ main[j].config = c /\ runs[j][c] = "open"
                  THEN "abandoned" ELSE runs[j][c]]]

\* Mutant: the upload runs on success only.
StoppedForGood(record) ==
    [record EXCEPT !.verdict = "cancelled", !.todo = {}, !.stage = "ended"]

\* What is queued never starts; what runs goes on to the step that runs always.
Stopped(record) ==
    [record EXCEPT !.verdict = "cancelled", !.todo = {},
                   !.stage = IF @ = "queued" THEN "ended" ELSE "uploading"]

\* A push to the pull request; cancel-in-progress stops the jobs of its group.
Push ==
    LET new == pushes + 1
        stopped == {j \in 1 .. pushes : /\ Group(j) = Group(new)
                                        /\ job[j].stage \in Steps \cup {"queued"}}
    IN
    /\ pushes < MaxPushes
    /\ pushes' = new
    /\ job' = [j \in Job |->
                 CASE j = new -> [NoJob EXCEPT !.stage = "queued", !.verdict = "running"]
                   [] j \in stopped -> Stopped(job[j])
                   [] OTHER -> job[j]]
    /\ Kill(stopped)
    /\ UNCHANGED <<disk, comment, uploaded, broke>>

\* A runner takes the job when no other of its group is running.
Begin(j) ==
    /\ job[j].stage = "queued"
    /\ \A i \in Job : Running(i) => Group(i) # Group(j)
    /\ job' = [job EXCEPT ![j].stage = "fetching"]
    /\ UNCHANGED <<pushes, main, disk, runs, comment, uploaded, broke>>

\* Mutant: the time is looked at between two configs.
TimeoutBetweenConfigs(j) ==
    /\ job[j].stage \in Steps /\ main[j] = NoProcess
    /\ job' = [job EXCEPT ![j] = Stopped(@)]
    /\ UNCHANGED <<pushes, main, disk, runs, comment, uploaded, broke>>

\* timeout-minutes: 45.
Timeout(j) ==
    /\ job[j].stage \in Steps
    /\ job' = [job EXCEPT ![j] = Stopped(@)]
    /\ Kill({j})
    /\ UNCHANGED <<pushes, disk, comment, uploaded, broke>>

Enter(j, stage) == job' = [job EXCEPT ![j].stage = stage]

\* A step failed: the later ones are skipped, but for the upload.
Abort(j) ==
    job' = [job EXCEPT ![j].stage = "uploading", ![j].verdict = "failure", ![j].todo = {}]

\* Anything but main() that the steps run: git, pip, dvc, cml.
StepFails(j) ==
    /\ job[j].stage \in Steps \ {"retraining"}
    /\ Abort(j)
    /\ broke' = broke \cup {j}
    /\ UNCHANGED <<pushes, main, disk, runs, comment, uploaded>>

\* Everything up to the datasets, and mkdir, cp -r registry/. and : > report.md.
\* The diff starts the workflow; the tree lacks at most configs the diff deletes.
Fetch(j) ==
    /\ job[j].stage = "fetching"
    /\ \E touched \in SUBSET Path \ {{}}, tree \in SUBSET Config :
          LET selected == Affected(touched, tree) IN
          /\ \A c \in Config \ tree : <<c, "config">> \in touched
          /\ disk' = [disk EXCEPT ![j].tree = tree]
          /\ job' = [job EXCEPT ![j].stage = "retraining", ![j].selected = selected,
                                ![j].todo = selected]
    /\ UNCHANGED <<pushes, main, runs, comment, uploaded, broke>>

\* The loop's next config, as a process.
NextConfig(j) ==
    /\ job[j].stage = "retraining" /\ main[j] = NoProcess
    /\ \E c \in job[j].todo :
          /\ job' = [job EXCEPT ![j].todo = @ \ {c}]
          /\ main' = [main EXCEPT ![j].config = c, ![j].at = "preparing"]
    /\ UNCHANGED <<pushes, disk, runs, comment, uploaded, broke>>

\* Mutant: no set -e.
CollectWhatThereIs(j) ==
    /\ main[j].at = "exited"
    /\ main' = [main EXCEPT ![j] = NoProcess]
    /\ disk' = [disk EXCEPT ![j].body = @ \cup ({main[j].config} \cap disk[j].reports)]
    /\ UNCHANGED <<pushes, job, runs, comment, uploaded, broke>>

\* cat reports/$stem.md >> reports/report.md, under set -e.
Collect(j) ==
    /\ main[j].at = "exited"
    /\ main' = [main EXCEPT ![j] = NoProcess]
    /\ \/ main[j].raised /\ Abort(j) /\ UNCHANGED disk
       \/ /\ ~ main[j].raised
          /\ disk' = [disk EXCEPT ![j].body = @ \cup {main[j].config}]
          /\ UNCHANGED job
    /\ UNCHANGED <<pushes, runs, comment, uploaded, broke>>

LoopEnds(j) ==
    /\ job[j].stage = "retraining" /\ main[j] = NoProcess /\ job[j].todo = {}
    /\ Enter(j, "explaining")
    /\ UNCHANGED <<pushes, main, disk, runs, comment, uploaded, broke>>

Explain(j) ==
    /\ job[j].stage = "explaining"
    /\ disk' = [disk EXCEPT ![j].body = @ \cup {HowTo}]
    /\ Enter(j, "posting")
    /\ UNCHANGED <<pushes, main, runs, comment, uploaded, broke>>

\* cml comment update: it replaces the comment of an earlier push.
Post(j) ==
    /\ job[j].stage = "posting"
    /\ comment' = [push |-> j, body |-> disk[j].body]
    /\ job' = [job EXCEPT ![j].stage = "uploading", ![j].verdict = "success"]
    /\ UNCHANGED <<pushes, main, disk, runs, uploaded, broke>>

\* if: always().  The runner, and its disk, are gone afterwards.
Upload(j) ==
    /\ job[j].stage = "uploading"
    /\ uploaded' = uploaded \cup {j}
    /\ disk' = [disk EXCEPT ![j] = EmptyDisk]
    /\ Enter(j, "ended")
    /\ UNCHANGED <<pushes, main, runs, comment, broke>>
-----------------------------------------------------------------------------
(* main().                                                                  *)

Goto(j, position) == main' = [main EXCEPT ![j].at = position]

\* Arguments, config, dataset, columns, hash, bounds and incumbent, before there
\* is a Tracker; a config that is not there cannot be read.
Prepare(j) ==
    /\ main[j].at = "preparing"
    /\ \/ main[j].config \in disk[j].tree /\ Goto(j, "connecting") /\ UNCHANGED broke
       \/ /\ main' = [main EXCEPT ![j].at = "exited", ![j].raised = TRUE]
          /\ broke' = broke \cup {j}
    /\ UNCHANGED <<pushes, job, disk, runs, comment, uploaded>>

\* Tracker.__init__(): without the package or the server there is no client.
Connect(j) ==
    /\ main[j].at = "connecting"
    /\ \E client \in BOOLEAN :
          main' = [main EXCEPT ![j].at = "entering", ![j].client = client]
    /\ UNCHANGED <<pushes, job, disk, runs, comment, uploaded, broke>>

\* Tracker.__enter__(): start_run() and the tracking URI.  A call that fails
\* leaves no client, and may leave a run behind.
StartRun(j) ==
    /\ main[j].at = "entering"
    /\ \E run \in IF main[j].client THEN {"none", "open", "abandoned"} ELSE {"none"} :
          /\ main' = [main EXCEPT ![j].at = "announcing", ![j].client = run = "open"]
          /\ runs' = [runs EXCEPT ![j][main[j].config] = run]
    /\ UNCHANGED <<pushes, job, disk, comment, uploaded, broke>>

\* Mutant: a failing call is not caught.
Unguarded(j) ==
    \/ Goto(j, AfterCall[main[j].at])
    \/ main[j].client /\ main' = [main EXCEPT ![j].at = "leaving", ![j].raised = TRUE]

\* Tracker._safe(): without a client nothing is called; a call that fails is a
\* warning.  Either way main() goes on.
Safe(j) == Goto(j, AfterCall[main[j].at])

Call(j) ==
    /\ main[j].at \in DOMAIN AfterCall
    /\ Safe(j)
    /\ UNCHANGED <<pushes, job, disk, runs, comment, uploaded, broke>>

\* Mutant: the run is closed at the end of the block, not by the Tracker.
RaisePastTracker(j) == main' = [main EXCEPT ![j].at = "exited", ![j].raised = TRUE]

\* An exception leaves the with block by way of the Tracker.
Raise(j) == main' = [main EXCEPT ![j].at = "leaving", ![j].raised = TRUE]

\* Training, an unknown metric, RegistryError, a full disk.
OwnStepFails(j) ==
    /\ main[j].at \in Inside
    /\ Raise(j)
    /\ broke' = broke \cup {j}
    /\ UNCHANGED <<pushes, job, disk, runs, comment, uploaded>>

Train(j) ==
    /\ main[j].at = "training"
    /\ Goto(j, "recording")
    /\ UNCHANGED <<pushes, job, disk, runs, comment, uploaded, broke>>

\* Mutant: the report comes first.
DecideAndReport(j) ==
    /\ main[j].at = "deciding"
    /\ \E promote \in BOOLEAN :
          main' = [main EXCEPT ![j].promote = promote, ![j].at = "reporting"]
    /\ UNCHANGED <<pushes, job, disk, runs, comment, uploaded, broke>>

Decide(j) ==
    /\ main[j].at = "deciding"
    /\ \E promote \in BOOLEAN :
          main' = [main EXCEPT ![j].promote = promote,
                               ![j].at = IF promote THEN "writing" ELSE "reporting"]
    /\ UNCHANGED <<pushes, job, disk, runs, comment, uploaded, broke>>

\* The candidate's directory in the scratch registry, complete.
WriteCandidate(j) ==
    /\ main[j].at = "writing"
    /\ disk' = [disk EXCEPT ![j].candidates = @ \cup {main[j].config}]
    /\ Goto(j, "archiving")
    /\ UNCHANGED <<pushes, job, runs, comment, uploaded, broke>>

\* --report
Report(j) ==
    LET c == {main[j].config} IN
    /\ main[j].at = "reporting"
    /\ disk' = [disk EXCEPT ![j].reports = @ \cup c,
                            ![j].promotes = IF main[j].promote THEN @ \cup c ELSE @]
    /\ Goto(j, "attaching")
    /\ UNCHANGED <<pushes, job, runs, comment, uploaded, broke>>

\* --json, beside the report.
Summarise(j) ==
    /\ main[j].at = "summarising"
    /\ Goto(j, "attachingSummary")
    /\ UNCHANGED <<pushes, job, disk, runs, comment, uploaded, broke>>

\* Tracker.__exit__(), whether main() raised or not.
Leave(j) ==
    /\ main[j].at = "leaving"
    /\ Goto(j, "exited")
    /\ IF main[j].client
       THEN \E run \in {"closed", "abandoned"} : runs' = [runs EXCEPT ![j][main[j].config] = run]
       ELSE UNCHANGED runs
    /\ UNCHANGED <<pushes, job, disk, comment, uploaded, broke>>

Main(j) ==
    \/ Prepare(j) \/ Connect(j) \/ StartRun(j) \/ Call(j) \/ OwnStepFails(j) \/ Train(j)
    \/ Decide(j) \/ WriteCandidate(j) \/ Report(j) \/ Summarise(j) \/ Leave(j)

Workflow(j) ==
    \/ Begin(j) \/ Timeout(j) \/ StepFails(j) \/ Fetch(j) \/ NextConfig(j) \/ Collect(j)
    \/ LoopEnds(j) \/ Explain(j) \/ Post(j) \/ Upload(j)

Next == Push \/ \E j \in Job : Main(j) \/ Workflow(j)

Spec == Init /\ [][Next]_vars

\* GitHub starts what it queued, lets the last step end and stops what is late.
\* Nothing is assumed of main(): a call of the tracking server may hang.
FairSpec == Spec /\ \A j \in Job : WF_vars(Begin(j)) /\ WF_vars(Timeout(j)) /\ WF_vars(Upload(j))
-----------------------------------------------------------------------------
\* Jobs, processes and files of configs the repository has or had.
TypeOK ==
    /\ pushes \in 0 .. MaxPushes
    /\ job \in [Job -> [stage : Steps \cup {"none", "queued", "uploading", "ended"},
                        verdict : {"none", "running", "success", "failure", "cancelled"},
                        selected : SUBSET Config, todo : SUBSET Config]]
    /\ main \in [Job -> [config : Config, at : Position, client : BOOLEAN,
                         raised : BOOLEAN, promote : BOOLEAN] \cup {NoProcess}]
    /\ disk \in [Job -> [tree : SUBSET Config, reports : SUBSET Config, promotes : SUBSET Config,
                         candidates : SUBSET Config, body : SUBSET (Config \cup {HowTo})]]
    /\ runs \in [Job -> [Config -> {"none", "open", "closed", "abandoned"}]]
    /\ comment \in [push : Job, body : SUBSET (Config \cup {HowTo})] \cup {None}
    /\ uploaded \subseteq Job
    /\ broke \subseteq Job

\* "A tracking server being down should not lose a training run": whatever the
\* server does, a job fails only over a step of its own.
OnlyOwnStepsFail == \A j \in Job : job[j].verdict = "failure" => j \in broke

\* The comment reports all the configs its push selected, and says what a human
\* has to do: a job of which one config failed leaves no comment.
CommentIsWhole ==
    comment # None => comment.body = job[comment.push].selected \cup {HowTo}

\* A job that succeeds has commented, and no job of an earlier push, however
\* late it is, replaces what it said.
CommentIsNewest ==
    \A j \in Job : job[j].verdict = "success" => comment # None /\ comment.push >= j

\* "The workflow's job is to produce evidence": what a job wrote before it
\* failed, was cancelled or ran out of time is uploaded before it ends.
EvidenceIsKept ==
    \A j \in Job :
        job[j].stage = "ended" /\ job[j].selected # {} => disk[j] = EmptyDisk /\ j \in uploaded

\* A report that recommends promotion goes with the candidate it is about,
\* however the job ends.
RecommendationHasCandidate == \A j \in Job : disk[j].promotes \subseteq disk[j].candidates

\* A process that is over leaves no run open on the server, whether it succeeded
\* or raised, unless it was killed or the server failed it.
RunsAreClosed ==
    \A j \in Job, c \in Config :
        runs[j][c] = "open" => main[j].config = c /\ main[j].at # "exited"

\* A job ends, even if the tracking server never answers.
JobEnds == \A j \in Job : job[j].stage = "queued" ~> job[j].stage = "ended"
=============================================================================
