------------------------------- MODULE Retrain -------------------------------
(***************************************************************************)
(* training/retrain.py: any number of retrain processes, each free to be   *)
(* killed between any two of its file operations, sharing the registry     *)
(* directory registry/<model_id>/ of ONE model.                            *)
(*                                                                         *)
(* The disk is four variables indexed by version: which version            *)
(* directories exist, and for each the file AutoEmulate.save leaves, the   *)
(* model.joblib it is renamed to and the manifest.json.  A trained model   *)
(* is the number of the run that trained it, its SHA-256 that same number. *)
(***************************************************************************)
EXTENDS Semver

CONSTANTS Run,          \* retrain processes
          Version,      \* versions within the model's bound
          Score,        \* values of the promotion metric a training can reach
          Metric,       \* promotion.metric
          Margin,       \* promotion.min_improvement
          BumpChoices,  \* promotion.version_bump of the configs in use
          DryRunChoices,\* values of --dry-run in use
          NaN,          \* a score that is not a number
          Missing,      \* the manifest does not record the promotion metric
          NoManifest,   \* no manifest.json / no incumbent
          Torn,         \* a manifest.json that is opened but not yet flushed
          MaxStarts,    \* bound: processes started in a behaviour
          MaxDeaths     \* bound: processes killed in a behaviour

ASSUME VersionAssumption == Version \subseteq Semver /\ FirstVersion \in Version
ASSUME ScoreAssumption == Score \subseteq Int /\ Margin \in Int
ASSUME ChoiceAssumption == BumpChoices \subseteq Bump /\ DryRunChoices \subseteq BOOLEAN
ASSUME BoundAssumption == MaxStarts \in Nat /\ MaxDeaths \in Nat

NoFile == -1
Model == Nat
Content == Model \cup {NoFile}
TrainedScore == Score \cup {NaN}
Manifest == [version : Version, score : TrainedScore \cup {Missing}, sha : Content]
\* What a reader gets of a published version.
ReaderEntry == [score : TrainedScore \cup {Missing}, model : Content]

ASSUME MarkAssumption ==
    /\ NaN \notin Int /\ Missing \notin Int /\ NaN # Missing
    /\ NoManifest \notin Manifest /\ Torn \notin Manifest /\ NoManifest # Torn
    /\ NoManifest \notin ReaderEntry

VARIABLES dirs,        \* version directories that exist
          saved,       \* <name>.joblib as AutoEmulate.save wrote it
          artifact,    \* model.joblib
          manifest,    \* manifest.json
          pc,          \* where each process is
          bump, dry,   \* its configuration
          seen,        \* versions its directory listing certainly contains
          incumbent,   \* the manifest it loaded
          candidate,   \* the version it would write
          score, model,\* what it trained
          sha,         \* the checksum it computed
          started, deaths

disk == <<dirs, saved, artifact, manifest>>
config == <<bump, dry>>
vars == <<disk, pc, config, seen, incumbent, candidate, score, model, sha, started, deaths>>

Ended == {"idle", "published", "rejected", "dry", "refused", "failed", "dead"}
InDirectory == {"saving", "renaming", "hashing", "describing", "opening", "writing"}
Active == {"listing", "loading", "training", "checking", "making"} \cup InDirectory

\* A manifest.json that load_manifest accepts.
Published == {v \in Version : manifest[v] \in Manifest}
\* A manifest.json that is_file() sees, whatever it holds.
Listed == {v \in dirs : manifest[v] # NoManifest}

Goto(r, label) == pc' = [pc EXCEPT ![r] = label]

\* The committed registries hold 1.0.0 or nothing yet.  Model 0 is nobody's run.
Init ==
    /\ \/ /\ dirs = {}
          /\ manifest = [v \in Version |-> NoManifest]
          /\ artifact = [v \in Version |-> NoFile]
       \/ /\ dirs = {FirstVersion}
          /\ \E s \in TrainedScore \cup {Missing} :
               manifest = [v \in Version |->
                             IF v = FirstVersion
                             THEN [version |-> v, score |-> s, sha |-> 0]
                             ELSE NoManifest]
          /\ artifact = [v \in Version |-> IF v = FirstVersion THEN 0 ELSE NoFile]
    /\ saved = [v \in Version |-> NoFile]
    /\ pc = [r \in Run |-> "idle"]
    /\ bump \in [Run -> BumpChoices]
    /\ dry \in [Run -> DryRunChoices]
    /\ seen = [r \in Run |-> {}]
    /\ incumbent = [r \in Run |-> NoManifest]
    /\ candidate = [r \in Run |-> FirstVersion]
    /\ score = [r \in Run |-> NaN]
    /\ model = [r \in Run |-> 0]
    /\ sha = [r \in Run |-> 0]
    /\ started = 0
    /\ deaths = 0
-----------------------------------------------------------------------------
(* A process starts: it reads its config and dataset and begins to list the *)
(* model's directory.  Directory entries are seen one by one, so the        *)
(* listing contains what was there when it began and may contain what is    *)
(* published while it runs.                                                 *)
Start(r) ==
    /\ pc[r] \in Ended
    /\ started < MaxStarts
    /\ started' = started + 1
    /\ \E b \in BumpChoices : bump' = [bump EXCEPT ![r] = b]
    /\ \E d \in DryRunChoices : dry' = [dry EXCEPT ![r] = d]
    /\ seen' = [seen EXCEPT ![r] = Listed]
    /\ incumbent' = [incumbent EXCEPT ![r] = NoManifest]
    /\ model' = [model EXCEPT ![r] = started + 1]
    /\ Goto(r, "listing")
    /\ UNCHANGED <<disk, candidate, score, sha, deaths>>

\* incumbent(): sort the listing and keep its last version, if it has one.
ListVersions(r) ==
    /\ pc[r] = "listing"
    /\ \E listing \in SUBSET Listed :
          /\ seen[r] \subseteq listing
          /\ \/ /\ listing = {}
                /\ candidate' = [candidate EXCEPT ![r] = FirstVersion]
                /\ Goto(r, "training")
             \/ \E v \in listing :
                  /\ IsHighest(v, listing)
                  /\ candidate' = [candidate EXCEPT ![r] = v]
                  /\ Goto(r, "loading")
    /\ seen' = [seen EXCEPT ![r] = {}]
    /\ UNCHANGED <<disk, config, incumbent, score, model, sha, started, deaths>>

\* load_manifest() of that version, and next_version() of what it says.  A
\* torn manifest raises RegistryError.  Until here candidate[r] is the version
\* being loaded.
LoadIncumbent(r) ==
    /\ pc[r] = "loading"
    /\ LET found == manifest[candidate[r]] IN
       \/ /\ found \notin Manifest
          /\ Goto(r, "failed")
          /\ UNCHANGED <<incumbent, candidate>>
       \/ /\ found \in Manifest
          /\ NextVersion(found.version, bump[r]) \in Version
          /\ incumbent' = [incumbent EXCEPT ![r] = found]
          /\ candidate' = [candidate EXCEPT ![r] = NextVersion(found.version, bump[r])]
          /\ Goto(r, "training")
    /\ UNCHANGED <<disk, config, seen, score, model, sha, started, deaths>>

\* Mutant: a loss is forgotten.
LowerIsBetterWithoutCrps == {"rmse", "mse", "mae", "msll"}

LowerIsBetter == {"rmse", "mse", "mae", "msll", "crps"}
HigherIsBetter == Metric \notin LowerIsBetter

\* The comparison of floats with the incumbent's score; NaN compares false.
Promotes(c, i) ==
    /\ c # NaN /\ i # NaN
    /\ IF HigherIsBetter THEN c >= i + Margin ELSE c <= i - Margin

\* Mutant: "not worse" instead of "better", which a NaN satisfies.
VerdictUnlessWorse(r, s) ==
    LET i == incumbent[r].score IN
    IF incumbent[r] = NoManifest THEN "checking"
    ELSE IF i = Missing THEN "failed"
    ELSE IF s = NaN \/ i = NaN \/ Promotes(s, i) THEN "checking" ELSE "rejected"

\* What main() decides of score s.  An incumbent that lacks the metric leaves
\* None, and None + margin raises TypeError; without incumbent nothing is asked
\* of the score.
Verdict(r, s) ==
    LET first == incumbent[r] = NoManifest IN
    CASE ~ first /\ incumbent[r].score = Missing -> "failed"
      [] first \/ (incumbent[r].score # Missing /\ Promotes(s, incumbent[r].score))
           -> IF dry[r] THEN "dry" ELSE "checking"
      [] OTHER -> "rejected"

\* Mutant: a metric the comparison did not evaluate is not noticed.
EvaluateUnknownMetric(r) ==
    /\ pc[r] = "training"
    /\ \E s \in TrainedScore \cup {Missing} :
          /\ score' = [score EXCEPT ![r] = s]
          /\ Goto(r, Verdict(r, s))
    /\ UNCHANGED <<disk, config, seen, incumbent, candidate, model, sha, started, deaths>>

\* run_comparison(), the metric, the decision and the probe.
Evaluate(r) ==
    /\ pc[r] = "training"
    /\ \E s \in TrainedScore :
          /\ score' = [score EXCEPT ![r] = s]
          /\ Goto(r, Verdict(r, s))
    /\ UNCHANGED <<disk, config, seen, incumbent, candidate, model, sha, started, deaths>>
-----------------------------------------------------------------------------
(* The write: eight file operations, none of them undone when a later one   *)
(* fails.                                                                   *)

\* version_dir.exists(): RegistryError, or go on to create it.
CheckAbsent(r) ==
    /\ pc[r] = "checking"
    /\ Goto(r, IF candidate[r] \in dirs THEN "refused" ELSE "making")
    /\ UNCHANGED <<disk, config, seen, incumbent, candidate, score, model, sha, started, deaths>>

\* Mutant: mkdir(parents=True, exist_ok=True).
MakeVersionDirExistOk(r) ==
    /\ pc[r] = "making"
    /\ dirs' = dirs \cup {candidate[r]}
    /\ Goto(r, "saving")
    /\ UNCHANGED <<saved, artifact, manifest, config, seen, incumbent, candidate, score,
                   model, sha, started, deaths>>

\* version_dir.mkdir(parents=True), without exist_ok: the directory may have
\* appeared since the check, and then FileExistsError is raised.
MakeVersionDir(r) ==
    /\ pc[r] = "making"
    /\ \/ /\ candidate[r] \in dirs
          /\ Goto(r, "refused")
          /\ UNCHANGED dirs
       \/ /\ candidate[r] \notin dirs
          /\ dirs' = dirs \cup {candidate[r]}
          /\ Goto(r, "saving")
    /\ UNCHANGED <<saved, artifact, manifest, config, seen, incumbent, candidate, score,
                   model, sha, started, deaths>>

\* autoemulate.save(result, path=version_dir): a timestamp-free name of its own.
SaveModel(r) ==
    /\ pc[r] = "saving"
    /\ saved' = [saved EXCEPT ![candidate[r]] = model[r]]
    /\ Goto(r, "renaming")
    /\ UNCHANGED <<dirs, artifact, manifest, config, seen, incumbent, candidate, score,
                   model, sha, started, deaths>>

\* Path(f"{saved}.joblib").replace(artifact_path)
RenameArtifact(r) ==
    /\ pc[r] = "renaming"
    /\ artifact' = [artifact EXCEPT ![candidate[r]] = saved[candidate[r]]]
    /\ saved' = [saved EXCEPT ![candidate[r]] = NoFile]
    /\ Goto(r, "hashing")
    /\ UNCHANGED <<dirs, manifest, config, seen, incumbent, candidate, score, model, sha,
                   started, deaths>>

\* sha256_file(artifact_path), read back from the disk, into the Manifest.
HashArtifact(r) ==
    /\ pc[r] = "hashing"
    /\ sha' = [sha EXCEPT ![r] = artifact[candidate[r]]]
    /\ Goto(r, "describing")
    /\ UNCHANGED <<disk, config, seen, incumbent, candidate, score, model, started, deaths>>

\* Mutant: the directory is looked up instead of the file in it.
CheckVersionDirAbsent(r) ==
    /\ pc[r] = "describing"
    /\ Goto(r, IF candidate[r] \in dirs THEN "refused" ELSE "opening")
    /\ UNCHANGED <<disk, config, seen, incumbent, candidate, score, model, sha, started, deaths>>

\* write_manifest() refuses to overwrite: path.exists().
CheckManifestAbsent(r) ==
    /\ pc[r] = "describing"
    /\ Goto(r, IF manifest[candidate[r]] # NoManifest THEN "refused" ELSE "opening")
    /\ UNCHANGED <<disk, config, seen, incumbent, candidate, score, model, sha, started, deaths>>

\* path.write_text(): open(path, "w") leaves an empty file ...
OpenManifest(r) ==
    /\ pc[r] = "opening"
    /\ manifest' = [manifest EXCEPT ![candidate[r]] = Torn]
    /\ Goto(r, "writing")
    /\ UNCHANGED <<dirs, saved, artifact, config, seen, incumbent, candidate, score, model,
                   sha, started, deaths>>

\* Mutant: the buffered text is never flushed.
NeverFlushManifest(r) ==
    /\ pc[r] = "writing"
    /\ Goto(r, "published")
    /\ UNCHANGED <<disk, config, seen, incumbent, candidate, score, model, sha, started, deaths>>

\* ... until the buffered text reaches it.
FlushManifest(r) ==
    /\ pc[r] = "writing"
    /\ manifest' = [manifest EXCEPT ![candidate[r]] =
                      [version |-> candidate[r], score |-> score[r], sha |-> sha[r]]]
    /\ Goto(r, "published")
    /\ UNCHANGED <<dirs, saved, artifact, config, seen, incumbent, candidate, score, model,
                   sha, started, deaths>>

\* The process is killed, or a call it makes raises, before its next step.
Die(r) ==
    /\ pc[r] \in Active
    /\ deaths < MaxDeaths
    /\ deaths' = deaths + 1
    /\ Goto(r, "dead")
    /\ UNCHANGED <<disk, config, seen, incumbent, candidate, score, model, sha, started>>

Read(r) == ListVersions(r) \/ LoadIncumbent(r) \/ Evaluate(r)

Write(r) ==
    \/ CheckAbsent(r) \/ MakeVersionDir(r) \/ SaveModel(r) \/ RenameArtifact(r)
    \/ HashArtifact(r) \/ CheckManifestAbsent(r) \/ OpenManifest(r) \/ FlushManifest(r)

Next == \E r \in Run : Start(r) \/ Read(r) \/ Write(r) \/ Die(r)

Spec == Init /\ [][Next]_vars
-----------------------------------------------------------------------------
\* The registry directory and every process of main(): in particular a score
\* that is written is one the comparison evaluated.
TypeOK ==
    /\ dirs \subseteq Version
    /\ saved \in [Version -> Content]
    /\ artifact \in [Version -> Content]
    /\ manifest \in [Version -> Manifest \cup {NoManifest, Torn}]
    /\ pc \in [Run -> Ended \cup Active]
    /\ bump \in [Run -> BumpChoices]
    /\ dry \in [Run -> DryRunChoices]
    /\ seen \in [Run -> SUBSET Version]
    /\ incumbent \in [Run -> Manifest \cup {NoManifest}]
    /\ candidate \in [Run -> Version]
    /\ score \in [Run -> TrainedScore]
    /\ model \in [Run -> Model]
    /\ sha \in [Run -> Content]
    /\ started \in Nat
    /\ deaths \in Nat

\* A complete manifest.json vouches for the file beside it: retrain.py writes
\* the manifest last, with the checksum of the artifact already in place, and
\* nobody touches either again, whoever else retrains and whoever is killed.
PublishedIntact ==
    \A v \in Published :
        /\ v \in dirs
        /\ manifest[v].version = v
        /\ artifact[v] # NoFile
        /\ artifact[v] = manifest[v].sha

\* mkdir without exist_ok is the only thing that keeps two runs that chose the
\* same candidate apart: two of them never write into one directory.
OneWriterPerVersion ==
    \A r, q \in Run :
        pc[r] \in InDirectory /\ pc[q] \in InDirectory /\ candidate[r] = candidate[q]
            => r = q

\* What a reader finds under a version with a complete manifest.
ReaderView ==
    [v \in Version |->
        IF manifest[v] \in Manifest
        THEN [score |-> manifest[v].score, model |-> artifact[v]]
        ELSE NoManifest]

\* Errors and losses: what the metrics mean, whatever the code makes of them.
SmallerIsBetter == Metric \in {"rmse", "mse", "mae", "msll", "crps"}

\* README: the champion is compared against the incumbent with a margin.
Improves(e, f) ==
    /\ {e.score, f.score} \subseteq Int
    /\ IF SmallerIsBetter
       THEN f.score - e.score >= Margin
       ELSE e.score - f.score >= Margin

Registry == INSTANCE VersionedRegistry
            WITH Entry <- ReaderEntry, Unpublished <- NoManifest,
                 Beats <- Improves, published <- ReaderView

\* The directory of files, with all its half-written states, is a registry
\* whose versions appear at once, never change or disappear, and descend from
\* 1.0.0 by steps that each beat the version they were compared with.
RefinesRegistry == Registry!RSpec

Better(c, i) ==
    /\ {c, i} \subseteq Int
    /\ IF SmallerIsBetter THEN c < i ELSE c > i

\* What the service resolves as latest, the highest version, is the best one
\* ever published: so it is when runs follow one another or all bump the same
\* part, wherever they are killed, as long as the margin is not negative.
LatestIsBest ==
    \A u, v \in Published :
        IsHighest(v, Published) => ~ Better(manifest[u].score, manifest[v].score)

\* When every config bumps the same part, a run never publishes over an
\* incumbent that was superseded while it trained: its candidate directory is
\* then taken, and the stale decision cannot be written.
PromotedOverLatest ==
    [][\A r \in Run :
          pc[r] = "writing" /\ pc'[r] = "published" /\ incumbent[r] # NoManifest
              => IsHighest(incumbent[r].version, Published)]_vars

\* A run is refused only because another one writes, or has written, that very
\* version: only a process killed in its directory can lose a version number.
RefusalIsJustified ==
    \A r \in Run :
        pc[r] = "refused" =>
            \/ candidate[r] \in Published
            \/ \E q \in Run : pc[q] \in InDirectory /\ candidate[q] = candidate[r]
            \/ deaths > 0

\* A run that decided to promote is followed by a version it was entitled to,
\* its own or its competitor's, that is complete, unless somebody was killed.
PromotionCompletes ==
    \A v \in Version :
        (\E r \in Run : pc[r] = "checking" /\ candidate[r] = v)
            ~> v \in Published \/ deaths > 0

\* README.md: "On a genuine improvement the same run writes
\* registry/<id>/1.1.0/": a refused run finds its version registered.
ImprovementIsWritten ==
    \A r \in Run : pc[r] = "refused" => candidate[r] \in Listed

-----------------------------------------------------------------------------
(* The inductive invariant the safety properties follow from.               *)

\* A manifest is only ever found in an existing directory.
ManifestsInDirs == \A v \in Version : manifest[v] # NoManifest => v \in dirs

\* What a run that is inside its directory knows of its files.
OwnFiles ==
    \A r \in Run :
        /\ pc[r] \in InDirectory => candidate[r] \in dirs
        /\ pc[r] \in InDirectory \ {"writing"} => manifest[candidate[r]] = NoManifest
        /\ pc[r] = "writing" => manifest[candidate[r]] = Torn
        /\ pc[r] = "renaming" => saved[candidate[r]] # NoFile
        /\ pc[r] \in {"hashing", "describing", "opening", "writing"} =>
              artifact[candidate[r]] # NoFile
        /\ pc[r] \in {"describing", "opening", "writing"} => artifact[candidate[r]] = sha[r]

\* The incumbent a run at work holds in memory is still what the disk says of it,
\* and before a run has loaded one it holds none.
IncumbentIsPublished ==
    \A r \in Run :
        /\ pc[r] \in {"listing", "loading"} => incumbent[r] = NoManifest
        /\ pc[r] \in Active /\ incumbent[r] # NoManifest =>
              manifest[incumbent[r].version] = incumbent[r]

\* Where a candidate comes from, and that a run that writes was promoted.
CandidateDescends ==
    \A r \in Run :
        /\ pc[r] \in {"training", "checking", "making"} \cup InDirectory =>
              candidate[r] = IF incumbent[r] = NoManifest THEN FirstVersion
                             ELSE NextVersion(incumbent[r].version, bump[r])
        /\ pc[r] \in {"checking", "making"} \cup InDirectory =>
              \/ incumbent[r] = NoManifest
              \/ incumbent[r].score # Missing /\ Promotes(score[r], incumbent[r].score)

\* Every published version descends from 1.0.0, and so comes after it.
Rooted ==
    /\ Published # {} => FirstVersion \in Published
    /\ \A v \in Published : ~ VersionLess(v, FirstVersion)

\* What main() knows, between any two of its steps, of the directory it shares.
IInv == /\ TypeOK
        /\ ManifestsInDirs
        /\ OneWriterPerVersion
        /\ OwnFiles
        /\ PublishedIntact
        /\ IncumbentIsPublished
        /\ CandidateDescends
        /\ Rooted
=============================================================================
