------------------------------- MODULE Service -------------------------------
(***************************************************************************)
(* The retrain pipeline and the service it publishes to, over one registry *)
(* tree (docker-compose.yaml mounts ./registry into the container): the    *)
(* processes of Retrain write the directory of one model while the service *)
(* of RegistryLoader starts, serves, dies and is restarted.                *)
(*                                                                         *)
(* Nothing is shared but the files.  The loader's tree is a function of    *)
(* the writers' files, and what the loader's own specification assumes of  *)
(* its environment is here a property of the writers: ImplementsLoader.    *)
(***************************************************************************)
EXTENDS Retrain

CONSTANTS ModelId,      \* the model
          Undecodable, NoSha, None,
          MaxRollbacks  \* bound: promotions reverted in a behaviour

VARIABLES mounted, strict, phase, scan, found, todo, entry, stage, opened, emulator,
          models, failures,
          origin, steady, \* the loader's history variables
          latest,         \* history: the version last served as the latest
          rollbacks

loaderVars == <<mounted, strict, phase, scan, found, todo, entry, stage, opened, emulator, models, failures>>
history == <<origin, steady, latest, rollbacks>>
serviceVars == <<vars, loaderVars, history>>

Dir == {ModelId} \X Version
Artifacts == 0 .. MaxStarts

\* retrain.py has saved and probed the emulator it registers: it has one output,
\* accepts the midpoint in double precision, and its variance is recorded.
Trained(c) ==
    [loads |-> TRUE, evals |-> TRUE, dtypes |-> {"float64", "float32"}, inputs |-> 1,
     reshapes |-> TRUE, width |-> 1, uq |-> TRUE]

\* A complete manifest.json as load_manifest() reads it.
ManifestOf(v, c) ==
    [id |-> ModelId, version |-> v, sha |-> c, uq |-> TRUE, inputs |-> 1, compiles |-> TRUE]

\* A file that is opened but not flushed is no JSON.
ManifestFile(m) == IF m \in {NoManifest, Torn} THEN m ELSE ManifestOf(m.version, m.sha)

\* What the loader finds in the directories the writers share.
Tree ==
    [d \in Dir |-> [exists |-> d[2] \in dirs,
                    manifest |-> ManifestFile(manifest[d[2]]),
                    artifact |-> artifact[d[2]]]]

\* All that the directory of a version goes through: absent, made, holding the
\* artifact, its manifest opened, and complete.
Stages(d) ==
    LET Files(present, m, c) == [exists |-> present, manifest |-> m, artifact |-> c]
        Manifests(c) == {NoManifest, Torn, ManifestOf(d[2], c)}
    IN  {Files(FALSE, NoManifest, NoFile), Files(TRUE, NoManifest, NoFile)}
        \cup UNION {{Files(TRUE, m, c) : m \in Manifests(c)} : c \in Artifacts}

Loader == INSTANCE RegistryLoader
          WITH Id <- {ModelId}, Content <- Artifacts,
               Emulator <- [c \in Artifacts |-> Trained(c)],
               Contents <- [d \in Dir |-> Stages(d)],
               Malformed <- Torn, disk <- Tree, manifest <- opened

\* The files are told apart from the marks that stand for their absence.
ASSUME ServiceAssumption ==
    /\ {NoManifest, Torn, Undecodable} \cap Loader!Manifest = {}
    /\ Undecodable \notin {NoManifest, Torn}
    /\ NoSha \notin Artifacts
    /\ None \notin Dir /\ None \notin Version /\ None \notin Loader!Dtype

ServiceInit ==
    /\ Init
    /\ mounted = TRUE
    /\ strict \in BOOLEAN
    /\ phase = "down"
    /\ scan = {} /\ found = {} /\ todo = {}
    /\ entry = None /\ stage = "manifest" /\ opened = NoManifest /\ emulator = NoFile
    /\ models = {} /\ failures = {}
    /\ origin = [d \in Dir |-> Tree[d].artifact]
    /\ steady = {}
    /\ latest = None
    /\ rollbacks = 0
-----------------------------------------------------------------------------
\* The history the loader's specification keeps of its tree, whoever changes it.
RecordTree ==
    /\ origin' = [d \in Dir |-> IF origin[d] = NoFile THEN Tree'[d].artifact ELSE origin[d]]
    /\ steady' = {d \in steady : Tree'[d] = Tree[d]}

\* The service sees the writers' files and nothing else of them.
Unnoticed == RecordTree /\ UNCHANGED <<loaderVars, latest, rollbacks>>

WriterStep == Next /\ Unnoticed

\* A step of the service.
LoaderStep ==
    /\ UNCHANGED vars
    /\ \/ Loader!Startup
       \/ Loader!Restart
    /\ latest' = IF phase # "up" /\ phase' = "up" THEN Loader!LatestVersion(ModelId) ELSE latest
    /\ UNCHANGED rollbacks

ServiceNext == WriterStep \/ LoaderStep

ServiceSpec == ServiceInit /\ [][ServiceNext]_serviceVars

\* The operating system runs the processes, and the restart policy brings a dead
\* service back.  Nobody has to redeploy one that is up.
FairServiceSpec ==
    /\ ServiceSpec
    /\ \A r \in Run : WF_serviceVars((Read(r) \/ Write(r)) /\ Unnoticed)
    /\ WF_serviceVars(LoaderStep /\ phase # "up")

\* A person reverts the promotion of a version over an older one: its
\* directory is gone.
Rollback(v) ==
    /\ rollbacks < MaxRollbacks
    /\ v \in Published
    /\ \E u \in Published : VersionLess(u, v)
    /\ \A r \in Run : pc[r] \in Ended
    /\ rollbacks' = rollbacks + 1
    /\ dirs' = dirs \ {v}
    /\ artifact' = [artifact EXCEPT ![v] = NoFile]
    /\ manifest' = [manifest EXCEPT ![v] = NoManifest]
    /\ UNCHANGED <<saved, pc, config, seen, incumbent, candidate, score, model, sha, started, deaths>>
    /\ RecordTree
    /\ UNCHANGED <<loaderVars, latest>>

\* The same system with the rollbacks the README describes.
RollbackSpec ==
    ServiceInit /\ [][ServiceNext \/ \E v \in Version : Rollback(v)]_serviceVars

\* What readers see is a registry from which versions are withdrawn: still each
\* appears complete, 1.0.0 or the next version of one that is there and that it
\* beats, and none disappears, or changes while it is there, in any other way.
RefinesWithRollbacks == Registry!WSpec
-----------------------------------------------------------------------------
\* Writers and loader in every combination of their places.
ServiceTypeOK ==
    /\ TypeOK
    /\ Loader!TypeOK
    /\ latest \in Version \cup {None}
    /\ rollbacks \in Nat

\* Any number of retrains, overlapping and killed anywhere, are an environment
\* RegistryLoader allows for: so whatever is proved of the loader there (what is
\* served is verified, accounted for, and not lost) is true of it here.
ImplementsLoader == Loader!Spec

\* What the service holds in memory is what the registry says of that version
\* now, however long ago it was loaded.
ServedIsRegistered ==
    \A m \in models :
        LET v == m.key[2] IN
        /\ v \in Published
        /\ m.manifest = ManifestFile(manifest[v])
        /\ m.emulator = artifact[v]

\* Whatever retrains do, a service that reads their files only fails to start if
\* it is strict and meets a manifest somebody is writing, or was killed writing:
\* they never make it raise what load_registry() does not catch, nothing they
\* finish is refused, and a lenient service starts beside them every time.
CrashNeedsUnfinishedWrite ==
    [][phase # "crashed" /\ phase' = "crashed"
          => /\ strict
             /\ \E v \in Version :
                   /\ manifest[v] = Torn
                   /\ deaths > 0 \/ \E r \in Run : pc[r] = "writing" /\ candidate[r] = v
      ]_serviceVars

\* A client that does not pin a version never gets an older one after a
\* redeployment than before it, whatever was being published or was left half
\* written when the service started.
NeverBackwards ==
    [][latest # None /\ phase # "up" /\ phase' = "up"
          => latest' # None /\ ~ VersionLess(latest', latest)]_serviceVars

\* The latest version a service resolves is the best of all that were complete
\* when it started, as long as every config bumps the same part.
ServedIsBest ==
    phase = "up" =>
        \A d \in steady :
            /\ latest # None
            /\ ~ Better(manifest[d[2]].score, manifest[latest].score)

\* A promotion reaches clients: if the service is redeployed again and again, a
\* complete version is eventually served, unless a strict service meets what a
\* killed retrain has left.
PromotionReachesClients ==
    ([]<>(phase = "down") /\ [](strict => deaths = 0))
        => \A v \in Version :
              v \in Published ~> phase = "up" /\ <<ModelId, v>> \in Loader!Keys

\* README.md: "A <model_id>/<version>/ directory is immutable": what a version
\* names is what it named when it first appeared.
VersionsNeverChange == \A v \in Published : artifact[v] = origin[<<ModelId, v>>]
=============================================================================
