--------------------------- MODULE RegistryLoader ---------------------------
(***************************************************************************)
(* src/api/registry_loader.py and the startup in src/api/main.py: the      *)
(* service scans the registry tree, loads its entries one after the other, *)
(* compiles their row models and serves, or dies and is restarted, while a *)
(* deployment or a retrain changes the same tree.                          *)
(*                                                                         *)
(* A version directory is a record of its two files.  A model.joblib is a  *)
(* member of Content, its SHA-256 that same member; what deserializing and *)
(* probing it shows is the constant function Emulator.                     *)
(***************************************************************************)
EXTENDS Semver

CONSTANTS Id,           \* model ids
          Version,      \* versions
          Content,      \* artifact files that differ
          Emulator,     \* what is in an artifact file
          Contents,     \* what a version directory may hold
          NoManifest, Malformed, Undecodable, \* a manifest.json that is no manifest
          NoFile, NoSha, None

Dir == Id \X Version

Manifest == [id : Id, version : Version, sha : Content \cup {NoSha}, uq : BOOLEAN,
             inputs : Nat, compiles : BOOLEAN]

Dtype == {"float64", "float32"}
EmulatorRecord == [loads : BOOLEAN, evals : BOOLEAN, dtypes : SUBSET Dtype, inputs : Nat,
                   reshapes : BOOLEAN, width : Nat, uq : BOOLEAN]

Files == [exists : BOOLEAN, manifest : Manifest \cup {NoManifest, Malformed, Undecodable},
          artifact : Content \cup {NoFile}]

Absent == [exists |-> FALSE, manifest |-> NoManifest, artifact |-> NoFile]

ASSUME EmulatorAssumption == Emulator \in [Content -> EmulatorRecord]
ASSUME FilesAssumption ==
    /\ Contents \in [Dir -> SUBSET Files]
    /\ {NoManifest, Malformed, Undecodable} \cap Manifest = {}
    /\ {NoFile, NoSha} \cap Content = {}
    /\ None \notin Dir
ASSUME VersionAssumption == Version \subseteq Semver

VARIABLES disk,      \* the registry tree
          mounted,   \* its root exists
          strict,    \* REGISTRY_STRICT
          phase,     \* where the service is in its life
          scan,      \* directories _discover_version_dirs has yet to visit
          found,     \* directories it found
          todo,      \* found directories yet to be loaded
          entry,     \* the directory load_entry is at, or None
          stage,     \* where in load_entry
          manifest,  \* the manifest it read
          emulator,  \* the artifact it deserialized
          models,    \* ModelRegistry.models
          failures,  \* ModelRegistry.failures
          origin,    \* history: the artifact a version names, once it names one
          steady     \* history: valid when the service started, and untouched since

loading == <<entry, stage, manifest, emulator>>
registry == <<models, failures>>
tree == <<disk, mounted, origin>>
vars == <<tree, strict, phase, scan, found, todo, loading, registry, steady>>

Loaded == [key : Dir, manifest : Manifest, emulator : Content, dtype : Dtype]

\* A manifest that vouches for the file beside it.
Vouched(files) ==
    IF files.manifest \in Manifest /\ files.manifest.sha = files.artifact
    THEN files.artifact ELSE NoFile

Init ==
    /\ disk \in [Dir -> UNION {Contents[d] : d \in Dir}]
    /\ \A d \in Dir : disk[d] \in Contents[d]
    /\ origin = [d \in Dir |-> Vouched(disk[d])]
    /\ mounted \in BOOLEAN
    /\ strict \in BOOLEAN
    /\ phase = "down"
    /\ scan = {} /\ found = {} /\ todo = {}
    /\ entry = None /\ stage = "manifest" /\ manifest = NoManifest /\ emulator = NoFile
    /\ models = {} /\ failures = {}
    /\ steady = {}
-----------------------------------------------------------------------------
\* The first dtype, double before single, that the midpoint prediction accepts.
Accepts(e, m, dtype) == e.inputs = m.inputs /\ dtype \in e.dtypes

Negotiated(e, m) ==
    IF Accepts(e, m, "float64") THEN "float64"
    ELSE IF Accepts(e, m, "float32") THEN "float32" ELSE None

\* Mutant: an emulator that refuses the midpoint in every dtype passes.
ProbeOkInNoDtype(e, m) == e.reshapes /\ e.width = 1 /\ e.uq = m.uq

ProbeOk(e, m) == Negotiated(e, m) # None /\ e.reshapes /\ e.width = 1 /\ e.uq = m.uq

\* README, the five checks of an entry: what a directory that passes them holds.
Valid(d, files) ==
    LET m == files.manifest IN
    /\ files.exists
    /\ m \in Manifest /\ <<m.id, m.version>> = d
    /\ files.artifact \in Content /\ m.sha \in {NoSha, files.artifact}
    /\ Emulator[files.artifact].loads /\ Emulator[files.artifact].evals
    /\ ProbeOk(Emulator[files.artifact], m)

HasVersion(i) == \E v \in Version : disk[<<i, v>>].exists

\* lifespan() starts: a fresh ModelRegistry, and a tree to walk if there is one.
\* Its model directories are listed first, their versions when it gets to them.
Boot ==
    /\ phase = "down"
    /\ phase' = IF mounted THEN "discovering" ELSE "crashed"
    /\ scan' = {d \in Dir : HasVersion(d[1])}
    /\ found' = {} /\ models' = {} /\ failures' = {}
    /\ steady' = {d \in Dir : Valid(d, disk[d])}
    /\ UNCHANGED <<tree, strict, todo, loading>>

\* Mutant: a directory counts whether or not it holds a manifest.json.
DiscoverBare(d) ==
    /\ phase = "discovering"
    /\ d \in scan
    /\ scan' = scan \ {d}
    /\ found' = IF disk[d].exists THEN found \cup {d} ELSE found
    /\ UNCHANGED <<tree, strict, phase, todo, loading, registry, steady>>

\* _discover_version_dirs visits a directory; without manifest.json it is skipped.
Discover(d) ==
    /\ phase = "discovering"
    /\ d \in scan
    /\ scan' = scan \ {d}
    /\ found' = IF disk[d].exists /\ disk[d].manifest # NoManifest THEN found \cup {d} ELSE found
    /\ UNCHANGED <<tree, strict, phase, todo, loading, registry, steady>>

\* iterdir() of a model directory that was listed and is gone.
ModelWithdrawn(i) ==
    /\ phase = "discovering"
    /\ Version # {} /\ {i} \X Version \subseteq scan
    /\ ~ HasVersion(i)
    /\ phase' = "crashed"
    /\ UNCHANGED <<tree, strict, scan, found, todo, loading, registry, steady>>

Discovered ==
    /\ phase = "discovering"
    /\ scan = {}
    /\ phase' = "loading"
    /\ todo' = found
    /\ UNCHANGED <<tree, strict, scan, found, loading, registry, steady>>

NextEntry == entry' = None /\ stage' = "manifest" /\ manifest' = NoManifest /\ emulator' = NoFile

\* Mutant: the entry is skipped without a trace on /health.
ForgetRegistryError(d) ==
    /\ NextEntry
    /\ todo' = todo \ {d}
    /\ phase' = IF strict THEN "crashed" ELSE phase
    /\ failures' = failures
    /\ UNCHANGED models

\* Mutant: break where continue is meant.
StopAtRegistryError(d) ==
    /\ NextEntry
    /\ todo' = {}
    /\ phase' = IF strict THEN "crashed" ELSE phase
    /\ failures' = IF strict THEN failures ELSE failures \cup {d}
    /\ UNCHANGED models

\* load_registry() catches a RegistryError: strict re-raises, else quarantine.
RegistryError(d) ==
    /\ NextEntry
    /\ todo' = todo \ {d}
    /\ phase' = IF strict THEN "crashed" ELSE phase
    /\ failures' = IF strict THEN failures ELSE failures \cup {d}
    /\ UNCHANGED models

\* Anything else that load_entry() raises ends the startup.
OtherError ==
    /\ NextEntry
    /\ phase' = "crashed"
    /\ UNCHANGED <<todo, registry>>

Proceed(next) ==
    /\ stage' = next
    /\ UNCHANGED <<phase, todo, registry>>

\* load_manifest(), and its names against the directory's.  json and schema
\* errors become RegistryError, and so does a missing file; one that vanishes
\* after is_file(), or that is not UTF-8, raises something else.
ReadManifest(d) ==
    /\ phase = "loading" /\ entry = None
    /\ d \in todo
    /\ LET m == disk[d].manifest IN
       \/ m \in {NoManifest, Undecodable} /\ OtherError
       \/ m \in {NoManifest, Malformed} /\ RegistryError(d)
       \/ m \in Manifest /\ <<m.id, m.version>> # d /\ RegistryError(d)
       \/ /\ m \in Manifest /\ <<m.id, m.version>> = d
          /\ entry' = d /\ manifest' = m
          /\ Proceed("artifact")
          /\ UNCHANGED emulator
    /\ UNCHANGED <<tree, strict, scan, found, steady>>

Working(s) == phase = "loading" /\ entry # None /\ stage = s

\* artifact_path.is_file()
FindArtifact ==
    /\ Working("artifact")
    /\ \/ disk[entry].artifact = NoFile /\ RegistryError(entry)
       \/ /\ disk[entry].artifact # NoFile
          /\ Proceed(IF manifest.sha = NoSha THEN "deserialize" ELSE "checksum")
          /\ UNCHANGED <<entry, manifest, emulator>>
    /\ UNCHANGED <<tree, strict, scan, found, steady>>

\* Mutant: the checksum is computed and not compared.
IgnoreChecksum ==
    /\ Working("checksum")
    /\ \/ disk[entry].artifact = NoFile /\ OtherError
       \/ /\ disk[entry].artifact # NoFile
          /\ Proceed("deserialize")
          /\ UNCHANGED <<entry, manifest, emulator>>
    /\ UNCHANGED <<tree, strict, scan, found, steady>>

\* sha256_file() opens the file again: by now it may be gone.
Checksum ==
    /\ Working("checksum")
    /\ LET file == disk[entry].artifact IN
       \/ file = NoFile /\ OtherError
       \/ file \in Content /\ file # manifest.sha /\ RegistryError(entry)
       \/ /\ file \in Content /\ file = manifest.sha
          /\ Proceed("deserialize")
          /\ UNCHANGED <<entry, manifest, emulator>>
    /\ UNCHANGED <<tree, strict, scan, found, steady>>

\* AutoEmulate.load_model() opens it once more; whatever it raises is wrapped, and
\* what eval() of the emulator raises is not.
Deserialize ==
    /\ Working("deserialize")
    /\ LET file == disk[entry].artifact IN
       \/ file = NoFile /\ RegistryError(entry)
       \/ file \in Content /\ ~ Emulator[file].loads /\ RegistryError(entry)
       \/ file \in Content /\ Emulator[file].loads /\ ~ Emulator[file].evals /\ OtherError
       \/ /\ file \in Content /\ Emulator[file].loads /\ Emulator[file].evals
          /\ emulator' = file
          /\ Proceed("probe")
          /\ UNCHANGED <<entry, manifest>>
    /\ UNCHANGED <<tree, strict, scan, found, steady>>

\* _probe(), and the entry joins the registry.  What it raises is wrapped, but for
\* a prediction that cannot be counted.  Its key cannot be taken: keys are
\* directory names, each visited once.
Probe ==
    /\ Working("probe")
    /\ LET e == Emulator[emulator] IN
       \/ Negotiated(e, manifest) # None /\ ~ e.reshapes /\ OtherError
       \/ /\ Negotiated(e, manifest) = None \/ e.reshapes
          /\ ~ ProbeOk(e, manifest)
          /\ RegistryError(entry)
       \/ /\ ProbeOk(e, manifest)
          /\ models' = models \cup {[key |-> entry, manifest |-> manifest, emulator |-> emulator,
                                     dtype |-> Negotiated(e, manifest)]}
          /\ todo' = todo \ {entry}
          /\ NextEntry
          /\ UNCHANGED <<phase, failures>>
    /\ UNCHANGED <<tree, strict, scan, found, steady>>

\* _row_models(): create_model raises on a name it reserves, outside any try.
CompileRows ==
    /\ phase = "loading" /\ entry = None /\ todo = {}
    /\ phase' = IF \A m \in models : m.manifest.compiles THEN "up" ELSE "crashed"
    /\ UNCHANGED <<tree, strict, scan, found, todo, loading, registry, steady>>

\* The container's restart policy, or a redeployment of a running service.
Restart ==
    /\ phase \in {"crashed", "up"}
    /\ phase' = "down"
    /\ todo' = {} /\ NextEntry
    /\ scan' = {} /\ found' = {} /\ models' = {} /\ failures' = {}
    /\ UNCHANGED <<tree, strict, steady>>
-----------------------------------------------------------------------------
(* The tree changes under the service: a retrain publishes a version file   *)
(* by file, a person repairs, reverts or copies one.  The one rule they     *)
(* keep is that versions are immutable: once a directory held an artifact   *)
(* that was put there or vouched for, it holds that one or none.            *)
Change(d, files) ==
    /\ files # disk[d]
    /\ origin[d] # NoFile => files.artifact \in {origin[d], NoFile}
    /\ disk' = [disk EXCEPT ![d] = files]
    /\ origin' = [origin EXCEPT ![d] = IF origin[d] = NoFile THEN files.artifact ELSE origin[d]]
    /\ steady' = steady \ {d}
    /\ UNCHANGED <<mounted, strict, phase, scan, found, todo, loading, registry>>

Startup ==
    \/ Boot \/ (\E d \in Dir : Discover(d)) \/ (\E i \in Id : ModelWithdrawn(i)) \/ Discovered
    \/ (\E d \in Dir : ReadManifest(d)) \/ FindArtifact \/ Checksum \/ Deserialize \/ Probe
    \/ CompileRows

Environment == \E d \in Dir : \E files \in Contents[d] : Change(d, files)

Next == Startup \/ Restart \/ Environment

Spec == Init /\ [][Next]_vars

\* The process runs, and the restart policy brings a dead one back.
FairSpec == Spec /\ WF_vars(Startup) /\ WF_vars(phase = "crashed" /\ Restart)
-----------------------------------------------------------------------------
\* The loader's variables, whatever is found on the disk and at any moment of
\* load_entry().
TypeOK ==
    /\ disk \in [Dir -> Files]
    /\ mounted \in BOOLEAN /\ strict \in BOOLEAN
    /\ phase \in {"down", "discovering", "loading", "up", "crashed"}
    /\ scan \subseteq Dir /\ found \subseteq Dir /\ todo \subseteq Dir
    /\ entry \in Dir \cup {None}
    /\ stage \in {"manifest", "artifact", "checksum", "deserialize", "probe"}
    /\ manifest \in Manifest \cup {NoManifest}
    /\ emulator \in Content \cup {NoFile}
    /\ models \subseteq Loaded
    /\ failures \subseteq Dir
    /\ origin \in [Dir -> Content \cup {NoFile}]
    /\ steady \subseteq Dir

Keys == {m.key : m \in models}

\* The three questions the API asks the registry.
Versions(id) == {d[2] : d \in {k \in Keys : k[1] = id}}

\* Mutant: the first of the sorted versions instead of the last.
FirstOfVersions(id) ==
    IF Versions(id) = {} THEN None
    ELSE CHOOSE v \in Versions(id) : \A w \in Versions(id) : ~ VersionLess(w, v)

LatestVersion(id) ==
    IF Versions(id) = {} THEN None ELSE CHOOSE v \in Versions(id) : IsHighest(v, Versions(id))
Health == IF failures = {} THEN "ok" ELSE "degraded"

\* docs: "A model that fails validation is never served."  Whatever happens to
\* the tree while it is read, the emulator in memory is the one the manifest's
\* checksum names, it answers in the dtype it will be asked in, with one output
\* and with a variance exactly if the manifest says so.
ServedIsVerified ==
    \A m \in models :
        LET e == Emulator[m.emulator] IN
        /\ m.key = <<m.manifest.id, m.manifest.version>>
        /\ m.manifest.sha \in {NoSha, m.emulator}
        /\ e.loads /\ e.width = 1 /\ e.uq = m.manifest.uq
        /\ Accepts(e, m.manifest, m.dtype)
        /\ m.dtype = "float32" => ~ Accepts(e, m.manifest, "float64")

\* A service that is up accounts for every manifest it saw: served or, only
\* when it is not strict, listed as a failure; never both, and once each.
EveryEntryAccounted ==
    phase = "up" =>
        /\ Keys \cup failures = found
        /\ Keys \cap failures = {}
        /\ \A m, n \in models : m.key = n.key => m = n
        /\ strict => Health = "ok"

\* A version that passes every check, was there when the service started and
\* was not touched while it did, is served once it is up: neither a bad
\* neighbour nor a concurrent publication or rollback can hide it.
SteadyIsServed == phase = "up" => steady \subseteq Keys

\* Once the tree comes to rest with nothing but valid versions and directories
\* without a manifest, the restart loop of a strict service ends.
Clean ==
    \A d \in Dir :
        \/ Valid(d, disk[d]) /\ disk[d].manifest.compiles
        \/ disk[d].manifest = NoManifest
EventuallyUp == (mounted /\ <>[]Clean /\ <>[][FALSE]_disk) => []<>(phase = "up")

\* docs/model_manifest_schema.md: "strict=False loads what it can and reports
\* the failures on /health".
NonStrictStarts == mounted /\ ~ strict => phase # "crashed"
-----------------------------------------------------------------------------
(* The inductive invariant behind the three safety properties.             *)

\* The artifact of a version is the one it names or none, unless it was found
\* beside a manifest that does not vouch for it.
Immutable ==
    \A d \in Dir :
        IF origin[d] = NoFile THEN Vouched(disk[d]) = NoFile
        ELSE disk[d].artifact \in {origin[d], NoFile}

\* What is known of the entry being loaded.  Past the checksum, the file is the
\* one the manifest names or none, whatever happens to the directory.
EntryChecked ==
    entry # None =>
        /\ entry \in todo
        /\ manifest \in Manifest /\ <<manifest.id, manifest.version>> = entry
        /\ origin[entry] = NoFile =>
              disk[entry].artifact = NoFile \/ manifest = disk[entry].manifest
        /\ stage = "checksum" => manifest.sha # NoSha
        /\ stage \in {"deserialize", "probe"} /\ manifest.sha # NoSha =>
              manifest.sha = origin[entry]
        /\ stage = "probe" =>
              /\ emulator \in Content /\ Emulator[emulator].loads
              /\ manifest.sha \in {NoSha, emulator}

\* A valid directory that nobody touches is still ahead of the loader or served.
SteadyKept ==
    phase \in {"discovering", "loading", "up"} =>
        \A d \in steady :
            /\ Valid(d, disk[d])
            /\ phase = "discovering" => d \in scan \cup found
            /\ phase # "discovering" => d \in todo \cup Keys
            /\ entry = d => manifest = disk[d].manifest
            /\ entry = d /\ stage = "probe" => emulator = disk[d].artifact

\* Every directory found is waiting, served or quarantined, one of the three.
Accounted ==
    /\ phase \in {"down", "discovering"} => todo = {} /\ models = {} /\ failures = {}
    /\ phase \in {"loading", "up"} =>
          /\ found = todo \cup Keys \cup failures
          /\ todo \cap (Keys \cup failures) = {}
          /\ Keys \cap failures = {}
    /\ phase = "up" => todo = {}
    /\ phase # "loading" => entry = None
    /\ \A m, n \in models : m.key = n.key => m = n
    /\ strict => failures = {}

\* What load_registry() knows of the tree and of its registry at every step.
LoaderInv == TypeOK /\ Immutable /\ EntryChecked /\ ServedIsVerified /\ Accounted /\ SteadyKept
=============================================================================
