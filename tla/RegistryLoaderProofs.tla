------------------------ MODULE RegistryLoaderProofs ------------------------
(***************************************************************************)
(* For any ids, versions, artifacts and contents of the tree, and any      *)
(* changes to it while it is read: LoaderInv is inductive, so what is      *)
(* served was verified, every manifest is accounted for, and no valid      *)
(* version that is left alone is lost.                                     *)
(***************************************************************************)
EXTENDS RegistryLoader, TLAPS

LEMMA VouchedTyped ==
    ASSUME NEW files \in Files
    PROVE  /\ Vouched(files) \in Content \cup {NoFile}
           /\ Vouched(files) \in {files.artifact, NoFile}
BY DEF Vouched, Files

LEMMA ContentsTyped == \A d \in Dir : Contents[d] \subseteq Files
BY FilesAssumption

LEMMA LoaderInit == Init => LoaderInv
<1>. SUFFICES ASSUME Init PROVE LoaderInv
  OBVIOUS
<1>1. disk \in [Dir -> Files]
  <2>1. \E domain : disk \in [Dir -> domain]
    BY DEF Init
  <2>2. \A d \in Dir : disk[d] \in Files
    BY ContentsTyped DEF Init
  <2>. QED BY <2>1, <2>2
<1>2. \A d \in Dir : origin[d] = Vouched(disk[d])
  BY DEF Init
<1>3. origin \in [Dir -> Content \cup {NoFile}]
  BY <1>1, VouchedTyped DEF Init
<1>4. TypeOK
  BY <1>1, <1>3 DEF Init, TypeOK
<1>5. Immutable
  BY <1>1, <1>2, VouchedTyped DEF Immutable
<1>6. EntryChecked /\ ServedIsVerified /\ SteadyKept
  BY DEF Init, EntryChecked, ServedIsVerified, SteadyKept
<1>7. Accounted
  BY DEF Init, Accounted, Keys
<1>. QED BY <1>4, <1>5, <1>6, <1>7 DEF LoaderInv

-----------------------------------------------------------------------------
(* The tree and what is served stay as they are in most steps.             *)

LEMMA TreeQuiet ==
    ASSUME LoaderInv, UNCHANGED tree
    PROVE  Immutable'
BY DEF LoaderInv, Immutable, Vouched, tree

LEMMA ServedQuiet ==
    ASSUME LoaderInv, UNCHANGED models
    PROVE  ServedIsVerified'
BY DEF LoaderInv, ServedIsVerified, Accepts

\* A step that ends the loading of an entry, however it does.
LEMMA EntryDone ==
    ASSUME NextEntry
    PROVE  EntryChecked'
BY DEF NextEntry, EntryChecked

\* A valid directory stays valid while its files stay.
LEMMA ValidQuiet ==
    ASSUME UNCHANGED disk, NEW d
    PROVE  Valid(d, disk[d])' = Valid(d, disk[d])
BY DEF Valid, ProbeOk, Negotiated, Accepts

\* load_registry() quarantines the entry, or the service dies of it: an entry
\* this happens to was not a valid one.
LEMMA QuarantineStep ==
    ASSUME LoaderInv, phase = "loading", NEW d \in todo, RegistryError(d),
           d \notin steady,
           UNCHANGED <<tree, strict, scan, found, steady>>
    PROVE  LoaderInv'
<1>1. TypeOK'
  BY DEF LoaderInv, TypeOK, RegistryError, NextEntry, tree
<1>2. Immutable' /\ ServedIsVerified' /\ EntryChecked'
  BY TreeQuiet, ServedQuiet, EntryDone DEF RegistryError
<1>3. Accounted'
  <2>. USE DEF LoaderInv, RegistryError, NextEntry, Accounted, Keys
  <2>1. CASE strict
    BY <2>1
  <2>2. CASE ~ strict
    BY <2>2
  <2>. QED BY <2>1, <2>2
<1>4. SteadyKept'
  <2>1. steady \subseteq Dir /\ None \notin Dir
    BY FilesAssumption DEF LoaderInv, TypeOK
  <2>. QED
    BY <2>1, ValidQuiet DEF LoaderInv, SteadyKept, RegistryError, NextEntry, Keys, tree
<1>. QED BY <1>1, <1>2, <1>3, <1>4 DEF LoaderInv

LEMMA OtherErrorStep ==
    ASSUME LoaderInv, phase = "loading", OtherError,
           UNCHANGED <<tree, strict, scan, found, steady>>
    PROVE  LoaderInv'
<1>1. TypeOK'
  BY DEF LoaderInv, TypeOK, OtherError, NextEntry, tree, registry
<1>2. Immutable' /\ ServedIsVerified' /\ EntryChecked'
  BY TreeQuiet, ServedQuiet, EntryDone DEF OtherError, registry
<1>3. Accounted'
  BY DEF LoaderInv, OtherError, NextEntry, Accounted, Keys, registry
<1>4. SteadyKept'
  BY DEF OtherError, SteadyKept
<1>. QED BY <1>1, <1>2, <1>3, <1>4 DEF LoaderInv

\* load_entry() goes on: only what it knows of the entry has to be shown.
LEMMA ProceedStep ==
    ASSUME LoaderInv, phase = "loading",
           NEW next \in {"artifact", "checksum", "deserialize", "probe"}, Proceed(next),
           entry' \in Dir, manifest' \in Manifest, emulator' \in Content \cup {NoFile},
           UNCHANGED <<tree, strict, scan, found, steady>>,
           EntryChecked',
           entry' \in steady =>
               /\ manifest' = disk[entry'].manifest
               /\ next = "probe" => emulator' = disk[entry'].artifact
    PROVE  LoaderInv'
<1>1. TypeOK'
  BY DEF LoaderInv, TypeOK, Proceed, tree, registry
<1>2. Immutable' /\ ServedIsVerified'
  BY TreeQuiet, ServedQuiet DEF Proceed, registry
<1>3. Accounted'
  BY DEF LoaderInv, Proceed, Accounted, Keys, registry
<1>4. SteadyKept'
  BY ValidQuiet DEF LoaderInv, SteadyKept, Proceed, Keys, tree, registry
<1>. QED BY <1>1, <1>2, <1>3, <1>4 DEF LoaderInv
-----------------------------------------------------------------------------
(* load_entry(), step by step.                                             *)

LEMMA Underway ==
    ASSUME LoaderInv, NEW s, Working(s)
    PROVE  /\ phase = "loading" /\ stage = s
           /\ entry \in Dir /\ entry \in todo /\ entry # None
           /\ manifest \in Manifest /\ <<manifest.id, manifest.version>> = entry
           /\ emulator \in Content \cup {NoFile}
           /\ disk[entry].artifact \in Content \cup {NoFile}
<1>1. entry \in Dir
  BY DEF LoaderInv, TypeOK, Working
<1>2. disk[entry].artifact \in Content \cup {NoFile}
  BY <1>1 DEF LoaderInv, TypeOK, Files
<1>. QED BY <1>1, <1>2 DEF LoaderInv, TypeOK, Working, EntryChecked

\* What load_entry() holds of a valid directory is what is in it.
LEMMA UnderwaySteady ==
    ASSUME LoaderInv, NEW s, Working(s), entry \in steady
    PROVE  /\ Valid(entry, disk[entry])
           /\ manifest = disk[entry].manifest
           /\ s = "probe" => emulator = disk[entry].artifact
BY DEF LoaderInv, SteadyKept, Working

LEMMA ReadManifestStep ==
    ASSUME LoaderInv, NEW d \in Dir, ReadManifest(d)
    PROVE  LoaderInv'
<1>. DEFINE m == disk[d].manifest
<1>0. phase = "loading" /\ d \in todo /\ UNCHANGED <<tree, strict, scan, found, steady>>
  BY DEF ReadManifest
<1>1. CASE OtherError
  BY <1>0, <1>1, OtherErrorStep
<1>2. CASE /\ m \in {NoManifest, Malformed} \/ (m \in Manifest /\ <<m.id, m.version>> # d)
           /\ RegistryError(d)
  <2>1. d \notin steady
    BY <1>0, <1>2, FilesAssumption DEF LoaderInv, SteadyKept, Valid
  <2>. QED BY <1>0, <1>2, <2>1, QuarantineStep
<1>3. CASE /\ m \in Manifest /\ <<m.id, m.version>> = d
           /\ entry' = d /\ manifest' = m
           /\ Proceed("artifact")
           /\ UNCHANGED emulator
  <2>1. EntryChecked'
    BY <1>0, <1>3 DEF EntryChecked, Proceed, tree
  <2>2. emulator' \in Content \cup {NoFile}
    BY <1>3 DEF LoaderInv, TypeOK
  <2>. QED BY <1>0, <1>3, <2>1, <2>2, ProceedStep
<1>. QED BY <1>1, <1>2, <1>3 DEF ReadManifest

LEMMA FindArtifactStep ==
    ASSUME LoaderInv, FindArtifact
    PROVE  LoaderInv'
<1>0. /\ Working("artifact")
      /\ UNCHANGED <<tree, strict, scan, found, steady>>
  BY DEF FindArtifact
<1>1. CASE disk[entry].artifact = NoFile /\ RegistryError(entry)
  <2>1. entry \notin steady
    BY <1>0, <1>1, UnderwaySteady, FilesAssumption DEF Valid
  <2>. QED BY <1>0, <1>1, <2>1, Underway, QuarantineStep
<1>2. CASE /\ Proceed(IF manifest.sha = NoSha THEN "deserialize" ELSE "checksum")
           /\ UNCHANGED <<entry, manifest, emulator>>
  <2>1. EntryChecked'
    BY <1>0, <1>2, Underway DEF LoaderInv, EntryChecked, Proceed, tree
  <2>. QED BY <1>0, <1>2, <2>1, Underway, UnderwaySteady, ProceedStep
<1>. QED BY <1>1, <1>2 DEF FindArtifact

\* The one place where immutability is needed: a file that matches the manifest
\* is the one the version names, so no change of the directory can bring
\* another.
LEMMA ChecksumStep ==
    ASSUME LoaderInv, Checksum
    PROVE  LoaderInv'
<1>0. /\ Working("checksum")
      /\ UNCHANGED <<tree, strict, scan, found, steady>>
  BY DEF Checksum
<1>. DEFINE file == disk[entry].artifact
<1>1. CASE OtherError
  BY <1>0, <1>1, Underway, OtherErrorStep
<1>2. CASE file \in Content /\ file # manifest.sha /\ RegistryError(entry)
  <2>1. manifest.sha # NoSha
    BY <1>0 DEF LoaderInv, EntryChecked, Working
  <2>2. entry \notin steady
    BY <1>0, <1>2, <2>1, UnderwaySteady DEF Valid
  <2>. QED BY <1>0, <1>2, <2>2, Underway, QuarantineStep
<1>3. CASE /\ file \in Content /\ file = manifest.sha
           /\ Proceed("deserialize")
           /\ UNCHANGED <<entry, manifest, emulator>>
  <2>1. file # NoFile
    BY <1>3, FilesAssumption
  <2>2. file = origin[entry]
    <3>1. CASE origin[entry] = NoFile
      <4>1. manifest = disk[entry].manifest
        BY <1>0, <2>1, <3>1, Underway DEF LoaderInv, EntryChecked
      <4>2. Vouched(disk[entry]) = file
        BY <1>0, <1>3, <4>1, Underway DEF Vouched
      <4>. QED BY <1>0, <2>1, <3>1, <4>2, Underway DEF LoaderInv, Immutable
    <3>2. CASE origin[entry] # NoFile
      BY <1>0, <2>1, <3>2, Underway DEF LoaderInv, Immutable
    <3>. QED BY <3>1, <3>2
  <2>3. EntryChecked'
    BY <1>0, <1>3, <2>2, Underway DEF LoaderInv, EntryChecked, Proceed, tree
  <2>. QED BY <1>0, <1>3, <2>3, Underway, UnderwaySteady, ProceedStep
<1>. QED BY <1>1, <1>2, <1>3 DEF Checksum

LEMMA DeserializeStep ==
    ASSUME LoaderInv, Deserialize
    PROVE  LoaderInv'
<1>0. /\ Working("deserialize")
      /\ UNCHANGED <<tree, strict, scan, found, steady>>
  BY DEF Deserialize
<1>. DEFINE file == disk[entry].artifact
<1>1. CASE /\ file = NoFile \/ (file \in Content /\ ~ Emulator[file].loads)
           /\ RegistryError(entry)
  <2>1. entry \notin steady
    BY <1>0, <1>1, UnderwaySteady, FilesAssumption DEF Valid
  <2>. QED BY <1>0, <1>1, <2>1, Underway, QuarantineStep
<1>2. CASE /\ file \in Content /\ Emulator[file].loads
           /\ emulator' = file
           /\ Proceed("probe")
           /\ UNCHANGED <<entry, manifest>>
  <2>1. file # NoFile
    BY <1>2, FilesAssumption
  <2>2. manifest.sha \in {NoSha, file}
    <3>1. CASE origin[entry] = NoFile
      BY <1>0, <1>2, <3>1, Underway, FilesAssumption
         DEF LoaderInv, EntryChecked, Manifest
    <3>2. CASE origin[entry] # NoFile
      BY <1>0, <2>1, <3>2, Underway DEF LoaderInv, EntryChecked, Immutable
    <3>. QED BY <3>1, <3>2
  <2>3. EntryChecked'
    BY <1>0, <1>2, <2>2, Underway DEF LoaderInv, EntryChecked, Proceed, tree
  <2>. QED BY <1>0, <1>2, <2>3, Underway, UnderwaySteady, ProceedStep
<1>3. CASE OtherError
  BY <1>0, <1>3, Underway, OtherErrorStep
<1>. QED BY <1>1, <1>2, <1>3 DEF Deserialize

\* The entry joins the registry with all that was checked of it.
LEMMA ProbeStep ==
    ASSUME LoaderInv, Probe
    PROVE  LoaderInv'
<1>0. /\ Working("probe")
      /\ UNCHANGED <<tree, strict, scan, found, steady>>
  BY DEF Probe
<1>. DEFINE e == Emulator[emulator]
            served == [key |-> entry, manifest |-> manifest, emulator |-> emulator,
                       dtype |-> Negotiated(e, manifest)]
<1>1. CASE ~ ProbeOk(e, manifest) /\ RegistryError(entry)
  <2>1. entry \notin steady
    BY <1>0, <1>1, UnderwaySteady DEF Valid
  <2>. QED BY <1>0, <1>1, <2>1, Underway, QuarantineStep
<1>2. CASE /\ ProbeOk(e, manifest)
           /\ models' = models \cup {served}
           /\ todo' = todo \ {entry}
           /\ NextEntry
           /\ UNCHANGED <<phase, failures>>
  <2>1. /\ emulator \in Content /\ e.loads
        /\ manifest.sha \in {NoSha, emulator}
    BY <1>0, Underway DEF LoaderInv, EntryChecked
  <2>2. /\ served.dtype \in Dtype
        /\ Accepts(e, manifest, served.dtype)
        /\ served.dtype = "float32" => ~ Accepts(e, manifest, "float64")
        /\ e.width = 1 /\ e.uq = manifest.uq
    BY <1>2 DEF ProbeOk, Negotiated, Dtype
  <2>3. served \in Loaded
    BY <1>0, <2>1, <2>2, Underway DEF Loaded
  <2>4. TypeOK'
    BY <1>0, <1>2, <2>3, Underway DEF LoaderInv, TypeOK, NextEntry, tree
  <2>5. Immutable' /\ EntryChecked'
    BY <1>0, <1>2, TreeQuiet, EntryDone
  <2>6. ServedIsVerified'
    BY <1>0, <1>2, <2>1, <2>2, Underway DEF LoaderInv, ServedIsVerified, Accepts
  <2>7. Keys' = Keys \cup {entry}
    <3>1. served.key = entry /\ models' = models \cup {served}
      BY <1>2
    <3>. HIDE DEF served
    <3>. QED BY <3>1 DEF Keys
  <2>8. Accounted'
    <3>1. \A m, n \in models' : m.key = n.key => m = n
      BY <1>0, <1>2, Underway DEF LoaderInv, Accounted, Keys
    <3>. HIDE DEF served, e
    <3>. QED BY <1>0, <1>2, <2>7, <3>1, Underway DEF LoaderInv, Accounted, NextEntry
  <2>9. SteadyKept'
    <3>1. steady \subseteq Dir /\ None \notin Dir
      BY FilesAssumption DEF LoaderInv, TypeOK
    <3>. HIDE DEF served, e
    <3>. QED
      BY <1>0, <1>2, <2>7, <3>1, ValidQuiet, Underway DEF LoaderInv, SteadyKept, NextEntry, tree
  <2>. QED BY <2>4, <2>5, <2>6, <2>8, <2>9 DEF LoaderInv
<1>3. CASE OtherError
  BY <1>0, <1>3, Underway, OtherErrorStep
<1>. QED BY <1>1, <1>2, <1>3 DEF Probe
-----------------------------------------------------------------------------
(* The rest of the startup, the restart and the environment.               *)

LEMMA ScanStep ==
    ASSUME LoaderInv,
           \/ Boot \/ (\E d \in Dir : Discover(d)) \/ (\E i \in Id : ModelWithdrawn(i))
           \/ Discovered \/ CompileRows
    PROVE  LoaderInv'
<1>1. CASE Boot
  <2>1. TypeOK'
    BY <1>1 DEF LoaderInv, TypeOK, Boot, tree, loading
  <2>2. Immutable' /\ EntryChecked' /\ ServedIsVerified'
    BY <1>1, TreeQuiet DEF LoaderInv, Boot, tree, loading, EntryChecked, ServedIsVerified, Accounted
  <2>3. Accounted'
    BY <1>1 DEF LoaderInv, Boot, Accounted, Keys, loading
  <2>4. steady' \subseteq scan'
    <3>1. \A d \in steady' : d \in Dir /\ disk[d].exists
      BY <1>1 DEF Boot, Valid
    <3>2. \A d \in Dir : disk[d].exists => HasVersion(d[1])
      BY DEF HasVersion, Dir
    <3>. QED BY <1>1, <3>1, <3>2 DEF Boot
  <2>5. SteadyKept'
    BY <1>1, <2>4, ValidQuiet, FilesAssumption
       DEF LoaderInv, SteadyKept, Boot, Accounted, TypeOK, tree, loading
  <2>. QED BY <2>1, <2>2, <2>3, <2>5 DEF LoaderInv
<1>2. ASSUME NEW d \in Dir, Discover(d) PROVE LoaderInv'
  <2>1. TypeOK'
    BY <1>2 DEF LoaderInv, TypeOK, Discover, tree, loading, registry
  <2>2. Immutable' /\ EntryChecked' /\ ServedIsVerified'
    BY <1>2, TreeQuiet, ServedQuiet
       DEF LoaderInv, Discover, tree, loading, registry, EntryChecked, Accounted
  <2>3. Accounted'
    BY <1>2 DEF LoaderInv, Discover, Accounted, Keys, loading, registry
  <2>4. SteadyKept'
    BY <1>2, ValidQuiet, FilesAssumption
       DEF LoaderInv, SteadyKept, Discover, Valid, TypeOK, tree, loading, registry
  <2>. QED BY <2>1, <2>2, <2>3, <2>4 DEF LoaderInv
<1>3. CASE Discovered
  <2>1. TypeOK'
    BY <1>3 DEF LoaderInv, TypeOK, Discovered, tree, loading, registry
  <2>2. Immutable' /\ EntryChecked' /\ ServedIsVerified'
    BY <1>3, TreeQuiet, ServedQuiet
       DEF LoaderInv, Discovered, tree, loading, registry, EntryChecked, Accounted
  <2>3. Accounted'
    BY <1>3 DEF LoaderInv, Discovered, Accounted, Keys, loading, registry
  <2>4. SteadyKept'
    BY <1>3, ValidQuiet DEF LoaderInv, SteadyKept, Discovered, tree, loading, registry
  <2>. QED BY <2>1, <2>2, <2>3, <2>4 DEF LoaderInv
<1>4. CASE CompileRows
  <2>1. TypeOK'
    BY <1>4 DEF LoaderInv, TypeOK, CompileRows, tree, loading, registry
  <2>2. Immutable' /\ EntryChecked' /\ ServedIsVerified'
    BY <1>4, TreeQuiet, ServedQuiet
       DEF LoaderInv, CompileRows, tree, loading, registry, EntryChecked
  <2>3. Accounted'
    BY <1>4 DEF LoaderInv, CompileRows, Accounted, Keys, loading, registry
  <2>4. SteadyKept'
    BY <1>4, ValidQuiet DEF LoaderInv, SteadyKept, CompileRows, Keys, tree, loading, registry
  <2>. QED BY <2>1, <2>2, <2>3, <2>4 DEF LoaderInv
<1>5. ASSUME NEW i \in Id, ModelWithdrawn(i) PROVE LoaderInv'
  <2>1. TypeOK'
    BY <1>5 DEF LoaderInv, TypeOK, ModelWithdrawn, tree, loading, registry
  <2>2. Immutable' /\ EntryChecked' /\ ServedIsVerified'
    BY <1>5, TreeQuiet, ServedQuiet
       DEF LoaderInv, ModelWithdrawn, tree, loading, registry, EntryChecked, Accounted
  <2>3. Accounted'
    BY <1>5 DEF LoaderInv, ModelWithdrawn, Accounted, Keys, loading, registry
  <2>4. SteadyKept'
    BY <1>5 DEF ModelWithdrawn, SteadyKept
  <2>. QED BY <2>1, <2>2, <2>3, <2>4 DEF LoaderInv
<1>. QED BY <1>1, <1>2, <1>3, <1>4, <1>5

LEMMA RestartStep ==
    ASSUME LoaderInv, Restart
    PROVE  LoaderInv'
<1>1. TypeOK'
  BY DEF LoaderInv, TypeOK, Restart, NextEntry, tree
<1>2. Immutable' /\ EntryChecked' /\ ServedIsVerified'
  BY TreeQuiet, EntryDone DEF Restart, tree, ServedIsVerified
<1>3. Accounted'
  BY DEF LoaderInv, Restart, NextEntry, Accounted, Keys
<1>4. SteadyKept'
  BY DEF Restart, SteadyKept
<1>. QED BY <1>1, <1>2, <1>3, <1>4 DEF LoaderInv

\* A change that respects immutability, whatever else it does.
LEMMA ChangeStep ==
    ASSUME LoaderInv, NEW d \in Dir, NEW files \in Files, Change(d, files)
    PROVE  LoaderInv'
<1>1. /\ \A x \in Dir : disk'[x] = IF x = d THEN files ELSE disk[x]
      /\ \A x \in Dir : origin'[x] = IF x = d /\ origin[d] = NoFile THEN files.artifact ELSE origin[x]
  BY DEF LoaderInv, TypeOK, Change
<1>2. TypeOK'
  <2>1. files.artifact \in Content \cup {NoFile}
    BY DEF Files
  <2>. QED BY <2>1 DEF LoaderInv, TypeOK, Change, loading, registry
<1>3. Immutable'
  <2>. SUFFICES ASSUME NEW x \in Dir
                PROVE  IF origin'[x] = NoFile THEN Vouched(disk'[x]) = NoFile
                       ELSE disk'[x].artifact \in {origin'[x], NoFile}
    BY DEF Immutable, Vouched
  <2>1. CASE x # d
    BY <1>1, <2>1 DEF LoaderInv, Immutable
  <2>2. CASE x = d
    BY <1>1, <2>2, VouchedTyped DEF LoaderInv, Immutable, Change
  <2>. QED BY <2>1, <2>2
<1>4. ServedIsVerified'
  BY ServedQuiet DEF Change, registry
<1>5. EntryChecked'
  <2>. SUFFICES ASSUME entry' # None PROVE EntryChecked'
    BY DEF EntryChecked
  <2>0. entry \in Dir
    BY DEF LoaderInv, TypeOK, Change, loading
  <2>1. CASE entry # d
    BY <2>0, <2>1, <1>1 DEF LoaderInv, EntryChecked, Change, loading
  <2>2. CASE entry = d
    <3>1. disk'[entry] = files
      BY <2>0, <2>2, <1>1
    <3>2. origin'[entry] = NoFile => files.artifact = NoFile
      BY <2>0, <2>2, <1>1
    <3>3. /\ stage \in {"deserialize", "probe"} /\ manifest.sha # NoSha
          => origin'[entry] = manifest.sha
      <4>. SUFFICES ASSUME stage \in {"deserialize", "probe"}, manifest.sha # NoSha
                    PROVE  origin'[entry] = manifest.sha
        OBVIOUS
      <4>1. manifest.sha = origin[entry] /\ manifest.sha \in Content
        BY DEF LoaderInv, EntryChecked, Manifest, Change, loading
      <4>. QED BY <4>1, <2>0, <2>2, <1>1, FilesAssumption
    <3>. QED BY <2>2, <3>1, <3>2, <3>3 DEF LoaderInv, EntryChecked, Change, loading
  <2>. QED BY <2>1, <2>2
<1>6. Accounted'
  BY DEF LoaderInv, Change, Accounted, Keys, loading, registry
<1>7. SteadyKept'
  <2>1. \A x \in steady' : x \in steady /\ x # d /\ x \in Dir
    BY DEF LoaderInv, TypeOK, Change
  <2>2. \A x \in steady' : disk'[x] = disk[x]
    BY <1>1, <2>1
  <2>. QED BY <2>1, <2>2
           DEF LoaderInv, SteadyKept, Change, Keys, loading, registry, Valid, ProbeOk, Negotiated,
               Accepts
<1>. QED BY <1>2, <1>3, <1>4, <1>5, <1>6, <1>7 DEF LoaderInv

LEMMA LoaderNext == LoaderInv /\ [Next]_vars => LoaderInv'
<1>. SUFFICES ASSUME LoaderInv, [Next]_vars PROVE LoaderInv'
  OBVIOUS
<1>1. CASE Startup
  BY <1>1, ScanStep, ReadManifestStep, FindArtifactStep, ChecksumStep, DeserializeStep, ProbeStep
     DEF Startup
<1>2. CASE Restart
  BY <1>2, RestartStep
<1>3. CASE Environment
  BY <1>3, ChangeStep, ContentsTyped DEF Environment
<1>4. CASE UNCHANGED vars
  <2>. USE <1>4 DEF LoaderInv, vars, tree, loading, registry
  <2>1. TypeOK'
    BY DEF TypeOK
  <2>2. Immutable' /\ ServedIsVerified'
    BY TreeQuiet, ServedQuiet
  <2>3. EntryChecked'
    BY DEF EntryChecked
  <2>4. Accounted'
    BY DEF Accounted, Keys
  <2>5. SteadyKept'
    BY ValidQuiet DEF SteadyKept, Keys
  <2>. QED BY <2>1, <2>2, <2>3, <2>4, <2>5
<1>. QED BY <1>1, <1>2, <1>3, <1>4 DEF Next

-----------------------------------------------------------------------------
\* The loader's state is always as LoaderInv describes it, for any tree.
THEOREM LoaderInvariance == Spec => []LoaderInv
BY LoaderInit, LoaderNext, PTL DEF Spec

\* Whatever is found on the disk, and whatever it changes to, load_entry() and
\* the registry it fills hold what their types say.
THEOREM LoaderTypes == Spec => []TypeOK
<1>1. LoaderInv => TypeOK
  BY DEF LoaderInv
<1>. QED BY <1>1, LoaderInvariance, PTL

\* Whatever changes under the loader between its reads of an artifact, a model
\* that is served is one whose checksum, dtype, width and variance were verified.
THEOREM Verified == Spec => []ServedIsVerified
<1>1. LoaderInv => ServedIsVerified
  BY DEF LoaderInv
<1>. QED BY <1>1, LoaderInvariance, PTL

\* A service that is up has accounted for every manifest it found: served or
\* reported, never both, never neither.
THEOREM Accounting == Spec => []EveryEntryAccounted
<1>1. LoaderInv => EveryEntryAccounted
  BY DEF LoaderInv, Accounted, EveryEntryAccounted, Health
<1>. QED BY <1>1, LoaderInvariance, PTL

\* Nothing that happens to other directories, however the service is configured,
\* keeps a valid version that is left alone from being served.
THEOREM Kept == Spec => []SteadyIsServed
<1>1. LoaderInv => SteadyIsServed
  BY DEF LoaderInv, SteadyKept, Accounted, SteadyIsServed
<1>. QED BY <1>1, LoaderInvariance, PTL
=============================================================================
