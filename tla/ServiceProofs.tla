---------------------------- MODULE ServiceProofs ----------------------------
(***************************************************************************)
(* Any number of retrains, overlapping and killed anywhere, are an         *)
(* environment the loader's specification allows for, whatever the         *)
(* versions, scores, margins and bounds; and what the service holds in     *)
(* memory is what the registry says of that version.                       *)
(***************************************************************************)
EXTENDS Service, RetrainProofs

USE ScoreAssumption, VersionAssumption, ChoiceAssumption, MarkAssumption, BoundAssumption

\* What the writers keep of a directory besides Retrain's own invariant: it is
\* empty before it is made and until its artifact is renamed, its manifest is
\* opened after that, and every file is some run's.
DirectoryInOrder ==
    /\ \A v \in Version : v \notin dirs => artifact[v] = NoFile
    /\ \A v \in Version : manifest[v] = Torn => artifact[v] # NoFile
    /\ \A r \in Run : pc[r] \in {"saving", "renaming"} => artifact[candidate[r]] = NoFile

FromARun ==
    /\ started <= MaxStarts
    /\ \A r \in Run : model[r] \in Artifacts
    /\ \A v \in Version : {saved[v], artifact[v]} \subseteq Artifacts \cup {NoFile}

\* A version names the artifact it holds.
OriginIsArtifact == origin = [d \in Dir |-> artifact[d[2]]]

WriterInv == IInv /\ DirectoryInOrder /\ FromARun /\ OriginIsArtifact /\ steady \subseteq Dir

LEMMA TreeAt ==
    ASSUME NEW v \in Version
    PROVE  /\ Tree[<<ModelId, v>>] = [exists |-> v \in dirs,
                                      manifest |-> ManifestFile(manifest[v]),
                                      artifact |-> artifact[v]]
           /\ <<ModelId, v>> \in Dir /\ <<ModelId, v>>[2] = v
BY DEF Tree, Dir

LEMMA DirIs == \A d \in Dir : d = <<ModelId, d[2]>> /\ d[2] \in Version
BY DEF Dir

\* The registry a service is first deployed over is in order.
LEMMA WriterInit == ServiceInit => WriterInv
<1>. SUFFICES ASSUME ServiceInit PROVE WriterInv
  OBVIOUS
<1>1. IInv
  BY IInvInit DEF ServiceInit
<1>2. DirectoryInOrder
  <2>1. \A v \in Version : manifest[v] = Torn => artifact[v] # NoFile
    <3>1. [version |-> FirstVersion, score |-> manifest[FirstVersion].score, sha |-> 0] # Torn
          \/ manifest[FirstVersion].score \notin TrainedScore \cup {Missing}
      BY DEF Manifest, Content, Model
    <3>. QED BY <3>1 DEF ServiceInit, Init
  <2>. QED BY <2>1 DEF ServiceInit, Init, DirectoryInOrder
<1>3. FromARun
  BY BoundAssumption DEF ServiceInit, Init, FromARun, Artifacts, NoFile
<1>4. OriginIsArtifact
  BY DEF ServiceInit, OriginIsArtifact, Tree
<1>. QED BY <1>1, <1>2, <1>3, <1>4 DEF WriterInv, ServiceInit
-----------------------------------------------------------------------------
(* The steps of the writers.                                               *)

\* A process touches the files of its candidate and of no other version.
LEMMA OneDirectory ==
    ASSUME IInv, NEW r \in Run, Start(r) \/ Read(r) \/ Write(r) \/ Die(r)
    PROVE  /\ candidate[r] \in Version
           /\ \A v \in Version \ {candidate[r]} :
                 /\ v \in dirs' <=> v \in dirs
                 /\ saved'[v] = saved[v]
                 /\ artifact'[v] = artifact[v]
                 /\ manifest'[v] = manifest[v]
BY DEF IInv, TypeOK, Start, Read, Write, Die, ListVersions, LoadIncumbent, Evaluate, CheckAbsent,
       MakeVersionDir, SaveModel, RenameArtifact, HashArtifact, CheckManifestAbsent, OpenManifest,
       FlushManifest, disk

\* What a process makes of the directory of its candidate: each step that
\* touches it takes it from one stage to the next.
LEMMA OwnDirectory ==
    ASSUME WriterInv, NEW r \in Run, Start(r) \/ Read(r) \/ Write(r) \/ Die(r)
    PROVE  LET v == candidate[r] IN
           \/ UNCHANGED disk
           \/ /\ pc[r] = "making" /\ v \notin dirs /\ dirs' = dirs \cup {v}
              /\ UNCHANGED <<saved, artifact, manifest>>
           \/ /\ pc[r] = "saving" /\ saved' = [saved EXCEPT ![v] = model[r]]
              /\ UNCHANGED <<dirs, artifact, manifest>>
           \/ /\ pc[r] = "renaming" /\ artifact[v] = NoFile /\ saved[v] \in Artifacts
              /\ artifact' = [artifact EXCEPT ![v] = saved[v]]
              /\ saved' = [saved EXCEPT ![v] = NoFile]
              /\ UNCHANGED <<dirs, manifest>>
           \/ /\ pc[r] = "opening" /\ artifact[v] # NoFile
              /\ manifest' = [manifest EXCEPT ![v] = Torn]
              /\ UNCHANGED <<dirs, saved, artifact>>
           \/ /\ pc[r] = "writing" /\ artifact[v] # NoFile
              /\ manifest' = [manifest EXCEPT ![v] =
                                 [version |-> v, score |-> score[r], sha |-> sha[r]]]
              /\ [version |-> v, score |-> score[r], sha |-> sha[r]] \in Manifest
              /\ UNCHANGED <<dirs, saved, artifact>>
<1>1. CASE Start(r) \/ Read(r) \/ CheckAbsent(r) \/ HashArtifact(r) \/ CheckManifestAbsent(r)
           \/ Die(r)
  BY <1>1 DEF Start, Read, ListVersions, LoadIncumbent, Evaluate, CheckAbsent, HashArtifact,
              CheckManifestAbsent, Die
<1>2. CASE MakeVersionDir(r)
  BY <1>2 DEF MakeVersionDir, disk
<1>3. CASE SaveModel(r)
  BY <1>3 DEF SaveModel
<1>4. CASE RenameArtifact(r)
  BY <1>4 DEF RenameArtifact, WriterInv, DirectoryInOrder, FromARun, IInv, TypeOK, OwnFiles
<1>5. CASE OpenManifest(r)
  BY <1>5 DEF OpenManifest, WriterInv, IInv, OwnFiles
<1>6. CASE FlushManifest(r)
  <2>1. [version |-> candidate[r], score |-> score[r], sha |-> sha[r]] \in Manifest
    BY <1>6, FlushWritesManifest DEF WriterInv
  <2>. QED BY <1>6, <2>1 DEF FlushManifest, WriterInv, IInv, OwnFiles
<1>. QED
  BY <1>1, <1>2, <1>3, <1>4, <1>5, <1>6 DEF Write

\* A process keeps the directories in order.
LEMMA OrderKept ==
    ASSUME WriterInv, IInv', NEW r \in Run, Start(r) \/ Read(r) \/ Write(r) \/ Die(r)
    PROVE  DirectoryInOrder' /\ FromARun'
<1>1. candidate[r] \in Version
  BY OneDirectory DEF WriterInv
<1>2. DirectoryInOrder'
  <2>1. \A v \in Version : v \notin dirs' => artifact'[v] = NoFile
    <3>1. ASSUME NEW v \in Version, v # candidate[r], v \notin dirs' PROVE artifact'[v] = NoFile
      BY <3>1, OneDirectory DEF WriterInv, DirectoryInOrder
    <3>2. candidate[r] \notin dirs' => artifact'[candidate[r]] = NoFile
      <4>1. pc[r] = "renaming" => candidate[r] \in dirs
        BY DEF WriterInv, IInv, OwnFiles, InDirectory
      <4>. QED BY <1>1, <4>1, OwnDirectory DEF WriterInv, DirectoryInOrder, disk
    <3>. QED BY <3>1, <3>2
  <2>2. \A v \in Version : manifest'[v] = Torn => artifact'[v] # NoFile
    <3>1. ASSUME NEW v \in Version, v # candidate[r], manifest'[v] = Torn
          PROVE  artifact'[v] # NoFile
      BY <3>1, OneDirectory DEF WriterInv, DirectoryInOrder
    <3>2. manifest'[candidate[r]] = Torn => artifact'[candidate[r]] # NoFile
      <4>1. pc[r] = "renaming" => manifest[candidate[r]] # Torn
        BY DEF WriterInv, IInv, OwnFiles, InDirectory
      <4>2. manifest \in [Version -> Manifest \cup {NoManifest, Torn}]
        BY DEF WriterInv, IInv, TypeOK
      <4>. QED BY <1>1, <4>1, <4>2, OwnDirectory DEF WriterInv, DirectoryInOrder, disk
    <3>. QED BY <3>1, <3>2
  <2>3. ASSUME NEW q \in Run, pc'[q] \in {"saving", "renaming"}
        PROVE  artifact'[candidate'[q]] = NoFile
    <3>1. CASE q = r
      <4>1. \/ MakeVersionDir(r) /\ candidate[r] \notin dirs
            \/ SaveModel(r)
        <5>1. \A x : Verdict(r, x) \notin {"saving", "renaming"}
          BY DEF Verdict
        <5>. QED
          BY <2>3, <3>1, <5>1 DEF WriterInv, IInv, TypeOK, Goto, Start, Read, Write, Die,
             ListVersions, LoadIncumbent, Evaluate, CheckAbsent, MakeVersionDir, SaveModel,
             RenameArtifact, HashArtifact, CheckManifestAbsent, OpenManifest, FlushManifest
      <4>2. UNCHANGED <<artifact, candidate>>
        BY <4>1 DEF MakeVersionDir, SaveModel
      <4>. QED
        BY <1>1, <3>1, <4>1, <4>2 DEF WriterInv, DirectoryInOrder, SaveModel
    <3>2. CASE q # r
      <4>1. pc'[q] = pc[q] /\ candidate'[q] = candidate[q] /\ candidate[q] \in Version
        BY <3>2 DEF WriterInv, IInv, TypeOK, Goto, Start, Read, Write, Die,
             ListVersions, LoadIncumbent, Evaluate, CheckAbsent, MakeVersionDir, SaveModel,
             RenameArtifact, HashArtifact, CheckManifestAbsent, OpenManifest, FlushManifest
      <4>2. artifact[candidate[q]] = NoFile
        BY <2>3, <4>1 DEF WriterInv, DirectoryInOrder
      <4>3. candidate[q] = candidate[r] => UNCHANGED artifact
        <5>1. candidate[q] = candidate[r] => pc[r] \notin InDirectory
          BY <2>3, <3>2, <4>1 DEF WriterInv, IInv, OneWriterPerVersion, InDirectory
        <5>. QED BY <5>1, OwnDirectory DEF disk, InDirectory
      <4>. QED BY <4>1, <4>2, <4>3, OneDirectory DEF WriterInv
    <3>. QED BY <3>1, <3>2
  <2>. QED BY <2>1, <2>2, <2>3 DEF DirectoryInOrder
<1>3. FromARun'
  <2>1. (\A q \in Run : model'[q] \in Artifacts) /\ started' <= MaxStarts
    <3>1. CASE Start(r)
      <4>1. started \in Nat /\ started < MaxStarts /\ model \in [Run -> Model]
        BY <3>1 DEF Start, WriterInv, IInv, TypeOK
      <4>. QED BY <3>1, <4>1 DEF Start, WriterInv, FromARun, Artifacts, Model
    <3>2. CASE ~ Start(r)
      <4>1. UNCHANGED <<model, started>>
        BY <3>2 DEF Read, Write, Die, ListVersions, LoadIncumbent, Evaluate, CheckAbsent,
           MakeVersionDir, SaveModel, RenameArtifact, HashArtifact, CheckManifestAbsent,
           OpenManifest, FlushManifest
      <4>. QED BY <4>1 DEF WriterInv, FromARun
    <3>. QED BY <3>1, <3>2
  <2>2. \A v \in Version : {saved'[v], artifact'[v]} \subseteq Artifacts \cup {NoFile}
    <3>1. {saved'[candidate[r]], artifact'[candidate[r]]} \subseteq Artifacts \cup {NoFile}
      <4>1. /\ saved \in [Version -> Content] /\ artifact \in [Version -> Content]
            /\ {saved[candidate[r]], artifact[candidate[r]], model[r]}
                 \subseteq Artifacts \cup {NoFile}
        BY <1>1 DEF WriterInv, FromARun, IInv, TypeOK
      <4>2. saved'[candidate[r]] \in {saved[candidate[r]], model[r], NoFile}
        BY <1>1, <4>1, OwnDirectory DEF disk
      <4>3. artifact'[candidate[r]] \in {artifact[candidate[r]], saved[candidate[r]]}
        BY <1>1, <4>1, OwnDirectory DEF disk
      <4>. QED BY <4>1, <4>2, <4>3
    <3>. QED BY <3>1, OneDirectory DEF WriterInv, FromARun
  <2>3. started' <= MaxStarts
    BY <2>1
  <2>. QED BY <2>1, <2>2, <2>3 DEF FromARun
<1>. QED BY <1>2, <1>3

\* A directory keeps the artifact it first held, and its history records it.
LEMMA OriginKept ==
    ASSUME WriterInv, IInv', NEW r \in Run, Start(r) \/ Read(r) \/ Write(r) \/ Die(r),
           RecordTree
    PROVE  OriginIsArtifact'
<1>1. ASSUME NEW d \in Dir
      PROVE  (IF origin[d] = NoFile THEN Tree'[d].artifact ELSE origin[d]) = artifact'[d[2]]
  <2>1. origin[d] = artifact[d[2]] /\ Tree'[d].artifact = artifact'[d[2]] /\ d[2] \in Version
    BY DirIs DEF WriterInv, OriginIsArtifact, Tree
  <2>2. artifact[d[2]] # NoFile => artifact'[d[2]] = artifact[d[2]]
    <3>1. CASE d[2] # candidate[r]
      BY <2>1, <3>1, OneDirectory DEF WriterInv
    <3>2. CASE d[2] = candidate[r]
      BY <3>2, OwnDirectory DEF disk
    <3>. QED BY <3>1, <3>2
  <2>. QED BY <2>1, <2>2
<1>. QED BY <1>1 DEF RecordTree, OriginIsArtifact

LEMMA WriterKept ==
    ASSUME WriterInv, [ServiceNext]_serviceVars
    PROVE  WriterInv'
<1>1. CASE UNCHANGED <<vars, origin>> /\ steady' \subseteq Dir
  <2>1. IInv'
    BY <1>1, IInvNext DEF WriterInv
  <2>. QED
    BY <1>1, <2>1 DEF WriterInv, DirectoryInOrder, FromARun, OriginIsArtifact, vars, disk
<1>2. CASE WriterStep
  <2>1. PICK r \in Run : Start(r) \/ Read(r) \/ Write(r) \/ Die(r)
    BY <1>2 DEF WriterStep, Next
  <2>2. IInv'
    BY <1>2, IInvNext DEF WriterInv, WriterStep
  <2>3. RecordTree /\ steady' \subseteq Dir
    BY <1>2 DEF WriterInv, WriterStep, Unnoticed, RecordTree
  <2>. QED
    BY <2>1, <2>2, <2>3, OrderKept, OriginKept DEF WriterInv
<1>3. CASE LoaderStep
  <2>1. UNCHANGED origin /\ steady' \subseteq Dir
    BY <1>3 DEF LoaderStep, Loader!Startup, Loader!Restart, Loader!Boot, Loader!Discover,
       Loader!ModelWithdrawn, Loader!Discovered, Loader!ReadManifest, Loader!FindArtifact,
       Loader!Checksum,
       Loader!Deserialize, Loader!Probe, Loader!CompileRows, Loader!tree, Loader!Dir, Dir, WriterInv
  <2>. QED BY <1>1, <1>3, <2>1 DEF LoaderStep
<1>4. CASE UNCHANGED serviceVars
  BY <1>1, <1>4 DEF serviceVars, history, WriterInv
<1>. QED
  BY <1>2, <1>3, <1>4 DEF ServiceNext

\* The files of the directories, and what the history says of them, at every
\* step of every process and of the service.
THEOREM WritersKeepOrder == ServiceSpec => []WriterInv
  BY WriterInit, WriterKept, PTL DEF ServiceSpec
-----------------------------------------------------------------------------
(* Refinement: the writers are an environment of RegistryLoader.           *)

\* The stages of a directory, one by one.
LEMMA StagesAre ==
    ASSUME NEW d
    PROVE  /\ [exists |-> FALSE, manifest |-> NoManifest, artifact |-> NoFile] \in Stages(d)
           /\ [exists |-> TRUE, manifest |-> NoManifest, artifact |-> NoFile] \in Stages(d)
           /\ \A c \in Artifacts : \A m \in {NoManifest, Torn, ManifestOf(d[2], c)} :
                 [exists |-> TRUE, manifest |-> m, artifact |-> c] \in Stages(d)
<1>. DEFINE Manifests(c) == {NoManifest, Torn, ManifestOf(d[2], c)}
            Holding(c) == {[exists |-> TRUE, manifest |-> m, artifact |-> c] : m \in Manifests(c)}
<1>1. \A c \in Artifacts : \A m \in Manifests(c) :
         [exists |-> TRUE, manifest |-> m, artifact |-> c] \in Holding(c)
  OBVIOUS
<1>2. /\ [exists |-> FALSE, manifest |-> NoManifest, artifact |-> NoFile] \in Stages(d)
      /\ [exists |-> TRUE, manifest |-> NoManifest, artifact |-> NoFile] \in Stages(d)
      /\ UNION {Holding(c) : c \in Artifacts} \subseteq Stages(d)
  BY Zenon DEF Stages
<1>. HIDE DEF Holding, Manifests
<1>3. \A c \in Artifacts : Holding(c) \subseteq UNION {Holding(b) : b \in Artifacts}
  OBVIOUS
<1>4. \A c \in Artifacts : \A m \in Manifests(c) :
         [exists |-> TRUE, manifest |-> m, artifact |-> c] \in Stages(d)
  BY <1>1, <1>2, <1>3, Zenon
<1>. QED BY <1>2, <1>4 DEF Manifests

\* Wherever the writers are, a directory is at one of its stages.
AtStages == \A d \in Dir : Tree[d] \in Stages(d)

LEMMA AtAStage == WriterInv => AtStages
<1>. SUFFICES ASSUME WriterInv, NEW d \in Dir PROVE Tree[d] \in Stages(d)
  BY DEF AtStages
<1>. DEFINE v == d[2]
<1>1. /\ v \in Version
      /\ Tree[d] = [exists |-> v \in dirs, manifest |-> ManifestFile(manifest[v]),
                    artifact |-> artifact[v]]
  BY DirIs DEF Tree
<1>2. artifact[v] \in Artifacts \cup {NoFile}
  BY <1>1 DEF WriterInv, FromARun
<1>3. CASE manifest[v] = NoManifest
  <2>1. Tree[d] = [exists |-> v \in dirs, manifest |-> NoManifest, artifact |-> artifact[v]]
    BY <1>1, <1>3 DEF ManifestFile
  <2>2. v \notin dirs => artifact[v] = NoFile
    BY <1>1 DEF WriterInv, DirectoryInOrder
  <2>3. CASE artifact[v] = NoFile
    <3>1. CASE v \in dirs
      BY <2>1, <2>3, <3>1, StagesAre DEF Artifacts
    <3>2. CASE v \notin dirs
      <4>1. Tree[d] = [exists |-> FALSE, manifest |-> NoManifest, artifact |-> NoFile]
        <5>1. (v \in dirs) = FALSE
          BY <3>2
        <5>. QED BY <2>1, <2>3, <5>1, Zenon
      <4>. QED BY <4>1, StagesAre
    <3>. QED BY <3>1, <3>2
  <2>4. CASE artifact[v] # NoFile
    BY <1>2, <2>1, <2>2, <2>4, StagesAre
  <2>. QED BY <2>3, <2>4
<1>4. CASE manifest[v] = Torn
  <2>1. v \in dirs /\ artifact[v] \in Artifacts
    BY <1>1, <1>2, <1>4 DEF WriterInv, DirectoryInOrder, IInv, ManifestsInDirs
  <2>2. Tree[d] = [exists |-> TRUE, manifest |-> Torn, artifact |-> artifact[v]]
    BY <1>1, <1>4, <2>1 DEF ManifestFile
  <2>. QED BY <2>1, <2>2, StagesAre
<1>5. CASE manifest[v] \in Manifest
  <2>1. /\ v \in dirs /\ artifact[v] \in Artifacts
        /\ manifest[v].version = v /\ manifest[v].sha = artifact[v]
    BY <1>1, <1>2, <1>5 DEF WriterInv, IInv, PublishedIntact, Published
  <2>2. ManifestFile(manifest[v]) = ManifestOf(v, artifact[v])
    BY <1>5, <2>1 DEF ManifestFile
  <2>3. Tree[d] = [exists |-> TRUE, manifest |-> ManifestOf(v, artifact[v]), artifact |-> artifact[v]]
    BY <1>1, <2>1, <2>2
  <2>. QED BY <2>1, <2>3, StagesAre
<1>. QED
  BY <1>1, <1>3, <1>4, <1>5 DEF WriterInv, IInv, TypeOK

LEMMA AtAStageNext == WriterInv' => AtStages'
  BY AtAStage, PTL

LEMMA LoaderStarts == ServiceInit => Loader!Init
<1>. SUFFICES ASSUME ServiceInit PROVE Loader!Init
  OBVIOUS
<1>. DEFINE contents == [d \in Dir |-> Stages(d)]
<1>1. WriterInv
  BY WriterInit
<1>2. Tree \in [Dir -> UNION {contents[d] : d \in Dir}] /\ \A d \in Dir : Tree[d] \in contents[d]
  <2>1. \A d \in Dir : Tree[d] \in contents[d]
    BY <1>1, AtAStage DEF AtStages
  <2>. QED BY <2>1 DEF Tree
<1>3. ASSUME NEW d \in Dir PROVE Tree[d].artifact = Loader!Vouched(Tree[d])
  <2>1. Tree[d].artifact = artifact[d[2]] /\ Tree[d].manifest = ManifestFile(manifest[d[2]])
        /\ d[2] \in Version
    BY DirIs DEF Tree
  <2>2. CASE artifact[d[2]] = NoFile
    BY <2>1, <2>2 DEF Loader!Vouched
  <2>3. CASE artifact[d[2]] # NoFile
    <3>1. d[2] = FirstVersion /\ artifact[d[2]] = 0 /\ manifest[d[2]] \in Manifest
      BY <2>1, <2>3 DEF ServiceInit, Init, Manifest, Content, Model
    <3>2. manifest[d[2]].version = d[2] /\ manifest[d[2]].sha = 0
      BY <1>1, <2>1, <3>1 DEF WriterInv, IInv, PublishedIntact, Published
    <3>3. Tree[d].manifest = ManifestOf(d[2], 0)
      BY <2>1, <3>1, <3>2 DEF ManifestFile
    <3>4. ManifestOf(d[2], 0) \in Loader!Manifest /\ ManifestOf(d[2], 0).sha = 0
      BY <2>1, BoundAssumption DEF ManifestOf, Loader!Manifest, Artifacts
    <3>. QED BY <2>1, <3>1, <3>3, <3>4 DEF Loader!Vouched
  <2>. QED BY <2>2, <2>3
<1>4. origin = [d \in Dir |-> Loader!Vouched(Tree[d])]
  BY <1>3 DEF ServiceInit
<1>5. Loader!Dir = Dir
  BY DEF Loader!Dir, Dir
<1>. HIDE DEF contents
<1>. QED
  BY <1>2, <1>4, <1>5 DEF ServiceInit, Loader!Init, contents

\* A step of a writer is a change of one directory as the loader allows it, or
\* nothing the loader could see.
LEMMA WriterIsEnvironment ==
    ASSUME WriterInv, WriterInv', WriterStep
    PROVE  Loader!Environment \/ UNCHANGED Loader!vars
<1>1. PICK r \in Run : Start(r) \/ Read(r) \/ Write(r) \/ Die(r)
  BY DEF WriterStep, Next
<1>2. UNCHANGED <<loaderVars>> /\ RecordTree
  BY DEF WriterStep, Unnoticed
<1>. DEFINE d == <<ModelId, candidate[r]>>
<1>3. d \in Dir /\ \A e \in Dir \ {d} : Tree'[e] = Tree[e]
  BY <1>1, OneDirectory, DirIs DEF WriterInv, Tree, Dir
<1>4. CASE Tree'[d] = Tree[d]
  <2>1. Tree' = Tree
    BY <1>3, <1>4 DEF Tree
  <2>2. UNCHANGED origin
    BY <2>1 DEF WriterInv, OriginIsArtifact, Tree
  <2>3. steady' = steady
    BY <1>2, <2>1 DEF RecordTree
  <2>. QED
    BY <1>2, <2>1, <2>2, <2>3 DEF Loader!vars, Loader!tree, Loader!loading, Loader!registry,
       loaderVars
<1>5. CASE Tree'[d] # Tree[d]
  <2>1. Tree'[d] \in Stages(d)
    BY <1>3, AtAStageNext DEF AtStages, Stages
  <2>2. Tree' = [Tree EXCEPT ![d] = Tree'[d]]
    BY <1>3 DEF Tree
  <2>3. origin[d] # NoFile => Tree'[d].artifact \in {origin[d], NoFile}
    <3>1. origin[d] = artifact[d[2]] /\ origin'[d] = Tree'[d].artifact
      BY <1>3 DEF WriterInv, OriginIsArtifact, Tree
    <3>2. origin[d] # NoFile => origin'[d] = origin[d]
      BY <1>2, <1>3 DEF RecordTree
    <3>. QED BY <3>1, <3>2
  <2>4. origin' = [origin EXCEPT ![d] = IF origin[d] = NoFile THEN Tree'[d].artifact ELSE origin[d]]
    <3>1. \A e \in Dir \ {d} : origin[e] = NoFile => Tree'[e].artifact = origin[e]
      BY <1>3 DEF WriterInv, OriginIsArtifact, Tree
    <3>. QED BY <1>2, <1>3, <3>1 DEF RecordTree, WriterInv, OriginIsArtifact
  <2>5. steady' = steady \ {d}
    BY <1>2, <1>3, <1>5 DEF RecordTree, WriterInv
  <2>6. Loader!Change(d, Tree'[d])
    BY <1>2, <1>5, <2>2, <2>3, <2>4, <2>5 DEF Loader!Change, Loader!loading,
       Loader!registry, loaderVars
  <2>7. d \in Loader!Dir /\ Tree'[d] \in [e \in Dir |-> Stages(e)][d]
    BY <1>3, <2>1 DEF Loader!Dir, Dir
  <2>. QED BY <2>6, <2>7 DEF Loader!Environment
<1>. QED BY <1>4, <1>5

\* The retrains are an environment the loader's specification allows for.
THEOREM Implements == ServiceSpec => ImplementsLoader
<1>1. WriterInv /\ WriterInv' /\ [ServiceNext]_serviceVars => [Loader!Next]_(Loader!vars)
  <2>. SUFFICES ASSUME WriterInv, WriterInv', [ServiceNext]_serviceVars
                PROVE  Loader!Next \/ UNCHANGED Loader!vars
    OBVIOUS
  <2>1. CASE WriterStep
    BY <2>1, WriterIsEnvironment DEF Loader!Next
  <2>2. CASE LoaderStep
    BY <2>2 DEF LoaderStep, Loader!Next
  <2>3. CASE UNCHANGED serviceVars
    <3>1. UNCHANGED Tree
      BY <2>3 DEF Tree, serviceVars, vars, disk
    <3>. QED
      BY <2>3, <3>1 DEF serviceVars, loaderVars, history, Loader!vars, Loader!tree,
         Loader!loading, Loader!registry
  <2>. QED BY <2>1, <2>2, <2>3 DEF ServiceNext
<1>. QED
  BY <1>1, LoaderStarts, WritersKeepOrder, PTL DEF ServiceSpec, ImplementsLoader, Loader!Spec
-----------------------------------------------------------------------------
(* What is in memory is what is on the disk.                               *)

\* load_manifest() got this manifest from this directory, and would again.
Registered(d, m) == d \in Dir /\ m = Tree[d].manifest /\ m \in Loader!Manifest

\* From the moment an entry is read.
HeldIsRegistered ==
    /\ entry # None => Registered(entry, opened)
    /\ entry # None /\ stage = "probe" => emulator = Tree[entry].artifact
    /\ \A m \in models : Registered(m.key, m.manifest) /\ m.emulator = Tree[m.key].artifact

\* Such a directory is complete, and no process touches it again.
LEMMA CompleteIsPublished ==
    ASSUME WriterInv, NEW d, NEW m, Registered(d, m)
    PROVE  d[2] \in Published /\ m = ManifestFile(manifest[d[2]])
<1>1. d[2] \in Version /\ m = ManifestFile(manifest[d[2]]) /\ m \in Loader!Manifest
  BY DirIs DEF Registered, Tree
<1>2. manifest[d[2]] \notin {NoManifest, Torn}
  BY <1>1, ServiceAssumption DEF ManifestFile
<1>. QED BY <1>1, <1>2 DEF WriterInv, IInv, TypeOK, Published

LEMMA RegisteredStays ==
    ASSUME WriterInv, [Next]_vars, NEW d, NEW m, Registered(d, m)
    PROVE  Registered(d, m)' /\ Tree'[d] = Tree[d]
<1>1. d \in Dir /\ d[2] \in Published /\ d[2] \in Version
  BY CompleteIsPublished DEF Registered, Published
<1>2. /\ d[2] \in dirs' <=> d[2] \in dirs
      /\ manifest'[d[2]] = manifest[d[2]] /\ artifact'[d[2]] = artifact[d[2]]
  <2>1. CASE UNCHANGED vars
    BY <2>1 DEF vars, disk
  <2>2. CASE Next
    <3>1. PICK r \in Run : Start(r) \/ Read(r) \/ Write(r) \/ Die(r)
      BY <2>2 DEF Next
    <3>2. CASE candidate[r] # d[2]
      BY <1>1, <3>1, <3>2, OneDirectory DEF WriterInv
    <3>3. CASE candidate[r] = d[2]
      <4>1. pc[r] \notin InDirectory /\ d[2] \in dirs
        BY <1>1, <3>3 DEF WriterInv, IInv, OwnFiles, Published, PublishedIntact
      <4>. QED BY <3>1, <3>3, <4>1, OwnDirectory DEF InDirectory, disk
    <3>. QED BY <3>2, <3>3
  <2>. QED BY <2>1, <2>2
<1>3. Tree'[d] = Tree[d]
  BY <1>1, <1>2 DEF Tree, ManifestFile
<1>. QED BY <1>1, <1>3 DEF Registered, Loader!Manifest, Dir

\* The steps of the loader: what it reads of a directory is what is there.
LEMMA HeldByLoader ==
    ASSUME WriterInv, HeldIsRegistered, LoaderStep
    PROVE  HeldIsRegistered'
<1>1. UNCHANGED Tree
  BY DEF LoaderStep, vars, disk, Tree
<1>2. \A d, m : Registered(d, m) => Registered(d, m)'
  BY <1>1 DEF Registered, Loader!Manifest, Dir
<1>3. CASE Loader!Boot
  BY <1>1, <1>2, <1>3 DEF HeldIsRegistered, Loader!Boot, Loader!loading
<1>4. CASE \/ (\E d \in Loader!Dir : Loader!Discover(d)) \/ Loader!ModelWithdrawn(ModelId)
           \/ Loader!Discovered \/ Loader!CompileRows
  BY <1>1, <1>2, <1>4 DEF HeldIsRegistered, Loader!Discover, Loader!ModelWithdrawn, Loader!Discovered,
     Loader!CompileRows, Loader!loading, Loader!registry
<1>5. ASSUME NEW d \in Loader!Dir, Loader!ReadManifest(d) PROVE HeldIsRegistered'
  <2>1. UNCHANGED models
    BY <1>5 DEF Loader!ReadManifest, Loader!RegistryError, Loader!OtherError, Loader!Proceed,
       Loader!registry
  <2>2. \/ entry' = None
        \/ entry' = d /\ opened' = Tree[d].manifest /\ opened' \in Loader!Manifest
           /\ stage' = "artifact"
    BY <1>5 DEF Loader!ReadManifest, Loader!RegistryError, Loader!OtherError, Loader!NextEntry,
       Loader!Proceed
  <2>3. d \in Dir
    BY DEF Loader!Dir, Dir
  <2>. QED
    BY <1>1, <1>2, <2>1, <2>2, <2>3 DEF HeldIsRegistered, Registered
<1>6. CASE Loader!FindArtifact \/ Loader!Checksum \/ Loader!Deserialize
  <2>1. UNCHANGED models
    BY <1>6 DEF Loader!FindArtifact, Loader!Checksum, Loader!Deserialize, Loader!RegistryError,
       Loader!OtherError, Loader!Proceed, Loader!registry
  <2>2. \/ entry' = None
        \/ /\ UNCHANGED <<entry, opened>>
           /\ stage' = "probe" => emulator' = Tree[entry].artifact
    BY <1>6 DEF Loader!FindArtifact, Loader!Checksum, Loader!Deserialize, Loader!RegistryError,
       Loader!OtherError, Loader!NextEntry, Loader!Proceed
  <2>. QED
    BY <1>1, <1>2, <2>1, <2>2 DEF HeldIsRegistered
<1>7. CASE Loader!Probe
  <2>1. entry' = None /\ entry # None /\ stage = "probe"
    BY <1>7 DEF Loader!Probe, Loader!Working, Loader!RegistryError, Loader!OtherError, Loader!NextEntry
  <2>2. \A m \in models' : \/ m \in models
                          \/ /\ m.key = entry /\ m.manifest = opened
                             /\ m.emulator = emulator
    BY <1>7 DEF Loader!Probe, Loader!RegistryError, Loader!OtherError, Loader!registry
  <2>. QED
    BY <1>1, <1>2, <2>1, <2>2 DEF HeldIsRegistered
<1>8. CASE Loader!Restart
  BY <1>8 DEF HeldIsRegistered, Loader!Restart, Loader!NextEntry
<1>. QED
  BY <1>3, <1>4, <1>5, <1>6, <1>7, <1>8 DEF LoaderStep, Loader!Startup

LEMMA HeldAlways == ServiceSpec => []HeldIsRegistered
<1>1. ServiceInit => HeldIsRegistered
  BY DEF ServiceInit, HeldIsRegistered
<1>2. WriterInv /\ HeldIsRegistered /\ [ServiceNext]_serviceVars => HeldIsRegistered'
  <2>. SUFFICES ASSUME WriterInv, HeldIsRegistered, [ServiceNext]_serviceVars
                PROVE  HeldIsRegistered'
    OBVIOUS
  <2>1. CASE LoaderStep
    BY <2>1, HeldByLoader
  <2>2. CASE WriterStep \/ UNCHANGED serviceVars
    <3>1. [Next]_vars /\ UNCHANGED loaderVars
      BY <2>2 DEF WriterStep, Unnoticed, serviceVars
    <3>. QED
      BY <3>1, RegisteredStays DEF HeldIsRegistered, loaderVars, Registered
  <2>. QED BY <2>1, <2>2 DEF ServiceNext
<1>. QED
  BY <1>1, <1>2, WritersKeepOrder, PTL DEF ServiceSpec

\* However long a service has been up and whoever publishes meanwhile, its
\* models are the registry's.
THEOREM NeverStale == ServiceSpec => []ServedIsRegistered
<1>1. WriterInv /\ HeldIsRegistered => ServedIsRegistered
  <2>. SUFFICES ASSUME WriterInv, HeldIsRegistered, NEW m \in models
                PROVE  LET v == m.key[2] IN
                       /\ v \in Published
                       /\ m.manifest = ManifestFile(manifest[v])
                       /\ m.emulator = artifact[v]
    BY DEF ServedIsRegistered
  <2>1. Registered(m.key, m.manifest) /\ m.emulator = Tree[m.key].artifact
    BY DEF HeldIsRegistered
  <2>2. Tree[m.key].artifact = artifact[m.key[2]]
    BY <2>1 DEF Registered, Tree
  <2>. QED BY <2>1, <2>2, CompleteIsPublished
<1>. QED
  BY <1>1, HeldAlways, WritersKeepOrder, PTL
-----------------------------------------------------------------------------
(* What is proved of the loader holds of the service among its writers.    *)

LoaderProofs == INSTANCE RegistryLoaderProofs
                WITH Id <- {ModelId}, Content <- Artifacts,
                     Emulator <- [c \in Artifacts |-> Trained(c)],
                     Contents <- [d \in Dir |-> Stages(d)],
                     Malformed <- Torn, disk <- Tree, manifest <- opened

\* What RegistryLoader assumes of its constants is true of the writers'.
LEMMA TrainedEmulators == LoaderProofs!EmulatorAssumption
  BY DEF LoaderProofs!EmulatorAssumption, LoaderProofs!EmulatorRecord, LoaderProofs!Dtype, Trained

LEMMA StagesAreFiles == LoaderProofs!FilesAssumption
<1>. DEFINE contents == [d \in Dir |-> Stages(d)]
<1>1. ASSUME NEW d \in Dir PROVE Stages(d) \subseteq LoaderProofs!Files
  <2>1. \A c \in Artifacts : ManifestOf(d[2], c) \in LoaderProofs!Manifest
    BY DirIs DEF ManifestOf, LoaderProofs!Manifest
  <2>. SUFFICES ASSUME NEW files \in Stages(d) PROVE files \in LoaderProofs!Files
    OBVIOUS
  <2>2. \/ \E present \in BOOLEAN :
              files = [exists |-> present, manifest |-> NoManifest, artifact |-> NoFile]
        \/ \E c \in Artifacts : \E m \in {NoManifest, Torn, ManifestOf(d[2], c)} :
              files = [exists |-> TRUE, manifest |-> m, artifact |-> c]
    BY DEF Stages
  <2>3. ASSUME NEW present \in BOOLEAN,
               files = [exists |-> present, manifest |-> NoManifest, artifact |-> NoFile]
        PROVE  files \in LoaderProofs!Files
    BY <2>3 DEF LoaderProofs!Files
  <2>4. ASSUME NEW c \in Artifacts, NEW m \in {NoManifest, Torn, ManifestOf(d[2], c)},
               files = [exists |-> TRUE, manifest |-> m, artifact |-> c]
        PROVE  files \in LoaderProofs!Files
    BY <2>1, <2>4 DEF LoaderProofs!Files
  <2>. QED BY <2>2, <2>3, <2>4
<1>2. contents \in [LoaderProofs!Dir -> SUBSET LoaderProofs!Files]
  BY <1>1 DEF LoaderProofs!Dir, Dir
<1>3. {NoManifest, Torn, Undecodable} \cap LoaderProofs!Manifest = {}
  BY ServiceAssumption DEF Loader!Manifest, LoaderProofs!Manifest
<1>4. {NoFile, NoSha} \cap Artifacts = {} /\ None \notin LoaderProofs!Dir
  BY ServiceAssumption DEF NoFile, Artifacts, LoaderProofs!Dir, Dir
<1>. QED BY <1>2, <1>3, <1>4 DEF LoaderProofs!FilesAssumption

LEMMA VersionsAreSemver == LoaderProofs!VersionAssumption
  BY DEF LoaderProofs!VersionAssumption, LoaderProofs!Semver, Semver

\* The two instances of RegistryLoader are one specification.
LEMMA SameStart == Loader!Init <=> LoaderProofs!Init
  BY DEF Loader!Init, LoaderProofs!Init, Loader!Dir, LoaderProofs!Dir, Loader!Vouched,
         LoaderProofs!Vouched, Loader!Manifest, LoaderProofs!Manifest

LEMMA SameSteps == [Loader!Next]_(Loader!vars) <=> [LoaderProofs!Next]_(LoaderProofs!vars)
  BY DEF Loader!Boot, LoaderProofs!Boot, Loader!Discover, LoaderProofs!Discover,
         Loader!HasVersion, LoaderProofs!HasVersion, Loader!ModelWithdrawn,
         LoaderProofs!ModelWithdrawn, Loader!Discovered, LoaderProofs!Discovered, Loader!ReadManifest,
         LoaderProofs!ReadManifest, Loader!FindArtifact, LoaderProofs!FindArtifact,
         Loader!Checksum, LoaderProofs!Checksum, Loader!Deserialize, LoaderProofs!Deserialize,
         Loader!Probe, LoaderProofs!Probe, Loader!CompileRows, LoaderProofs!CompileRows,
         Loader!Restart, LoaderProofs!Restart, Loader!Change, LoaderProofs!Change,
         Loader!Environment, LoaderProofs!Environment, Loader!Startup, LoaderProofs!Startup,
         Loader!Next, LoaderProofs!Next, Loader!NextEntry, LoaderProofs!NextEntry,
         Loader!RegistryError, LoaderProofs!RegistryError, Loader!OtherError,
         LoaderProofs!OtherError, Loader!Proceed, LoaderProofs!Proceed, Loader!Working,
         LoaderProofs!Working, Loader!ProbeOk, LoaderProofs!ProbeOk, Loader!Negotiated,
         LoaderProofs!Negotiated, Loader!Accepts, LoaderProofs!Accepts, Loader!Valid,
         LoaderProofs!Valid, Loader!Dir, LoaderProofs!Dir, Loader!Manifest,
         LoaderProofs!Manifest, Loader!tree, LoaderProofs!tree, Loader!loading,
         LoaderProofs!loading, Loader!registry, LoaderProofs!registry, Loader!vars,
         LoaderProofs!vars

LEMMA SamePromises ==
    /\ Loader!ServedIsVerified <=> LoaderProofs!ServedIsVerified
    /\ Loader!EveryEntryAccounted <=> LoaderProofs!EveryEntryAccounted
    /\ Loader!SteadyIsServed <=> LoaderProofs!SteadyIsServed
  BY DEF Loader!ServedIsVerified, LoaderProofs!ServedIsVerified, Loader!EveryEntryAccounted,
         LoaderProofs!EveryEntryAccounted, Loader!SteadyIsServed, LoaderProofs!SteadyIsServed,
         Loader!Keys, LoaderProofs!Keys, Loader!Health, LoaderProofs!Health, Loader!Accepts,
         LoaderProofs!Accepts

LEMMA LoaderIsProved ==
    LoaderProofs!Spec => [](/\ LoaderProofs!ServedIsVerified
                           /\ LoaderProofs!EveryEntryAccounted
                           /\ LoaderProofs!SteadyIsServed)
<1>1. LoaderProofs!Spec => []LoaderProofs!ServedIsVerified
  BY TrainedEmulators, StagesAreFiles, VersionsAreSemver, LoaderProofs!Verified
<1>2. LoaderProofs!Spec => []LoaderProofs!EveryEntryAccounted
  BY TrainedEmulators, StagesAreFiles, VersionsAreSemver, LoaderProofs!Accounting
<1>3. LoaderProofs!Spec => []LoaderProofs!SteadyIsServed
  BY TrainedEmulators, StagesAreFiles, VersionsAreSemver, LoaderProofs!Kept
<1>. QED BY <1>1, <1>2, <1>3, PTL

\* Among any retrains, what the service serves is verified, every manifest it
\* saw is served or on /health, and every version that was complete when it
\* started is served.
THEOREM PromisesKept ==
    ServiceSpec => [](/\ Loader!ServedIsVerified
                      /\ Loader!EveryEntryAccounted
                      /\ Loader!SteadyIsServed)
<1>1. Loader!Spec => LoaderProofs!Spec
  BY SameStart, SameSteps, PTL DEF Loader!Spec, LoaderProofs!Spec
<1>. QED
  BY <1>1, Implements, LoaderIsProved, SamePromises, PTL DEF ImplementsLoader
-----------------------------------------------------------------------------
(* Rollbacks: what they leave of the registry's promises.                  *)

\* A version goes with everything that is in its directory, and one that is
\* older stays: nobody is at work then who relies on either.
LEMMA RollbackStep ==
    ASSUME IInv, NEW v \in Version, Rollback(v)
    PROVE  /\ IInv'
           /\ Registry!Withdraw(v)
<1>1. /\ dirs' = dirs \ {v}
      /\ artifact' = [artifact EXCEPT ![v] = NoFile]
      /\ manifest' = [manifest EXCEPT ![v] = NoManifest]
      /\ UNCHANGED <<saved, pc, bump, dry, seen, incumbent, candidate, score, model, sha, started,
                     deaths>>
      /\ v \in Published
      /\ \A r \in Run : pc'[r] \in Ended
  BY DEF Rollback, config
<1>2. PICK u \in Published : VersionLess(u, v)
  BY DEF Rollback
<1>3. Published' = Published \ {v}
  BY <1>1 DEF IInv, TypeOK, Published
<1>4. TypeOK'
  BY <1>1 DEF IInv, TypeOK, Content
<1>5. ManifestsInDirs' /\ PublishedIntact'
  BY <1>1, <1>3 DEF IInv, TypeOK, ManifestsInDirs, PublishedIntact, Published
<1>6. Rooted'
  BY <1>2, <1>3 DEF IInv, Rooted
<1>7. OneWriterPerVersion' /\ OwnFiles' /\ IncumbentIsPublished' /\ CandidateDescends'
  BY <1>1 DEF OneWriterPerVersion, OwnFiles, IncumbentIsPublished, CandidateDescends, Ended,
              Active, InDirectory
<1>8. ReaderView' = [ReaderView EXCEPT ![v] = NoManifest]
  <2>1. \A w \in Version \ {v} : manifest'[w] = manifest[w] /\ artifact'[w] = artifact[w]
    BY <1>1 DEF IInv, TypeOK
  <2>2. manifest'[v] = NoManifest
    BY <1>1 DEF IInv, TypeOK
  <2>3. ReaderView'[v] = NoManifest
    BY <2>2 DEF ReaderView
  <2>4. \A w \in Version \ {v} : ReaderView'[w] = ReaderView[w]
    BY <2>1 DEF ReaderView
  <2>5. /\ ReaderView' = [w \in Version |-> ReaderView'[w]]
        /\ ReaderView = [w \in Version |-> ReaderView[w]]
    BY DEF ReaderView
  <2>. QED BY <2>3, <2>4, <2>5
<1>9. Registry!Withdraw(v)
  <2>1. u \in Version /\ Registry!VersionLess(u, v)
    BY <1>2 DEF Published, VersionLess, Registry!VersionLess
  <2>2. ReaderView[u] # NoManifest /\ ReaderView[v] # NoManifest
    BY <1>1, <2>1, Visible DEF IInv
  <2>. QED BY <1>8, <2>1, <2>2 DEF Registry!Withdraw
<1>. QED BY <1>4, <1>5, <1>6, <1>7, <1>9 DEF IInv

RollbackNext == ServiceNext \/ \E v \in Version : Rollback(v)

LEMMA RollbackKept == IInv /\ [RollbackNext]_serviceVars => IInv'
<1>1. ASSUME IInv, NEW v \in Version, Rollback(v) PROVE IInv'
  BY <1>1, RollbackStep
<1>2. ASSUME IInv, [ServiceNext]_serviceVars PROVE IInv'
  <2>1. [Next]_vars
    BY <1>2 DEF ServiceNext, WriterStep, LoaderStep, serviceVars
  <2>. QED BY <1>2, <2>1, IInvNext
<1>. QED BY <1>1, <1>2 DEF RollbackNext

\* Rollbacks cost nothing but permanence: every complete manifest still vouches
\* for the artifact beside it, and no two runs meet in a directory, though
\* version numbers are used again.
THEOREM IntactAcrossRollbacks == RollbackSpec => [](PublishedIntact /\ OneWriterPerVersion)
<1>1. ServiceInit => IInv
  BY IInvInit DEF ServiceInit
<1>2. RollbackSpec => []IInv
  BY <1>1, RollbackKept, PTL DEF RollbackSpec, RollbackNext
<1>3. IInv => PublishedIntact /\ OneWriterPerVersion
  BY DEF IInv
<1>. QED BY <1>2, <1>3, PTL

\* With rollbacks too, what readers see changes by whole versions only, each of
\* which beats the one it succeeds.
THEOREM RollbackRefinement == RollbackSpec => RefinesWithRollbacks
<1>1. ServiceInit => IInv /\ Registry!RInit
  BY IInvInit, RefinementInit DEF ServiceInit
<1>2. RollbackSpec => []IInv
  BY <1>1, RollbackKept, PTL DEF RollbackSpec, RollbackNext
<1>3. IInv /\ IInv' /\ [RollbackNext]_serviceVars
        => [Registry!RNext \/ \E v \in Version : Registry!Withdraw(v)]_ReaderView
  <2>. SUFFICES ASSUME IInv, IInv', [RollbackNext]_serviceVars, ~ UNCHANGED ReaderView
                PROVE  Registry!RNext \/ \E v \in Version : Registry!Withdraw(v)
    OBVIOUS
  <2>1. ASSUME NEW v \in Version, Rollback(v) PROVE Registry!Withdraw(v)
    BY <2>1, RollbackStep
  <2>2. ASSUME [ServiceNext]_serviceVars PROVE Registry!RNext
    <3>1. [Next]_vars
      BY <2>2 DEF ServiceNext, WriterStep, LoaderStep, serviceVars
    <3>2. PICK r \in Run : FlushManifest(r)
      BY <3>1, HiddenStep
    <3>3. candidate[r] \in Version /\ Registry!Publish(candidate[r])
      BY <3>2, FlushPublishes, FlushWritesManifest DEF IInv
    <3>. QED BY <3>3 DEF Registry!RNext
  <2>. QED BY <2>1, <2>2 DEF RollbackNext
<1>. QED
  BY <1>1, <1>2, <1>3, PTL DEF RollbackSpec, RollbackNext, RefinesWithRollbacks, Registry!WSpec
=============================================================================
