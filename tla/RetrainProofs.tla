--------------------------- MODULE RetrainProofs ---------------------------
(***************************************************************************)
(* Proofs about Retrain, for every set of processes, every set of versions *)
(* and scores, every metric and margin and every number of starts and      *)
(* deaths.                                                                 *)
(***************************************************************************)
EXTENDS Retrain, TLAPS

USE ScoreAssumption, VersionAssumption, ChoiceAssumption, MarkAssumption, BoundAssumption

\* Every variable keeps its type through every step of every process: the
\* bumps that stay within Version are the only ones LoadIncumbent takes.
LEMMA TypeInit == Init => TypeOK
  BY DEF Init, TypeOK, Manifest, TrainedScore, Content, Model, NoFile, Ended

LEMMA TypeNext == TypeOK /\ [Next]_vars => TypeOK'
<1> SUFFICES ASSUME TypeOK, [Next]_vars PROVE TypeOK'
  OBVIOUS
<1>u. CASE UNCHANGED vars
  BY <1>u DEF TypeOK, vars, disk, config
<1> SUFFICES ASSUME NEW r \in Run, Start(r) \/ Read(r) \/ Write(r) \/ Die(r) PROVE TypeOK'
  BY <1>u DEF Next
<1>0. CASE Start(r)
  BY <1>0 DEF TypeOK, Start, disk, Goto, Listed, Model, Active, Ended
<1>1. CASE ListVersions(r)
  BY <1>1 DEF TypeOK, ListVersions, disk, config, Goto, Listed, Active
<1>2. CASE LoadIncumbent(r)
  BY <1>2 DEF TypeOK, LoadIncumbent, disk, config, Goto, Active, Ended
<1>3. CASE Evaluate(r)
  <2>1. \A s : Verdict(r, s) \in Ended \cup Active
    BY DEF Verdict, Ended, Active
  <2> QED BY <1>3, <2>1 DEF TypeOK, Evaluate, disk, config, Goto
<1>4. CASE CheckAbsent(r)
  BY <1>4 DEF TypeOK, CheckAbsent, disk, config, Goto, Active, Ended
<1>5. CASE MakeVersionDir(r)
  BY <1>5 DEF TypeOK, MakeVersionDir, config, Goto, Active, InDirectory, Ended
<1>6. CASE SaveModel(r)
  BY <1>6 DEF TypeOK, SaveModel, Content, config, Goto, Active, InDirectory
<1>7. CASE RenameArtifact(r)
  BY <1>7 DEF TypeOK, RenameArtifact, Content, config, Goto, Active, InDirectory
<1>8. CASE HashArtifact(r)
  BY <1>8 DEF TypeOK, HashArtifact, disk, config, Goto, Active, InDirectory
<1>9. CASE CheckManifestAbsent(r)
  BY <1>9 DEF TypeOK, CheckManifestAbsent, disk, config, Goto, Active, InDirectory, Ended
<1>10. CASE OpenManifest(r)
  BY <1>10 DEF TypeOK, OpenManifest, config, Goto, Active, InDirectory
<1>11. CASE FlushManifest(r)
  BY <1>11 DEF TypeOK, FlushManifest, config, Goto, Ended, Manifest, TrainedScore
<1>12. CASE Die(r)
  BY <1>12 DEF TypeOK, Die, disk, config, Goto, Ended
<1> QED
  BY <1>0, <1>1, <1>2, <1>3, <1>4, <1>5, <1>6, <1>7, <1>8, <1>9, <1>10, <1>11, <1>12
     DEF Read, Write
-----------------------------------------------------------------------------
\* Of the registry a run starts from: nothing, or the committed 1.0.0.
LEMMA IInvInit == Init => IInv
<1> SUFFICES ASSUME Init PROVE IInv
  OBVIOUS
<1>1. TypeOK
  BY TypeInit
<1>2. ManifestsInDirs /\ PublishedIntact
  BY <1>1 DEF Init, ManifestsInDirs, PublishedIntact, Published, NoFile
<1>3. Rooted
  <2>1. ~ VersionLess(FirstVersion, FirstVersion)
    BY DEF VersionLess, FirstVersion
  <2>2. Published \subseteq {FirstVersion}
    BY DEF Init, Published
  <2> QED
    BY <2>1, <2>2 DEF Rooted
<1>4. OneWriterPerVersion /\ OwnFiles /\ IncumbentIsPublished /\ CandidateDescends
  BY DEF Init, OneWriterPerVersion, OwnFiles, IncumbentIsPublished, CandidateDescends,
         InDirectory, Active
<1> QED
  BY <1>1, <1>2, <1>3, <1>4 DEF IInv

\* The parts that speak of the disk alone survive a step that leaves it alone.
LEMMA DiskQuiet ==
  ASSUME IInv, UNCHANGED disk
  PROVE  ManifestsInDirs' /\ PublishedIntact' /\ Rooted'
  BY DEF IInv, disk, ManifestsInDirs, PublishedIntact, Rooted, Published

\* A run that reads, decides or ends: it neither is nor gets inside a directory.
LEMMA ReadStep ==
  ASSUME IInv, NEW r \in Run, Start(r) \/ Read(r), TypeOK'
  PROVE  IInv'
<1>1. UNCHANGED disk /\ pc[r] \notin InDirectory /\ pc'[r] \notin InDirectory
  <2>1. \A s : Verdict(r, s) \notin InDirectory
    BY DEF Verdict, InDirectory
  <2> QED
    BY <2>1 DEF IInv, TypeOK, Start, Read, ListVersions, LoadIncumbent, Evaluate, Goto, Ended,
           InDirectory
<1>2. ManifestsInDirs' /\ PublishedIntact' /\ Rooted'
  BY <1>1, DiskQuiet
<1>3. \A q \in Run \ {r} : /\ pc'[q] = pc[q] /\ candidate'[q] = candidate[q] /\ sha'[q] = sha[q]
                           /\ incumbent'[q] = incumbent[q] /\ bump'[q] = bump[q]
                           /\ score'[q] = score[q]
  BY DEF IInv, TypeOK, Start, Read, ListVersions, LoadIncumbent, Evaluate, Goto, config
<1>4. OneWriterPerVersion' /\ OwnFiles'
  BY <1>1, <1>3 DEF IInv, TypeOK, OneWriterPerVersion, OwnFiles, disk, InDirectory
<1>5. IncumbentIsPublished' /\ CandidateDescends'
  <2>1. CASE Start(r)
    BY <1>1, <1>3, <2>1 DEF IInv, TypeOK, IncumbentIsPublished, CandidateDescends, Start, Goto,
                   disk, InDirectory, Active, Ended
  <2>2. CASE ListVersions(r)
    BY <1>1, <1>3, <2>2 DEF IInv, TypeOK, IncumbentIsPublished, CandidateDescends, ListVersions,
                   Goto, disk, InDirectory, Active
  <2>3. CASE LoadIncumbent(r)
    BY <1>1, <1>3, <2>3 DEF IInv, TypeOK, IncumbentIsPublished, CandidateDescends,
                   PublishedIntact, Published, LoadIncumbent, Goto, disk, config, InDirectory,
                   Active
  <2>4. CASE Evaluate(r)
    BY <1>1, <1>3, <2>4 DEF IInv, TypeOK, IncumbentIsPublished, CandidateDescends, Evaluate,
                   Verdict, Goto, disk, config, InDirectory, Active
  <2> QED
    BY <2>1, <2>2, <2>3, <2>4 DEF Read
<1> QED
  BY <1>2, <1>4, <1>5 DEF IInv

\* A run that is killed leaves the disk as it is and is inside no directory.
LEMMA DieStep ==
  ASSUME IInv, NEW r \in Run, Die(r), TypeOK'
  PROVE  IInv'
<1>1. UNCHANGED disk /\ pc' = [pc EXCEPT ![r] = "dead"]
  BY DEF Die, Goto
<1>2. ManifestsInDirs' /\ PublishedIntact' /\ Rooted'
  BY <1>1, DiskQuiet
<1>3. OneWriterPerVersion' /\ OwnFiles' /\ IncumbentIsPublished' /\ CandidateDescends'
  BY <1>1 DEF IInv, TypeOK, OneWriterPerVersion, OwnFiles, IncumbentIsPublished,
              CandidateDescends, Die, disk, config, InDirectory, Active
<1> QED
  BY <1>2, <1>3 DEF IInv

\* A run that meets its candidate's directory, or creates it: it was nobody's,
\* so nobody else is inside it, and it holds no manifest.
LEMMA EnterStep ==
  ASSUME IInv, NEW r \in Run, CheckAbsent(r) \/ MakeVersionDir(r), TypeOK'
  PROVE  IInv'
<1>1. CASE UNCHANGED dirs
  <2>1. UNCHANGED disk /\ pc[r] \notin InDirectory /\ pc'[r] \notin InDirectory
    BY <1>1 DEF IInv, TypeOK, CheckAbsent, MakeVersionDir, Goto, disk, InDirectory
  <2>2. ManifestsInDirs' /\ PublishedIntact' /\ Rooted'
    BY <2>1, DiskQuiet
  <2>3. OneWriterPerVersion' /\ OwnFiles' /\ IncumbentIsPublished' /\ CandidateDescends'
    BY <2>1 DEF IInv, TypeOK, OneWriterPerVersion, OwnFiles, IncumbentIsPublished,
                CandidateDescends, CheckAbsent, MakeVersionDir, Goto, disk, config, InDirectory,
                Active
  <2> QED
    BY <2>2, <2>3 DEF IInv
<1>2. CASE ~ UNCHANGED dirs
  <2>1. /\ pc[r] = "making" /\ candidate[r] \notin dirs
        /\ dirs' = dirs \cup {candidate[r]}
        /\ pc' = [pc EXCEPT ![r] = "saving"]
        /\ UNCHANGED <<saved, artifact, manifest, config, incumbent, candidate, score, sha>>
    BY <1>2 DEF CheckAbsent, MakeVersionDir, Goto, disk
  <2>2. manifest[candidate[r]] = NoManifest
    BY <2>1 DEF IInv, TypeOK, ManifestsInDirs
  <2>3. ManifestsInDirs' /\ PublishedIntact' /\ Rooted'
    BY <2>1 DEF IInv, ManifestsInDirs, PublishedIntact, Rooted, Published
  <2>4. OneWriterPerVersion'
    BY <2>1 DEF IInv, TypeOK, OneWriterPerVersion, OwnFiles, InDirectory
  <2>5. OwnFiles'
    BY <2>1, <2>2 DEF IInv, TypeOK, OwnFiles, InDirectory
  <2>6. IncumbentIsPublished' /\ CandidateDescends'
    BY <2>1 DEF IInv, TypeOK, IncumbentIsPublished, CandidateDescends, config, InDirectory, Active
  <2> QED
    BY <2>3, <2>4, <2>5, <2>6 DEF IInv
<1> QED
  BY <1>1, <1>2

\* A run that saves, renames or hashes its artifact: the file it touches is in
\* a directory nobody has published.
LEMMA ArtifactStep ==
  ASSUME IInv, NEW r \in Run, SaveModel(r) \/ RenameArtifact(r) \/ HashArtifact(r), TypeOK'
  PROVE  IInv'
<1>1. /\ pc[r] \in InDirectory \ {"writing"} /\ pc'[r] \in InDirectory \ {"writing"}
      /\ \A q \in Run \ {r} : pc'[q] = pc[q] /\ sha'[q] = sha[q]
      /\ UNCHANGED <<dirs, manifest, config, incumbent, candidate, score>>
      /\ \A v \in Version \ {candidate[r]} : artifact'[v] = artifact[v] /\ saved'[v] = saved[v]
  BY DEF IInv, TypeOK, SaveModel, RenameArtifact, HashArtifact, Goto, InDirectory, disk
<1>2. manifest[candidate[r]] = NoManifest /\ candidate[r] \in Version
  BY <1>1 DEF IInv, TypeOK, OwnFiles
<1>3. ManifestsInDirs' /\ PublishedIntact' /\ Rooted'
  BY <1>1, <1>2 DEF IInv, TypeOK, ManifestsInDirs, PublishedIntact, Rooted, Published
<1>4. OneWriterPerVersion'
  BY <1>1 DEF IInv, TypeOK, OneWriterPerVersion, InDirectory
<1>5. OwnFiles'
  <2> SUFFICES ASSUME NEW q \in Run PROVE OwnFiles!(q)'
    BY DEF OwnFiles
  <2>1. CASE q = r
    BY <1>1, <2>1 DEF IInv, TypeOK, OwnFiles, InDirectory, SaveModel, RenameArtifact,
                      HashArtifact, Goto, Model, NoFile, disk
  <2>2. CASE q # r
    <3>1. pc[q] \in InDirectory => candidate[q] # candidate[r]
      BY <1>1, <2>2 DEF IInv, OneWriterPerVersion
    <3> QED
      BY <1>1, <2>2, <3>1 DEF IInv, TypeOK, OwnFiles, InDirectory
  <2> QED
    BY <2>1, <2>2
<1>6. IncumbentIsPublished' /\ CandidateDescends'
  BY <1>1 DEF IInv, TypeOK, IncumbentIsPublished, CandidateDescends, config, InDirectory, Active
<1> QED
  BY <1>3, <1>4, <1>5, <1>6 DEF IInv

\* A run that opens its manifest: what readers see does not change.
LEMMA OpenStep ==
  ASSUME IInv, NEW r \in Run, CheckManifestAbsent(r) \/ OpenManifest(r), TypeOK'
  PROVE  IInv'
<1>1. CASE CheckManifestAbsent(r)
  <2>1. ManifestsInDirs' /\ PublishedIntact' /\ Rooted'
    BY <1>1, DiskQuiet DEF CheckManifestAbsent
  <2>2. pc' = [pc EXCEPT ![r] = "opening"] /\ pc[r] = "describing"
    BY <1>1 DEF IInv, TypeOK, CheckManifestAbsent, OwnFiles, Goto, InDirectory
  <2>3. OneWriterPerVersion' /\ OwnFiles' /\ IncumbentIsPublished' /\ CandidateDescends'
    BY <1>1, <2>2 DEF IInv, TypeOK, OneWriterPerVersion, OwnFiles, IncumbentIsPublished,
                CandidateDescends, CheckManifestAbsent, disk, config, InDirectory, Active
  <2> QED
    BY <2>1, <2>3 DEF IInv
<1>2. CASE OpenManifest(r)
  <2>1. /\ pc[r] = "opening" /\ pc' = [pc EXCEPT ![r] = "writing"]
        /\ manifest' = [manifest EXCEPT ![candidate[r]] = Torn]
        /\ UNCHANGED <<dirs, saved, artifact, config, incumbent, candidate, score, sha>>
        /\ manifest[candidate[r]] = NoManifest
    BY <1>2 DEF OpenManifest, Goto, IInv, OwnFiles, InDirectory
  <2>2. Published' = Published
    BY <2>1 DEF Published, IInv, TypeOK
  <2>3. ManifestsInDirs' /\ PublishedIntact' /\ Rooted'
    BY <2>1, <2>2 DEF IInv, TypeOK, ManifestsInDirs, PublishedIntact, Rooted, Published, OwnFiles,
                      InDirectory
  <2>4. OneWriterPerVersion'
    BY <2>1 DEF IInv, TypeOK, OneWriterPerVersion, InDirectory
  <2>5. OwnFiles'
    BY <2>1 DEF IInv, TypeOK, OwnFiles, OneWriterPerVersion, InDirectory
  <2>6. IncumbentIsPublished' /\ CandidateDescends'
    BY <2>1 DEF IInv, TypeOK, IncumbentIsPublished, CandidateDescends, config, InDirectory, Active
  <2> QED
    BY <2>3, <2>4, <2>5, <2>6 DEF IInv
<1> QED
  BY <1>1, <1>2

\* What the flush writes is a manifest that load_manifest accepts.
LEMMA FlushWritesManifest ==
  ASSUME IInv, NEW r \in Run, FlushManifest(r)
  PROVE  /\ candidate[r] \in Version
         /\ manifest[candidate[r]] = Torn
         /\ [version |-> candidate[r], score |-> score[r], sha |-> sha[r]] \in Manifest
  BY DEF IInv, TypeOK, OwnFiles, FlushManifest, Manifest

\* Bumping never leads below where it began.
LEMMA NextStaysAboveFirst ==
  ASSUME NEW v \in Version, NEW b \in Bump, ~ VersionLess(v, FirstVersion)
  PROVE  ~ VersionLess(NextVersion(v, b), FirstVersion)
  BY DEF Semver, Bump, FirstVersion, NextVersion, VersionLess

\* A run that publishes: the version was nobody's, its file is the one hashed,
\* and its ancestor is published unless it is the first.
LEMMA FlushStep ==
  ASSUME IInv, NEW r \in Run, FlushManifest(r), TypeOK'
  PROVE  IInv'
<1> DEFINE new == [version |-> candidate[r], score |-> score[r], sha |-> sha[r]]
<1>1. /\ pc[r] = "writing" /\ pc' = [pc EXCEPT ![r] = "published"]
      /\ manifest' = [manifest EXCEPT ![candidate[r]] = new]
      /\ UNCHANGED <<dirs, saved, artifact, config, incumbent, candidate, score, sha>>
  BY DEF FlushManifest, Goto
<1>2. candidate[r] \in Version /\ manifest[candidate[r]] = Torn /\ new \in Manifest
  BY FlushWritesManifest
<1> HIDE DEF new
<1>3. Published' = Published \cup {candidate[r]}
  BY <1>1, <1>2 DEF Published, IInv, TypeOK
<1>4. ManifestsInDirs'
  BY <1>1, <1>2 DEF IInv, TypeOK, ManifestsInDirs
<1>5. PublishedIntact'
  BY <1>1, <1>2, <1>3 DEF IInv, TypeOK, PublishedIntact, Published, OwnFiles, InDirectory, new
<1>6. Rooted'
  <2>1. CASE incumbent[r] = NoManifest
    <3>1. candidate[r] = FirstVersion
      BY <1>1, <2>1 DEF IInv, CandidateDescends, InDirectory
    <3>2. ~ VersionLess(FirstVersion, FirstVersion)
      BY DEF VersionLess, FirstVersion
    <3> QED
      BY <1>3, <3>1, <3>2 DEF IInv, Rooted
  <2>2. CASE incumbent[r] # NoManifest
    <3>1. incumbent[r] \in Manifest /\ incumbent[r].version \in Version
      BY <2>2 DEF IInv, TypeOK, Manifest
    <3>2. incumbent[r].version \in Published
      BY <1>1, <2>2, <3>1 DEF IInv, IncumbentIsPublished, Published, Active, InDirectory
    <3>3. candidate[r] = NextVersion(incumbent[r].version, bump[r]) /\ bump[r] \in Bump
      BY <1>1, <2>2 DEF IInv, TypeOK, CandidateDescends, InDirectory
    <3>4. ~ VersionLess(candidate[r], FirstVersion)
      BY <3>1, <3>2, <3>3, NextStaysAboveFirst DEF IInv, Rooted
    <3> QED
      BY <1>3, <3>2, <3>4 DEF IInv, Rooted
  <2> QED
    BY <2>1, <2>2
<1>7. OneWriterPerVersion'
  BY <1>1 DEF IInv, TypeOK, OneWriterPerVersion, InDirectory
<1>8. OwnFiles'
  BY <1>1 DEF IInv, TypeOK, OwnFiles, OneWriterPerVersion, InDirectory
<1>9. IncumbentIsPublished' /\ CandidateDescends'
  BY <1>1, <1>2 DEF IInv, TypeOK, IncumbentIsPublished, CandidateDescends, config, InDirectory,
                    Active, Manifest
<1> QED
  BY <1>4, <1>5, <1>6, <1>7, <1>8, <1>9 DEF IInv

LEMMA IInvNext == IInv /\ [Next]_vars => IInv'
<1> SUFFICES ASSUME IInv, [Next]_vars PROVE IInv'
  OBVIOUS
<1>1. TypeOK'
  BY TypeNext DEF IInv
<1>2. CASE UNCHANGED vars
  <2>1. ManifestsInDirs' /\ PublishedIntact' /\ Rooted'
    BY <1>2, DiskQuiet DEF vars
  <2>2. OneWriterPerVersion' /\ OwnFiles' /\ IncumbentIsPublished' /\ CandidateDescends'
    BY <1>2 DEF IInv, OneWriterPerVersion, OwnFiles, IncumbentIsPublished, CandidateDescends,
                vars, disk, config
  <2> QED
    BY <1>1, <2>1, <2>2 DEF IInv
<1>3. CASE Next
  BY <1>1, <1>3, ReadStep, DieStep, EnterStep, ArtifactStep, OpenStep, FlushStep
     DEF Next, Write
<1> QED
  BY <1>2, <1>3

\* No process, whatever it does or wherever it is killed, leaves the registry
\* and the processes in a state that breaks the inductive invariant.
THEOREM Invariance == Spec => []IInv
  BY IInvInit, IInvNext, PTL DEF Spec

\* Every state of every behaviour is well typed.
THEOREM TypeCorrect == Spec => []TypeOK
<1>1. IInv => TypeOK
  BY DEF IInv
<1> QED
  BY <1>1, Invariance, PTL

\* A complete manifest vouches for the artifact beside it, for ever.
THEOREM Intact == Spec => []PublishedIntact
<1>1. IInv => PublishedIntact
  BY DEF IInv
<1> QED
  BY <1>1, Invariance, PTL

\* No two processes ever write into one version directory.
THEOREM OneWriter == Spec => []OneWriterPerVersion
<1>1. IInv => OneWriterPerVersion
  BY DEF IInv
<1> QED
  BY <1>1, Invariance, PTL
-----------------------------------------------------------------------------
(* Refinement: what readers see is a VersionedRegistry.                     *)

LEMMA ViewType == TypeOK => ReaderView \in [Version -> ReaderEntry \cup {NoManifest}]
  BY DEF TypeOK, ReaderView, ReaderEntry, Manifest

\* A version is visible to readers exactly when it is published.
LEMMA Visible ==
  ASSUME TypeOK, NEW v \in Version
  PROVE  ReaderView[v] # NoManifest <=> v \in Published
<1>1. CASE manifest[v] \in Manifest
  <2>1. ReaderView[v] = [score |-> manifest[v].score, model |-> artifact[v]]
    BY <1>1 DEF ReaderView
  <2>2. ReaderView[v] \in ReaderEntry
    BY <1>1, <2>1 DEF TypeOK, ReaderEntry, Manifest
  <2> QED
    BY <1>1, <2>2 DEF Published
<1>2. CASE manifest[v] \notin Manifest
  BY <1>2 DEF ReaderView, Published
<1> QED
  BY <1>1, <1>2

\* The abstract registry's versions are the same triples, bumped the same way.
LEMMA SameVersions ==
  /\ Registry!FirstVersion = FirstVersion
  /\ Registry!Bump = Bump
  /\ \A v, b : Registry!NextVersion(v, b) = NextVersion(v, b)
  BY DEF Registry!FirstVersion, Registry!Bump, Registry!NextVersion, FirstVersion, Bump, NextVersion

LEMMA RefinementInit == Init => Registry!RInit
<1> SUFFICES ASSUME Init PROVE Registry!RInit
  OBVIOUS
<1>1. TypeOK
  BY TypeInit
<1>2. \A v \in Version : v \in Published => v = FirstVersion
  BY DEF Init, Published
<1> QED
  BY <1>1, <1>2, ViewType, Visible, SameVersions DEF Registry!RInit

\* Only a flush is seen by readers; everything else happens out of their sight.
LEMMA HiddenStep ==
  ASSUME IInv, [Next]_vars, ~ \E r \in Run : FlushManifest(r)
  PROVE  UNCHANGED ReaderView
<1>1. CASE UNCHANGED <<manifest, artifact>>
  BY <1>1 DEF ReaderView
<1>2. CASE ~ UNCHANGED <<manifest, artifact>>
  <2>1. PICK r \in Run : RenameArtifact(r) \/ OpenManifest(r)
    BY <1>2 DEF Next, Read, Write, vars, disk, Start, ListVersions, LoadIncumbent, Evaluate,
           CheckAbsent, MakeVersionDir, SaveModel, HashArtifact, CheckManifestAbsent, Die
  <2>2. candidate[r] \in Version /\ manifest[candidate[r]] = NoManifest
    BY <2>1 DEF RenameArtifact, OpenManifest, IInv, TypeOK, OwnFiles, InDirectory
  <2>3. \A v \in Version : manifest[v] \in Manifest =>
                              manifest'[v] = manifest[v] /\ artifact'[v] = artifact[v]
    BY <2>1, <2>2 DEF RenameArtifact, OpenManifest, IInv, TypeOK
  <2>4. \A v \in Version : manifest[v] \notin Manifest => manifest'[v] \notin Manifest
    BY <2>1, <2>2 DEF RenameArtifact, OpenManifest, IInv, TypeOK
  <2> QED
    BY <2>3, <2>4 DEF ReaderView
<1> QED
  BY <1>1, <1>2

\* A flush publishes one version, the first one or a successor that improves.
LEMMA FlushPublishes ==
  ASSUME IInv, NEW r \in Run, FlushManifest(r), TypeOK'
  PROVE  Registry!Publish(candidate[r])
<1> DEFINE v == candidate[r]
           new == [version |-> v, score |-> score[r], sha |-> sha[r]]
           entry == [score |-> score[r], model |-> artifact[v]]
<1>1. v \in Version /\ manifest[v] = Torn /\ new \in Manifest
  BY FlushWritesManifest
<1>2. manifest' = [manifest EXCEPT ![v] = new] /\ artifact' = artifact
  BY DEF FlushManifest
<1>3. ReaderView'[v] = entry
  BY <1>1, <1>2 DEF ReaderView, IInv, TypeOK
<1>4. entry \in ReaderEntry
  BY <1>1 DEF IInv, TypeOK, ReaderEntry
<1>5. ReaderView' = [ReaderView EXCEPT ![v] = ReaderView'[v]]
  <2>1. \A w \in Version \ {v} : manifest'[w] = manifest[w]
    BY <1>1, <1>2 DEF IInv, TypeOK
  <2>2. \A w \in Version \ {v} : ReaderView'[w] = ReaderView[w]
    BY <1>2, <2>1 DEF ReaderView
  <2>3. ReaderView' \in [Version -> ReaderEntry \cup {NoManifest}]
    BY DEF TypeOK, ReaderView, ReaderEntry, Manifest
  <2> QED
    BY <1>1, <2>2, <2>3, ViewType DEF IInv
<1>6. ReaderView[v] = NoManifest
  BY <1>1, Visible DEF IInv, Published
<1>7. \/ v = FirstVersion /\ \A u \in Version : ReaderView[u] = NoManifest
      \/ Registry!Succeeds(v, ReaderView'[v])
  <2>1. CASE incumbent[r] = NoManifest
    <3>1. v = FirstVersion
      BY <2>1 DEF IInv, CandidateDescends, FlushManifest, InDirectory
    <3>2. Published = {}
      BY <1>1, <3>1 DEF IInv, Rooted, Published
    <3> QED
      BY <3>1, <3>2, Visible DEF IInv
  <2>2. CASE incumbent[r] # NoManifest
    <3> DEFINE u == incumbent[r].version
    <3>1. incumbent[r] \in Manifest /\ u \in Version /\ manifest[u] = incumbent[r]
      BY <2>2 DEF IInv, TypeOK, IncumbentIsPublished, Manifest, FlushManifest, Active, InDirectory
    <3>2. v = NextVersion(u, bump[r]) /\ bump[r] \in Bump
      BY <2>2 DEF IInv, TypeOK, CandidateDescends, FlushManifest, InDirectory
    <3>3. ReaderView[u] # NoManifest /\ ReaderView[u].score = incumbent[r].score
      BY <3>1, Visible DEF IInv, Published, ReaderView
    <3>4. incumbent[r].score # Missing /\ Promotes(score[r], incumbent[r].score)
      BY <2>2 DEF IInv, CandidateDescends, FlushManifest, InDirectory
    <3>5. score[r] \in Int /\ incumbent[r].score \in Int
      BY <3>1, <3>4 DEF IInv, TypeOK, Promotes, Manifest, TrainedScore
    <3>6. Improves(entry, ReaderView[u])
      BY <3>3, <3>4, <3>5 DEF Improves, Promotes, SmallerIsBetter, HigherIsBetter, LowerIsBetter
    <3> QED
      BY <1>3, <3>1, <3>2, <3>3, <3>6, SameVersions DEF Registry!Succeeds
  <2> QED
    BY <2>1, <2>2
<1> QED
  BY <1>3, <1>4, <1>5, <1>6, <1>7, SameVersions DEF Registry!Publish

\* Whatever the processes do, readers see a registry whose versions appear at
\* once and complete, never change or disappear, and each beat the version
\* they were compared with by the margin.
THEOREM Refinement == Spec => RefinesRegistry
<1>1. IInv /\ IInv' /\ [Next]_vars => [Registry!RNext]_ReaderView
  <2> SUFFICES ASSUME IInv, IInv', [Next]_vars, ~ UNCHANGED ReaderView
               PROVE  Registry!RNext
    OBVIOUS
  <2>1. PICK r \in Run : FlushManifest(r)
    BY HiddenStep
  <2>2. candidate[r] \in Version /\ Registry!Publish(candidate[r])
    BY <2>1, FlushPublishes, FlushWritesManifest DEF IInv
  <2> QED
    BY <2>2 DEF Registry!RNext
<1> QED
  BY <1>1, RefinementInit, Invariance, PTL DEF Spec, RefinesRegistry, Registry!RSpec
=============================================================================
