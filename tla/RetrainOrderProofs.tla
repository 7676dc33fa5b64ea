------------------------- MODULE RetrainOrderProofs -------------------------
(***************************************************************************)
(* Proofs about Retrain: who can refuse a run, and, when every config      *)
(* bumps the same part, that the versions of a model form one chain along  *)
(* which no promotion is skipped and no score gets worse; and the same,    *)
(* with any bumps, of runs that follow one another.                        *)
(***************************************************************************)
EXTENDS RetrainProofs

USE ScoreAssumption, VersionAssumption, ChoiceAssumption, MarkAssumption, BoundAssumption

-----------------------------------------------------------------------------
(* Refusals.                                                                *)

\* A version directory is complete, or a run is inside it, or somebody died.
DirsAccounted ==
    \A v \in dirs :
        \/ v \in Published
        \/ \E q \in Run : pc[q] \in InDirectory /\ candidate[q] = v
        \/ deaths > 0

\* A refused run met the directory of its candidate.
RefusedByDir == \A r \in Run : pc[r] = "refused" => candidate[r] \in dirs

RefusalInv == DirsAccounted /\ RefusedByDir

LEMMA RefusalInit == Init => RefusalInv
<1>. SUFFICES ASSUME Init PROVE RefusalInv
  OBVIOUS
<1>1. DirsAccounted
  <2>. SUFFICES ASSUME NEW v \in dirs PROVE manifest[v] \in Manifest /\ v \in Version
    BY DEF DirsAccounted, Published
  <2>1. v = FirstVersion
    BY DEF Init
  <2>2. PICK s \in TrainedScore \cup {Missing} :
           manifest[v] = [version |-> FirstVersion, score |-> s, sha |-> 0]
    BY <2>1 DEF Init
  <2>. QED BY <2>1, <2>2 DEF Manifest, Content, Model
<1>2. RefusedByDir
  BY DEF Init, RefusedByDir
<1>. QED BY <1>1, <1>2 DEF RefusalInv

\* A step after which every directory is as much accounted for as before.
LEMMA AccountedQuiet ==
  ASSUME RefusalInv, NEW r \in Run, dirs' = dirs, Published \subseteq Published', deaths' >= deaths,
         deaths \in Nat, deaths' \in Nat,
         \A q \in Run \ {r} : pc'[q] = pc[q] /\ candidate'[q] = candidate[q],
         \/ pc[r] \notin InDirectory
         \/ pc'[r] \in InDirectory /\ candidate'[r] = candidate[r]
         \/ candidate[r] \in Published',
         pc'[r] = "refused" => candidate'[r] \in dirs
  PROVE  RefusalInv'
<1>1. DirsAccounted'
  <2>. SUFFICES ASSUME NEW v \in dirs', v \notin Published', ~ (deaths' > 0)
                PROVE  \E q \in Run : pc'[q] \in InDirectory /\ candidate'[q] = v
    BY DEF DirsAccounted
  <2>1. PICK q \in Run : pc[q] \in InDirectory /\ candidate[q] = v
    BY DEF RefusalInv, DirsAccounted
  <2>. QED BY <2>1
<1>2. RefusedByDir'
  BY DEF RefusalInv, RefusedByDir
<1>. QED BY <1>1, <1>2 DEF RefusalInv

LEMMA RefusalNext == IInv /\ IInv' /\ RefusalInv /\ [Next]_vars => RefusalInv'
<1>. SUFFICES ASSUME IInv, IInv', RefusalInv, [Next]_vars PROVE RefusalInv'
  OBVIOUS
<1>1. TypeOK /\ TypeOK' /\ deaths \in Nat /\ deaths' \in Nat
  BY DEF IInv, TypeOK
<1>2. CASE UNCHANGED vars
  BY <1>2 DEF vars, disk, RefusalInv, DirsAccounted, RefusedByDir, Published
<1>3. ASSUME NEW r \in Run, Start(r) \/ Read(r) PROVE RefusalInv'
  <2>1. UNCHANGED <<disk, deaths>> /\ pc[r] \notin InDirectory /\ pc'[r] # "refused"
    <3>1. \A s : Verdict(r, s) # "refused"
      BY DEF Verdict
    <3>. QED
      BY <1>1, <1>3, <3>1 DEF TypeOK, Start, Read, ListVersions, LoadIncumbent, Evaluate, Goto,
                              Ended, InDirectory
  <2>2. \A q \in Run \ {r} : pc'[q] = pc[q] /\ candidate'[q] = candidate[q]
    BY <1>1, <1>3 DEF TypeOK, Start, Read, ListVersions, LoadIncumbent, Evaluate, Goto
  <2>3. dirs' = dirs /\ Published' = Published /\ deaths' = deaths
    BY <2>1 DEF disk, Published
  <2>. QED BY <1>1, <2>1, <2>2, <2>3, AccountedQuiet
<1>4. ASSUME NEW r \in Run, Die(r) PROVE RefusalInv'
  <2>1. deaths' > 0 /\ dirs' = dirs /\ pc' = [pc EXCEPT ![r] = "dead"] /\ candidate' = candidate
    BY <1>1, <1>4 DEF Die, Goto, disk
  <2>2. DirsAccounted'
    BY <2>1 DEF DirsAccounted
  <2>3. RefusedByDir'
    BY <1>1, <2>1 DEF RefusalInv, RefusedByDir, TypeOK
  <2>. QED BY <2>2, <2>3 DEF RefusalInv
<1>5. ASSUME NEW r \in Run, CheckAbsent(r) PROVE RefusalInv'
  <2>1. /\ pc[r] \notin InDirectory /\ (pc'[r] = "refused" => candidate[r] \in dirs)
        /\ UNCHANGED <<dirs, manifest, candidate, deaths>>
        /\ \A q \in Run \ {r} : pc'[q] = pc[q]
    BY <1>1, <1>5 DEF TypeOK, CheckAbsent, Goto, disk, InDirectory
  <2>2. Published' = Published
    BY <2>1 DEF Published
  <2>. QED BY <1>1, <2>1, <2>2, AccountedQuiet
<1>6. ASSUME NEW r \in Run, MakeVersionDir(r) PROVE RefusalInv'
  <2>1. /\ pc[r] = "making"
        /\ UNCHANGED <<manifest, candidate, deaths>>
        /\ \A q \in Run \ {r} : pc'[q] = pc[q]
        /\ \/ candidate[r] \in dirs /\ pc'[r] = "refused" /\ UNCHANGED dirs
           \/ dirs' = dirs \cup {candidate[r]} /\ pc'[r] = "saving"
    BY <1>1, <1>6 DEF TypeOK, MakeVersionDir, Goto
  <2>2. Published' = Published
    BY <2>1 DEF Published
  <2>3. DirsAccounted'
    <3>. SUFFICES ASSUME NEW v \in dirs', v \notin Published, ~ (deaths > 0)
                  PROVE  \E q \in Run : pc'[q] \in InDirectory /\ candidate'[q] = v
      BY <2>1, <2>2 DEF DirsAccounted
    <3>1. CASE v \in dirs
      <4>1. PICK q \in Run : pc[q] \in InDirectory /\ candidate[q] = v
        BY <3>1 DEF RefusalInv, DirsAccounted
      <4>2. q # r
        BY <2>1, <4>1 DEF InDirectory
      <4>. QED BY <2>1, <4>1, <4>2
    <3>2. CASE v \notin dirs
      BY <2>1, <3>2 DEF InDirectory
    <3>. QED BY <3>1, <3>2
  <2>4. RefusedByDir'
    BY <2>1 DEF RefusalInv, RefusedByDir
  <2>. QED BY <2>3, <2>4 DEF RefusalInv
<1>7. ASSUME NEW r \in Run,
             \/ SaveModel(r) \/ RenameArtifact(r) \/ HashArtifact(r)
             \/ CheckManifestAbsent(r) \/ OpenManifest(r)
      PROVE  RefusalInv'
  <2>1. pc[r] \in InDirectory \ {"writing"} /\ manifest[candidate[r]] = NoManifest
    BY <1>7 DEF IInv, OwnFiles, InDirectory, SaveModel, RenameArtifact, HashArtifact,
                CheckManifestAbsent, OpenManifest
  <2>2. /\ pc'[r] \in InDirectory
        /\ UNCHANGED <<dirs, candidate, deaths>>
        /\ \A q \in Run \ {r} : pc'[q] = pc[q]
        /\ \A v \in Version \ {candidate[r]} : manifest'[v] = manifest[v]
    BY <1>1, <1>7, <2>1 DEF TypeOK, SaveModel, RenameArtifact, HashArtifact, CheckManifestAbsent,
                            OpenManifest, Goto, disk, InDirectory
  <2>3. Published \subseteq Published'
    BY <2>1, <2>2 DEF Published
  <2>4. pc'[r] # "refused"
    BY <2>2 DEF InDirectory
  <2>. QED BY <1>1, <2>2, <2>3, <2>4, AccountedQuiet
<1>8. ASSUME NEW r \in Run, FlushManifest(r) PROVE RefusalInv'
  <2>1. /\ candidate[r] \in Version
        /\ manifest'[candidate[r]] \in Manifest
        /\ \A v \in Version \ {candidate[r]} : manifest'[v] = manifest[v]
    BY <1>1, <1>8, FlushWritesManifest DEF TypeOK, FlushManifest
  <2>2. Published' = Published \cup {candidate[r]}
    BY <2>1 DEF Published
  <2>3. /\ pc'[r] = "published" /\ UNCHANGED <<dirs, candidate, deaths>>
        /\ \A q \in Run \ {r} : pc'[q] = pc[q]
    BY <1>1, <1>8 DEF TypeOK, FlushManifest, Goto
  <2>. QED BY <1>1, <2>2, <2>3, AccountedQuiet
<1>. QED
  BY <1>2, <1>3, <1>4, <1>5, <1>6, <1>7, <1>8 DEF Next, Write

LEMMA RefusalInvariance == Spec => []RefusalInv
  BY RefusalInit, RefusalNext, Invariance, PTL DEF Spec

\* Only a competitor in the same version, or one that was killed there, makes a
\* run lose the candidate it trained, for any number of runs and any bumps.
THEOREM RefusedForAReason == Spec => []RefusalIsJustified
<1>1. RefusalInv => RefusalIsJustified
  BY DEF RefusalInv, DirsAccounted, RefusedByDir, RefusalIsJustified
<1>. QED BY <1>1, RefusalInvariance, PTL
-----------------------------------------------------------------------------
(* Versions under one kind of bump.                                         *)

\* The versions bumps of one part reach from 1.0.0.
Chain(b) ==
    CASE b = "major" -> {v \in Semver : v[1] >= 1 /\ v[2] = 0 /\ v[3] = 0}
      [] b = "minor" -> {v \in Semver : v[1] = 1 /\ v[3] = 0}
      [] b = "patch" -> {v \in Semver : v[1] = 1 /\ v[2] = 0}

\* Python's order of tuples is total ...
LEMMA VersionsAreOrdered ==
  ASSUME NEW u \in Semver, NEW v \in Semver
  PROVE  /\ u = v \/ VersionLess(u, v) \/ VersionLess(v, u)
         /\ ~ (VersionLess(u, v) /\ VersionLess(v, u))
         /\ ~ VersionLess(v, v)
<1>1. u = <<u[1], u[2], u[3]>> /\ v = <<v[1], v[2], v[3]>>
  BY DEF Semver
<1>. QED BY <1>1 DEF Semver, VersionLess

\* ... and transitive.
LEMMA VersionsAreTransitive ==
  ASSUME NEW u \in Semver, NEW v \in Semver, NEW w \in Semver, VersionLess(u, v), VersionLess(v, w)
  PROVE  VersionLess(u, w)
  BY DEF Semver, VersionLess

\* A chain begins with 1.0.0, and nothing lies between a version and its next.
LEMMA ChainSteps ==
  ASSUME NEW b \in Bump
  PROVE  /\ Chain(b) \subseteq Semver
         /\ FirstVersion \in Chain(b)
         /\ \A u \in Chain(b) : ~ VersionLess(u, FirstVersion)
         /\ \A v \in Chain(b) :
               /\ NextVersion(v, b) \in Chain(b)
               /\ \A u \in Chain(b) : VersionLess(u, NextVersion(v, b)) <=> u = v \/ VersionLess(u, v)
<1>. DEFINE Triple(v) == v = <<v[1], v[2], v[3]>> /\ v[1] \in Nat /\ v[2] \in Nat /\ v[3] \in Nat
<1>1. \A v \in Semver : Triple(v)
  BY DEF Semver
<1>2. CASE b = "major"
  BY <1>1, <1>2 DEF Chain, FirstVersion, NextVersion, VersionLess, Semver
<1>3. CASE b = "minor"
  BY <1>1, <1>3 DEF Chain, FirstVersion, NextVersion, VersionLess, Semver
<1>4. CASE b = "patch"
  BY <1>1, <1>4 DEF Chain, FirstVersion, NextVersion, VersionLess, Semver
<1>. QED BY <1>2, <1>3, <1>4 DEF Bump
-----------------------------------------------------------------------------
(* A registry whose configs all bump part b.                                *)

\* The published versions are a chain without gaps.
Unbroken(b) ==
    /\ Published \subseteq Chain(b)
    /\ \A v \in Published, u \in Chain(b) : VersionLess(u, v) => u \in Published

\* No version is worse than one below it.
NoWorse ==
    \A u, v \in Published : VersionLess(u, v) => ~ Better(manifest[u].score, manifest[v].score)

\* Where no version is worse than one below it, the highest is the best.
LEMMA NoWorseIsBest == NoWorse => LatestIsBest
<1>. SUFFICES ASSUME NoWorse, NEW u \in Published, NEW v \in Published,
                     IsHighest(v, Published)
              PROVE  ~ Better(manifest[u].score, manifest[v].score)
  BY DEF LatestIsBest
<1>1. u = v \/ VersionLess(u, v)
  BY VersionsAreOrdered DEF IsHighest, Published
<1>. QED BY <1>1 DEF NoWorse, Better

LEMMA PublishedAtFirst == Init => Published \subseteq {FirstVersion}
  BY DEF Init, Published

LEMMA OrderInit ==
  ASSUME NEW b \in Bump
  PROVE  Init => Unbroken(b) /\ NoWorse
<1>. SUFFICES ASSUME Init PROVE Unbroken(b) /\ NoWorse
  OBVIOUS
<1>. QED BY PublishedAtFirst, ChainSteps DEF Unbroken, NoWorse

\* Whatever is not a flush leaves what is published as it is.
LEMMA ManifestsKept ==
  ASSUME IInv, [Next]_vars, ~ \E r \in Run : FlushManifest(r)
  PROVE  Published' = Published /\ \A v \in Published : manifest'[v] = manifest[v]
<1>1. CASE UNCHANGED manifest
  BY <1>1 DEF Published
<1>2. CASE ~ UNCHANGED manifest
  <2>1. PICK r \in Run : OpenManifest(r)
    BY <1>2 DEF Next, Read, Write, vars, disk, Start, ListVersions, LoadIncumbent, Evaluate,
           CheckAbsent, MakeVersionDir, SaveModel, RenameArtifact, HashArtifact,
           CheckManifestAbsent, Die
  <2>2. candidate[r] \in Version /\ manifest[candidate[r]] = NoManifest
    BY <2>1 DEF OpenManifest, IInv, TypeOK, OwnFiles, InDirectory
  <2>3. /\ manifest'[candidate[r]] = Torn
        /\ \A v \in Version \ {candidate[r]} : manifest'[v] = manifest[v]
    BY <2>1, <2>2 DEF OpenManifest, IInv, TypeOK
  <2>. QED BY <2>2, <2>3 DEF Published
<1>. QED BY <1>1, <1>2

\* What a flush adds comes right after all that is there.
LEMMA FlushExtends ==
  ASSUME NEW b, BumpChoices = {b}, IInv, Unbroken(b), NEW r \in Run, FlushManifest(r)
  PROVE  /\ candidate[r] \in Chain(b) /\ candidate[r] \notin Published
         /\ Published' = Published \cup {candidate[r]}
         /\ manifest'[candidate[r]].score = score[r]
         /\ \A v \in Published : manifest'[v] = manifest[v]
         /\ Published = {u \in Chain(b) : VersionLess(u, candidate[r])}
         /\ incumbent[r] # NoManifest =>
               /\ incumbent[r].version \in Published
               /\ manifest[incumbent[r].version] = incumbent[r]
               /\ candidate[r] = NextVersion(incumbent[r].version, b)
<1>. DEFINE c == candidate[r]
            i == incumbent[r]
<1>1. b \in Bump /\ bump[r] = b
  BY DEF IInv, TypeOK
<1>2. c \in Version /\ c \notin Published
  BY FlushWritesManifest DEF Published
<1>3. /\ manifest'[c] = [version |-> c, score |-> score[r], sha |-> sha[r]]
      /\ manifest'[c] \in Manifest
      /\ \A v \in Version \ {c} : manifest'[v] = manifest[v]
  BY FlushWritesManifest DEF FlushManifest, IInv, TypeOK
<1>4. Published' = Published \cup {c} /\ \A v \in Published : manifest'[v] = manifest[v]
  BY <1>2, <1>3 DEF Published
<1>5. c = IF i = NoManifest THEN FirstVersion ELSE NextVersion(i.version, b)
  BY <1>1 DEF IInv, CandidateDescends, FlushManifest, InDirectory
<1>6. CASE i = NoManifest
  <2>1. c = FirstVersion /\ Published = {}
    BY <1>2, <1>5, <1>6 DEF IInv, Rooted
  <2>2. c \in Chain(b) /\ \A u \in Chain(b) : ~ VersionLess(u, c)
    BY <1>1, <2>1, ChainSteps
  <2>. QED BY <1>2, <1>3, <1>4, <1>6, <2>1, <2>2
<1>7. CASE i # NoManifest
  <2>. DEFINE w == i.version
  <2>1. w \in Published /\ manifest[w] = i /\ c = NextVersion(w, b)
    BY <1>5, <1>7 DEF IInv, TypeOK, IncumbentIsPublished, Published, Manifest,
           FlushManifest, Active, InDirectory
  <2>2. w \in Chain(b)
    BY <2>1 DEF Unbroken
  <2>3. c \in Chain(b) /\ \A u \in Chain(b) : VersionLess(u, c) <=> u = w \/ VersionLess(u, w)
    BY <1>1, <2>1, <2>2, ChainSteps
  <2>4. ASSUME NEW u \in Chain(b), VersionLess(u, c) PROVE u \in Published
    BY <2>1, <2>3, <2>4 DEF Unbroken
  <2>5. ASSUME NEW u \in Published PROVE u \in Chain(b) /\ VersionLess(u, c)
    <3>1. u \in Chain(b) /\ ~ VersionLess(c, u) /\ u # c
      BY <1>2, <2>3 DEF Unbroken
    <3>2. u \in Semver /\ c \in Semver
      BY <1>1, <2>3, <3>1, ChainSteps
    <3>. QED BY <3>1, <3>2, VersionsAreOrdered
  <2>6. Published = {u \in Chain(b) : VersionLess(u, c)}
    BY <2>4, <2>5
  <2>. QED BY <1>2, <1>3, <1>4, <2>1, <2>3, <2>6
<1>. QED BY <1>6, <1>7

LEMMA UnbrokenNext ==
  ASSUME NEW b, BumpChoices = {b}
  PROVE  IInv /\ Unbroken(b) /\ [Next]_vars => Unbroken(b)'
<1>. SUFFICES ASSUME IInv, Unbroken(b), [Next]_vars PROVE Unbroken(b)'
  OBVIOUS
<1>1. CASE \E r \in Run : FlushManifest(r)
  <2>1. PICK r \in Run : FlushManifest(r)
    BY <1>1
  <2>2. /\ candidate[r] \in Chain(b)
        /\ Published' = Published \cup {candidate[r]}
        /\ Published = {u \in Chain(b) : VersionLess(u, candidate[r])}
    BY <2>1, FlushExtends
  <2>. QED BY <2>2 DEF Unbroken
<1>2. CASE ~ \E r \in Run : FlushManifest(r)
  BY <1>2, ManifestsKept DEF Unbroken
<1>. QED BY <1>1, <1>2

\* A run that publishes is entitled to: nothing was published over its incumbent.
LEMMA PublishesOverLatest ==
  ASSUME NEW b, BumpChoices = {b}
  PROVE  IInv /\ Unbroken(b) /\ [Next]_vars =>
            \A r \in Run :
                pc[r] = "writing" /\ pc'[r] = "published" /\ incumbent[r] # NoManifest
                    => IsHighest(incumbent[r].version, Published)
<1>. SUFFICES ASSUME IInv, Unbroken(b), [Next]_vars, NEW r \in Run,
                     pc[r] = "writing", pc'[r] = "published", incumbent[r] # NoManifest
              PROVE  IsHighest(incumbent[r].version, Published)
  OBVIOUS
<1>1. FlushManifest(r)
  <2>1. PICK q \in Run : Start(q) \/ Read(q) \/ Write(q) \/ Die(q)
    BY DEF Next, vars
  <2>2. pc' = [pc EXCEPT ![q] = pc'[q]]
    BY <2>1 DEF IInv, TypeOK, Read, Write, Start, ListVersions, LoadIncumbent, Evaluate,
         CheckAbsent, MakeVersionDir, SaveModel, RenameArtifact, HashArtifact,
         CheckManifestAbsent, OpenManifest, FlushManifest, Die, Goto
  <2>3. q = r
    BY <2>2 DEF IInv, TypeOK
  <2>. QED
    BY <2>1, <2>3 DEF IInv, TypeOK, Read, Write, Start, ListVersions, LoadIncumbent, Evaluate,
         CheckAbsent, MakeVersionDir, SaveModel, RenameArtifact, HashArtifact,
         CheckManifestAbsent, OpenManifest, Die, Goto, Ended
<1>. DEFINE w == incumbent[r].version
<1>2. /\ w \in Published /\ candidate[r] = NextVersion(w, b)
      /\ Published = {u \in Chain(b) : VersionLess(u, candidate[r])}
  BY <1>1, FlushExtends
<1>3. b \in Bump
  OBVIOUS
<1>4. ASSUME NEW u \in Published PROVE ~ VersionLess(w, u)
  <2>1. u = w \/ VersionLess(u, w)
    BY <1>2, <1>3, ChainSteps
  <2>2. u \in Semver /\ w \in Semver
    BY <1>2, <1>3, ChainSteps
  <2>. QED BY <2>1, <2>2, VersionsAreOrdered
<1>. QED BY <1>4 DEF IsHighest

\* However many runs train beside each other, none replaces a version it was
\* not compared with, if all configs bump the same part.
THEOREM OverLatest ==
  ASSUME NEW CONSTANT b, BumpChoices = {b}
  PROVE  Spec => PromotedOverLatest
<1>1. Init => Unbroken(b)
  BY OrderInit
<1>. QED BY <1>1, UnbrokenNext, PublishesOverLatest, Invariance, PTL DEF Spec, PromotedOverLatest
-----------------------------------------------------------------------------
\* What is promoted over a version is no worse than anything below that one.
LEMMA NoWorseNext ==
  ASSUME NEW b, BumpChoices = {b}, Margin >= 0
  PROVE  IInv /\ Unbroken(b) /\ NoWorse /\ [Next]_vars => NoWorse'
<1>. SUFFICES ASSUME IInv, Unbroken(b), NoWorse, [Next]_vars PROVE NoWorse'
  OBVIOUS
<1>1. CASE ~ \E r \in Run : FlushManifest(r)
  BY <1>1, ManifestsKept DEF NoWorse
<1>2. CASE \E r \in Run : FlushManifest(r)
  <2>1. PICK r \in Run : FlushManifest(r)
    BY <1>2
  <2>. DEFINE c == candidate[r]
              w == incumbent[r].version
  <2>2. /\ b \in Bump
        /\ c \in Chain(b) /\ c \notin Published /\ Published' = Published \cup {c}
        /\ manifest'[c].score = score[r]
        /\ \A v \in Published : manifest'[v] = manifest[v]
        /\ Published = {u \in Chain(b) : VersionLess(u, c)}
        /\ incumbent[r] # NoManifest =>
              /\ w \in Published /\ manifest[w] = incumbent[r] /\ c = NextVersion(w, b)
    BY <2>1, FlushExtends
  <2>. SUFFICES ASSUME NEW u \in Published', NEW v \in Published', VersionLess(u, v)
                PROVE  ~ Better(manifest'[u].score, manifest'[v].score)
    BY DEF NoWorse, Better
  <2>3. CASE v \in Published /\ u \in Published
    BY <2>2, <2>3 DEF NoWorse
  <2>4. CASE u = c
    <3>1. u \in Semver /\ v \in Semver
      BY <2>2, <2>4, ChainSteps
    <3>2. v = c \/ VersionLess(v, c)
      BY <2>2
    <3>. QED BY <2>4, <3>1, <3>2, VersionsAreOrdered
  <2>5. CASE v = c /\ u \in Published
    <3>1. incumbent[r] # NoManifest
      BY <2>1, <2>2, <2>5 DEF IInv, CandidateDescends, Rooted, FlushManifest, InDirectory
    <3>2. /\ incumbent[r].score # Missing /\ Promotes(score[r], incumbent[r].score)
          /\ score[r] \in Int /\ incumbent[r].score \in Int
      BY <2>1, <3>1 DEF IInv, TypeOK, CandidateDescends, FlushManifest, InDirectory, Promotes,
                        Manifest, TrainedScore
    <3>3. u = w \/ VersionLess(u, w)
      BY <2>2, <2>5, <3>1, ChainSteps
    <3>4. ~ Better(manifest[u].score, incumbent[r].score)
      <4>1. CASE u = w
        BY <2>2, <3>1, <3>2, <4>1 DEF Better
      <4>2. CASE VersionLess(u, w)
        BY <2>2, <2>5, <3>1, <4>2 DEF NoWorse
      <4>. QED BY <3>3, <4>1, <4>2
    <3>5. ~ Better(manifest[u].score, score[r])
      BY <3>2, <3>4 DEF Better, Promotes, SmallerIsBetter, HigherIsBetter, LowerIsBetter
    <3>. QED BY <2>2, <2>5, <3>5
  <2>. QED BY <2>2, <2>3, <2>4, <2>5
<1>. QED BY <1>1, <1>2

\* Both hold at every step.
LEMMA OrderIsKept ==
  ASSUME NEW CONSTANT b, BumpChoices = {b}, Margin >= 0
  PROVE  Spec => [](Unbroken(b) /\ NoWorse)
<1>1. Init => Unbroken(b) /\ NoWorse
  BY OrderInit
<1>. QED BY <1>1, UnbrokenNext, NoWorseNext, Invariance, PTL DEF Spec

\* "latest", the highest version, is the best there ever was, however runs
\* overlap and wherever they are killed, if all configs bump the same part and
\* none asks for a negative improvement.
THEOREM LatestBest ==
  ASSUME NEW CONSTANT b, BumpChoices = {b}, Margin >= 0
  PROVE  Spec => []LatestIsBest
  BY NoWorseIsBest, OrderIsKept, Invariance, PTL
-----------------------------------------------------------------------------
(* Runs that follow one another: the retrain pipeline as its README tells   *)
(* it, with any bumps, and with runs killed wherever they are.              *)

\* No process starts while another is under way.
OneAtATime == \A p, q \in Run : pc[p] \in Active /\ pc[q] \in Active => p = q

\* What an undisturbed run knows of the registry: what it has read is all there
\* is, and the incumbent it compares with is the latest version there is.
ReadIsCurrent ==
    \A r \in Run :
        /\ pc[r] = "listing" => seen[r] = Listed
        /\ pc[r] = "loading" => candidate[r] \in Listed /\ IsHighest(candidate[r], Listed)
        /\ pc[r] \in {"training", "checking", "making"} \cup InDirectory =>
              IF incumbent[r] = NoManifest
              THEN Published = {}
              ELSE IsHighest(incumbent[r].version, Published)

\* Every bump leads above the version it is given.
LEMMA NextIsHigher ==
  ASSUME NEW v \in Semver, NEW b \in Bump
  PROVE  NextVersion(v, b) \in Semver /\ VersionLess(v, NextVersion(v, b))
<1>1. v = <<v[1], v[2], v[3]>> /\ v[1] \in Nat /\ v[2] \in Nat /\ v[3] \in Nat
  BY DEF Semver
<1>2. CASE b = "major"
  BY <1>1, <1>2 DEF NextVersion, VersionLess, Semver
<1>3. CASE b = "minor"
  BY <1>1, <1>3 DEF NextVersion, VersionLess, Semver
<1>4. CASE b = "patch"
  BY <1>1, <1>4 DEF NextVersion, VersionLess, Semver
<1>. QED BY <1>2, <1>3, <1>4 DEF Bump

\* ... and above everything that version is at least as high as.
LEMMA NextIsAboveAll ==
  ASSUME NEW V, V \subseteq Semver, NEW v \in V, IsHighest(v, V), NEW b \in Bump
  PROVE  \A u \in V : VersionLess(u, NextVersion(v, b)) /\ u # NextVersion(v, b)
<1>. SUFFICES ASSUME NEW u \in V
              PROVE  VersionLess(u, NextVersion(v, b)) /\ u # NextVersion(v, b)
  OBVIOUS
<1>1. u \in Semver /\ v \in Semver
  OBVIOUS
<1>2. u = v \/ VersionLess(u, v)
  BY <1>1, VersionsAreOrdered DEF IsHighest
<1>3. NextVersion(v, b) \in Semver /\ VersionLess(v, NextVersion(v, b))
  BY <1>1, NextIsHigher
<1>4. VersionLess(u, NextVersion(v, b))
  BY <1>1, <1>2, <1>3, VersionsAreTransitive
<1>. QED BY <1>1, <1>3, <1>4, VersionsAreOrdered

\* The candidate of an undisturbed run is above all that is published.
LEMMA CandidateIsAboveAll ==
  ASSUME IInv, ReadIsCurrent, NEW r \in Run,
         pc[r] \in {"training", "checking", "making"} \cup InDirectory
  PROVE  /\ candidate[r] \in Semver
         /\ \A u \in Published : VersionLess(u, candidate[r]) /\ u # candidate[r]
<1>1. candidate[r] \in Semver /\ bump[r] \in Bump /\ Published \subseteq Semver
  BY DEF IInv, TypeOK, Published
<1>2. CASE incumbent[r] = NoManifest
  BY <1>1, <1>2 DEF ReadIsCurrent
<1>3. CASE incumbent[r] # NoManifest
  <2>1. incumbent[r].version \in Published
    BY <1>3 DEF IInv, TypeOK, IncumbentIsPublished, Published, Manifest, Active,
           InDirectory
  <2>2. IsHighest(incumbent[r].version, Published)
    BY <1>3 DEF ReadIsCurrent
  <2>3. candidate[r] = NextVersion(incumbent[r].version, bump[r])
    BY <1>3 DEF IInv, CandidateDescends
  <2>4. \A u \in Published : VersionLess(u, candidate[r]) /\ u # candidate[r]
    BY <1>1, <2>1, <2>2, <2>3, NextIsAboveAll
  <2>. QED BY <1>1, <2>4
<1>. QED BY <1>2, <1>3

LEMMA SerialInit == Init => ReadIsCurrent /\ NoWorse
<1>. SUFFICES ASSUME Init PROVE ReadIsCurrent /\ NoWorse
  OBVIOUS
<1>1. ReadIsCurrent
  BY DEF Init, ReadIsCurrent, InDirectory
<1>2. NoWorse
  BY PublishedAtFirst, FirstVersion \in Semver, VersionsAreOrdered DEF NoWorse
<1>. QED BY <1>1, <1>2

\* The step of one run leaves the others alone; only a start is taken by a run
\* that is not under way, and the others then are not.
LEMMA OneMoves ==
  ASSUME IInv, OneAtATime, OneAtATime', NEW r \in Run, Start(r) \/ Read(r) \/ Write(r) \/ Die(r)
  PROVE  \A q \in Run \ {r} : pc'[q] = pc[q] /\ pc'[q] \notin Active
<1>1. \A q \in Run \ {r} : pc'[q] = pc[q]
  BY DEF IInv, TypeOK, Read, Write, Start, ListVersions, LoadIncumbent, Evaluate,
         CheckAbsent, MakeVersionDir, SaveModel, RenameArtifact, HashArtifact,
         CheckManifestAbsent, OpenManifest, FlushManifest, Die, Goto
<1>2. CASE Start(r)
  <2>1. pc'[r] \in Active
    BY <1>2 DEF IInv, TypeOK, Start, Goto, Active
  <2>. QED BY <1>1, <2>1 DEF OneAtATime
<1>3. CASE Read(r) \/ Write(r) \/ Die(r)
  <2>1. pc[r] \in Active
    BY <1>3 DEF Read, Write, ListVersions, LoadIncumbent, Evaluate,
         CheckAbsent, MakeVersionDir, SaveModel, RenameArtifact, HashArtifact,
         CheckManifestAbsent, OpenManifest, FlushManifest, Die, Active, InDirectory
  <2>. QED BY <1>1, <2>1 DEF OneAtATime
<1>. QED BY <1>2, <1>3

LEMMA ReadIsCurrentNext ==
  IInv /\ OneAtATime /\ OneAtATime' /\ ReadIsCurrent /\ [Next]_vars => ReadIsCurrent'
<1>. SUFFICES ASSUME IInv, OneAtATime, OneAtATime', ReadIsCurrent, [Next]_vars
              PROVE  ReadIsCurrent'
  OBVIOUS
<1>1. CASE UNCHANGED vars
  BY <1>1 DEF vars, disk, ReadIsCurrent, Published, Listed
<1>2. CASE Next
  <2>1. PICK r \in Run : Start(r) \/ Read(r) \/ Write(r) \/ Die(r)
    BY <1>2 DEF Next
  <2>. DEFINE Held == {"training", "checking", "making"} \cup InDirectory
  <2>2. {"listing", "loading"} \cup Held \subseteq Active
    BY DEF Active
  <2>3. Published \subseteq Listed
    BY DEF IInv, ManifestsInDirs, Published, Listed
  <2>. SUFFICES
         /\ pc'[r] = "listing" => seen'[r] = Listed'
         /\ pc'[r] = "loading" => candidate'[r] \in Listed' /\ IsHighest(candidate'[r], Listed')
         /\ pc'[r] \in Held =>
               IF incumbent'[r] = NoManifest
               THEN Published' = {}
               ELSE IsHighest(incumbent'[r].version, Published')
    BY <2>1, <2>2, OneMoves DEF ReadIsCurrent
  <2>4. CASE Start(r)
    BY <2>4 DEF IInv, TypeOK, Start, Goto, disk, Listed, InDirectory
  <2>5. CASE ListVersions(r)
    <3>1. seen[r] = Listed /\ incumbent[r] = NoManifest
      BY <2>5 DEF ReadIsCurrent, ListVersions, IInv, IncumbentIsPublished
    <3>2. Published' = Published /\ Listed' = Listed /\ incumbent' = incumbent
      BY <2>5 DEF ListVersions, disk, Published, Listed
    <3>3. \/ Listed = {} /\ pc'[r] = "training"
          \/ pc'[r] = "loading" /\ candidate'[r] \in Listed /\ IsHighest(candidate'[r], Listed)
      <4>1. /\ pc \in [Run -> Ended \cup Active]
            /\ candidate \in [Run -> Version]
        BY DEF IInv, TypeOK
      <4>2. PICK listing \in SUBSET Listed :
               /\ seen[r] \subseteq listing
               /\ \/ listing = {} /\ Goto(r, "training")
                  \/ \E v \in listing :
                        /\ IsHighest(v, listing)
                        /\ candidate' = [candidate EXCEPT ![r] = v]
                        /\ Goto(r, "loading")
        BY <2>5 DEF ListVersions
      <4>3. listing = Listed
        BY <3>1, <4>2
      <4>. QED BY <4>1, <4>2, <4>3 DEF Goto
    <3>. QED BY <2>3, <3>1, <3>2, <3>3 DEF InDirectory
  <2>6. CASE LoadIncumbent(r)
    <3>1. candidate[r] \in Listed /\ IsHighest(candidate[r], Listed)
      BY <2>6 DEF ReadIsCurrent, LoadIncumbent
    <3>2. Published' = Published
      BY <2>6 DEF LoadIncumbent, disk, Published
    <3>3. CASE pc'[r] = "failed"
      BY <3>3 DEF InDirectory
    <3>4. CASE pc'[r] # "failed"
      <4>1. /\ manifest[candidate[r]] \in Manifest /\ incumbent'[r] = manifest[candidate[r]]
            /\ pc'[r] = "training"
        BY <2>6, <3>4 DEF IInv, TypeOK, LoadIncumbent, Goto
      <4>2. incumbent'[r].version = candidate[r]
        BY <4>1 DEF IInv, TypeOK, PublishedIntact, Published
      <4>. QED BY <2>3, <3>1, <3>2, <4>1, <4>2 DEF InDirectory, IsHighest
    <3>. QED BY <3>3, <3>4
  <2>7. CASE Evaluate(r) \/ Write(r) \/ Die(r)
    <3>1. /\ incumbent' = incumbent
          /\ pc'[r] \notin {"listing", "loading"}
          /\ pc[r] \in Active
          /\ pc'[r] \in Held => pc[r] \in Held /\ ~ FlushManifest(r)
      <4>1. CASE Evaluate(r)
        BY <4>1 DEF IInv, TypeOK, Evaluate, Verdict, FlushManifest, Goto, InDirectory, Active
      <4>2. CASE Write(r) \/ Die(r)
        BY <4>2 DEF IInv, TypeOK, Write, CheckAbsent, MakeVersionDir, SaveModel,
             RenameArtifact, HashArtifact, CheckManifestAbsent, OpenManifest, FlushManifest, Die,
             Goto, InDirectory, Active
      <4>. QED BY <2>7, <4>1, <4>2
    <3>2. CASE pc'[r] \in Held
      <4>1. \A q \in Run : ~ FlushManifest(q)
        BY <2>2, <3>1, <3>2 DEF OneAtATime, FlushManifest, Active, InDirectory
      <4>2. Published' = Published
        BY <4>1, ManifestsKept
      <4>. QED BY <3>1, <3>2, <4>2 DEF ReadIsCurrent
    <3>. QED BY <3>1, <3>2
  <2>. QED BY <2>1, <2>4, <2>5, <2>6, <2>7 DEF Read
<1>. QED BY <1>1, <1>2

\* What an undisturbed run publishes is the new highest version.
LEMMA FlushIsHighest ==
  ASSUME IInv, ReadIsCurrent, NEW r \in Run, FlushManifest(r)
  PROVE  /\ candidate[r] \in Semver /\ candidate[r] \notin Published
         /\ Published' = Published \cup {candidate[r]}
         /\ manifest'[candidate[r]].score = score[r]
         /\ \A v \in Published : manifest'[v] = manifest[v] /\ VersionLess(v, candidate[r])
         /\ IF incumbent[r] = NoManifest
            THEN Published = {}
            ELSE /\ incumbent[r].version \in Published
                 /\ IsHighest(incumbent[r].version, Published)
                 /\ manifest[incumbent[r].version] = incumbent[r]
<1>. DEFINE c == candidate[r]
<1>0. pc[r] = "writing" /\ pc[r] \in InDirectory
  BY DEF FlushManifest, InDirectory
<1>1. c \in Version /\ c \in Semver /\ \A v \in Published : VersionLess(v, c) /\ v # c
  BY <1>0, CandidateIsAboveAll DEF IInv, TypeOK
<1>2. /\ manifest'[c] = [version |-> c, score |-> score[r], sha |-> sha[r]]
      /\ manifest'[c] \in Manifest
      /\ \A v \in Version \ {c} : manifest'[v] = manifest[v]
  BY FlushWritesManifest DEF FlushManifest, IInv, TypeOK
<1>3. Published' = Published \cup {c} /\ \A v \in Published : manifest'[v] = manifest[v]
  BY <1>1, <1>2 DEF Published
<1>4. CASE incumbent[r] = NoManifest
  BY <1>0, <1>1, <1>2, <1>3, <1>4 DEF ReadIsCurrent
<1>5. CASE incumbent[r] # NoManifest
  <2>1. incumbent[r].version \in Published /\ manifest[incumbent[r].version] = incumbent[r]
    BY <1>0, <1>5 DEF IInv, TypeOK, IncumbentIsPublished, Published, Manifest, Active,
           InDirectory
  <2>2. IsHighest(incumbent[r].version, Published)
    BY <1>0, <1>5 DEF ReadIsCurrent
  <2>. QED BY <1>1, <1>2, <1>3, <1>5, <2>1, <2>2
<1>. QED BY <1>4, <1>5

\* No run publishes over a version it was not compared with.
LEMMA PublishesOverLatestAlone ==
  IInv /\ ReadIsCurrent /\ [Next]_vars =>
      \A r \in Run :
          pc[r] = "writing" /\ pc'[r] = "published" /\ incumbent[r] # NoManifest
              => IsHighest(incumbent[r].version, Published)
  BY DEF ReadIsCurrent, InDirectory

LEMMA NoWorseNextAlone ==
  ASSUME Margin >= 0
  PROVE  IInv /\ ReadIsCurrent /\ NoWorse /\ [Next]_vars => NoWorse'
<1>. SUFFICES ASSUME IInv, ReadIsCurrent, NoWorse, [Next]_vars PROVE NoWorse'
  OBVIOUS
<1>1. CASE ~ \E r \in Run : FlushManifest(r)
  BY <1>1, ManifestsKept DEF NoWorse
<1>2. ASSUME NEW r \in Run, FlushManifest(r) PROVE NoWorse'
  <2>. DEFINE c == candidate[r]
              i == incumbent[r]
  <2>1. Published \subseteq Semver
    BY DEF Published
  <2>. SUFFICES ASSUME NEW u \in Published', NEW v \in Published', VersionLess(u, v)
                PROVE  ~ Better(manifest'[u].score, manifest'[v].score)
    BY DEF NoWorse, Better
  <2>2. CASE v \in Published /\ u \in Published
    BY <1>2, <2>2, FlushIsHighest DEF NoWorse
  <2>3. CASE u = c
    <3>1. v = c \/ VersionLess(v, c)
      BY <1>2, FlushIsHighest
    <3>2. u \in Semver /\ v \in Semver
      BY <1>2, <2>1, <2>3, FlushIsHighest
    <3>. QED BY <2>3, <3>1, <3>2, VersionsAreOrdered
  <2>4. CASE v = c /\ u \in Published
    <3>1. /\ i # NoManifest /\ i.version \in Published /\ manifest[i.version] = i
          /\ ~ VersionLess(i.version, u)
      BY <1>2, <2>4, FlushIsHighest DEF IsHighest
    <3>2. i.score # Missing /\ Promotes(score[r], i.score)
      BY <1>2, <3>1 DEF IInv, CandidateDescends, FlushManifest, InDirectory
    <3>3. score[r] \in Int /\ i.score \in Int
      BY <3>1, <3>2 DEF IInv, TypeOK, Promotes, Manifest, TrainedScore
    <3>4. u = i.version \/ VersionLess(u, i.version)
      BY <2>1, <2>4, <3>1, VersionsAreOrdered
    <3>5. ~ Better(manifest[u].score, i.score)
      BY <2>4, <3>1, <3>3, <3>4 DEF NoWorse, Better
    <3>6. ~ Better(manifest[u].score, score[r])
      BY <3>2, <3>3, <3>5 DEF Better, Promotes, SmallerIsBetter, HigherIsBetter, LowerIsBetter
    <3>. QED BY <1>2, <2>4, <3>6, FlushIsHighest
  <2>. QED BY <1>2, <2>2, <2>3, <2>4, FlushIsHighest
<1>. QED BY <1>1, <1>2

\* An undisturbed run loses its candidate only to a run that was killed.
RefusedAfterCrash == \A r \in Run : pc[r] = "refused" => deaths > 0

LEMMA RefusedAfterCrashNext ==
  /\ IInv /\ IInv' /\ OneAtATime /\ RefusalInv /\ ReadIsCurrent /\ RefusedAfterCrash
  /\ [Next]_vars
  => RefusedAfterCrash'
<1>. SUFFICES ASSUME IInv, IInv', OneAtATime, RefusalInv, ReadIsCurrent, RefusedAfterCrash,
                     [Next]_vars
              PROVE  RefusedAfterCrash'
  OBVIOUS
<1>1. CASE UNCHANGED vars
  BY <1>1 DEF vars, RefusedAfterCrash
<1>2. ASSUME NEW r \in Run, Start(r) \/ Read(r) \/ Write(r) \/ Die(r)
      PROVE  RefusedAfterCrash'
  <2>1. deaths' \in Nat /\ deaths \in Nat /\ deaths' >= deaths
    BY <1>2 DEF IInv, TypeOK, Read, Write, Start, ListVersions, LoadIncumbent, Evaluate,
         CheckAbsent, MakeVersionDir, SaveModel, RenameArtifact, HashArtifact,
         CheckManifestAbsent, OpenManifest, FlushManifest, Die, Goto
  <2>2. \A q \in Run \ {r} : pc'[q] = pc[q]
    BY <1>2 DEF IInv, TypeOK, Read, Write, Start, ListVersions, LoadIncumbent, Evaluate,
         CheckAbsent, MakeVersionDir, SaveModel, RenameArtifact, HashArtifact,
         CheckManifestAbsent, OpenManifest, FlushManifest, Die, Goto
  <2>. SUFFICES ASSUME pc'[r] = "refused" PROVE deaths > 0
    BY <2>1, <2>2 DEF RefusedAfterCrash
  <2>3. pc[r] \in {"checking", "making"} /\ candidate[r] \in dirs
    <3>1. \A s : Verdict(r, s) # "refused"
      BY DEF Verdict
    <3>2. ~ Start(r) /\ ~ Read(r) /\ ~ Die(r)
      BY <3>1 DEF IInv, TypeOK, Start, Read, ListVersions, LoadIncumbent, Evaluate, Die, Goto
    <3>3. ~ CheckManifestAbsent(r)
      BY DEF CheckManifestAbsent, IInv, TypeOK, OwnFiles, InDirectory, Goto
    <3>. QED
      BY <1>2, <3>2, <3>3 DEF IInv, TypeOK, Write, CheckAbsent, MakeVersionDir, SaveModel,
           RenameArtifact, HashArtifact, OpenManifest, FlushManifest, Goto
  <2>4. candidate[r] \notin Published
    BY <2>3, CandidateIsAboveAll
  <2>5. ~ \E q \in Run : pc[q] \in InDirectory /\ candidate[q] = candidate[r]
    BY <2>3 DEF OneAtATime, Active, InDirectory
  <2>. QED BY <2>3, <2>4, <2>5 DEF RefusalInv, DirsAccounted
<1>. QED BY <1>1, <1>2 DEF Next

LEMMA ReadIsCurrentAlways == Spec /\ []OneAtATime => []ReadIsCurrent
<1>. QED BY SerialInit, ReadIsCurrentNext, Invariance, PTL DEF Spec

LEMMA NoWorseAlone ==
  ASSUME Margin >= 0
  PROVE  Spec /\ []OneAtATime => []NoWorse
  BY SerialInit, NoWorseNextAlone, ReadIsCurrentAlways, Invariance, PTL DEF Spec

\* Whatever parts the configs bump, a run that no other one overlaps is promoted
\* over the latest version.
THEOREM OverLatestAlone == Spec /\ []OneAtATime => PromotedOverLatest
  BY ReadIsCurrentAlways, PublishesOverLatestAlone, Invariance, PTL DEF Spec, PromotedOverLatest

\* ... and "latest" is then the best version there ever was, wherever runs were
\* killed in between, if none asks for a negative improvement.
THEOREM LatestBestAlone ==
  ASSUME Margin >= 0
  PROVE  Spec /\ []OneAtATime => []LatestIsBest
  BY NoWorseIsBest, NoWorseAlone, PTL

\* ... and no improvement is refused its version unless a process was killed:
\* without crashes, README.md's "on a genuine improvement the same run writes
\* registry/<id>/1.1.0/" holds for runs that follow one another.
THEOREM WrittenUnlessKilled == Spec /\ []OneAtATime => []RefusedAfterCrash
<1>1. Init => RefusedAfterCrash
  BY DEF Init, RefusedAfterCrash
<1>. QED
  BY <1>1, RefusalInvariance, RefusedAfterCrashNext, ReadIsCurrentAlways, Invariance, PTL DEF Spec
=============================================================================
