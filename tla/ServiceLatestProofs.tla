------------------------- MODULE ServiceLatestProofs -------------------------
(***************************************************************************)
(* What clients of the service get while any number of retrains publish    *)
(* under it: "latest" never goes back and is the best version there is, a   *)
(* pinned version is one model for ever, and no retrain stops a service     *)
(* from starting but by a manifest it has not finished writing.             *)
(***************************************************************************)
EXTENDS ServiceProofs, RetrainOrderProofs

USE ScoreAssumption, VersionAssumption, ChoiceAssumption, MarkAssumption, BoundAssumption

\* The versions the service has loaded.
Held == Loader!Versions(ModelId)

\* There is a highest of them, which latest_version() returns.
HasHighest == Held = {} \/ \E v \in Held : IsHighest(v, Held)

\* The version last served as the latest is complete, and a service that starts
\* found it so.
LatestKnown ==
    /\ latest # None => latest \in Published
    /\ latest # None /\ phase \in {"discovering", "loading"} => <<ModelId, latest>> \in steady
    /\ phase = "up" => latest = Loader!LatestVersion(ModelId)

-----------------------------------------------------------------------------
LEMMA SameOrder ==
    /\ \A v, w : Loader!VersionLess(v, w) <=> VersionLess(v, w)
    /\ \A v, S : Loader!IsHighest(v, S) <=> IsHighest(v, S)
  BY DEF Loader!VersionLess, VersionLess, Loader!IsHighest, IsHighest

\* What is served is complete.
LEMMA HeldIsPublished == WriterInv /\ HeldIsRegistered => Held \subseteq Published
<1>. SUFFICES ASSUME WriterInv, HeldIsRegistered, NEW v \in Held PROVE v \in Published
  OBVIOUS
<1>1. PICK m \in models : m.key[2] = v
  BY DEF Held, Loader!Versions, Loader!Keys
<1>2. Registered(m.key, m.manifest)
  BY DEF HeldIsRegistered
<1>. QED BY <1>1, <1>2, CompleteIsPublished

\* latest_version() is the highest version served, if any is.
LEMMA LatestIsHighest ==
    ASSUME HasHighest, Held # {}
    PROVE  /\ Loader!LatestVersion(ModelId) \in Held
           /\ IsHighest(Loader!LatestVersion(ModelId), Held)
<1>1. Loader!LatestVersion(ModelId) = CHOOSE v \in Held : IsHighest(v, Held)
  BY SameOrder DEF Loader!LatestVersion, Held
<1>. QED BY <1>1 DEF HasHighest

\* A version one more is higher than the highest, or not.
LEMMA OneMore ==
    ASSUME NEW S \in SUBSET Semver, NEW v \in Semver,
           S = {} \/ \E h \in S : IsHighest(h, S)
    PROVE  \E h \in S \cup {v} : IsHighest(h, S \cup {v})
<1>1. CASE S = {}
  BY <1>1, VersionsAreOrdered DEF IsHighest
<1>2. ASSUME NEW h \in S, IsHighest(h, S) PROVE \E k \in S \cup {v} : IsHighest(k, S \cup {v})
  <2>1. CASE ~ VersionLess(h, v)
    BY <1>2, <2>1 DEF IsHighest
  <2>2. CASE VersionLess(h, v)
    <3>1. ASSUME NEW w \in S PROVE ~ VersionLess(v, w)
      <4>1. w = h \/ VersionLess(w, h)
        BY <1>2, VersionsAreOrdered DEF IsHighest
      <4>2. VersionLess(w, v)
        BY <2>2, <4>1, VersionsAreTransitive
      <4>. QED BY <4>2, VersionsAreOrdered
    <3>. QED BY <3>1, VersionsAreOrdered DEF IsHighest
  <2>. QED BY <2>1, <2>2
<1>. QED BY <1>1, <1>2

LEMMA HasHighestInit == ServiceInit => HasHighest
  BY DEF ServiceInit, HasHighest, Held, Loader!Versions, Loader!Keys

LEMMA HasHighestNext ==
    ASSUME WriterInv, HeldIsRegistered, HasHighest, [ServiceNext]_serviceVars
    PROVE  HasHighest'
<1>1. \/ models' = models
      \/ models' = {}
      \/ entry # None /\ \E m : m.key = entry /\ models' = models \cup {m}
  BY DEF ServiceNext, serviceVars, WriterStep, Unnoticed, loaderVars, LoaderStep, Loader!Startup,
         Loader!Boot, Loader!Discover, Loader!ModelWithdrawn, Loader!Discovered, Loader!ReadManifest,
         Loader!FindArtifact, Loader!Checksum, Loader!Deserialize, Loader!Probe,
         Loader!CompileRows, Loader!Restart, Loader!RegistryError, Loader!OtherError,
         Loader!Proceed, Loader!registry, Loader!Working
<1>2. CASE models' = models
  BY <1>2 DEF HasHighest, Held, Loader!Versions, Loader!Keys
<1>3. CASE models' = {}
  BY <1>3 DEF HasHighest, Held, Loader!Versions, Loader!Keys
<1>4. ASSUME entry # None, NEW m, m.key = entry, models' = models \cup {m} PROVE HasHighest'
  <2>1. entry = <<ModelId, entry[2]>> /\ entry[2] \in Version
    BY <1>4, DirIs DEF HeldIsRegistered, Registered
  <2>2. Held' = Held \cup {entry[2]}
    BY <1>4, <2>1 DEF Held, Loader!Versions, Loader!Keys
  <2>3. Held \subseteq Semver
    BY HeldIsPublished DEF Published
  <2>. QED BY <2>1, <2>2, <2>3, OneMore DEF HasHighest
<1>. QED BY <1>1, <1>2, <1>3, <1>4
-----------------------------------------------------------------------------
\* A complete version passes every check of the loader, and stays as it is.
LEMMA PublishedIsValid ==
    ASSUME WriterInv, NEW v \in Published
    PROVE  LET d == <<ModelId, v>> IN
           d \in Dir /\ Registered(d, Tree[d].manifest) /\ Loader!Valid(d, Tree[d])
<1>. DEFINE d == <<ModelId, v>>
            m == ManifestOf(v, artifact[v])
<1>1. /\ v \in Version /\ v \in dirs
      /\ manifest[v] \in Manifest /\ manifest[v].version = v
      /\ artifact[v] = manifest[v].sha /\ artifact[v] \in Artifacts
  BY DEF Published, WriterInv, IInv, PublishedIntact, FromARun
<1>2. Tree[d] = [exists |-> TRUE, manifest |-> m, artifact |-> artifact[v]] /\ d \in Dir
  BY <1>1, TreeAt DEF ManifestFile
<1>3. m \in Loader!Manifest
  BY <1>1 DEF Loader!Manifest, ManifestOf
<1>4. Loader!Valid(d, Tree[d])
  <2>1. Loader!ProbeOk(Trained(artifact[v]), m)
    BY ServiceAssumption DEF Loader!ProbeOk, Loader!Negotiated, Loader!Accepts, Loader!Dtype,
       Trained, ManifestOf
  <2>2. [c \in Artifacts |-> Trained(c)][artifact[v]] = Trained(artifact[v])
    BY <1>1
  <2>. QED
    BY <1>1, <1>2, <1>3, <2>1, <2>2 DEF Loader!Valid, ManifestOf, Trained
<1>. QED BY <1>2, <1>3, <1>4 DEF Registered

LEMMA PublishedGrows ==
    ASSUME IInv, [Next]_vars
    PROVE  Published \subseteq Published'
<1>1. CASE ~ \E r \in Run : FlushManifest(r)
  BY <1>1, ManifestsKept
<1>2. CASE \E r \in Run : FlushManifest(r)
  <2>1. PICK r \in Run : FlushManifest(r)
    BY <1>2
  <2>. QED
    BY <2>1, FlushWritesManifest DEF FlushManifest, Published, IInv, TypeOK
<1>. QED BY <1>1, <1>2

LEMMA LatestInit == ServiceInit => LatestKnown
  BY DEF ServiceInit, LatestKnown

\* The steps of the writers.
LEMMA LatestAmongWriters ==
    ASSUME WriterInv, LatestKnown, WriterStep
    PROVE  LatestKnown'
<1>1. [Next]_vars /\ UNCHANGED <<loaderVars, latest>> /\ RecordTree
  BY DEF WriterStep, Unnoticed
<1>2. latest # None => latest \in Published'
  BY <1>1, PublishedGrows DEF LatestKnown, WriterInv
<1>3. ASSUME latest # None, phase \in {"discovering", "loading"}
      PROVE  <<ModelId, latest>> \in steady'
  <2>. DEFINE d == <<ModelId, latest>>
  <2>1. d \in steady /\ Registered(d, Tree[d].manifest)
    BY <1>3, PublishedIsValid DEF LatestKnown
  <2>2. Tree'[d] = Tree[d]
    BY <1>1, <2>1, RegisteredStays
  <2>. QED BY <1>1, <2>1, <2>2 DEF RecordTree
<1>. QED
  BY <1>1, <1>2, <1>3 DEF LatestKnown, loaderVars, Loader!LatestVersion, Loader!Versions, Loader!Keys

\* The step after which a service serves.
LEMMA LatestAtStart ==
    ASSUME WriterInv, HeldIsRegistered, HasHighest, LatestKnown, LoaderStep,
           Loader!SteadyIsServed', phase # "up", phase' = "up"
    PROVE  /\ latest' = Loader!LatestVersion(ModelId)
           /\ UNCHANGED <<models, steady>>
           /\ latest # None => /\ latest \in Held
                               /\ ~ VersionLess(latest', latest)
           /\ Held # {} => latest' \in Held
<1>1. Loader!CompileRows
  BY DEF LoaderStep, Loader!Startup, Loader!Boot, Loader!Discover, Loader!ModelWithdrawn,
         Loader!Discovered, Loader!ReadManifest, Loader!FindArtifact, Loader!Checksum, Loader!Deserialize,
         Loader!Probe, Loader!Restart, Loader!RegistryError, Loader!OtherError, Loader!Proceed,
         Loader!Working
<1>2. /\ latest' = Loader!LatestVersion(ModelId) /\ phase = "loading"
      /\ UNCHANGED <<models, steady>>
  BY <1>1 DEF LoaderStep, Loader!CompileRows, Loader!registry
<1>3. ASSUME latest # None PROVE latest \in Held /\ ~ VersionLess(latest', latest)
  <2>1. <<ModelId, latest>> \in Loader!Keys
    <3>1. <<ModelId, latest>> \in Loader!Keys'
      BY <1>2, <1>3 DEF LatestKnown, Loader!SteadyIsServed
    <3>. QED BY <1>2, <3>1 DEF Loader!Keys
  <2>2. latest \in Held
    BY <2>1 DEF Held, Loader!Versions
  <2>. QED BY <1>2, <2>2, LatestIsHighest DEF IsHighest
<1>. QED BY <1>2, <1>3, LatestIsHighest

LEMMA LatestByLoader ==
    ASSUME WriterInv, HeldIsRegistered, HasHighest, LatestKnown, LoaderStep,
           Loader!SteadyIsServed'
    PROVE  LatestKnown'
<1>1. UNCHANGED <<vars, Tree, Published>>
  BY DEF LoaderStep, vars, disk, Tree, Published
<1>2. CASE phase # "up" /\ phase' = "up"
  <2>1. /\ latest' = Loader!LatestVersion(ModelId)
        /\ UNCHANGED <<models, steady>>
        /\ Held # {} => latest' \in Held
    BY <1>2, LatestAtStart
  <2>2. latest' # None => latest' \in Published
    <3>1. CASE Held = {}
      BY <2>1, <3>1 DEF Held, Loader!LatestVersion
    <3>2. CASE Held # {}
      BY <2>1, <3>2, HeldIsPublished
    <3>. QED BY <3>1, <3>2
  <2>3. Loader!LatestVersion(ModelId)' = Loader!LatestVersion(ModelId)
    BY <2>1 DEF Loader!LatestVersion, Loader!Versions, Loader!Keys
  <2>. QED
    BY <1>1, <1>2, <2>1, <2>2, <2>3 DEF LatestKnown
<1>3. CASE Loader!Boot
  <2>1. /\ phase = "down" /\ steady' = {d \in Loader!Dir : Loader!Valid(d, Tree[d])}
        /\ phase' \in {"discovering", "crashed"}
    BY <1>3 DEF Loader!Boot
  <2>2. latest' = latest
    BY <2>1 DEF LoaderStep
  <2>3. ASSUME latest # None PROVE <<ModelId, latest>> \in steady'
    BY <2>1, <2>3, PublishedIsValid DEF LatestKnown, Loader!Dir, Dir
  <2>. QED BY <1>1, <2>1, <2>2, <2>3 DEF LatestKnown
<1>4. CASE ~ Loader!Boot /\ phase' # "up"
  <2>1. /\ steady' = steady /\ latest' = latest
        /\ phase' \in {"discovering", "loading"} => phase \in {"discovering", "loading"}
    BY <1>4 DEF LoaderStep, Loader!Startup, Loader!Discover, Loader!ModelWithdrawn, Loader!Discovered,
       Loader!ReadManifest, Loader!FindArtifact, Loader!Checksum, Loader!Deserialize,
       Loader!Probe, Loader!CompileRows, Loader!Restart, Loader!RegistryError,
       Loader!OtherError, Loader!Proceed, Loader!Working
  <2>. QED BY <1>1, <1>4, <2>1 DEF LatestKnown
<1>5. ~ (phase = "up" /\ phase' = "up")
  BY DEF LoaderStep, Loader!Startup, Loader!Boot, Loader!Discover, Loader!ModelWithdrawn,
     Loader!Discovered, Loader!ReadManifest, Loader!FindArtifact, Loader!Checksum, Loader!Deserialize,
     Loader!Probe, Loader!CompileRows, Loader!Restart, Loader!Working
<1>. QED BY <1>2, <1>3, <1>4, <1>5

\* What is known of the service whenever it serves.
LatestInv == WriterInv /\ HeldIsRegistered /\ HasHighest /\ LatestKnown /\ Loader!SteadyIsServed

LEMMA LatestInvariance == ServiceSpec => []LatestInv
<1>. DEFINE Known == HasHighest /\ LatestKnown
<1>1. ServiceInit => Known
  BY HasHighestInit, LatestInit
<1>2. ASSUME WriterInv, HeldIsRegistered, Loader!SteadyIsServed', Known, [ServiceNext]_serviceVars
      PROVE  Known'
  <2>1. HasHighest'
    BY <1>2, HasHighestNext
  <2>2. CASE WriterStep
    BY <1>2, <2>1, <2>2, LatestAmongWriters
  <2>3. CASE LoaderStep
    BY <1>2, <2>1, <2>3, LatestByLoader
  <2>4. CASE UNCHANGED serviceVars
    <3>1. LatestKnown'
      BY <1>2, <2>4 DEF LatestKnown, serviceVars, vars, disk, loaderVars, history, Published,
         Loader!LatestVersion, Loader!Versions, Loader!Keys
    <3>. QED BY <2>1, <3>1
  <2>. QED BY <1>2, <2>2, <2>3, <2>4 DEF ServiceNext
<1>. QED
  BY <1>1, <1>2, HeldAlways, WritersKeepOrder, PromisesKept, PTL DEF ServiceSpec, LatestInv
-----------------------------------------------------------------------------
\* A client that does not pin a version is never answered by an older one after
\* a redeployment, whatever is being published, or was left half written, while
\* the service starts.
THEOREM Forward == ServiceSpec => NeverBackwards
<1>1. ASSUME LatestInv, LatestInv', [ServiceNext]_serviceVars
      PROVE  latest # None /\ phase # "up" /\ phase' = "up"
                => latest' # None /\ ~ VersionLess(latest', latest)
  <2>. SUFFICES ASSUME latest # None, phase # "up", phase' = "up"
                PROVE  latest' # None /\ ~ VersionLess(latest', latest)
    OBVIOUS
  <2>1. LoaderStep
    BY <1>1 DEF ServiceNext, WriterStep, Unnoticed, serviceVars, loaderVars
  <2>2. latest' \in Held /\ ~ VersionLess(latest', latest)
    BY <1>1, <2>1, LatestAtStart DEF LatestInv
  <2>3. Held \subseteq Version
    BY <1>1, HeldIsPublished DEF LatestInv, Published
  <2>. QED BY <2>2, <2>3, ServiceAssumption
<1>. QED BY <1>1, LatestInvariance, PTL DEF ServiceSpec, NeverBackwards

LEMMA WritersAreRetrains == ServiceSpec => Spec
<1>1. ServiceInit => Init
  BY DEF ServiceInit
<1>2. [ServiceNext]_serviceVars => [Next]_vars
  BY DEF ServiceNext, WriterStep, LoaderStep, serviceVars
<1>. QED BY <1>1, <1>2, PTL DEF ServiceSpec, Spec

\* Where no version is worse than one below it, the latest one served is the
\* best of those that were complete when the service started.
LEMMA BestWhereNoWorse == LatestInv /\ NoWorse => ServedIsBest
<1>. SUFFICES ASSUME LatestInv, NoWorse, phase = "up", NEW d \in steady
              PROVE  latest # None /\ ~ Better(manifest[d[2]].score, manifest[latest].score)
  BY DEF ServedIsBest
<1>1. d \in Loader!Keys /\ d = <<ModelId, d[2]>>
  BY DirIs DEF LatestInv, WriterInv, Loader!SteadyIsServed
<1>2. d[2] \in Held
  BY <1>1 DEF Held, Loader!Versions
<1>3. latest \in Held /\ IsHighest(latest, Held)
  BY <1>2, LatestIsHighest DEF LatestInv, LatestKnown
<1>4. Held \subseteq Published /\ Published \subseteq Version
  BY HeldIsPublished DEF LatestInv, Published
<1>5. d[2] = latest \/ VersionLess(d[2], latest)
  BY <1>2, <1>3, <1>4, VersionsAreOrdered DEF IsHighest
<1>6. ~ Better(manifest[d[2]].score, manifest[latest].score)
  BY <1>2, <1>3, <1>4, <1>5 DEF NoWorse, Better
<1>. QED BY <1>3, <1>4, <1>6, ServiceAssumption

\* What a service resolves as latest is the best of all versions that were
\* complete when it started, if all configs bump the same part and none asks for
\* a negative improvement.
THEOREM BestIsServed ==
  ASSUME NEW CONSTANT b, BumpChoices = {b}, Margin >= 0
  PROVE  ServiceSpec => []ServedIsBest
  BY BestWhereNoWorse, LatestInvariance, WritersAreRetrains, OrderIsKept, PTL

\* ... and so it is with any bumps, if no two retrains overlap.
THEOREM BestIsServedAlone ==
  ASSUME Margin >= 0
  PROVE  ServiceSpec /\ []OneAtATime => []ServedIsBest
  BY BestWhereNoWorse, LatestInvariance, WritersAreRetrains, NoWorseAlone, PTL

\* Writers and service keep the types of their variables.
THEOREM ServiceTypes == ServiceSpec => []ServiceTypeOK
<1>1. ServiceSpec => []Loader!TypeOK
  <2>1. LoaderProofs!Spec => []LoaderProofs!LoaderInv
    BY TrainedEmulators, StagesAreFiles, VersionsAreSemver, LoaderProofs!LoaderInvariance
  <2>2. LoaderProofs!LoaderInv => Loader!TypeOK
    BY DEF LoaderProofs!LoaderInv, LoaderProofs!TypeOK, Loader!TypeOK, LoaderProofs!Files,
       Loader!Files, LoaderProofs!Manifest, Loader!Manifest, LoaderProofs!Dir, Loader!Dir,
       LoaderProofs!Loaded, Loader!Loaded, LoaderProofs!Dtype, Loader!Dtype
  <2>3. Loader!Spec => LoaderProofs!Spec
    BY SameStart, SameSteps, PTL DEF Loader!Spec, LoaderProofs!Spec
  <2>. QED BY <2>1, <2>2, <2>3, Implements, PTL DEF ImplementsLoader
<1>2. LatestInv => TypeOK /\ latest \in Version \cup {None}
  BY DEF LatestInv, WriterInv, IInv, LatestKnown, Published
<1>3. ServiceSpec => [](rollbacks \in Nat)
  <2>1. ServiceInit => rollbacks \in Nat
    BY DEF ServiceInit
  <2>2. rollbacks \in Nat /\ [ServiceNext]_serviceVars => (rollbacks \in Nat)'
    BY DEF ServiceNext, WriterStep, Unnoticed, LoaderStep, serviceVars, history
  <2>. QED BY <2>1, <2>2, PTL DEF ServiceSpec
<1>. QED BY <1>1, <1>2, <1>3, LatestInvariance, PTL DEF ServiceTypeOK
-----------------------------------------------------------------------------
(* Retrains and the starts of the service.                                  *)

\* A retrain leaves no manifest, one that is not flushed, or one that is valid.
WritesKnown ==
    \A d \in Dir :
        \/ manifest[d[2]] = NoManifest /\ Tree[d].manifest = NoManifest
        \/ manifest[d[2]] = Torn /\ Tree[d].manifest = Torn
        \/ /\ d[2] \in Published
           /\ Tree[d].manifest \notin {NoManifest, Torn, Undecodable}
           /\ Loader!Valid(d, Tree[d])

LEMMA WritesAreKnown == WriterInv => WritesKnown
<1>. SUFFICES ASSUME WriterInv, NEW d \in Dir
              PROVE  \/ manifest[d[2]] = NoManifest /\ Tree[d].manifest = NoManifest
                     \/ manifest[d[2]] = Torn /\ Tree[d].manifest = Torn
                     \/ /\ d[2] \in Published
                        /\ Tree[d].manifest \notin {NoManifest, Torn, Undecodable}
                        /\ Loader!Valid(d, Tree[d])
  BY DEF WritesKnown
<1>1. /\ d = <<ModelId, d[2]>> /\ d[2] \in Version
      /\ Tree[d].manifest = ManifestFile(manifest[d[2]])
      /\ manifest[d[2]] \in Manifest \cup {NoManifest, Torn}
  BY DirIs DEF Tree, WriterInv, IInv, TypeOK
<1>2. CASE manifest[d[2]] \in {NoManifest, Torn}
  BY <1>1, <1>2 DEF ManifestFile
<1>3. CASE manifest[d[2]] \in Manifest
  <2>1. d[2] \in Published
    BY <1>1, <1>3 DEF Published
  <2>2. Registered(d, Tree[d].manifest) /\ Loader!Valid(d, Tree[d])
    BY <1>1, <2>1, PublishedIsValid
  <2>. QED BY <2>1, <2>2, ServiceAssumption DEF Registered
<1>. QED BY <1>1, <1>2, <1>3

LEMMA WritesAreKnownNext == WriterInv' => WritesKnown'
  BY WritesAreKnown, PTL

\* A directory found with a manifest.json keeps one, and the model's own stays
\* where it was listed: retrains delete nothing.
FoundStays ==
    /\ mounted
    /\ \A d \in found \cup todo : d \in Dir /\ manifest[d[2]] # NoManifest
    /\ phase = "discovering" /\ scan # {} => dirs # {}

LEMMA ManifestsStay ==
    ASSUME WriterInv, WriterStep, NEW v \in Version, manifest[v] # NoManifest
    PROVE  manifest'[v] # NoManifest
<1>1. PICK r \in Run : Start(r) \/ Read(r) \/ Write(r) \/ Die(r)
  BY DEF WriterStep, Next
<1>2. manifest \in [Version -> Manifest \cup {NoManifest, Torn}]
  BY DEF WriterInv, IInv, TypeOK
<1>3. CASE v # candidate[r]
  BY <1>1, <1>3, OneDirectory DEF WriterInv
<1>4. CASE v = candidate[r]
  <2>1. manifest'[v] \in {manifest[v], Torn} \cup Manifest
    BY <1>1, <1>2, <1>4, OwnDirectory DEF disk
  <2>. QED BY <2>1
<1>. QED BY <1>3, <1>4

LEMMA FoundStaysNext ==
    WriterInv /\ FoundStays /\ [ServiceNext]_serviceVars => FoundStays'
<1>. SUFFICES ASSUME WriterInv, FoundStays, [ServiceNext]_serviceVars PROVE FoundStays'
  OBVIOUS
<1>1. CASE WriterStep
  <2>1. dirs \subseteq dirs'
    <3>1. PICK r \in Run : Start(r) \/ Read(r) \/ Write(r) \/ Die(r)
      BY <1>1 DEF WriterStep, Next
    <3>. QED BY <3>1, OwnDirectory DEF disk
  <2>2. UNCHANGED loaderVars
    BY <1>1 DEF WriterStep, Unnoticed
  <2>. QED BY <1>1, <2>1, <2>2, ManifestsStay, DirIs DEF loaderVars, FoundStays, Dir
<1>2. CASE LoaderStep
  <2>1. UNCHANGED <<dirs, manifest, mounted, Tree>>
    BY <1>2 DEF LoaderStep, vars, disk, Tree, Loader!Startup, Loader!Restart, Loader!Boot,
       Loader!Discover, Loader!ModelWithdrawn, Loader!Discovered, Loader!ReadManifest,
       Loader!FindArtifact, Loader!Checksum, Loader!Deserialize, Loader!Probe, Loader!CompileRows,
       Loader!tree
  <2>2. \/ found' \cup todo' \subseteq found \cup todo
        \/ \E d \in Loader!Dir : /\ found' = found \cup {d} /\ UNCHANGED todo
                                 /\ Tree[d].manifest # NoManifest
    BY <1>2 DEF LoaderStep, Loader!Startup, Loader!Restart, Loader!Boot, Loader!Discover,
       Loader!ModelWithdrawn, Loader!Discovered, Loader!ReadManifest, Loader!FindArtifact,
       Loader!Checksum, Loader!Deserialize, Loader!Probe, Loader!CompileRows, Loader!RegistryError,
       Loader!OtherError, Loader!Proceed, Loader!registry
  <2>3. Loader!Dir = Dir
    BY DEF Loader!Dir, Dir
  <2>4. phase' = "discovering" /\ scan' # {} => dirs' # {}
    <3>1. CASE Loader!Boot
      <4>1. ASSUME NEW d \in scan' PROVE \E v \in Version : v \in dirs
        <5>1. PICK v \in Version : Tree[<<d[1], v>>].exists /\ d \in Loader!Dir
          BY <3>1 DEF Loader!Boot, Loader!HasVersion
        <5>2. d[1] = ModelId
          BY <5>1 DEF Loader!Dir
        <5>3. Tree[<<ModelId, v>>].exists <=> v \in dirs
          BY DEF Tree, Dir
        <5>. QED BY <5>1, <5>2, <5>3
      <4>. QED BY <2>1, <4>1
    <3>2. CASE ~ Loader!Boot
      <4>1. phase' = "discovering" => phase = "discovering" /\ scan' \subseteq scan
        BY <1>2, <3>2 DEF LoaderStep, Loader!Startup, Loader!Restart, Loader!Discover,
           Loader!ModelWithdrawn, Loader!Discovered, Loader!ReadManifest, Loader!FindArtifact,
           Loader!Checksum, Loader!Deserialize, Loader!Probe, Loader!CompileRows, Loader!RegistryError,
           Loader!OtherError, Loader!Proceed, Loader!Working
      <4>. QED BY <2>1, <4>1 DEF FoundStays
    <3>. QED BY <3>1, <3>2
  <2>5. CASE found' \cup todo' \subseteq found \cup todo
    BY <2>1, <2>5, <2>4 DEF FoundStays, Dir
  <2>6. ASSUME NEW d \in Dir, found' = found \cup {d}, UNCHANGED todo, Tree[d].manifest # NoManifest
        PROVE  FoundStays'
    <3>1. manifest[d[2]] # NoManifest
      BY <2>6, WritesAreKnown DEF WritesKnown, Published
    <3>. QED BY <2>1, <2>6, <2>4, <3>1 DEF FoundStays, Dir
  <2>. QED BY <2>2, <2>3, <2>5, <2>6
<1>3. CASE UNCHANGED serviceVars
  BY <1>3 DEF serviceVars, vars, disk, loaderVars, FoundStays, Dir
<1>. QED BY <1>1, <1>2, <1>3 DEF ServiceNext

\* A torn manifest is being written, or its writer was killed.
LEMMA TornIsUnfinished ==
    ASSUME WriterInv, RefusalInv, NEW v \in Version, manifest[v] = Torn
    PROVE  deaths > 0 \/ \E r \in Run : pc[r] = "writing" /\ candidate[r] = v
<1>1. v \in dirs /\ v \notin Published
  BY DEF WriterInv, IInv, ManifestsInDirs, Published
<1>2. ASSUME NEW r \in Run, pc[r] \in InDirectory, candidate[r] = v PROVE pc[r] = "writing"
  BY <1>2 DEF WriterInv, IInv, OwnFiles
<1>. QED BY <1>1, <1>2 DEF RefusalInv, DirsAccounted

\* The entry being loaded, and every one loaded, passes the loader's checks.
LEMMA HeldIsValid ==
    ASSUME WriterInv, HeldIsRegistered
    PROVE  /\ entry # None => /\ Loader!Valid(entry, Tree[entry])
                              /\ opened = Tree[entry].manifest
                              /\ opened.sha = Tree[entry].artifact
                              /\ opened.inputs = 1
           /\ \A m \in models : m.manifest.compiles
<1>1. ASSUME NEW d, NEW m, Registered(d, m)
      PROVE  /\ Loader!Valid(d, Tree[d]) /\ m = Tree[d].manifest
             /\ m.compiles /\ m.inputs = 1 /\ m.sha = Tree[d].artifact
  <2>1. d[2] \in Published /\ m = ManifestFile(manifest[d[2]])
    BY <1>1, CompleteIsPublished
  <2>2. d = <<ModelId, d[2]>> /\ m = Tree[d].manifest
    BY <1>1, DirIs DEF Registered
  <2>3. Loader!Valid(d, Tree[d])
    BY <2>1, <2>2, PublishedIsValid
  <2>4. m = ManifestOf(manifest[d[2]].version, manifest[d[2]].sha)
    BY <2>1 DEF ManifestFile, Published
  <2>5. manifest[d[2]].sha = artifact[d[2]] /\ Tree[d].artifact = artifact[d[2]]
    BY <1>1, <2>1 DEF WriterInv, IInv, PublishedIntact, Registered, Tree
  <2>. QED BY <2>2, <2>3, <2>4, <2>5 DEF ManifestOf
<1>. QED BY <1>1 DEF HeldIsRegistered

\* Only reading a manifest can end a start, and only a torn one of a strict service.
LEMMA CrashIsTorn ==
    ASSUME WriterInv, HeldIsRegistered, FoundStays, LoaderStep,
           phase # "crashed", phase' = "crashed"
    PROVE  strict /\ \E v \in Version : manifest[v] = Torn
<1>1. ~ Loader!Boot /\ ~ (\E d \in Loader!Dir : Loader!Discover(d)) /\ ~ Loader!Discovered
      /\ ~ Loader!Restart
  BY DEF FoundStays, Loader!Boot, Loader!Discover, Loader!Discovered, Loader!Restart
<1>2. ~ \E i \in {ModelId} : Loader!ModelWithdrawn(i)
  <2>. SUFFICES ASSUME Loader!ModelWithdrawn(ModelId) PROVE FALSE
    OBVIOUS
  <2>1. /\ phase = "discovering" /\ Version # {} /\ {ModelId} \X Version \subseteq scan
        /\ \A v \in Version : ~ Tree[<<ModelId, v>>].exists
    BY DEF Loader!ModelWithdrawn, Loader!HasVersion
  <2>2. \A v \in Version : v \notin dirs
    BY <2>1 DEF Tree, Dir
  <2>3. scan # {}
    <3>1. PICK v \in Version : TRUE
      BY <2>1
    <3>2. <<ModelId, v>> \in scan
      BY <2>1
    <3>. QED BY <3>2
  <2>4. dirs # {}
    BY <2>1, <2>3 DEF FoundStays
  <2>5. dirs \subseteq Version
    BY DEF WriterInv, IInv, TypeOK
  <2>. QED BY <2>2, <2>4, <2>5
<1>3. ~ Loader!CompileRows
  BY HeldIsValid DEF Loader!CompileRows
<1>4. ~ Loader!FindArtifact /\ ~ Loader!Checksum /\ ~ Loader!Deserialize
  <2>. SUFFICES ASSUME entry # None
                PROVE  ~ Loader!FindArtifact /\ ~ Loader!Checksum /\ ~ Loader!Deserialize
    BY DEF Loader!FindArtifact, Loader!Checksum, Loader!Deserialize, Loader!Working
  <2>1. /\ Tree[entry].artifact \in Artifacts
        /\ opened.sha = Tree[entry].artifact
        /\ [c \in Artifacts |-> Trained(c)][Tree[entry].artifact].loads
        /\ [c \in Artifacts |-> Trained(c)][Tree[entry].artifact].evals
    BY HeldIsValid DEF Loader!Valid
  <2>2. Tree[entry].artifact # NoFile
    BY <2>1 DEF Artifacts, NoFile
  <2>3. ~ Loader!FindArtifact
    BY <2>2 DEF Loader!FindArtifact, Loader!Working, Loader!Proceed
  <2>4. ~ Loader!Checksum
    BY <2>1, <2>2 DEF Loader!Checksum, Loader!Working, Loader!Proceed
  <2>5. ~ Loader!Deserialize
    BY <2>1, <2>2 DEF Loader!Deserialize, Loader!Working, Loader!Proceed
  <2>. QED BY <2>3, <2>4, <2>5
<1>5. ~ Loader!Probe
  <2>. SUFFICES ASSUME Loader!Probe PROVE FALSE
    OBVIOUS
  <2>1. /\ entry # None /\ stage = "probe" /\ phase = "loading"
        /\ ~ Loader!ProbeOk([c \in Artifacts |-> Trained(c)][emulator], opened)
    BY DEF Loader!Probe, Loader!Working, Loader!ProbeOk
  <2>2. emulator = Tree[entry].artifact
    BY <2>1 DEF HeldIsRegistered
  <2>3. Loader!ProbeOk([c \in Artifacts |-> Trained(c)][Tree[entry].artifact], Tree[entry].manifest)
    BY <2>1, HeldIsValid DEF Loader!Valid
  <2>. QED BY <2>1, <2>2, <2>3, HeldIsValid
<1>6. PICK d \in Loader!Dir : Loader!ReadManifest(d)
  BY <1>2, <1>1, <1>3, <1>4, <1>5 DEF LoaderStep, Loader!Startup
<1>7. d \in Dir /\ d \in todo /\ phase = "loading"
  BY <1>6 DEF Loader!ReadManifest, Loader!Dir, Dir
<1>8. /\ Tree[d].manifest # NoManifest /\ Tree[d].manifest # Undecodable
      /\ \/ manifest[d[2]] = Torn /\ Tree[d].manifest = Torn
         \/ Tree[d].manifest \in Loader!Manifest
            /\ <<Tree[d].manifest.id, Tree[d].manifest.version>> = d
  <2>1. manifest[d[2]] # NoManifest
    BY <1>7 DEF FoundStays
  <2>. QED
    BY <1>7, <2>1, WritesAreKnown, ServiceAssumption DEF WritesKnown, Loader!Valid
<1>9. CASE Tree[d].manifest = Torn /\ manifest[d[2]] = Torn
  <2>1. Loader!RegistryError(d)
    BY <1>6, <1>8, <1>9, ServiceAssumption DEF Loader!ReadManifest
  <2>2. strict
    BY <1>7, <2>1 DEF Loader!RegistryError
  <2>. QED BY <1>7, <1>9, <2>2, DirIs
<1>10. CASE Tree[d].manifest \in Loader!Manifest
           /\ <<Tree[d].manifest.id, Tree[d].manifest.version>> = d
  <2>1. phase' = phase
    BY <1>6, <1>10, ServiceAssumption DEF Loader!ReadManifest, Loader!Proceed
  <2>. QED BY <1>7, <2>1
<1>. QED BY <1>8, <1>9, <1>10

LEMMA FoundStaysAlways == ServiceSpec => []FoundStays
<1>1. ServiceInit => FoundStays
  BY DEF ServiceInit, FoundStays
<1>. QED BY <1>1, FoundStaysNext, WritersKeepOrder, PTL DEF ServiceSpec

LEMMA CrashIsUnfinishedWrite ==
    ASSUME WriterInv, HeldIsRegistered, FoundStays, RefusalInv, [ServiceNext]_serviceVars,
           phase # "crashed", phase' = "crashed"
    PROVE  /\ strict
           /\ \E v \in Version :
                 /\ manifest[v] = Torn
                 /\ deaths > 0 \/ \E r \in Run : pc[r] = "writing" /\ candidate[r] = v
<1>1. LoaderStep
  BY DEF ServiceNext, WriterStep, Unnoticed, serviceVars, loaderVars
<1>2. strict /\ \E v \in Version : manifest[v] = Torn
  BY <1>1, CrashIsTorn
<1>. QED BY <1>2, TornIsUnfinished

\* No retrain, wherever it is or was killed, stops a start of the service, but
\* by a manifest it has not finished writing, and then of a strict service only.
THEOREM SafeStarts == ServiceSpec => CrashNeedsUnfinishedWrite
  BY CrashIsUnfinishedWrite, FoundStaysAlways, HeldAlways, WritersKeepOrder, WritersAreRetrains,
     RefusalInvariance, PTL DEF ServiceSpec, CrashNeedsUnfinishedWrite

\* docs/model_manifest_schema.md: "strict=False loads what it can": beside
\* retrains a lenient service never fails to start.
THEOREM LenientStarts == ServiceSpec => [](~ strict => phase # "crashed")
<1>. DEFINE Alive == ~ strict => phase # "crashed"
<1>1. ServiceInit => Alive
  BY DEF ServiceInit
<1>2. [ServiceNext]_serviceVars => UNCHANGED strict
  BY DEF ServiceNext, WriterStep, Unnoticed, serviceVars, loaderVars, LoaderStep, Loader!Startup,
     Loader!Restart, Loader!Boot, Loader!Discover, Loader!ModelWithdrawn, Loader!Discovered,
     Loader!ReadManifest,
     Loader!FindArtifact, Loader!Checksum, Loader!Deserialize, Loader!Probe, Loader!CompileRows
<1>3. /\ WriterInv /\ HeldIsRegistered /\ FoundStays /\ RefusalInv
      /\ Alive /\ [ServiceNext]_serviceVars
      => Alive'
  BY <1>2, CrashIsUnfinishedWrite
<1>. QED
  BY <1>1, <1>3, FoundStaysAlways, HeldAlways, WritersKeepOrder, WritersAreRetrains,
     RefusalInvariance, PTL DEF ServiceSpec
-----------------------------------------------------------------------------
(* What a version names, as long as nobody reverts one.                     *)

\* README.md's "A <model_id>/<version>/ directory is immutable" is true of all
\* that retrains do; it takes a rollback to make a version name something else.
THEOREM Unchanging == ServiceSpec => []VersionsNeverChange
<1>1. WriterInv => VersionsNeverChange
  BY DEF WriterInv, OriginIsArtifact, VersionsNeverChange, Published, Dir
<1>. QED BY <1>1, WritersKeepOrder, PTL

\* What a trained emulator is served with: its dtype is the first one asked for.
InDouble(m) == m = [key |-> m.key, manifest |-> m.manifest, emulator |-> m.emulator,
                    dtype |-> "float64"]

AllInDouble == \A m \in models : InDouble(m)

LEMMA AllInDoubleNext ==
    WriterInv /\ HeldIsRegistered /\ AllInDouble /\ [ServiceNext]_serviceVars => AllInDouble'
<1>. SUFFICES ASSUME WriterInv, HeldIsRegistered, AllInDouble, [ServiceNext]_serviceVars,
                     NEW m \in models', m \notin models
              PROVE  InDouble(m)
  BY DEF AllInDouble, InDouble
<1>1. Loader!Probe
  BY DEF ServiceNext, serviceVars, WriterStep, Unnoticed, loaderVars, LoaderStep,
     Loader!Startup, Loader!Boot, Loader!Discover, Loader!ModelWithdrawn, Loader!Discovered,
     Loader!ReadManifest, Loader!FindArtifact, Loader!Checksum, Loader!Deserialize, Loader!CompileRows,
     Loader!Restart, Loader!RegistryError, Loader!OtherError, Loader!Proceed, Loader!registry
<1>2. /\ entry # None /\ stage = "probe"
      /\ m = [key |-> entry, manifest |-> opened, emulator |-> emulator,
              dtype |-> Loader!Negotiated([c \in Artifacts |-> Trained(c)][emulator], opened)]
  BY <1>1 DEF Loader!Probe, Loader!Working, Loader!RegistryError, Loader!OtherError, Loader!registry
<1>3. opened.inputs = 1 /\ emulator \in Artifacts
  BY <1>2, HeldIsValid DEF HeldIsRegistered, Loader!Valid
<1>. QED BY <1>2, <1>3 DEF InDouble, Loader!Negotiated, Loader!Accepts, Trained

\* m is the model the registry has under m's version.
IsModelOf(m) ==
    /\ Registered(m.key, m.manifest)
    /\ m.emulator = Tree[m.key].artifact
    /\ InDouble(m)

LEMMA IsModelOfStays ==
    ASSUME NEW m, WriterInv, IsModelOf(m), [ServiceNext]_serviceVars
    PROVE  IsModelOf(m)'
<1>1. [Next]_vars
  BY DEF ServiceNext, WriterStep, LoaderStep, serviceVars
<1>2. Registered(m.key, m.manifest)' /\ Tree'[m.key] = Tree[m.key]
  BY <1>1, RegisteredStays DEF IsModelOf
<1>. QED BY <1>2 DEF IsModelOf, InDouble

\* A client that pins a version is answered by one and the same model for ever:
\* once m was served, whatever any service ever serves under its version is m,
\* across all crashes, restarts and publications.
THEOREM PinnedForEver ==
  ASSUME NEW CONSTANT m
  PROVE  ServiceSpec => [](m \in models => [](\A n \in models : n.key = m.key => n = m))
<1>1. ServiceInit => AllInDouble
  BY DEF ServiceInit, AllInDouble
<1>2. ServiceSpec => []AllInDouble
  BY <1>1, AllInDoubleNext, HeldAlways, WritersKeepOrder, PTL DEF ServiceSpec
<1>3. HeldIsRegistered /\ AllInDouble /\ m \in models => IsModelOf(m)
  BY DEF HeldIsRegistered, AllInDouble, IsModelOf
<1>4. WriterInv /\ IsModelOf(m) /\ [ServiceNext]_serviceVars => IsModelOf(m)'
  BY IsModelOfStays
<1>5. HeldIsRegistered /\ AllInDouble /\ IsModelOf(m)
         => \A n \in models : n.key = m.key => n = m
  <2>. SUFFICES ASSUME HeldIsRegistered, AllInDouble, IsModelOf(m), NEW n \in models, n.key = m.key
                PROVE  n = m
    OBVIOUS
  <2>1. n.manifest = m.manifest /\ n.emulator = m.emulator
    BY DEF HeldIsRegistered, IsModelOf, Registered
  <2>. QED BY <2>1 DEF AllInDouble, IsModelOf, InDouble
<1>. QED
  BY <1>2, <1>3, <1>4, <1>5, HeldAlways, WritersKeepOrder, PTL DEF ServiceSpec
=============================================================================
