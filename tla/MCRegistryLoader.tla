-------------------------- MODULE MCRegistryLoader --------------------------
(* An instance of RegistryLoader for TLC: two models, two versions.  One   *)
(* directory may hold anything the tests put into one, and more.           *)
EXTENDS RegistryLoader

CONSTANTS battery, reactor,             \* model ids
          double, single, rebuilt, wide, corrupt, \* artifact files
          stuck, hollow                   \* one whose eval() raises, one that predicts nothing

MCId == {battery, reactor}
MCVersion == {<<1, 0, 0>>, <<1, 1, 0>>}
MCContent == {double, single, rebuilt, wide, corrupt, stuck, hollow}

MCEmulator ==
    [c \in MCContent |->
        [loads |-> c # corrupt,
         evals |-> c # stuck,
         dtypes |-> IF c = single THEN {"float32"} ELSE Dtype,
         inputs |-> 1,
         reshapes |-> c # hollow,
         width |-> IF c = wide THEN 2 ELSE 1,
         uq |-> c # single]]

Trained(d) == IF d[2] = <<1, 0, 0>> THEN double ELSE single

Committed(d) ==
    [exists |-> TRUE,
     manifest |-> [id |-> d[1], version |-> d[2], sha |-> Trained(d),
                   uq |-> MCEmulator[Trained(d)].uq, inputs |-> 1, compiles |-> TRUE],
     artifact |-> Trained(d)]

Swapped(d, c) == [Committed(d) EXCEPT !.artifact = c, !.manifest.sha = NoSha]

\* What the one directory that is not committed may hold.
Oddities(d) ==
    LET c == Committed(d) IN
    {[c EXCEPT !.manifest = m] : m \in {NoManifest, Malformed, Undecodable}}
    \cup {[c EXCEPT !.artifact = f] : f \in {NoFile, rebuilt}}
    \cup {Swapped(d, f) : f \in MCContent}
    \cup {[c EXCEPT !.manifest.version = <<1, 1, 0>>], [c EXCEPT !.manifest.inputs = 2],
          [c EXCEPT !.manifest.uq = FALSE], [c EXCEPT !.manifest.compiles = FALSE]}

MCContents ==
    [d \in MCId \X MCVersion |->
        IF d = <<battery, <<1, 0, 0>>>> THEN Oddities(d) \cup {Absent, Committed(d)}
        ELSE IF d = <<battery, <<1, 1, 0>>>>
             THEN {Absent, [Committed(d) EXCEPT !.manifest = Malformed], Committed(d)}
        ELSE IF d = <<reactor, <<1, 0, 0>>>>
             THEN {[Committed(d) EXCEPT !.manifest = NoManifest], Committed(d)}
        ELSE {Absent}]

\* The same without a model that is withdrawn.
MCPresent ==
    [d \in MCId \X MCVersion |-> IF d[1] = battery THEN MCContents[d] \ {Absent} ELSE MCContents[d]]
=============================================================================
