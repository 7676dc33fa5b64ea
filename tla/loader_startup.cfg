SPECIFICATION FairSpec
CONSTANTS
    battery = battery
    reactor = reactor
    double = double
    single = single
    rebuilt = rebuilt
    wide = wide
    corrupt = corrupt
    stuck = stuck
    hollow = hollow
    Id <- MCId
    Version <- MCVersion
    Content <- MCContent
    Emulator <- MCEmulator
    Contents <- MCContents
    NoManifest = NoManifest
    Malformed = Malformed
    Undecodable = Undecodable
    NoFile = NoFile
    NoSha = NoSha
    None = None
PROPERTIES EventuallyUp
INVARIANTS TypeOK ServedIsVerified EveryEntryAccounted SteadyIsServed
