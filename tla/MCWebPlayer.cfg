SPECIFICATION FairSpec
CONSTANTS
    Files <- MixedFiles
    BootFile = "uaerc"
    Mandatory = {"uaerc", "score"}
    None = None
    Songs <- MixedSongs
    Setup <- MixedSetup
    Script <- MixedScript
    Ranges <- MixedRanges
    Optional <- MixedOptional
    Unavailable = {"bonus", "conf", "score", "player", "lib"}
    Tracks <- DefaultOrThird
    BufferFrames = 3
    SkipLimit = 4
    Resampler = FALSE
INVARIANTS
    TypeOK
    PendingIsRetried
    SoundIsOfLastSong
    SubsongInRange
PROPERTIES
    CallsReturn
    WaitingEnds
