SPECIFICATION Spec
CONSTANTS
    Files <- MixedFiles
    BootFile = "uaerc"
    Mandatory = {"uaerc", "score"}
    None = None
    Songs <- EndingSongs
    Setup <- EndingSetup
    Script <- LateScript
    Ranges <- EndingRanges
    Optional <- MixedOptional
    Unavailable = {}
    Tracks <- OnlyDefault
    BufferFrames = 2
    SkipLimit = 2
    Resampler = FALSE
INVARIANT EndIsReported
