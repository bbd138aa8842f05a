SPECIFICATION FairSpec
CONSTANTS
    LastChannel = 0
    LinePeriod = 3
    LenMod = 4
    MinPer = 2
    MaxPer = 4
    VolMod = 2
    Byte = 2
    Num = 3
    Den = 2
    Data = {1}
    Starts = {5}
    Lengths = {1, 2}
    Periods = {0, 1}
    Volumes = {3}
    ByHand = {0}
    Attachments <- NoAttachment
INVARIANTS
    TimeGoesOn
    SampleClock
    FetchInRange
PROPERTIES
    PassesGoOn
