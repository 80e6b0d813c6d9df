SPECIFICATION Spec
CONSTANTS
    MaxTakes = 2
    MaxOrphans = 1
    MaxSeconds = 1
    Images = {i1, i2}
    NoImage = NoImage
    MaxPosts = 1
INVARIANTS PostsHonest NotOverItself ClockHasReason
PROPERTIES OrphansFromPlayback StoredTakeGetsLink
CHECK_DEADLOCK FALSE
