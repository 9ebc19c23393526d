CONSTANTS
    p1 = p1
    p2 = p2
    Posters <- TwoPosters
    Threshold = 1
    MaxPosts = 5
SPECIFICATION FairSpec
PROPERTIES
    KeepsContract
    DestructorEnds
CHECK_DEADLOCK FALSE
