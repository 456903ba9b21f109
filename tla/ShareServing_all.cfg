CONSTANTS
    None = None
    SaysImmutable = TRUE
    MaxChanges = 2
SPECIFICATION FairSpec
INVARIANT TypeOK
PROPERTIES
    PublishedAsSpecified
    FollowsPath
    ServedAgain
