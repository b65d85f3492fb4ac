SPECIFICATION FairSpec
CONSTANTS
    Reqs = {r1, r2, r3, r4}
    Slots = 2
    MaxHashes = 2
INVARIANTS
    TypeOK
    PlacesAreInUse
    NoHashForTheGone
PROPERTY EverybodyIsAnswered
