CONSTANTS
    Tasks <- MCTasks
    MAX_CONNECTIONS <- MCSlots
    DelayedDrop <- MCDelayedDrop
    NoSlot = NoSlot
SPECIFICATION FairSpec
INVARIANTS
    ExclusiveOwnership
    BitsMatchOwners
    NoForeignBytes
PROPERTIES
    ImplementsAllocator
    SomeClaimEnds
