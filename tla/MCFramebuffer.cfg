CONSTANTS
    Width = 3
    Height = 2
    Colors = {0, 1}
    Areas <- MCAreas
    Points <- MCPoints
    Images <- MCImages
    Clips <- MCClips
SPECIFICATION Spec
INVARIANTS
    DirtyCoversChanges
PROPERTIES
    ImplementsCanvas
