SPECIFICATION Spec
CONSTANTS
    b1 = b1
    b2 = b2
    Barcodes = {b1, b2}
    None = None
    MaxSaves = 2
    MaxMoves = 3
    MaxPhotos = 2
    MaxFaults = 1
INVARIANTS
    TypeOK
    SavedForItsCarton
    PhotosOfTheirCarton
    CameraReleased
    OneSavePerScreen
    PhotoIsAttached
SYMMETRY Symmetry
CHECK_DEADLOCK FALSE
