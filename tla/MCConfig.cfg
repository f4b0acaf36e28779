SPECIFICATION Spec
CONSTANTS
    Names = {n1, n2, n3}
    MaxRegistries = 3
INVARIANTS
    TypeOK
    SettingsAreInRange
    ClientIsOfScannedRegistry
    NoOtherFile
CHECK_DEADLOCK FALSE
