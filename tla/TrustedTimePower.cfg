SPECIFICATION Spec
CONSTANTS
    Openers = {o1, o2}
    NoOpener = NoOpener
    MaxTime = 3
    MaxVersion = 2
    Settings = {{"power"}, {"kill", "syncfail"}}
PROPERTIES
    NoRevival
    NoKeyRollback
    FloorFallsOnlyOnRotation
