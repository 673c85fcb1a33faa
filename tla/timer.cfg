\* Two CPUs and the loader, each going through up to two slots.
CONSTANTS
    cpu0 = cpu0
    cpu1 = cpu1
    ld = ld
    Devices = {cpu0, cpu1, ld}
    MaxSlots = 2
SPECIFICATION Spec
INVARIANTS
    TypeOK
    SlotAgreement
    NoDataRace
    NoUseAfterFree
    HandShake
PROPERTIES
    ImplementsClock
    NextSlotTerminates
    ShutdownCompletes
