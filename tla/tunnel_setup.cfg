SPECIFICATION Spec
CONSTANTS
    MaxSettings = 2
    MaxAttempts = 2
    MaxWrites = 1
    b1 = b1
    b2 = b2
    Builders = {b1, b2}
    OptionLists <- Lists
    Upgrades = {u1}
    RPCs = {r1, r2}
    Blank = Blank
INVARIANT HandshakeAsDialed
INVARIANT CallerMapsUntouched
INVARIANT TargetsNormalised
INVARIANT HandlerSettingsSound
INVARIANT OnePoolPerSize
INVARIANT ToolingRegistersOnce
INVARIANT RPCSeesItsSession
CHECK_DEADLOCK FALSE
