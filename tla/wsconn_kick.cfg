SPECIFICATION Spec
CONSTANTS
    Free = free
    Writers = {w1, w2}
    Setters = {k1, k2}
    MaxFrames = 2
    Packages = {"grpctunnel"}
PROPERTY InFlightWriteInterrupted
