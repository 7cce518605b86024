SPECIFICATION Spec
CONSTANTS
 Mod = 32
 Iss = 30
 GuestIss = 5
 Mss = 2
 MinMss = 1
 BufLen = 4
 MaxWin = 4
 MaxRxtShift = 1
 MaxBytes = 2
 GuestWindows = {0, 4}
 MaxQueued = 2
 MaxFaults = 1
INVARIANT SentIsCovered
PROPERTY StreamsIntact
CHECK_DEADLOCK FALSE
