SPECIFICATION LimiterSpec
CONSTANTS
    alice = alice
    bob = bob
    Clients = {alice, bob}
    Settings <- SomeLimits
    CLIENT_WINDOW_SECONDS = 3
    DAILY_WINDOW_SECONDS = 4
    MaxSkew = 1
    MaxTime = 6
SYMMETRY ClientSymmetry
INVARIANTS WindowsRespected RetryAfterIsKept
CHECK_DEADLOCK FALSE
