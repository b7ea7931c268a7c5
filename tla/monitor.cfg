SPECIFICATION FairSpec
CONSTANTS
    baud = baud
    parity = parity
    None = None
    Settings <- MCSettings
    Worlds <- MCWorlds
INVARIANTS MonitorInv AppliedIsAccepted
PROPERTIES EverybodyEnds ImplementsSession
