SPECIFICATION FairSpec
CONSTANTS
    Irqs = {tick, emac}
    tick = tick
    emac = emac
    None = None
    MaxRaised = 2
INVARIANTS TypeOK HandlerReady
PROPERTY Answered
