CONSTANTS
    Proposals = {1}
    Proposers = {x1, x2}
    Deciders = {d1, d2, d3}
    Presses <- TwoPresses
    Actions = {"retry_outbox", "retry_dead_letters", "acknowledge"}
    MaxPending = 1
    TTL = 1
    MaxFaults = 1
    None = None
SPECIFICATION Spec
SYMMETRY Sym
INVARIANTS
    ApprovedOnce
CHECK_DEADLOCK FALSE
