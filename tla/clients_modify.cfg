SPECIFICATION Spec
CONSTANTS
    small = small  large = large  noon = noon  eve = eve
    ann = ann  bob = bob  cat = cat  dan = dan
    None = None
    Client = {ann, bob, dan}
    Editor = {dan}
    capacity <- MCCapacity
    Time = {noon, eve}
    Party = {2, 4}
    Faults = {"refused", "late", "quit"}
CHECK_DEADLOCK FALSE
SYMMETRY MCSymmetry
INVARIANTS TypeOK CapacityRespected NobodyHoldsTwo ConfirmedIsHeld
