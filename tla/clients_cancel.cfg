SPECIFICATION Spec
CONSTANTS
    small = small  large = large  noon = noon  eve = eve
    ann = ann  bob = bob  cat = cat  dan = dan
    None = None
    Client = {ann, bob, cat, dan}
    Editor = {cat, dan}
    capacity <- MCCapacity
    Time = {noon}
    Party = {2, 4}
    Faults = {}
CHECK_DEADLOCK FALSE
PROPERTY CancelsThePicked
