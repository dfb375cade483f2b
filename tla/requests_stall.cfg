SPECIFICATION Spec
CONSTANTS
    Peers = {"fast", "old"}
    Seeds = {"fast"}
    Fast = {"fast"}
    NoPeer = NoPeer
    Pieces = {1}
    Chunks = {c1, c2}
    c1 = c1
    c2 = c2
    NoReq = NoReq
    MaxPipeline = 1
    MaxValid = 1
    MaxEvents = 1
CHECK_DEADLOCK FALSE
ACTION_CONSTRAINT WritersBrief
PROPERTY DryPipelineWakes
