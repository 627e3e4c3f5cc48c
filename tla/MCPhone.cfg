\* The phones of one call, and the packets of one stream and the next.
CONSTANTS
    Call = {c1}
    Offers <- PbxOffers
    Codec = {"opus", "ulaw"}
    DefaultCodec = "ulaw"
    DefaultPT <- Numbers
    Modulus = 10
    Reach = 2
    Gap = 2
    MaxPackets = 14
    MaxStreams = 2
    Endpoints = 5
SPECIFICATION Spec
INVARIANTS
    PhoneInv
    ReceiveInv
    LoadInv
PROPERTIES
    PacerLetsGo
    HangUpEndsBoth
    RunReturns
CHECK_DEADLOCK FALSE
