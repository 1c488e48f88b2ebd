SPECIFICATION DatagramSpec
CONSTANTS
    Kind = {"domain"}
    PayloadLen <- Lengths
    DomainLen = {1, 2, 255}
INVARIANT DomainPayloadIntact
