CONSTANTS
    loop = loop
    timer = timer
    Threads = {loop, timer}
    Loop = loop
    MaxPackets = 2
    Size <- MCSize
    Garbage = Garbage
    Samples <- MCSamples
    Ivs <- MCIvs
    Lengths = {0, 1, 255, 256, 4660, 65535}
    Version <- MCVersion
    Keystream <- MCKeystream
SPECIFICATION FairSpec
INVARIANTS PeerInStep NoneRejected OpenedIsPacket HeaderTellsLength
PROPERTIES OutboundIsPipe InboundIsPipe
CHECK_DEADLOCK FALSE
