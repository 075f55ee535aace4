\* Two peers that send up to nine bytes in a row.
CONSTANTS
    peer1 = peer1
    peer2 = peer2
    NoPeer = NoPeer
    Peers = {peer1, peer2}
    Bytes <- MCBytes
    StartByte <- MCStartByte
    HeaderLength <- MCHeaderLength
    IdLength <- MCIdLength
    ChecksumLength = 1
    SignatureLength = 1
    KnownIds <- MCKnownIds
    SizeMod = 8
    MaxRun = 9
SYMMETRY MCSymmetry
SPECIFICATION Spec
INVARIANTS TypeOK NeverThrows HandsOutThePackets Bounded
CHECK_DEADLOCK FALSE
