CONSTANTS
    n1 = n1
    n2 = n2
    V4 = V4
    V5 = V5
    Big = Big
    None = None
    NoSig = NoSig
    Nodes = {n1, n2}
    KeyOrder <- MCKeyOrder
    IdKey = "id"
    SecpKey = "secp256k1"
    EntriesOf <- MCEntriesOf
    SchemeNames = {V4, V5}
    Registered = {V4}
    KeySize <- MCKeySize
    BlobSize <- MCBlobSize
    SigSize = 66
    SizeLimit = 300
    MaxSeq = 2
    MaxNet = 2
    SeqArgs = {}
    Forged <- MCForged
SPECIFICATION Spec
INVARIANT
    SeqIdentifiesVersion
