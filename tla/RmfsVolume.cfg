SPECIFICATION Spec
CONSTANTS
    Names = {1, 2, 3}
    InodeCount = 4
    BackupBlock = 10
    BlockSize = 2
    InlineExtents = 2
    CacheEntries = 1
    GroupCommitLimit = 2
    Payloads <- SmallPayloads
    InitSize = 3
    MaxSize = 5
    MaxSequence = 3
INVARIANTS VolumeIsSound ReadsAgree
PROPERTIES ImplementsVolume
