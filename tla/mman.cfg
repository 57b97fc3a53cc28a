CONSTANTS
    own = own   user = user   temporary = temporary
    l1 = l1  l2 = l2  l3 = l3  l4 = l4
    c1 = c1  c2 = c2  c3 = c3  c4 = c4  c5 = c5  c6 = c6
    s1 = s1  s2 = s2  s3 = s3  k = k
    top = top  tm = tm  tl = tl  th = th  tk = tk
    Roots = {own, user}
    Own = own
    Addrs <- AddrsDef
    Tables <- TablesDef
    Chain <- ChainDef
    SharedTables = {tk}
    Ram <- RamDef
    Devices <- DevicesDef
    Boot <- BootDef
    BootFree <- BootFreeDef
    KmainCounts <- KmainCountsDef
    TEMPORARY_MAP_ADDRESS = temporary
    LocalChannels <- LocalChannelsDef
    TaskChannels <- TaskChannelsDef
    LocalStorage <- LocalStorageDef
    UserAddrs = {c1, s1, k}
    UserFrames = {7, 100}
    MaxTasks = 3
    MaxRequests = 3
    MaxHeap = 1
SPECIFICATION Spec
INVARIANTS TypeOK FreeIsUnmapped CountsAreRefs  TablesPrivate FillsOwnStorage ChannelsPrivate
CHECK_DEADLOCK FALSE
