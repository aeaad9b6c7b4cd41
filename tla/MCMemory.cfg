SPECIFICATION Spec
CONSTANTS
    \* pages
    MaxOrder = 3
    RegionBase = {1, 494}
    RegionSize = {0, 12, 17}
    RangeBase = {4, 7, 508}
    RangeSize = {0, 3, 12}
    \* tables: an address space of 4-entry tables, four levels
    Fanout = 4
    PageEnd = 256
    PageSize = 2
    g_pml4 = 1
    pdpt_table = 2
    pd_table = 3
    HeapBase = 22
    g_kernel_heap_limit = 27
    Pool <- MCPool
    HeapRequest = {0, 1, 3}
    DeviceRange <- MCDeviceRange
    UserPage = 32
    SplitPage = 4
    NONE = NONE
    UserMax = 127
    UserAddress <- MCUserAddress
    UserSize <- MCUserSize
    \* shm
    MaxSegments = 2
    MaxAttachments = 2
    SegmentName = {"a", "b"}
    SegmentSize = {1, 3, 511}
    SegmentId <- MCSegmentId
    ShmIdWrap = 4
    ShmTid = {0, 1, 2}
INVARIANTS
    AllocatorExact
    RangeIsCovered
    MemoryExact
    UserRangesExact
    SegmentsExact
PROPERTY
    ImplementsPages
