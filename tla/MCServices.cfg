SPECIFICATION Spec
CONSTANTS
    \* syscall: 3 has no handler, 4 is beyond the table
    SyscallNumber = {2, 3}
    AuditCapacity = 2
    Caller = {0, 1}
    UserNumber = {2, 3, 4}
    MaxCalls = 3
    MaxChanges = 1
    NoCall = NoCall
    \* keyboard
    Key = {"LSHIFT", "RSHIFT", "LCTRL", "RCTRL", "CAPS", "A", "KPSLASH"}
    KBD_BUFFER_SIZE = 3
    MaxHeld = 3
    NoChar = NoChar
    \* uefi
    FramePages = 6
    FirmwareType <- MCFirmwareType
    Blob <- MCBlob
    Retries = 2
    Slop = 2
    InfoEntries = 6
    Null = Null
    \* ldso
    Image <- MCImage
    StackScanLimit = 4
    AuxvScanLimit = 8
    ScanFallback = 3
    MaxObjects = 3
    Builtin <- MCBuiltin
    DlName = {"stage0-builtins", "libc.so.6", "libx.so"}
    MaxRefs = 4
    NoName = NoName
    Nothing = Nothing
    \* libc
    SocketMax = 1
    SocketBase = 3
    FileMax = 2
    FileBase = 6
    MaxOffset = 2
    PoolSize = 16
    MapPage = 4
    SizeEnd = 64
    MapLength = {1, 4, 5, 12, 60, 61, 63}
INVARIANTS
    JudgedDuringCall
    AuditExact
    TypedIsRead
    StartsSound
    BindingsStay
    HandoffExact
    LibcExact
PROPERTY
    UefiEnds
