\* Two clients of a disk of two sectors, two users of the LED, two of an EEPROM
\* of two bytes, two files of each small driver.  at24cxx stops for good when its exit crashes.
SPECIFICATION DevicesSpec
CONSTANTS
    DiskClients = {c1, c2}
    NSectors = 2
    Data = {0, 1}
    Zero = 0
    LedUsers = {p1, p2}
    At24Users = {q1, q2}
    NBytes = 2
    Bytes = {0, 1}
    MaxFiles = 2
    SendBuffer = 2
INVARIANTS RequestHasMemory RequestNotForgotten KilledOnlyIfCutOff LedShowsLastWrite
    CallsTakeEffect FaultsConfined
PROPERTIES ImplementsAtomicDisk
CHECK_DEADLOCK FALSE
