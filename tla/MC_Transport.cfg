\* The driver's open / reset_and_load / write / close protocol with every
\* pciedrv and dnldmgr call able to fail, two booting cores, and two threads
\* sending through the monitor's mailbox.
CONSTANTS
    Chips <- MCChips
    SwitchDevice <- MCSwitchDevice
    Addrs <- MCAddrs
    Sizes <- MCSizes
    Values <- MCValues
    Writers <- MCWriters
    w1 = w1
    w2 = w2
    NumCores = 2
    MaxWaitCount = 1
    Slots = 1
    MaxMsgs = 1
    MonitorChip = 0
SPECIFICATION Spec
INVARIANT TypeOK
INVARIANT BootedBeforeLoad
INVARIANT L2AliasesAgree
INVARIANT OneMailbox
PROPERTY WriteReturns
PROPERTY ResetAndLoadReturns
