\* A reset_and_load of the monitor chip while a thread is in Mailbox::write.
CONSTANTS
    Chips <- MCChips
    SwitchDevice <- MCSwitchDevice
    Addrs <- MCAddrs
    Sizes <- MCSizes
    Values <- MCValues
    Writers <- MCWriters
    w1 = w1
    w2 = w2
    NumCores = 2
    MaxWaitCount = 1
    Slots = 1
    MaxMsgs = 1
    MonitorChip = 0
SPECIFICATION Spec
INVARIANT NoSilentLoss
