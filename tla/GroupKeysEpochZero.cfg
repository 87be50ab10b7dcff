SPECIFICATION Spec
CONSTANTS
    phone = phone
    laptop = laptop
    peer = peer
    Devices <- MCDevices
    Users <- MCUsers
    UserOf <- MCUserOf
    Creator = phone
    MaxEpoch = 2
    MaxKeys = 4
    MaxTexts = 1
    MaxOpens = 1
    MaxEvents = 2
INVARIANT EpochZeroIsItsKey
CHECK_DEADLOCK FALSE
