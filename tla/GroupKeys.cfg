SPECIFICATION Spec
CONSTANTS
    phone = phone
    laptop = laptop
    peer = peer
    Devices <- MCDevices
    Users <- MCUsers
    UserOf <- MCUserOf
    Creator = phone
    MaxEpoch = 2
    MaxKeys = 4
    MaxTexts = 1
    MaxOpens = 1
    MaxEvents = 2
INVARIANTS TypeOK EpochHasKey OwnTextReadable
PROPERTIES EpochNeverFalls
CHECK_DEADLOCK FALSE
