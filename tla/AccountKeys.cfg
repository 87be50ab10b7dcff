SPECIFICATION Spec
CONSTANTS
    phone = phone
    laptop = laptop
    p1 = p1
    p2 = p2
    l1 = l1
    NoPage = NoPage
    Devices <- MCDevices
    Pages <- MCPages
    DeviceOf <- MCDeviceOf
    MaxKeys = 2
    MaxEvents = 2
INVARIANTS TypeOK OneAccountKey AccountKeyHeld ForkIsSignalled
PROPERTY DenialHolds
CHECK_DEADLOCK FALSE
SYMMETRY SamePhone
