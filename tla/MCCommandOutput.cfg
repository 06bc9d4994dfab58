SPECIFICATION FairOutputSpec
CONSTANTS
    dev1 = dev1
    dev2 = dev2
    Frame <- MCFrame
    Size <- MCSize
    Filler <- MCFiller
    Device <- MCDevice
    Names <- OneName
    MaxShort = 2
INVARIANTS OutputTypeOK OneWrite StreamUnlessShort WholeOnceInOrder Accounting SizeHoldsFrame StationUnderstands
PROPERTY QueueDrains
CHECK_DEADLOCK FALSE
