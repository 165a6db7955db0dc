SPECIFICATION FairSpec
CONSTANTS
    r1 = r1
    Rooms = {r1}
    MaxEvent = 2
    RoomOf <- OneRoomOf
    Workloads <- BothWorkloads
INVARIANTS PendingInv
PROPERTIES SettledForever ReceiptOrder RerunsArePaced EveryEventSettles
CHECK_DEADLOCK FALSE
