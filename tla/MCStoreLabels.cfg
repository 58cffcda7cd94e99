\* A container of nvidia.com/gpu that KAI annotations may select too, on one device.
CONSTANTS
    u1 = u1
    s1 = s1
    s2 = s2
    n1 = n1
    n2 = n2
    d1 = d1
    NoSlot = NoSlot
    NoContainer = NoContainer
    NotSeen = NotSeen
    Unset = Unset
    Pods = {u1}
    Slots = {s1}
    ResourceSets = {{}, {s1}}
    KaiSlots = {s1}
    Names = {n1}
    Devices = {d1}
    MaxIds = 1
    MaxEdits = 1
    Horizon = 1
    Grace = 0
    StatusLag = 0
    TTL = 1
SPECIFICATION Spec
INVARIANTS DeviceLabelsCurrent
