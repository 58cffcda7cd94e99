\* A container of nvidia.com/gpu and a collector that is slow to publish.
CONSTANTS
    u1 = u1
    s1 = s1
    s2 = s2
    n1 = n1
    n2 = n2
    d1 = d1
    NoSlot = NoSlot
    NoContainer = NoContainer
    NotSeen = NotSeen
    Unset = Unset
    Pods = {u1}
    Slots = {s1}
    ResourceSets = {{}, {s1}}
    KaiSlots = {}
    Names = {n1}
    Devices = {d1}
    MaxIds = 1
    MaxEdits = 0
    Horizon = 1
    Grace = 0
    StatusLag = 0
    TTL = 0
SPECIFICATION ExporterSpec
INVARIANTS NeverResurrected
