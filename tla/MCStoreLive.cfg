\* Liveness, whether a container finishes before or after its pod is gone; a device and a name that changes.
CONSTANTS
    u1 = u1
    s1 = s1
    s2 = s2
    n1 = n1
    n2 = n2
    d1 = d1
    NoSlot = NoSlot
    NoContainer = NoContainer
    NotSeen = NotSeen
    Unset = Unset
    Pods = {u1}
    Slots = {s1}
    ResourceSets = {{}, {s1}}
    KaiSlots = {s1}
    Names = {n1, n2}
    Devices = {d1}
    MaxIds = 1
    MaxEdits = 1
    Horizon = 2
    Grace = 1
    StatusLag = 1
    TTL = 1
SPECIFICATION FairSpec
INVARIANTS DeviceNamesCurrent
PROPERTIES FinishedIsPurged DeletedPodIsForgotten
