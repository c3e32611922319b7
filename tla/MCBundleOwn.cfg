SPECIFICATION Spec
CONSTANTS
    Names <- Names3
    Keep = 2
    Interval = 1
    Capacity = 1
    StopStep = 2
    MaxLaunches = 3
    MaxAnchor = 0
INVARIANTS StopLeavesBundle
