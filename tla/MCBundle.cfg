SPECIFICATION Spec
CONSTANTS
    Names <- Names3
    Keep = 2
    Interval = 1
    Capacity = 1
    StopStep = 3
    MaxLaunches = 2
    MaxAnchor = 1
INVARIANTS StopResumes RetainedSurvives ManifestCertifies
