SPECIFICATION Spec
CONSTANTS
    Requests = {r1, r2, r3}
    Workers = {w1, w2}
    Limits = {1, 2}
    NoWorker = NoWorker
PROPERTIES
    FreePlaceIsGranted
