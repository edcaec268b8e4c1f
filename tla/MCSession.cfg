SPECIFICATION Spec
CONSTANTS
    MaxChunk = 2
    MaxScan = 2
    Threshold = 1
    MAX_DRAIN_BYTES = 2
    NParts = 2
    MAX_STREAM_FILES = 2
    MAX_STREAM_REQUEST_RAM = 2
    MAX_STREAM_REQUEST_SPILL = 4
    DeepMax = 3
INVARIANTS InStep OkMeansExamined ListIsWhole DetectionStands
CHECK_DEADLOCK FALSE
