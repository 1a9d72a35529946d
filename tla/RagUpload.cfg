SPECIFICATION RagSpec
CONSTANTS
    RagThreads = {t1}
    Texts <- MCTexts
    ChunkSize = 3
    Overlap = 1
    Memory = 8
    MaxUploads = 1
INVARIANT UploadFits
CHECK_DEADLOCK FALSE
