SPECIFICATION DumpSpec
CONSTANTS
    SectorSize = 2
    Sectors = 5
    Jobs <- SgJobs
    CountLimit = 3
    SizeLimit = 20
    MaxSasiCount = 2
    MaxRequest = 4
    DefaultLength = 4
    MaxFaults = 2
INVARIANT AllDataCopied
