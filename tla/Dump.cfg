SPECIFICATION DumpSpec
CONSTANTS
    SectorSize = 2
    Sectors = 5
    Jobs <- AllJobs
    CountLimit = 3
    SizeLimit = 8
    MaxSasiCount = 2
    MaxRequest = 4
    DefaultLength = 4
    MaxFaults = 2
INVARIANTS
    ImageOfDisk
    
    
PROPERTY
    Ends
