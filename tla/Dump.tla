-------------------------------- MODULE Dump --------------------------------
(***************************************************************************)
(* s2pdump: copies a disk or a tape to an image file or back, one SCSI     *)
(* command after the other (s2pdump/s2pdump_core.cpp). The commands go     *)
(* through the board (board_executor.cpp, which reports nothing but        *)
(* success or failure) or through the SG driver of Linux (sg_executor.cpp, *)
(* shared/sg_adapter.cpp, which splits a command into several requests).   *)
(*                                                                         *)
(* A disk is a sequence of bytes and its image another one. A tape is a    *)
(* sequence of blocks and filemarks, and its image a sequence of SIMH      *)
(* records; only the length of a block and which one it is matter. Any     *)
(* command may fail, a limited number of times, and the user may end the   *)
(* tool at any time, which resets the bus. A block that does not fit into  *)
(* the buffer is left out, and so are tapes of the SG driver, for which    *)
(* SgExecutor sets no operation codes.                                     *)
(***************************************************************************)
EXTENDS Integers, Sequences, SequencesExt, FiniteSets

CONSTANTS
    SectorSize,      \* bytes of a sector
    Sectors,         \* sectors of the disk
    Jobs,            \* what the tool is started for
    CountLimit,      \* 65536: the sector count of a command has 16 bits
    SizeLimit,       \* 2^32: the size of the copied range is computed with 32 bits
    MaxSasiCount,    \* 256 sectors
    MaxRequest,      \* MAX_TRANSFER_LENGTH of the SG driver
    DefaultLength,   \* 0xffffff: the block length that is tried first
    MaxFaults        \* bound on the commands and file operations that fail

\* What is on a tape, and the records of a SIMH file
ObjectKinds == {"block", "weak", "bad", "filemark"}
RecordKinds == {"block", "bad", "cut", "filemark", "marker", "end"}

ASSUME DumpAssumption ==
    /\ {SectorSize, CountLimit, SizeLimit, MaxSasiCount, MaxRequest, DefaultLength} \subseteq Nat \ {0}
    /\ Sectors \in Nat /\ MaxFaults \in Nat
    /\ MaxSasiCount < CountLimit
    /\ \A j \in Jobs : /\ {j.start, j.count, j.retries, j.image} \subseteq Nat /\ j.buffer \in Nat \ {0}
                       /\ {j.restore, j.sasi} \subseteq BOOLEAN /\ j.driver \in {"board", "sg"}
                       /\ j.medium \in {"disk", "tape"}
                       /\ j.tape \in Seq([kind : IF j.restore THEN RecordKinds ELSE ObjectKinds, length : Nat,
                                          number : Int])
                       /\ \A i \in DOMAIN j.tape : j.tape[i].kind \in {"marker", "end"} => j.tape[i].length = 0

VARIABLES
    job,      \* the options and the medium
    active,   \* active: cleared by TerminationHandler()
    tool,     \* where the tool is and its local variables
    buffer,   \* buffer: bytes, or the block that was read last
    disk,     \* the bytes of the disk
    tape,     \* the objects on the tape
    position, \* the object the tape is positioned before
    file,     \* the bytes of the image file, or its SIMH records
    faults    \* history: failures so far

vars == <<job, active, tool, buffer, disk, tape, position, file, faults>>

-----------------------------------------------------------------------------
(* Data                                                                    *)

Least(a, b) == IF a < b THEN a ELSE b

\* The bytes of a disk and of an image file before they are copied
OnDisk == [i \in 1 .. Sectors * SectorSize |-> i]
OnFile(n) == [i \in 1 .. n |-> 100 + i]

\* Some bytes of a sequence; what lies outside of it is memory nobody knows anything about.
Unknown == -1
Bytes(s, from, n) == [i \in 1 .. n |-> IF from + i \in DOMAIN s THEN s[from + i] ELSE Unknown]

\* A sequence with some bytes replaced, as far as they are inside of it
Put(s, from, data) == [i \in DOMAIN s |-> IF i - from \in DOMAIN data THEN data[i - from] ELSE s[i]]

\* A block is known by its number. A bad one cannot be read, a weak one not at the first attempt.
Object(kind, length, number) == [kind |-> kind, length |-> length, number |-> number]
Filemark == Object("filemark", 0, 0)
BadMarker == Object("bad", 0, 0)
NoBlock == Object("none", 0, 0)

\* The length of a block that is dumped although no block was read
StatusLength == 255

-----------------------------------------------------------------------------
(* The sequence of steps                                                   *)

Faulty == faults < MaxFaults /\ faults' = faults + 1

\* A command that the bus reset of TerminationHandler() ends counts as well, but needs no fault.
Fails == IF active THEN Faulty ELSE UNCHANGED faults
Succeeds == active /\ UNCHANGED faults

At(pc) == tool.pc = pc

Finish(result) == tool' = [tool EXCEPT !.pc = "end", !.result = result]

Goto(pc) == tool' = [tool EXCEPT !.pc = pc]

\* Run(): the tool is started. Whether the medium is a disk or a tape is not known yet.
DumpInit ==
    /\ job \in Jobs
    /\ active = TRUE
    /\ tool = [pc |-> "device", result |-> "none", remaining |-> 0, sector |-> 0, chunk |-> 0, sectors |-> 0,
               done |-> 0, tries |-> 0, block |-> 0, requested |-> 0, left |-> 0,
               expected |-> DefaultLength, information |-> 0, retried |-> FALSE, sense |-> "none",
               unclear |-> FALSE]
    /\ buffer = IF job.medium = "disk" THEN [i \in 1 .. job.buffer |-> 0] ELSE NoBlock
    /\ disk = OnDisk
    /\ tape = IF job.restore THEN <<>> ELSE job.tape
    /\ position = 0
    /\ file = IF job.medium = "disk" THEN OnFile(job.image) ELSE job.tape
    /\ faults = 0

\* GetDeviceInfo(): INQUIRY and READ CAPACITY
GetDeviceInfo ==
    /\ At("device")
    /\ \/ Succeeds /\ Goto("open")
       \/ Fails /\ Finish("error")
    /\ UNCHANGED <<job, active, buffer, disk, tape, position, file>>

\* Mutant: an image file is opened like one that is restored.
OpenedMutant == file

\* An image file that is going to be written is truncated.
Opened == IF job.restore THEN file ELSE <<>>

\* DumpRestore()
DumpRestore ==
    /\ At("open")
    /\ \/ /\ file' = Opened /\ UNCHANGED faults
          /\ Goto(IF job.medium = "disk" THEN "size" ELSE "rewind")
       \/ Faulty /\ Finish("error") /\ UNCHANGED file
    /\ UNCHANGED <<job, active, buffer, disk, tape, position>>

\* The handler runs between any two steps; the SG driver has none.
TerminationHandler ==
    /\ active /\ job.driver = "board" /\ ~At("end")
    /\ active' = FALSE
    /\ UNCHANGED <<job, tool, buffer, disk, tape, position, file, faults>>

-----------------------------------------------------------------------------
(* Disks                                                                   *)

\* The sector count, which defaults to what follows the first sector
Count == IF job.count = 0 THEN Sectors - job.start ELSE job.count

InRange == job.start < Sectors /\ job.start + Count <= Sectors

\* Mutant: an image file that is larger than the range is restored completely.
EffectiveSizeMutant == IF job.restore THEN Len(file) ELSE (Count * SectorSize) % SizeLimit

\* CalculateEffectiveSize()
EffectiveSize ==
    LET size == (Count * SectorSize) % SizeLimit IN IF job.restore THEN Least(Len(file), size) ELSE size

\* DumpRestoreDisk(): with a range that is wrong or empty there is nothing to do, and no error.
StartDisk ==
    /\ At("size")
    /\ IF InRange /\ EffectiveSize > 0
       THEN tool' = [tool EXCEPT !.pc = "disk", !.remaining = EffectiveSize, !.sector = job.start]
       ELSE Finish("nothing")
    /\ UNCHANGED <<job, active, buffer, disk, tape, position, file, faults>>

\* The sectors of a chunk; the last one may be incomplete.
ChunkSectors(n) == (n + SectorSize - 1) \div SectorSize

\* The bytes of a chunk. SASI drives cannot transfer more than MaxSasiCount sectors.
Chunk ==
    LET n == Least(tool.remaining, job.buffer)
    IN  IF job.sasi /\ ChunkSectors(n) > MaxSasiCount THEN MaxSasiCount * SectorSize ELSE n

\* The bytes of a command, whose sector count has 16 bits. SendCommand() takes that count for
\* the number of bytes, unless it is 0.
CommandLength(sectors) ==
    LET count == sectors % CountLimit
    IN  IF job.driver = "board" THEN count * SectorSize
        ELSE IF count = 0 THEN sectors * SectorSize ELSE count

\* The first request of a command
FirstRequest(t) == [t EXCEPT !.pc = "command", !.block = t.sector, !.requested = 0,
                             !.left = CommandLength(t.sectors)]

\* A chunk, before it is written to or read from the disk. The image file is read once.
NextChunk ==
    /\ At("disk") /\ tool.remaining > 0 /\ active
    /\ \/ /\ tool' = FirstRequest([tool EXCEPT !.chunk = Chunk, !.sectors = ChunkSectors(Chunk), !.tries = 0])
          /\ buffer' = IF job.restore THEN Put(buffer, 0, Bytes(file, tool.done, Chunk)) ELSE buffer
          /\ UNCHANGED faults
       \/ job.restore /\ Faulty /\ Finish("error") /\ UNCHANGED buffer
    /\ UNCHANGED <<job, active, disk, tape, position, file>>

\* The length of the next request, in bytes and in sectors
RequestLength == IF job.driver = "board" THEN tool.left ELSE Least(tool.left, MaxRequest)
RequestSectors == RequestLength \div SectorSize

\* What the disk transfers of a request when it stops after some sectors
Transferred(sectors) ==
    LET n == sectors * SectorSize
        first == tool.block * SectorSize
    IN  IF job.restore
        THEN /\ disk' = Put(disk, first, Bytes(buffer, tool.requested, n))
             /\ UNCHANGED buffer
        ELSE /\ buffer' = Put(buffer, tool.requested, Bytes(disk, first, n))
             /\ UNCHANGED disk

OnTheDisk == tool.block + RequestSectors <= Sectors

\* A request that succeeds: READ(10) or WRITE(10). UpdateStartBlock() prepares the next one.
Request ==
    /\ At("command") /\ Succeeds /\ OnTheDisk
    /\ Transferred(RequestSectors)
    /\ tool' = [tool EXCEPT !.requested = @ + RequestLength, !.left = @ - RequestLength, !.block = @ + RequestSectors,
                            !.pc = IF tool.left = RequestLength THEN "transferred" ELSE "command"]
    /\ UNCHANGED <<job, active, tape, position, file>>

\* One that fails after some sectors: ReadWrite() tries again.
FailedRequest ==
    /\ At("command")
    /\ IF OnTheDisk THEN Fails /\ \E n \in 0 .. RequestSectors : Transferred(n)
       ELSE UNCHANGED <<faults, buffer, disk>>
    /\ IF tool.tries < job.retries THEN tool' = FirstRequest([tool EXCEPT !.tries = @ + 1]) ELSE Finish("error")
    /\ UNCHANGED <<job, active, tape, position, file>>

Advanced == [tool EXCEPT !.pc = "disk", !.sector = @ + tool.sectors, !.remaining = @ - tool.chunk,
                         !.done = @ + tool.chunk]

\* ReadWrite(): the end of a chunk; a dump appends it to the file.
EndChunk ==
    /\ At("transferred")
    /\ \/ /\ tool' = Advanced /\ UNCHANGED faults
          /\ file' = IF job.restore THEN file ELSE file \o Bytes(buffer, 0, tool.chunk)
       \/ ~job.restore /\ Faulty /\ Finish("error") /\ UNCHANGED file
    /\ UNCHANGED <<job, active, buffer, disk, tape, position>>

\* The end, also of a copy that TerminationHandler() ends. Nobody looks at the result of
\* SYNCHRONIZE CACHE.
EndDisk ==
    /\ At("disk") /\ (tool.remaining = 0 \/ ~active)
    /\ Finish("success")
    /\ UNCHANGED <<job, active, buffer, disk, tape, position, file, faults>>

-----------------------------------------------------------------------------
(* Tapes                                                                   *)

\* DumpRestoreTape()
Rewind ==
    /\ At("rewind")
    /\ \/ Succeeds /\ position' = 0 /\ Goto(IF job.restore THEN "restore" ELSE "dump")
       \/ Fails /\ Finish("error") /\ UNCHANGED position
    /\ UNCHANGED <<job, active, buffer, disk, tape, file>>

\* DumpTape(): the next block, or the end when the tool has been ended
NextRead ==
    /\ At("dump")
    /\ IF active THEN tool' = [tool EXCEPT !.pc = "read", !.retried = FALSE] ELSE Finish("success")
    /\ UNCHANGED <<job, active, buffer, disk, tape, position, file, faults>>

\* DumpTape() writes a record to the image file.
Record(t, record) ==
    \/ file' = Append(file, record) /\ tool' = [t EXCEPT !.pc = "dump"] /\ UNCHANGED faults
    \/ Faulty /\ Finish("error") /\ UNCHANGED file

Sense(sense, information) ==
    /\ tool' = [tool EXCEPT !.pc = "sense", !.sense = sense, !.information = information]
    /\ UNCHANGED <<file, faults>>

\* READ(6) with the expected length. The drive passes the object, whatever it reports about it.
ReadEnd ==
    /\ position = Len(tape)
    /\ Sense("blank", 0)
    /\ UNCHANGED <<buffer, tape, position>>

ReadObject ==
    /\ position < Len(tape) /\ position' = position + 1
    /\ LET o == tape[position + 1]
           strong == Object("block", o.length, o.number)
       IN  CASE o.kind = "filemark" -> Sense("filemark", 0) /\ UNCHANGED <<buffer, tape>>
             [] o.kind = "bad"  -> Sense("medium", 0) /\ UNCHANGED <<buffer, tape>>
             [] o.kind = "weak" ->
                 /\ Sense("medium", 0)
                 /\ tape' = [tape EXCEPT ![position + 1] = strong]
                 /\ UNCHANGED buffer
             [] o.kind = "block" ->
                 /\ IF o.length = tool.expected THEN Record(tool, strong)
                    ELSE Sense("length", tool.expected - o.length)
                 /\ buffer' = [o EXCEPT !.length = Least(o.length, tool.expected)]
                 /\ UNCHANGED tape

ReadTape ==
    /\ At("read") /\ active
    /\ ReadEnd \/ ReadObject
    /\ UNCHANGED <<job, active, disk>>

\* The drive does not answer in time, before or after it has passed an object.
ReadTimeout ==
    /\ At("read") /\ Fails
    /\ tool' = [tool EXCEPT !.pc = "sense", !.sense = "none", !.unclear = TRUE]
    /\ position' \in {position, Least(position + 1, Len(tape))}
    /\ UNCHANGED <<job, active, buffer, disk, tape, file>>

\* Mutant: nobody remembers that reading the block has failed before.
RememberedMutant(t) == t

Remembered(t) == [t EXCEPT !.retried = TRUE]

\* Mutant: a block that is longer than expected is taken as it is.
CompleteMutant == TRUE

\* Whether the block has been read completely although its length was not expected
Complete == tool.information > 0

\* A block of the buffer, part of which may be what was there before
InBuffer(length) == Object("block", length, IF buffer.length = length THEN buffer.number ELSE Unknown)

\* S2pDumpExecutor::ReadWrite(): what REQUEST SENSE says about a READ that failed
RequestSense ==
    /\ At("sense")
    /\ \/ /\ active
          /\ LET length == tool.expected - tool.information
                 adjusted == [tool EXCEPT !.expected = length]
                 back(t) == tool' = [t EXCEPT !.pc = "back"] /\ UNCHANGED <<file, faults>>
             IN  CASE tool.sense = "blank" -> Finish("success") /\ UNCHANGED <<file, faults>>
                   [] tool.sense = "medium" ->
                       IF tool.retried THEN Record(tool, BadMarker) ELSE back(Remembered(tool))
                   [] tool.sense = "filemark" -> Record(tool, Filemark)
                   [] tool.sense = "length" ->
                       IF Complete THEN Record(adjusted, InBuffer(length))
                       ELSE back(adjusted)
                   [] tool.sense = "none" -> Record(tool, InBuffer(StatusLength))
       \/ Fails /\ Finish("error") /\ UNCHANGED file
    /\ UNCHANGED <<job, active, buffer, disk, tape, position>>

\* SpaceBack()
SpaceBack ==
    /\ At("back")
    /\ \/ Succeeds /\ Goto("read") /\ position' = IF position = 0 THEN 0 ELSE position - 1
       \/ Fails /\ Finish("error") /\ UNCHANGED position
    /\ UNCHANGED <<job, active, buffer, disk, tape, file>>

\* Records that are written to the tape: good and bad ones that have data. The last one may be cut.
HasData(r) == r.kind \in {"block", "bad", "cut"} /\ r.length > 0

\* The block that is written; when the record is cut the rest of the buffer is written with it.
Restored(r) == Object("block", r.length, IF r.kind = "cut" THEN Unknown ELSE r.number)

\* What is written replaces everything behind it.
Write(object) ==
    \/ /\ Succeeds
       /\ tape' = Append(SubSeq(tape, 1, position), object)
       /\ position' = position + 1
       /\ tool' = [tool EXCEPT !.done = @ + 1]
    \/ Fails /\ Finish("error") /\ UNCHANGED <<tape, position>>

\* RestoreTape(). The end of the file is an END OF MEDIUM marker, and other markers are skipped.
\* The loop does not test active.
RestoreRecord ==
    /\ At("restore")
    /\ IF tool.done = Len(file) \/ file[tool.done + 1].kind = "end"
       THEN Finish("success") /\ UNCHANGED <<tape, position, faults>>
       ELSE LET r == file[tool.done + 1]
            IN  IF r.kind = "filemark" THEN Write(Filemark)
                ELSE IF HasData(r) THEN Write(Restored(r))
                ELSE tool' = [tool EXCEPT !.done = @ + 1] /\ UNCHANGED <<tape, position, faults>>
    /\ UNCHANGED <<job, active, buffer, disk, file>>

-----------------------------------------------------------------------------
ToolNext ==
    \/ GetDeviceInfo \/ DumpRestore
    \/ StartDisk \/ NextChunk \/ Request \/ FailedRequest \/ EndChunk \/ EndDisk
    \/ Rewind \/ NextRead \/ ReadTape \/ ReadTimeout \/ RequestSense \/ SpaceBack \/ RestoreRecord

Ended == At("end") /\ UNCHANGED vars

DumpNext == ToolNext \/ TerminationHandler \/ Ended

\* Commands and requests end by themselves, as all of them have a timeout.
DumpSpec == DumpInit /\ [][DumpNext]_vars /\ WF_vars(ToolNext)

-----------------------------------------------------------------------------
(* Properties                                                              *)

\* Options the copy is exact for: a buffer of whole sectors, fewer of them than a command can
\* transfer, a range of less than 4 GiB, and the board. See AllDataCopied.
Sound ==
    /\ job.buffer % SectorSize = 0
    /\ job.sasi \/ job.buffer \div SectorSize < CountLimit
    /\ Count * SectorSize < SizeLimit
    /\ job.driver = "board"

FirstByte == job.start * SectorSize

Disk == job.medium = "disk"

\* The image file is being written or complete.
Dumping == ~job.restore /\ tool.pc \notin {"device", "open"} /\ tool.result # "error"

Successful == tool.result = "success" /\ active

\* While a disk is dumped the image is the beginning of the selected range, in spite of failing
\* and repeated commands, and all of it when the tool ends without an error and has not been
\* interrupted (DumpRestoreDisk(), ReadWrite(), s2pdump_core.cpp:585, 673).
ImageOfDisk ==
    Disk /\ Dumping /\ Sound /\ InRange =>
        /\ file = Bytes(disk, FirstByte, Len(file))
        /\ Len(file) <= Count * SectorSize
        /\ Successful => Len(file) = Count * SectorSize

\* The bytes of an image that a range can take (CalculateEffectiveSize(), s2pdump_core.cpp:810)
Extent == Least(job.image, Count * SectorSize)

\* The records that are restored, and the object each one is restored to
RestoredRecords ==
    {i \in DOMAIN file : /\ file[i].kind = "filemark" \/ file[i].length > 0
                         /\ \A j \in 1 .. i : file[j].kind # "end"}

RestoredObject(r) ==
    IF r.kind = "filemark" THEN Filemark ELSE Object("block", r.length, IF r.kind = "cut" THEN Unknown ELSE r.number)

\* While a disk is restored nothing outside of the sectors that the image reaches and the range
\* allows is ever written, and in the end the disk holds the image (DumpRestoreDisk(),
\* s2pdump_core.cpp:585).
DiskRestored ==
    Disk /\ Sound /\ InRange =>
        /\ \A i \in DOMAIN disk : disk[i] # OnDisk[i] =>
               job.restore /\ i > FirstByte /\ i <= FirstByte + SectorSize * ChunkSectors(Extent)
        /\ job.restore /\ Successful => \A i \in 1 .. Extent : disk[FirstByte + i] = file[i]

\* A tape holds what has been restored so far of the blocks and filemarks of the image, and all
\* of them in the end (RestoreTape(), s2pdump_core.cpp:753).
TapeRestored ==
    ~Disk /\ job.restore =>
        /\ Len(tape) <= Cardinality(RestoredRecords)
        /\ \A i \in RestoredRecords :
               LET n == Cardinality({j \in RestoredRecords : j <= i})
               IN  n <= Len(tape) => tape[n] = RestoredObject(file[i])
        /\ tool.result = "success" => Len(tape) = Cardinality(RestoredRecords)

\* A restored medium, disk or tape, never gets anything but what the image says, and gets all of
\* it when the tool succeeds.
MediumRestored == DiskRestored /\ TapeRestored

\* A dumped tape: one record for each object so far, in their order, and with the data of
\* all blocks that can be read at one of two attempts, whatever lengths they have, as long as the
\* drive has answered to each READ (S2pDumpExecutor::ReadWrite(), s2pdump_executor.cpp:137).
Dumped(o) ==
    CASE o.kind = "bad" -> BadMarker
      [] o.kind = "filemark" -> Filemark
      [] OTHER -> Object("block", o.length, o.number)

ImageOfTape ==
    ~Disk /\ Dumping /\ ~tool.unclear =>
        /\ IsPrefix(file, [i \in DOMAIN tape |-> Dumped(tape[i])])
        /\ Successful => Len(file) = Len(tape)

\* The tool ends, however many blocks have to be read again (s2pdump_executor.cpp:153).
Ends == <>At("end")

\* What s2pdump promises of any options: "s2pdump will copy all data from a remote drive to an
\* image on the local filesystem" (doc/s2pdump.1). The SG driver does not.
AllDataCopied ==
    Disk /\ ~job.restore /\ InRange /\ Successful => file = Bytes(disk, FirstByte, Count * SectorSize)
=============================================================================
