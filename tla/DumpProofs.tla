----------------------------- MODULE DumpProofs -----------------------------
(***************************************************************************)
(* Proofs about Dump: what s2pdump has copied at any time, for every disk, *)
(* tape, image and job, and whatever number of commands fails. A job       *)
(* copies in one of four ways, from or to a disk or a tape, so the         *)
(* inductive invariant has four parts. Each of them says how much has been *)
(* copied, that this much is right, and what the step that is under way    *)
(* has in its hands: the chunk in the buffer and the part of it a split or *)
(* repeated command has still to move, or the object on the tape that the  *)
(* sense data describe. The properties do not mention the latter, but a    *)
(* failing command resumes from it.                                        *)
(***************************************************************************)
EXTENDS Dump, SequenceTheorems, FiniteSetTheorems, TLAPS

-----------------------------------------------------------------------------
(* The inductive invariant                                                 *)

\* The steps of a job for a disk and for a tape, and the sense data of a tape
DiskSteps == {"device", "open", "size", "disk", "command", "transferred", "end"}
TapeSteps == {"device", "open", "rewind", "dump", "read", "sense", "back", "restore", "end"}
Senses == {"none", "blank", "medium", "filemark", "length"}

Fields ==
    {"pc", "result", "remaining", "sector", "chunk", "sectors", "done", "tries", "block", "requested", "left",
     "expected", "information", "retried", "sense", "unclear"}

\* The fields of the tool. Numbers that are computed from others are integers.
ToolTyped(t) ==
    /\ DOMAIN t = Fields
    /\ t.pc \in DiskSteps \cup TapeSteps /\ t.result \in {"none", "error", "nothing", "success"}
    /\ t.remaining \in Int /\ t.sector \in Int /\ t.chunk \in Int /\ t.sectors \in Int /\ t.done \in Int
    /\ t.tries \in Int /\ t.block \in Int /\ t.requested \in Int /\ t.left \in Int
    /\ t.expected \in Int /\ t.information \in Int
    /\ t.retried \in BOOLEAN /\ t.sense \in Senses /\ t.unclear \in BOOLEAN

Objects == [kind : ObjectKinds, length : Nat, number : Int]
Records == [kind : ObjectKinds \cup RecordKinds, length : Int, number : Int]
Blocks == [kind : {"block", "none"}, length : Int, number : Int]

DiskTyped ==
    /\ tool.pc \in DiskSteps
    /\ buffer \in [1 .. job.buffer -> Int]
    /\ disk \in [1 .. Sectors * SectorSize -> Int]
    /\ file \in Seq(Int)
    /\ IF job.restore THEN Len(file) = job.image ELSE disk = OnDisk

TapeTyped ==
    /\ tool.pc \in TapeSteps
    /\ buffer \in Blocks
    /\ tape \in Seq(Objects) /\ position \in 0 .. Len(tape)
    /\ IF job.restore THEN file = job.tape /\ tool.pc \notin {"dump", "read", "sense", "back"}
       ELSE file \in Seq(Records) /\ tool.pc # "restore"

\* The typing invariant. Buffer, medium and file of a disk job are bytes, those of a tape job
\* objects and records.
Typed ==
    /\ job \in Jobs /\ active \in BOOLEAN /\ ToolTyped(tool)
    /\ tool.pc # "end" <=> tool.result = "none"
    /\ Disk => DiskTyped
    /\ ~Disk => TapeTyped

\* What a disk job copies
Size == IF job.restore THEN Extent ELSE Count * SectorSize

\* The chunk that is being copied
ChunkCopied ==
    /\ tool.chunk \in 1 .. tool.remaining /\ tool.chunk <= job.buffer
    /\ tool.sectors = ChunkSectors(tool.chunk)
    /\ tool.chunk = tool.remaining \/ tool.chunk = tool.sectors * SectorSize
    /\ CommandLength(tool.sectors) = tool.sectors * SectorSize
    /\ At("command") =>
        /\ tool.requested = 0 /\ tool.left = tool.sectors * SectorSize /\ tool.block = tool.sector
        /\ job.restore => \A i \in 1 .. tool.chunk : buffer[i] = file[tool.done + i]
    /\ At("transferred") =>
        \A i \in 1 .. tool.chunk :
            IF job.restore THEN disk[FirstByte + tool.done + i] = file[tool.done + i]
            ELSE buffer[i] = OnDisk[FirstByte + tool.done + i]

\* How far the copy is
Progress ==
    /\ tool.pc \in {"device", "open", "size"} => tool.done = 0
    /\ tool.pc \in {"disk", "command", "transferred"} =>
        /\ tool.remaining \in Nat
        /\ tool.done + tool.remaining = Size
        /\ tool.remaining > 0 => tool.sector * SectorSize = FirstByte + tool.done
    /\ tool.pc \in {"command", "transferred"} => ChunkCopied
    /\ Successful => tool.done = Size

\* What has been copied
Copied ==
    /\ tool.done \in 0 .. Size
    /\ Dumping => Len(file) = tool.done /\ \A i \in 1 .. tool.done : file[i] = OnDisk[FirstByte + i]
    /\ job.restore => \A i \in 1 .. tool.done : disk[FirstByte + i] = file[i]

\* What a restore may write
Untouched ==
    \A i \in DOMAIN disk : disk[i] # OnDisk[i] =>
        job.restore /\ i > FirstByte /\ i <= FirstByte + SectorSize * ChunkSectors(Extent)

\* The invariant of a disk job with options the copy is exact for
DiskInv == Disk /\ Sound /\ InRange => Progress /\ Copied /\ Untouched

\* The next object of the tape that has no record yet
Current == tape[Len(file) + 1]

\* A tape is dumped object by object. The file has one record for every object read, and the
\* position and the sense data say which object the retry or the next READ gets.
TapeDumped ==
    /\ Len(file) <= Len(tape)
    /\ \A i \in 1 .. Len(file) : file[i] = Dumped(tape[i])
    /\ tool.pc \in {"rewind", "dump", "read"} => IF At("rewind") THEN file = <<>> ELSE position = Len(file)
    /\ tool.pc \in {"sense", "back"} =>
        IF At("sense") /\ tool.sense = "blank" THEN position = Len(file) /\ position = Len(tape)
        ELSE position = Len(file) + 1 /\ position <= Len(tape)
    /\ tool.pc \in {"read", "back"} /\ tool.retried /\ Len(file) < Len(tape) => Current.kind # "weak"
    /\ At("sense") =>
        /\ tool.sense # "none"
        /\ tool.sense = "medium" => IF tool.retried THEN Current.kind = "bad" ELSE Current.kind \in {"bad", "block"}
        /\ tool.sense = "filemark" => Current.kind = "filemark"
        /\ tool.sense = "length" =>
            /\ Current.kind = "block" /\ tool.information = tool.expected - Current.length
            /\ tool.information > 0 => buffer = Current
    /\ Successful => Len(file) = Len(tape)

\* The records of the first n that are restored
Kept(n) == {i \in RestoredRecords : i <= n}

\* A tape is restored record by record: the n-th object on the tape comes from the n-th record
\* that is restored.
TapeWritten ==
    /\ position = Len(tape) /\ (~At("restore") /\ ~At("end") => tape = <<>> /\ tool.done = 0)
    /\ tool.done \in 0 .. Len(file)
    /\ \A i \in 1 .. tool.done : file[i].kind # "end"
    /\ Len(tape) = Cardinality(Kept(tool.done))
    /\ \A i \in Kept(tool.done) : tape[Cardinality(Kept(i))] = RestoredObject(file[i])
    /\ tool.result = "success" => RestoredRecords = Kept(tool.done)

\* The invariant of a tape job
TapeInv ==
    /\ ~Disk /\ Dumping /\ ~tool.unclear => TapeDumped
    /\ ~Disk /\ job.restore => TapeWritten

\* The inductive invariant
DumpInv == Typed /\ DiskInv /\ TapeInv

-----------------------------------------------------------------------------
(* Facts about the constants and about numbers                             *)

LEMMA JobTyped ==
    ASSUME job \in Jobs
    PROVE  /\ job.start \in Nat /\ job.count \in Nat /\ job.retries \in Nat /\ job.image \in Nat
           /\ job.buffer \in Nat \ {0} /\ job.restore \in BOOLEAN /\ job.sasi \in BOOLEAN
  BY DumpAssumption

LEMMA TapeOfJob ==
    ASSUME job \in Jobs
    PROVE  /\ job.restore => job.tape \in Seq([kind : RecordKinds, length : Nat, number : Int])
           /\ ~job.restore => job.tape \in Seq(Objects)
           /\ \A i \in DOMAIN job.tape : job.tape[i].kind \in {"marker", "end"} => job.tape[i].length = 0
  BY DumpAssumption DEF Objects

LEMMA ConstantsTyped ==
    /\ SectorSize \in Nat \ {0} /\ CountLimit \in Nat \ {0} /\ SizeLimit \in Nat \ {0}
    /\ MaxSasiCount \in Nat \ {0} /\ MaxSasiCount < CountLimit
    /\ MaxRequest \in Nat \ {0} /\ DefaultLength \in Nat \ {0}
    /\ Sectors \in Nat /\ MaxFaults \in Nat
  BY DumpAssumption

LEMMA Products ==
    ASSUME NEW a \in Int, NEW b \in Int
    PROVE  /\ a * SectorSize \in Int
           /\ a \in Nat => a * SectorSize \in Nat
           /\ (a + b) * SectorSize = a * SectorSize + b * SectorSize
           /\ (a - b) * SectorSize = a * SectorSize - b * SectorSize
           /\ a <= b => a * SectorSize <= b * SectorSize
           /\ a < b => a * SectorSize + SectorSize <= b * SectorSize
  BY ConstantsTyped

LEMMA ProductTyped ==
    ASSUME NEW a \in Int
    PROVE  a * SectorSize \in Int /\ (a \in Nat => a * SectorSize \in Nat)
  BY ConstantsTyped

\* The sectors of n bytes
LEMMA ChunkSectorsBound ==
    ASSUME NEW n \in Int
    PROVE  /\ ChunkSectors(n) \in Int
           /\ n <= ChunkSectors(n) * SectorSize
           /\ ChunkSectors(n) * SectorSize < n + SectorSize
  <1> DEFINE m == n + SectorSize - 1
  <1>1. m \in Int /\ SectorSize \in Int /\ SectorSize > 0
    BY ConstantsTyped
  <1>2. m \div SectorSize \in Int /\ m % SectorSize \in 0 .. SectorSize - 1
        /\ m = (m \div SectorSize) * SectorSize + (m % SectorSize)
    BY <1>1
  <1>3. QED
    BY <1>1, <1>2 DEF ChunkSectors

\* There is only one number of sectors within these bounds.
LEMMA ChunkSectorsUnique ==
    ASSUME NEW n \in Int, NEW k \in Int, n <= k * SectorSize, k * SectorSize < n + SectorSize
    PROVE  ChunkSectors(n) = k
  <1> DEFINE c == ChunkSectors(n)
  <1>1. c \in Int /\ n <= c * SectorSize /\ c * SectorSize < n + SectorSize
    BY ChunkSectorsBound
  <1> HIDE DEF c
  <1>2. ~(c < k)
    BY <1>1, Products, ConstantsTyped
  <1>3. ~(k < c)
    BY <1>1, Products, ConstantsTyped
  <1>4. QED
    BY <1>1, <1>2, <1>3 DEF c

LEMMA ChunkSectorsOfSectors ==
    ASSUME NEW k \in Int
    PROVE  ChunkSectors(k * SectorSize) = k
  <1>1. k * SectorSize \in Int
    BY Products
  <1>2. k * SectorSize < k * SectorSize + SectorSize
    BY <1>1, ConstantsTyped
  <1>3. QED
    BY <1>1, <1>2, ChunkSectorsUnique

LEMMA ChunkSectorsMonotonic ==
    ASSUME NEW m \in Int, NEW n \in Int, m <= n
    PROVE  ChunkSectors(m) <= ChunkSectors(n)
  <1>1. /\ ChunkSectors(m) \in Int /\ ChunkSectors(m) * SectorSize < m + SectorSize
        /\ ChunkSectors(n) \in Int /\ n <= ChunkSectors(n) * SectorSize
    BY ChunkSectorsBound
  <1> DEFINE a == ChunkSectors(m)
             b == ChunkSectors(n)
  <1> HIDE DEF a, b
  <1>2. ~(b < a)
    <2> SUFFICES ASSUME b < a
                 PROVE  FALSE
      OBVIOUS
    <2>1. b * SectorSize + SectorSize <= a * SectorSize
      BY <1>1, Products DEF a, b
    <2>2. a * SectorSize \in Int /\ b * SectorSize \in Int
      BY <1>1, Products DEF a, b
    <2>3. QED
      BY <1>1, <2>1, <2>2, ConstantsTyped DEF a, b
  <1>3. QED
    BY <1>1, <1>2 DEF a, b

LEMMA ChunkSectorsShift ==
    ASSUME NEW n \in Int, NEW k \in Int
    PROVE  ChunkSectors(n + k * SectorSize) = ChunkSectors(n) + k
  <1> DEFINE c == ChunkSectors(n)
  <1>1. c \in Int /\ n <= c * SectorSize /\ c * SectorSize < n + SectorSize
    BY ChunkSectorsBound
  <1> HIDE DEF c
  <1>2. k * SectorSize \in Int /\ c * SectorSize \in Int /\ (c + k) * SectorSize = c * SectorSize + k * SectorSize
    BY <1>1, Products
  <1> DEFINE x == k * SectorSize
             y == (c + k) * SectorSize
             z == c * SectorSize
  <1>3. n + x \in Int /\ n + x <= y /\ y < n + x + SectorSize
    <2> HIDE DEF x, y, z
    <2>1. x \in Int /\ z \in Int /\ y = z + x /\ n <= z /\ z < n + SectorSize
      BY <1>1, <1>2 DEF x, y, z
    <2>2. QED
      BY <2>1, ConstantsTyped
  <1>4. QED
    BY <1>1, <1>3, ChunkSectorsUnique DEF c

-----------------------------------------------------------------------------
(* Bytes and Put                                                           *)

LEMMA BytesTyped ==
    ASSUME NEW m \in Int, NEW s \in [1 .. m -> Int], NEW from \in Int, NEW n \in Int
    PROVE  /\ Bytes(s, from, n) \in [1 .. n -> Int]
           /\ \A i \in 1 .. n : from + i \in 1 .. m => Bytes(s, from, n)[i] = s[from + i]
  BY DEF Bytes, Unknown

LEMMA PutTyped ==
    ASSUME NEW m \in Int, NEW s \in [1 .. m -> Int], NEW from \in Int, NEW n \in Int,
           NEW data \in [1 .. n -> Int]
    PROVE  /\ Put(s, from, data) \in [1 .. m -> Int]
           /\ \A i \in 1 .. m : Put(s, from, data)[i] = IF i - from \in 1 .. n THEN data[i - from] ELSE s[i]
  BY DEF Put

\* One byte
LEMMA BytesAt ==
    ASSUME NEW s, NEW from, NEW n, NEW i \in 1 .. n, from + i \in DOMAIN s
    PROVE  Bytes(s, from, n)[i] = s[from + i]
  BY DEF Bytes

LEMMA PutAt ==
    ASSUME NEW s, NEW from, NEW data, NEW i \in DOMAIN s
    PROVE  Put(s, from, data)[i] = IF i - from \in DOMAIN data THEN data[i - from] ELSE s[i]
  BY DEF Put

LEMMA BytesDomain ==
    ASSUME NEW s, NEW from, NEW n
    PROVE  DOMAIN Bytes(s, from, n) = 1 .. n
  BY DEF Bytes

-----------------------------------------------------------------------------
(* Types                                                                   *)

LEMMA SameJob ==
    ASSUME UNCHANGED job
    PROVE  /\ Disk' <=> Disk
           /\ Sound' <=> Sound
           /\ InRange' <=> InRange
           /\ Size' = Size /\ Extent' = Extent /\ FirstByte' = FirstByte /\ Count' = Count
  BY DEF Disk, Sound, InRange, Size, Extent, FirstByte, Count

LEMMA InitTyped ==
    ASSUME DumpInit
    PROVE  Typed
  <1> USE DEF DumpInit
  <1>1. job \in Jobs /\ active \in BOOLEAN /\ (tool.pc # "end" <=> tool.result = "none")
    OBVIOUS
  <1>2. ToolTyped(tool)
    BY ConstantsTyped DEF ToolTyped, Fields, DiskSteps, TapeSteps, Senses
  <1>3. CASE Disk
    <2>1. tool.pc \in DiskSteps
      BY DEF DiskSteps
    <2>2. buffer \in [1 .. job.buffer -> Int]
      BY <1>3 DEF Disk
    <2>3. disk = OnDisk /\ disk \in [1 .. Sectors * SectorSize -> Int]
      BY DEF OnDisk
    <2>4. job.image \in Nat
      BY JobTyped
    <2>5. file = [i \in 1 .. job.image |-> 100 + i]
      BY <1>3 DEF Disk, OnFile
    <2>6. file \in Seq(Int) /\ Len(file) = job.image
      BY <2>4, <2>5
    <2>7. QED
      BY <1>1, <1>2, <1>3, <2>1, <2>2, <2>3, <2>6 DEF Typed, DiskTyped
  <1>4. CASE ~Disk
    <2>1. tool.pc \in TapeSteps
      BY DEF TapeSteps
    <2>2. buffer \in Blocks
      BY <1>4 DEF Disk, NoBlock, Object, Blocks
    <2>3. file = job.tape
      BY <1>4 DEF Disk
    <2>4. job.tape \in Seq(Records)
      <3>1. [kind : RecordKinds, length : Nat, number : Int] \subseteq Records
        BY DEF Records
      <3>2. Objects \subseteq Records
        BY DEF Records, Objects
      <3>3. QED
        BY <3>1, <3>2, TapeOfJob, JobTyped, SeqMonotonic
    <2>5. tape \in Seq(Objects)
      BY TapeOfJob, JobTyped, EmptySeq
    <2>6. tool.pc = "device" /\ position \in 0 .. Len(tape)
      BY <2>5, LenProperties
    <2>7. QED
      BY <1>1, <1>2, <1>4, <2>1, <2>2, <2>3, <2>4, <2>5, <2>6 DEF Typed, TapeTyped
  <1>5. QED
    BY <1>3, <1>4

\* What the tool becomes is typed when its fields are.
LEMMA FinishTyped ==
    ASSUME ToolTyped(tool), NEW result \in {"error", "nothing", "success"}, Finish(result)
    PROVE  /\ ToolTyped(tool') /\ tool'.pc = "end" /\ tool'.result = result
           /\ tool'.done = tool.done /\ tool'.unclear = tool.unclear
  BY DEF Finish, ToolTyped, Fields, DiskSteps

LEMMA GotoTyped ==
    ASSUME ToolTyped(tool), NEW pc \in DiskSteps \cup TapeSteps, Goto(pc)
    PROVE  /\ ToolTyped(tool') /\ tool'.pc = pc /\ tool'.result = tool.result
  BY DEF Goto, ToolTyped, Fields

\* Steps of disks and of tapes
LEMMA PhaseOfDisk ==
    ASSUME Typed
    PROVE  /\ tool.pc \in {"size", "disk", "command", "transferred"} => Disk
           /\ tool.pc \in {"rewind", "dump", "read", "sense", "back", "restore"} => ~Disk
  BY DEF Typed, DiskTyped, TapeTyped, DiskSteps, TapeSteps

LEMMA TypedKept ==
    ASSUME Typed, UNCHANGED <<job, buffer, disk, tape, position, file>>, active' \in BOOLEAN, ToolTyped(tool'),
           tool'.pc # "end" <=> tool'.result = "none",
           Disk => tool'.pc \in DiskSteps,
           ~Disk => /\ tool'.pc \in TapeSteps
                    /\ IF job.restore THEN tool'.pc \notin {"dump", "read", "sense", "back"} ELSE tool'.pc # "restore"
    PROVE  Typed'
  BY SameJob DEF Typed, DiskTyped, TapeTyped

LEMMA EndTyped ==
    ASSUME Typed, UNCHANGED <<job, active, buffer, disk, tape, position, file>>,
           NEW result \in {"error", "nothing", "success"}, Finish(result)
    PROVE  Typed'
  <1>1. ToolTyped(tool') /\ tool'.pc = "end" /\ tool'.result = result
    BY FinishTyped DEF Typed
  <1>2. QED
    BY <1>1, TypedKept DEF Typed, DiskSteps, TapeSteps

LEMMA GetDeviceInfoTyped ==
    ASSUME Typed, GetDeviceInfo
    PROVE  Typed'
  <1>1. CASE Goto("open")
    <2>1. ToolTyped(tool') /\ tool'.pc = "open" /\ tool'.result = tool.result
      BY <1>1, GotoTyped DEF Typed, DiskSteps
    <2>2. tool.result = "none"
      BY DEF GetDeviceInfo, At, Typed
    <2>3. QED
      BY <2>1, <2>2, TypedKept DEF GetDeviceInfo, Typed, DiskSteps, TapeSteps
  <1>2. CASE Finish("error")
    BY <1>2, EndTyped DEF GetDeviceInfo
  <1>3. QED
    BY <1>1, <1>2 DEF GetDeviceInfo

LEMMA DumpRestoreTyped ==
    ASSUME Typed, DumpRestore
    PROVE  Typed'
  <1> DEFINE pc == IF job.medium = "disk" THEN "size" ELSE "rewind"
  <1>1. CASE file' = Opened /\ Goto(pc)
    <2>1. ToolTyped(tool') /\ tool'.pc = pc /\ tool'.result = tool.result
      BY <1>1, GotoTyped DEF Typed, DiskSteps, TapeSteps
    <2>2. tool.result = "none"
      BY DEF DumpRestore, At, Typed
    <2>3. tool'.pc # "end" <=> tool'.result = "none"
      BY <2>1, <2>2
    <2>4. job' = job /\ active' = active /\ buffer' = buffer /\ disk' = disk /\ tape' = tape /\ position' = position
      BY DEF DumpRestore
    <2>5. file' = IF job.restore THEN file ELSE <<>>
      BY <1>1 DEF Opened
    <2>6. Disk => DiskTyped'
      BY <2>1, <2>4, <2>5, EmptySeq DEF Typed, DiskTyped, DiskSteps, Disk
    <2>7. ~Disk => TapeTyped'
      BY <2>1, <2>4, <2>5, EmptySeq DEF Typed, TapeTyped, TapeSteps, Disk
    <2>8. QED
      BY <2>1, <2>3, <2>4, <2>6, <2>7, SameJob DEF Typed
  <1>2. CASE Finish("error") /\ UNCHANGED file
    BY <1>2, EndTyped DEF DumpRestore
  <1>3. QED
    BY <1>1, <1>2 DEF DumpRestore

LEMMA TerminationHandlerTyped ==
    ASSUME Typed, TerminationHandler
    PROVE  Typed'
  BY TypedKept DEF Typed, DiskTyped, TapeTyped, TerminationHandler

LEMMA StartDiskTyped ==
    ASSUME Typed, StartDisk
    PROVE  Typed'
  <1>1. Disk
    BY PhaseOfDisk DEF StartDisk, At
  <1>2. CASE InRange /\ EffectiveSize > 0
    <2>1. Count \in Int /\ job.start \in Int /\ SizeLimit \in Nat \ {0}
      BY JobTyped, ConstantsTyped DEF Typed, Count
    <2>2. (Count * SectorSize) % SizeLimit \in Int
      <3> DEFINE total == Count * SectorSize
      <3>1. total \in Int
        BY <2>1, Products
      <3> HIDE DEF total
      <3>2. total % SizeLimit \in Int
        BY <2>1, <3>1
      <3>3. QED
        BY <3>2 DEF total
    <2>3. Len(file) \in Int
      BY <1>1, LenProperties DEF Typed, DiskTyped
    <2>4. EffectiveSize \in Int
      BY <2>2, <2>3 DEF EffectiveSize, Least
    <2>5. tool' = [tool EXCEPT !.pc = "disk", !.remaining = EffectiveSize, !.sector = job.start]
      BY <1>2 DEF StartDisk
    <2>6. ToolTyped(tool') /\ tool'.pc = "disk" /\ tool'.result = tool.result
      BY <2>1, <2>4, <2>5 DEF Typed, ToolTyped, Fields, DiskSteps
    <2>7. tool.result = "none"
      BY DEF StartDisk, At, Typed
    <2>8. QED
      BY <1>1, <2>6, <2>7, TypedKept DEF StartDisk, Typed, DiskSteps
  <1>3. CASE Finish("nothing")
    BY <1>3, EndTyped DEF StartDisk
  <1>4. QED
    BY <1>2, <1>3 DEF StartDisk

\* Numbers of a disk job
LEMMA DiskNumbers ==
    ASSUME Typed, Disk
    PROVE  /\ ToolTyped(tool) /\ tool.remaining \in Int /\ tool.sector \in Int /\ tool.chunk \in Int
           /\ tool.sectors \in Int /\ tool.done \in Int /\ tool.tries \in Int /\ tool.block \in Int
           /\ tool.requested \in Int /\ tool.left \in Int
           /\ Chunk \in Int /\ ChunkSectors(Chunk) \in Int
           /\ CommandLength(tool.sectors) \in Int /\ CommandLength(ChunkSectors(Chunk)) \in Int
           /\ RequestLength \in Int /\ RequestSectors \in Int
           /\ FirstByte \in Int
  <1>1. /\ ToolTyped(tool) /\ tool.remaining \in Int /\ tool.sector \in Int /\ tool.chunk \in Int
        /\ tool.sectors \in Int /\ tool.done \in Int /\ tool.tries \in Int /\ tool.block \in Int
        /\ tool.requested \in Int /\ tool.left \in Int
    BY DEF Typed, ToolTyped, Fields
  <1>2. job.buffer \in Int /\ MaxSasiCount \in Int /\ MaxSasiCount * SectorSize \in Int
    BY JobTyped, ConstantsTyped, Products DEF Typed
  <1>3. Chunk \in Int
    BY <1>1, <1>2 DEF Chunk, Least
  <1>4. ChunkSectors(Chunk) \in Int
    BY <1>3, ChunkSectorsBound
  <1>5. ASSUME NEW n \in Int
        PROVE  CommandLength(n) \in Int
    <2>1. n % CountLimit \in Int
      BY ConstantsTyped
    <2>2. (n % CountLimit) * SectorSize \in Int /\ n * SectorSize \in Int
      BY <2>1, Products
    <2>3. QED
      BY <2>1, <2>2 DEF CommandLength
  <1>6. RequestLength \in Int
    BY <1>1, ConstantsTyped DEF RequestLength, Least
  <1>7. RequestSectors \in Int
    BY <1>6, ConstantsTyped DEF RequestSectors
  <1>8. FirstByte \in Int
    BY JobTyped, ProductTyped DEF Typed, FirstByte
  <1>9. QED
    BY <1>1, <1>3, <1>4, <1>5, <1>6, <1>7, <1>8

\* What a request transfers, also one that stops early
LEMMA TransferredTyped ==
    ASSUME Typed, Disk, NEW n \in Int, Transferred(n)
    PROVE  /\ buffer' \in [1 .. job.buffer -> Int]
           /\ disk' \in [1 .. Sectors * SectorSize -> Int]
           /\ job.restore => /\ UNCHANGED buffer
                             /\ disk' = Put(disk, tool.block * SectorSize, Bytes(buffer, tool.requested, n * SectorSize))
           /\ ~job.restore => /\ UNCHANGED disk
                              /\ buffer' = Put(buffer, tool.requested,
                                               Bytes(disk, tool.block * SectorSize, n * SectorSize))
  <1>1. /\ buffer \in [1 .. job.buffer -> Int] /\ disk \in [1 .. Sectors * SectorSize -> Int]
        /\ job.buffer \in Int /\ Sectors * SectorSize \in Int
    BY JobTyped, ConstantsTyped, Products DEF Typed, DiskTyped
  <1>2. n * SectorSize \in Int /\ tool.block * SectorSize \in Int /\ tool.requested \in Int
    BY DiskNumbers, Products
  <1>3. Bytes(buffer, tool.requested, n * SectorSize) \in [1 .. n * SectorSize -> Int]
    BY <1>1, <1>2, BytesTyped
  <1>4. Bytes(disk, tool.block * SectorSize, n * SectorSize) \in [1 .. n * SectorSize -> Int]
    BY <1>1, <1>2, BytesTyped
  <1>5. Put(disk, tool.block * SectorSize, Bytes(buffer, tool.requested, n * SectorSize))
            \in [1 .. Sectors * SectorSize -> Int]
    BY <1>1, <1>2, <1>3, PutTyped
  <1>6. Put(buffer, tool.requested, Bytes(disk, tool.block * SectorSize, n * SectorSize)) \in [1 .. job.buffer -> Int]
    BY <1>1, <1>2, <1>4, PutTyped
  <1>7. CASE job.restore
    BY <1>1, <1>5, <1>7 DEF Transferred
  <1>8. CASE ~job.restore
    BY <1>1, <1>6, <1>8 DEF Transferred
  <1>9. QED
    BY <1>7, <1>8

LEMMA FirstRequestTyped ==
    ASSUME NEW t, ToolTyped(t), CommandLength(t.sectors) \in Int
    PROVE  ToolTyped(FirstRequest(t)) /\ FirstRequest(t).pc = "command" /\ FirstRequest(t).result = t.result
  <1> DEFINE n == CommandLength(t.sectors)
  <1>1. n \in Int /\ t.sector \in Int
    BY DEF ToolTyped, Fields
  <1>2. FirstRequest(t) = [t EXCEPT !.pc = "command", !.block = t.sector, !.requested = 0, !.left = n]
    BY DEF FirstRequest
  <1> HIDE DEF n
  <1>3. QED
    BY <1>1, <1>2 DEF ToolTyped, Fields, DiskSteps

\* What a disk job leaves alone
LEMMA DiskStepTyped ==
    ASSUME Typed, Disk, UNCHANGED <<job, active>>, ToolTyped(tool'),
           tool'.pc # "end" <=> tool'.result = "none", DiskTyped'
    PROVE  Typed'
  BY SameJob DEF Typed

LEMMA NextChunkTyped ==
    ASSUME Typed, NextChunk
    PROVE  Typed'
  <1>1. Disk /\ tool.result = "none"
    BY PhaseOfDisk DEF NextChunk, At, Typed
  <1>2. CASE job.restore /\ Finish("error") /\ UNCHANGED buffer
    BY <1>2, EndTyped DEF NextChunk
  <1>3. CASE /\ tool' = FirstRequest([tool EXCEPT !.chunk = Chunk, !.sectors = ChunkSectors(Chunk), !.tries = 0])
             /\ buffer' = IF job.restore THEN Put(buffer, 0, Bytes(file, tool.done, Chunk)) ELSE buffer
    <2> DEFINE t == [tool EXCEPT !.chunk = Chunk, !.sectors = ChunkSectors(Chunk), !.tries = 0]
    <2> DEFINE c == Chunk
               k == ChunkSectors(Chunk)
    <2>0. ToolTyped(tool) /\ c \in Int /\ k \in Int
      BY <1>1, DiskNumbers
    <2> HIDE DEF c, k
    <2>1. ToolTyped(t) /\ t.sectors = k /\ t.sector = tool.sector /\ t.result = tool.result
      BY <2>0 DEF ToolTyped, Fields, c, k
    <2> HIDE DEF t
    <2>2. CommandLength(t.sectors) \in Int
      BY <1>1, <2>1, DiskNumbers DEF k
    <2>3. tool' = FirstRequest(t)
      BY <1>3 DEF t
    <2>4. ToolTyped(tool') /\ tool'.pc = "command" /\ tool'.result = "none"
      BY <1>1, <2>1, <2>2, <2>3, FirstRequestTyped
    <2>5. file \in [1 .. Len(file) -> Int] /\ Len(file) \in Int
      BY <1>1, LenProperties DEF Typed, DiskTyped
    <2>6. Bytes(file, tool.done, Chunk) \in [1 .. Chunk -> Int]
      BY <1>1, <2>5, DiskNumbers, BytesTyped
    <2>7. buffer' \in [1 .. job.buffer -> Int]
      <3>1. job.buffer \in Int /\ buffer \in [1 .. job.buffer -> Int] /\ Chunk \in Int
        BY <1>1, DiskNumbers, JobTyped DEF Typed, DiskTyped
      <3>2. Put(buffer, 0, Bytes(file, tool.done, Chunk)) \in [1 .. job.buffer -> Int]
        BY <2>6, <3>1, PutTyped
      <3>3. QED
        BY <1>3, <3>1, <3>2
    <2>8. job' = job /\ active' = active /\ disk' = disk /\ file' = file
      BY DEF NextChunk
    <2>9. DiskTyped'
      BY <1>1, <2>4, <2>7, <2>8 DEF Typed, DiskTyped, DiskSteps
    <2>10. QED
      BY <1>1, <2>4, <2>8, <2>9, DiskStepTyped
  <1>4. QED
    BY <1>2, <1>3 DEF NextChunk

LEMMA RequestTyped ==
    ASSUME Typed, Request
    PROVE  Typed'
  <1>1. Disk /\ tool.result = "none"
    BY PhaseOfDisk DEF Request, At, Typed
  <1>2. RequestSectors \in Int /\ Transferred(RequestSectors)
    BY <1>1, DiskNumbers DEF Request
  <1>3. tool' = [tool EXCEPT !.requested = @ + RequestLength, !.left = @ - RequestLength,
                             !.block = @ + RequestSectors,
                             !.pc = IF tool.left = RequestLength THEN "transferred" ELSE "command"]
    BY DEF Request
  <1>4. ToolTyped(tool') /\ tool'.pc \in {"transferred", "command"} /\ tool'.result = "none"
    <2> DEFINE n == RequestLength
               k == RequestSectors
    <2>1. ToolTyped(tool) /\ n \in Int /\ k \in Int
      BY <1>1, DiskNumbers
    <2> HIDE DEF n, k
    <2>2. tool' = [tool EXCEPT !.requested = @ + n, !.left = @ - n, !.block = @ + k,
                               !.pc = IF tool.left = n THEN "transferred" ELSE "command"]
      BY <1>3 DEF n, k
    <2>3. QED
      BY <1>1, <2>1, <2>2 DEF ToolTyped, Fields, DiskSteps
  <1>5. job' = job /\ active' = active /\ file' = file
    BY DEF Request, Succeeds
  <1>6. DiskTyped'
    BY <1>1, <1>2, <1>4, <1>5, TransferredTyped DEF Typed, DiskTyped, DiskSteps
  <1>7. QED
    BY <1>1, <1>4, <1>5, <1>6, DiskStepTyped

LEMMA FailedRequestTyped ==
    ASSUME Typed, FailedRequest
    PROVE  Typed'
  <1>1. Disk /\ tool.result = "none"
    BY PhaseOfDisk DEF FailedRequest, At, Typed
  <1>2. job' = job /\ active' = active /\ file' = file
    BY DEF FailedRequest
  <1>3. /\ buffer' \in [1 .. job.buffer -> Int] /\ disk' \in [1 .. Sectors * SectorSize -> Int]
        /\ ~job.restore => disk' = disk
    <2>1. CASE OnTheDisk
      <3>1. PICK n \in 0 .. RequestSectors : Transferred(n)
        BY <2>1 DEF FailedRequest
      <3>2. n \in Int
        BY <1>1, DiskNumbers
      <3>3. QED
        BY <1>1, <3>1, <3>2, TransferredTyped
    <2>2. CASE ~OnTheDisk
      BY <1>1, <2>2 DEF FailedRequest, Typed, DiskTyped
    <2>3. QED
      BY <2>1, <2>2
  <1>4. /\ ToolTyped(tool') /\ tool'.pc \in {"command", "end"}
        /\ tool'.result = IF tool'.pc = "end" THEN "error" ELSE "none"
    <2>1. CASE Finish("error")
      BY <2>1, FinishTyped DEF Typed
    <2>2. CASE tool' = FirstRequest([tool EXCEPT !.tries = @ + 1])
      <3> DEFINE t == [tool EXCEPT !.tries = @ + 1]
      <3>0. ToolTyped(tool) /\ tool.tries \in Int
        BY <1>1, DiskNumbers
      <3>1. ToolTyped(t) /\ t.sectors = tool.sectors /\ t.result = tool.result
        BY <3>0 DEF ToolTyped, Fields
      <3> HIDE DEF t
      <3>2. CommandLength(t.sectors) \in Int
        BY <1>1, <3>1, DiskNumbers
      <3>3. tool' = FirstRequest(t)
        BY <2>2 DEF t
      <3>4. QED
        BY <1>1, <3>1, <3>2, <3>3, FirstRequestTyped
    <2>3. QED
      BY <2>1, <2>2 DEF FailedRequest
  <1>5. tool'.pc # "end" <=> tool'.result = "none"
    BY <1>4
  <1>6. DiskTyped'
    BY <1>1, <1>2, <1>3, <1>4 DEF Typed, DiskTyped, DiskSteps
  <1>7. QED
    BY <1>1, <1>2, <1>4, <1>5, <1>6, DiskStepTyped

LEMMA EndChunkTyped ==
    ASSUME Typed, EndChunk
    PROVE  Typed'
  <1>1. Disk /\ tool.result = "none"
    BY PhaseOfDisk DEF EndChunk, At, Typed
  <1>2. CASE ~job.restore /\ Finish("error") /\ UNCHANGED file
    BY <1>2, EndTyped DEF EndChunk
  <1>3. CASE tool' = Advanced /\ file' = IF job.restore THEN file ELSE file \o Bytes(buffer, 0, tool.chunk)
    <2>1. ToolTyped(tool') /\ tool'.pc = "disk" /\ tool'.result = "none"
      <3>1. ToolTyped(tool)
        BY <1>1, DiskNumbers
      <3>2. QED
        BY <1>1, <1>3, <3>1 DEF Advanced, ToolTyped, Fields, DiskSteps
    <2>2. Bytes(buffer, 0, tool.chunk) \in [1 .. tool.chunk -> Int]
      <3>1. job.buffer \in Int /\ buffer \in [1 .. job.buffer -> Int] /\ tool.chunk \in Int
        BY <1>1, DiskNumbers, JobTyped DEF Typed, DiskTyped
      <3>2. QED
        BY <3>1, BytesTyped
    <2>3. Bytes(buffer, 0, tool.chunk) \in Seq(Int)
      <3>1. CASE tool.chunk \in Nat
        BY <2>2, <3>1, SeqDef
      <3>2. CASE tool.chunk \notin Nat
        <4>1. 1 .. tool.chunk = 1 .. 0
          BY <1>1, <3>2, DiskNumbers
        <4>2. QED
          BY <2>2, <4>1, SeqDef
      <3>3. QED
        BY <3>1, <3>2
    <2>4. file' \in Seq(Int) /\ (job.restore => file' = file)
      BY <1>1, <1>3, <2>3, ConcatProperties DEF Typed, DiskTyped
    <2>5. job' = job /\ active' = active /\ disk' = disk /\ buffer' = buffer
      BY DEF EndChunk
    <2>6. DiskTyped'
      BY <1>1, <2>1, <2>4, <2>5 DEF Typed, DiskTyped, DiskSteps
    <2>7. QED
      BY <1>1, <2>1, <2>5, <2>6, DiskStepTyped
  <1>4. QED
    BY <1>2, <1>3 DEF EndChunk

LEMMA EndDiskTyped ==
    ASSUME Typed, EndDisk
    PROVE  Typed'
  BY EndTyped DEF EndDisk

\* What a step of a tape job leaves alone
LEMMA TapeStepTyped ==
    ASSUME Typed, ~Disk, UNCHANGED <<job, active>>, ToolTyped(tool'),
           tool'.pc # "end" <=> tool'.result = "none", TapeTyped'
    PROVE  Typed'
  BY SameJob DEF Typed

\* A step of the tool alone
LEMMA TapeKeptTyped ==
    ASSUME Typed, ~Disk, UNCHANGED <<job, active, buffer, disk, file>>, ToolTyped(tool'),
           tool'.pc # "end" <=> tool'.result = "none",
           tool'.pc \in TapeSteps,
           IF job.restore THEN tool'.pc \notin {"dump", "read", "sense", "back"} ELSE tool'.pc # "restore",
           tape' \in Seq(Objects) /\ position' \in 0 .. Len(tape')
    PROVE  Typed'
  BY SameJob DEF Typed, TapeTyped

LEMMA RewindTyped ==
    ASSUME Typed, Rewind
    PROVE  Typed'
  <1>1. ~Disk /\ tool.result = "none"
    BY PhaseOfDisk DEF Rewind, At, Typed
  <1>2. CASE Finish("error") /\ UNCHANGED position
    BY <1>2, EndTyped DEF Rewind
  <1>3. CASE Succeeds /\ position' = 0 /\ Goto(IF job.restore THEN "restore" ELSE "dump")
    <2> DEFINE pc == IF job.restore THEN "restore" ELSE "dump"
    <2>1. ToolTyped(tool') /\ tool'.pc = pc /\ tool'.result = tool.result
      BY <1>3, GotoTyped DEF Typed, TapeSteps
    <2>2. 0 \in 0 .. Len(tape) /\ tape \in Seq(Objects)
      BY <1>1, LenProperties DEF Typed, TapeTyped
    <2>3. job' = job /\ active' = active /\ buffer' = buffer /\ disk' = disk /\ tape' = tape /\ file' = file
      BY DEF Rewind
    <2>4. QED
      BY <1>1, <1>3, <2>1, <2>2, <2>3, TapeKeptTyped DEF TapeSteps
  <1>4. QED
    BY <1>2, <1>3 DEF Rewind

LEMMA NextReadTyped ==
    ASSUME Typed, NextRead
    PROVE  Typed'
  <1>1. ~Disk /\ tool.result = "none" /\ ~job.restore
    BY PhaseOfDisk DEF NextRead, At, Typed, TapeTyped
  <1>2. CASE Finish("success")
    BY <1>2, EndTyped DEF NextRead
  <1>3. CASE tool' = [tool EXCEPT !.pc = "read", !.retried = FALSE]
    <2>1. ToolTyped(tool') /\ tool'.pc = "read" /\ tool'.result = "none"
      BY <1>1, <1>3 DEF Typed, ToolTyped, Fields, TapeSteps
    <2>2. QED
      BY <1>1, <2>1, TapeKeptTyped DEF NextRead, Typed, TapeTyped, TapeSteps
  <1>4. QED
    BY <1>2, <1>3 DEF NextRead

\* A record is written, or the tool fails.
LEMMA RecordTyped ==
    ASSUME ToolTyped(tool), tool.result = "none", file \in Seq(Records), NEW t, ToolTyped(t), t.result = "none",
           NEW record \in Records, Record(t, record)
    PROVE  /\ ToolTyped(tool') /\ tool'.pc \in {"dump", "end"} /\ (tool'.pc # "end" <=> tool'.result = "none")
           /\ file' \in Seq(Records)
  <1>1. CASE file' = Append(file, record) /\ tool' = [t EXCEPT !.pc = "dump"]
    <2>1. file' \in Seq(Records)
      BY <1>1, AppendProperties
    <2>2. QED
      BY <1>1, <2>1 DEF ToolTyped, Fields, TapeSteps
  <1>2. CASE Finish("error") /\ UNCHANGED file
    BY <1>2, FinishTyped
  <1>3. QED
    BY <1>1, <1>2 DEF Record

LEMMA SenseTyped ==
    ASSUME ToolTyped(tool), tool.result = "none", NEW sense \in Senses, NEW information \in Int,
           Sense(sense, information)
    PROVE  ToolTyped(tool') /\ tool'.pc = "sense" /\ tool'.result = "none"
  BY DEF Sense, ToolTyped, Fields, TapeSteps

\* The object the tape is positioned before
LEMMA ObjectTyped ==
    ASSUME Typed, ~Disk, NEW i \in 1 .. Len(tape)
    PROVE  /\ tape[i] \in Objects
           /\ tape[i].kind \in ObjectKinds /\ tape[i].length \in Nat /\ tape[i].number \in Int
  <1>1. tape[i] \in Objects
    BY ElementOfSeq DEF Typed, TapeTyped
  <1>2. QED
    BY <1>1 DEF Objects

LEMMA ReadTapeTyped ==
    ASSUME Typed, ReadTape
    PROVE  Typed'
  <1>1. ~Disk /\ tool.result = "none" /\ ~job.restore /\ ToolTyped(tool) /\ file \in Seq(Records)
        /\ tape \in Seq(Objects) /\ position \in 0 .. Len(tape) /\ Len(tape) \in Nat /\ buffer \in Blocks
    BY PhaseOfDisk, LenProperties DEF ReadTape, At, Typed, TapeTyped
  <1>2. job' = job /\ active' = active
    BY DEF ReadTape
  <1>3. SUFFICES /\ ToolTyped(tool') /\ tool'.pc \in {"sense", "dump", "end"}
                 /\ (tool'.pc # "end" <=> tool'.result = "none")
                 /\ file' \in Seq(Records) /\ tape' \in Seq(Objects) /\ position' \in 0 .. Len(tape')
                 /\ buffer' \in Blocks
    BY <1>1, <1>2, TapeStepTyped DEF TapeTyped, TapeSteps
  <1>4. CASE ReadEnd
    <2>1. Sense("blank", 0) /\ buffer' = buffer /\ tape' = tape /\ position' = position /\ file' = file
      BY <1>4 DEF ReadEnd, Sense
    <2>2. ToolTyped(tool') /\ tool'.pc = "sense" /\ tool'.result = "none"
      BY <1>1, <2>1, SenseTyped DEF Senses
    <2>3. QED
      BY <1>1, <2>1, <2>2
  <1>5. CASE ReadObject
    <2> DEFINE o == tape[position + 1]
               strong == Object("block", o.length, o.number)
    <2>1. position + 1 \in 1 .. Len(tape) /\ position' = position + 1
      BY <1>1, <1>5 DEF ReadObject
    <2>2. o \in Objects /\ o.kind \in ObjectKinds /\ o.length \in Nat /\ o.number \in Int
      BY <1>1, <2>1, ObjectTyped
    <2>3. strong \in Objects /\ strong \in Records
      BY <2>2 DEF Object, Objects, Records, ObjectKinds, RecordKinds
    <2>4. ASSUME Sense("filemark", 0) \/ Sense("medium", 0)
          PROVE  ToolTyped(tool') /\ tool'.pc = "sense" /\ tool'.result = "none" /\ file' = file
      <3>1. file' = file
        BY <2>4 DEF Sense
      <3>2. QED
        BY <1>1, <2>4, <3>1, SenseTyped DEF Senses
    <2>5. CASE o.kind \in {"filemark", "bad"}
      <3>1. (Sense("filemark", 0) \/ Sense("medium", 0)) /\ buffer' = buffer /\ tape' = tape
        BY <1>5, <2>5 DEF ReadObject
      <3>2. QED
        BY <1>1, <2>1, <2>4, <3>1
    <2>6. CASE o.kind = "weak"
      <3>1. Sense("medium", 0) /\ buffer' = buffer /\ tape' = [tape EXCEPT ![position + 1] = strong]
        BY <1>5, <2>6 DEF ReadObject
      <3>2. tape' \in Seq(Objects) /\ Len(tape') = Len(tape)
        BY <1>1, <2>1, <2>3, <3>1, ExceptSeq
      <3>3. QED
        BY <1>1, <2>1, <2>4, <3>1, <3>2
    <2>7. CASE o.kind = "block"
      <3>1. /\ IF o.length = tool.expected THEN Record(tool, strong) ELSE Sense("length", tool.expected - o.length)
            /\ buffer' = [o EXCEPT !.length = Least(o.length, tool.expected)]
            /\ tape' = tape
        BY <1>5, <2>7 DEF ReadObject
      <3>2. tool.expected \in Int
        BY <1>1 DEF ToolTyped
      <3>3. buffer' \in Blocks
        <4>1. Least(o.length, tool.expected) \in Int
          BY <2>2, <3>2 DEF Least
        <4>2. QED
          BY <2>2, <2>7, <3>1, <4>1 DEF Objects, Blocks
      <3>4. CASE Record(tool, strong)
        BY <1>1, <2>1, <2>3, <3>1, <3>3, <3>4, RecordTyped
      <3>5. CASE Sense("length", tool.expected - o.length)
        <4>1. tool.expected - o.length \in Int
          BY <2>2, <3>2
        <4>2. ToolTyped(tool') /\ tool'.pc = "sense" /\ tool'.result = "none" /\ file' = file
          BY <1>1, <3>5, <4>1, SenseTyped DEF Senses, Sense
        <4>3. QED
          BY <1>1, <2>1, <3>1, <3>3, <4>2
      <3>6. QED
        BY <3>1, <3>4, <3>5
    <2>8. QED
      BY <2>2, <2>5, <2>6, <2>7 DEF ObjectKinds
  <1>6. QED
    BY <1>4, <1>5 DEF ReadTape

LEMMA ReadTimeoutTyped ==
    ASSUME Typed, ReadTimeout
    PROVE  Typed'
  <1>1. ~Disk /\ tool.result = "none" /\ ~job.restore /\ ToolTyped(tool)
        /\ tape \in Seq(Objects) /\ position \in 0 .. Len(tape) /\ Len(tape) \in Nat
    BY PhaseOfDisk, LenProperties DEF ReadTimeout, At, Typed, TapeTyped
  <1>2. ToolTyped(tool') /\ tool'.pc = "sense" /\ tool'.result = "none"
    BY <1>1 DEF ReadTimeout, ToolTyped, Fields, TapeSteps, Senses
  <1>3. tape' = tape /\ position' \in 0 .. Len(tape')
    BY <1>1 DEF ReadTimeout, Least
  <1>4. QED
    BY <1>1, <1>2, <1>3, TapeKeptTyped DEF ReadTimeout, TapeSteps

LEMMA SpaceBackTyped ==
    ASSUME Typed, SpaceBack
    PROVE  Typed'
  <1>1. ~Disk /\ tool.result = "none" /\ ~job.restore /\ ToolTyped(tool)
        /\ tape \in Seq(Objects) /\ position \in 0 .. Len(tape) /\ Len(tape) \in Nat
    BY PhaseOfDisk, LenProperties DEF SpaceBack, At, Typed, TapeTyped
  <1>2. CASE Finish("error") /\ UNCHANGED position
    BY <1>2, EndTyped DEF SpaceBack
  <1>3. CASE Goto("read") /\ position' = IF position = 0 THEN 0 ELSE position - 1
    <2>1. ToolTyped(tool') /\ tool'.pc = "read" /\ tool'.result = "none"
      BY <1>1, <1>3, GotoTyped DEF TapeSteps
    <2>2. tape' = tape /\ position' \in 0 .. Len(tape')
      BY <1>1, <1>3 DEF SpaceBack
    <2>3. QED
      BY <1>1, <2>1, <2>2, TapeKeptTyped DEF SpaceBack, TapeSteps
  <1>4. QED
    BY <1>2, <1>3 DEF SpaceBack

LEMMA RequestSenseTyped ==
    ASSUME Typed, RequestSense
    PROVE  Typed'
  <1>1. ~Disk /\ tool.result = "none" /\ ~job.restore /\ ToolTyped(tool) /\ file \in Seq(Records)
    BY PhaseOfDisk DEF RequestSense, At, Typed, TapeTyped
  <1>2. UNCHANGED <<job, active, buffer, disk, tape, position>>
    BY DEF RequestSense
  <1>3. SUFFICES /\ ToolTyped(tool') /\ tool'.pc \in {"back", "dump", "end"}
                 /\ (tool'.pc # "end" <=> tool'.result = "none")
                 /\ file' \in Seq(Records)
    BY <1>1, <1>2, TapeStepTyped DEF Typed, TapeTyped, TapeSteps
  <1> DEFINE length == tool.expected - tool.information
             adjusted == [tool EXCEPT !.expected = length]
             back(t) == tool' = [t EXCEPT !.pc = "back"] /\ UNCHANGED <<file, faults>>
  <1>4. ASSUME NEW result \in {"error", "success"}, Finish(result), file' = file
        PROVE  /\ ToolTyped(tool') /\ tool'.pc \in {"back", "dump", "end"}
               /\ (tool'.pc # "end" <=> tool'.result = "none")
               /\ file' \in Seq(Records)
    BY <1>1, <1>4, FinishTyped
  <1>5. ASSUME NEW t, ToolTyped(t), t.result = "none", back(t)
        PROVE  /\ ToolTyped(tool') /\ tool'.pc = "back" /\ tool'.result = "none"
               /\ file' \in Seq(Records)
    BY <1>1, <1>5 DEF ToolTyped, Fields, TapeSteps
  <1>6. length \in Int
    BY <1>1 DEF ToolTyped
  <1>7. ToolTyped(adjusted) /\ adjusted.result = "none"
    <2> HIDE DEF length
    <2>1. QED
      BY <1>1, <1>6 DEF ToolTyped, Fields
  <1>8. ToolTyped(Remembered(tool)) /\ Remembered(tool).result = "none"
    BY <1>1 DEF Remembered, ToolTyped, Fields
  <1>9. BadMarker \in Records /\ Filemark \in Records
    BY DEF BadMarker, Filemark, Object, Records, ObjectKinds
  <1>10. ASSUME NEW n \in Int
         PROVE  InBuffer(n) \in Records
    <2>1. buffer \in Blocks
      BY <1>1 DEF Typed, TapeTyped
    <2>2. (IF buffer.length = n THEN buffer.number ELSE Unknown) \in Int
      BY <2>1 DEF Blocks, Unknown
    <2>3. QED
      BY <2>2 DEF InBuffer, Object, Records, ObjectKinds
  <1>11. CASE Finish("error") /\ UNCHANGED file
    BY <1>4, <1>11
  <1>12. CASE CASE tool.sense = "blank" -> Finish("success") /\ UNCHANGED <<file, faults>>
                [] tool.sense = "medium" ->
                    IF tool.retried THEN Record(tool, BadMarker) ELSE back(Remembered(tool))
                [] tool.sense = "filemark" -> Record(tool, Filemark)
                [] tool.sense = "length" ->
                    IF Complete THEN Record(adjusted, InBuffer(length))
                    ELSE back(adjusted)
                [] tool.sense = "none" -> Record(tool, InBuffer(StatusLength))
    <2> HIDE DEF length, adjusted, back
    <2>1. tool.sense \in Senses
      BY <1>1 DEF ToolTyped
    <2>2. CASE tool.sense = "blank"
      BY <1>4, <1>12, <2>2
    <2>3. CASE tool.sense = "medium"
      <3>1. Record(tool, BadMarker) \/ back(Remembered(tool))
        BY <1>12, <2>3
      <3>2. QED
        BY <1>1, <1>5, <1>8, <1>9, <3>1, RecordTyped
    <2>4. CASE tool.sense = "filemark"
      <3>1. Record(tool, Filemark)
        BY <1>12, <2>4
      <3>2. QED
        BY <1>1, <1>9, <3>1, RecordTyped
    <2>5. CASE tool.sense = "length"
      <3>1. Record(adjusted, InBuffer(length)) \/ back(adjusted)
        BY <1>12, <2>5
      <3>2. InBuffer(length) \in Records
        BY <1>6, <1>10
      <3>3. CASE Record(adjusted, InBuffer(length))
        BY <1>1, <1>7, <3>2, <3>3, RecordTyped
      <3>4. CASE back(adjusted)
        BY <1>5, <1>7, <3>4
      <3>5. QED
        BY <3>1, <3>3, <3>4
    <2>6. CASE tool.sense = "none"
      <3>1. Record(tool, InBuffer(StatusLength))
        BY <1>12, <2>6
      <3>2. InBuffer(StatusLength) \in Records
        BY <1>10 DEF StatusLength
      <3>3. QED
        BY <1>1, <3>1, <3>2, RecordTyped
    <2>7. QED
      BY <2>1, <2>2, <2>3, <2>4, <2>5, <2>6 DEF Senses
  <1>13. QED
    BY <1>11, <1>12 DEF RequestSense

LEMMA WriteTyped ==
    ASSUME Typed, ~Disk, tool.result = "none", job.restore, tool.pc = "restore", NEW object \in Objects, Write(object)
    PROVE  /\ ToolTyped(tool') /\ (tool'.pc # "end" <=> tool'.result = "none") /\ tool'.pc \in {"restore", "end"}
           /\ tape' \in Seq(Objects) /\ position' \in 0 .. Len(tape')
  <1>1. ToolTyped(tool) /\ tape \in Seq(Objects) /\ position \in 0 .. Len(tape) /\ Len(tape) \in Nat
    BY LenProperties DEF Typed, TapeTyped
  <1>2. CASE Finish("error") /\ UNCHANGED <<tape, position>>
    BY <1>1, <1>2, FinishTyped
  <1>3. CASE /\ tape' = Append(SubSeq(tape, 1, position), object)
             /\ position' = position + 1
             /\ tool' = [tool EXCEPT !.done = @ + 1]
    <2>1. \A i \in 1 .. position : tape[i] \in Objects
      BY <1>1, ElementOfSeq
    <2>2. SubSeq(tape, 1, position) \in Seq(Objects) /\ Len(SubSeq(tape, 1, position)) = position
      BY <1>1, <2>1, SubSeqProperties
    <2>3. tape' \in Seq(Objects) /\ Len(tape') = position + 1
      BY <1>3, <2>2, AppendProperties
    <2>4. ToolTyped(tool') /\ tool'.pc = "restore" /\ tool'.result = "none"
      <3>1. tool' = [tool EXCEPT !.done = @ + 1]
        BY <1>3
      <3>2. QED
        BY <1>1, <3>1 DEF ToolTyped, Fields
    <2>5. QED
      BY <1>1, <1>3, <2>3, <2>4
  <1>4. QED
    BY <1>2, <1>3 DEF Write

\* A record of an image, and the object that is written to the tape for it
LEMMA RecordOfJob ==
    ASSUME Typed, ~Disk, job.restore, NEW i \in 1 .. Len(file)
    PROVE  /\ file[i].kind \in RecordKinds /\ file[i].length \in Nat /\ file[i].number \in Int
           /\ file[i].kind \in {"marker", "end"} => file[i].length = 0
           /\ Restored(file[i]) \in Objects
  <1>1. file = job.tape /\ job.tape \in Seq([kind : RecordKinds, length : Nat, number : Int])
        /\ \A j \in DOMAIN job.tape : job.tape[j].kind \in {"marker", "end"} => job.tape[j].length = 0
    BY TapeOfJob DEF Typed, TapeTyped
  <1>2. file[i] \in [kind : RecordKinds, length : Nat, number : Int] /\ i \in DOMAIN job.tape
    BY <1>1, ElementOfSeq, LenProperties
  <1>3. file[i].kind \in RecordKinds /\ file[i].length \in Nat /\ file[i].number \in Int
    BY <1>2
  <1>4. (IF file[i].kind = "cut" THEN Unknown ELSE file[i].number) \in Int
    BY <1>3 DEF Unknown
  <1>5. Restored(file[i]) \in Objects
    BY <1>3, <1>4 DEF Restored, Object, Objects, ObjectKinds
  <1>6. QED
    BY <1>1, <1>2, <1>3, <1>5

LEMMA RestoreRecordTyped ==
    ASSUME Typed, tool.done \in 0 .. Len(file), RestoreRecord
    PROVE  Typed'
  <1>1. ~Disk /\ tool.result = "none" /\ tool.pc = "restore" /\ ToolTyped(tool) /\ job.restore
        /\ tape \in Seq(Objects) /\ position \in 0 .. Len(tape)
    BY PhaseOfDisk DEF RestoreRecord, At, Typed, TapeTyped
  <1>2. UNCHANGED <<job, active, buffer, disk, file>>
    BY DEF RestoreRecord
  <1>3. SUFFICES /\ ToolTyped(tool') /\ (tool'.pc # "end" <=> tool'.result = "none") /\ tool'.pc \in {"restore", "end"}
                 /\ tape' \in Seq(Objects) /\ position' \in 0 .. Len(tape')
    BY <1>1, <1>2, TapeKeptTyped DEF TapeSteps
  <1>4. CASE Finish("success") /\ UNCHANGED <<tape, position, faults>>
    BY <1>1, <1>4, FinishTyped
  <1>5. CASE tool' = [tool EXCEPT !.done = @ + 1] /\ UNCHANGED <<tape, position, faults>>
    BY <1>1, <1>5 DEF ToolTyped, Fields
  <1>6. CASE Write(Filemark)
    <2>1. Filemark \in Objects
      BY DEF Filemark, Object, Objects, ObjectKinds
    <2>2. QED
      BY <1>1, <1>6, <2>1, WriteTyped
  <1>7. CASE tool.done + 1 \in 1 .. Len(file) /\ Write(Restored(file[tool.done + 1]))
    BY <1>1, <1>7, RecordOfJob, WriteTyped
  <1>8. Len(file) \in Nat
    BY <1>1, TapeOfJob, LenProperties DEF Typed, TapeTyped
  <1>9. CASE tool.done = Len(file)
    BY <1>4, <1>9 DEF RestoreRecord
  <1>10. CASE tool.done # Len(file)
    <2>1. tool.done + 1 \in 1 .. Len(file)
      BY <1>8, <1>10
    <2>2. QED
      BY <1>4, <1>5, <1>6, <1>7, <1>10, <2>1 DEF RestoreRecord
  <1>11. QED
    BY <1>9, <1>10

\* Every step but RestoreRecord keeps the types by itself.
LEMMA StepTyped ==
    ASSUME Typed, [DumpNext]_vars, RestoreRecord => tool.done \in 0 .. Len(file)
    PROVE  Typed'
  <1>1. CASE UNCHANGED vars
    BY <1>1, SameJob DEF vars, Typed, DiskTyped, TapeTyped
  <1>2. CASE ToolNext
    BY <1>2, GetDeviceInfoTyped, DumpRestoreTyped, StartDiskTyped, NextChunkTyped, RequestTyped, FailedRequestTyped,
       EndChunkTyped, EndDiskTyped, RewindTyped, NextReadTyped, ReadTapeTyped, ReadTimeoutTyped, RequestSenseTyped,
       SpaceBackTyped, RestoreRecordTyped
       DEF ToolNext
  <1>3. CASE TerminationHandler
    BY <1>3, TerminationHandlerTyped
  <1>4. QED
    BY <1>1, <1>2, <1>3 DEF DumpNext, Ended

-----------------------------------------------------------------------------
(* Disks                                                                   *)

LEMMA Quotient ==
    ASSUME NEW k \in Int
    PROVE  (k * SectorSize) \div SectorSize = k
  <1> DEFINE m == k * SectorSize
             q == m \div SectorSize
             r == m % SectorSize
  <1>1. m \in Int /\ SectorSize \in Nat \ {0}
    BY ProductTyped, ConstantsTyped
  <1>2. q \in Int /\ r \in 0 .. SectorSize - 1 /\ m = q * SectorSize + r
    <2> HIDE DEF m
    <2>1. QED
      BY <1>1
  <1>3. q * SectorSize \in Int
    BY <1>2, ProductTyped
  <1>4. ~(q < k)
    <2> SUFFICES ASSUME q < k
                 PROVE  FALSE
      OBVIOUS
    <2>1. q * SectorSize + SectorSize <= m
      BY <1>2, Products
    <2> HIDE DEF m, q, r
    <2>2. QED
      BY <1>1, <1>2, <1>3, <2>1
  <1>5. ~(k < q)
    <2> SUFFICES ASSUME k < q
                 PROVE  FALSE
      OBVIOUS
    <2>1. m + SectorSize <= q * SectorSize
      BY <1>2, Products
    <2> HIDE DEF m, q, r
    <2>2. QED
      BY <1>1, <1>2, <1>3, <2>1
  <1>6. QED
    <2> HIDE DEF q
    <2>1. QED
      BY <1>2, <1>4, <1>5 DEF q

\* The range that is copied lies on the disk.
LEMMA RangeOnDisk ==
    ASSUME Typed, Disk, InRange
    PROVE  /\ Count \in Nat \ {0} /\ FirstByte \in Nat
           /\ Count * SectorSize \in Nat \ {0} /\ Sectors * SectorSize \in Nat
           /\ FirstByte + Count * SectorSize <= Sectors * SectorSize
           /\ Size \in Nat /\ Size <= Count * SectorSize
           /\ job.restore => Size = Extent /\ Size <= job.image
           /\ ~job.restore => Size = Count * SectorSize
  <1>1. job.start \in Nat /\ job.count \in Nat /\ job.image \in Nat /\ Sectors \in Nat /\ SectorSize \in Nat \ {0}
    BY JobTyped, ConstantsTyped DEF Typed
  <1>2. Count \in Nat \ {0} /\ job.start + Count <= Sectors
    BY <1>1 DEF Count, InRange
  <1> DEFINE total == Count * SectorSize
             first == job.start * SectorSize
             all == Sectors * SectorSize
  <1>3. total \in Nat /\ first \in Nat /\ all \in Nat
    BY <1>1, <1>2, ProductTyped
  <1>4. (job.start + Count) * SectorSize = first + total /\ (job.start + Count) * SectorSize <= all
    BY <1>1, <1>2, Products
  <1>5. total >= SectorSize
    <2>1. 0 < Count /\ 0 * SectorSize = 0
      BY <1>1, <1>2
    <2>2. 0 * SectorSize + SectorSize <= total
      BY <1>2, <2>1, Products
    <2>3. QED
      BY <1>1, <2>1, <2>2
  <1> HIDE DEF total, first, all
  <1>6. first + total <= all /\ total \in Nat \ {0}
    BY <1>1, <1>3, <1>4, <1>5
  <1>7. Extent = IF job.image < total THEN job.image ELSE total
    BY DEF Extent, Least, total
  <1>8. Size = IF job.restore THEN Extent ELSE total
    BY DEF Size, total
  <1>9. /\ Size \in Nat /\ Size <= total
        /\ job.restore => Size = Extent /\ Size <= job.image
        /\ ~job.restore => Size = total
    BY <1>1, <1>3, <1>7, <1>8
  <1>10. FirstByte = first
    BY DEF FirstByte, first
  <1>11. QED
    BY <1>2, <1>3, <1>6, <1>9, <1>10 DEF total, first, all

\* All bytes of the range are bytes of the disk.
LEMMA InsideDisk ==
    ASSUME Typed, Disk, InRange, NEW i \in Int, i > 0, i <= Size
    PROVE  FirstByte + i \in 1 .. Sectors * SectorSize /\ OnDisk[FirstByte + i] = FirstByte + i
  <1> DEFINE total == Count * SectorSize
             all == Sectors * SectorSize
  <1>1. FirstByte \in Nat /\ total \in Nat /\ all \in Nat /\ FirstByte + total <= all /\ Size \in Nat /\ Size <= total
    BY RangeOnDisk
  <1> HIDE DEF total, all
  <1>2. FirstByte + i \in 1 .. all
    BY <1>1
  <1>3. QED
    BY <1>2 DEF OnDisk, all

LEMMA EffectiveSizeIsSize ==
    ASSUME Typed, Disk, Sound, InRange
    PROVE  EffectiveSize = Size
  <1> DEFINE total == Count * SectorSize
  <1>1. total \in Nat /\ SizeLimit \in Nat \ {0} /\ total < SizeLimit
    BY RangeOnDisk, ConstantsTyped DEF Sound
  <1>2. total % SizeLimit = total
    <2> HIDE DEF total
    <2>1. QED
      BY <1>1
  <1>3. job.restore => Len(file) = job.image
    BY DEF Typed, DiskTyped
  <1>4. EffectiveSize = IF job.restore THEN Least(Len(file), total) ELSE total
    BY <1>2 DEF EffectiveSize
  <1>5. QED
    BY <1>3, <1>4 DEF Size, Extent

\* What the next chunk is
LEMMA ChunkFacts ==
    ASSUME Typed, Disk, Sound, tool.remaining \in Nat \ {0}
    PROVE  /\ Chunk \in 1 .. tool.remaining /\ Chunk <= job.buffer
           /\ Chunk = tool.remaining \/ Chunk = ChunkSectors(Chunk) * SectorSize
           /\ CommandLength(ChunkSectors(Chunk)) = ChunkSectors(Chunk) * SectorSize
  <1> DEFINE n == Least(tool.remaining, job.buffer)
             k == job.buffer \div SectorSize
             max == MaxSasiCount * SectorSize
             c == Chunk
  <1>1. job.buffer \in Nat \ {0} /\ job.sasi \in BOOLEAN /\ SectorSize \in Nat \ {0} /\ CountLimit \in Nat \ {0}
        /\ MaxSasiCount \in Nat \ {0} /\ MaxSasiCount < CountLimit
    BY JobTyped, ConstantsTyped DEF Typed
  <1>2. job.buffer % SectorSize = 0 /\ (job.sasi \/ k < CountLimit) /\ job.driver = "board"
    BY DEF Sound
  <1>3. k \in Int /\ job.buffer = k * SectorSize
    BY <1>1, <1>2
  <1>4. ChunkSectors(job.buffer) = k
    BY <1>3, ChunkSectorsOfSectors
  <1>5. n \in 1 .. tool.remaining /\ n <= job.buffer /\ (n = tool.remaining \/ n = job.buffer)
    BY <1>1 DEF Least
  <1>6. max \in Int /\ ChunkSectors(max) = MaxSasiCount
    BY <1>1, ProductTyped, ChunkSectorsOfSectors
  <1>7. c = IF job.sasi /\ ChunkSectors(n) > MaxSasiCount THEN max ELSE n
    BY DEF Chunk
  <1> HIDE DEF n, k, max, c
  <1>8. /\ ChunkSectors(n) \in Int /\ n <= ChunkSectors(n) * SectorSize /\ ChunkSectors(n) * SectorSize < n + SectorSize
        /\ ChunkSectors(n) * SectorSize \in Int
    BY <1>5, ChunkSectorsBound, ProductTyped
  <1>9. CASE job.sasi /\ ChunkSectors(n) > MaxSasiCount
    <2>1. max + SectorSize <= ChunkSectors(n) * SectorSize
      BY <1>1, <1>8, <1>9, Products DEF max
    <2>2. max < n
      BY <1>1, <1>5, <1>6, <1>8, <2>1
    <2>3. 0 * SectorSize + SectorSize <= max /\ 0 * SectorSize = 0
      BY <1>1, Products DEF max
    <2>4. c = max /\ c \in 1 .. tool.remaining /\ c <= job.buffer
      BY <1>1, <1>5, <1>6, <1>7, <1>9, <2>2, <2>3
    <2>5. ChunkSectors(c) = MaxSasiCount /\ c = ChunkSectors(c) * SectorSize
      BY <1>6, <2>4 DEF max
    <2>6. MaxSasiCount % CountLimit = MaxSasiCount
      BY <1>1
    <2>7. CommandLength(ChunkSectors(c)) = ChunkSectors(c) * SectorSize
      BY <1>2, <2>5, <2>6 DEF CommandLength
    <2>8. QED
      BY <2>4, <2>5, <2>7 DEF c
  <1>10. CASE ~(job.sasi /\ ChunkSectors(n) > MaxSasiCount)
    <2>1. c = n
      BY <1>7, <1>10
    <2>2. c = tool.remaining \/ c = ChunkSectors(c) * SectorSize
      BY <1>3, <1>4, <1>5, <2>1
    <2>3. ChunkSectors(n) < CountLimit
      <3>1. CASE job.sasi
        BY <1>1, <1>8, <1>10, <3>1
      <3>2. CASE ~job.sasi
        <4>1. ChunkSectors(n) <= k
          BY <1>1, <1>4, <1>5, ChunkSectorsMonotonic
        <4>2. QED
          BY <1>1, <1>2, <1>3, <1>8, <3>2, <4>1
      <3>3. QED
        BY <3>1, <3>2
    <2>4. ChunkSectors(n) >= 0
      <3> SUFFICES ASSUME ChunkSectors(n) < 0
                   PROVE  FALSE
        BY <1>8
      <3>1. ChunkSectors(n) * SectorSize + SectorSize <= 0 * SectorSize /\ 0 * SectorSize = 0
        BY <1>1, <1>8, Products
      <3>2. QED
        BY <1>1, <1>5, <1>8, <3>1
    <2>5. ChunkSectors(n) % CountLimit = ChunkSectors(n)
      BY <1>1, <1>8, <2>3, <2>4
    <2>6. CommandLength(ChunkSectors(c)) = ChunkSectors(c) * SectorSize
      BY <1>2, <2>1, <2>5 DEF CommandLength
    <2>7. QED
      BY <1>5, <2>1, <2>2, <2>6 DEF c
  <1>11. QED
    BY <1>9, <1>10

Copying == Disk /\ Sound /\ InRange /\ Progress /\ Copied /\ Untouched

LEMMA CopyingInv ==
    DiskInv <=> (Disk /\ Sound /\ InRange => Copying)
  BY DEF DiskInv, Copying

\* The next state has to be looked at for the same options only.
LEMMA SameOptions ==
    ASSUME UNCHANGED job, Copying, Progress' /\ Copied' /\ Untouched'
    PROVE  Copying'
  BY SameJob DEF Copying

LEMMA InitDisk ==
    ASSUME DumpInit
    PROVE  DiskInv
  <1> SUFFICES ASSUME Disk, Sound, InRange
               PROVE  Progress /\ Copied /\ Untouched
    BY DEF DiskInv
  <1>1. Typed
    BY InitTyped
  <1>2. tool.pc = "device" /\ tool.done = 0 /\ tool.result = "none" /\ disk = OnDisk
    BY DEF DumpInit
  <1>3. Size \in Nat
    BY <1>1, RangeOnDisk
  <1>4. Progress
    BY <1>2 DEF Progress, Successful
  <1>5. Copied
    BY <1>2, <1>3 DEF Copied, Dumping
  <1>6. Untouched
    BY <1>2 DEF Untouched
  <1>7. QED
    BY <1>4, <1>5, <1>6

\* The tool gives up.
LEMMA ErrorDisk ==
    ASSUME Copying, UNCHANGED <<job, file>>, tool'.pc = "end", tool'.result = "error", tool'.done = tool.done,
           job.restore => \A i \in 1 .. tool.done : disk'[FirstByte + i] = file[i],
           Untouched'
    PROVE  Copying'
  <1>1. Progress'
    BY DEF Progress, Successful
  <1>2. Copied'
    BY SameJob DEF Copying, Copied, Dumping
  <1>3. QED
    BY <1>1, <1>2, SameOptions

LEMMA FinishDisk ==
    ASSUME Typed, Copying, UNCHANGED <<job, disk, file>>, Finish("error")
    PROVE  Copying'
  <1>1. tool'.pc = "end" /\ tool'.result = "error" /\ tool'.done = tool.done
    BY FinishTyped DEF Typed
  <1>2. Untouched'
    BY SameJob DEF Copying, Untouched
  <1>3. QED
    BY <1>1, <1>2, ErrorDisk DEF Copying, Copied

LEMMA GetDeviceInfoDisk ==
    ASSUME Typed, Copying, GetDeviceInfo
    PROVE  Copying'
  <1>1. CASE Goto("open")
    <2>1. tool'.pc = "open" /\ tool'.done = tool.done /\ tool'.result = tool.result /\ tool.result = "none"
      BY <1>1 DEF Goto, GetDeviceInfo, At, Typed, ToolTyped, Fields
    <2>2. tool.done = 0 /\ UNCHANGED <<job, disk, file, active>>
      BY DEF GetDeviceInfo, Copying, Progress, At
    <2>3. Progress'
      BY <2>1, <2>2 DEF Progress, Successful
    <2>4. Copied'
      BY <2>1, <2>2, SameJob DEF Copying, Copied, Dumping
    <2>5. Untouched'
      BY <2>2, SameJob DEF Copying, Untouched
    <2>6. QED
      BY <2>2, <2>3, <2>4, <2>5, SameOptions
  <1>2. CASE Finish("error")
    BY <1>2, FinishDisk DEF GetDeviceInfo
  <1>3. QED
    BY <1>1, <1>2 DEF GetDeviceInfo

LEMMA DumpRestoreDisk ==
    ASSUME Typed, Copying, DumpRestore
    PROVE  Copying'
  <1>1. CASE file' = Opened /\ Goto("size")
    <2>1. tool'.pc = "size" /\ tool'.done = tool.done /\ tool'.result = tool.result /\ tool.result = "none"
      BY <1>1 DEF Goto, DumpRestore, At, Typed, ToolTyped, Fields
    <2>2. tool.done = 0 /\ UNCHANGED <<job, disk, active>>
      BY DEF DumpRestore, Copying, Progress, At
    <2>3. Progress'
      BY <2>1, <2>2 DEF Progress, Successful
    <2>4. ~job.restore => Len(file') = 0
      BY <1>1, EmptySeq DEF Opened
    <2>5. job.restore => file' = file
      BY <1>1 DEF Opened
    <2>6. Copied'
      BY <2>1, <2>2, <2>4, <2>5, SameJob DEF Copying, Copied, Dumping
    <2>7. Untouched'
      BY <2>2, SameJob DEF Copying, Untouched
    <2>8. QED
      BY <2>2, <2>3, <2>6, <2>7, SameOptions
  <1>2. CASE Finish("error") /\ UNCHANGED file
    BY <1>2, FinishDisk DEF DumpRestore
  <1>3. QED
    BY <1>1, <1>2 DEF DumpRestore, Copying, Disk

\* Nothing changes but whether the tool is active.
LEMMA TerminationHandlerDisk ==
    ASSUME Typed, Copying, TerminationHandler
    PROVE  Copying'
  <1>1. UNCHANGED <<job, tool, buffer, disk, file>> /\ ~active'
    BY DEF TerminationHandler
  <1>2. ChunkCopied => ChunkCopied'
    BY <1>1, SameJob DEF ChunkCopied, At, CommandLength
  <1>3. Progress'
    BY <1>1, <1>2, SameJob DEF Copying, Progress, Successful
  <1>4. Copied' /\ Untouched'
    BY <1>1, SameJob DEF Copying, Copied, Dumping, Untouched
  <1>5. QED
    BY <1>1, <1>3, <1>4, SameOptions

LEMMA StartDiskDisk ==
    ASSUME Typed, Copying, StartDisk
    PROVE  Copying'
  <1>1. Disk /\ Sound /\ InRange /\ EffectiveSize = Size /\ Size \in Nat
    BY EffectiveSizeIsSize, RangeOnDisk DEF Copying
  <1>2. tool.done = 0 /\ tool.pc = "size" /\ tool.result = "none" /\ UNCHANGED <<job, disk, file, active>>
    BY DEF StartDisk, Copying, Progress, At, Typed
  <1>3. Untouched'
    BY <1>2, SameJob DEF Copying, Untouched
  <1>4. CASE EffectiveSize > 0
    <2>1. tool' = [tool EXCEPT !.pc = "disk", !.remaining = Size, !.sector = job.start]
      BY <1>1, <1>4 DEF StartDisk
    <2>2. tool'.pc = "disk" /\ tool'.remaining = Size /\ tool'.sector = job.start /\ tool'.done = 0
          /\ tool'.result = "none"
      BY <1>2, <2>1 DEF Typed, ToolTyped, Fields
    <2>3. Progress'
      <3>1. tool'.sector * SectorSize = FirstByte /\ FirstByte \in Nat
        BY <1>1, <2>2, RangeOnDisk DEF FirstByte
      <3>2. tool'.remaining \in Nat /\ tool'.done + tool'.remaining = Size
            /\ tool'.sector * SectorSize = FirstByte + tool'.done
        BY <1>1, <2>2, <3>1
      <3>3. QED
        BY <1>2, <2>2, <3>2, SameJob DEF Progress, Successful
    <2>4. Copied'
      BY <1>2, <2>2, SameJob DEF Copying, Copied, Dumping
    <2>5. QED
      BY <1>2, <1>3, <2>3, <2>4, SameOptions
  <1>5. CASE ~(EffectiveSize > 0)
    <2>1. tool'.pc = "end" /\ tool'.result = "nothing" /\ tool'.done = 0
      BY <1>1, <1>2, <1>5, FinishTyped DEF StartDisk, Typed
    <2>2. Progress'
      BY <2>1 DEF Progress, Successful
    <2>3. Copied'
      BY <1>2, <2>1, SameJob DEF Copying, Copied, Dumping
    <2>4. QED
      BY <1>2, <1>3, <2>2, <2>3, SameOptions
  <1>6. QED
    BY <1>4, <1>5

LEMMA NextChunkDisk ==
    ASSUME Typed, Copying, NextChunk
    PROVE  Copying'
  <1>1. /\ Disk /\ Sound /\ InRange /\ At("disk") /\ tool.remaining \in Nat \ {0} /\ active
        /\ tool.done + tool.remaining = Size /\ tool.sector * SectorSize = FirstByte + tool.done
        /\ tool.result = "none" /\ tool.done \in Nat /\ Size \in Nat
    BY RangeOnDisk DEF NextChunk, Copying, Progress, Copied, At, Typed
  <1>2. CASE job.restore /\ Finish("error") /\ UNCHANGED buffer
    BY <1>2, FinishDisk DEF NextChunk
  <1>3. CASE /\ tool' = FirstRequest([tool EXCEPT !.chunk = Chunk, !.sectors = ChunkSectors(Chunk), !.tries = 0])
             /\ buffer' = IF job.restore THEN Put(buffer, 0, Bytes(file, tool.done, Chunk)) ELSE buffer
    <2> DEFINE c == Chunk
               k == ChunkSectors(Chunk)
               n == CommandLength(k)
    <2>1. ToolTyped(tool) /\ c \in Int /\ k \in Int /\ n \in Int
      BY <1>1, DiskNumbers
    <2>2. /\ c \in 1 .. tool.remaining /\ c <= job.buffer /\ (c = tool.remaining \/ c = k * SectorSize)
          /\ k = ChunkSectors(c) /\ n = k * SectorSize
      BY <1>1, ChunkFacts
    <2>3. tool' = [[tool EXCEPT !.chunk = c, !.sectors = k, !.tries = 0] EXCEPT
                       !.pc = "command", !.block = tool.sector, !.requested = 0, !.left = n]
      BY <1>3, <2>1 DEF FirstRequest, ToolTyped, Fields
    <2> HIDE DEF c, k, n
    <2>4. /\ tool'.pc = "command" /\ tool'.chunk = c /\ tool'.sectors = k /\ tool'.block = tool.sector
          /\ tool'.requested = 0 /\ tool'.left = n /\ tool'.remaining = tool.remaining /\ tool'.done = tool.done
          /\ tool'.sector = tool.sector /\ tool'.result = "none"
      BY <1>1, <2>1, <2>3 DEF ToolTyped, Fields
    <2>5. UNCHANGED <<job, active, disk, file>>
      BY DEF NextChunk
    <2>6. job.restore => \A i \in 1 .. c : buffer'[i] = file[tool.done + i]
      <3> SUFFICES ASSUME job.restore, NEW i \in 1 .. c
                   PROVE  buffer'[i] = file[tool.done + i]
        OBVIOUS
      <3>1. /\ buffer \in [1 .. job.buffer -> Int] /\ job.buffer \in Int
            /\ Len(file) = job.image /\ Len(file) \in Int /\ file \in [1 .. Len(file) -> Int]
        BY <1>1, JobTyped, LenProperties DEF Typed, DiskTyped
      <3>2. Size <= Len(file)
        BY <1>1, <3>1, RangeOnDisk
      <3>3. tool.done + i \in 1 .. Len(file)
        BY <1>1, <2>2, <3>1, <3>2
      <3>4. Bytes(file, tool.done, c)[i] = file[tool.done + i]
        BY <3>1, <3>3, BytesAt
      <3>5. i \in 1 .. job.buffer /\ i - 0 = i
        BY <2>1, <2>2, <3>1
      <3>6. Put(buffer, 0, Bytes(file, tool.done, c))[i] = Bytes(file, tool.done, c)[i]
        <4> DEFINE data == Bytes(file, tool.done, c)
        <4>1. DOMAIN data = 1 .. c
          BY BytesDomain
        <4> HIDE DEF data
        <4>2. i \in DOMAIN buffer /\ i - 0 \in DOMAIN data
          BY <3>1, <3>5, <4>1
        <4>3. Put(buffer, 0, data)[i] = data[i - 0]
          BY <4>2 DEF Put
        <4>4. QED
          BY <3>5, <4>3 DEF data
      <3>7. QED
        BY <1>3, <3>4, <3>6 DEF c
    <2>7. ChunkCopied'
      <3>1. CommandLength(tool.sectors)' = k * SectorSize
        BY <2>2, <2>4, <2>5 DEF n, CommandLength
      <3>2. QED
        BY <2>2, <2>4, <2>5, <2>6, <3>1 DEF ChunkCopied, At
    <2>8. Progress'
      BY <1>1, <2>4, <2>5, <2>7, SameJob DEF Progress, Successful
    <2>9. Copied'
      BY <1>1, <2>4, <2>5, SameJob DEF Copying, Copied, Dumping, At
    <2>10. Untouched'
      BY <2>5, SameJob DEF Copying, Untouched
    <2>11. QED
      BY <2>5, <2>8, <2>9, <2>10, SameOptions
  <1>4. QED
    BY <1>2, <1>3 DEF NextChunk

\* The sectors of a chunk do not reach beyond those of the whole range.
LEMMA ChunkEnd ==
    ASSUME Typed, Copying, tool.pc \in {"command", "transferred"}
    PROVE  tool.done + tool.sectors * SectorSize <= SectorSize * ChunkSectors(Size)
  <1> DEFINE k == tool.sectors
             bytes == k * SectorSize
             all == ChunkSectors(Size) * SectorSize
  <1>1. /\ tool.remaining \in Nat /\ tool.chunk \in 1 .. tool.remaining /\ k = ChunkSectors(tool.chunk)
        /\ tool.chunk = tool.remaining \/ tool.chunk = bytes
        /\ tool.done + tool.remaining = Size /\ tool.sector * SectorSize = FirstByte + tool.done
        /\ tool.done \in Nat /\ Size \in Nat
    BY RangeOnDisk DEF Copying, Progress, ChunkCopied, Copied
  <1>2. tool.sector \in Int /\ job.start \in Int /\ k \in Int /\ SectorSize \in Int
    BY DiskNumbers, JobTyped, ConstantsTyped DEF Copying, Typed
  <1>3. ChunkSectors(Size) \in Int /\ Size <= all /\ all \in Int /\ bytes \in Int
    BY <1>1, <1>2, ChunkSectorsBound, ProductTyped
  <1>4. SectorSize * ChunkSectors(Size) = all
    BY <1>2, <1>3
  <1>5. ASSUME tool.chunk = bytes
        PROVE  tool.done + bytes <= all
    <2> HIDE DEF k, bytes, all
    <2>1. QED
      BY <1>1, <1>3, <1>5
  <1>6. ASSUME tool.chunk = tool.remaining
        PROVE  tool.done + bytes <= all
    <2> DEFINE d == tool.sector - job.start
    <2>1. d \in Int /\ d * SectorSize = tool.sector * SectorSize - job.start * SectorSize
      BY <1>2, Products
    <2>2. FirstByte = job.start * SectorSize /\ FirstByte \in Int
      BY <1>2, ProductTyped DEF FirstByte
    <2>3. d * SectorSize = tool.done
      <3> HIDE DEF d
      <3>1. QED
        BY <1>1, <2>1, <2>2
    <2> HIDE DEF d
    <2>4. Size = tool.chunk + d * SectorSize
      BY <1>1, <1>6, <2>3
    <2>5. ChunkSectors(Size) = k + d
      BY <1>1, <2>1, <2>4, ChunkSectorsShift
    <2>6. all = bytes + tool.done
      BY <1>2, <2>1, <2>3, <2>5, Products
    <2> HIDE DEF k, bytes, all
    <2>7. QED
      BY <1>1, <1>3, <2>6
  <1>7. QED
    BY <1>1, <1>4, <1>5, <1>6

\* The only request of a command of the board
LEMMA CommandFacts ==
    ASSUME Typed, Copying, At("command")
    PROVE  /\ RequestLength = tool.left /\ RequestSectors = tool.sectors
           /\ tool.requested = 0 /\ tool.sectors \in Int /\ tool.sectors * SectorSize \in Int
           /\ tool.block * SectorSize = FirstByte + tool.done
           /\ tool.chunk \in Nat /\ tool.chunk <= tool.sectors * SectorSize /\ tool.chunk <= job.buffer
           /\ tool.done \in Nat /\ Size \in Nat /\ FirstByte \in Nat /\ tool.done + tool.chunk <= Size
           /\ job.restore => \A i \in 1 .. tool.chunk : buffer[i] = file[tool.done + i]
           /\ DOMAIN buffer = 1 .. job.buffer /\ job.buffer \in Nat
           /\ DOMAIN disk = 1 .. Sectors * SectorSize /\ Sectors * SectorSize \in Nat
           /\ ~job.restore => disk = OnDisk
           /\ tool.done + tool.sectors * SectorSize <= SectorSize * ChunkSectors(Size)
           /\ tool.result = "none"
  <1>1. /\ tool.chunk \in 1 .. tool.remaining /\ tool.chunk <= job.buffer
        /\ tool.sectors = ChunkSectors(tool.chunk)
        /\ tool.requested = 0 /\ tool.left = tool.sectors * SectorSize /\ tool.block = tool.sector
        /\ tool.remaining \in Nat /\ tool.done + tool.remaining = Size
        /\ tool.sector * SectorSize = FirstByte + tool.done
        /\ job.restore => \A i \in 1 .. tool.chunk : buffer[i] = file[tool.done + i]
    BY DEF Copying, Progress, ChunkCopied, At
  <1>2. tool.done \in Nat /\ Size \in Nat /\ FirstByte \in Nat
    BY RangeOnDisk DEF Copying, Copied
  <1>3. RequestLength = tool.left
    BY DEF RequestLength, Copying, Sound
  <1>4. tool.sectors \in Int /\ tool.sectors * SectorSize \in Int
    BY DiskNumbers, ProductTyped DEF Copying
  <1>5. RequestSectors = tool.sectors
    BY <1>1, <1>3, <1>4, Quotient DEF RequestSectors
  <1>6. tool.chunk <= tool.sectors * SectorSize
    <2>1. tool.chunk \in Int
      BY <1>1
    <2>2. QED
      BY <1>1, <2>1, ChunkSectorsBound
  <1>7. /\ DOMAIN buffer = 1 .. job.buffer /\ job.buffer \in Nat
        /\ DOMAIN disk = 1 .. Sectors * SectorSize
        /\ ~job.restore => disk = OnDisk
    BY JobTyped DEF Copying, Typed, DiskTyped
  <1>8. Sectors * SectorSize \in Nat
    BY RangeOnDisk DEF Copying
  <1>9. tool.done + tool.sectors * SectorSize <= SectorSize * ChunkSectors(Size)
    BY ChunkEnd DEF At
  <1>10. tool.chunk \in Nat /\ tool.done + tool.chunk <= Size
    BY <1>1, <1>2
  <1>11. tool.result = "none"
    BY DEF Typed, At
  <1>12. QED
    BY <1>1, <1>2, <1>3, <1>4, <1>5, <1>6, <1>7, <1>8, <1>9, <1>10, <1>11

\* A restore writes to the sectors of the chunk, and the whole chunk unless it fails.
LEMMA TransferRestore ==
    ASSUME Typed, Copying, At("command"), job.restore, NEW n \in Int, n <= RequestSectors, Transferred(n)
    PROVE  /\ \A i \in 1 .. tool.done : disk'[FirstByte + i] = disk[FirstByte + i]
           /\ n = RequestSectors =>
                  \A i \in 1 .. tool.chunk : disk'[FirstByte + tool.done + i] = file[tool.done + i]
           /\ \A i \in DOMAIN disk' : disk'[i] # OnDisk[i] =>
                  i > FirstByte /\ i <= FirstByte + SectorSize * ChunkSectors(Extent)
           /\ buffer' = buffer
  <1> DEFINE b == n * SectorSize
             all == Sectors * SectorSize
             bound == SectorSize * ChunkSectors(Extent)
             data == Bytes(buffer, 0, b)
             first == FirstByte + tool.done
  <1>1. /\ RequestSectors = tool.sectors /\ tool.requested = 0 /\ tool.block * SectorSize = first
        /\ tool.chunk \in Nat /\ tool.chunk <= tool.sectors * SectorSize /\ tool.chunk <= job.buffer
        /\ tool.done \in Nat /\ FirstByte \in Nat /\ tool.sectors * SectorSize \in Int /\ tool.sectors \in Int
        /\ \A i \in 1 .. tool.chunk : buffer[i] = file[tool.done + i]
        /\ DOMAIN buffer = 1 .. job.buffer /\ job.buffer \in Nat
        /\ DOMAIN disk = 1 .. all /\ all \in Nat
        /\ tool.done + tool.sectors * SectorSize <= SectorSize * ChunkSectors(Size)
        /\ tool.done + tool.chunk <= Size
    BY CommandFacts
  <1>2. Disk /\ InRange /\ Size = Extent
    BY RangeOnDisk DEF Copying
  <1>3. b \in Int /\ b <= tool.sectors * SectorSize /\ (n = RequestSectors => b = tool.sectors * SectorSize)
    BY <1>1, Products
  <1>4. bound \in Int
    <2>1. Extent \in Int /\ SectorSize \in Int
      BY <1>2, RangeOnDisk, ConstantsTyped
    <2>2. ChunkSectors(Extent) \in Int
      BY <2>1, ChunkSectorsBound
    <2>3. QED
      BY <2>1, <2>2
  <1>5. disk' = Put(disk, first, data) /\ buffer' = buffer
    BY <1>1 DEF Transferred
  <1>6. DOMAIN data = 1 .. b
    BY BytesDomain
  <1>7. DOMAIN disk' = 1 .. all
    BY <1>1, <1>5 DEF Put
  <1>8. tool.done + b <= bound
    BY <1>1, <1>2, <1>3, <1>4
  <1>9. ASSUME NEW i \in 1 .. all
        PROVE  disk'[i] = IF i - first \in 1 .. b THEN data[i - first] ELSE disk[i]
    BY <1>1, <1>5, <1>6 DEF Put
  <1> HIDE DEF b, all, bound, data
  <1>10. /\ tool.done \in Nat /\ tool.chunk \in Nat /\ Size \in Nat /\ tool.done + tool.chunk <= Size
         /\ FirstByte \in Nat /\ tool.chunk <= job.buffer /\ job.buffer \in Nat
    BY CommandFacts
  <1>11. ASSUME NEW i \in 1 .. tool.done
         PROVE  disk'[FirstByte + i] = disk[FirstByte + i]
    <2>1. FirstByte + i \in 1 .. all
      <3>1. i \in Int /\ i > 0 /\ i <= Size
        BY <1>10
      <3>2. QED
        BY <1>2, <3>1, InsideDisk DEF all
    <2>2. (FirstByte + i) - first \notin 1 .. b
      BY <1>3, <1>10
    <2>3. QED
      BY <1>9, <2>1, <2>2
  <1>12. ASSUME n = RequestSectors, NEW i \in 1 .. tool.chunk
         PROVE  disk'[first + i] = file[tool.done + i]
    <2>1. FirstByte + (tool.done + i) \in 1 .. all
      <3>1. tool.done + i \in Int /\ tool.done + i > 0 /\ tool.done + i <= Size
        BY <1>10
      <3>2. QED
        BY <1>2, <3>1, InsideDisk DEF all
    <2>2. first + i \in 1 .. all /\ (first + i) - first = i
      BY <1>10, <2>1
    <2>3. i \in 1 .. b
      <3>1. tool.chunk <= b
        BY <1>1, <1>3, <1>12
      <3>2. QED
        BY <1>3, <1>10, <3>1
    <2>4. disk'[first + i] = data[i]
      BY <1>9, <2>2, <2>3
    <2>5. data[i] = buffer[i]
      <3>1. 0 + i = i /\ i \in 1 .. job.buffer
        BY <1>10
      <3>2. data[i] = IF 0 + i \in DOMAIN buffer THEN buffer[0 + i] ELSE Unknown
        BY <2>3 DEF data, Bytes
      <3>3. QED
        BY <1>1, <3>1, <3>2
    <2>6. QED
      BY <1>1, <2>4, <2>5
  <1>13. ASSUME NEW i \in DOMAIN disk', disk'[i] # OnDisk[i]
         PROVE  i > FirstByte /\ i <= FirstByte + bound
    <2>1. i \in 1 .. all
      BY <1>7
    <2>2. CASE i - first \in 1 .. b
      BY <1>3, <1>4, <1>8, <1>10, <2>1, <2>2
    <2>3. CASE i - first \notin 1 .. b
      <3>1. disk[i] # OnDisk[i] /\ i \in DOMAIN disk
        BY <1>1, <1>9, <1>13, <2>1, <2>3 DEF all
      <3>2. QED
        BY <3>1 DEF Copying, Untouched, bound
    <2>4. QED
      BY <2>2, <2>3
  <1>14. QED
    BY <1>5, <1>11, <1>12, <1>13 DEF bound

\* A dump leaves the disk alone, and all bytes of the chunk are in the buffer unless it fails.
LEMMA TransferDump ==
    ASSUME Typed, Copying, At("command"), ~job.restore, NEW n \in Int, Transferred(n)
    PROVE  /\ n = RequestSectors =>
                  \A i \in 1 .. tool.chunk : buffer'[i] = OnDisk[FirstByte + tool.done + i]
           /\ disk' = disk /\ disk = OnDisk
  <1> DEFINE b == n * SectorSize
             all == Sectors * SectorSize
             first == FirstByte + tool.done
             data == Bytes(disk, first, b)
  <1>1. /\ RequestSectors = tool.sectors /\ tool.requested = 0 /\ tool.block * SectorSize = first
        /\ tool.chunk <= tool.sectors * SectorSize /\ tool.chunk <= job.buffer
        /\ tool.sectors * SectorSize \in Int
        /\ DOMAIN buffer = 1 .. job.buffer /\ job.buffer \in Nat
        /\ DOMAIN disk = 1 .. all /\ disk = OnDisk
    BY CommandFacts
  <1>2. Disk /\ InRange
    BY DEF Copying
  <1>3. disk' = disk /\ buffer' = Put(buffer, 0, data)
    BY <1>1 DEF Transferred
  <1>4. DOMAIN data = 1 .. b
    BY BytesDomain
  <1>5. /\ tool.done \in Nat /\ tool.chunk \in Nat /\ Size \in Nat /\ tool.done + tool.chunk <= Size
        /\ FirstByte \in Nat
    BY CommandFacts
  <1> HIDE DEF all, data
  <1>6. ASSUME n = RequestSectors, NEW i \in 1 .. tool.chunk
        PROVE  buffer'[i] = OnDisk[first + i]
    <2>1. FirstByte + (tool.done + i) \in 1 .. all
      <3>1. tool.done + i \in Int /\ tool.done + i > 0 /\ tool.done + i <= Size
        BY <1>5
      <3>2. QED
        BY <1>2, <3>1, InsideDisk DEF all
    <2>2. first + i \in 1 .. all
      BY <1>5, <2>1
    <2>3. i \in 1 .. b
      <3>1. b \in Int /\ tool.chunk <= b
        BY <1>1, <1>6
      <3>2. QED
        BY <1>5, <3>1
    <2>4. i \in 1 .. job.buffer /\ i - 0 = i
      BY <1>1, <1>5
    <2>5. buffer'[i] = data[i]
      <3>1. i \in DOMAIN buffer /\ i - 0 \in DOMAIN data
        BY <1>1, <1>4, <2>3, <2>4
      <3>2. Put(buffer, 0, data)[i] = data[i - 0]
        BY <3>1 DEF Put
      <3>3. QED
        BY <1>3, <2>4, <3>2
    <2>6. data[i] = disk[first + i]
      <3>1. first + i \in DOMAIN disk
        BY <1>1, <2>2
      <3>2. QED
        BY <2>3, <3>1 DEF data, Bytes
    <2>7. QED
      BY <1>1, <2>5, <2>6
  <1>7. QED
    BY <1>1, <1>3, <1>6

\* What a command leaves alone, whether it succeeds or not
LEMMA CommandKeeps ==
    ASSUME Typed, Copying, At("command"), UNCHANGED <<job, file>>,
           UNCHANGED <<buffer, disk>> \/ \E n \in 0 .. RequestSectors : Transferred(n)
    PROVE  /\ Untouched'
           /\ job.restore => \A i \in 1 .. tool.done : disk'[FirstByte + i] = file[i]
           /\ job.restore => buffer' = buffer
  <1>1. CASE UNCHANGED <<buffer, disk>>
    BY <1>1, SameJob DEF Copying, Untouched, Copied
  <1>2. CASE \E n \in 0 .. RequestSectors : Transferred(n)
    <2>1. PICK n \in 0 .. RequestSectors : Transferred(n)
      BY <1>2
    <2>2. n \in Int /\ n <= RequestSectors
      BY DiskNumbers DEF Copying
    <2>3. CASE job.restore
      <3>1. /\ \A i \in 1 .. tool.done : disk'[FirstByte + i] = disk[FirstByte + i]
            /\ \A i \in DOMAIN disk' : disk'[i] # OnDisk[i] =>
                   i > FirstByte /\ i <= FirstByte + SectorSize * ChunkSectors(Extent)
            /\ buffer' = buffer
        BY <2>1, <2>2, <2>3, TransferRestore
      <3>2. Untouched'
        BY <2>3, <3>1, SameJob DEF Untouched, OnDisk, ChunkSectors
      <3>3. QED
        BY <2>3, <3>1, <3>2 DEF Copying, Copied
    <2>4. CASE ~job.restore
      <3>1. disk' = disk
        BY <2>1, <2>2, <2>4, TransferDump
      <3>2. Untouched'
        BY <3>1, SameJob DEF Copying, Untouched
      <3>3. QED
        BY <2>4, <3>2
    <2>5. QED
      BY <2>3, <2>4
  <1>3. QED
    BY <1>1, <1>2

LEMMA RequestDisk ==
    ASSUME Typed, Copying, Request
    PROVE  Copying'
  <1>1. At("command") /\ UNCHANGED <<job, file, active>> /\ Transferred(RequestSectors)
    BY DEF Request, Succeeds
  <1>2. /\ RequestLength = tool.left /\ RequestSectors \in Int /\ RequestLength \in Int
        /\ tool.result = "none" /\ RequestSectors = tool.sectors
    BY <1>1, CommandFacts, DiskNumbers DEF Copying
  <1>3. /\ tool'.pc = "transferred" /\ tool'.chunk = tool.chunk /\ tool'.sectors = tool.sectors
        /\ tool'.remaining = tool.remaining /\ tool'.done = tool.done /\ tool'.sector = tool.sector
        /\ tool'.result = "none"
    <2> DEFINE n == RequestLength
               k == RequestSectors
    <2>1. tool' = [tool EXCEPT !.requested = @ + n, !.left = @ - n, !.block = @ + k,
                               !.pc = IF tool.left = n THEN "transferred" ELSE "command"]
      BY DEF Request
    <2>2. n = tool.left /\ ToolTyped(tool)
      BY <1>2 DEF Typed
    <2> HIDE DEF n, k
    <2>3. QED
      BY <1>2, <2>1, <2>2 DEF ToolTyped, Fields
  <1>4. /\ Untouched'
        /\ job.restore => \A i \in 1 .. tool.done : disk'[FirstByte + i] = file[i]
    <2>1. CASE RequestSectors >= 0
      <3>1. RequestSectors \in 0 .. RequestSectors
        BY <1>2, <2>1
      <3>2. QED
        BY <1>1, <3>1, CommandKeeps
    <2>2. CASE RequestSectors < 0
      <3>1. tool.sectors * SectorSize + SectorSize <= 0 * SectorSize /\ 0 * SectorSize = 0 /\ SectorSize > 0
        BY <1>2, <2>2, Products, ConstantsTyped
      <3>2. tool.chunk \in Nat /\ tool.chunk <= tool.sectors * SectorSize /\ tool.sectors * SectorSize \in Int
        BY <1>1, CommandFacts
      <3>3. QED
        BY <3>1, <3>2, ConstantsTyped
    <2>3. QED
      BY <1>2, <2>1, <2>2
  <1>5. \A i \in 1 .. tool.chunk :
            IF job.restore THEN disk'[FirstByte + tool.done + i] = file[tool.done + i]
            ELSE buffer'[i] = OnDisk[FirstByte + tool.done + i]
    BY <1>1, <1>2, TransferRestore, TransferDump
  <1>6. /\ tool.chunk \in 1 .. tool.remaining /\ tool.chunk <= job.buffer
        /\ tool.sectors = ChunkSectors(tool.chunk)
        /\ tool.chunk = tool.remaining \/ tool.chunk = tool.sectors * SectorSize
        /\ tool.remaining \in Nat /\ tool.done + tool.remaining = Size
        /\ tool.remaining > 0 => tool.sector * SectorSize = FirstByte + tool.done
    BY <1>1 DEF Copying, Progress, ChunkCopied, At
  <1>7. ChunkCopied'
    <2>1. CommandLength(tool.sectors) = tool.sectors * SectorSize
      BY <1>1 DEF Copying, Progress, ChunkCopied, At
    <2>2. CommandLength(tool.sectors)' = tool.sectors * SectorSize
      BY <1>1, <1>3, <2>1 DEF CommandLength
    <2>3. QED
      BY <1>1, <1>3, <1>5, <1>6, <2>2, SameJob DEF ChunkCopied, At, OnDisk, ChunkSectors
  <1>8. Progress'
    BY <1>1, <1>3, <1>6, <1>7, SameJob DEF Progress, Successful
  <1>9. Copied'
    <2>1. /\ tool.done \in 0 .. Size
          /\ ~job.restore => Len(file) = tool.done /\ \A i \in 1 .. tool.done : file[i] = OnDisk[FirstByte + i]
      BY <1>1, <1>2 DEF Copying, Copied, Dumping, At
    <2>2. Size' = Size /\ FirstByte' = FirstByte /\ job' = job /\ file' = file
      BY <1>1, SameJob
    <2>3. QED
      BY <1>3, <1>4, <2>1, <2>2 DEF Copied, Dumping, OnDisk
  <1>10. QED
    BY <1>1, <1>4, <1>8, <1>9, SameOptions

LEMMA FailedRequestDisk ==
    ASSUME Typed, Copying, FailedRequest
    PROVE  Copying'
  <1>1. At("command") /\ UNCHANGED <<job, file, active>>
    BY DEF FailedRequest
  <1>2. UNCHANGED <<buffer, disk>> \/ \E n \in 0 .. RequestSectors : Transferred(n)
    BY DEF FailedRequest
  <1>3. /\ Untouched'
        /\ job.restore => \A i \in 1 .. tool.done : disk'[FirstByte + i] = file[i]
        /\ job.restore => buffer' = buffer
    BY <1>1, <1>2, CommandKeeps
  <1>4. CASE Finish("error")
    <2>1. tool'.pc = "end" /\ tool'.result = "error" /\ tool'.done = tool.done
      BY <1>4, FinishTyped DEF Typed
    <2>2. QED
      BY <1>1, <1>3, <2>1, ErrorDisk
  <1>5. CASE tool' = FirstRequest([tool EXCEPT !.tries = @ + 1])
    <2>1. ToolTyped(tool) /\ tool.tries \in Int /\ tool.result = "none"
      BY <1>1, CommandFacts DEF Typed, ToolTyped
    <2> DEFINE n == CommandLength(tool.sectors)
    <2>2. tool' = [[tool EXCEPT !.tries = @ + 1] EXCEPT
                       !.pc = "command", !.block = tool.sector, !.requested = 0, !.left = n]
      BY <1>5, <2>1 DEF FirstRequest, ToolTyped, Fields
    <2> HIDE DEF n
    <2>3. /\ tool'.pc = "command" /\ tool'.chunk = tool.chunk /\ tool'.sectors = tool.sectors
          /\ tool'.block = tool.sector /\ tool'.requested = 0 /\ tool'.left = n
          /\ tool'.remaining = tool.remaining /\ tool'.done = tool.done
          /\ tool'.sector = tool.sector /\ tool'.result = "none"
      BY <2>1, <2>2 DEF ToolTyped, Fields
    <2>4. /\ tool.chunk \in 1 .. tool.remaining /\ tool.chunk <= job.buffer
          /\ tool.sectors = ChunkSectors(tool.chunk)
          /\ tool.chunk = tool.remaining \/ tool.chunk = tool.sectors * SectorSize
          /\ tool.left = tool.sectors * SectorSize
          /\ tool.remaining \in Nat /\ tool.done + tool.remaining = Size
          /\ tool.remaining > 0 => tool.sector * SectorSize = FirstByte + tool.done
          /\ job.restore => \A i \in 1 .. tool.chunk : buffer[i] = file[tool.done + i]
      BY <1>1 DEF Copying, Progress, ChunkCopied, At
    <2>5. n = tool.sectors * SectorSize /\ CommandLength(tool.sectors)' = tool.sectors * SectorSize
      <3>1. CommandLength(tool.sectors) = tool.sectors * SectorSize
        BY <1>1 DEF Copying, Progress, ChunkCopied, At
      <3>2. QED
        BY <1>1, <2>3, <3>1 DEF n, CommandLength
    <2>6. ChunkCopied'
      BY <1>1, <1>3, <2>3, <2>4, <2>5, SameJob DEF ChunkCopied, At, ChunkSectors
    <2>7. Progress'
      BY <1>1, <2>1, <2>3, <2>4, <2>6, SameJob DEF Progress, Successful
    <2>8. Copied'
      <3>1. /\ tool.done \in 0 .. Size
            /\ ~job.restore => Len(file) = tool.done /\ \A i \in 1 .. tool.done : file[i] = OnDisk[FirstByte + i]
        BY <1>1, <2>1 DEF Copying, Copied, Dumping, At
      <3>2. Size' = Size /\ FirstByte' = FirstByte /\ job' = job /\ file' = file
        BY <1>1, SameJob
      <3>3. QED
        BY <1>3, <2>3, <3>1, <3>2 DEF Copied, Dumping, OnDisk
    <2>9. QED
      BY <1>1, <1>3, <2>7, <2>8, SameOptions
  <1>6. QED
    BY <1>4, <1>5 DEF FailedRequest

LEMMA EndChunkDisk ==
    ASSUME Typed, Copying, EndChunk
    PROVE  Copying'
  <1>1. At("transferred") /\ UNCHANGED <<job, active, disk, buffer>>
    BY DEF EndChunk
  <1>2. CASE ~job.restore /\ Finish("error") /\ UNCHANGED file
    BY <1>1, <1>2, FinishDisk
  <1>3. CASE tool' = Advanced /\ file' = IF job.restore THEN file ELSE file \o Bytes(buffer, 0, tool.chunk)
    <2> DEFINE c == tool.chunk
               k == tool.sectors
    <2>0. /\ c \in 1 .. tool.remaining /\ c <= job.buffer
          /\ tool.remaining \in Nat /\ tool.done + tool.remaining = Size
      BY <1>1 DEF Copying, Progress, ChunkCopied, At
    <2>1. /\ c = tool.remaining \/ c = k * SectorSize
          /\ tool.sector * SectorSize = FirstByte + tool.done
          /\ \A i \in 1 .. c : IF job.restore THEN disk[FirstByte + tool.done + i] = file[tool.done + i]
                               ELSE buffer[i] = OnDisk[FirstByte + tool.done + i]
      BY <1>1, <2>0 DEF Copying, Progress, ChunkCopied, At
    <2>2. /\ ToolTyped(tool) /\ c \in Int /\ k \in Int /\ tool.done \in 0 .. Size /\ tool.result = "none"
          /\ Size \in Nat /\ FirstByte \in Nat /\ tool.sector \in Int
      BY <1>1, <2>0, DiskNumbers, RangeOnDisk DEF Copying, Copied, Typed, At
    <2>3. /\ tool'.pc = "disk" /\ tool'.sector = tool.sector + k /\ tool'.remaining = tool.remaining - c
          /\ tool'.done = tool.done + c /\ tool'.result = "none"
      BY <1>3, <2>2 DEF Advanced, ToolTyped, Fields
    <2>4. Progress'
      <3>1. tool'.remaining \in Nat /\ tool'.done + tool'.remaining = Size
        BY <2>0, <2>2, <2>3
      <3>2. tool'.remaining > 0 => tool'.sector * SectorSize = FirstByte + tool'.done
        <4> SUFFICES ASSUME tool'.remaining > 0
                     PROVE  tool'.sector * SectorSize = FirstByte + tool'.done
          OBVIOUS
        <4>1. c = k * SectorSize
          BY <2>0, <2>1, <2>2, <2>3
        <4>2. (tool.sector + k) * SectorSize = tool.sector * SectorSize + k * SectorSize
          BY <2>2, Products
        <4>3. (tool.sector + k) * SectorSize = (FirstByte + tool.done) + c
          BY <2>1, <4>1, <4>2
        <4>4. QED
          BY <2>2, <2>3, <4>3
      <3>3. QED
        BY <1>1, <2>3, <3>1, <3>2, SameJob DEF Progress, Successful
    <2>5. tool'.done \in 0 .. Size
      BY <2>0, <2>2, <2>3
    <2>6. CASE job.restore
      <3>1. file' = file
        BY <1>3, <2>6
      <3>2. ASSUME NEW i \in 1 .. tool.done + c
            PROVE  disk[FirstByte + i] = file[i]
        <4>1. CASE i <= tool.done
          <5>1. i \in 1 .. tool.done
            BY <2>2, <4>1
          <5>2. QED
            BY <2>6, <5>1 DEF Copying, Copied
        <4>2. CASE ~(i <= tool.done)
          <5>1. i - tool.done \in 1 .. c
            BY <2>2, <4>2
          <5>2. disk[FirstByte + tool.done + (i - tool.done)] = file[tool.done + (i - tool.done)]
            BY <2>1, <2>6, <5>1
          <5>3. FirstByte + tool.done + (i - tool.done) = FirstByte + i /\ tool.done + (i - tool.done) = i
            BY <2>2
          <5>4. QED
            BY <5>2, <5>3
        <4>3. QED
          BY <4>1, <4>2
      <3>3. Copied'
        BY <1>1, <2>3, <2>5, <2>6, <3>1, <3>2, SameJob DEF Copied, Dumping
      <3>4. Untouched'
        BY <1>1, SameJob DEF Copying, Untouched
      <3>5. QED
        BY <1>1, <2>4, <3>3, <3>4, SameOptions
    <2>7. CASE ~job.restore
      <3> DEFINE data == Bytes(buffer, 0, c)
      <3>1. data \in [1 .. c -> Int] /\ c \in Nat /\ DOMAIN buffer = 1 .. job.buffer /\ job.buffer \in Nat
        <4>1. buffer \in [1 .. job.buffer -> Int] /\ job.buffer \in Nat
          BY JobTyped DEF Copying, Typed, DiskTyped
        <4>2. c \in Nat /\ 0 \in Int
          BY <2>0
        <4>3. data \in [1 .. c -> Int]
          BY <4>1, <4>2, BytesTyped
        <4>4. QED
          BY <4>1, <4>2, <4>3
      <3>2. data \in Seq(Int) /\ Len(data) = c
        BY <3>1, SeqDef
      <3>3. file \in Seq(Int) /\ Len(file) = tool.done
            /\ \A i \in 1 .. tool.done : file[i] = OnDisk[FirstByte + i]
        BY <1>1, <2>2, <2>7 DEF Copying, Copied, Dumping, At, Typed, DiskTyped
      <3>4. file' = file \o data
        BY <1>3, <2>7
      <3>5. ASSUME NEW i \in 1 .. c
            PROVE  data[i] = buffer[i]
        <4>1. 0 + i = i /\ i \in DOMAIN buffer
          BY <2>0, <3>1
        <4>2. data[i] = IF 0 + i \in DOMAIN buffer THEN buffer[0 + i] ELSE Unknown
          BY DEF data, Bytes
        <4>3. QED
          BY <4>1, <4>2
      <3> HIDE DEF data
      <3>6. /\ Len(file') = tool.done + c
            /\ \A i \in 1 .. tool.done + c : file'[i] = IF i <= tool.done THEN file[i] ELSE data[i - tool.done]
        <4>1. /\ Len(file \o data) = Len(file) + Len(data)
              /\ \A i \in 1 .. Len(file) + Len(data) :
                     (file \o data)[i] = IF i <= Len(file) THEN file[i] ELSE data[i - Len(file)]
          BY <3>2, <3>3, ConcatProperties
        <4>2. QED
          BY <3>2, <3>3, <3>4, <4>1
      <3>7. ASSUME NEW i \in 1 .. tool.done + c
            PROVE  file'[i] = OnDisk[FirstByte + i]
        <4>1. CASE i <= tool.done
          <5>1. i \in 1 .. tool.done
            BY <2>2, <4>1
          <5>2. QED
            BY <3>3, <3>6, <4>1, <5>1
        <4>2. CASE ~(i <= tool.done)
          <5>1. i - tool.done \in 1 .. c
            BY <2>2, <4>2
          <5>2. file'[i] = buffer[i - tool.done]
            BY <3>5, <3>6, <4>2, <5>1
          <5>3. buffer[i - tool.done] = OnDisk[FirstByte + tool.done + (i - tool.done)]
            BY <2>1, <2>7, <5>1
          <5>4. FirstByte + tool.done + (i - tool.done) = FirstByte + i
            BY <2>2
          <5>5. QED
            BY <5>2, <5>3, <5>4
        <4>3. QED
          BY <4>1, <4>2
      <3>8. Copied'
        BY <1>1, <2>3, <2>5, <2>7, <3>6, <3>7, SameJob DEF Copied, Dumping, OnDisk
      <3>9. Untouched'
        BY <1>1, SameJob DEF Copying, Untouched
      <3>10. QED
        BY <1>1, <2>4, <3>8, <3>9, SameOptions
    <2>8. QED
      BY <2>6, <2>7
  <1>4. QED
    BY <1>2, <1>3 DEF EndChunk

LEMMA EndDiskDisk ==
    ASSUME Typed, Copying, EndDisk
    PROVE  Copying'
  <1>1. /\ At("disk") /\ (tool.remaining = 0 \/ active = FALSE) /\ Finish("success")
        /\ UNCHANGED <<job, active, disk, file>>
    BY DEF EndDisk, Typed
  <1>2. tool'.pc = "end" /\ tool'.result = "success" /\ tool'.done = tool.done
    BY <1>1, FinishTyped DEF Typed
  <1>3. tool.done + tool.remaining = Size /\ tool.done \in 0 .. Size /\ Size \in Nat /\ tool.result = "none"
    BY <1>1, RangeOnDisk DEF Copying, Progress, Copied, At, Typed
  <1>4. active => tool.done = Size
    BY <1>1, <1>3
  <1>5. Progress'
    BY <1>1, <1>2, <1>4, SameJob DEF Progress, Successful
  <1>6. Copied'
    <2>1. /\ ~job.restore => Len(file) = tool.done /\ \A i \in 1 .. tool.done : file[i] = OnDisk[FirstByte + i]
          /\ job.restore => \A i \in 1 .. tool.done : disk[FirstByte + i] = file[i]
      BY <1>1, <1>3 DEF Copying, Copied, Dumping, At
    <2>2. QED
      BY <1>1, <1>2, <1>3, <2>1, SameJob DEF Copied, Dumping, OnDisk
  <1>7. Untouched'
    BY <1>1, SameJob DEF Copying, Untouched
  <1>8. QED
    BY <1>1, <1>5, <1>6, <1>7, SameOptions

\* A step of a tape job, or one that changes nothing
LEMMA StepDisk ==
    ASSUME Typed, DiskInv, [DumpNext]_vars
    PROVE  DiskInv'
  <1>1. UNCHANGED job
    BY DEF DumpNext, ToolNext, Ended, vars, GetDeviceInfo, DumpRestore, StartDisk, NextChunk, Request, FailedRequest,
           EndChunk, EndDisk, Rewind, NextRead, ReadTape, ReadTimeout, RequestSense, SpaceBack, RestoreRecord,
           TerminationHandler
  <1> SUFFICES ASSUME Copying
                 PROVE  Copying'
    BY <1>1, SameJob, CopyingInv DEF DiskInv, Copying
  <1>2. CASE UNCHANGED vars
    <2>1. ChunkCopied => ChunkCopied'
      BY <1>2, SameJob DEF vars, ChunkCopied, At, CommandLength
    <2>2. Progress'
      BY <1>2, <2>1, SameJob DEF vars, Copying, Progress, Successful
    <2>3. Copied' /\ Untouched'
      BY <1>2, SameJob DEF vars, Copying, Copied, Dumping, Untouched
    <2>4. QED
      BY <1>1, <2>2, <2>3, SameOptions
  <1>3. ~(Rewind \/ NextRead \/ ReadTape \/ ReadTimeout \/ RequestSense \/ SpaceBack \/ RestoreRecord)
    BY PhaseOfDisk DEF Copying, Rewind, NextRead, ReadTape, ReadTimeout, RequestSense, SpaceBack, RestoreRecord, At
  <1>4. CASE ToolNext
    BY <1>3, <1>4, GetDeviceInfoDisk, DumpRestoreDisk, StartDiskDisk, NextChunkDisk, RequestDisk, FailedRequestDisk,
       EndChunkDisk, EndDiskDisk
       DEF ToolNext
  <1>5. CASE TerminationHandler
    BY <1>5, TerminationHandlerDisk
  <1>6. QED
    BY <1>2, <1>4, <1>5 DEF DumpNext, Ended

-----------------------------------------------------------------------------
(* Dumped tapes                                                            *)

LEMMA TapeFacts ==
    ASSUME Typed, ~Disk
    PROVE  /\ tape \in Seq(Objects) /\ Len(tape) \in Nat /\ DOMAIN tape = 1 .. Len(tape)
           /\ position \in 0 .. Len(tape) /\ ToolTyped(tool) /\ buffer \in Blocks
           /\ tool.expected \in Int /\ tool.information \in Int /\ tool.done \in Int
           /\ tool.retried \in BOOLEAN /\ tool.unclear \in BOOLEAN /\ tool.sense \in Senses
           /\ ~job.restore => file \in Seq(Records) /\ Len(file) \in Nat
  <1>1. /\ tape \in Seq(Objects) /\ position \in 0 .. Len(tape) /\ ToolTyped(tool) /\ buffer \in Blocks
        /\ ~job.restore => file \in Seq(Records)
    BY DEF Typed, TapeTyped
  <1>2. Len(tape) \in Nat /\ DOMAIN tape = 1 .. Len(tape) /\ (~job.restore => Len(file) \in Nat)
    BY <1>1, LenProperties
  <1>3. /\ tool.expected \in Int /\ tool.information \in Int /\ tool.done \in Int
        /\ tool.retried \in BOOLEAN /\ tool.unclear \in BOOLEAN /\ tool.sense \in Senses
    BY <1>1 DEF ToolTyped
  <1>4. QED
    BY <1>1, <1>2, <1>3

\* A record of an object, and how it comes into the file
DumpingTape == ~Disk /\ Dumping /\ ~tool.unclear

LEMMA RecordDumped ==
    ASSUME Typed, DumpingTape, TapeDumped, Len(file) < Len(tape), UNCHANGED tape, position' = Len(file) + 1,
           NEW t, ToolTyped(t), t.result = "none", Record(t, Dumped(Current)), DumpingTape'
    PROVE  TapeDumped'
  <1> DEFINE record == Dumped(Current)
  <1>1. /\ ~Disk /\ ~job.restore /\ tape \in Seq(Objects) /\ Len(tape) \in Nat
        /\ file \in Seq(Records) /\ Len(file) \in Nat
    BY TapeFacts DEF DumpingTape, Dumping
  <1>2. record \in Records
    <2>1. Len(file) + 1 \in 1 .. Len(tape)
      BY <1>1
    <2>2. /\ Current.kind \in ObjectKinds /\ Current.length \in Nat /\ Current.number \in Int
      BY <1>1, <2>1, ObjectTyped DEF Current
    <2>3. QED
      BY <2>2 DEF Dumped, BadMarker, Filemark, Object, Records, ObjectKinds
  <1>3. file' = Append(file, record) /\ tool' = [t EXCEPT !.pc = "dump"]
    <2>1. ~Finish("error")
      BY FinishTyped DEF Typed, DumpingTape, Dumping
    <2>2. QED
      BY <2>1 DEF Record
  <1>4. tool'.pc = "dump" /\ tool'.result = "none"
    BY <1>3 DEF ToolTyped, Fields
  <1> HIDE DEF record
  <1>5. /\ Len(file') = Len(file) + 1
        /\ \A i \in 1 .. Len(file) : file'[i] = file[i]
        /\ file'[Len(file) + 1] = record
    BY <1>1, <1>2, <1>3, AppendProperties
  <1>6. ASSUME NEW i \in 1 .. Len(file')
        PROVE  file'[i] = Dumped(tape[i])
    <2>1. CASE i = Len(file) + 1
      BY <1>5, <2>1 DEF record, Current
    <2>2. CASE i # Len(file) + 1
      <3>1. i \in 1 .. Len(file)
        BY <1>1, <1>5, <2>2
      <3>2. QED
        BY <1>5, <3>1 DEF TapeDumped
    <2>3. QED
      BY <2>1, <2>2
  <1>7. QED
    BY <1>1, <1>4, <1>5, <1>6 DEF TapeDumped, At, Successful, Dumped, Object, BadMarker, Filemark

LEMMA OpenDumped ==
    ASSUME Typed, DumpRestore, DumpingTape'
    PROVE  TapeDumped'
  <1>1. job' = job /\ tape' = tape /\ ~Disk /\ ~job.restore
    BY SameJob DEF DumpRestore, DumpingTape, Dumping
  <1>2. ~Finish("error")
    BY FinishTyped DEF Typed, DumpingTape, Dumping
  <1>3. file' = <<>> /\ Goto("rewind")
    BY <1>1, <1>2 DEF DumpRestore, Opened, Disk
  <1>4. tool'.pc = "rewind" /\ tool'.result = tool.result /\ tool.result = "none"
    BY <1>3, GotoTyped DEF Typed, TapeSteps, DumpRestore, At
  <1>5. Len(file') = 0 /\ Len(tape') \in Nat
    BY <1>1, <1>3, TapeFacts, EmptySeq
  <1>6. QED
    BY <1>3, <1>4, <1>5 DEF TapeDumped, At, Successful

LEMMA RewindDumped ==
    ASSUME Typed, DumpingTape, TapeDumped, Rewind, DumpingTape'
    PROVE  TapeDumped'
  <1>1. UNCHANGED <<tape, file>> /\ At("rewind") /\ ~job.restore
    BY DEF Rewind, DumpingTape, Dumping
  <1>2. ~Finish("error")
    BY FinishTyped DEF Typed, DumpingTape, Dumping
  <1>3. position' = 0 /\ Goto("dump")
    BY <1>1, <1>2 DEF Rewind
  <1>4. tool'.pc = "dump" /\ tool'.result = tool.result /\ tool.result = "none"
    BY <1>1, <1>3, GotoTyped DEF Typed, TapeSteps, At
  <1>5. file = <<>> /\ Len(file) = 0
    BY <1>1, EmptySeq DEF TapeDumped, At
  <1>6. QED
    BY <1>1, <1>3, <1>4, <1>5 DEF TapeDumped, At, Successful, Dumped, Object, BadMarker, Filemark

LEMMA NextReadDumped ==
    ASSUME Typed, DumpingTape, TapeDumped, NextRead, DumpingTape'
    PROVE  TapeDumped'
  <1>1. UNCHANGED <<tape, file, position, active>> /\ At("dump") /\ ToolTyped(tool) /\ tool.result = "none"
    BY DEF NextRead, Typed, At
  <1>2. position = Len(file)
    BY <1>1 DEF TapeDumped, At
  <1>3. CASE active
    <2>1. tool' = [tool EXCEPT !.pc = "read", !.retried = FALSE]
      BY <1>3 DEF NextRead
    <2>2. tool'.pc = "read" /\ tool'.retried = FALSE /\ tool'.result = "none"
      BY <1>1, <2>1 DEF ToolTyped, Fields
    <2>3. QED
      BY <1>1, <1>2, <2>2 DEF TapeDumped, At, Successful, Dumped, Object, BadMarker, Filemark
  <1>4. CASE ~active
    <2>1. tool'.pc = "end"
      BY <1>1, <1>4, FinishTyped DEF NextRead
    <2>2. QED
      BY <1>1, <1>4, <2>1 DEF TapeDumped, At, Successful, Dumped, Object, BadMarker, Filemark
  <1>5. QED
    BY <1>3, <1>4

\* What REQUEST SENSE is going to report
LEMMA SenseDumped ==
    ASSUME ToolTyped(tool), tool.result = "none", NEW sense \in Senses, NEW information \in Int,
           Sense(sense, information)
    PROVE  /\ file' = file /\ tool'.pc = "sense" /\ tool'.result = "none" /\ tool'.sense = sense
           /\ tool'.information = information /\ tool'.retried = tool.retried /\ tool'.expected = tool.expected
  BY DEF Sense, ToolTyped, Fields

LEMMA ReadDumped ==
    ASSUME Typed, DumpingTape, TapeDumped, ReadTape, DumpingTape'
    PROVE  TapeDumped'
  <1>1. /\ At("read") /\ ~Disk /\ ~job.restore /\ position = Len(file) /\ Len(file) <= Len(tape)
        /\ tape \in Seq(Objects) /\ Len(tape) \in Nat /\ Len(file) \in Nat /\ ToolTyped(tool)
        /\ tool.result = "none" /\ tool.expected \in Int /\ tool.retried \in BOOLEAN
        /\ \A i \in 1 .. Len(file) : file[i] = Dumped(tape[i])
        /\ tool.retried /\ Len(file) < Len(tape) => Current.kind # "weak"
    BY TapeFacts DEF ReadTape, DumpingTape, Dumping, TapeDumped, At, Typed
  <1>2. CASE ReadEnd
    <2>1. Sense("blank", 0) /\ tape' = tape /\ position' = position /\ position = Len(tape)
      BY <1>2 DEF ReadEnd
    <2>2. /\ file' = file /\ tool'.pc = "sense" /\ tool'.result = "none" /\ tool'.sense = "blank"
      BY <1>1, <2>1, SenseDumped DEF Senses
    <2>3. QED
      BY <1>1, <2>1, <2>2 DEF TapeDumped, At, Successful, Dumped, Object, BadMarker, Filemark
  <1>3. CASE ReadObject
    <2> DEFINE o == tape[position + 1]
               strong == Object("block", o.length, o.number)
    <2>1. position + 1 \in 1 .. Len(tape) /\ position' = position + 1 /\ Len(file) < Len(tape) /\ o = Current
      BY <1>1, <1>3 DEF ReadObject, Current
    <2>2. /\ o \in Objects /\ o.kind \in ObjectKinds /\ o.length \in Nat /\ o.number \in Int
      BY <1>1, <2>1, ObjectTyped
    <2>3. CASE o.kind \in {"filemark", "bad"}
      <3> DEFINE sense == IF o.kind = "filemark" THEN "filemark" ELSE "medium"
      <3>1. Sense(sense, 0) /\ tape' = tape
        BY <1>3, <2>3 DEF ReadObject
      <3>2. sense \in Senses
        BY DEF Senses
      <3>3. /\ file' = file /\ tool'.pc = "sense" /\ tool'.result = "none" /\ tool'.sense = sense
            /\ tool'.retried = tool.retried
        BY <1>1, <3>1, <3>2, SenseDumped
      <3>4. Current' = o
        BY <1>1, <2>1, <3>1, <3>3 DEF Current
      <3>5. QED
        BY <1>1, <2>1, <2>3, <3>1, <3>3, <3>4
           DEF TapeDumped, At, Successful, Dumped, Object, BadMarker, Filemark
    <2>4. CASE o.kind = "weak"
      <3>1. Sense("medium", 0) /\ tape' = [tape EXCEPT ![position + 1] = strong]
        BY <1>3, <2>4 DEF ReadObject
      <3>2. strong \in Objects /\ strong.kind = "block"
        BY <2>2 DEF Object, Objects, ObjectKinds
      <3>3. /\ file' = file /\ tool'.pc = "sense" /\ tool'.result = "none" /\ tool'.sense = "medium"
            /\ tool'.retried = tool.retried
        BY <1>1, <3>1, SenseDumped DEF Senses
      <3> HIDE DEF strong
      <3>4. /\ Len(tape') = Len(tape)
            /\ \A j \in 1 .. Len(tape) : tape'[j] = IF j = position + 1 THEN strong ELSE tape[j]
        BY <1>1, <2>1, <3>1, <3>2, ExceptSeq
      <3>5. Current' = strong
        BY <1>1, <2>1, <3>3, <3>4 DEF Current
      <3>6. tool'.retried = FALSE
        BY <1>1, <2>1, <2>4, <3>3
      <3>7. ASSUME NEW i \in 1 .. Len(file')
            PROVE  file'[i] = Dumped(tape'[i])
        <4>1. i \in 1 .. Len(file) /\ i \in 1 .. Len(tape) /\ i # position + 1
          BY <1>1, <3>3
        <4>2. QED
          BY <1>1, <3>3, <3>4, <4>1
      <3>8. QED
        BY <1>1, <2>1, <3>2, <3>3, <3>4, <3>5, <3>6, <3>7
           DEF TapeDumped, At, Successful, Dumped, Object, BadMarker, Filemark
    <2>5. CASE o.kind = "block"
      <3>1. /\ IF o.length = tool.expected THEN Record(tool, strong) ELSE Sense("length", tool.expected - o.length)
            /\ buffer' = [o EXCEPT !.length = Least(o.length, tool.expected)]
            /\ tape' = tape
        BY <1>3, <2>5 DEF ReadObject
      <3>2. CASE Record(tool, strong)
        <4>1. Dumped(Current) = strong
          BY <2>1, <2>5 DEF Dumped
        <4>2. QED
          BY <1>1, <2>1, <3>1, <3>2, <4>1, RecordDumped
      <3>3. CASE Sense("length", tool.expected - o.length)
        <4> DEFINE information == tool.expected - o.length
        <4>1. information \in Int
          BY <1>1, <2>2
        <4>2. /\ file' = file /\ tool'.pc = "sense" /\ tool'.result = "none" /\ tool'.sense = "length"
              /\ tool'.information = information /\ tool'.expected = tool.expected
          BY <1>1, <3>3, <4>1, SenseDumped DEF Senses
        <4>3. Current' = o
          BY <1>1, <2>1, <3>1, <4>2 DEF Current
        <4>4. information > 0 => buffer' = o
          <5> SUFFICES ASSUME information > 0
                       PROVE  buffer' = o
            OBVIOUS
          <5>1. Least(o.length, tool.expected) = o.length
            BY <1>1, <2>2 DEF Least
          <5>2. o = [kind |-> o.kind, length |-> o.length, number |-> o.number]
            BY <2>2 DEF Objects
          <5>3. [o EXCEPT !.length = o.length] = o
            BY <5>2
          <5>4. QED
            BY <3>1, <5>1, <5>3
        <4> HIDE DEF information
        <4>5. information = tool.expected - o.length
          BY DEF information
        <4>6. /\ At("sense")' /\ tool'.sense = "length" /\ Current'.kind = "block"
              /\ tool'.information = tool'.expected - Current'.length
              /\ tool'.information > 0 => buffer' = Current'
          BY <2>5, <4>2, <4>3, <4>4, <4>5 DEF At
        <4>7. QED
          BY <1>1, <2>1, <3>1, <4>2, <4>6 DEF TapeDumped, At, Successful, Dumped, Object, BadMarker, Filemark
      <3>4. QED
        BY <3>1, <3>2, <3>3
    <2>6. QED
      BY <2>2, <2>3, <2>4, <2>5 DEF ObjectKinds
  <1>4. QED
    BY <1>2, <1>3 DEF ReadTape

LEMMA SpaceBackDumped ==
    ASSUME Typed, DumpingTape, TapeDumped, SpaceBack, DumpingTape'
    PROVE  TapeDumped'
  <1>1. UNCHANGED <<tape, file>> /\ At("back") /\ position = Len(file) + 1 /\ Len(file) \in Nat
        /\ ToolTyped(tool) /\ tool.result = "none"
    BY TapeFacts DEF SpaceBack, DumpingTape, Dumping, TapeDumped, At, Typed
  <1>2. ~Finish("error")
    BY FinishTyped DEF Typed, DumpingTape, Dumping
  <1>3. position' = Len(file) /\ Goto("read")
    BY <1>1, <1>2 DEF SpaceBack
  <1>4. tool'.pc = "read" /\ tool'.result = "none" /\ tool'.retried = tool.retried
    BY <1>1, <1>3 DEF Goto, ToolTyped, Fields
  <1>5. Current' = Current
    BY <1>1 DEF Current
  <1>6. QED
    BY <1>1, <1>3, <1>4, <1>5 DEF TapeDumped, At, Successful, Dumped, Object, BadMarker, Filemark

LEMMA RequestSenseDumped ==
    ASSUME Typed, DumpingTape, TapeDumped, RequestSense, DumpingTape'
    PROVE  TapeDumped'
  <1>1. /\ UNCHANGED <<active, buffer, tape, position>> /\ At("sense") /\ ~Disk /\ ~job.restore /\ ToolTyped(tool)
        /\ tool.result = "none" /\ tool.sense \in Senses \ {"none"} /\ tool.retried \in BOOLEAN
        /\ tool.expected \in Int /\ tool.information \in Int
        /\ Len(tape) \in Nat /\ Len(file) \in Nat /\ Len(file) <= Len(tape)
        /\ \A i \in 1 .. Len(file) : file[i] = Dumped(tape[i])
    BY TapeFacts DEF RequestSense, DumpingTape, Dumping, TapeDumped, At, Typed
  <1>2. ~Finish("error")
    BY FinishTyped DEF Typed, DumpingTape, Dumping
  <1>3. tool.sense # "blank" => Len(file) < Len(tape) /\ position' = Len(file) + 1 /\ Len(file) + 1 \in 1 .. Len(tape)
    BY <1>1 DEF TapeDumped, At
  <1> DEFINE length == tool.expected - tool.information
             adjusted == [tool EXCEPT !.expected = length]
             back(t) == tool' = [t EXCEPT !.pc = "back"] /\ UNCHANGED <<file, faults>>
  <1>4. CASE CASE tool.sense = "blank" -> Finish("success") /\ UNCHANGED <<file, faults>>
               [] tool.sense = "medium" ->
                   IF tool.retried THEN Record(tool, BadMarker) ELSE back(Remembered(tool))
               [] tool.sense = "filemark" -> Record(tool, Filemark)
               [] tool.sense = "length" ->
                   IF Complete THEN Record(adjusted, InBuffer(length))
                   ELSE back(adjusted)
               [] tool.sense = "none" -> Record(tool, InBuffer(StatusLength))
    <2>1. ToolTyped(adjusted) /\ adjusted.result = "none" /\ adjusted.retried = tool.retried /\ length \in Int
      <3>1. length \in Int
        BY <1>1
      <3> HIDE DEF length
      <3>2. QED
        BY <1>1, <3>1 DEF ToolTyped, Fields
    <2>2. ASSUME NEW t, ToolTyped(t), t.result = "none", back(t), tool.sense # "blank",
                 t.retried => Current.kind # "weak"
          PROVE  TapeDumped'
      <3>1. tool'.pc = "back" /\ tool'.result = "none" /\ tool'.retried = t.retried /\ file' = file
        BY <2>2 DEF ToolTyped, Fields
      <3>2. Current' = Current
        BY <1>1, <3>1 DEF Current
      <3>3. QED
        BY <1>1, <1>3, <2>2, <3>1, <3>2
           DEF TapeDumped, At, Successful, Dumped, Object, BadMarker, Filemark
    <2> HIDE DEF length, adjusted, back
    <2>3. CASE tool.sense = "blank"
      <3>1. file' = file /\ Finish("success")
        BY <1>4, <2>3
      <3>2. tool'.pc = "end"
        BY <1>1, <3>1, FinishTyped
      <3>3. Len(file) = Len(tape)
        BY <1>1, <2>3 DEF TapeDumped, At
      <3>4. QED
        BY <1>1, <3>1, <3>2, <3>3 DEF TapeDumped, At, Successful, Dumped, Object, BadMarker, Filemark
    <2>4. CASE tool.sense = "medium"
      <3>1. CASE tool.retried
        <4>1. Current.kind = "bad"
          BY <1>1, <2>4, <3>1 DEF TapeDumped, At
        <4>2. Record(tool, Dumped(Current))
          BY <1>4, <2>4, <3>1, <4>1 DEF Dumped
        <4>3. QED
          BY <1>1, <1>3, <2>4, <4>2, RecordDumped
      <3>2. CASE ~tool.retried
        <4>1. Current.kind \in {"bad", "block"}
          BY <1>1, <2>4, <3>2 DEF TapeDumped, At
        <4>2. back(Remembered(tool))
          BY <1>4, <2>4, <3>2
        <4>3. ToolTyped(Remembered(tool)) /\ Remembered(tool).result = "none"
          BY <1>1 DEF Remembered, ToolTyped, Fields
        <4>4. QED
          BY <2>2, <2>4, <4>1, <4>2, <4>3
      <3>3. QED
        BY <3>1, <3>2
    <2>5. CASE tool.sense = "filemark"
      <3>1. Current.kind = "filemark"
        BY <1>1, <2>5 DEF TapeDumped, At
      <3>2. Record(tool, Dumped(Current))
        BY <1>4, <2>5, <3>1 DEF Dumped
      <3>3. QED
        BY <1>1, <1>3, <2>5, <3>2, RecordDumped
    <2>6. CASE tool.sense = "length"
      <3>1. /\ Current.kind = "block" /\ tool.information = tool.expected - Current.length
            /\ tool.information > 0 => buffer = Current
        BY <1>1, <2>6 DEF TapeDumped, At
      <3>2. CASE Complete
        <4>1. buffer = Current
          BY <3>1, <3>2 DEF Complete
        <4>2. length = Current.length
          <5>1. Current.length \in Nat
            BY <1>1, <1>3, <2>6, ObjectTyped DEF Current
          <5>2. QED
            BY <1>1, <3>1, <5>1 DEF length
        <4>3. InBuffer(length) = Dumped(Current)
          BY <3>1, <4>1, <4>2 DEF InBuffer, Dumped
        <4>4. Record(adjusted, Dumped(Current))
          BY <1>4, <2>6, <3>2, <4>3
        <4>5. QED
          BY <1>1, <1>3, <2>1, <2>6, <4>4, RecordDumped
      <3>3. CASE ~Complete
        <4>1. back(adjusted)
          BY <1>4, <2>6, <3>3
        <4>2. QED
          BY <2>1, <2>2, <2>6, <3>1, <4>1
      <3>4. QED
        BY <3>2, <3>3
    <2>7. QED
      BY <1>1, <2>3, <2>4, <2>5, <2>6 DEF Senses
  <1>5. QED
    BY <1>2, <1>4 DEF RequestSense

\* Only a drive that does not answer leaves it open what has happened.
LEMMA UnclearKept ==
    ASSUME Typed, ~Disk, Rewind \/ NextRead \/ ReadTape \/ RequestSense \/ SpaceBack
    PROVE  tool'.unclear = tool.unclear
  <1>1. ToolTyped(tool) /\ tool.sense \in Senses /\ DOMAIN tool = Fields
    BY TapeFacts DEF ToolTyped
  <1>2. ASSUME NEW result, Finish(result)
        PROVE  tool'.unclear = tool.unclear
    BY <1>2, <1>1 DEF Finish, Fields
  <1>3. ASSUME NEW pc, Goto(pc)
        PROVE  tool'.unclear = tool.unclear
    BY <1>3, <1>1 DEF Goto, Fields
  <1>4. ASSUME NEW sense, NEW information, Sense(sense, information)
        PROVE  tool'.unclear = tool.unclear
    BY <1>4, <1>1 DEF Sense, Fields
  <1>5. ASSUME NEW t, NEW record, DOMAIN t = Fields, t.unclear = tool.unclear, Record(t, record)
        PROVE  tool'.unclear = tool.unclear
    BY <1>2, <1>5 DEF Record, Fields
  <1>6. CASE Rewind
    BY <1>2, <1>3, <1>6 DEF Rewind
  <1>7. CASE NextRead
    <2>1. CASE tool' = [tool EXCEPT !.pc = "read", !.retried = FALSE]
      BY <1>1, <2>1 DEF Fields
    <2>2. CASE Finish("success")
      BY <1>2, <2>2
    <2>3. QED
      BY <1>7, <2>1, <2>2 DEF NextRead
  <1>8. CASE SpaceBack
    BY <1>2, <1>3, <1>8 DEF SpaceBack
  <1>9. CASE ReadTape
    <2>1. CASE ReadEnd
      BY <1>4, <2>1 DEF ReadEnd
    <2>2. CASE ReadObject
      <3> DEFINE o == tape[position + 1]
                 strong == Object("block", o.length, o.number)
      <3>0. o.kind \in ObjectKinds
        <4>1. position + 1 \in 1 .. Len(tape)
          BY <2>2, TapeFacts DEF ReadObject
        <4>2. QED
          BY <4>1, ObjectTyped
      <3>1. \/ \E sense \in {"filemark", "medium"} : Sense(sense, 0)
            \/ Sense("length", tool.expected - o.length)
            \/ Record(tool, strong)
        BY <2>2, <3>0 DEF ReadObject, ObjectKinds
      <3>2. QED
        BY <1>4, <1>5, <1>1, <3>1
    <2>3. QED
      BY <1>9, <2>1, <2>2 DEF ReadTape
  <1>10. CASE RequestSense
    <2> DEFINE length == tool.expected - tool.information
               adjusted == [tool EXCEPT !.expected = length]
               back(t) == tool' = [t EXCEPT !.pc = "back"] /\ UNCHANGED <<file, faults>>
    <2>1. \/ \E result \in {"success", "error"} : Finish(result)
          \/ \E record \in {BadMarker, Filemark, InBuffer(StatusLength)} : Record(tool, record)
          \/ Record(adjusted, InBuffer(length))
          \/ back(Remembered(tool)) \/ back(adjusted)
      BY <1>1, <1>10 DEF RequestSense, Senses
    <2>2. ASSUME NEW t, DOMAIN t = Fields, t.unclear = tool.unclear, back(t)
          PROVE  tool'.unclear = tool.unclear
      BY <2>2 DEF Fields
    <2>3. DOMAIN adjusted = Fields /\ adjusted.unclear = tool.unclear
      BY <1>1 DEF Fields
    <2>4. DOMAIN Remembered(tool) = Fields /\ Remembered(tool).unclear = tool.unclear
      BY <1>1 DEF Fields, Remembered
    <2> HIDE DEF length, adjusted, back
    <2>5. QED
      BY <1>2, <1>5, <1>1, <2>1, <2>2, <2>3, <2>4
  <1>11. QED
    BY <1>6, <1>7, <1>8, <1>9, <1>10

\* The steps of a tape that is dumped
LEMMA StepDumped ==
    ASSUME Typed, TapeInv, [DumpNext]_vars, DumpingTape'
    PROVE  TapeDumped'
  <1>1. job' = job
    BY DEF DumpNext, ToolNext, Ended, vars, GetDeviceInfo, DumpRestore, StartDisk, NextChunk, Request, FailedRequest,
           EndChunk, EndDisk, Rewind, NextRead, ReadTape, ReadTimeout, RequestSense, SpaceBack, RestoreRecord,
           TerminationHandler
  <1>2. ~Disk /\ ~job.restore /\ tool'.result # "error" /\ tool'.pc \notin {"device", "open"} /\ ~tool'.unclear
    BY <1>1, SameJob DEF DumpingTape, Dumping
  <1>3. ToolTyped(tool) /\ TapeTyped
    BY <1>2 DEF Typed
  <1>4. CASE DumpRestore
    BY <1>4, OpenDumped
  <1>5. CASE GetDeviceInfo
    <2>1. Goto("open") \/ Finish("error")
      BY <1>5 DEF GetDeviceInfo
    <2>2. QED
      BY <1>2, <1>3, <2>1 DEF Goto, Finish, ToolTyped, Fields
  <1>6. CASE ReadTimeout
    <2>1. tool'.unclear
      BY <1>3, <1>6 DEF ReadTimeout, ToolTyped, Fields
    <2>2. QED
      BY <1>2, <2>1
  <1>7. CASE RestoreRecord
    BY <1>2, <1>3, <1>7 DEF RestoreRecord, At, TapeTyped
  <1>8. ~(StartDisk \/ NextChunk \/ Request \/ FailedRequest \/ EndChunk \/ EndDisk)
    BY <1>2, PhaseOfDisk DEF StartDisk, NextChunk, Request, FailedRequest, EndChunk, EndDisk, At
  <1>9. ASSUME tool.pc \notin {"device", "open"}, tool.result # "error", tool.unclear = FALSE
        PROVE  DumpingTape /\ TapeDumped
    BY <1>2, <1>9 DEF TapeInv, DumpingTape, Dumping
  <1>10. ASSUME UNCHANGED <<tool, buffer, tape, position, file>>, active' => active
         PROVE  TapeDumped'
    <2>1. DumpingTape /\ TapeDumped
      BY <1>2, <1>9, <1>10, TapeFacts
    <2>2. Current' = Current
      BY <1>10 DEF Current
    <2>3. QED
      BY <1>10, <2>1, <2>2 DEF TapeDumped, At, Successful, Dumped, Object, BadMarker, Filemark
  <1>11. CASE UNCHANGED vars \/ TerminationHandler \/ Ended
    BY <1>10, <1>11 DEF vars, TerminationHandler, Ended
  <1>12. CASE Rewind \/ NextRead \/ ReadTape \/ RequestSense \/ SpaceBack
    <2>1. tool.pc \notin {"device", "open"} /\ tool.result # "error"
      BY <1>12 DEF Rewind, NextRead, ReadTape, RequestSense, SpaceBack, At, Typed
    <2>2. tool'.unclear = tool.unclear
      BY <1>2, <1>12, UnclearKept
    <2>3. DumpingTape /\ TapeDumped
      BY <1>2, <1>9, <2>1, <2>2, TapeFacts
    <2>4. QED
      BY <1>12, <2>3, RewindDumped, NextReadDumped, ReadDumped, RequestSenseDumped, SpaceBackDumped
  <1>13. QED
    BY <1>4, <1>5, <1>6, <1>7, <1>8, <1>11, <1>12 DEF DumpNext, ToolNext

-----------------------------------------------------------------------------
(* Restored tapes                                                          *)

LEMMA FileFacts ==
    ASSUME Typed, ~Disk, job.restore
    PROVE  /\ file = job.tape /\ Len(file) \in Nat /\ DOMAIN file = 1 .. Len(file)
           /\ tape \in Seq(Objects) /\ Len(tape) \in Nat /\ ToolTyped(tool) /\ tool.done \in Int
           /\ tool.pc \in {"device", "open", "rewind", "restore", "end"}
           /\ tool.pc # "end" <=> tool.result = "none"
  <1>1. job.tape \in Seq([kind : RecordKinds, length : Nat, number : Int])
    BY TapeOfJob DEF Typed
  <1>2. file = job.tape /\ tool.pc \in {"device", "open", "rewind", "restore", "end"}
    BY DEF Typed, TapeTyped, TapeSteps
  <1>3. Len(file) \in Nat /\ DOMAIN file = 1 .. Len(file)
    BY <1>1, <1>2, LenProperties
  <1>4. QED
    BY <1>2, <1>3, TapeFacts DEF Typed

\* Numbers of the records that are restored
LEMMA KeptFinite ==
    ASSUME Typed, ~Disk, job.restore, NEW n \in Int
    PROVE  /\ IsFiniteSet(Kept(n)) /\ Cardinality(Kept(n)) \in Nat
           /\ IsFiniteSet(RestoredRecords) /\ Cardinality(RestoredRecords) \in Nat
           /\ Cardinality(Kept(n)) <= Cardinality(RestoredRecords)
  <1>1. IsFiniteSet(1 .. Len(file)) /\ DOMAIN file = 1 .. Len(file)
    BY FileFacts, FS_Interval
  <1>2. RestoredRecords \subseteq 1 .. Len(file)
    BY <1>1 DEF RestoredRecords
  <1>3. IsFiniteSet(RestoredRecords)
    BY <1>1, <1>2, FS_Subset
  <1>4. Kept(n) \subseteq RestoredRecords
    BY DEF Kept
  <1>5. IsFiniteSet(Kept(n)) /\ Cardinality(Kept(n)) <= Cardinality(RestoredRecords)
    BY <1>3, <1>4, FS_Subset
  <1>6. QED
    BY <1>3, <1>5, FS_CardinalityType

LEMMA RestoredInFile ==
    ASSUME Typed, ~Disk, job.restore, NEW i \in RestoredRecords
    PROVE  i \in Int /\ i \in 1 .. Len(file)
  BY FileFacts DEF RestoredRecords

LEMMA KeptOrder ==
    ASSUME Typed, ~Disk, job.restore, NEW n \in Int, NEW i \in RestoredRecords
    PROVE  /\ i <= n => Cardinality(Kept(i)) \in 1 .. Cardinality(Kept(n))
           /\ n < i => Cardinality(Kept(i)) > Cardinality(Kept(n))
  <1>1. i \in Int
    BY RestoredInFile
  <1>2. /\ IsFiniteSet(Kept(n)) /\ Cardinality(Kept(n)) \in Nat
        /\ IsFiniteSet(Kept(i)) /\ Cardinality(Kept(i)) \in Nat
    <2>1. IsFiniteSet(Kept(i)) /\ Cardinality(Kept(i)) \in Nat
      BY <1>1, KeptFinite
    <2>2. IsFiniteSet(Kept(n)) /\ Cardinality(Kept(n)) \in Nat
      BY KeptFinite
    <2>3. QED
      BY <2>1, <2>2
  <1>3. ASSUME i <= n
        PROVE  Cardinality(Kept(i)) \in 1 .. Cardinality(Kept(n))
    <2>1. ASSUME NEW j \in Kept(i)
          PROVE  j \in Kept(n)
      <3>1. j \in RestoredRecords /\ j <= i
        BY DEF Kept
      <3>2. j \in Int
        BY <3>1, RestoredInFile
      <3>3. j <= n
        BY <1>1, <1>3, <3>1, <3>2
      <3>4. QED
        BY <3>1, <3>3 DEF Kept
    <2>2. Cardinality(Kept(i)) <= Cardinality(Kept(n))
      BY <1>2, <2>1, FS_Subset
    <2>3. Kept(i) # {}
      BY <1>1 DEF Kept
    <2>4. Cardinality(Kept(i)) # 0
      BY <1>2, <2>3, FS_EmptySet
    <2>5. QED
      BY <1>2, <2>2, <2>4
  <1>4. ASSUME n < i
        PROVE  Cardinality(Kept(i)) > Cardinality(Kept(n))
    <2>1. i \notin Kept(n) /\ Kept(n) \cup {i} \subseteq Kept(i)
      <3>1. i \notin Kept(n)
        BY <1>1, <1>4 DEF Kept
      <3>2. i \in Kept(i)
        BY <1>1 DEF Kept
      <3>3. ASSUME NEW j \in Kept(n)
            PROVE  j \in Kept(i)
        <4>1. j \in RestoredRecords /\ j <= n
          BY DEF Kept
        <4>2. j \in Int
          BY <4>1, RestoredInFile
        <4>3. j <= i
          BY <1>1, <1>4, <4>1, <4>2
        <4>4. QED
          BY <4>1, <4>3 DEF Kept
      <3>4. QED
        BY <3>1, <3>2, <3>3
    <2>2. IsFiniteSet(Kept(n) \cup {i}) /\ Cardinality(Kept(n) \cup {i}) = Cardinality(Kept(n)) + 1
      BY <1>2, <2>1, FS_AddElement
    <2>3. Cardinality(Kept(n) \cup {i}) <= Cardinality(Kept(i))
      BY <1>2, <2>1, FS_Subset
    <2>4. QED
      BY <1>2, <2>2, <2>3
  <1>5. QED
    BY <1>3, <1>4

LEMMA KeptNone ==
    ASSUME Typed, ~Disk, job.restore
    PROVE  Kept(0) = {} /\ Cardinality(Kept(0)) = 0
  <1>1. Kept(0) = {}
    BY FileFacts DEF Kept, RestoredRecords
  <1>2. QED
    BY <1>1, FS_EmptySet

\* What is said about a record that is the next one
LEMMA KeptNext ==
    ASSUME Typed, ~Disk, job.restore, NEW n \in 0 .. Len(file), n + 1 <= Len(file),
           \A j \in 1 .. n + 1 : file[j].kind # "end"
    PROVE  IF file[n + 1].kind = "filemark" \/ file[n + 1].length > 0
           THEN /\ n + 1 \in RestoredRecords /\ Kept(n + 1) = Kept(n) \cup {n + 1}
                /\ Cardinality(Kept(n + 1)) = Cardinality(Kept(n)) + 1
           ELSE Kept(n + 1) = Kept(n)
  <1>1. Len(file) \in Nat /\ n \in Nat /\ DOMAIN file = 1 .. Len(file) /\ n + 1 \in DOMAIN file
    BY FileFacts
  <1>2. CASE file[n + 1].kind = "filemark" \/ file[n + 1].length > 0
    <2>1. n + 1 \in RestoredRecords
      BY <1>1, <1>2 DEF RestoredRecords
    <2>2. Kept(n + 1) = Kept(n) \cup {n + 1}
      <3>1. ASSUME NEW j \in RestoredRecords
            PROVE  j <= n + 1 <=> (j <= n \/ j = n + 1)
        <4>1. j \in Int
          BY RestoredInFile
        <4>2. QED
          BY <1>1, <4>1
      <3>2. QED
        BY <2>1, <3>1 DEF Kept
    <2>3. n + 1 \notin Kept(n)
      BY <1>1 DEF Kept
    <2>4. Cardinality(Kept(n + 1)) = Cardinality(Kept(n)) + 1
      BY <1>1, <2>2, <2>3, KeptFinite, FS_AddElement
    <2>5. QED
      BY <1>2, <2>1, <2>2, <2>4
  <1>3. CASE ~(file[n + 1].kind = "filemark" \/ file[n + 1].length > 0)
    <2>1. n + 1 \notin RestoredRecords
      BY <1>3 DEF RestoredRecords
    <2>2. Kept(n + 1) = Kept(n)
      <3>1. ASSUME NEW j \in RestoredRecords
            PROVE  j <= n + 1 <=> j <= n
        <4>1. j \in Int /\ j # n + 1
          BY <2>1, RestoredInFile
        <4>2. QED
          BY <1>1, <4>1
      <3>2. QED
        BY <3>1 DEF Kept
    <2>3. QED
      BY <1>3, <2>2
  <1>4. QED
    BY <1>2, <1>3

LEMMA InitWritten ==
    ASSUME DumpInit, ~Disk, job.restore
    PROVE  TapeWritten
  <1>1. Typed
    BY InitTyped
  <1>2. tape = <<>> /\ tool.done = 0 /\ position = 0 /\ tool.result = "none" /\ Len(tape) = 0
    BY EmptySeq DEF DumpInit
  <1>3. Kept(0) = {} /\ Cardinality(Kept(0)) = 0 /\ Len(file) \in Nat
    BY <1>1, KeptNone, FileFacts
  <1>4. QED
    BY <1>2, <1>3 DEF TapeWritten

\* Steps that restore nothing
LEMMA KeepWritten ==
    ASSUME Typed, ~Disk, job.restore, TapeWritten, UNCHANGED <<job, file, tape>>, position' = position,
           tool'.done = tool.done, tool'.result = "success" => RestoredRecords = Kept(tool.done),
           At("restore") \/ At("end") => tool'.pc \in {"restore", "end"}
    PROVE  TapeWritten'
  <1>1. RestoredRecords' = RestoredRecords /\ \A n : Kept(n)' = Kept(n)
    BY DEF RestoredRecords, Kept
  <1>2. \A i : RestoredObject(file[i])' = RestoredObject(file[i])
    BY DEF RestoredObject
  <1>3. QED
    BY <1>1, <1>2 DEF TapeWritten, At, Kept, RestoredRecords, RestoredObject, Filemark, Object, Unknown

\* The next record has been dealt with.
LEMMA NextWritten ==
    ASSUME UNCHANGED <<job, file>>, NEW m \in 0 .. Len(file), tool'.done = m, tool'.pc = "restore",
           tool'.result = "none", position' = Len(tape'), \A j \in 1 .. m : file[j].kind # "end",
           Len(tape') = Cardinality(Kept(m)),
           \A i \in Kept(m) : tape'[Cardinality(Kept(i))] = RestoredObject(file[i])
    PROVE  TapeWritten'
  <1>1. RestoredRecords' = RestoredRecords
    BY DEF RestoredRecords
  <1>2. Kept(tool.done)' = Kept(m) /\ \A i : Kept(i)' = Kept(i)
    BY <1>1 DEF Kept
  <1>3. \A i \in Kept(m) : RestoredObject(file[i])' = RestoredObject(file[i])
    BY DEF RestoredObject
  <1>4. ASSUME NEW i \in Kept(tool.done)'
        PROVE  tape'[Cardinality(Kept(i))'] = RestoredObject(file[i])'
    BY <1>2, <1>3
  <1>5. (\A i \in Kept(tool.done) : tape[Cardinality(Kept(i))] = RestoredObject(file[i]))'
    BY <1>4
  <1>6. (Len(tape) = Cardinality(Kept(tool.done)))'
    BY <1>2
  <1>7. QED
    BY <1>5, <1>6 DEF TapeWritten, At

\* A record is written to the end of the tape, or the tool fails.
LEMMA WriteWritten ==
    ASSUME Typed, ~Disk, job.restore, TapeWritten, At("restore"), UNCHANGED <<job, file>>,
           NEW object \in Objects, Write(object), tool.done + 1 \in RestoredRecords,
           object = RestoredObject(file[tool.done + 1])
    PROVE  TapeWritten'
  <1>1. /\ ToolTyped(tool) /\ tape \in Seq(Objects) /\ Len(tape) \in Nat /\ position = Len(tape)
        /\ tool.done \in 0 .. Len(file) /\ Len(file) \in Nat /\ tool.result = "none"
    BY FileFacts DEF TapeWritten, At
  <1>2. CASE Finish("error") /\ UNCHANGED <<tape, position>>
    <2>1. tool'.pc = "end" /\ tool'.result = "error" /\ tool'.done = tool.done
      BY <1>1, <1>2, FinishTyped
    <2>2. QED
      BY <1>2, <2>1, KeepWritten
  <1>3. CASE /\ tape' = Append(SubSeq(tape, 1, position), object)
             /\ position' = position + 1
             /\ tool' = [tool EXCEPT !.done = @ + 1]
    <2> DEFINE n == tool.done
    <2>1. tape' = Append(tape, object)
      BY <1>1, <1>3, SubSeqFull
    <2>2. /\ Len(tape') = Len(tape) + 1 /\ tape'[Len(tape) + 1] = object
          /\ \A i \in 1 .. Len(tape) : tape'[i] = tape[i]
      BY <1>1, <2>1, AppendProperties
    <2>3. tool'.done = n + 1 /\ tool'.pc = "restore" /\ tool'.result = "none"
      <3>1. tool.pc = "restore" /\ n \in Int
        BY <1>1 DEF At
      <3>2. QED
        BY <1>1, <1>3, <3>1 DEF ToolTyped, Fields
    <2>4. n + 1 \in 1 .. Len(file) /\ n \in Int
          /\ (file[n + 1].kind = "filemark" \/ file[n + 1].length > 0)
          /\ \A j \in 1 .. n + 1 : file[j].kind # "end"
      BY <1>1, FileFacts DEF RestoredRecords
    <2>5. /\ Kept(n + 1) = Kept(n) \cup {n + 1} /\ Cardinality(Kept(n + 1)) = Cardinality(Kept(n)) + 1
          /\ Len(tape) = Cardinality(Kept(n))
      <3>1. n \in 0 .. Len(file) /\ n + 1 <= Len(file)
        BY <1>1, <2>4
      <3>2. QED
        BY <2>4, <3>1, KeptNext DEF TapeWritten
    <2>6. ASSUME NEW i \in Kept(n + 1)
          PROVE  tape'[Cardinality(Kept(i))] = RestoredObject(file[i])
      <3>1. CASE i = n + 1
        BY <2>2, <2>5, <3>1
      <3>2. CASE i # n + 1
        <4>1. i \in Kept(n) /\ i \in RestoredRecords /\ i <= n
          BY <2>5, <3>2 DEF Kept
        <4>2. Cardinality(Kept(i)) \in 1 .. Len(tape)
          BY <2>4, <2>5, <4>1, KeptOrder
        <4>3. tape[Cardinality(Kept(i))] = RestoredObject(file[i])
          BY <4>1 DEF TapeWritten
        <4>4. QED
          BY <2>2, <4>2, <4>3
      <3>3. QED
        BY <3>1, <3>2
    <2>7. position' = Len(tape') /\ tool'.done \in 0 .. Len(file)
      BY <1>1, <1>3, <2>2, <2>3, <2>4
    <2> HIDE DEF n
    <2>8. /\ Len(tape') = Cardinality(Kept(n + 1))
          /\ \A i \in Kept(n + 1) : tape'[Cardinality(Kept(i))] = RestoredObject(file[i])
      BY <2>2, <2>5, <2>6
    <2>9. QED
      BY <2>3, <2>4, <2>7, <2>8, NextWritten
  <1>4. QED
    BY <1>2, <1>3 DEF Write

LEMMA RestoreRecordWritten ==
    ASSUME Typed, ~Disk, job.restore, TapeWritten, RestoreRecord
    PROVE  TapeWritten'
  <1>1. /\ At("restore") /\ UNCHANGED <<job, file>> /\ ToolTyped(tool) /\ tool.result = "none"
        /\ tool.done \in 0 .. Len(file) /\ Len(file) \in Nat /\ DOMAIN file = 1 .. Len(file)
        /\ \A j \in 1 .. tool.done : file[j].kind # "end"
    BY FileFacts DEF RestoreRecord, TapeWritten, At
  <1>2. CASE tool.done = Len(file) \/ file[tool.done + 1].kind = "end"
    <2>1. Finish("success") /\ UNCHANGED <<tape, position>>
      BY <1>2 DEF RestoreRecord
    <2>2. tool'.pc = "end" /\ tool'.done = tool.done
      BY <1>1, <2>1, FinishTyped
    <2>3. ASSUME NEW i \in RestoredRecords
          PROVE  i <= tool.done
      <3>1. i \in 1 .. Len(file) /\ \A j \in 1 .. i : file[j].kind # "end"
        BY <1>1 DEF RestoredRecords
      <3>2. QED
        BY <1>1, <1>2, <3>1
    <2>4. RestoredRecords = Kept(tool.done)
      BY <2>3 DEF Kept
    <2>5. QED
      BY <1>1, <2>1, <2>2, <2>4, KeepWritten
  <1>3. CASE ~(tool.done = Len(file) \/ file[tool.done + 1].kind = "end")
    <2> DEFINE n == tool.done
               r == file[n + 1]
    <2>1. n + 1 \in 1 .. Len(file) /\ n \in 0 .. Len(file) /\ n + 1 <= Len(file)
      BY <1>1, <1>3
    <2>2. \A j \in 1 .. n + 1 : file[j].kind # "end"
      <3>1. \A j \in 1 .. n + 1 : j = n + 1 \/ j \in 1 .. n
        BY <2>1
      <3>2. QED
        BY <1>1, <1>3, <3>1
    <2>3. /\ r.kind \in RecordKinds \ {"end"} /\ r.length \in Nat /\ r.number \in Int
          /\ r.kind = "marker" => r.length = 0
          /\ Restored(r) \in Objects
      BY <1>3, <2>1, RecordOfJob
    <2>4. IF r.kind = "filemark" \/ r.length > 0 THEN n + 1 \in RestoredRecords ELSE Kept(n + 1) = Kept(n)
      BY <2>1, <2>2, KeptNext
    <2>5. CASE r.kind = "filemark"
      <3>1. Write(Filemark)
        BY <1>3, <2>5 DEF RestoreRecord
      <3>2. Filemark \in Objects
        BY DEF Filemark, Object, Objects, ObjectKinds
      <3>3. Filemark = RestoredObject(r)
        BY <2>5 DEF RestoredObject
      <3>4. QED
        BY <1>1, <2>4, <2>5, <3>1, <3>2, <3>3, WriteWritten
    <2>6. CASE r.kind # "filemark" /\ HasData(r)
      <3>1. Write(Restored(r))
        BY <1>3, <2>6 DEF RestoreRecord
      <3>2. Restored(r) = RestoredObject(r)
        BY <2>6 DEF RestoredObject, Restored
      <3>3. r.length > 0
        BY <2>6 DEF HasData
      <3>4. QED
        BY <1>1, <2>3, <2>4, <3>1, <3>2, <3>3, WriteWritten
    <2>7. CASE r.kind # "filemark" /\ ~HasData(r)
      <3>1. tool' = [tool EXCEPT !.done = @ + 1] /\ UNCHANGED <<tape, position>>
        BY <1>3, <2>7 DEF RestoreRecord
      <3>2. tool'.done = n + 1 /\ tool'.pc = "restore" /\ tool'.result = "none"
        <4>1. n \in Int /\ tool.pc = "restore"
          BY <1>1 DEF At
        <4>2. QED
          BY <1>1, <3>1, <4>1 DEF ToolTyped, Fields
      <3>3. ~(r.length > 0)
        BY <2>3, <2>7 DEF HasData, RecordKinds
      <3>4. Kept(n + 1) = Kept(n)
        BY <2>4, <2>7, <3>3
      <3>5. /\ position = Len(tape) /\ Len(tape) = Cardinality(Kept(n + 1))
            /\ \A i \in Kept(n + 1) : tape[Cardinality(Kept(i))] = RestoredObject(file[i])
        BY <3>4 DEF TapeWritten
      <3>6. n + 1 \in 0 .. Len(file)
        BY <1>1, <2>1
      <3> HIDE DEF n
      <3>7. position' = Len(tape') /\ tape' = tape
        BY <3>1, <3>5
      <3>8. QED
        BY <1>1, <2>2, <3>2, <3>5, <3>6, <3>7, NextWritten
    <2>8. QED
      BY <2>5, <2>6, <2>7
  <1>4. QED
    BY <1>2, <1>3

\* The steps of a tape that is restored
LEMMA StepWritten ==
    ASSUME Typed, ~Disk, job.restore, TapeWritten, [DumpNext]_vars
    PROVE  TapeWritten'
  <1>1. ToolTyped(tool) /\ tool.pc \in {"device", "open", "rewind", "restore", "end"}
        /\ (tool.pc # "end" <=> tool.result = "none")
    BY FileFacts
  <1>2. ASSUME UNCHANGED <<job, tool, tape, position, file>>
        PROVE  TapeWritten'
    BY <1>2, KeepWritten DEF At, TapeWritten
  <1>3. CASE UNCHANGED vars \/ TerminationHandler \/ Ended
    BY <1>2, <1>3 DEF vars, TerminationHandler, Ended
  <1>4. ASSUME UNCHANGED <<job, file, tape, position>>, Finish("error")
        PROVE  TapeWritten'
    <2>1. tool'.pc = "end" /\ tool'.result = "error" /\ tool'.done = tool.done
      BY <1>1, <1>4, FinishTyped
    <2>2. QED
      BY <1>4, <2>1, KeepWritten
  <1>5. ASSUME NEW pc \in DiskSteps \cup TapeSteps, Goto(pc), tool.pc \notin {"restore", "end"}
        PROVE  tool'.done = tool.done /\ tool'.result = "none" /\ tool.result = "none" /\ ~At("restore") /\ ~At("end")
    BY <1>1, <1>5 DEF Goto, ToolTyped, Fields, At
  <1>6. CASE GetDeviceInfo
    <2>1. CASE Goto("open")
      BY <1>5, <1>6, <2>1, KeepWritten DEF GetDeviceInfo, At, TapeSteps
    <2>2. CASE Finish("error")
      BY <1>4, <1>6, <2>2 DEF GetDeviceInfo
    <2>3. QED
      BY <1>6, <2>1, <2>2 DEF GetDeviceInfo
  <1>7. CASE DumpRestore
    <2>1. file' = file
      BY <1>7 DEF DumpRestore, Opened
    <2>2. CASE Goto("rewind")
      BY <1>5, <1>7, <2>1, <2>2, KeepWritten DEF DumpRestore, At, TapeSteps
    <2>3. CASE Finish("error")
      BY <1>4, <1>7, <2>1, <2>3 DEF DumpRestore
    <2>4. QED
      BY <1>7, <2>2, <2>3 DEF DumpRestore, Disk
  <1>8. CASE Rewind
    <2>1. tape = <<>> /\ position = Len(tape) /\ Len(tape) = 0
      BY <1>8, EmptySeq DEF Rewind, At, TapeWritten
    <2>2. CASE position' = 0 /\ Goto("restore")
      BY <1>5, <1>8, <2>1, <2>2, KeepWritten DEF Rewind, At, TapeSteps
    <2>3. CASE Finish("error") /\ UNCHANGED position
      BY <1>4, <1>8, <2>3 DEF Rewind
    <2>4. QED
      BY <1>8, <2>2, <2>3 DEF Rewind
  <1>9. CASE RestoreRecord
    BY <1>9, RestoreRecordWritten
  <1>10. ~(\/ StartDisk \/ NextChunk \/ Request \/ FailedRequest \/ EndChunk \/ EndDisk
          \/ NextRead \/ ReadTape \/ ReadTimeout \/ RequestSense \/ SpaceBack)
    BY <1>1 DEF StartDisk, NextChunk, Request, FailedRequest, EndChunk, EndDisk, NextRead, ReadTape, ReadTimeout,
                RequestSense, SpaceBack, At
  <1>11. QED
    BY <1>3, <1>6, <1>7, <1>8, <1>9, <1>10 DEF DumpNext, ToolNext

-----------------------------------------------------------------------------
(* Theorems                                                                *)

LEMMA InitInv ==
    ASSUME DumpInit
    PROVE  DumpInv
  <1>1. Typed /\ DiskInv
    BY InitTyped, InitDisk
  <1>2. ~Disk /\ job.restore => TapeWritten
    BY InitWritten
  <1>3. ~(Dumping)
    BY DEF DumpInit, Dumping
  <1>4. QED
    BY <1>1, <1>2, <1>3 DEF DumpInv, TapeInv

LEMMA StepInv ==
    ASSUME DumpInv, [DumpNext]_vars
    PROVE  DumpInv'
  <1>1. Typed /\ DiskInv /\ TapeInv
    BY DEF DumpInv
  <1>2. job' = job
    BY DEF DumpNext, ToolNext, Ended, vars, GetDeviceInfo, DumpRestore, StartDisk, NextChunk, Request, FailedRequest,
           EndChunk, EndDisk, Rewind, NextRead, ReadTape, ReadTimeout, RequestSense, SpaceBack, RestoreRecord,
           TerminationHandler
  <1>3. Typed'
    <2>1. RestoreRecord => tool.done \in 0 .. Len(file)
      <3> SUFFICES ASSUME RestoreRecord
                   PROVE  tool.done \in 0 .. Len(file)
        OBVIOUS
      <3>1. ~Disk /\ job.restore
        BY <1>1, PhaseOfDisk DEF RestoreRecord, At, Typed, TapeTyped
      <3>2. QED
        BY <1>1, <3>1 DEF TapeInv, TapeWritten
    <2>2. QED
      BY <1>1, <2>1, StepTyped
  <1>4. DiskInv'
    BY <1>1, StepDisk
  <1>5. ASSUME (~Disk)', job'.restore
        PROVE  TapeWritten'
    <2>1. ~Disk /\ job.restore
      BY <1>2, <1>5, SameJob
    <2>2. QED
      BY <1>1, <2>1, StepWritten DEF TapeInv
  <1>6. ASSUME DumpingTape'
        PROVE  TapeDumped'
    BY <1>1, <1>6, StepDumped
  <1>7. TapeInv'
    BY <1>5, <1>6 DEF TapeInv, DumpingTape
  <1>8. QED
    BY <1>3, <1>4, <1>7 DEF DumpInv

\* The types, how far a copy is, and what has been copied so far are what DumpInv says, for all
\* disks, tapes, options and failures.
THEOREM DumpInvariant == DumpSpec => []DumpInv
  <1>1. DumpInit => DumpInv
    BY InitInv
  <1>2. DumpInv /\ [DumpNext]_vars => DumpInv'
    BY StepInv
  <1>3. QED
    BY <1>1, <1>2, PTL DEF DumpSpec

LEMMA InvImageOfDisk ==
    ASSUME DumpInv
    PROVE  ImageOfDisk
  <1> SUFFICES ASSUME Disk, Dumping, Sound, InRange
               PROVE  /\ file = Bytes(disk, FirstByte, Len(file))
                      /\ Len(file) <= Count * SectorSize
                      /\ Successful => Len(file) = Count * SectorSize
    BY DEF ImageOfDisk
  <1>1. Typed /\ Progress /\ Copied
    BY DEF DumpInv, DiskInv
  <1>2. /\ ~job.restore /\ disk = OnDisk /\ file \in Seq(Int) /\ Len(file) = tool.done
        /\ \A i \in 1 .. tool.done : file[i] = OnDisk[FirstByte + i]
    BY <1>1 DEF Typed, DiskTyped, Dumping, Copied
  <1>3. Size = Count * SectorSize /\ Size \in Nat /\ tool.done \in 0 .. Size
    BY <1>1, <1>2, RangeOnDisk DEF Copied
  <1> DEFINE n == Len(file)
             bytes == Bytes(disk, FirstByte, n)
  <1>4. n \in Nat /\ DOMAIN file = 1 .. n /\ n <= Size
    BY <1>2, <1>3, LenProperties
  <1>5. ASSUME NEW i \in 1 .. n
        PROVE  file[i] = bytes[i]
    <2>1. FirstByte + i \in 1 .. Sectors * SectorSize
      <3>1. i \in Int /\ i > 0 /\ i <= Size
        BY <1>3, <1>4
      <3>2. QED
        BY <1>1, <3>1, InsideDisk
    <2>2. FirstByte + i \in DOMAIN disk
      BY <1>2, <2>1 DEF OnDisk
    <2>3. bytes[i] = disk[FirstByte + i]
      BY <2>2, BytesAt
    <2>4. QED
      BY <1>2, <2>3
  <1>6. DOMAIN bytes = 1 .. n /\ bytes = [i \in 1 .. n |-> bytes[i]]
    BY DEF Bytes
  <1>7. file = [i \in 1 .. n |-> file[i]]
    BY <1>2, <1>4, LenProperties
  <1> HIDE DEF bytes
  <1>8. file = bytes
    BY <1>5, <1>6, <1>7
  <1>9. Successful => tool.done = Size
    BY <1>1 DEF Progress
  <1>10. QED
    BY <1>2, <1>3, <1>4, <1>8, <1>9 DEF bytes

\* A dump of a disk is the beginning of the selected range at any time, and all of it in the end.
THEOREM ImageOfDiskTheorem == DumpSpec => []ImageOfDisk
  BY DumpInvariant, InvImageOfDisk, PTL

LEMMA InvDiskRestored ==
    ASSUME DumpInv
    PROVE  DiskRestored
  <1> SUFFICES ASSUME Disk, Sound, InRange
               PROVE  /\ \A i \in DOMAIN disk : disk[i] # OnDisk[i] =>
                             job.restore /\ i > FirstByte /\ i <= FirstByte + SectorSize * ChunkSectors(Extent)
                      /\ job.restore /\ Successful => \A i \in 1 .. Extent : disk[FirstByte + i] = file[i]
    BY DEF DiskRestored
  <1>1. Typed /\ Progress /\ Copied /\ Untouched
    BY DEF DumpInv, DiskInv
  <1>2. job.restore => Size = Extent
    BY <1>1, RangeOnDisk
  <1>3. QED
    BY <1>1, <1>2 DEF Progress, Copied, Untouched

LEMMA InvTapeRestored ==
    ASSUME DumpInv
    PROVE  TapeRestored
  <1> SUFFICES ASSUME ~Disk, job.restore
               PROVE  /\ Len(tape) <= Cardinality(RestoredRecords)
                      /\ \A i \in RestoredRecords :
                             Cardinality(Kept(i)) <= Len(tape) =>
                                 tape[Cardinality(Kept(i))] = RestoredObject(file[i])
                      /\ tool.result = "success" => Len(tape) = Cardinality(RestoredRecords)
    BY DEF TapeRestored, Kept
  <1>1. Typed /\ TapeWritten /\ tool.done \in Int
    BY FileFacts DEF DumpInv, TapeInv
  <1>2. Len(tape) = Cardinality(Kept(tool.done))
    BY <1>1 DEF TapeWritten
  <1>3. Len(tape) <= Cardinality(RestoredRecords)
    BY <1>1, <1>2, KeptFinite
  <1>4. ASSUME NEW i \in RestoredRecords, Cardinality(Kept(i)) <= Len(tape)
        PROVE  tape[Cardinality(Kept(i))] = RestoredObject(file[i])
    <2>1. i \in Int /\ Cardinality(Kept(i)) \in Nat /\ Cardinality(Kept(tool.done)) \in Nat
      <3>1. i \in Int
        BY <1>1, RestoredInFile
      <3>2. Cardinality(Kept(i)) \in Nat
        BY <1>1, <3>1, KeptFinite
      <3>3. Cardinality(Kept(tool.done)) \in Nat
        BY <1>1, KeptFinite
      <3>4. QED
        BY <3>1, <3>2, <3>3
    <2>2. ~(tool.done < i)
      BY <1>1, <1>2, <1>4, <2>1, KeptOrder
    <2>3. i \in Kept(tool.done)
      BY <1>1, <2>1, <2>2 DEF Kept
    <2>4. QED
      BY <1>1, <2>3 DEF TapeWritten
  <1>5. tool.result = "success" => Len(tape) = Cardinality(RestoredRecords)
    BY <1>1, <1>2 DEF TapeWritten
  <1>6. QED
    BY <1>3, <1>4, <1>5

\* Nothing outside of the range is written to a disk that is restored, which holds the image in
\* the end, and a tape holds the objects of the image that have been restored, in their order.
THEOREM MediumRestoredTheorem == DumpSpec => []MediumRestored
  <1>1. DumpInv => MediumRestored
    BY InvDiskRestored, InvTapeRestored DEF MediumRestored
  <1>2. QED
    BY <1>1, DumpInvariant, PTL

LEMMA InvImageOfTape ==
    ASSUME DumpInv
    PROVE  ImageOfTape
  <1> SUFFICES ASSUME ~Disk, Dumping, ~tool.unclear
               PROVE  /\ IsPrefix(file, [i \in DOMAIN tape |-> Dumped(tape[i])])
                      /\ Successful => Len(file) = Len(tape)
    BY DEF ImageOfTape
  <1>1. Typed /\ TapeDumped /\ ~job.restore
    BY DEF DumpInv, TapeInv, Dumping
  <1>2. /\ tape \in Seq(Objects) /\ Len(tape) \in Nat /\ DOMAIN tape = 1 .. Len(tape)
        /\ file \in Seq(Records) /\ Len(file) \in Nat
    BY <1>1, TapeFacts
  <1>3. /\ Len(file) <= Len(tape) /\ \A i \in 1 .. Len(file) : file[i] = Dumped(tape[i])
        /\ Successful => Len(file) = Len(tape)
    BY <1>1 DEF TapeDumped
  <1> DEFINE t == [i \in DOMAIN tape |-> Dumped(tape[i])]
  <1>4. ASSUME NEW i \in 1 .. Len(tape)
        PROVE  Dumped(tape[i]) \in Records
    <2>1. tape[i].kind \in ObjectKinds /\ tape[i].length \in Nat /\ tape[i].number \in Int
      BY <1>1, ObjectTyped
    <2>2. QED
      BY <2>1 DEF Dumped, BadMarker, Filemark, Object, Records, ObjectKinds
  <1>5. t \in Seq(Records) /\ Len(t) = Len(tape)
    <2>1. t \in [1 .. Len(tape) -> Records]
      BY <1>2, <1>4
    <2> HIDE DEF t
    <2>2. QED
      BY <1>2, <2>1, SeqDef
  <1>6. \A i \in 1 .. Len(file) : t[i] = file[i]
    BY <1>2, <1>3
  <1> HIDE DEF t
  <1>7. /\ SubSeq(t, 1, Len(file)) \in Seq(Records) /\ Len(SubSeq(t, 1, Len(file))) = Len(file)
        /\ \A i \in 1 .. Len(file) : SubSeq(t, 1, Len(file))[i] = file[i]
    <2> DEFINE n == Len(file)
    <2>1. \A i \in 1 .. n : t[i] \in Records
      BY <1>2, <1>6, ElementOfSeq
    <2>2. n \in Nat
      BY <1>2
    <2> HIDE DEF n
    <2>3. /\ SubSeq(t, 1, n) \in Seq(Records) /\ Len(SubSeq(t, 1, n)) = IF 1 <= n THEN n - 1 + 1 ELSE 0
          /\ \A i \in 1 .. n - 1 + 1 : SubSeq(t, 1, n)[i] = t[1 + i - 1]
      BY <2>1, <2>2, SubSeqProperties
    <2>4. \A i \in 1 .. n : SubSeq(t, 1, n)[i] = t[i]
      BY <2>2, <2>3
    <2>5. Len(SubSeq(t, 1, n)) = n
      BY <2>2, <2>3
    <2>6. QED
      BY <1>6, <2>3, <2>4, <2>5 DEF n
  <1>8. SubSeq(t, 1, Len(file)) = file /\ SubSeq(file, 1, Len(file)) = file
    <2>1. SubSeq(t, 1, Len(file)) = file
      BY <1>2, <1>7, SeqEqual
    <2>2. QED
      BY <1>2, <2>1, SubSeqFull
  <1>9. IsPrefix(file, t)
    BY <1>3, <1>5, <1>8 DEF IsPrefix
  <1>10. QED
    BY <1>3, <1>9 DEF t

\* A dump of a tape has one record for each object so far, with the data of all blocks that can be
\* read at one of two attempts, as long as the drive has answered to each READ.
THEOREM ImageOfTapeTheorem == DumpSpec => []ImageOfTape
  BY DumpInvariant, InvImageOfTape, PTL
=============================================================================
