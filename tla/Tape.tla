-------------------------------- MODULE Tape --------------------------------
(***************************************************************************)
(* The tape drive (devices/tape.cpp) and its image files in SIMH format    *)
(* (shared/simh_util.cpp): blocks are stored between a leading and a       *)
(* trailing length, filemarks and markers are a word of meta data. The     *)
(* file is a sequence of bytes, so that a drive whose position is wrong    *)
(* interprets whatever it finds. A word of meta data has two bytes here    *)
(* instead of four, a value and a class, and block sizes are multiples of  *)
(* two instead of four. In tar-compatibility mode there are no meta data.  *)
(*                                                                         *)
(* Data are transferred in chunks, and a transfer may end after each of    *)
(* them: the bus may be reset. Reading and writing the file do not fail,   *)
(* except at its end. Medium changes, write protection and refused         *)
(* commands, which change nothing here, are left out.                      *)
(***************************************************************************)
EXTENDS Integers, Sequences, FiniteSets

CONSTANTS
    Capacity,    \* size of the disk the image file is stored on
    BlockSize,   \* the configured block size
    Files,       \* new image files: their size, the maximum size with "append" or 0, whether tar
    Lengths,     \* lengths of blocks that initiators ask for in variable mode
    Counts,      \* numbers of blocks, filemarks and objects that they ask for
    Data,        \* bytes of blocks
    MaxLocation  \* bound on the object location, which may drift

ASSUME TapeAssumption ==
    /\ Capacity \in Nat /\ BlockSize \in Nat \ {0} /\ BlockSize % 2 = 0
    /\ \A s \in Files : s[3] \in BOOLEAN /\ s[1] \in 0 .. Capacity /\ s[2] \in {0} \cup BlockSize .. Capacity
    /\ Lengths \subseteq Nat /\ Counts \subseteq Nat /\ Data \subseteq 0 .. 15
    /\ MaxLocation \in Nat

VARIABLES
    file,      \* the bytes of the image file
    size,      \* its size
    fileSize,  \* file_size: the size when it was opened
    maxSize,   \* max_file_size
    tar,       \* tar_file
    drive,     \* the state of the drive
    transfer,  \* the transfer of the controller
    objects,   \* history: the blocks and filemarks on the tape, as far as they are known
    torn,      \* history: what follows these objects is not an end-of-data object
    lost,      \* history: the drive has lost its position, see below
    uncounted, \* history: filemarks have been written since the last rewind
    received   \* history: the last part of the file that was read

vars == <<file, size, fileSize, maxSize, tar, drive, transfer, objects, torn, lost, uncounted, received>>

-----------------------------------------------------------------------------
(* Meta data                                                               *)

META_DATA_SIZE == 2

\* The classes, and the values of markers
Good == 0
PrivateMarker == 7
Bad == 8
ReservedMarker == 15
EndOfDataMagic == 3
EraseGap == 14
EndOfMedium == 15

MetaData(cls, value) == [cls |-> cls, value |-> value]

Nothing == MetaData(Good, 0)

Pad(n) == n + (n % 2)

IsRecord(m) ==
    IF m.cls \in {Good, Bad} THEN m.value # 0 ELSE m.cls \notin {PrivateMarker, ReservedMarker}

IsObject(m) == IsRecord(m) \/ m.cls \in {Good, Bad}

\* ReadMetaData(): behind the end of the file there is the end of the medium.
At(p) ==
    IF p + META_DATA_SIZE <= size THEN MetaData(file[p + 1], file[p])
    ELSE MetaData(ReservedMarker, EndOfMedium)

\* Mutant: padding is forgotten.
RecordTailMutant(m) == IF IsRecord(m) THEN m.value + META_DATA_SIZE ELSE 0

\* The number of bytes of a record behind its leading length
RecordTail(m) == IF IsRecord(m) THEN Pad(m.value) + META_DATA_SIZE ELSE 0

\* UpdateObjectLocation()
Counted(m) == IF IsObject(m) THEN 1 ELSE 0

Found(what, p, l, m) == [what |-> what, position |-> p, location |-> l, meta |-> m]

\* What a single word says to ReadSimhMetaData(); everything else is skipped.
Meaning(m) ==
    IF m.cls \in {Good, Bad} THEN "object"
    ELSE IF m = MetaData(PrivateMarker, EndOfDataMagic) THEN "end-of-data"
    ELSE IF m = MetaData(ReservedMarker, EndOfMedium) THEN "end-of-medium" ELSE "skip"

\* ReadSimhMetaData() in forward direction. Objects of unknown classes are skipped.
NextObject ==
    LET next[x \in Int \X Int] ==
            LET p == x[1]  m == At(p)  n == x[2] + Counted(m)
            IN  IF p < 0 THEN Found("error", p, x[2], Nothing)
                ELSE IF Meaning(m) = "skip" THEN next[<<p + META_DATA_SIZE + RecordTail(m), n>>]
                ELSE Found(Meaning(m), p + META_DATA_SIZE, n, m)
    IN  next

\* The same in reverse direction: the position is before the object that is found.
PreviousObject ==
    LET previous[x \in Int \X Int] ==
            LET q == x[1] - META_DATA_SIZE  m == At(q)  n == x[2] - Counted(m)
            IN  IF q < 0 THEN Found("begin-of-medium", 0, 0, Nothing)
                ELSE IF Meaning(m) = "skip" THEN previous[<<q - RecordTail(m), n>>]
                ELSE Found(Meaning(m), q - RecordTail(m), n, m)
    IN  previous

Kind(r) ==
    IF r.what # "object" THEN r.what
    ELSE IF r.meta = MetaData(Good, 0) THEN "filemark" ELSE "block"

\* FindNextObject(), forwards. When anything but the object is found it raises an
\* exception.
FindForward(d, type, count, read) ==
    LET find[x \in Int \X Int \X Int] ==
            LET r == NextObject[<<x[1], x[2]>>]
                n == x[3]
                e == r.position + RecordTail(r.meta)
            IN  IF r.what = "object" /\ read /\ r.meta = MetaData(Bad, 0) THEN [r EXCEPT !.what = "found"]
                ELSE IF Kind(r) = "filemark" /\ type = "block" THEN [r EXCEPT !.what = "filemark"]
                ELSE IF r.what = "object" /\ Kind(r) # type THEN find[<<e, r.location, n>>]
                ELSE IF r.what = "object" /\ n > 1 THEN find[<<e, r.location, n - 1>>]
                ELSE IF r.what = "object" THEN Found("found", e, r.location, r.meta)
                ELSE IF r.what # "end-of-data" THEN r
                ELSE IF type = "end-of-data" THEN [r EXCEPT !.what = "found"]
                ELSE [r EXCEPT !.position = @ - META_DATA_SIZE]
    IN  find[<<d.position, d.location, count>>]

\* Backwards
FindBackward(d, type, count) ==
    LET find[x \in Int \X Int \X Int] ==
            LET r == PreviousObject[<<x[1], x[2]>>]
                n == x[3]
            IN  IF Kind(r) = "filemark" /\ type = "block" THEN [r EXCEPT !.what = "filemark"]
                ELSE IF r.what = "object" /\ Kind(r) # type THEN find[<<r.position, r.location, n>>]
                ELSE IF r.what = "object" /\ n > 1 THEN find[<<r.position, r.location, n - 1>>]
                ELSE IF r.what = "object" THEN [r EXCEPT !.what = "found"]
                ELSE IF r.what = "end-of-data" THEN [r EXCEPT !.position = @ - META_DATA_SIZE]
                ELSE r
    IN  find[<<d.position, d.location, count>>]

\* Locate() in SIMH mode: from the beginning of the tape. FindObject() stops behind the
\* end-of-data object when there are not enough objects.
FindObject(identifier) ==
    LET find[x \in Int \X Int \X Int] ==
            LET r == NextObject[<<x[1], x[2]>>]
                n == x[3]
            IN  IF n = 0 THEN Found("found", x[1], x[2], At(x[1]))
                ELSE IF r.what = "object" THEN find[<<r.position + RecordTail(r.meta), r.location, n - 1>>]
                ELSE r
    IN  find[<<0, 0, identifier>>]

Moved(d, r) == [d EXCEPT !.position = r.position, !.location = r.location]

-----------------------------------------------------------------------------
(* Reading                                                                 *)

NoTransfer == [op |-> "none", rest |-> 0, chunk |-> 0, sili |-> FALSE, sent |-> <<>>]

Lesser(a, b) == IF a < b THEN a ELSE b

\* SetTransferSize()
Transfer(op, length, sili) ==
    [op |-> op, rest |-> length, chunk |-> Lesser(length, BlockSize), sili |-> sili, sent |-> <<>>]

\* UpdateTransferLength()
Advanced(t) == [t EXCEPT !.rest = @ - t.chunk, !.chunk = Lesser(t.rest - t.chunk, @)]

\* IsAtRecordBoundary()
AtRecordBoundary(d) ==
    /\ ~tar
    /\ d.fixed \/ d.initial \/ d.remaining = 0 \/ d.bytes - d.remaining = d.record

\* CheckBlockLength(): the number of bytes that are read from the block instead of the
\* requested ones, or 0
IncorrectLength(d, t) ==
    IF \/ d.record = d.bytes
       \/ d.fixed /\ d.bytes % d.record = 0
       \/ ~d.fixed /\ t.sili /\ d.bytes < d.record
    THEN 0
    ELSE Lesser(d.record, d.bytes)

Failed(what, d, t) ==
    [ok |-> FALSE, what |-> what, drive |-> d, transfer |-> t, from |-> 0, length |-> 0]

TrailingLength(d) == d.start + Pad(d.record)

\* The second part of ReadData(): the data, and behind a block its trailing length
ReadChunk(d, t, length) ==
    LET e == [d EXCEPT !.remaining = @ - length, !.position = @ + length]
        q == TrailingLength(e)
        done == [ok |-> TRUE, what |-> "done", drive |-> e, transfer |-> t,
                 from |-> d.position, length |-> length]
    IN  IF d.position + length > size THEN Failed("read-error", d, t)
        ELSE IF ~AtRecordBoundary(e) THEN done
        ELSE IF q + META_DATA_SIZE > size THEN Failed("read-error", [e EXCEPT !.position = q], t)
        ELSE IF At(q).value # d.record THEN Failed("read-error", [e EXCEPT !.position = q + META_DATA_SIZE], t)
        ELSE [done EXCEPT !.drive.position = q + META_DATA_SIZE]

\* Back from behind a record to its data, without regard to padding
RecordStart(position, value) == position - (value + META_DATA_SIZE)

\* The drive is at a block, of which a bytes are read if its length is not the right one.
ReadBlock(d, t, a) ==
    IF a = 0 THEN ReadChunk(d, t, t.chunk)
    ELSE ReadChunk([d EXCEPT !.bytes = a, !.remaining = a],
                   [Transfer("read", a, t.sili) EXCEPT !.sent = t.sent], Lesser(a, t.chunk))

\* The drive with its position at the data of the block r
AtBlock(d, r) ==
    LET p == RecordStart(r.position, r.meta.value)
    IN  [d EXCEPT !.record = r.meta.value, !.start = p, !.position = p, !.location = r.location]

ReadFound(d, t, r) ==
    IF r.what # "found" \/ r.meta.value = 0 THEN Failed(r.what, Moved(d, r), t)
    ELSE ReadBlock(AtBlock(d, r), t, IncorrectLength(AtBlock(d, r), t))

\* ReadData(): at a record boundary the next block is searched for.
ReadData(d, t) ==
    LET c == [d EXCEPT !.initial = FALSE]
    IN  IF AtRecordBoundary(d) THEN ReadFound(c, t, FindForward(d, "block", 0, TRUE))
        ELSE ReadChunk(c, t, t.chunk)

-----------------------------------------------------------------------------
(* Writing                                                                 *)

\* The drive and the file while something is being written
State(d) == [ok |-> TRUE, drive |-> d, file |-> file, size |-> size]

\* Writing bytes at the current position, which may be behind the end of the file. It fails
\* if the position is negative or the disk is full.
Put(s, bytes) ==
    LET p == s.drive.position
        e == p + Len(bytes)
    IN  IF p < 0 THEN [s EXCEPT !.ok = FALSE]
        ELSE [s EXCEPT !.ok = @ /\ e <= Capacity,
                       !.file = [i \in DOMAIN @ |-> IF i >= p /\ i < e THEN bytes[i - p + 1] ELSE @[i]],
                       !.size = IF e > Capacity THEN Capacity ELSE IF e > @ THEN e ELSE @]

\* Mutant: the limit is not checked.
OverflowMutant(s, length) == s.drive.position + length > Capacity

\* CheckForOverflow()
Overflow(s, length) == s.drive.position + length > maxSize

Step(s, n) == [s EXCEPT !.drive.position = @ + n]

\* WriteSimhMetaData(): what is checked is twice the position.
PutMetaData(s, cls, value) ==
    IF ~s.ok \/ Overflow(s, s.drive.position + META_DATA_SIZE) THEN [s EXCEPT !.ok = FALSE]
    ELSE Put(s, <<value, cls>>)

EndOfDataFits(s) == fileSize >= s.drive.position + META_DATA_SIZE

\* Mutant: no marker follows what has been written.
PutEndOfDataMutant(s) == s

PutEndOfData(s) ==
    IF s.ok /\ ~tar /\ EndOfDataFits(s) THEN PutMetaData(s, PrivateMarker, EndOfDataMagic) ELSE s

\* WriteMetaData() for blocks, i.e. their leading length, and for filemarks
PutObject(s, length) ==
    LET w == PutMetaData(s, Good, length)
    IN  IF tar THEN s ELSE PutEndOfData(IF w.ok THEN Step(w, META_DATA_SIZE) ELSE w)

Repeat(n, d) == [i \in 1 .. n |-> d]

\* Mutant: there is no padding.
PutTrailingLengthMutant(s) ==
    LET w == PutMetaData(s, Good, s.drive.record)
    IN  IF w.ok THEN [Step(w, META_DATA_SIZE) EXCEPT !.drive.location = @ + 1] ELSE w

\* The trailing length, with padding
PutTrailingLength(s) ==
    LET padded == IF s.drive.position % 2 = 1 THEN Step(Put(s, <<0>>), 1) ELSE s
        w == PutMetaData(padded, Good, s.drive.record)
    IN  IF w.ok THEN [Step(w, META_DATA_SIZE) EXCEPT !.drive.location = @ + 1] ELSE w

\* WriteData() with the chunk of bytes that has been received
WriteData(d, bytes) ==
    LET c == [d EXCEPT !.initial = FALSE]
        s1 == IF AtRecordBoundary(d) THEN PutObject(State(c), d.record) ELSE State(c)
        n == Len(bytes)
        s2 == IF ~s1.ok \/ Overflow(s1, n) THEN [s1 EXCEPT !.ok = FALSE]
              ELSE [Step(Put(s1, bytes), n) EXCEPT !.drive.remaining = @ - n]
        s3 == IF s2.ok /\ AtRecordBoundary(s2.drive) THEN PutTrailingLength(s2) ELSE s2
    IN  IF s3.ok /\ s3.drive.remaining = 0 THEN PutEndOfData(s3) ELSE s3

PutFilemarks(s, n) ==
    LET put[i \in 0 .. n] ==
            IF i = 0 THEN s ELSE IF put[i - 1].ok THEN PutObject(put[i - 1], 0) ELSE put[i - 1]
    IN  put[n]

\* Erase() writes gaps up to the size of the file when it was opened. Behind that the number
\* of bytes is a huge one, because it is unsigned: the disk fills up.
Erased(s) ==
    LET p == s.drive.position
        end == IF p > fileSize THEN Capacity ELSE IF fileSize - p >= META_DATA_SIZE THEN fileSize ELSE p
        gaps == [i \in 1 .. end - p |-> IF i % 2 = 1 THEN EraseGap ELSE ReservedMarker]
    IN  IF p < 0 THEN [s EXCEPT !.ok = FALSE]
        ELSE [Step(Put(s, gaps), end - p) EXCEPT !.ok = p <= fileSize]

Reset(d) == [d EXCEPT !.position = 0, !.location = 0]

-----------------------------------------------------------------------------
(* History: the objects on the tape                                        *)

Width(o) == IF o = <<>> THEN META_DATA_SIZE ELSE 2 * META_DATA_SIZE + Pad(Len(o))

\* Where the objects end
Offset(o) == LET end[k \in 0 .. Len(o)] == IF k = 0 THEN 0 ELSE end[k - 1] + Width(o[k]) IN end

End(o) == Offset(o)[Len(o)]

\* The objects in front of the position p
Kept(p) == SubSeq(objects, 1, Cardinality({k \in 1 .. Len(objects) : Offset(objects)[k] <= p}))

\* What has been written ends with an end-of-data object or at the end of the file. In append
\* mode the size of the file when it was opened decides, so that old data may follow.
Ended(s) == s.ok /\ (fileSize >= s.drive.position + META_DATA_SIZE \/ s.drive.position + META_DATA_SIZE > s.size)

OnTape(p) == \E k \in 0 .. Len(objects) : Offset(objects)[k] = p

-----------------------------------------------------------------------------
(* The commands                                                            *)

\* Only the position outlives a transfer: each of them sets the other variables first.
Drive(position, location) ==
    [position |-> position, location |-> location, record |-> 0, start |-> 0, bytes |-> 0,
     remaining |-> 0, initial |-> FALSE, fixed |-> FALSE]

AtRest(d) == Drive(d.position, d.location)

TapeInit ==
    /\ \E s \in Files :
        /\ size = IF s[2] > 0 /\ s[1] < BlockSize THEN BlockSize ELSE s[1]
        /\ fileSize = s[1]
        /\ maxSize = IF s[2] = 0 THEN s[1] ELSE s[2]
        /\ tar = s[3]
    /\ file = [i \in 0 .. Capacity - 1 |-> 0]
    /\ drive = Drive(0, 0)
    /\ transfer = NoTransfer
    /\ objects = <<>> /\ torn = TRUE /\ lost = FALSE /\ uncounted = FALSE /\ received = <<>>

Idle == transfer.op = "none"

\* The bounds: the position grows with each attempt to read behind the end of the medium,
\* and the object location may drift.
Ready ==
    /\ Idle
    /\ drive.position <= Capacity
    /\ drive.location \in -MaxLocation .. MaxLocation

SameFile == UNCHANGED <<file, size, fileSize, maxSize, tar>>
SameTape == SameFile /\ UNCHANGED <<objects, torn>>

\* Ways to end that do not make the drive lose its position
Orderly == {"done", "found", "filemark", "end-of-data", "begin-of-medium"}

\* Locate() for the commands with an explicit address
Located(explicit, identifier) ==
    LET r == FindObject(identifier)
        there == [drive EXCEPT !.position = identifier * BlockSize, !.location = identifier]
    IN  IF ~explicit THEN [ok |-> TRUE, drive |-> drive]
        ELSE IF tar THEN [ok |-> TRUE, drive |-> there]
        ELSE [ok |-> r.what = "found", drive |-> Moved(drive, r)]

\* Among data that are not known
Astray(d) == torn /\ d.position > End(objects)

\* Locating starts with a rewind.
Lost(explicit, d) == IF explicit THEN Astray(d) ELSE lost
Uncounted(explicit) == uncounted /\ ~explicit

LocateFails(l) ==
    /\ drive' = l.drive /\ lost' = TRUE
    /\ UNCHANGED <<transfer, uncounted, received>> /\ SameTape

\* What has been read is in the buffer of the controller.
Deliver(r, wasLost) ==
    /\ drive' = IF r.ok THEN r.drive ELSE AtRest(r.drive)
    /\ transfer' = IF r.ok THEN r.transfer ELSE NoTransfer
    /\ lost' = (wasLost \/ r.what \notin Orderly \/ Astray(r.drive))
    /\ received' = IF r.ok /\ ~tar /\ ~wasLost /\ ~torn /\ r.drive.record % 2 = 0
                          /\ (r.drive.fixed => r.drive.record = BlockSize)
                   THEN <<r.from, r.length>> ELSE <<>>
    /\ SameTape

Read(explicit, identifier, fixed, sili, n) ==
    LET l == Located(explicit, identifier)
        bytes == IF fixed THEN n * BlockSize ELSE n
        d == [l.drive EXCEPT !.fixed = fixed, !.bytes = bytes]
    IN  /\ Ready /\ ~(fixed /\ sili)
        /\ IF ~l.ok THEN LocateFails(l)
           ELSE /\ uncounted' = Uncounted(explicit)
                /\ IF bytes = 0
                   THEN /\ drive' = l.drive /\ lost' = Lost(explicit, d) /\ received' = <<>>
                        /\ UNCHANGED transfer /\ SameTape
                   ELSE Deliver(ReadData([d EXCEPT !.remaining = bytes, !.initial = TRUE],
                                         Transfer("read", bytes, sili)), Lost(explicit, d))

\* A chunk has been sent. TransferToHost() reads the next one.
ReadNext ==
    /\ transfer.op = "read"
    /\ IF Advanced(transfer).rest = 0
       THEN /\ transfer' = NoTransfer /\ drive' = AtRest(drive) /\ received' = <<>>
            /\ UNCHANGED lost /\ SameTape
       ELSE Deliver(ReadData(drive, Advanced(transfer)), lost)
    /\ UNCHANGED uncounted

Write(explicit, identifier, fixed, n) ==
    LET l == Located(explicit, identifier)
        bytes == IF fixed THEN n * BlockSize ELSE n
        d == [l.drive EXCEPT !.fixed = fixed, !.bytes = bytes]
    IN  /\ Idle
        /\ IF ~l.ok THEN LocateFails(l)
           ELSE /\ drive' = IF bytes = 0 THEN l.drive
                            ELSE [d EXCEPT !.remaining = bytes, !.initial = TRUE,
                                           !.record = IF fixed THEN BlockSize ELSE bytes]
                /\ transfer' = IF bytes = 0 THEN NoTransfer ELSE Transfer("write", bytes, FALSE)
                /\ uncounted' = Uncounted(explicit) /\ lost' = Lost(explicit, d) /\ received' = <<>>
                /\ SameTape

\* A chunk has been received.
WriteNext(b) ==
    LET bytes == Repeat(Lesser(drive.bytes, transfer.chunk), b)
        r == WriteData(drive, bytes)
        p == drive.position
        boundary == AtRecordBoundary(drive)
        started == boundary /\ ~Overflow(State(drive), p + META_DATA_SIZE)
        base == IF started THEN Kept(p) ELSE objects
        sent == IF boundary THEN bytes ELSE transfer.sent \o bytes
        exact == End(base) = IF boundary THEN p ELSE p - META_DATA_SIZE - Len(transfer.sent)
        complete == r.drive.location > drive.location
    IN  /\ transfer.op = "write"
        /\ drive' = IF ~r.ok \/ Advanced(transfer).rest = 0 THEN AtRest(r.drive) ELSE r.drive
        /\ file' = r.file /\ size' = r.size
        /\ transfer' = IF ~r.ok \/ Advanced(transfer).rest = 0 THEN NoTransfer
                       ELSE [Advanced(transfer) EXCEPT !.sent = IF complete \/ tar THEN <<>> ELSE sent]
        /\ objects' = IF complete /\ exact THEN Append(base, sent) ELSE base
        /\ torn' = IF started \/ (~boundary /\ ~tar) THEN ~(Ended(r) /\ r.drive.remaining = 0 /\ exact) ELSE torn
        /\ lost' = (lost \/ (~r.ok /\ (started \/ ~boundary)))
        /\ UNCHANGED <<fileSize, maxSize, tar, uncounted, received>>

\* The bus is reset, or the handshake ends early.
Abort ==
    /\ ~Idle
    /\ transfer' = NoTransfer /\ drive' = AtRest(drive)
    /\ lost' = (lost \/ ~(drive.fixed \/ drive.initial)) /\ received' = <<>>
    /\ UNCHANGED uncounted /\ SameTape

\* Without an identifier WRITE FILEMARKS(16) writes at the current position.
WriteFilemarks(identifier, n) ==
    LET l == Located(identifier > 0, identifier)
        p == l.drive.position
        r == PutFilemarks(State(l.drive), n)
        written == (r.drive.position - p) \div META_DATA_SIZE
        exact == End(Kept(p)) = p
    IN  /\ Ready /\ ~tar
        /\ IF ~l.ok THEN LocateFails(l)
           ELSE /\ drive' = r.drive /\ file' = r.file /\ size' = r.size
                /\ objects' = IF written = 0 THEN objects
                              ELSE Kept(p) \o IF exact THEN Repeat(written, <<>>) ELSE <<>>
                /\ torn' = IF written = 0 THEN torn ELSE ~(Ended(r) /\ exact)
                /\ lost' = (Lost(identifier > 0, l.drive) \/ ~r.ok)
                /\ uncounted' = (Uncounted(identifier > 0) \/ written > 0)
                /\ received' = <<>>
                /\ UNCHANGED <<transfer, fileSize, maxSize, tar>>

EndOfDataWritten(s, o, exact) ==
    LET r == PutEndOfData(s)
    IN  /\ drive' = r.drive /\ file' = r.file /\ size' = r.size
        /\ objects' = o
        /\ torn' = ~(Ended(r) /\ exact)
        /\ received' = <<>>
        /\ UNCHANGED <<transfer, fileSize, maxSize, tar>>

\* A long erase, and FORMAT MEDIUM, which is only accepted at the beginning of the tape
EraseAll ==
    LET s == Erased(State(drive))
    IN  /\ Ready /\ ~tar
        /\ IF s.ok
           THEN /\ EndOfDataWritten([s EXCEPT !.drive = Reset(@)], <<>>, TRUE)
                /\ lost' = FALSE /\ uncounted' = FALSE
           ELSE /\ drive' = s.drive /\ file' = s.file /\ size' = s.size
                /\ objects' = Kept(drive.position) /\ torn' = TRUE /\ lost' = TRUE /\ received' = <<>>
                /\ UNCHANGED <<transfer, fileSize, maxSize, tar, uncounted>>

EraseRest ==
    /\ Ready /\ ~tar
    /\ EndOfDataWritten(State(drive), Kept(drive.position), End(Kept(drive.position)) = drive.position)
    /\ UNCHANGED <<lost, uncounted>>

Moving(d, what, reset) ==
    /\ drive' = d
    /\ lost' = ((lost /\ ~reset) \/ what \notin Orderly \/ Astray(d))
    /\ uncounted' = (uncounted /\ ~reset)
    /\ received' = <<>>
    /\ UNCHANGED transfer /\ SameTape

Space(type, n) ==
    LET r == IF n < 0 THEN FindBackward(drive, type, -n) ELSE FindForward(drive, type, n, FALSE)
    IN  /\ Ready /\ ~tar
        /\ type = "end-of-data" <=> n = 0
        /\ Moving(IF type = "end-of-data" /\ r.what = "found"
                  THEN Moved(drive, [r EXCEPT !.position = @ - META_DATA_SIZE]) ELSE Moved(drive, r),
                  r.what, r.what = "begin-of-medium")

\* LOCATE ends with GOOD, whether or not the object has been found.
Locate(identifier) ==
    LET l == Located(TRUE, identifier)
    IN  Ready /\ Moving(l.drive, IF l.ok THEN "found" ELSE "not-found", TRUE)

Rewind == Idle /\ Moving(Reset(drive), "done", TRUE)

\* The medium is ejected and inserted again.
Open ==
    /\ Idle
    /\ drive' = Reset(drive)
    /\ fileSize' = size
    /\ lost' = FALSE /\ uncounted' = FALSE /\ received' = <<>>
    /\ UNCHANGED <<file, size, maxSize, tar, transfer, objects, torn>>

Amounts(fixed) == IF fixed THEN Counts ELSE Lengths

Identifiers == {<<FALSE, 0>>} \cup {<<TRUE, i>> : i \in Counts}

Reading ==
    \/ \E a \in Identifiers, fixed, sili \in BOOLEAN :
            \E n \in Amounts(fixed) : Read(a[1], a[2], fixed, sili, n)
    \/ ReadNext

Writing ==
    \/ \E a \in Identifiers, fixed \in BOOLEAN : \E n \in Amounts(fixed) : Write(a[1], a[2], fixed, n)
    \/ \E b \in Data : WriteNext(b)
    \/ \E i, n \in Counts \cup {0} : WriteFilemarks(i, n)
    \/ EraseAll \/ EraseRest

Positioning ==
    \/ \E n \in Counts : \E t \in {"block", "filemark"} : Space(t, n) \/ Space(t, -n)
    \/ Space("end-of-data", 0)
    \/ \E i \in Counts \cup {0} : Locate(i)
    \/ Rewind

TapeNext == Reading \/ Writing \/ Positioning \/ Abort \/ Open

TapeSpec == TapeInit /\ [][TapeNext]_vars

-----------------------------------------------------------------------------
(* Properties                                                              *)

\* Types; in addition, the file never grows beyond its maximum size (CheckForOverflow(),
\* tape.cpp:993), except for a long erase behind its original end. A file that is longer already
\* keeps its size.
TapeTypeOK ==
    /\ file \in [0 .. Capacity - 1 -> Nat] /\ \A i \in size .. Capacity - 1 : file[i] = 0
    /\ fileSize \in 0 .. size /\ size \in 0 .. Capacity
    /\ size <= Pad(maxSize) \/ size = Capacity \/ \E s \in Files : size = s[1] /\ maxSize = s[2]
    /\ drive.position \in Int /\ drive.location \in Int
    /\ transfer.op \in {"none", "read", "write"}
    /\ transfer.op # "none" => transfer.chunk \in 1 .. transfer.rest

\* Every block and filemark that has been written and has not been overwritten or erased
\* since is in the image file, with both of its lengths, wherever the drive has moved and
\* whatever transfers have been aborted (tape.cpp:258, 640). The end of data follows the last
\* object if the file was long enough for it when it was opened: "Ensure that there is always
\* an end-of-data object" (tape.cpp:291, 654).
ObjectsKept ==
    /\ ~tar /\ ~torn /\ End(objects) + META_DATA_SIZE <= fileSize
        => At(End(objects)) = MetaData(PrivateMarker, EndOfDataMagic)
    /\ \A k \in 1 .. Len(objects) :
           LET o == objects[k]  p == Offset(objects)[k - 1]  m == MetaData(Good, Len(o))
           IN  /\ At(p) = m
               /\ o # <<>> => At(p + Width(o) - META_DATA_SIZE) = m
               /\ \A i \in 1 .. Len(o) : file[p + META_DATA_SIZE + i - 1] = o[i]

\* The drive is always in front of an object or of the end of data, unless its last command
\* failed or was aborted in the middle of a block, or LOCATE did not find its object. The object
\* location that READ POSITION reports counts the objects before this position
\* (tape.cpp:590, 926), unless filemarks have been written: these are not counted.
PositionOnObject ==
    ~tar /\ Idle /\ ~lost =>
        /\ OnTape(drive.position)
        /\ ~uncounted =>
            drive.location \in 0 .. Len(objects) /\ Offset(objects)[drive.location] = drive.position

\* What is read are the data of one block, never meta data or parts of two blocks
\* (tape.cpp:193), for blocks of an even length and, in fixed mode, of the block size.
ReceivedFromBlock ==
    received # <<>> =>
        \E k \in 1 .. Len(objects) :
            LET p == Offset(objects)[k - 1] + META_DATA_SIZE
            IN  received[1] >= p /\ received[1] + received[2] <= p + Len(objects[k])
=============================================================================
