-------------------------------- MODULE Disk --------------------------------
(***************************************************************************)
(* A disk drive (devices/disk.cpp, storage_device.cpp, scsi_hd.cpp,        *)
(* sasi_hd.cpp, scsi_cd.cpp, optical_memory.cpp, linux_cache.cpp): its     *)
(* block size, its cache, its transfers, changes of the medium, and the    *)
(* image files that have to contain what initiators have written.          *)
(*                                                                         *)
(* An image file is a sequence of cells. A block has one or more of them.  *)
(* Caching in PiSCSI mode, which the module DiskCache models in detail,    *)
(* delays writing until the cache is flushed; in the other modes the file  *)
(* is written at once. A chunk of data that is written has a single value. *)
(* Files can be read and written. Commands that are refused for a reason   *)
(* that changes nothing are left out.                                      *)
(***************************************************************************)
EXTENDS Integers, Sequences, SequencesExt

CONSTANTS
    Kinds,      \* types of drives
    Modes,      \* caching modes
    Media,      \* image files
    NoMedium,
    Length,     \* the number of cells of each image file
    Sizes,      \* block sizes in cells that can be configured
    Standard,   \* those that do not enforce a Linux cache
    Requested,  \* block sizes that MODE SELECT asks for
    Values,     \* what is written
    MaxCount    \* bound on the number of blocks of a command

ASSUME DiskAssumption ==
    /\ Kinds \subseteq {"SAHD", "SCHD", "SCRM", "SCMO", "SCCD"}
    /\ Modes \subseteq {"PISCSI", "WRITE_THROUGH", "LINUX", "LINUX_OPTIMIZED"}
    /\ NoMedium \notin Media /\ Length \in [Media -> Nat \ {0}]
    /\ Sizes \subseteq Nat \ {0} /\ Standard \subseteq Sizes /\ Requested \subseteq Nat
    /\ Values \subseteq Nat /\ MaxCount \in Nat

VARIABLES
    kind,      \* the type of the drive
    mode,      \* caching_mode
    unit,      \* the state of the unit
    size,      \* block_size
    blocks,    \* the number of blocks
    cache,     \* the cache
    content,   \* the cells of the image files
    next,      \* next_sector
    step,      \* sector_transfer_count
    transfer,  \* the transfer of the controller
    told,      \* history: the initiator knows that the medium has been changed
    written,   \* history: what initiators have written
    sent       \* history: the first cell and the cells of the last chunk that was sent

driveVars == <<kind, mode, unit, size, blocks, cache, content>>
vars == <<driveVars, next, step, transfer, told, written, sent>>

-----------------------------------------------------------------------------
(* Image files and caches                                                  *)

Clean == -1
NoCache == [kind |-> "none", file |-> NoMedium, size |-> 0, pending |-> <<>>]
Nothing == [from |-> 0, cells |-> <<>>]

Repeat(v, n) == [i \in 1 .. n |-> v]

\* The cells p + 1, p + 2, ... are replaced. A file grows when it is written behind its end.
Overwrite(cells, p, new) ==
    [i \in 1 .. Max({Len(cells), p + Len(new)}) |->
        IF i > p /\ i <= p + Len(new) THEN new[i - p]
        ELSE IF i <= Len(cells) THEN cells[i] ELSE 0]

Overlay(cells, pending) ==
    [i \in DOMAIN cells |->
        IF i \in DOMAIN pending /\ pending[i] # Clean THEN pending[i] ELSE cells[i]]

\* An image file as the drive sees it
Image(m) == IF m = cache.file /\ cache.kind = "PISCSI" THEN Overlay(content[m], cache.pending) ELSE content[m]

\* InitCache()
NewCache(caching, blockSize, m) ==
    [kind |-> IF caching = "PISCSI" THEN "PISCSI" ELSE "LINUX", file |-> m, size |-> blockSize,
     pending |-> IF caching = "PISCSI" THEN Repeat(Clean, Len(content[m])) ELSE <<>>]

\* FlushCache()
Flushed == IF cache.kind = "none" THEN content ELSE [content EXCEPT ![cache.file] = Image(cache.file)]

Emptied == [cache EXCEPT !.pending = Repeat(Clean, Len(@))]

\* Sectors are read and written with the sector size of the cache, not with the block size.
CacheRead(start, n) == SubSeq(Image(cache.file), start * cache.size + 1, (start + n) * cache.size)

CacheReadFails(start, n) == (start + n) * cache.size > Len(Image(cache.file))

CacheWrite(start, n, v) ==
    LET new == Repeat(v, n * cache.size)  p == start * cache.size
    IN  IF cache.kind = "PISCSI"
        THEN /\ cache' = [cache EXCEPT !.pending = Overwrite(@, p, new)]
             /\ UNCHANGED content
        ELSE /\ content' = [content EXCEPT ![cache.file] = Overwrite(@, p, new)]
             /\ UNCHANGED cache

-----------------------------------------------------------------------------
(* Opening and ejecting a medium                                           *)

Removable(k) == k \in {"SCRM", "SCMO", "SCCD"}
Protectable(k) == k # "SCCD"
MediumSpecific(k) == k \in {"SCMO", "SCCD"}

NoTransfer == [op |-> "none", rest |-> 0]
Idle == transfer.op = "none"

\* Device::SetProtected()
Protection(k, p) == p /\ Protectable(k)

\* Open(), ValidateFile(): a non-standard block size enforces a Linux cache.
CachingMode(caching, blockSize) ==
    IF blockSize \notin Standard /\ caching = "PISCSI" THEN "LINUX" ELSE caching

\* The unit with its file name and the name of the file that was ejected last. Files that are
\* reserved for it have never been released or are in use.
OpenedUnit(k, m, protected) ==
    [attached |-> TRUE, name |-> m, last |-> NoMedium, reserved |-> {m}, ready |-> TRUE, reset |-> FALSE,
     attn |-> MediumSpecific(k), changed |-> FALSE, locked |-> FALSE,
     protected |-> Protection(k, protected), removed |-> FALSE]

DiskInit ==
    /\ kind \in Kinds
    /\ content = [m \in Media |-> Repeat(0, Length[m])] /\ written = content
    /\ \E m \in Media, caching \in Modes, s \in Sizes, p \in BOOLEAN :
        /\ Length[m] >= s
        /\ mode = CachingMode(caching, s)
        /\ unit = OpenedUnit(kind, m, p)
        /\ size = s
        /\ blocks = Length[m] \div s
        /\ cache = NewCache(mode, s, m)
    /\ next = 0 /\ step = 0 /\ transfer = NoTransfer
    /\ told = TRUE /\ sent = Nothing

SameTransfer == UNCHANGED <<next, step, transfer>> /\ sent' = Nothing
SameHistory == UNCHANGED <<told, written>>
SameUnit == UNCHANGED <<kind, unit, size, blocks>>

\* INSERT: a drive whose medium has been removed opens another one.
Insert(m, s, p) ==
    /\ Idle /\ unit.removed /\ Length[m] >= s /\ m \notin unit.reserved
    /\ mode' = CachingMode(mode, s)
    /\ unit' = [OpenedUnit(kind, m, p) EXCEPT !.last = unit.last, !.reset = unit.reset, !.changed = TRUE,
                                            !.reserved = unit.reserved \cup {m}]
    /\ size' = s
    /\ blocks' = Len(content[m]) \div s
    /\ cache' = NewCache(mode', s, m)
    /\ told' = FALSE
    /\ UNCHANGED <<kind, content, written>> /\ SameTransfer

\* Mutant: cached data are discarded instead of written.
SavedMutant == content

\* What a flush leaves in the image files when the medium leaves the drive
Saved == Flushed

Released == [unit EXCEPT !.name = NoMedium, !.reserved = @ \ {unit.name}, !.ready = FALSE, !.attn = FALSE,
                         !.locked = FALSE]

EjectMedium ==
    /\ unit.ready /\ Removable(kind)
    /\ content' = Saved
    /\ unit' = [Released EXCEPT !.removed = TRUE, !.protected = FALSE, !.last = unit.name]
    /\ cache' = NoCache
    /\ UNCHANGED <<kind, mode, size, blocks>> /\ SameHistory /\ SameTransfer

-----------------------------------------------------------------------------
(* Commands                                                                *)

\* Dispatch(): the next command reports that the medium has been changed.
ReportChange ==
    /\ Idle /\ unit.changed
    /\ unit' = [unit EXCEPT !.changed = FALSE]
    /\ told' = TRUE
    /\ UNCHANGED <<kind, mode, size, blocks, cache, content, written>> /\ SameTransfer

\* Mutant: a change of the medium is only reported by drives that ask for attention.
AcceptedMutant == Idle /\ unit.attached

Accepted == Idle /\ unit.attached /\ ~unit.changed

\* CheckReady() reports a reset, and a new medium.
ReportAttention ==
    /\ Accepted /\ (unit.reset \/ unit.attn)
    /\ unit' = IF unit.reset THEN [unit EXCEPT !.reset = FALSE] ELSE [unit EXCEPT !.attn = FALSE]
    /\ UNCHANGED <<kind, mode, size, blocks, cache, content>> /\ SameHistory /\ SameTransfer

CheckReady == Accepted /\ ~unit.reset /\ ~unit.attn /\ unit.ready

\* Mutant: write protection is ignored.
CheckWritePreconditionsMutant == TRUE

CheckWritePreconditions == ~unit.protected

\* CheckAndGetStartAndCount()
InRange(start, count) == blocks > 0 /\ start + count <= blocks

BlocksPerChunk(count) == IF mode = "LINUX_OPTIMIZED" THEN count ELSE 1

\* ReadData(): a chunk is in the buffer of the controller.
ReadData(t, start, n) ==
    IF CacheReadFails(start, n)
    THEN transfer' = NoTransfer /\ sent' = Nothing /\ next' = start
    ELSE /\ sent' = [from |-> start * cache.size, cells |-> CacheRead(start, n)]
         /\ next' = start + n
         /\ transfer' = t

Read(start, count) ==
    /\ CheckReady /\ InRange(start, count)
    /\ step' = BlocksPerChunk(count)
    /\ ReadData([op |-> "read", rest |-> count], start, step')
    /\ UNCHANGED driveVars /\ SameHistory

\* A chunk has been sent, and the next one is read.
ReadNext ==
    /\ transfer.op = "read"
    /\ IF transfer.rest <= step
       THEN transfer' = NoTransfer /\ sent' = Nothing /\ UNCHANGED next
       ELSE ReadData([transfer EXCEPT !.rest = @ - step], next, step)
    /\ UNCHANGED <<driveVars, step>> /\ SameHistory

Write(start, count) ==
    /\ CheckWritePreconditions /\ CheckReady /\ InRange(start, count)
    /\ next' = start /\ step' = BlocksPerChunk(count)
    /\ transfer' = [op |-> "write", rest |-> count]
    /\ sent' = Nothing
    /\ UNCHANGED driveVars /\ SameHistory

\* WriteData(): a chunk has been received.
WriteNext(v) ==
    LET n == IF transfer.op = "write long" THEN 1 ELSE step
    IN  /\ transfer.op \in {"write", "write long"}
        /\ CacheWrite(next, n, v)
        /\ transfer' = IF transfer.rest <= n THEN NoTransfer ELSE [transfer EXCEPT !.rest = @ - n]
        /\ next' = IF transfer.op = "write" THEN next + n ELSE next
        /\ written' = [written EXCEPT ![cache.file] = Overwrite(@, next * cache.size, Repeat(v, n * cache.size))]
        /\ sent' = Nothing
        /\ UNCHANGED <<kind, mode, unit, size, blocks, step, told>>

\* SYNCHRONIZE CACHE, VERIFY, stopping the unit
FlushCache ==
    /\ Accepted /\ cache.kind # "none"
    /\ content' = Flushed /\ cache' = Emptied
    /\ UNCHANGED mode /\ SameUnit /\ SameHistory /\ SameTransfer

\* Mutant: the cache is replaced without being flushed.
FlushedForLongMutant == content

FlushedForLong == IF cache.kind = "PISCSI" THEN Flushed ELSE content

\* ReadWriteLong() needs a Linux cache, and switches to it for good.
SwitchToLinuxCache ==
    /\ content' = FlushedForLong
    /\ mode' = IF cache.kind = "LINUX" THEN mode ELSE "LINUX"
    /\ cache' = IF cache.kind = "LINUX" THEN cache ELSE NewCache("LINUX", size, unit.name)

ReadLong(start) ==
    /\ CheckReady /\ start < blocks
    /\ SwitchToLinuxCache
    /\ LET from == start * cache'.size
       IN  IF from + size > Len(content'[cache'.file])
           THEN transfer' = NoTransfer /\ sent' = Nothing
           ELSE /\ transfer' = [op |-> "read", rest |-> 0]
                /\ sent' = [from |-> from, cells |-> SubSeq(content'[cache'.file], from + 1, from + size)]
    /\ UNCHANGED <<next, step>> /\ SameUnit /\ SameHistory

WriteLong(start) ==
    /\ CheckReady /\ start < blocks /\ CheckWritePreconditions
    /\ SwitchToLinuxCache
    /\ next' = start
    /\ transfer' = [op |-> "write long", rest |-> 1]
    /\ sent' = Nothing
    /\ UNCHANGED step /\ SameUnit /\ SameHistory

\* MODE SELECT, also for a drive that is not ready. The block size is set before
\* ChangeBlockSize() compares it: neither the number of blocks nor the cache follow. It stays
\* even if a mode page is refused.
ModeSelect(s) ==
    /\ Accepted /\ kind # "SAHD" /\ s > 0
    /\ size' = s
    /\ UNCHANGED <<kind, mode, unit, blocks, cache, content>> /\ SameHistory /\ SameTransfer

PreventAllowMediumRemoval(b) ==
    /\ CheckReady
    /\ unit' = [unit EXCEPT !.locked = b]
    /\ UNCHANGED <<kind, mode, size, blocks, cache, content>> /\ SameHistory /\ SameTransfer

\* START STOP UNIT with the load bit
Unload == Accepted /\ ~unit.locked /\ EjectMedium

\* The file that was ejected last is reserved again, also if there is another medium, but it
\* is not opened: a drive without a medium does not become ready.
Load ==
    /\ Accepted /\ unit.last # NoMedium /\ unit.last \notin unit.reserved
    /\ unit' = [unit EXCEPT !.name = unit.last, !.reserved = @ \cup {unit.last}, !.changed = TRUE]
    /\ UNCHANGED <<kind, mode, size, blocks, cache, content>> /\ SameHistory /\ SameTransfer

-----------------------------------------------------------------------------
(* The remote interface, resets                                            *)

RemoteEject == Idle /\ EjectMedium

RemoteProtect(b) ==
    /\ Idle /\ unit.ready /\ Protectable(kind)
    /\ unit' = [unit EXCEPT !.protected = b]
    /\ UNCHANGED <<kind, mode, size, blocks, cache, content>> /\ SameHistory /\ SameTransfer

\* A drive that has been stopped by the remote interface cannot be started again.
RemoteStop ==
    /\ Idle /\ unit.attached
    /\ unit' = [unit EXCEPT !.ready = FALSE, !.attn = FALSE]
    /\ UNCHANGED <<kind, mode, size, blocks, cache, content>> /\ SameHistory /\ SameTransfer

\* CleanUp()
Detach ==
    /\ Idle /\ unit.attached
    /\ content' = Saved
    /\ unit' = [Released EXCEPT !.attached = FALSE, !.last = NoMedium, !.reserved = {}, !.changed = FALSE,
                                !.protected = FALSE, !.removed = FALSE, !.reset = FALSE]
    /\ cache' = NoCache
    /\ UNCHANGED <<kind, mode, size, blocks>> /\ SameHistory /\ SameTransfer

\* A bus reset, or a BUS DEVICE RESET message. What has been received is kept.
Reset(message) ==
    /\ unit.attached
    /\ unit' = IF message THEN [unit EXCEPT !.reset = TRUE]
               ELSE [unit EXCEPT !.reset = FALSE, !.attn = FALSE, !.locked = FALSE]
    /\ transfer' = NoTransfer /\ sent' = Nothing
    /\ UNCHANGED <<kind, mode, size, blocks, cache, content, next, step>> /\ SameHistory

Transferring ==
    \/ \E start \in 0 .. blocks, count \in 1 .. MaxCount : Read(start, count) \/ Write(start, count)
    \/ ReadNext
    \/ \E v \in Values : WriteNext(v)
    \/ \E start \in 0 .. blocks : ReadLong(start) \/ WriteLong(start)
    \/ FlushCache

Controlling ==
    \/ ReportChange \/ ReportAttention
    \/ \E s \in Requested : ModeSelect(s)
    \/ \E b \in BOOLEAN : PreventAllowMediumRemoval(b) \/ RemoteProtect(b) \/ Reset(b)
    \/ Unload \/ Load \/ RemoteEject \/ RemoteStop \/ Detach
    \/ \E m \in Media, s \in Sizes, p \in BOOLEAN : Insert(m, s, p)

DiskNext == Transferring \/ Controlling

DiskSpec == DiskInit /\ [][DiskNext]_vars

-----------------------------------------------------------------------------
(* Properties                                                              *)

\* A command sends what has been written last to the same sectors, whatever has happened to
\* the cache since (disk.cpp:375).
ReadsLastWritten ==
    sent.cells # <<>> =>
        sent.cells = SubSeq(written[cache.file], sent.from + 1, sent.from + Len(sent.cells))

\* The image file of a medium that has been ejected or whose drive has been detached has
\* everything that has been written to it, and nothing else (storage_device.cpp:106, disk.cpp:131).
SavedWhenReleased == \A m \in Media : m # cache.file => content[m] = written[m]

\* No data of a medium that has been inserted are accessed before a command has reported that
\* the medium has changed (storage_device.cpp:39).
ChangeReported == Idle \/ told

\* While a medium is write-protected its data do not change (storage_device.cpp:53).
ProtectedKept == [][\A m \in Media : unit.protected /\ m = cache.file => Image(m)' = Image(m)]_vars

=============================================================================
