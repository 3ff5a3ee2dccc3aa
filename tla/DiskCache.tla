------------------------------ MODULE DiskCache ------------------------------
(***************************************************************************)
(* The write-back track cache of the caching mode "piscsi":                *)
(* devices/disk_cache.cpp with devices/disk_track.cpp, and what Disk does  *)
(* with it as a whole.  A slot holds a track of consecutive sectors; the   *)
(* oldest slot is saved and replaced when a track is needed that no slot   *)
(* holds.  Every access to the image file may fail.  A write that fails    *)
(* may have written some of its sectors; the failure is assumed to be      *)
(* reported by the stream.                                                 *)
(***************************************************************************)
EXTENDS Integers

CONSTANTS
    Blocks,       \* the number of sectors
    TrackSize,    \* sectors per track (256)
    CacheMax,     \* number of slots (16)
    SerialLimit,  \* number of serial numbers (2^32)
    Values        \* what a sector may contain

Failed  == "failed"
Flushed == "flushed"
Reading == "reading"

ASSUME CacheAssumption ==
    /\ Blocks \in Nat \ {0}
    /\ TrackSize \in Nat \ {0}
    /\ CacheMax \in Nat \ {0}
    /\ SerialLimit \in Nat \ {0}
    /\ {Failed, Flushed, Reading} \cap Values = {}

VARIABLES
    slots,    \* cache: serial number, track, its sectors, and which are modified
    serial,   \* the last serial number
    file,     \* the image file
    answer,   \* the result of the last call, and the sector it was for
    crashed   \* a null pointer has been dereferenced

cacheVars == <<slots, serial, file, answer, crashed>>

Sectors  == 0..(Blocks - 1)
Slots    == 1..CacheMax
NoTrack  == -1
NoSector == -1

TrackOf(s) == s \div TrackSize

\* The sectors of track t; the last track may be shorter.
TrackSectors(t) == {s \in Sectors : TrackOf(s) = t}

Empty(n) == [serial |-> n, track |-> NoTrack, data |-> <<>>, modified |-> {}]

\* DiskTrack::Init() and a successful DiskTrack::Load() from a file f
Loaded(t, f, n) == [serial |-> n, track |-> t, data |-> [s \in TrackSectors(t) |-> f[s]],
                    modified |-> {}]

\* Mutant: a second sector of a modified track is not marked.
UseMutant(slot, s, v) ==
    IF v \in {Reading, slot.data[s]} THEN slot
    ELSE [slot EXCEPT !.data[s] = v, !.modified = IF @ = {} THEN {s} ELSE @]

\* DiskTrack::ReadSector() or, for a value v, DiskTrack::WriteSector()
Use(slot, s, v) ==
    IF v \in {Reading, slot.data[s]} THEN slot
    ELSE [slot EXCEPT !.data[s] = v, !.modified = @ \cup {s}]

\* A file f after the sectors w of a slot have been written to it
Stored(f, slot, w) == [s \in Sectors |-> IF s \in w THEN slot.data[s] ELSE f[s]]

Vacant == [i \in Slots |-> Empty(0)]

CacheInit ==
    /\ slots = Vacant
    /\ serial = 0
    /\ file \in [Sectors -> Values]
    /\ answer = [sector |-> NoSector, value |-> Flushed]
    /\ crashed = FALSE

-----------------------------------------------------------------------------
(* Reading and writing a sector                                            *)

\* Mutant: the serial number does not wrap.
NextSerialMutant == serial + 1

NextSerial == (serial + 1) % SerialLimit

\* UpdateSerial(): with serial number 0 all slots become equally old.
Aged == IF NextSerial # 0 THEN slots ELSE [i \in Slots |-> [slots[i] EXCEPT !.serial = 0]]

Holding(t) == {i \in Slots : slots[i].track = t}

\* Slot i is the first one of those with the smallest serial number.
Oldest(i) == \A j \in Slots :
    Aged[i].serial < Aged[j].serial \/ (Aged[i].serial = Aged[j].serial /\ i <= j)

\* The call succeeds with the track in this slot.
Succeed(i, slot, s, v) ==
    /\ slots' = [Aged EXCEPT ![i] = Use(slot, s, v)]
    /\ answer' = [sector |-> s, value |-> Use(slot, s, v).data[s]]
    /\ serial' = NextSerial
    /\ UNCHANGED crashed

FailWith(newSlots, s) ==
    /\ slots' = newSlots
    /\ answer' = [sector |-> s, value |-> Failed]
    /\ serial' = NextSerial
    /\ UNCHANGED crashed

Hit(s, v) ==
    \E i \in Holding(TrackOf(s)) :
        /\ Succeed(i, [slots[i] EXCEPT !.serial = NextSerial], s, v)
        /\ UNCHANGED file

\* The track is loaded into an empty slot; attempts for slots before it failed.
Fill(s, v) ==
    /\ Holding(TrackOf(s)) = {}
    /\ \E i \in Holding(NoTrack) :
        Succeed(i, Loaded(TrackOf(s), file, NextSerial), s, v)
    /\ UNCHANGED file

\* The old track has been moved out of the slot.
AfterFailedLoad(i, t) == [Aged EXCEPT ![i] = Empty(Aged[i].serial)]

\* No slot is empty, or loading into the empty ones failed: the oldest slot is
\* saved and the track is loaded in its place, which may fail. The slot is lost
\* for its old track only if that was saved.
Replace(s, v) ==
    /\ Holding(TrackOf(s)) = {}
    /\ \E i \in Slots \ Holding(NoTrack) :
        /\ Oldest(i)
        /\ \/ /\ file' = Stored(file, slots[i], slots[i].modified)
              /\ \/ Succeed(i, Loaded(TrackOf(s), file', NextSerial), s, v)
                 \/ FailWith(AfterFailedLoad(i, TrackOf(s)), s)
           \/ /\ slots[i].modified # {}
              /\ \E w \in SUBSET slots[i].modified : file' = Stored(file, slots[i], w)
              /\ FailWith(Aged, s)

\* The oldest slot is one of the empty ones, for which loading has just failed:
\* Save() is called for a null pointer.
SaveNothing(s) ==
    /\ Holding(TrackOf(s)) = {}
    /\ \E i \in Holding(NoTrack) : Oldest(i)
    /\ crashed' = TRUE
    /\ UNCHANGED <<slots, serial, file, answer>>

Access(s, v) ==
    /\ ~crashed
    /\ \/ Hit(s, v)
       \/ Fill(s, v)
       \/ Replace(s, v)
       \/ SaveNothing(s)

ReadSectors(s) == Access(s, Reading)

WriteSectors(s, v) == Access(s, v)

-----------------------------------------------------------------------------
(* Flushing and replacing the cache as a whole                             *)

\* What can be read from sector s
Content(s) == LET held == Holding(TrackOf(s))
              IN  IF held = {} THEN file[s] ELSE slots[CHOOSE i \in held : TRUE].data[s]

\* The sectors Flush() has saved when the slots before k were saved
SavedBefore(k) == UNION {slots[i].modified : i \in 1..(k - 1)}

Saved(w) == [s \in Sectors |-> IF s \in w THEN Content(s) ELSE file[s]]

\* Mutant: a failing slot does not end Flush().
CleanMutant(k) == [i \in Slots |-> [slots[i] EXCEPT !.modified = {}]]

Clean(k) == [i \in Slots |-> IF i < k THEN [slots[i] EXCEPT !.modified = {}] ELSE slots[i]]

FlushAll ==
    /\ file' = Saved(SavedBefore(CacheMax + 1))
    /\ slots' = Clean(CacheMax + 1)
    /\ answer' = [sector |-> NoSector, value |-> Flushed]

\* Saving slot k fails; the slots behind it are not saved then.
FlushFails ==
    \E k \in Slots :
        /\ slots[k].modified # {}
        /\ \E w \in SUBSET slots[k].modified : file' = Saved(SavedBefore(k) \cup w)
        /\ slots' = Clean(k)
        /\ answer' = [sector |-> NoSector, value |-> Failed]

Flush ==
    /\ ~crashed
    /\ FlushAll \/ FlushFails
    /\ UNCHANGED <<serial, crashed>>

Renewed ==
    /\ slots' = Vacant
    /\ serial' = 0
    /\ answer' = [sector |-> NoSector, value |-> Flushed]

\* Disk::Eject(), CleanUp() and others flush the cache, go on whatever the result,
\* and set up a new one, here for the same image file, later.
Renew ==
    /\ ~crashed
    /\ \/ file' = Saved(SavedBefore(CacheMax + 1))
       \/ \E k \in Slots :
            /\ slots[k].modified # {}
            /\ \E w \in SUBSET slots[k].modified : file' = Saved(SavedBefore(k) \cup w)
    /\ Renewed
    /\ UNCHANGED crashed

\* The program is started again after it has crashed, or after a power failure.
Restart ==
    /\ Renewed
    /\ crashed' = FALSE
    /\ UNCHANGED file

CacheNext ==
    \/ \E s \in Sectors : ReadSectors(s)
    \/ \E s \in Sectors, v \in Values : WriteSectors(s, v)
    \/ Flush
    \/ Renew
    \/ Restart

CacheSpec == CacheInit /\ [][CacheNext]_cacheVars

-----------------------------------------------------------------------------
\* The type invariant. A slot has exactly the sectors of its track.
CacheTypeOK ==
    /\ \A i \in Slots :
        /\ DOMAIN slots[i] = {"serial", "track", "data", "modified"}
        /\ slots[i].serial \in 0..(SerialLimit - 1)
        /\ \/ slots[i].track = NoTrack /\ slots[i].modified = {}
           \/ /\ slots[i].track \in {TrackOf(s) : s \in Sectors}
              /\ slots[i].data \in [TrackSectors(slots[i].track) -> Values]
              /\ slots[i].modified \subseteq TrackSectors(slots[i].track)
    /\ DOMAIN slots = Slots
    /\ serial \in 0..(SerialLimit - 1)
    /\ file \in [Sectors -> Values]
    /\ crashed \in BOOLEAN

\* No track is in two slots, and a sector that is not marked as modified is the
\* same in the file: otherwise an eviction or a flush would write old data over
\* new ones, or lose them.
CacheCoherent ==
    /\ \A i, j \in Slots : slots[i].track = slots[j].track /\ slots[i].track # NoTrack
                           => i = j
    /\ \A i \in Slots : slots[i].track # NoTrack =>
        \A s \in TrackSectors(slots[i].track) \ slots[i].modified :
            slots[i].data[s] = file[s]

Store == INSTANCE BlockStore WITH content <- [s \in Sectors |-> Content(s)],
                                  stored <- file, Nobody <- NoSector

\* The cache implements the plain array of BlockStore, for any order of
\* accesses, evictions, failing loads and saves, flushes and restarts: reading
\* returns what was written last, and what has been flushed is in the file.
ImplementsStore == Store!StoreSpec

=============================================================================
