---------------------------- MODULE StorageProofs ----------------------------
(***************************************************************************)
(* Proofs about what holds the data of the storage devices.  DiskCache is  *)
(* coherent and implements BlockStore, for any number of sectors, slots    *)
(* and serial numbers and any track size; the lemmas are about slots and   *)
(* files in general, so that they apply to the state before and after a    *)
(* step.  For ImageFiles: its type invariant, the exactness of the table   *)
(* of reserved files, that units do not share an image file, that the list *)
(* of devices stays consistent, and that files in use are kept.            *)
(***************************************************************************)
EXTENDS DiskCache, ImageFiles, SequenceTheorems, TLAPS

-----------------------------------------------------------------------------
(* The cache of a disk                                                     *)

\* Slot r is consistent with file f.
GoodSlot(r, f) ==
    /\ DOMAIN r = {"serial", "track", "data", "modified"}
    /\ r.serial \in 0..(SerialLimit - 1)
    /\ \/ r.track = NoTrack /\ r.modified = {}
       \/ /\ r.track \in {TrackOf(s) : s \in Sectors}
          /\ r.data \in [TrackSectors(r.track) -> Values]
          /\ r.modified \subseteq TrackSectors(r.track)
          /\ \A s \in TrackSectors(r.track) \ r.modified : r.data[s] = f[s]

Unique(sl) ==
    \A i, j \in Slots : sl[i].track = sl[j].track /\ sl[i].track # NoTrack => i = j

Good(sl, f) ==
    /\ DOMAIN sl = Slots
    /\ f \in [Sectors -> Values]
    /\ \A i \in Slots : GoodSlot(sl[i], f)
    /\ Unique(sl)

\* Content() for slots sl and a file f
View(sl, f, s) ==
    LET held == {i \in Slots : sl[i].track = TrackOf(s)}
    IN  IF held = {} THEN f[s] ELSE sl[CHOOSE i \in held : TRUE].data[s]

\* All sectors of slot r are the same in file f.
IsClean(r, f) ==
    r.track # NoTrack => \A s \in TrackSectors(r.track) : r.data[s] = f[s]

\* The slots sm differ from sl only in that sectors of w are not marked.
Remarked(sl, sm, w) ==
    /\ DOMAIN sm = Slots
    /\ \A i \in Slots :
        /\ DOMAIN sm[i] = {"serial", "track", "data", "modified"}
        /\ sm[i].serial \in 0..(SerialLimit - 1)
        /\ sm[i].track = sl[i].track /\ sm[i].data = sl[i].data
        /\ sm[i].modified \subseteq sl[i].modified
        /\ sl[i].modified \subseteq sm[i].modified \cup w

\* The file g differs from f in that the sectors w have been written.
Written(sl, f, g, w) ==
    /\ g \in [Sectors -> Values]
    /\ \A s \in Sectors : g[s] = IF s \in w THEN View(sl, f, s) ELSE f[s]

\* The slots sm differ from sl in that slot i is r.
Put(sl, sm, i, r) ==
    /\ DOMAIN sm = Slots
    /\ sm[i] = r
    /\ \A j \in Slots \ {i} : sm[j] = sl[j]

\* Slot i may be replaced by one with track t.
MayPut(sl, f, i, t) ==
    /\ IsClean(sl[i], f) \/ sl[i].track = t
    /\ t # NoTrack => \A j \in Slots \ {i} : sl[j].track # t

\* The inductive invariant
CacheInv == CacheTypeOK /\ CacheCoherent

-----------------------------------------------------------------------------

LEMMA TrackExists ==
    ASSUME NEW s \in Sectors
    PROVE  TrackOf(s) # NoTrack
<1>1. s \in Nat /\ TrackSize \in Nat /\ TrackSize > 0
  BY CacheAssumption DEF Sectors
<1>2. s \div TrackSize \in Nat
  BY <1>1, SMT
<1> QED
  BY <1>2 DEF TrackOf, NoTrack

LEMMA InvIsGood == CacheInv <=> /\ Good(slots, file)
                                /\ serial \in 0..(SerialLimit - 1)
                                /\ crashed \in BOOLEAN
<1>1. ASSUME CacheInv, NEW i \in Slots
      PROVE  GoodSlot(slots[i], file)
  <2>1. CASE slots[i].track = NoTrack /\ slots[i].modified = {}
    BY <1>1, <2>1 DEF CacheInv, CacheTypeOK, GoodSlot
  <2>2. CASE slots[i].track \in {TrackOf(s) : s \in Sectors}
    <3>1. slots[i].track # NoTrack
      BY <2>2, TrackExists
    <3> QED
      BY <1>1, <3>1 DEF CacheInv, CacheTypeOK, CacheCoherent, GoodSlot
  <2> QED
    BY <1>1, <2>1, <2>2 DEF CacheInv, CacheTypeOK
<1>2. CacheInv => /\ Good(slots, file)
                  /\ serial \in 0..(SerialLimit - 1)
                  /\ crashed \in BOOLEAN
  BY <1>1 DEF CacheInv, CacheTypeOK, CacheCoherent, Good, Unique
<1>3. ASSUME Good(slots, file), serial \in 0..(SerialLimit - 1), crashed \in BOOLEAN
      PROVE  CacheInv
  <2>1. CacheTypeOK
    BY <1>3 DEF CacheTypeOK, Good, GoodSlot
  <2>2. CacheCoherent
    BY <1>3 DEF CacheCoherent, Good, GoodSlot, Unique
  <2> QED
    BY <2>1, <2>2 DEF CacheInv
<1> QED
  BY <1>2, <1>3

LEMMA ContentIsView == \A s \in Sectors : Content(s) = View(slots, file, s)
  BY DEF Content, View, Holding

\* The view of a sector is that of the only slot with its track.
LEMMA ViewHeld ==
    ASSUME NEW sl, NEW f, Good(sl, f), NEW s \in Sectors, NEW i \in Slots,
           sl[i].track = TrackOf(s)
    PROVE  View(sl, f, s) = sl[i].data[s]
<1> DEFINE held == {j \in Slots : sl[j].track = TrackOf(s)}
<1>1. i \in held
  OBVIOUS
<1>2. \A j \in held : j = i
  BY TrackExists DEF Good, Unique
<1>3. (CHOOSE j \in held : TRUE) = i
  BY <1>1, <1>2
<1> QED
  BY <1>1, <1>3 DEF View

LEMMA ViewFree ==
    ASSUME NEW sl, NEW f, NEW s \in Sectors, \A i \in Slots : sl[i].track # TrackOf(s)
    PROVE  View(sl, f, s) = f[s]
  BY DEF View

LEMMA ViewTyped ==
    ASSUME NEW sl, NEW f, Good(sl, f), NEW s \in Sectors
    PROVE  View(sl, f, s) \in Values
<1>1. CASE \E i \in Slots : sl[i].track = TrackOf(s)
  <2>1. PICK i \in Slots : sl[i].track = TrackOf(s)
    BY <1>1
  <2>2. s \in TrackSectors(sl[i].track) /\ sl[i].data \in [TrackSectors(sl[i].track) -> Values]
    BY <2>1, TrackExists DEF Good, GoodSlot, TrackSectors
  <2> QED
    BY <2>1, <2>2, ViewHeld
<1>2. CASE \A i \in Slots : sl[i].track # TrackOf(s)
  BY <1>2, ViewFree DEF Good
<1> QED
  BY <1>1, <1>2

\* Slots with the same tracks and data show the same.
LEMMA ViewSame ==
    ASSUME NEW sl, NEW f, NEW sm,
           \A i \in Slots : sm[i].track = sl[i].track /\ sm[i].data = sl[i].data,
           NEW s \in Sectors
    PROVE  View(sm, f, s) = View(sl, f, s)
<1>1. {i \in Slots : sm[i].track = TrackOf(s)} = {i \in Slots : sl[i].track = TrackOf(s)}
  OBVIOUS
<1> DEFINE held == {i \in Slots : sl[i].track = TrackOf(s)}
<1>2. CASE held = {}
  BY <1>1, <1>2 DEF View
<1>3. CASE held # {}
  <2>1. (CHOOSE i \in held : TRUE) \in Slots
    BY <1>3
  <2>2. (CHOOSE i \in {j \in Slots : sm[j].track = TrackOf(s)} : TRUE)
        = (CHOOSE i \in held : TRUE)
    BY <1>1
  <2>3. View(sm, f, s) = sm[CHOOSE i \in held : TRUE].data[s]
    BY <1>1, <1>3, <2>2 DEF View
  <2>4. View(sl, f, s) = sl[CHOOSE i \in held : TRUE].data[s]
    BY <1>3 DEF View
  <2> QED
    BY <2>1, <2>3, <2>4
<1> QED
  BY <1>2, <1>3

-----------------------------------------------------------------------------
(* Changing slots and writing to the file                                  *)

\* Sectors are written to the file, and some slots mark them as unmodified.
LEMMA SavedGood ==
    ASSUME NEW sl, NEW f, Good(sl, f), NEW w, NEW sm, Remarked(sl, sm, w),
           NEW g, Written(sl, f, g, w)
    PROVE  Good(sm, g) /\ \A s \in Sectors : View(sm, g, s) = View(sl, f, s)
<1> USE DEF Remarked, Written
<1>2. Unique(sm)
  BY DEF Good, Unique
<1>3. ASSUME NEW i \in Slots
      PROVE  GoodSlot(sm[i], g)
  <2>1. CASE sl[i].track = NoTrack /\ sl[i].modified = {}
    BY <2>1 DEF GoodSlot
  <2>2. CASE sl[i].track # NoTrack
    <3>1. /\ sl[i].track \in {TrackOf(s) : s \in Sectors}
          /\ sl[i].data \in [TrackSectors(sl[i].track) -> Values]
          /\ sl[i].modified \subseteq TrackSectors(sl[i].track)
          /\ \A s \in TrackSectors(sl[i].track) \ sl[i].modified : sl[i].data[s] = f[s]
      BY <2>2 DEF Good, GoodSlot
    <3>2. ASSUME NEW s \in TrackSectors(sm[i].track) \ sm[i].modified
          PROVE  sm[i].data[s] = g[s]
      <4>1. s \in Sectors /\ sl[i].track = TrackOf(s) /\ s \in TrackSectors(sl[i].track)
        BY DEF TrackSectors
      <4>2. View(sl, f, s) = sl[i].data[s]
        BY <4>1, ViewHeld
      <4>3. CASE s \in w
        BY <4>1, <4>2, <4>3
      <4>4. CASE s \notin w
        BY <3>1, <4>1, <4>4
      <4> QED
        BY <4>3, <4>4
    <3> QED
      BY <3>1, <3>2 DEF GoodSlot
  <2>3. sl[i].track = NoTrack => sl[i].modified = {}
    BY TrackExists DEF Good, GoodSlot
  <2> QED
    BY <2>1, <2>2, <2>3
<1>4. Good(sm, g)
  <2>1. \A i \in Slots : GoodSlot(sm[i], g)
    BY <1>3
  <2> QED
    BY <1>2, <2>1, Zenon DEF Good
<1>5. ASSUME NEW s \in Sectors
      PROVE  View(sm, g, s) = View(sl, f, s)
  <2>1. CASE \E i \in Slots : sl[i].track = TrackOf(s)
    <3>1. PICK i \in Slots : sl[i].track = TrackOf(s)
      BY <2>1
    <3>2. View(sl, f, s) = sl[i].data[s]
      BY <3>1, ViewHeld
    <3>3. sm[i].track = TrackOf(s) /\ sm[i].data = sl[i].data
      BY <3>1
    <3>4. View(sm, g, s) = sm[i].data[s]
      BY <1>4, <3>3, ViewHeld
    <3> QED
      BY <3>2, <3>3, <3>4
  <2>2. CASE \A i \in Slots : sl[i].track # TrackOf(s)
    <3>1. View(sl, f, s) = f[s] /\ View(sm, g, s) = g[s]
      BY <2>2, ViewFree
    <3> QED
      BY <3>1
  <2> QED
    BY <2>1, <2>2
<1> QED
  BY <1>4, <1>5

\* Writing sectors to the file changes nothing else.
LEMMA WrittenGood ==
    ASSUME NEW sl, NEW f, Good(sl, f), NEW w, NEW g, Written(sl, f, g, w)
    PROVE  Good(sl, g) /\ \A s \in Sectors : View(sl, g, s) = View(sl, f, s)
<1>1. Remarked(sl, sl, w)
  BY DEF Good, GoodSlot, Remarked
<1> QED
  BY <1>1, SavedGood

\* A slot r is put in place of a clean one.
LEMMA PutGood ==
    ASSUME NEW sl, NEW f, Good(sl, f), NEW i \in Slots, NEW r, GoodSlot(r, f),
           MayPut(sl, f, i, r.track), NEW sm, Put(sl, sm, i, r)
    PROVE  /\ Good(sm, f)
           /\ \A s \in Sectors : View(sm, f, s) = IF r.track = TrackOf(s) THEN r.data[s]
                                                ELSE View(sl, f, s)
<1>1. sm[i] = r /\ (\A j \in Slots \ {i} : sm[j] = sl[j]) /\ DOMAIN sm = Slots
  BY DEF Put
<1> USE DEF MayPut
<1>2. Good(sm, f)
  <2>1. Unique(sm)
    BY <1>1 DEF Good, Unique
  <2>2. \A j \in Slots : GoodSlot(sm[j], f)
    BY <1>1 DEF Good
  <2> QED
    BY <1>1, <2>1, <2>2 DEF Good
<1>3. ASSUME NEW s \in Sectors, r.track = TrackOf(s)
      PROVE  View(sm, f, s) = r.data[s]
  <2>1. sm[i].track = TrackOf(s) /\ sm[i].data = r.data
    BY <1>1, <1>3
  <2>2. View(sm, f, s) = sm[i].data[s]
    BY <1>2, <2>1, ViewHeld
  <2> QED
    BY <2>1, <2>2
<1>4. ASSUME NEW s \in Sectors, r.track # TrackOf(s)
      PROVE  View(sm, f, s) = View(sl, f, s)
  <2>1. CASE \E j \in Slots \ {i} : sl[j].track = TrackOf(s)
    <3>1. PICK j \in Slots \ {i} : sl[j].track = TrackOf(s)
      BY <2>1
    <3>2. View(sl, f, s) = sl[j].data[s]
      BY <3>1, ViewHeld
    <3>3. sm[j].track = TrackOf(s) /\ sm[j].data = sl[j].data
      BY <1>1, <3>1
    <3>4. View(sm, f, s) = sm[j].data[s]
      BY <1>2, <3>3, ViewHeld
    <3> QED
      BY <3>2, <3>3, <3>4
  <2>2. CASE \A j \in Slots \ {i} : sl[j].track # TrackOf(s)
    <3>1. View(sm, f, s) = f[s]
      <4>1. \A j \in Slots : sm[j].track # TrackOf(s)
        BY <1>1, <1>4, <2>2
      <4> QED
        BY <4>1, ViewFree
    <3>2. CASE sl[i].track = TrackOf(s)
      <4>1. s \in TrackSectors(sl[i].track) /\ sl[i].track # NoTrack
        BY <3>2, TrackExists DEF TrackSectors
      <4>2. View(sl, f, s) = sl[i].data[s]
        BY <3>2, ViewHeld
      <4> QED
        BY <1>4, <3>1, <3>2, <4>1, <4>2 DEF IsClean
    <3>3. CASE sl[i].track # TrackOf(s)
      BY <2>2, <3>1, <3>3, ViewFree
    <3> QED
      BY <3>2, <3>3
  <2> QED
    BY <2>1, <2>2
<1> QED
  BY <1>2, <1>3, <1>4

LEMMA UseGood ==
    ASSUME NEW r, NEW f, GoodSlot(r, f), NEW s \in Sectors, r.track = TrackOf(s),
           NEW v \in Values \cup {Reading}
    PROVE  /\ GoodSlot(Use(r, s, v), f)
           /\ Use(r, s, v).track = r.track
           /\ \A x \in TrackSectors(r.track) :
                Use(r, s, v).data[x] = IF x = s /\ v # Reading THEN v ELSE r.data[x]
<1>1. s \in TrackSectors(r.track) /\ r.track # NoTrack
  BY TrackExists DEF TrackSectors
<1>2. CASE v \in {Reading, r.data[s]}
  BY <1>1, <1>2 DEF Use
<1>3. CASE v \notin {Reading, r.data[s]}
  <2> DEFINE u == [r EXCEPT !.data[s] = v, !.modified = @ \cup {s}]
  <2>1. Use(r, s, v) = u
    BY <1>3 DEF Use
  <2>2. /\ DOMAIN r = {"serial", "track", "data", "modified"}
        /\ r.serial \in 0..(SerialLimit - 1)
        /\ r.track \in {TrackOf(x) : x \in Sectors}
        /\ r.data \in [TrackSectors(r.track) -> Values]
        /\ r.modified \subseteq TrackSectors(r.track)
        /\ \A x \in TrackSectors(r.track) \ r.modified : r.data[x] = f[x]
    BY <1>1 DEF GoodSlot
  <2>3. /\ DOMAIN u = DOMAIN r
        /\ u.serial = r.serial /\ u.track = r.track
        /\ u.data = [r.data EXCEPT ![s] = v]
        /\ u.modified = r.modified \cup {s}
    BY <2>2
  <2> HIDE DEF u
  <2>4. \A x \in TrackSectors(r.track) : u.data[x] = IF x = s THEN v ELSE r.data[x]
    BY <1>1, <2>2, <2>3
  <2>5. u.data \in [TrackSectors(r.track) -> Values]
    BY <1>3, <2>2, <2>3
  <2>6. GoodSlot(u, f)
    BY <1>1, <2>2, <2>3, <2>4, <2>5 DEF GoodSlot
  <2> QED
    BY <1>3, <2>1, <2>3, <2>4, <2>6
<1> QED
  BY <1>2, <1>3

\* Writing some modified sectors of slot i to the file changes nothing else, and
\* writing all of them makes it clean.
LEMMA StoredGood ==
    ASSUME NEW sl, NEW f, Good(sl, f), NEW i \in Slots,
           NEW w, w \subseteq sl[i].modified, NEW g, g = Stored(f, sl[i], w)
    PROVE  /\ Good(sl, g)
           /\ \A s \in Sectors : View(sl, g, s) = View(sl, f, s)
           /\ \A s \in Sectors : g[s] \in {f[s], View(sl, f, s)}
           /\ w = sl[i].modified => IsClean(sl[i], g)
<1>1. ASSUME NEW s \in Sectors
      PROVE  g[s] = IF s \in w THEN View(sl, f, s) ELSE f[s]
  <2>1. g[s] = IF s \in w THEN sl[i].data[s] ELSE f[s]
    BY DEF Stored
  <2>2. ASSUME s \in w
        PROVE  View(sl, f, s) = sl[i].data[s]
    <3>1. s \in TrackSectors(sl[i].track)
      BY <2>2 DEF Good, GoodSlot
    <3>2. sl[i].track = TrackOf(s)
      BY <3>1 DEF TrackSectors
    <3> QED
      BY <3>2, ViewHeld
  <2> QED
    BY <2>1, <2>2
<1>2. g \in [Sectors -> Values]
  <2>1. g = [s \in Sectors |-> g[s]]
    BY DEF Stored
  <2>2. \A s \in Sectors : g[s] \in Values
    BY <1>1, ViewTyped DEF Good
  <2> QED
    BY <2>1, <2>2
<1>4. Good(sl, g) /\ \A s \in Sectors : View(sl, g, s) = View(sl, f, s)
  <2>1. Written(sl, f, g, w)
    BY <1>1, <1>2 DEF Written
  <2> QED
    BY <2>1, WrittenGood
<1>5. ASSUME w = sl[i].modified, sl[i].track # NoTrack,
             NEW s \in TrackSectors(sl[i].track)
      PROVE  sl[i].data[s] = g[s]
  <2>1. s \in Sectors /\ sl[i].track = TrackOf(s)
    BY DEF TrackSectors
  <2>2. View(sl, f, s) = sl[i].data[s]
    BY <2>1, ViewHeld
  <2>3. s \notin w => sl[i].data[s] = f[s]
    BY <1>5 DEF Good, GoodSlot
  <2> QED
    BY <1>1, <2>1, <2>2, <2>3
<1> QED
  BY <1>1, <1>4, <1>5 DEF IsClean

\* Slot r, which holds the track of sector s, may replace slot i.
Replaces(sl, f, i, r, s) ==
    /\ GoodSlot(r, f)
    /\ r.track = TrackOf(s)
    /\ MayPut(sl, f, i, r.track)
    /\ \A x \in TrackSectors(r.track) : r.data[x] = View(sl, f, x)

\* An access with slot r in place of slot i changes at most sector s.
LEMMA AccessGood ==
    ASSUME NEW sl, NEW f, Good(sl, f), NEW i \in Slots, NEW r, NEW s \in Sectors,
           Replaces(sl, f, i, r, s), NEW v \in Values \cup {Reading},
           NEW sm, Put(sl, sm, i, Use(r, s, v))
    PROVE  /\ Good(sm, f)
           /\ \A x \in Sectors :
                View(sm, f, x) = IF x = s /\ v # Reading THEN v ELSE View(sl, f, x)
           /\ Use(r, s, v).data[s] = IF v # Reading THEN v ELSE View(sl, f, s)
<1> DEFINE u == Use(r, s, v)
<1>1. /\ GoodSlot(r, f)
      /\ r.track = TrackOf(s)
      /\ MayPut(sl, f, i, r.track)
      /\ \A x \in TrackSectors(r.track) : r.data[x] = View(sl, f, x)
  BY DEF Replaces
<1>2. /\ GoodSlot(u, f)
      /\ u.track = r.track
      /\ \A x \in TrackSectors(r.track) :
            u.data[x] = IF x = s /\ v # Reading THEN v ELSE r.data[x]
  BY <1>1, UseGood
<1>3. Put(sl, sm, i, u)
  OBVIOUS
<1> HIDE DEF u
<1>4. /\ Good(sm, f)
      /\ \A x \in Sectors : View(sm, f, x) = IF u.track = TrackOf(x) THEN u.data[x]
                                             ELSE View(sl, f, x)
  <2>1. MayPut(sl, f, i, u.track)
    BY <1>1, <1>2
  <2> QED
    BY <1>2, <1>3, <2>1, PutGood
<1>5. ASSUME NEW x \in Sectors
      PROVE  View(sm, f, x) = IF x = s /\ v # Reading THEN v ELSE View(sl, f, x)
  <2>1. CASE r.track = TrackOf(x)
    <3>1. x \in TrackSectors(r.track)
      BY <2>1 DEF TrackSectors
    <3> QED
      BY <1>1, <1>2, <1>4, <2>1, <3>1
  <2>2. CASE r.track # TrackOf(x)
    BY <1>1, <1>2, <1>4, <2>2
  <2> QED
    BY <2>1, <2>2
<1>6. u.data[s] = IF v # Reading THEN v ELSE View(sl, f, s)
  BY <1>1, <1>2 DEF TrackSectors
<1> QED
  BY <1>4, <1>5, <1>6 DEF u
-----------------------------------------------------------------------------
(* The actions                                                             *)

\* What every step does: the slots stay consistent with the file, which
\* receives nothing but the current content of sectors.
GoodStep ==
    /\ Good(slots', file')
    /\ serial' \in 0..(SerialLimit - 1)
    /\ crashed' \in BOOLEAN
    /\ \A s \in Sectors : file'[s] \in {file[s], View(slots, file, s)}

\* The content is kept.
Keeps == \A s \in Sectors : View(slots', file', s) = View(slots, file, s)

\* Sector s has been read, or v has been written to it.
Accessed(s, v) ==
    /\ \A x \in Sectors : View(slots', file', x) = IF x = s /\ v # Reading THEN v
                                                    ELSE View(slots, file, x)
    /\ answer' = [sector |-> s,
                  value |-> IF v # Reading THEN v ELSE View(slots, file, s)]

FailedAt(s) == Keeps /\ answer' = [sector |-> s, value |-> Failed]

LEMMA NextSerialTyped == serial \in 0..(SerialLimit - 1) => NextSerial \in 0..(SerialLimit - 1)
  BY CacheAssumption, SMT DEF NextSerial

LEMMA AgedSame ==
    ASSUME CacheInv
    PROVE  /\ Remarked(slots, Aged, {})
           /\ \A i \in Slots : Aged[i].modified = slots[i].modified
<1>1. /\ DOMAIN slots = Slots
      /\ \A i \in Slots : GoodSlot(slots[i], file)
  BY InvIsGood DEF Good
<1>2. \A i \in Slots : /\ DOMAIN slots[i] = {"serial", "track", "data", "modified"}
                       /\ slots[i].serial \in 0..(SerialLimit - 1)
  BY <1>1 DEF GoodSlot
<1>3. 0 \in 0..(SerialLimit - 1)
  BY CacheAssumption
<1>4. CASE NextSerial # 0
  BY <1>1, <1>2, <1>4 DEF Aged, Remarked
<1>5. CASE NextSerial = 0
  <2>1. Aged = [i \in Slots |-> [slots[i] EXCEPT !.serial = 0]]
    BY <1>5 DEF Aged
  <2>2. ASSUME NEW i \in Slots
        PROVE  /\ DOMAIN Aged[i] = {"serial", "track", "data", "modified"}
               /\ Aged[i].serial = 0
               /\ Aged[i].track = slots[i].track /\ Aged[i].data = slots[i].data
               /\ Aged[i].modified = slots[i].modified
    BY <1>2, <2>1
  <2> QED
    BY <1>3, <2>1, <2>2 DEF Remarked
<1> QED
  BY <1>4, <1>5

LEMMA FileWritten ==
    ASSUME CacheInv
    PROVE  Written(slots, file, file, {})
  BY InvIsGood DEF Good, Written

LEMMA AgedGood ==
    ASSUME CacheInv
    PROVE  Good(Aged, file) /\ \A s \in Sectors : View(Aged, file, s) = View(slots, file, s)
<1>1. Good(slots, file)
  BY InvIsGood
<1> QED
  BY <1>1, AgedSame, FileWritten, SavedGood

\* Slot i is replaced in the aged slots while the file becomes f.
LEMMA SucceedGood ==
    ASSUME CacheInv, NEW f, Good(Aged, f), NEW i \in Slots, NEW r, NEW s \in Sectors,
           Replaces(Aged, f, i, r, s), NEW v \in Values \cup {Reading},
           Succeed(i, r, s, v), file' = f,
           \A x \in Sectors : View(Aged, f, x) = View(slots, file, x),
           \A x \in Sectors : f[x] \in {file[x], View(slots, file, x)}
    PROVE  GoodStep /\ Accessed(s, v)
<1>1. Put(Aged, slots', i, Use(r, s, v))
  BY DEF Succeed, Put, Good
<1>2. /\ Good(slots', f)
      /\ \A x \in Sectors :
           View(slots', f, x) = IF x = s /\ v # Reading THEN v ELSE View(Aged, f, x)
      /\ Use(r, s, v).data[s] = IF v # Reading THEN v ELSE View(Aged, f, s)
  BY <1>1, AccessGood
<1>3. serial' \in 0..(SerialLimit - 1) /\ crashed' \in BOOLEAN
  BY InvIsGood, NextSerialTyped DEF Succeed
<1>4. GoodStep
  BY <1>2, <1>3 DEF GoodStep
<1>5. Accessed(s, v)
  <2>1. \A x \in Sectors : View(slots', file', x) = IF x = s /\ v # Reading THEN v
                                                    ELSE View(slots, file, x)
    BY <1>2
  <2>2. answer'.value = IF v # Reading THEN v ELSE View(slots, file, s)
    BY <1>2 DEF Succeed
  <2>3. answer' = [sector |-> s, value |-> answer'.value]
    BY DEF Succeed
  <2> QED
    BY <2>1, <2>2, <2>3 DEF Accessed
<1> QED
  BY <1>4, <1>5
\* A track that no slot holds may be loaded in place of a clean one.
LEMMA LoadedReplaces ==
    ASSUME NEW sl, NEW f, Good(sl, f), NEW i \in Slots, IsClean(sl[i], f),
           NEW s \in Sectors, \A j \in Slots : sl[j].track # TrackOf(s),
           NEW n \in 0..(SerialLimit - 1)
    PROVE  Replaces(sl, f, i, Loaded(TrackOf(s), f, n), s)
<1> DEFINE r == Loaded(TrackOf(s), f, n)
<1>1. /\ DOMAIN r = {"serial", "track", "data", "modified"}
      /\ r.serial = n /\ r.track = TrackOf(s) /\ r.modified = {}
      /\ r.data = [x \in TrackSectors(TrackOf(s)) |-> f[x]]
  BY DEF Loaded
<1> HIDE DEF r
<1>2. \A x \in TrackSectors(TrackOf(s)) : x \in Sectors /\ TrackOf(x) = TrackOf(s)
  BY DEF TrackSectors
<1>3. \A x \in TrackSectors(TrackOf(s)) : r.data[x] = f[x] /\ f[x] \in Values
  BY <1>1, <1>2 DEF Good
<1>4. GoodSlot(r, f)
  <2>1. r.data \in [TrackSectors(TrackOf(s)) -> Values]
    BY <1>1, <1>3
  <2> QED
    BY <1>1, <1>3, <2>1 DEF GoodSlot
<1>5. MayPut(sl, f, i, r.track)
  BY <1>1 DEF MayPut
<1>6. ASSUME NEW x \in TrackSectors(r.track)
      PROVE  r.data[x] = View(sl, f, x)
  <2>1. x \in Sectors /\ \A j \in Slots : sl[j].track # TrackOf(x)
    BY <1>1, <1>2
  <2>2. View(sl, f, x) = f[x]
    BY <2>1, ViewFree
  <2> QED
    BY <1>1, <1>3, <2>2
<1>7. Replaces(sl, f, i, r, s)
  BY <1>1, <1>4, <1>5, <1>6 DEF Replaces
<1> QED
  BY <1>7 DEF r

LEMMA HitStep ==
    ASSUME CacheInv, NEW s \in Sectors, NEW v \in Values \cup {Reading}, Hit(s, v)
    PROVE  GoodStep /\ Accessed(s, v)
<1>1. PICK i \in Holding(TrackOf(s)) :
        /\ Succeed(i, [slots[i] EXCEPT !.serial = NextSerial], s, v)
        /\ UNCHANGED file
  BY DEF Hit
<1> DEFINE r == [slots[i] EXCEPT !.serial = NextSerial]
<1>2. i \in Slots /\ slots[i].track = TrackOf(s)
  BY <1>1 DEF Holding
<1>3. Good(slots, file) /\ serial \in 0..(SerialLimit - 1)
  BY InvIsGood
<1>4. /\ DOMAIN slots[i] = {"serial", "track", "data", "modified"}
      /\ GoodSlot(slots[i], file)
  BY <1>2, <1>3 DEF Good, GoodSlot
<1>5. /\ DOMAIN r = {"serial", "track", "data", "modified"}
      /\ r.serial = NextSerial /\ r.track = slots[i].track
      /\ r.data = slots[i].data /\ r.modified = slots[i].modified
  BY <1>4
<1> HIDE DEF r
<1>6. GoodSlot(r, file)
  BY <1>3, <1>4, <1>5, NextSerialTyped DEF GoodSlot
<1>7. /\ Good(Aged, file)
      /\ \A x \in Sectors : View(Aged, file, x) = View(slots, file, x)
  BY AgedGood
<1>8. Aged[i].track = r.track /\ Aged[i].data = r.data
  BY <1>2, <1>5, AgedSame DEF Remarked
<1>9. MayPut(Aged, file, i, r.track)
  BY <1>2, <1>7, <1>8, TrackExists DEF MayPut, Good, Unique
<1>10. ASSUME NEW x \in TrackSectors(r.track)
       PROVE  r.data[x] = View(Aged, file, x)
  <2>1. x \in Sectors /\ Aged[i].track = TrackOf(x)
    BY <1>8 DEF TrackSectors
  <2>2. View(Aged, file, x) = Aged[i].data[x]
    BY <1>2, <1>7, <2>1, ViewHeld
  <2> QED
    BY <1>8, <2>2
<1>11. Replaces(Aged, file, i, r, s)
  BY <1>2, <1>5, <1>6, <1>9, <1>10 DEF Replaces
<1>12. Succeed(i, r, s, v) /\ file' = file
  BY <1>1 DEF r
<1>13. \A x \in Sectors : file[x] \in {file[x], View(slots, file, x)}
  OBVIOUS
<1> QED
  BY <1>2, <1>7, <1>11, <1>12, <1>13, SucceedGood

LEMMA FillStep ==
    ASSUME CacheInv, NEW s \in Sectors, NEW v \in Values \cup {Reading}, Fill(s, v)
    PROVE  GoodStep /\ Accessed(s, v)
<1>1. PICK i \in Holding(NoTrack) : Succeed(i, Loaded(TrackOf(s), file, NextSerial), s, v)
  BY DEF Fill
<1>2. i \in Slots /\ slots[i].track = NoTrack /\ Holding(TrackOf(s)) = {} /\ file' = file
  BY <1>1 DEF Fill, Holding
<1>3. /\ Good(Aged, file)
      /\ \A x \in Sectors : View(Aged, file, x) = View(slots, file, x)
  BY AgedGood
<1>4. NextSerial \in 0..(SerialLimit - 1)
  BY InvIsGood, NextSerialTyped
<1>5. \A j \in Slots : Aged[j].track = slots[j].track
  BY AgedSame DEF Remarked
<1>6. \A j \in Slots : Aged[j].track # TrackOf(s)
  BY <1>2, <1>5 DEF Holding
<1>7. IsClean(Aged[i], file)
  BY <1>2, <1>5 DEF IsClean
<1>8. Replaces(Aged, file, i, Loaded(TrackOf(s), file, NextSerial), s)
  BY <1>2, <1>3, <1>4, <1>6, <1>7, LoadedReplaces
<1>9. \A x \in Sectors : file[x] \in {file[x], View(slots, file, x)}
  OBVIOUS
<1> QED
  BY <1>1, <1>2, <1>3, <1>8, <1>9, SucceedGood
\* Saving sectors w of slot i into file g, seen from the aged slots
LEMMA StoredAged ==
    ASSUME CacheInv, NEW i \in Slots, NEW w, w \subseteq slots[i].modified,
           NEW g, g = Stored(file, slots[i], w)
    PROVE  /\ Good(Aged, g)
           /\ \A s \in Sectors : View(Aged, g, s) = View(slots, file, s)
           /\ \A s \in Sectors : g[s] \in {file[s], View(slots, file, s)}
           /\ w = slots[i].modified => IsClean(Aged[i], g)
<1>1. /\ Good(Aged, file)
      /\ \A s \in Sectors : View(Aged, file, s) = View(slots, file, s)
  BY AgedGood
<1>2. Aged[i].modified = slots[i].modified /\ Aged[i].data = slots[i].data
  BY AgedSame DEF Remarked
<1>3. g = Stored(file, Aged[i], w)
  BY <1>2 DEF Stored
<1>4. w \subseteq Aged[i].modified
  BY <1>2
<1>5. /\ Good(Aged, g)
      /\ \A s \in Sectors : View(Aged, g, s) = View(Aged, file, s)
      /\ \A s \in Sectors : g[s] \in {file[s], View(Aged, file, s)}
      /\ w = Aged[i].modified => IsClean(Aged[i], g)
  BY <1>1, <1>3, <1>4, StoredGood
<1> QED
  BY <1>1, <1>2, <1>5

LEMMA EmptiedGood ==
    ASSUME NEW sl, NEW f, Good(sl, f), NEW i \in Slots, IsClean(sl[i], f),
           NEW sm, Put(sl, sm, i, Empty(sl[i].serial))
    PROVE  Good(sm, f) /\ \A s \in Sectors : View(sm, f, s) = View(sl, f, s)
<1> DEFINE r == Empty(sl[i].serial)
<1>1. /\ DOMAIN r = {"serial", "track", "data", "modified"}
      /\ r.serial = sl[i].serial /\ r.track = NoTrack /\ r.modified = {}
  BY DEF Empty
<1>2. Put(sl, sm, i, r)
  OBVIOUS
<1> HIDE DEF r
<1>3. GoodSlot(r, f)
  BY <1>1 DEF Good, GoodSlot
<1>4. MayPut(sl, f, i, r.track)
  BY <1>1 DEF MayPut
<1>5. /\ Good(sm, f)
      /\ \A s \in Sectors : View(sm, f, s) = IF r.track = TrackOf(s) THEN r.data[s]
                                             ELSE View(sl, f, s)
  BY <1>2, <1>3, <1>4, PutGood
<1> QED
  BY <1>1, <1>5, TrackExists

LEMMA ReplaceStep ==
    ASSUME CacheInv, NEW s \in Sectors, NEW v \in Values \cup {Reading}, Replace(s, v)
    PROVE  GoodStep /\ (Accessed(s, v) \/ FailedAt(s))
<1>1. PICK i \in Slots :
        \/ /\ file' = Stored(file, slots[i], slots[i].modified)
           /\ \/ Succeed(i, Loaded(TrackOf(s), file', NextSerial), s, v)
              \/ FailWith(AfterFailedLoad(i, TrackOf(s)), s)
        \/ /\ \E w \in SUBSET slots[i].modified : file' = Stored(file, slots[i], w)
           /\ FailWith(Aged, s)
  BY DEF Replace
<1>2. \A j \in Slots : Aged[j].track # TrackOf(s)
  BY AgedSame DEF Replace, Holding, Remarked
<1>3. NextSerial \in 0..(SerialLimit - 1) /\ crashed \in BOOLEAN
  BY InvIsGood, NextSerialTyped
<1>4. ASSUME file' = Stored(file, slots[i], slots[i].modified)
      PROVE  /\ Good(Aged, file')
             /\ \A x \in Sectors : View(Aged, file', x) = View(slots, file, x)
             /\ \A x \in Sectors : file'[x] \in {file[x], View(slots, file, x)}
             /\ IsClean(Aged[i], file')
  BY <1>4, StoredAged
<1>5. CASE /\ file' = Stored(file, slots[i], slots[i].modified)
           /\ Succeed(i, Loaded(TrackOf(s), file', NextSerial), s, v)
  <2>1. Replaces(Aged, file', i, Loaded(TrackOf(s), file', NextSerial), s)
    BY <1>2, <1>3, <1>4, <1>5, LoadedReplaces
  <2> QED
    BY <1>4, <1>5, <2>1, SucceedGood
<1>6. CASE /\ file' = Stored(file, slots[i], slots[i].modified)
           /\ FailWith(AfterFailedLoad(i, TrackOf(s)), s)
  <2>1. Put(Aged, slots', i, Empty(Aged[i].serial))
    BY <1>6, AgedSame DEF FailWith, AfterFailedLoad, Put, Remarked
  <2>2. Good(slots', file') /\ \A x \in Sectors : View(slots', file', x) = View(Aged, file', x)
    BY <1>4, <1>6, <2>1, EmptiedGood
  <2>3. Keeps
    BY <1>4, <1>6, <2>2 DEF Keeps
  <2>4. GoodStep
    BY <1>3, <1>4, <1>6, <2>2 DEF GoodStep, FailWith
  <2> QED
    BY <1>6, <2>3, <2>4 DEF FailedAt, FailWith
<1>7. CASE /\ \E w \in SUBSET slots[i].modified : file' = Stored(file, slots[i], w)
           /\ FailWith(Aged, s)
  <2>1. PICK w \in SUBSET slots[i].modified : file' = Stored(file, slots[i], w)
    BY <1>7
  <2>2. /\ Good(Aged, file')
        /\ \A x \in Sectors : View(Aged, file', x) = View(slots, file, x)
        /\ \A x \in Sectors : file'[x] \in {file[x], View(slots, file, x)}
    BY <2>1, StoredAged
  <2>3. slots' = Aged
    BY <1>7 DEF FailWith
  <2>4. Keeps
    BY <2>2, <2>3 DEF Keeps
  <2>5. GoodStep
    BY <1>3, <1>7, <2>2, <2>3 DEF GoodStep, FailWith
  <2> QED
    BY <1>7, <2>4, <2>5 DEF FailedAt, FailWith
<1> QED
  BY <1>1, <1>5, <1>6, <1>7

-----------------------------------------------------------------------------

\* Saving sectors w, which include those of the slots before k
LEMMA SavedStep ==
    ASSUME CacheInv, NEW k \in 1..(CacheMax + 1), NEW w, SavedBefore(k) \subseteq w
    PROVE  /\ Written(slots, file, Saved(w), w)
           /\ Remarked(slots, Clean(k), w)
<1>1. Good(slots, file)
  BY InvIsGood
<1>2. Written(slots, file, Saved(w), w)
  <2>1. \A s \in Sectors : Saved(w)[s] = IF s \in w THEN View(slots, file, s) ELSE file[s]
    BY ContentIsView DEF Saved
  <2>2. \A s \in Sectors : Saved(w)[s] \in Values
    BY <1>1, <2>1, ViewTyped DEF Good
  <2>3. Saved(w) \in [Sectors -> Values]
    <3>1. Saved(w) = [s \in Sectors |-> Saved(w)[s]]
      BY DEF Saved
    <3> QED
      BY <2>2, <3>1
  <2> QED
    BY <2>1, <2>3 DEF Written
<1>3. Remarked(slots, Clean(k), w)
  <2>1. DOMAIN Clean(k) = Slots
    BY DEF Clean
  <2>2. ASSUME NEW i \in Slots
        PROVE  /\ DOMAIN Clean(k)[i] = {"serial", "track", "data", "modified"}
               /\ Clean(k)[i].serial \in 0..(SerialLimit - 1)
               /\ Clean(k)[i].track = slots[i].track /\ Clean(k)[i].data = slots[i].data
               /\ Clean(k)[i].modified \subseteq slots[i].modified
               /\ slots[i].modified \subseteq Clean(k)[i].modified \cup w
    <3>1. /\ DOMAIN slots[i] = {"serial", "track", "data", "modified"}
          /\ slots[i].serial \in 0..(SerialLimit - 1)
      BY <1>1 DEF Good, GoodSlot
    <3>2. CASE i < k
      <4>1. i \in 1..(k - 1)
        BY <3>2, CacheAssumption DEF Slots
      <4>2. slots[i].modified \subseteq w
        BY <4>1 DEF SavedBefore
      <4>3. Clean(k)[i] = [slots[i] EXCEPT !.modified = {}]
        BY <3>2 DEF Clean
      <4> QED
        BY <3>1, <4>2, <4>3
    <3>3. CASE ~(i < k)
      BY <3>1, <3>3 DEF Clean
    <3> QED
      BY <3>2, <3>3
  <2> QED
    BY <2>1, <2>2 DEF Remarked
<1> QED
  BY <1>2, <1>3

\* All modified sectors: nothing is left to be saved then.
LEMMA AllSaved ==
    ASSUME CacheInv, NEW s \in Sectors
    PROVE  Saved(SavedBefore(CacheMax + 1))[s] = View(slots, file, s)
<1> SUFFICES ASSUME NEW w, w = SavedBefore(CacheMax + 1)
             PROVE  Saved(w)[s] = View(slots, file, s)
  OBVIOUS
<1>1. Saved(w)[s] = IF s \in w THEN View(slots, file, s) ELSE file[s]
  BY ContentIsView DEF Saved
<1>2. Good(slots, file)
  BY InvIsGood
<1>3. CASE \E i \in Slots : slots[i].track = TrackOf(s)
  <2>1. PICK i \in Slots : slots[i].track = TrackOf(s)
    BY <1>3
  <2>2. View(slots, file, s) = slots[i].data[s]
    BY <1>2, <2>1, ViewHeld
  <2>3. i \in 1..((CacheMax + 1) - 1)
    BY CacheAssumption DEF Slots
  <2>4. s \in slots[i].modified => s \in w
    BY <2>3 DEF SavedBefore
  <2>5. s \in TrackSectors(slots[i].track) /\ slots[i].track # NoTrack
    BY <2>1, TrackExists DEF TrackSectors
  <2>6. s \notin slots[i].modified => slots[i].data[s] = file[s]
    BY <1>2, <2>5 DEF Good, GoodSlot
  <2> QED
    BY <1>1, <2>2, <2>4, <2>6
<1>4. CASE \A i \in Slots : slots[i].track # TrackOf(s)
  BY <1>1, <1>4, ViewFree
<1> QED
  BY <1>3, <1>4
\* Saving, and marking the slots before k as unmodified, changes nothing else.
LEMMA CleanStep ==
    ASSUME CacheInv, NEW k \in 1..(CacheMax + 1), NEW w, SavedBefore(k) \subseteq w,
           file' = Saved(w), slots' = Clean(k)
    PROVE  Good(slots', file') /\ Keeps
<1>1. Good(slots, file)
  BY InvIsGood
<1>2. Written(slots, file, file', w) /\ Remarked(slots, slots', w)
  BY SavedStep
<1>3. Good(slots', file') /\ \A s \in Sectors : View(slots', file', s) = View(slots, file, s)
  BY <1>1, <1>2, SavedGood
<1> QED
  BY <1>3 DEF Keeps

LEMMA SavedPersists ==
    ASSUME CacheInv, NEW w, file' = Saved(w)
    PROVE  \A s \in Sectors : file'[s] \in {file[s], View(slots, file, s)}
  BY ContentIsView DEF Saved

LEMMA FlushStep ==
    ASSUME CacheInv, Flush
    PROVE  /\ GoodStep
           /\ \/ FailedAt(NoSector)
              \/ /\ Keeps
                 /\ \A s \in Sectors : file'[s] = View(slots, file, s)
                 /\ answer' = [sector |-> NoSector, value |-> Flushed]
<1>1. /\ serial' \in 0..(SerialLimit - 1)
      /\ crashed' \in BOOLEAN
  BY InvIsGood DEF Flush
<1>2. CASE FlushAll
  <2>1. CacheMax + 1 \in 1..(CacheMax + 1)
    BY CacheAssumption
  <2>2. file' = Saved(SavedBefore(CacheMax + 1)) /\ slots' = Clean(CacheMax + 1)
    BY <1>2 DEF FlushAll
  <2>3. Good(slots', file') /\ Keeps
    BY <2>1, <2>2, CleanStep
  <2>4. \A s \in Sectors : file'[s] = View(slots, file, s)
    BY <2>2, AllSaved
  <2>5. GoodStep
    BY <1>1, <2>3, <2>4 DEF GoodStep
  <2> QED
    BY <1>2, <2>3, <2>4, <2>5 DEF FlushAll
<1>3. CASE FlushFails
  <2>1. PICK k \in Slots :
          /\ \E w \in SUBSET slots[k].modified : file' = Saved(SavedBefore(k) \cup w)
          /\ slots' = Clean(k)
          /\ answer' = [sector |-> NoSector, value |-> Failed]
    BY <1>3 DEF FlushFails
  <2>2. PICK w : file' = Saved(SavedBefore(k) \cup w)
    BY <2>1
  <2>3. k \in 1..(CacheMax + 1)
    BY CacheAssumption DEF Slots
  <2>4. SavedBefore(k) \subseteq SavedBefore(k) \cup w
    OBVIOUS
  <2>5. Good(slots', file') /\ Keeps
    BY <2>1, <2>2, <2>3, <2>4, CleanStep
  <2>6. GoodStep
    BY <1>1, <2>2, <2>5, SavedPersists DEF GoodStep
  <2> QED
    BY <2>1, <2>5, <2>6 DEF FailedAt
<1> QED
  BY <1>2, <1>3 DEF Flush

\* Without tracks, the content is that of the file.
LEMMA VacantGood ==
    ASSUME NEW f, f \in [Sectors -> Values]
    PROVE  Good(Vacant, f) /\ \A s \in Sectors : View(Vacant, f, s) = f[s]
<1>1. \A i \in Slots : Vacant[i] = Empty(0)
  BY DEF Vacant
<1>2. \A i \in Slots : /\ DOMAIN Vacant[i] = {"serial", "track", "data", "modified"}
                       /\ Vacant[i].serial = 0
                       /\ Vacant[i].track = NoTrack /\ Vacant[i].modified = {}
  BY <1>1 DEF Empty
<1>3. 0 \in 0..(SerialLimit - 1)
  BY CacheAssumption
<1>4. Good(Vacant, f)
  <2>1. DOMAIN Vacant = Slots
    BY DEF Vacant
  <2>2. \A i \in Slots : GoodSlot(Vacant[i], f)
    BY <1>2, <1>3 DEF GoodSlot
  <2>3. Unique(Vacant)
    BY <1>2 DEF Unique
  <2> QED
    BY <2>1, <2>2, <2>3 DEF Good
<1>5. \A s \in Sectors : View(Vacant, f, s) = f[s]
  BY <1>2, TrackExists, ViewFree
<1> QED
  BY <1>4, <1>5

\* The content becomes that of the file.
Restarted ==
    /\ \A s \in Sectors : View(slots', file', s) = file'[s]
    /\ answer' = [sector |-> NoSector, value |-> Flushed]

LEMMA RenewStep ==
    ASSUME CacheInv, Renew
    PROVE  GoodStep /\ Restarted
<1>1. \E k \in 1..(CacheMax + 1) : \E w : SavedBefore(k) \subseteq w /\ file' = Saved(w)
  <2>1. CASE file' = Saved(SavedBefore(CacheMax + 1))
    <3>1. CacheMax + 1 \in 1..(CacheMax + 1)
      BY CacheAssumption
    <3> QED
      BY <2>1, <3>1
  <2>2. CASE \E k \in Slots :
               \E w \in SUBSET slots[k].modified : file' = Saved(SavedBefore(k) \cup w)
    <3>1. PICK k \in Slots : \E w : file' = Saved(SavedBefore(k) \cup w)
      BY <2>2
    <3>2. PICK w : file' = Saved(SavedBefore(k) \cup w)
      BY <3>1
    <3>3. k \in 1..(CacheMax + 1)
      BY CacheAssumption DEF Slots
    <3>4. SavedBefore(k) \subseteq SavedBefore(k) \cup w
      OBVIOUS
    <3> QED
      BY <3>2, <3>3, <3>4
  <2> QED
    BY <2>1, <2>2 DEF Renew
<1>2. PICK k \in 1..(CacheMax + 1) :
        \E w : SavedBefore(k) \subseteq w /\ file' = Saved(w)
  BY <1>1
<1>3. PICK w : SavedBefore(k) \subseteq w /\ file' = Saved(w)
  BY <1>2
<1>4. Written(slots, file, file', w)
  BY <1>3, SavedStep
<1>5. slots' = Vacant /\ serial' = 0 /\ crashed' = crashed
      /\ answer' = [sector |-> NoSector, value |-> Flushed]
  BY DEF Renew, Renewed
<1>6. Good(slots', file') /\ \A s \in Sectors : View(slots', file', s) = file'[s]
  BY <1>4, <1>5, VacantGood DEF Written
<1>7. \A s \in Sectors : file'[s] \in {file[s], View(slots, file, s)}
  BY <1>3, SavedPersists
<1>8. GoodStep
  BY <1>5, <1>6, <1>7, InvIsGood, CacheAssumption DEF GoodStep
<1> QED
  BY <1>5, <1>6, <1>8 DEF Restarted

LEMMA RestartStep ==
    ASSUME CacheInv, Restart
    PROVE  GoodStep /\ Restarted
<1>1. slots' = Vacant /\ serial' = 0 /\ crashed' = FALSE /\ file' = file
      /\ answer' = [sector |-> NoSector, value |-> Flushed]
  BY DEF Restart, Renewed
<1>2. file \in [Sectors -> Values]
  BY InvIsGood DEF Good
<1>3. Good(slots', file') /\ \A s \in Sectors : View(slots', file', s) = file'[s]
  BY <1>1, <1>2, VacantGood
<1>4. serial' \in 0..(SerialLimit - 1)
  BY <1>1, CacheAssumption
<1>5. crashed' \in BOOLEAN
  BY <1>1, Zenon
<1>6. GoodStep
  BY <1>1, <1>3, <1>4, <1>5 DEF GoodStep
<1> QED
  BY <1>1, <1>3, <1>6 DEF Restarted

\* A step that changes nothing that can be seen from outside
Unseen == UNCHANGED <<slots, file, answer>>

\* What a step of the cache amounts to
Outcome ==
    \/ \E s \in Sectors, v \in Values \cup {Reading} : Accessed(s, v)
    \/ \E s \in Sectors \cup {NoSector} : FailedAt(s)
    \/ /\ Keeps
       /\ \A s \in Sectors : file'[s] = View(slots, file, s)
       /\ answer' = [sector |-> NoSector, value |-> Flushed]
    \/ Restarted
    \/ Unseen

LEMMA AccessStep ==
    ASSUME CacheInv, NEW s \in Sectors, NEW v \in Values \cup {Reading}, Access(s, v)
    PROVE  GoodStep /\ (Accessed(s, v) \/ FailedAt(s) \/ Unseen)
<1>1. CASE Hit(s, v)
  BY <1>1, HitStep
<1>2. CASE Fill(s, v)
  BY <1>2, FillStep
<1>3. CASE Replace(s, v)
  BY <1>3, ReplaceStep
<1>4. CASE SaveNothing(s)
  BY <1>4, InvIsGood DEF SaveNothing, GoodStep, Unseen
<1> QED
  BY <1>1, <1>2, <1>3, <1>4 DEF Access

LEMMA StepOutcome ==
    ASSUME CacheInv, [CacheNext]_cacheVars
    PROVE  GoodStep /\ Outcome
<1>1. ASSUME NEW s \in Sectors, ReadSectors(s)
      PROVE  GoodStep /\ Outcome
  BY <1>1, AccessStep DEF ReadSectors, Outcome
<1>2. ASSUME NEW s \in Sectors, NEW v \in Values, WriteSectors(s, v)
      PROVE  GoodStep /\ Outcome
  BY <1>2, AccessStep DEF WriteSectors, Outcome
<1>3. CASE Flush
  BY <1>3, FlushStep DEF Outcome
<1>4. CASE Renew
  BY <1>4, RenewStep DEF Outcome
<1>5. CASE Restart
  BY <1>5, RestartStep DEF Outcome
<1>6. CASE UNCHANGED cacheVars
  BY <1>6, InvIsGood DEF cacheVars, GoodStep, Outcome, Unseen
<1> QED
  BY <1>1, <1>2, <1>3, <1>4, <1>5, <1>6 DEF CacheNext

LEMMA GoodStepInv == GoodStep => CacheInv'
<1>1. (Good(slots, file) /\ serial \in 0..(SerialLimit - 1) /\ crashed \in BOOLEAN)'
      => CacheInv'
  BY InvIsGood, PTL
<1> QED
  BY <1>1 DEF GoodStep

LEMMA InitInv == CacheInit => CacheInv
<1> SUFFICES ASSUME CacheInit
             PROVE  CacheInv
  OBVIOUS
<1>1. Good(slots, file)
  BY VacantGood DEF CacheInit
<1>2. serial \in 0..(SerialLimit - 1)
  BY CacheAssumption DEF CacheInit
<1>3. crashed \in BOOLEAN
  BY DEF CacheInit
<1> QED
  BY <1>1, <1>2, <1>3, InvIsGood

LEMMA CacheInvariant == CacheSpec => []CacheInv
<1>1. CacheInv /\ [CacheNext]_cacheVars => CacheInv'
  BY StepOutcome, GoodStepInv
<1> QED
  BY <1>1, InitInv, PTL DEF CacheSpec

\* Every slot of disk_cache.cpp has exactly the sectors of its track, none that
\* the disk does not have, and its serial number is in range.
THEOREM CacheTypeCorrect == CacheSpec => []CacheTypeOK
<1>1. CacheInv => CacheTypeOK
  BY DEF CacheInv
<1> QED
  BY <1>1, CacheInvariant, PTL

\* Whatever is loaded, saved and evicted, and whichever of that fails: no track
\* is in two slots and no modified sector is taken for an unmodified one.
THEOREM CacheIsCoherent == CacheSpec => []CacheCoherent
<1>1. CacheInv => CacheCoherent
  BY DEF CacheInv
<1> QED
  BY <1>1, CacheInvariant, PTL
-----------------------------------------------------------------------------
(* The abstract store                                                      *)

\* Before and after a step, in terms of the state of BlockStore
LEMMA ContentsAreViews ==
    /\ \A s \in Sectors : Content(s) = View(slots, file, s)
    /\ (\A s \in Sectors : Content(s) = View(slots, file, s))'
  BY ContentIsView, PTL

\* Whatever sequence of accesses, evictions, failing loads and saves, flushes and
\* restarts: an initiator sees a plain array of sectors, the image file receives
\* nothing but its content, and a successful flush leaves all of it there.
THEOREM CacheImplementsStore == CacheSpec => ImplementsStore
<1> DEFINE content == [s \in Sectors |-> Content(s)]
<1>1. CacheInit => Store!StoreInit
  <2> SUFFICES ASSUME CacheInit
               PROVE  Store!StoreInit
    OBVIOUS
  <2>1. slots = Vacant /\ file \in [Sectors -> Values]
        /\ answer = [sector |-> NoSector, value |-> Flushed]
    BY DEF CacheInit
  <2>2. \A s \in Sectors : Content(s) = file[s]
    BY <2>1, VacantGood, ContentIsView
  <2>3. file = content
    BY <2>1, <2>2
  <2> QED
    BY <2>1, <2>3 DEF Store!StoreInit
<1>2. ASSUME CacheInv, CacheInv', [CacheNext]_cacheVars
      PROVE  [Store!StoreNext]_(Store!storeVars)
  <2>1. GoodStep /\ Outcome
    BY <1>2, StepOutcome
  <2>2. /\ \A s \in Sectors : content[s] = View(slots, file, s)
        /\ \A s \in Sectors : content'[s] = View(slots', file', s)
    BY ContentsAreViews
  <2>3. file' \in [Sectors -> Values] /\ Store!Persist
    BY <2>1, <2>2 DEF GoodStep, Good, Store!Persist
  <2>4. ASSUME Keeps
        PROVE  content' = content
    BY <2>2, <2>4 DEF Keeps
  <2>5. ASSUME NEW s \in Sectors, NEW v \in Values \cup {Reading}, Accessed(s, v)
        PROVE  Store!Read(s) \/ \E x \in Values : Store!Write(s, x)
    <3>1. CASE v = Reading
      <4>1. Keeps
        BY <2>5, <3>1 DEF Accessed, Keeps
      <4> QED
        BY <2>2, <2>4, <2>5, <3>1, <4>1 DEF Accessed, Store!Read
    <3>2. CASE v # Reading
      <4>1. content' = [content EXCEPT ![s] = v]
        BY <2>2, <2>5, <3>2 DEF Accessed
      <4> QED
        BY <2>5, <3>2, <4>1 DEF Accessed, Store!Write
    <3> QED
      BY <3>1, <3>2
  <2>6. ASSUME NEW s \in Sectors \cup {NoSector}, FailedAt(s)
        PROVE  Store!Fail(s)
    BY <2>4, <2>6 DEF FailedAt, Store!Fail
  <2>7. ASSUME Keeps, \A s \in Sectors : file'[s] = View(slots, file, s),
               answer' = [sector |-> NoSector, value |-> Flushed]
        PROVE  Store!Flush
    <3>1. file' = content
      BY <2>2, <2>3, <2>7
    <3> QED
      BY <2>4, <2>7, <3>1 DEF Store!Flush
  <2>8. ASSUME Restarted
        PROVE  Store!Restart
    <3>1. content' = file'
      BY <2>2, <2>3, <2>8 DEF Restarted
    <3> QED
      BY <2>8, <3>1 DEF Restarted, Store!Restart
  <2>9. ASSUME Unseen
        PROVE  UNCHANGED Store!storeVars
    <3>1. Keeps /\ file' = file /\ answer' = answer
      BY <2>9 DEF Unseen, Keeps
    <3> QED
      BY <2>4, <3>1 DEF Store!storeVars
  <2> QED
    BY <2>1, <2>3, <2>5, <2>6, <2>7, <2>8, <2>9
    DEF Outcome, Store!StoreNext, Store!FailFlush
<1> QED
  BY <1>1, <1>2, CacheInvariant, PTL DEF CacheSpec, ImplementsStore, Store!StoreSpec

-----------------------------------------------------------------------------
(* The image files and their devices                                       *)

USE DEF Idle, NoUnit, Nobody, NoFile

\* What is known of the definition that is being executed.
LEMMA CurrentTyped ==
    ASSUME command \in Commands
    PROVE  /\ Current \in Definitions
           /\ Current.address \in Addresses
           /\ Current.file \in Files \cup {NoFile}
           /\ Current.type \in Types
           /\ Len(command.devices) # 1 => [command EXCEPT !.devices = Tail(@)] \in Commands
<1>1. command.devices \in Seq(Definitions) /\ command.devices # <<>>
  BY DEF Commands
<1>2. Current \in Definitions
  BY <1>1 DEF Current
<1>3. ASSUME Len(command.devices) # 1
      PROVE  Tail(command.devices) \in Seq(Definitions) \ {<<>>}
  <2>1. Len(command.devices) \in Nat /\ Len(command.devices) # 0
    BY <1>1, EmptySeq, LenProperties
  <2>2. /\ Tail(command.devices) \in Seq(Definitions)
        /\ Len(Tail(command.devices)) = Len(command.devices) - 1
    BY <1>1, HeadTailProperties
  <2>3. Len(Tail(command.devices)) # 0
    BY <1>3, <2>1, <2>2
  <2>4. Len(<<>>) = 0
    BY EmptySeq
  <2> QED
    BY <2>2, <2>3, <2>4
<1> QED
  BY <1>2, <1>3 DEF Definitions, Commands

\* The operations differ from the name of the idle state.
LEMMA ExecutingTyped ==
    ASSUME FilesTypeOK, NEW op \in Operations, Executing(op)
    PROVE  command \in Commands
  BY DEF FilesTypeOK, Executing

LEMMA UnitTyped ==
    ASSUME FilesTypeOK, NEW a \in Addresses, units[a] # NoUnit
    PROVE  units[a] \in Units
  BY DEF FilesTypeOK

\* The flags of a unit stay flags.
LEMMA FlagsTyped ==
    ASSUME NEW flags \in SUBSET UnitFlags, NEW f, NEW b, NEW d
    PROVE  /\ Protecting(flags, b) \in SUBSET UnitFlags
           /\ Validated(flags, f) \in SUBSET UnitFlags
           /\ SetUpFlags(d) \in SUBSET UnitFlags
<1>1. Protecting(flags, b) \in SUBSET UnitFlags
  BY DEF Protecting, UnitFlags
<1>2. Validated(flags, f) \in SUBSET UnitFlags
  BY DEF Validated, UnitFlags
<1>3. SetUpFlags(d) \in SUBSET UnitFlags
  BY DEF SetUpFlags, UnitFlags
<1> QED
  BY <1>1, <1>2, <1>3

-----------------------------------------------------------------------------
(* The type invariant                                                      *)

LEMMA DoneTyped ==
    ASSUME FilesTypeOK, command \in Commands, Done \/ Fail
    PROVE  /\ command' = Idle \/ command' \in Commands
           /\ UNCHANGED <<images, reservedIds, image>>
  BY CurrentTyped DEF Done, Fail

LEMMA NewUnitTyped ==
    ASSUME NEW d \in Definitions
    PROVE  NewUnit(d) \in Units
<1>1. \A b : Protecting(SetUpFlags(d), b) \in SUBSET UnitFlags
  BY FlagsTyped
<1>2. \A b : Protecting(Validated(SetUpFlags(d), d.file), b) \in SUBSET UnitFlags
  BY FlagsTyped
<1> QED
  BY <1>1, <1>2 DEF NewUnit, Units, Definitions

LEMMA ReleasedTyped ==
    ASSUME FilesTypeOK, NEW f \in Files \cup {NoFile}
    PROVE  Released(f) \in [Files -> Addresses \cup {Nobody}]
  BY DEF FilesTypeOK, Released

\* Replacing the record of an attached unit
LEMMA EjectTyped ==
    ASSUME FilesTypeOK, NEW a \in Addresses, units[a] # NoUnit, Eject(a)
    PROVE  /\ units' \in [Addresses -> Units \cup {NoUnit}]
           /\ reserved' \in [Files -> Addresses \cup {Nobody}]
<1>1. units[a] \in Units
  BY UnitTyped
<1>2. ((units[a].flags \ {"ready", "protected"}) \cup {"removed"}) \in SUBSET UnitFlags
  BY <1>1 DEF Units, UnitFlags
<1>3. units' \in [Addresses -> Units \cup {NoUnit}]
  BY <1>1, <1>2 DEF Eject, Units, FilesTypeOK
<1> QED
  BY <1>1, <1>3, ReleasedTyped DEF Eject, Units

LEMMA FilesInitTyped == FilesInit => FilesTypeOK
  BY DEF FilesInit, FilesTypeOK

LEMMA FilesNextTyped ==
    ASSUME FilesTypeOK, [FilesNext]_fileVars
    PROVE  FilesTypeOK'
<1> USE DEF FilesTypeOK
<1>1. ASSUME NEW r \in Requests, StartCommand(r)
      PROVE  FilesTypeOK'
  BY <1>1, ImageFilesAssumption DEF StartCommand
<1>2. CASE Attach
  <2>1. command \in Commands
    BY <1>2, ExecutingTyped DEF Attach, Operations
  <2>2. NewUnit(Current) \in Units
    BY <2>1, CurrentTyped, NewUnitTyped
  <2>3. NewUnit(Current).file # NoFile => Current.file \in Files
    BY <2>1, CurrentTyped DEF NewUnit
  <2> QED
    BY <1>2, <2>1, <2>2, <2>3, DoneTyped, CurrentTyped DEF Attach
<1>3. CASE Insert
  <2> DEFINE a == Current.address
             f == InsertFile(Current)
  <2>1. command \in Commands /\ a \in Addresses
    BY <1>3, ExecutingTyped, CurrentTyped DEF Insert, Operations
  <2>2. units[a] \in Units
    <3>1. units[a].type # NoUnit.type
      BY <1>3 DEF Insert, MayInsert, RemovableTypes
    <3> QED
      BY <2>1, <3>1, UnitTyped
  <2>3. f \in Files
    BY <1>3, <2>1, <2>2, CurrentTyped DEF Insert, InsertFile, MayInsert, Units
  <2>4. \A b : Protecting(Validated(units[a].flags, f), b) \in SUBSET UnitFlags
    BY <2>2, FlagsTyped DEF Units
  <2>5. Inserted(a, f, Current.protected) \in Units
    BY <2>2, <2>3, <2>4 DEF Inserted, Units
  <2>6. unclear' \in SUBSET Files
    BY <1>3, <2>2, <2>3 DEF Insert, Units
  <2>7. /\ units' \in [Addresses -> Units \cup {NoUnit}]
        /\ reserved' \in [Files -> Addresses \cup {Nobody}]
    BY <1>3, <2>1, <2>3, <2>5 DEF Insert
  <2>8. (command' = Idle \/ command' \in Commands) /\ UNCHANGED <<images, reservedIds, image>>
    BY <1>3, <2>1, DoneTyped DEF Insert
  <2> QED
    BY <2>6, <2>7, <2>8
<1>4. CASE InsertFails
  <2> DEFINE a == Current.address
             f == InsertFile(Current)
  <2>1. command \in Commands /\ a \in Addresses
    BY <1>4, ExecutingTyped, CurrentTyped DEF InsertFails, Operations
  <2>2. units[a] \in Units
    <3>1. units[a].type # NoUnit.type
      BY <1>4 DEF InsertFails, MayInsert, RemovableTypes
    <3> QED
      BY <2>1, <3>1, UnitTyped
  <2>3. f \in Files
    BY <1>4, <2>1, <2>2, CurrentTyped DEF InsertFails, InsertFile, MayInsert, Units
  <2>4. PICK flags \in SUBSET UnitFlags :
            units' = [units EXCEPT ![a].file = f, ![a].flags = flags]
    BY <1>4, <2>2, FlagsTyped DEF InsertFails, Units
  <2>5. units' \in [Addresses -> Units \cup {NoUnit}]
    BY <2>1, <2>2, <2>3, <2>4 DEF Units
  <2>6. unclear' \in SUBSET Files
    BY <1>4, <2>2, <2>3 DEF InsertFails, Units
  <2>7. (command' = Idle \/ command' \in Commands) /\ UNCHANGED <<images, reservedIds, image>>
    BY <1>4, <2>1, DoneTyped DEF InsertFails
  <2>8. reserved' = reserved
    BY <1>4 DEF InsertFails
  <2> QED
    BY <2>5, <2>6, <2>7, <2>8
<1>5. CASE AttachFails \/ InsertRefused \/ DetachFails
  <2>1. command \in Commands
    BY <1>5, ExecutingTyped DEF AttachFails, InsertRefused, DetachFails, Operations
  <2> QED
    BY <1>5, <2>1, DoneTyped DEF AttachFails, InsertRefused, DetachFails
<1>6. CASE Detach
  <2>1. command \in Commands /\ Current.address \in Addresses
    BY <1>6, ExecutingTyped, CurrentTyped DEF Detach, Operations
  <2>2. units[Current.address] \in Units
    BY <1>6, <2>1, UnitTyped DEF Detach
  <2>3. reserved' \in [Files -> Addresses \cup {Nobody}]
    BY <1>6, <2>2, ReleasedTyped DEF Detach, Units
  <2> QED
    BY <1>6, <2>1, <2>3, DoneTyped DEF Detach
<1>7. CASE EjectForced
  <2>1. command \in Commands /\ Current.address \in Addresses
    BY <1>7, ExecutingTyped, CurrentTyped DEF EjectForced, Operations
  <2>2. CanEject(Current.address) => units[Current.address] # NoUnit
    BY DEF CanEject, RemovableTypes
  <2> QED
    BY <1>7, <2>1, <2>2, EjectTyped, DoneTyped DEF EjectForced
<1>8. CASE ChangeFlags
  <2>1. command \in Commands /\ Current.address \in Addresses
    BY <1>8, ExecutingTyped, CurrentTyped DEF ChangeFlags, Operations
  <2> DEFINE flags == units[Current.address].flags
             new == IF command.op = "STOP" THEN flags \ {"ready"}
                    ELSE Protecting(flags, command.op = "PROTECT")
  <2>2. units' = [units EXCEPT ![Current.address].flags = new]
    BY <1>8 DEF ChangeFlags
  <2>3. CASE units[Current.address] \in Units
    <3>1. new \in SUBSET UnitFlags
      BY <2>3, FlagsTyped DEF Units
    <3> HIDE DEF new
    <3>2. units' \in [Addresses -> Units \cup {NoUnit}]
      BY <2>1, <2>2, <2>3, <3>1 DEF Units
    <3> QED
      BY <1>8, <2>1, <3>2, DoneTyped DEF ChangeFlags
  <2>4. CASE units[Current.address] = NoUnit
    <3> HIDE DEF new
    <3>1. [NoUnit EXCEPT !.flags = new] = NoUnit
      OBVIOUS
    <3>2. units' = units
      BY <2>1, <2>2, <2>4, <3>1
    <3> QED
      BY <1>8, <2>1, <3>2, DoneTyped DEF ChangeFlags
  <2> QED
    BY <2>1, <2>3, <2>4
<1>9. CASE DetachAll \/ \E ids \in SUBSET Ids : SetReservedIds(ids)
  BY <1>9 DEF DetachAll, SetReservedIds
<1>10. ASSUME NEW a \in Addresses, EjectMedium(a)
       PROVE  FilesTypeOK'
  BY <1>10, EjectTyped DEF EjectMedium, Dispatch
<1>11. ASSUME NEW a \in Addresses, LoadMedium(a)
       PROVE  FilesTypeOK'
  <2>1. units[a] \in Units /\ units[a].last \in Files
    BY <1>11, UnitTyped DEF LoadMedium, Dispatch, Units
  <2>2. units' \in [Addresses -> Units \cup {NoUnit}]
    BY <1>11, <2>1 DEF LoadMedium, Units
  <2>3. unclear' \in SUBSET Files
    BY <1>11, <2>1 DEF LoadMedium, Units
  <2> QED
    BY <1>11, <2>1, <2>2, <2>3 DEF LoadMedium
<1>12. CASE ImageCommand
  BY <1>12 DEF ImageCommand, StartImageCommand, CreateImage, ExecuteImageCommand, Changed,
               ImageOperations
<1>13. CASE UNCHANGED fileVars
  BY <1>13 DEF fileVars
<1> QED
  BY <1>1, <1>2, <1>3, <1>4, <1>5, <1>6, <1>7, <1>8, <1>9, <1>10, <1>11, <1>12, <1>13
  DEF FilesNext, DeviceCommand, ScsiCommand

\* The type invariant holds for any devices, files and commands.
THEOREM FilesTyped == FilesSpec => []FilesTypeOK
<1>1. FilesInit => FilesTypeOK
  BY FilesInitTyped
<1>2. FilesTypeOK /\ [FilesNext]_fileVars => FilesTypeOK'
  BY FilesNextTyped
<1> QED
  BY <1>1, <1>2, PTL DEF FilesSpec

-----------------------------------------------------------------------------
(* The table of reserved files                                             *)

\* What the invariant says of one file and one unit
Exact(f, a) ==
    /\ reserved[f] = a <=> (units[a] # NoUnit /\ units[a].file = f)
    /\ units[a] # NoUnit /\ units[a].open = f => units[a].file = f

LEMMA ExactDef == ReservationsExact <=> \A f \in Files \ unclear, a \in Addresses : Exact(f, a)
  BY DEF ReservationsExact, Exact

\* A step that only changes flags changes nothing of this.
LEMMA ExactKept ==
    ASSUME FilesTypeOK, ReservationsExact, reserved' = reserved, unclear \subseteq unclear',
           \A a \in Addresses : \/ units'[a] = units[a]
                                \/ /\ units[a] # NoUnit /\ units'[a] # NoUnit
                                   /\ units'[a].file = units[a].file
                                   /\ units'[a].open = units[a].open
    PROVE  ReservationsExact'
<1> SUFFICES ASSUME NEW f \in Files \ unclear', NEW a \in Addresses
             PROVE  Exact(f, a)'
  BY DEF Exact, ReservationsExact
<1>1. Exact(f, a)
  BY ExactDef
<1> QED
  BY <1>1 DEF Exact

LEMMA NoUnitUntyped == NoUnit.type \notin Types
  BY ImageFilesAssumption DEF ImageTypes, OtherTypes

\* A unit without a file is attached.
LEMMA ExactOther ==
    ASSUME FilesTypeOK, ReservationsExact, NEW a \in Addresses, units[a] = NoUnit,
           NEW new, new.file = NoFile, new.open = NoFile,
           units' = [units EXCEPT ![a] = new], reserved' = reserved, unclear' = unclear
    PROVE  ReservationsExact'
<1> SUFFICES ASSUME NEW f \in Files \ unclear', NEW b \in Addresses
             PROVE  Exact(f, b)'
  BY DEF Exact, ReservationsExact
<1>1. Exact(f, a) /\ Exact(f, b)
  BY ExactDef
<1>2. f # NoFile
  BY ImageFilesAssumption
<1>3. units'[a] = new /\ (b # a => units'[b] = units[b])
  BY DEF FilesTypeOK
<1>4. CASE b = a
  BY <1>1, <1>2, <1>3, <1>4 DEF Exact
<1>5. CASE b # a
  BY <1>1, <1>3, <1>5 DEF Exact
<1> QED
  BY <1>4, <1>5

\* A unit gives up its file; afterwards it has no file, or is gone.
LEMMA ExactReleased ==
    ASSUME FilesTypeOK, ReservationsExact, NEW a \in Addresses, units[a] \in Units,
           reserved' = Released(units[a].file), unclear' = unclear,
           \A b \in Addresses \ {a} : units'[b] = units[b],
           \/ units'[a] = NoUnit
           \/ units'[a] # NoUnit /\ units'[a].file = NoFile /\ units'[a].open = NoFile
    PROVE  ReservationsExact'
<1> SUFFICES ASSUME NEW f \in Files \ unclear', NEW b \in Addresses
             PROVE  Exact(f, b)'
  BY DEF Exact, ReservationsExact
<1>1. Exact(f, a) /\ Exact(f, b)
  BY ExactDef
<1>2. f # NoFile /\ b # Nobody
  BY ImageFilesAssumption
<1>3. reserved'[f] = IF f = units[a].file THEN Nobody ELSE reserved[f]
  BY <1>2 DEF Released, FilesTypeOK
<1>4. a # Nobody /\ units[a] # NoUnit
  <2>1. units[a].type \in Types
    BY DEF Units
  <2> QED
    BY <2>1, NoUnitUntyped, ImageFilesAssumption
<1>5. CASE b = a
  BY <1>1, <1>2, <1>3, <1>4, <1>5 DEF Exact
<1>6. CASE b # a
  BY <1>1, <1>2, <1>3, <1>4, <1>6 DEF Exact
<1> QED
  BY <1>5, <1>6

\* A unit gets a file that nobody has reserved, and reserves it. Its old file, if it
\* still has the name of one, becomes unclear.
LEMMA ExactReserved ==
    ASSUME FilesTypeOK, ReservationsExact, NEW a \in Addresses, NEW g \in Files,
           reserved[g] = Nobody, reserved' = [reserved EXCEPT ![g] = a],
           \A b \in Addresses \ {a} : units'[b] = units[b],
           units'[a] # NoUnit, units'[a].file = g,
           \/ units'[a].open = g
           \/ units[a] # NoUnit /\ units'[a].open = units[a].open
           \/ units'[a].open = NoFile,
           units[a] # NoUnit => unclear' = unclear \cup ({units[a].file} \ {g, NoFile}),
           units[a] = NoUnit => unclear' = unclear
    PROVE  ReservationsExact'
<1> SUFFICES ASSUME NEW f \in Files \ unclear', NEW b \in Addresses
             PROVE  Exact(f, b)'
  BY DEF Exact, ReservationsExact
<1>1. f \in Files \ unclear /\ Exact(f, a) /\ Exact(f, b)
  <2>1. f \in Files \ unclear
    OBVIOUS
  <2> QED
    BY <2>1, ExactDef
<1>2. f # NoFile /\ b # Nobody /\ a # Nobody
  BY ImageFilesAssumption
<1>3. reserved'[f] = IF f = g THEN a ELSE reserved[f]
  BY DEF FilesTypeOK
<1>4. units[a] # NoUnit => units[a].file = g \/ units[a].file # f
  BY <1>2
<1>5. CASE b = a
  BY <1>1, <1>2, <1>3, <1>4, <1>5 DEF Exact
<1>6. CASE b # a
  BY <1>1, <1>2, <1>3, <1>4, <1>6 DEF Exact
<1> QED
  BY <1>5, <1>6

\* A unit gets the name of a file without reserving it: both become unclear.
LEMMA ExactConfused ==
    ASSUME FilesTypeOK, ReservationsExact, NEW a \in Addresses, NEW g \in Files,
           units[a] # NoUnit, reserved' = reserved,
           \A b \in Addresses \ {a} : units'[b] = units[b],
           units'[a] # NoUnit, units'[a].file = g, units'[a].open = units[a].open,
           unclear \subseteq unclear', units[a].file \in {g, NoFile} \cup unclear',
           g \in unclear' \/ reserved[g] = a
    PROVE  ReservationsExact'
<1> SUFFICES ASSUME NEW f \in Files \ unclear', NEW b \in Addresses
             PROVE  Exact(f, b)'
  BY DEF Exact, ReservationsExact
<1>1. f \in Files \ unclear /\ Exact(f, a) /\ Exact(f, b)
  <2>1. f \in Files \ unclear
    OBVIOUS
  <2> QED
    BY <2>1, ExactDef
<1>2. f # NoFile
  BY ImageFilesAssumption
<1>3. CASE b = a
  BY <1>1, <1>2, <1>3 DEF Exact
<1>4. CASE b # a
  BY <1>1, <1>4 DEF Exact
<1> QED
  BY <1>3, <1>4

\* EjectMedium() and Eject() of the remote interface
LEMMA ExactEjected ==
    ASSUME FilesTypeOK, ReservationsExact, NEW a \in Addresses, units[a] # NoUnit,
           Eject(a), unclear' = unclear
    PROVE  ReservationsExact'
<1>1. units[a] \in Units
  BY UnitTyped
<1>2. /\ units'[a].file = NoFile /\ units'[a].open = NoFile
      /\ units'[a].type = units[a].type
      /\ \A b \in Addresses \ {a} : units'[b] = units[b]
  BY <1>1 DEF Eject, FilesTypeOK, Units
<1>3. units'[a] # NoUnit
  BY <1>1, <1>2, NoUnitUntyped DEF Units
<1> QED
  BY <1>1, <1>2, <1>3, ExactReleased DEF Eject

-----------------------------------------------------------------------------
LEMMA ExactNext ==
    ASSUME FilesTypeOK, ReservationsExact, [FilesNext]_fileVars
    PROVE  ReservationsExact'
<1>1. ASSUME NEW r \in Requests, StartCommand(r)
      PROVE  ReservationsExact'
  BY <1>1, ExactKept DEF StartCommand
<1>2. CASE Attach
  <2>1. command \in Commands
    BY <1>2, ExecutingTyped DEF Attach, Operations
  <2> DEFINE a == Current.address
             new == NewUnit(Current)
  <2>2. a \in Addresses /\ units[a] = NoUnit
    BY <1>2, <2>1, CurrentTyped DEF Attach, CanAttach, MayAttach
  <2>3. new \in Units /\ new # NoUnit /\ new.open = new.file
    <3>1. new \in Units
      BY <2>1, CurrentTyped, NewUnitTyped
    <3>2. NoUnit.type \notin Types
      BY ImageFilesAssumption DEF ImageTypes, OtherTypes
    <3>3. new.open = new.file
      BY DEF NewUnit
    <3> QED
      BY <3>1, <3>2, <3>3 DEF Units
  <2>4. units' = [units EXCEPT ![a] = new]
    BY <1>2 DEF Attach
  <2>5. CASE new.file = NoFile
    <3> HIDE DEF new, a
    <3>1. reserved' = reserved /\ unclear' = unclear
      BY <1>2, <2>5 DEF Attach, new
    <3> QED
      BY <2>2, <2>3, <2>4, <2>5, <3>1, ExactOther
  <2>6. CASE new.file # NoFile
    <3>1. /\ new.file = Current.file /\ Current.file \in Files
          /\ reserved[Current.file] = Nobody
          /\ reserved' = [reserved EXCEPT ![Current.file] = a]
          /\ unclear' = unclear
      BY <1>2, <2>1, <2>6, CurrentTyped DEF Attach, NewUnit, CanAttach, MayAttach
    <3> HIDE DEF new, a
    <3>2. units'[a] = new /\ \A b \in Addresses \ {a} : units'[b] = units[b]
      BY <2>2, <2>4 DEF FilesTypeOK
    <3> QED
      BY <2>2, <2>3, <3>1, <3>2, ExactReserved
  <2> QED
    BY <2>5, <2>6
<1>3. CASE Insert
  <2> DEFINE a == Current.address
             f == InsertFile(Current)
             new == Inserted(a, f, Current.protected)
  <2>1. command \in Commands /\ a \in Addresses
    BY <1>3, ExecutingTyped, CurrentTyped DEF Insert, Operations
  <2>2. units[a] \in Units /\ units[a] # NoUnit
    <3>1. units[a].type # NoUnit.type
      BY <1>3 DEF Insert, MayInsert, RemovableTypes
    <3> QED
      BY <2>1, <3>1, UnitTyped
  <2>3. f \in Files
    BY <1>3, <2>1, <2>2, CurrentTyped DEF Insert, InsertFile, MayInsert, Units
  <2>4. /\ reserved[f] = Nobody /\ reserved' = [reserved EXCEPT ![f] = a]
        /\ units' = [units EXCEPT ![a] = new]
        /\ unclear' = unclear \cup ({units[a].file} \ {f, NoFile})
    BY <1>3 DEF Insert, CanReserve
  <2>5. new.file = f /\ new.open = f /\ new.type = units[a].type
    BY <2>2 DEF Inserted, Units
  <2>6. new # NoUnit
    BY <2>2, <2>5, NoUnitUntyped DEF Units
  <2> HIDE DEF new, a, f
  <2>7. units'[a] = new /\ \A b \in Addresses \ {a} : units'[b] = units[b]
    BY <2>1, <2>4 DEF FilesTypeOK
  <2> QED
    BY <2>1, <2>2, <2>3, <2>4, <2>5, <2>6, <2>7, ExactReserved
<1>4. CASE InsertFails
  <2> DEFINE a == Current.address
             f == InsertFile(Current)
  <2>1. command \in Commands /\ a \in Addresses
    BY <1>4, ExecutingTyped, CurrentTyped DEF InsertFails, Operations
  <2>2. units[a] \in Units /\ units[a] # NoUnit
    <3>1. units[a].type # NoUnit.type
      BY <1>4 DEF InsertFails, MayInsert, RemovableTypes
    <3> QED
      BY <2>1, <3>1, UnitTyped
  <2>3. f \in Files
    BY <1>4, <2>1, <2>2, CurrentTyped DEF InsertFails, InsertFile, MayInsert, Units
  <2>4. PICK flags : units' = [units EXCEPT ![a].file = f, ![a].flags = flags]
    BY <1>4 DEF InsertFails
  <2>5. reserved' = reserved /\ unclear' = unclear \cup ({units[a].file, f} \ {NoFile})
    BY <1>4 DEF InsertFails
  <2> HIDE DEF a, f
  <2>6. /\ units'[a].file = f /\ units'[a].open = units[a].open
        /\ units'[a].type = units[a].type
        /\ \A b \in Addresses \ {a} : units'[b] = units[b]
    BY <2>1, <2>2, <2>4 DEF FilesTypeOK, Units
  <2>7. units'[a] # NoUnit
    BY <2>2, <2>6, NoUnitUntyped DEF Units
  <2>8. f # NoFile
    BY <2>3, ImageFilesAssumption
  <2> QED
    BY <2>1, <2>2, <2>3, <2>5, <2>6, <2>7, <2>8, ExactConfused
<1>5. CASE AttachFails \/ InsertRefused \/ DetachFails
  BY <1>5, ExactKept DEF AttachFails, InsertRefused, DetachFails
<1>6. CASE Detach
  <2> DEFINE a == Current.address
  <2>1. command \in Commands /\ a \in Addresses
    BY <1>6, ExecutingTyped, CurrentTyped DEF Detach, Operations
  <2>2. units[a] \in Units
    BY <1>6, <2>1, UnitTyped DEF Detach
  <2>3. /\ units' = [units EXCEPT ![a] = NoUnit]
        /\ reserved' = Released(units[a].file)
        /\ unclear' = unclear
    BY <1>6 DEF Detach
  <2> HIDE DEF a
  <2>4. units'[a] = NoUnit /\ \A b \in Addresses \ {a} : units'[b] = units[b]
    BY <2>1, <2>3 DEF FilesTypeOK
  <2> QED
    BY <2>1, <2>2, <2>3, <2>4, ExactReleased
<1>7. CASE EjectForced
  <2>1. command \in Commands /\ Current.address \in Addresses
    BY <1>7, ExecutingTyped, CurrentTyped DEF EjectForced, Operations
  <2>2. CASE CanEject(Current.address)
    <3>1. units[Current.address] # NoUnit
      BY <2>2 DEF CanEject, RemovableTypes
    <3> QED
      BY <1>7, <2>1, <2>2, <3>1, ExactEjected DEF EjectForced
  <2>3. CASE ~CanEject(Current.address)
    BY <1>7, <2>3, ExactKept DEF EjectForced
  <2> QED
    BY <2>2, <2>3
<1>8. CASE ChangeFlags
  <2> DEFINE a == Current.address
  <2>1. command \in Commands /\ a \in Addresses
    BY <1>8, ExecutingTyped, CurrentTyped DEF ChangeFlags, Operations
  <2>2. PICK new : units' = [units EXCEPT ![a].flags = new]
    BY <1>8 DEF ChangeFlags
  <2>3. reserved' = reserved /\ unclear' = unclear
    BY <1>8 DEF ChangeFlags
  <2> HIDE DEF a
  <2>4. \A b \in Addresses \ {a} : units'[b] = units[b]
    BY <2>1, <2>2 DEF FilesTypeOK
  <2>5. CASE units[a] = NoUnit
    <3>1. units'[a] = NoUnit
      BY <2>1, <2>2, <2>5 DEF FilesTypeOK
    <3> QED
      BY <2>3, <2>4, <2>5, <3>1, ExactKept
  <2>6. CASE units[a] # NoUnit
    <3>1. units[a] \in Units
      BY <2>1, <2>6, UnitTyped
    <3>2. /\ units'[a].file = units[a].file /\ units'[a].open = units[a].open
          /\ units'[a].type = units[a].type
      BY <2>1, <2>2, <3>1 DEF FilesTypeOK, Units
    <3>3. units'[a] # NoUnit
      BY <3>1, <3>2, NoUnitUntyped DEF Units
    <3> QED
      BY <2>3, <2>4, <2>6, <3>2, <3>3, ExactKept
  <2> QED
    BY <2>5, <2>6
<1>9. CASE DetachAll
  <2> SUFFICES ASSUME NEW f \in Files \ unclear', NEW a \in Addresses
               PROVE  Exact(f, a)'
    BY DEF Exact, ReservationsExact
  <2>1. units'[a] = NoUnit /\ f \in Files \ unclear
    BY <1>9 DEF DetachAll
  <2>2. reserved'[f] # a
    <3>1. a # Nobody
      BY ImageFilesAssumption
    <3>2. Exact(f, a)
      BY <2>1, ExactDef
    <3> QED
      BY <1>9, <2>1, <3>1, <3>2 DEF DetachAll, Exact, Attached
  <2> QED
    BY <2>1, <2>2 DEF Exact
<1>10. CASE \E ids \in SUBSET Ids : SetReservedIds(ids)
  BY <1>10, ExactKept DEF SetReservedIds
<1>11. ASSUME NEW a \in Addresses, EjectMedium(a)
       PROVE  ReservationsExact'
  BY <1>11, ExactEjected DEF EjectMedium, Dispatch
<1>12. ASSUME NEW a \in Addresses, LoadMedium(a)
       PROVE  ReservationsExact'
  <2> DEFINE f == units[a].last
  <2>1. units[a] \in Units /\ units[a] # NoUnit /\ f \in Files
    BY <1>12, UnitTyped DEF LoadMedium, Dispatch, Units
  <2>2. units' = [units EXCEPT ![a].file = f]
    BY <1>12 DEF LoadMedium
  <2>3. /\ reserved' = IF CanReserve(f) THEN [reserved EXCEPT ![f] = a] ELSE reserved
        /\ unclear' = unclear \cup ({units[a].file} \ {f, NoFile})
                              \cup (IF reserved'[f] = a THEN {} ELSE {f})
    BY <1>12 DEF LoadMedium
  <2> HIDE DEF f
  <2>4. /\ units'[a].file = f /\ units'[a].open = units[a].open
        /\ units'[a].type = units[a].type
        /\ \A b \in Addresses \ {a} : units'[b] = units[b]
    BY <2>1, <2>2 DEF FilesTypeOK, Units
  <2>5. units'[a] # NoUnit
    BY <2>1, <2>4, NoUnitUntyped DEF Units
  <2>6. CASE CanReserve(f)
    <3>1. reserved[f] = Nobody /\ reserved' = [reserved EXCEPT ![f] = a]
      BY <2>3, <2>6 DEF CanReserve
    <3>2. reserved'[f] = a
      BY <2>1, <3>1 DEF FilesTypeOK
    <3>3. unclear' = unclear \cup ({units[a].file} \ {f, NoFile})
      BY <2>3, <3>2
    <3> QED
      BY <2>1, <2>4, <2>5, <3>1, <3>3, ExactReserved
  <2>7. CASE ~CanReserve(f)
    <3>1. reserved' = reserved
      BY <2>3, <2>7
    <3>2. f \in unclear' \/ reserved[f] = a
      BY <2>3, <3>1
    <3>3. unclear \subseteq unclear' /\ units[a].file \in {f, NoFile} \cup unclear'
      BY <2>3
    <3> QED
      BY <2>1, <2>4, <2>5, <3>1, <3>2, <3>3, ExactConfused
  <2> QED
    BY <2>6, <2>7
<1>13. CASE ImageCommand
  BY <1>13, ExactKept DEF ImageCommand, StartImageCommand, CreateImage, ExecuteImageCommand
<1>14. CASE UNCHANGED fileVars
  BY <1>14, ExactKept DEF fileVars
<1> QED
  BY <1>1, <1>2, <1>3, <1>4, <1>5, <1>6, <1>7, <1>8, <1>9, <1>10, <1>11, <1>12, <1>13, <1>14
  DEF FilesNext, DeviceCommand, ScsiCommand

\* The table of reserved files is exact for any number of devices and files, except for
\* the files that a failed INSERT or a LOAD has made unclear.
THEOREM FilesReserved == FilesSpec => []ReservationsExact
<1>1. FilesInit => ReservationsExact
  BY ImageFilesAssumption DEF FilesInit, ReservationsExact
<1>2. FilesTypeOK /\ ReservationsExact /\ [FilesNext]_fileVars => ReservationsExact'
  BY ExactNext
<1> QED
  BY <1>1, <1>2, FilesTyped, PTL DEF FilesSpec

\* Two units never use the same image file, with the same exception: both would have
\* its reservation.
THEOREM FilesNotShared == FilesSpec => []NoSharedImage
<1>1. ReservationsExact => NoSharedImage
  BY DEF ReservationsExact, NoSharedImage, Attached
<1> QED
  BY <1>1, FilesReserved, PTL

-----------------------------------------------------------------------------
(* The list of devices                                                     *)

\* What the invariant says of the medium of the unit u
MediumConsistent(u) ==
    u.type \in ImageTypes =>
        /\ "ready" \in u.flags => "removed" \notin u.flags /\ u.file # NoFile
        /\ u.type \notin RemovableTypes => u.open # NoFile

LEMMA ConsistentDef ==
    DeviceListConsistent <=>
        /\ \A a \in Attached : units[Lun0(a)] # NoUnit
        /\ \A a \in Attached : a[1] \notin reservedIds
        /\ \A a, b \in Attached : units[a].type = "SCDP" /\ units[b].type = "SCDP" => a = b
        /\ \A a \in Attached : MediumConsistent(units[a])
  BY DEF DeviceListConsistent, MediumConsistent, Has

LEMMA Lun0Typed ==
    ASSUME NEW a \in Addresses
    PROVE  /\ Lun0(a) \in Addresses /\ Lun0(a)[1] = a[1] /\ Lun0(a)[2] = 0
           /\ a[2] = 0 => Lun0(a) = a
<1>1. PICK i \in Ids, l \in Luns : a = <<i, l>>
  BY DEF Addresses
<1>2. a[1] = i /\ a[2] = l /\ Lun0(a) = <<i, 0>>
  BY <1>1 DEF Lun0
<1>3. 0 \in Luns
  BY ImageFilesAssumption
<1>4. Lun0(a) \in Addresses
  BY <1>2, <1>3 DEF Addresses
<1> QED
  BY <1>1, <1>2, <1>4

\* The same units are attached, with the same types.
LEMMA ConsistentKept ==
    ASSUME DeviceListConsistent, reservedIds' = reservedIds,
           \A a \in Addresses : \/ units'[a] = units[a]
                                \/ /\ units[a] # NoUnit /\ units'[a] # NoUnit
                                   /\ units'[a].type = units[a].type
                                   /\ MediumConsistent(units'[a])
    PROVE  DeviceListConsistent'
<1>1. Attached' = Attached
  BY DEF Attached
<1>2. \A a \in Attached : /\ units'[a].type = units[a].type
                          /\ MediumConsistent(units'[a])
  BY ConsistentDef DEF Attached
<1>3. \A a \in Attached : units'[Lun0(a)] # NoUnit
  BY ConsistentDef, Lun0Typed DEF Attached
<1>4. \A a \in Attached' : a[1] \notin reservedIds'
  BY <1>1, ConsistentDef
<1>5. \A a, b \in Attached' : units'[a].type = "SCDP" /\ units'[b].type = "SCDP" => a = b
  BY <1>1, <1>2, ConsistentDef
<1>6. \A a \in Attached' : MediumConsistent(units'[a])
  BY <1>1, <1>2
<1> QED
  BY <1>1, <1>3, <1>4, <1>5, <1>6 DEF DeviceListConsistent, MediumConsistent, Has

\* One unit gets another file, other flags, or gives up its file.
LEMMA ConsistentChanged ==
    ASSUME FilesTypeOK, DeviceListConsistent, reservedIds' = reservedIds,
           NEW a \in Addresses, units[a] \in Units,
           \A b \in Addresses \ {a} : units'[b] = units[b],
           units'[a].type = units[a].type, MediumConsistent(units'[a])
    PROVE  DeviceListConsistent'
<1>1. units[a] # NoUnit /\ units'[a] # NoUnit
  BY NoUnitUntyped DEF Units
<1> QED
  BY <1>1, ConsistentKept

\* Units are removed, LUN 0 as the last one of its target.
LEMMA ConsistentDetached ==
    ASSUME DeviceListConsistent, reservedIds' = reservedIds,
           \A a \in Addresses : units'[a] \in {units[a], NoUnit},
           \A a \in Attached' : units'[Lun0(a)] = units[Lun0(a)]
    PROVE  DeviceListConsistent'
<1>1. \A a \in Attached' : a \in Attached /\ units'[a] = units[a]
  BY DEF Attached
<1>2. \A a \in Attached' : units'[Lun0(a)] # NoUnit
  BY <1>1, ConsistentDef
<1> QED
  BY <1>1, <1>2 DEF DeviceListConsistent, Has

\* StartStopUnit() and Eject() of the remote interface
LEMMA ConsistentEjected ==
    ASSUME FilesTypeOK, DeviceListConsistent, reservedIds' = reservedIds,
           NEW a \in Addresses, units[a] # NoUnit, CanEject(a), Eject(a)
    PROVE  DeviceListConsistent'
<1>1. units[a] \in Units /\ units[a].type \in RemovableTypes
  BY UnitTyped DEF CanEject
<1>2. /\ units'[a].type = units[a].type
      /\ units'[a].flags = (units[a].flags \ {"ready", "protected"}) \cup {"removed"}
      /\ \A b \in Addresses \ {a} : units'[b] = units[b]
  BY <1>1 DEF Eject, FilesTypeOK, Units
<1>3. MediumConsistent(units'[a])
  BY <1>1, <1>2 DEF MediumConsistent
<1> QED
  BY <1>1, <1>2, <1>3, ConsistentChanged

\* Whether the medium is protected does not matter. A file that has been validated is there.
LEMMA FlagsConsistent ==
    ASSUME NEW flags, NEW f, NEW b
    PROVE  /\ "ready" \in Protecting(flags, b) <=> "ready" \in flags
           /\ "removed" \in Protecting(flags, b) <=> "removed" \in flags
           /\ "removed" \notin Validated(flags, f)
  BY DEF Protecting, Validated

LEMMA NewUnitConsistent ==
    ASSUME NEW d, MayAttach(d)
    PROVE  MediumConsistent(NewUnit(d)) /\ NewUnit(d).type = d.type
<1>1. NewUnit(d).type = d.type
  BY DEF NewUnit
<1>2. CASE d.type \notin ImageTypes
  BY <1>1, <1>2 DEF MediumConsistent
<1>3. CASE d.type \in ImageTypes /\ d.file = NoFile
  <2>1. NewUnit(d).flags = Protecting(SetUpFlags(d), d.protected)
    BY <1>3 DEF NewUnit
  <2>2. "ready" \notin SetUpFlags(d)
    BY <1>3 DEF SetUpFlags
  <2>3. "ready" \notin NewUnit(d).flags
    BY <2>1, <2>2, FlagsConsistent
  <2>4. d.type \in RemovableTypes
    BY <1>3 DEF MayAttach
  <2> QED
    BY <1>1, <2>3, <2>4 DEF MediumConsistent
<1>4. CASE d.type \in ImageTypes /\ d.file # NoFile
  <2>1. NewUnit(d).flags = Protecting(Validated(SetUpFlags(d), d.file), d.protected)
    BY <1>4 DEF NewUnit
  <2>2. "removed" \notin NewUnit(d).flags
    BY <2>1, FlagsConsistent
  <2>3. NewUnit(d).file # NoFile /\ NewUnit(d).open # NoFile
    BY <1>4 DEF NewUnit
  <2> QED
    BY <1>1, <2>2, <2>3 DEF MediumConsistent
<1> QED
  BY <1>2, <1>3, <1>4

LEMMA AttachConsistent ==
    ASSUME FilesTypeOK, DeviceListConsistent, Attach
    PROVE  DeviceListConsistent'
<1> DEFINE a == Current.address
           new == NewUnit(Current)
<1>1. command \in Commands
  BY ExecutingTyped DEF Attach, Operations
<1>2. a \in Addresses /\ CanAttach(Current) /\ MayAttach(Current)
  BY <1>1, CurrentTyped DEF Attach, CanAttach
<1>3. MediumConsistent(new) /\ new.type = Current.type
  BY <1>2, NewUnitConsistent
<1>4. new # NoUnit
  <2>1. new \in Units
    BY <1>1, CurrentTyped, NewUnitTyped
  <2> QED
    BY <2>1, NoUnitUntyped DEF Units
<1>5. /\ units[a] = NoUnit
      /\ a[1] \notin reservedIds
      /\ new.type = "SCDP" => \A b \in Attached : units[b].type # "SCDP"
      /\ a[2] = 0 \/ units[Lun0(a)] # NoUnit
  BY <1>2, <1>3 DEF CanAttach, MayAttach
<1>6. reservedIds' = reservedIds /\ units' = [units EXCEPT ![a] = new]
  BY DEF Attach, Done
<1> HIDE DEF a, new
<1>7. units'[a] = new /\ \A b \in Addresses \ {a} : units'[b] = units[b]
  BY <1>2, <1>6 DEF FilesTypeOK
<1>8. Attached' = Attached \cup {a} /\ a \notin Attached
  BY <1>2, <1>4, <1>5, <1>7 DEF Attached
<1>9. \A b \in Attached' : units'[Lun0(b)] # NoUnit
  <2>1. \A b \in Addresses : units[b] # NoUnit => units'[b] # NoUnit
    BY <1>5, <1>7
  <2>2. \A b \in Attached : units'[Lun0(b)] # NoUnit
    BY <2>1, ConsistentDef, Lun0Typed DEF Attached
  <2>3. units'[Lun0(a)] # NoUnit
    BY <1>2, <1>4, <1>5, <1>7, <2>1, Lun0Typed
  <2> QED
    BY <1>8, <2>2, <2>3
<1>10. \A b \in Attached : b # a /\ units'[b] = units[b]
  BY <1>7, <1>8 DEF Attached
<1>11. \A b \in Attached' : b[1] \notin reservedIds'
  BY <1>5, <1>6, <1>8, ConsistentDef
<1>12. \A b, c \in Attached' : units'[b].type = "SCDP" /\ units'[c].type = "SCDP" => b = c
  BY <1>5, <1>7, <1>8, <1>10, ConsistentDef
<1>13. \A b \in Attached' : MediumConsistent(units'[b])
  BY <1>3, <1>7, <1>8, <1>10, ConsistentDef
<1> QED
  BY <1>9, <1>11, <1>12, <1>13 DEF DeviceListConsistent, MediumConsistent, Has

LEMMA InsertConsistent ==
    ASSUME FilesTypeOK, DeviceListConsistent, Insert \/ InsertFails
    PROVE  DeviceListConsistent'
<1> DEFINE a == Current.address
           f == InsertFile(Current)
<1>1. command \in Commands /\ a \in Addresses
  BY ExecutingTyped, CurrentTyped DEF Insert, InsertFails, Operations
<1>2. MayInsert(Current) /\ CanReserve(f)
  BY DEF Insert, InsertFails
<1>3. units[a].type \in RemovableTypes /\ "removed" \in units[a].flags /\ f # NoFile
  BY <1>2 DEF MayInsert, Has
<1>4. units[a] \in Units /\ units[a] # NoUnit
  <2>1. units[a].type # NoUnit.type
    BY <1>3 DEF RemovableTypes
  <2> QED
    BY <1>1, <2>1, UnitTyped
<1>5. "ready" \notin units[a].flags
  <2>1. units[a].type \in ImageTypes /\ MediumConsistent(units[a])
    BY <1>1, <1>3, <1>4, ConsistentDef DEF Attached, ImageTypes, RemovableTypes
  <2> QED
    BY <1>3, <2>1 DEF MediumConsistent
<1>6. reservedIds' = reservedIds
  BY DEF Insert, InsertFails, Done, Fail
<1>7. CASE Insert
  <2> DEFINE new == Inserted(a, f, Current.protected)
  <2>1. units' = [units EXCEPT ![a] = new]
    BY <1>7 DEF Insert
  <2>2. /\ new.type = units[a].type /\ new.file = f
        /\ new.flags = Protecting(Validated(units[a].flags, f), Current.protected)
    BY <1>4 DEF Inserted, Units
  <2>3. MediumConsistent(new)
    BY <1>3, <2>2, FlagsConsistent DEF MediumConsistent
  <2> HIDE DEF new, a, f
  <2>4. units'[a] = new /\ \A b \in Addresses \ {a} : units'[b] = units[b]
    BY <1>1, <2>1 DEF FilesTypeOK
  <2> QED
    BY <1>1, <1>4, <1>6, <2>2, <2>3, <2>4, ConsistentChanged
<1>8. CASE InsertFails
  <2>1. PICK flags \in {units[a].flags, Validated(units[a].flags, f)} :
            units' = [units EXCEPT ![a].file = f, ![a].flags = flags]
    BY <1>8 DEF InsertFails
  <2>2. "ready" \in flags => "removed" \notin flags
    BY <1>5, <2>1, FlagsConsistent
  <2> HIDE DEF a, f
  <2>3. /\ units'[a].type = units[a].type
        /\ units'[a].file = f /\ units'[a].flags = flags
        /\ \A b \in Addresses \ {a} : units'[b] = units[b]
    BY <1>1, <1>4, <2>1 DEF FilesTypeOK, Units
  <2>4. MediumConsistent(units'[a])
    BY <1>3, <2>2, <2>3 DEF MediumConsistent
  <2> QED
    BY <1>1, <1>4, <1>6, <2>3, <2>4, ConsistentChanged
<1> QED
  BY <1>7, <1>8

LEMMA DetachConsistent ==
    ASSUME FilesTypeOK, DeviceListConsistent, Detach
    PROVE  DeviceListConsistent'
<1> DEFINE a == Current.address
<1>1. command \in Commands /\ a \in Addresses
  BY ExecutingTyped, CurrentTyped DEF Detach, Operations
<1>2. /\ units[a] # NoUnit /\ units' = [units EXCEPT ![a] = NoUnit]
      /\ reservedIds' = reservedIds
      /\ a[2] = 0 => \A b \in Attached : b[1] = a[1] => b = a
  BY DEF Detach, Done, MayDetach
<1> HIDE DEF a
<1>3. units'[a] = NoUnit /\ \A b \in Addresses \ {a} : units'[b] = units[b]
  BY <1>1, <1>2 DEF FilesTypeOK
<1>4. ASSUME NEW b \in Attached'
      PROVE  units'[Lun0(b)] = units[Lun0(b)]
  <2>1. b \in Attached /\ b # a /\ b \in Addresses
    BY <1>3, <1>4 DEF Attached
  <2>2. Lun0(b) # a
    BY <1>2, <2>1, Lun0Typed
  <2> QED
    BY <1>3, <2>1, <2>2, Lun0Typed
<1> QED
  BY <1>2, <1>3, <1>4, ConsistentDetached

LEMMA ChangeFlagsConsistent ==
    ASSUME FilesTypeOK, DeviceListConsistent, ChangeFlags
    PROVE  DeviceListConsistent'
<1> DEFINE a == Current.address
           flags == units[a].flags
           new == IF command.op = "STOP" THEN flags \ {"ready"}
                  ELSE Protecting(flags, command.op = "PROTECT")
<1>1. command \in Commands /\ a \in Addresses
  BY ExecutingTyped, CurrentTyped DEF ChangeFlags, Operations
<1>2. units' = [units EXCEPT ![a].flags = new] /\ reservedIds' = reservedIds
  BY DEF ChangeFlags, Done
<1>3. /\ "ready" \in new => "ready" \in flags
      /\ "removed" \in new => "removed" \in flags
  BY FlagsConsistent
<1> HIDE DEF a, new
<1>4. \A b \in Addresses \ {a} : units'[b] = units[b]
  BY <1>1, <1>2 DEF FilesTypeOK
<1>5. CASE units[a] = NoUnit
  <2>1. units'[a] = units[a]
    BY <1>1, <1>2, <1>5 DEF FilesTypeOK
  <2> QED
    BY <1>2, <1>4, <2>1, ConsistentKept
<1>6. CASE units[a] # NoUnit
  <2>1. units[a] \in Units /\ MediumConsistent(units[a])
    BY <1>1, <1>6, UnitTyped, ConsistentDef DEF Attached
  <2>2. /\ units'[a].type = units[a].type /\ units'[a].flags = new
        /\ units'[a].file = units[a].file /\ units'[a].open = units[a].open
    BY <1>1, <1>2, <2>1 DEF FilesTypeOK, Units
  <2>3. MediumConsistent(units'[a])
    BY <1>3, <2>1, <2>2 DEF MediumConsistent
  <2> QED
    BY <1>1, <1>2, <1>4, <2>1, <2>2, <2>3, ConsistentChanged
<1> QED
  BY <1>5, <1>6

LEMMA LoadConsistent ==
    ASSUME FilesTypeOK, DeviceListConsistent, NEW a \in Addresses, LoadMedium(a)
    PROVE  DeviceListConsistent'
<1> DEFINE f == units[a].last
<1>1. /\ units[a] # NoUnit /\ f # NoFile
      /\ units' = [units EXCEPT ![a].file = f] /\ reservedIds' = reservedIds
  BY DEF LoadMedium, Dispatch
<1>2. units[a] \in Units /\ MediumConsistent(units[a])
  BY <1>1, UnitTyped, ConsistentDef DEF Attached
<1> HIDE DEF f
<1>3. /\ units'[a].type = units[a].type /\ units'[a].flags = units[a].flags
      /\ units'[a].file = f /\ units'[a].open = units[a].open
      /\ \A b \in Addresses \ {a} : units'[b] = units[b]
  BY <1>1, <1>2 DEF FilesTypeOK, Units
<1>4. MediumConsistent(units'[a])
  BY <1>1, <1>2, <1>3 DEF MediumConsistent
<1> QED
  BY <1>1, <1>2, <1>3, <1>4, ConsistentChanged

LEMMA ConsistentNext ==
    ASSUME FilesTypeOK, DeviceListConsistent, [FilesNext]_fileVars
    PROVE  DeviceListConsistent'
<1>1. CASE UNCHANGED <<units, reservedIds>>
  BY <1>1, ConsistentKept
<1>2. CASE EjectForced
  <2>1. command \in Commands /\ Current.address \in Addresses /\ reservedIds' = reservedIds
    BY <1>2, ExecutingTyped, CurrentTyped DEF EjectForced, Operations, Done
  <2>2. CASE CanEject(Current.address)
    <3>1. units[Current.address] # NoUnit
      BY <2>2 DEF CanEject, RemovableTypes
    <3> QED
      BY <1>2, <2>1, <2>2, <3>1, ConsistentEjected DEF EjectForced
  <2>3. CASE ~CanEject(Current.address)
    BY <1>1, <1>2, <2>1, <2>3 DEF EjectForced
  <2> QED
    BY <2>2, <2>3
<1>3. CASE DetachAll
  <2>1. /\ \A a \in Addresses : units'[a] = NoUnit
        /\ reservedIds' = reservedIds
    BY <1>3 DEF DetachAll
  <2>2. Attached' = {}
    BY <2>1 DEF Attached
  <2> QED
    BY <2>1, <2>2, ConsistentDetached
<1>4. ASSUME NEW ids \in SUBSET Ids, SetReservedIds(ids)
      PROVE  DeviceListConsistent'
  <2>1. units' = units /\ Attached' = Attached /\ reservedIds' = ids
    BY <1>4 DEF SetReservedIds, Attached
  <2>2. \A a \in Attached : a[1] \notin ids
    BY <1>4, ConsistentDef DEF SetReservedIds, Lun0
  <2> QED
    BY <2>1, <2>2 DEF DeviceListConsistent, Has
<1>5. ASSUME NEW a \in Addresses, EjectMedium(a)
      PROVE  DeviceListConsistent'
  BY <1>5, ConsistentEjected DEF EjectMedium, Dispatch
<1>6. CASE \E a \in Addresses : LoadMedium(a)
  BY <1>6, LoadConsistent
<1>7. CASE \/ AttachFails \/ InsertRefused \/ DetachFails \/ ImageCommand
           \/ \E r \in Requests : StartCommand(r)
  BY <1>1, <1>7 DEF AttachFails, InsertRefused, DetachFails, Fail, StartCommand, ImageCommand,
       StartImageCommand, CreateImage, ExecuteImageCommand
<1>8. CASE UNCHANGED fileVars
  BY <1>1, <1>8 DEF fileVars
<1> QED
  BY <1>2, <1>3, <1>4, <1>5, <1>6, <1>7, <1>8, AttachConsistent, InsertConsistent,
     DetachConsistent, ChangeFlagsConsistent
  DEF FilesNext, DeviceCommand, ScsiCommand

\* Each target has a LUN 0, reserved IDs have no devices, there is at most one network adapter,
\* and what is ready has a medium: for any device commands, with failures at any of their
\* definitions, and any SCSI commands between them.
THEOREM DevicesConsistent == FilesSpec => []DeviceListConsistent
<1>1. FilesInit => DeviceListConsistent
  BY DEF FilesInit, DeviceListConsistent, Attached
<1>2. FilesTypeOK /\ DeviceListConsistent /\ [FilesNext]_fileVars => DeviceListConsistent'
  BY ConsistentNext
<1> QED
  BY <1>1, <1>2, FilesTyped, PTL DEF FilesSpec

-----------------------------------------------------------------------------
(* Image file commands                                                     *)

\* The file that a unit uses exists, and so does the one of an image file command, which no
\* unit uses if it is going to be deleted or renamed. Both threads may act between its check
\* and its effect, but only the service thread opens files.
MediaPresent == \A a \in Attached, f \in Files \ unclear : units[a].open = f => images[f] # "absent"

ImageUnused ==
    image # Idle =>
        /\ command = Idle
        /\ images[image.from] # "absent"
        /\ image.op \in {"DELETE", "RENAME"} /\ image.from \notin unclear =>
               \A a \in Attached : units[a].open # image.from

MediaInv == MediaPresent /\ ImageUnused

\* Units only lose files, and the files stay.
LEMMA MediaKept ==
    ASSUME FilesTypeOK, MediaInv, images' = images, unclear \subseteq unclear', image' = image,
           image # Idle => command' = Idle,
           \A a \in Attached' : a \in Attached /\ units'[a].open \in {units[a].open, NoFile}
    PROVE  MediaInv' /\ KeepsReadyMedia
<1>1. NoFile \notin Files
  BY ImageFilesAssumption
<1>2. MediaPresent'
  BY <1>1 DEF MediaInv, MediaPresent
<1>3. image # Idle => image.from \in Files
  BY DEF FilesTypeOK
<1>4. ImageUnused'
  BY <1>1, <1>3 DEF MediaInv, ImageUnused
<1> QED
  BY <1>2, <1>4 DEF MediaInv, MediaPresent, KeepsReadyMedia

\* A device command opens the file g, or attaches a unit without one.
LEMMA MediaOpened ==
    ASSUME MediaInv, command # Idle, images' = images, unclear \subseteq unclear', image' = image,
           NEW a \in Addresses, NEW g, g \in Files => images[g] # "absent",
           units'[a].open = g, \A b \in Addresses \ {a} : units'[b] = units[b]
    PROVE  MediaInv' /\ KeepsReadyMedia
<1>1. image' = Idle
  BY DEF MediaInv, ImageUnused
<1>2. \A b \in Attached' : b = a \/ (b \in Attached /\ units'[b] = units[b])
  BY DEF Attached
<1>3. MediaPresent'
  BY <1>2 DEF MediaInv, MediaPresent
<1> QED
  BY <1>1, <1>3 DEF MediaInv, MediaPresent, ImageUnused, KeepsReadyMedia

LEMMA AttachOpens ==
    ASSUME FilesTypeOK, MediaInv, Attach
    PROVE  MediaInv' /\ KeepsReadyMedia
<1> DEFINE a == Current.address
           new == NewUnit(Current)
<1>1. command \in Commands /\ a \in Addresses
  BY ExecutingTyped, CurrentTyped DEF Attach, Operations
<1>2. new.open \in Files => images[new.open] # "absent"
  BY ImageFilesAssumption DEF Attach, CanAttach, MayAttach, NewUnit
<1>3. units' = [units EXCEPT ![a] = new]
  BY DEF Attach
<1>4. command # Idle /\ images' = images /\ unclear' = unclear /\ image' = image
  BY DEF Attach, Executing, Done
<1> HIDE DEF a, new
<1>5. units'[a] = new /\ \A b \in Addresses \ {a} : units'[b] = units[b]
  BY <1>1, <1>3 DEF FilesTypeOK
<1> QED
  BY <1>1, <1>2, <1>4, <1>5, MediaOpened

LEMMA InsertOpens ==
    ASSUME FilesTypeOK, MediaInv, Insert
    PROVE  MediaInv' /\ KeepsReadyMedia
<1> DEFINE a == Current.address
           f == InsertFile(Current)
           new == Inserted(a, f, Current.protected)
<1>1. command \in Commands /\ a \in Addresses
  BY ExecutingTyped, CurrentTyped DEF Insert, Operations
<1>2. units[a] \in Units
  <2>1. units[a].type # NoUnit.type
    BY DEF Insert, MayInsert, RemovableTypes
  <2> QED
    BY <1>1, <2>1, UnitTyped
<1>3. /\ units' = [units EXCEPT ![a] = new]
      /\ images[f] # "absent" /\ unclear \subseteq unclear'
  BY DEF Insert
<1>4. new.open = f
  BY <1>2 DEF Inserted, Units
<1>5. command # Idle /\ images' = images /\ image' = image
  BY DEF Insert, Executing, Done
<1> HIDE DEF a, f, new
<1>6. units'[a] = new /\ \A b \in Addresses \ {a} : units'[b] = units[b]
  BY <1>1, <1>3 DEF FilesTypeOK
<1> QED
  BY <1>1, <1>3, <1>4, <1>5, <1>6, MediaOpened

LEMMA ImageCommandKeeps ==
    ASSUME FilesTypeOK, ReservationsExact, MediaInv, ImageCommand
    PROVE  MediaInv' /\ KeepsReadyMedia
<1>1. ASSUME NEW op \in ImageOperations, NEW from \in Files, NEW to \in Files,
             StartImageCommand(op, from, to)
      PROVE  MediaInv' /\ KeepsReadyMedia
  <2>1. /\ image' = [op |-> op, from |-> from, to |-> to]
        /\ command' = Idle /\ images' = images /\ units' = units /\ unclear' = unclear
        /\ images[from] # "absent"
        /\ op # "UNPROTECT" => reserved[from] = Nobody
    BY <1>1 DEF StartImageCommand, MayChange, ServiceIdle
  <2>2. op # "UNPROTECT" /\ from \notin unclear => \A a \in Attached : units[a].open # from
    <3>1. \A a \in Addresses : a # Nobody
      BY ImageFilesAssumption
    <3> QED
      BY <2>1, <3>1 DEF ReservationsExact, Attached
  <2>3. Attached' = Attached
    BY <2>1 DEF Attached
  <2>4. ImageUnused'
    BY <2>1, <2>2, <2>3 DEF ImageUnused
  <2> QED
    BY <2>1, <2>3, <2>4 DEF MediaInv, MediaPresent, KeepsReadyMedia
<1>2. ASSUME NEW f \in Files, NEW state \in {"writable", "read-only"}, CreateImage(f, state)
      PROVE  MediaInv' /\ KeepsReadyMedia
  <2>1. \A g \in Files : images'[g] = images[g] \/ images'[g] # "absent"
    BY <1>2 DEF CreateImage, FilesTypeOK
  <2>2. image' = Idle /\ units' = units /\ unclear' = unclear /\ Attached' = Attached
    BY <1>2 DEF CreateImage, ServiceIdle, Attached
  <2> QED
    BY <2>1, <2>2 DEF MediaInv, MediaPresent, ImageUnused, KeepsReadyMedia
<1>3. CASE ExecuteImageCommand
  <2>1. image' = Idle /\ units' = units /\ unclear' = unclear /\ Attached' = Attached
    BY <1>3 DEF ExecuteImageCommand, Attached
  <2>2. ASSUME NEW f \in Files \ unclear, images[f] # "absent",
               image.op \in {"DELETE", "RENAME"} => f # image.from
        PROVE  images'[f] # "absent"
    <3>1. CASE images' = images
      BY <2>2, <3>1
    <3>2. ASSUME NEW state \in {"writable", "read-only"},
                 images' = Changed(image.op, image.from, image.to, state)
          PROVE  images'[f] # "absent"
      <4>1. /\ image.from \in Files /\ image.to \in Files
            /\ image.op \in ImageOperations
            /\ images[image.from] # "absent"
        BY <1>3 DEF ExecuteImageCommand, FilesTypeOK, MediaInv, ImageUnused
      <4> QED
        BY <2>2, <3>2, <4>1 DEF Changed, ImageOperations, FilesTypeOK
    <3> QED
      BY <1>3, <3>1, <3>2 DEF ExecuteImageCommand
  <2>3. \A a \in Attached, f \in Files \ unclear : units[a].open = f => images'[f] # "absent"
    BY <1>3, <2>2 DEF ExecuteImageCommand, MediaInv, MediaPresent, ImageUnused
  <2> QED
    BY <2>1, <2>3 DEF MediaInv, MediaPresent, ImageUnused, KeepsReadyMedia
<1> QED
  BY <1>1, <1>2, <1>3 DEF ImageCommand

LEMMA MediaNext ==
    ASSUME FilesTypeOK, ReservationsExact, MediaInv, [FilesNext]_fileVars
    PROVE  MediaInv' /\ (KeepsReadyMedia \/ UNCHANGED fileVars)
<1> DEFINE a == Current.address
           Edited(b) == \E flags, f :
               units' \in {[units EXCEPT ![b].file = f], [units EXCEPT ![b].flags = flags],
                           [units EXCEPT ![b].file = f, ![b].flags = flags]}
<1>1. ASSUME UNCHANGED <<units, images, unclear, image>>, image # Idle => command' = Idle
      PROVE  MediaInv' /\ KeepsReadyMedia
  BY <1>1, MediaKept DEF Attached
<1>2. CASE \/ AttachFails \/ InsertRefused \/ DetachFails
           \/ \E r \in Requests : StartCommand(r)
           \/ \E ids \in SUBSET Ids : SetReservedIds(ids)
  BY <1>1, <1>2 DEF AttachFails, InsertRefused, DetachFails, Fail, StartCommand, SetReservedIds,
       ServiceIdle
<1>3. ASSUME NEW b, Eject(b), b \in Attached, images' = images, image' = image,
             unclear' = unclear, image # Idle => command' = Idle
      PROVE  MediaInv' /\ KeepsReadyMedia
  <2>1. units[b] \in Units /\ b \in Addresses
    BY <1>3, UnitTyped DEF Attached
  <2>2. units'[b].open = NoFile /\ \A c \in Addresses \ {b} : units'[c] = units[c]
    BY <1>3, <2>1 DEF Eject, FilesTypeOK, Units
  <2> QED
    BY <1>3, <2>1, <2>2, MediaKept DEF Attached
<1>4. CASE EjectForced
  <2>1. command \in Commands /\ a \in Addresses
    BY <1>4, ExecutingTyped, CurrentTyped DEF EjectForced, Operations
  <2>2. images' = images /\ image' = image /\ unclear' = unclear /\ image = Idle
    BY <1>4 DEF EjectForced, Executing, Done, MediaInv, ImageUnused
  <2>3. CanEject(a) => a \in Attached
    BY <2>1 DEF CanEject, RemovableTypes, Attached
  <2> QED
    BY <1>1, <1>3, <1>4, <2>2, <2>3 DEF EjectForced
<1>5. ASSUME NEW b \in Addresses, EjectMedium(b)
      PROVE  MediaInv' /\ KeepsReadyMedia
  BY <1>3, <1>5 DEF EjectMedium, Dispatch, Attached
<1>6. CASE Detach \/ DetachAll
  <2>1. /\ \A b \in Addresses : units'[b] \in {units[b], NoUnit}
        /\ images' = images /\ unclear' = unclear /\ image' = image /\ image = Idle
    BY <1>6 DEF Detach, DetachAll, Executing, Done, MediaInv, ImageUnused, ServiceIdle, FilesTypeOK
  <2> QED
    BY <2>1, MediaKept DEF Attached
<1>7. ASSUME NEW b \in Addresses, images' = images, image' = image, unclear \subseteq unclear',
             image # Idle => command' = Idle,
             Edited(b)
      PROVE  MediaInv' /\ KeepsReadyMedia
  <2> PICK flags, f :
            units' \in {[units EXCEPT ![b].file = f], [units EXCEPT ![b].flags = flags],
                        [units EXCEPT ![b].file = f, ![b].flags = flags]}
    BY <1>7
  <2>1. \A c \in Addresses \ {b} : units'[c] = units[c]
    BY <1>7 DEF FilesTypeOK
  <2>2. CASE units[b] \in Units
    <3>1. units[b] # NoUnit
      BY <2>2, NoUnitUntyped DEF Units
    <3>2. ASSUME units' = [units EXCEPT ![b].file = f]
          PROVE  units'[b].open = units[b].open
      BY <1>7, <2>2, <3>2 DEF FilesTypeOK, Units
    <3>3. ASSUME units' = [units EXCEPT ![b].flags = flags]
          PROVE  units'[b].open = units[b].open
      BY <1>7, <2>2, <3>3 DEF FilesTypeOK, Units
    <3>4. ASSUME units' = [units EXCEPT ![b].file = f, ![b].flags = flags]
          PROVE  units'[b].open = units[b].open
      BY <1>7, <2>2, <3>4 DEF FilesTypeOK, Units
    <3>5. units'[b].open = units[b].open
      BY <1>7, <3>2, <3>3, <3>4
    <3> QED
      BY <1>7, <2>1, <3>1, <3>5, MediaKept DEF Attached
  <2>3. CASE units[b] = NoUnit
    <3>1. units'[b] = NoUnit
      BY <1>7, <2>3 DEF FilesTypeOK
    <3> QED
      BY <1>7, <2>1, <3>1, MediaKept DEF Attached
  <2> QED
    BY <2>2, <2>3 DEF FilesTypeOK
<1>8. CASE ChangeFlags \/ InsertFails
  <2>1. command \in Commands /\ a \in Addresses
    BY <1>8, ExecutingTyped, CurrentTyped DEF ChangeFlags, InsertFails, Operations
  <2>2. Edited(a)
    BY <1>8 DEF ChangeFlags, InsertFails
  <2>3. /\ images' = images /\ image' = image /\ image = Idle
        /\ unclear \subseteq unclear'
    BY <1>8 DEF ChangeFlags, InsertFails, Executing, Done, Fail, MediaInv, ImageUnused
  <2> HIDE DEF a, Edited
  <2> QED
    BY <1>7, <2>1, <2>2, <2>3
<1>9. ASSUME NEW b \in Addresses, LoadMedium(b)
      PROVE  MediaInv' /\ KeepsReadyMedia
  <2>1. /\ units' = [units EXCEPT ![b].file = units[b].last]
        /\ images' = images /\ image' = image /\ command' = Idle
        /\ unclear \subseteq unclear'
    BY <1>9 DEF LoadMedium, Dispatch
  <2>2. Edited(b)
    BY <2>1
  <2> HIDE DEF Edited
  <2> QED
    BY <1>7, <2>1, <2>2
<1> QED
  BY <1>2, <1>4, <1>5, <1>6, <1>8, <1>9, <1>1, AttachOpens, InsertOpens, ImageCommandKeeps
  DEF FilesNext, DeviceCommand, ScsiCommand, fileVars, MediaInv, MediaPresent, ImageUnused,
      Attached

\* An image file command never takes the file of a ready unit away, for any units, files and
\* commands, although the SCSI thread may act between its check and its effect.
THEOREM ReadyMediaKept == FilesSpec => ReadyMediumKept
<1>1. FilesInit => MediaInv
  BY DEF FilesInit, MediaInv, MediaPresent, ImageUnused, Attached
<1>2. FilesTypeOK /\ ReservationsExact /\ MediaInv /\ [FilesNext]_fileVars =>
        MediaInv' /\ [KeepsReadyMedia]_fileVars
  BY MediaNext
<1> QED
  BY <1>1, <1>2, FilesTyped, FilesReserved, PTL DEF FilesSpec, ReadyMediumKept
=============================================================================
