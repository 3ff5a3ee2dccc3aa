----------------------------- MODULE DiskProofs -----------------------------
(***************************************************************************)
(* Proofs about Disk: an initiator reads what was written last, a medium   *)
(* that has left the drive has all of it, a change of the medium is        *)
(* reported before its data are accessed, and protected media are kept.    *)
(*                                                                         *)
(* The first two follow from one fact: what the drive sees of a file is    *)
(* always what initiators have written to it. Cached data are within the   *)
(* file, because no transfer goes beyond the blocks the cache was made for.*)
(***************************************************************************)
EXTENDS Disk, SequenceTheorems, TLAPS

Cells == Seq(Int)

Units ==
    [attached : BOOLEAN, name : Media \cup {NoMedium}, last : Media \cup {NoMedium},
     reserved : SUBSET (Media \cup {NoMedium}), ready : BOOLEAN, reset : BOOLEAN, attn : BOOLEAN,
     changed : BOOLEAN, locked : BOOLEAN, protected : BOOLEAN, removed : BOOLEAN]

Caches ==
    [kind : {"none", "PISCSI", "LINUX"}, file : Media \cup {NoMedium}, size : Nat, pending : Cells]

Transfers == [op : {"none", "read", "write", "write long"}, rest : Nat]

DiskTyped ==
    /\ unit \in Units
    /\ size \in Nat \ {0} /\ blocks \in Nat
    /\ cache \in Caches
    /\ content \in [Media -> Cells] /\ written \in [Media -> Cells]
    /\ next \in Nat /\ step \in Nat
    /\ transfer \in Transfers
    /\ told \in BOOLEAN

\* What the drive with cache c and files f sees of file m
View(f, c, m) == IF m = c.file /\ c.kind = "PISCSI" THEN Overlay(f[m], c.pending) ELSE f[m]

\* The cache hides nothing of the files.
Shows(f, c) == \A m \in Media : View(f, c, m) = f[m]

\* A cache with a file has the cells of that file and the blocks of the drive, b, are within it.
Fits(f, c, b) ==
    /\ c.kind = "none" <=> c.file = NoMedium
    /\ c.kind = "PISCSI" => Len(c.pending) = Len(f[c.file]) /\ b * c.size <= Len(f[c.file])

CacheFits ==
    /\ Fits(content, cache, blocks)
    /\ cache.kind = "PISCSI" => mode = "PISCSI"
    /\ unit.ready => cache.kind # "none" /\ unit.name # NoMedium /\ unit.attached
    /\ unit.removed => cache.kind = "none"

TransferFits ==
    /\ ~Idle => cache.kind # "none"
    /\ transfer.op = "write" /\ cache.kind = "PISCSI" =>
          step = 1 /\ transfer.rest >= 1 /\ next + transfer.rest <= blocks
    /\ transfer.op = "write long" => cache.kind = "LINUX"
    /\ transfer.op \in {"write", "write long"} => ~unit.protected

\* The drive sees what has been written.
Seen(f, c, w) == \A m \in Media : View(f, c, m) = w[m]

Reported ==
    /\ told \/ unit.changed \/ (~unit.attached /\ ~unit.removed)
    /\ Idle \/ told

DiskInv == DiskTyped /\ CacheFits /\ TransferFits /\ Seen(content, cache, written) /\ Reported /\ ReadsLastWritten

-----------------------------------------------------------------------------
(* Cells                                                                   *)

LEMMA RepeatCells ==
    ASSUME NEW v \in Int, NEW n \in Nat
    PROVE  /\ Repeat(v, n) \in Cells /\ Len(Repeat(v, n)) = n
           /\ \A i \in 1 .. n : Repeat(v, n)[i] = v
<1>1. Repeat(v, n) \in [1 .. n -> Int]
  BY DEF Repeat
<1>2. Repeat(v, n) \in Cells
  BY <1>1, SeqDef DEF Cells
<1>3. Len(Repeat(v, n)) = n
  BY <1>1, <1>2, LenProperties DEF Cells
<1> QED
  BY <1>2, <1>3 DEF Repeat

LEMMA MaxIsGreatest ==
    ASSUME NEW a \in Int, NEW b \in Int
    PROVE  Max({a, b}) = IF a >= b THEN a ELSE b
<1> DEFINE c == IF a >= b THEN a ELSE b
<1>1. c \in {a, b} /\ \A y \in {a, b} : c >= y
  OBVIOUS
<1>2. \A x \in {a, b} : (\A y \in {a, b} : x >= y) => x = c
  OBVIOUS
<1> QED
  BY <1>1, <1>2 DEF Max

LEMMA OverwriteCells ==
    ASSUME NEW cells \in Cells, NEW p \in Nat, NEW new \in Cells
    PROVE  LET n == IF Len(cells) >= p + Len(new) THEN Len(cells) ELSE p + Len(new)
               o == Overwrite(cells, p, new)
           IN  /\ o \in Cells /\ Len(o) = n /\ DOMAIN o = 1 .. n
               /\ \A i \in 1 .. n : o[i] = IF i > p /\ i <= p + Len(new) THEN new[i - p]
                                          ELSE IF i <= Len(cells) THEN cells[i] ELSE 0
<1> DEFINE n == IF Len(cells) >= p + Len(new) THEN Len(cells) ELSE p + Len(new)
           o == Overwrite(cells, p, new)
<1>1. /\ Len(cells) \in Nat /\ Len(new) \in Nat
      /\ \A i \in 1 .. Len(cells) : cells[i] \in Int
      /\ \A i \in 1 .. Len(new) : new[i] \in Int
  BY LenProperties, ElementOfSeq DEF Cells
<1>2. n \in Nat /\ Max({Len(cells), p + Len(new)}) = n
  BY <1>1, MaxIsGreatest
<1>3. o = [i \in 1 .. n |-> IF i > p /\ i <= p + Len(new) THEN new[i - p]
                           ELSE IF i <= Len(cells) THEN cells[i] ELSE 0]
  BY <1>2 DEF Overwrite
<1> HIDE DEF n, o
<1>4. o \in [1 .. n -> Int]
  BY <1>1, <1>2, <1>3
<1>5. o \in Cells
  BY <1>2, <1>4, SeqDef DEF Cells
<1>6. Len(o) = n
  BY <1>2, <1>4, <1>5, LenProperties DEF Cells
<1> QED
  BY <1>3, <1>4, <1>5, <1>6 DEF n, o

LEMMA OverlayCells ==
    ASSUME NEW cells \in Cells, NEW pending \in Cells
    PROVE  LET o == Overlay(cells, pending)
           IN  /\ o \in Cells /\ Len(o) = Len(cells) /\ DOMAIN o = 1 .. Len(cells)
               /\ \A i \in 1 .. Len(cells) :
                    o[i] = IF i \in 1 .. Len(pending) /\ pending[i] # Clean THEN pending[i] ELSE cells[i]
<1> DEFINE o == Overlay(cells, pending)
<1>1. /\ Len(cells) \in Nat /\ Len(pending) \in Nat
      /\ DOMAIN cells = 1 .. Len(cells) /\ DOMAIN pending = 1 .. Len(pending)
      /\ \A i \in 1 .. Len(cells) : cells[i] \in Int
      /\ \A i \in 1 .. Len(pending) : pending[i] \in Int
  BY LenProperties, ElementOfSeq DEF Cells
<1>2. o = [i \in 1 .. Len(cells) |->
            IF i \in 1 .. Len(pending) /\ pending[i] # Clean THEN pending[i] ELSE cells[i]]
  BY <1>1 DEF Overlay
<1> HIDE DEF o
<1>3. o \in [1 .. Len(cells) -> Int]
  BY <1>1, <1>2
<1>4. o \in Cells
  BY <1>1, <1>3, SeqDef DEF Cells
<1>5. Len(o) = Len(cells)
  BY <1>1, <1>3, <1>4, LenProperties DEF Cells
<1> QED
  BY <1>2, <1>3, <1>4, <1>5 DEF o

LEMMA SameCells ==
    ASSUME NEW s \in Cells, NEW t \in Cells, Len(s) = Len(t), \A i \in 1 .. Len(s) : s[i] = t[i]
    PROVE  s = t
  BY SeqEqual DEF Cells

\* With nothing pending the drive sees the file.
LEMMA OverlayClean ==
    ASSUME NEW cells \in Cells, NEW n \in Nat
    PROVE  Overlay(cells, Repeat(Clean, n)) = cells
<1>1. Clean \in Int
  BY DEF Clean
<1>2. /\ Repeat(Clean, n) \in Cells /\ Len(Repeat(Clean, n)) = n
      /\ \A i \in 1 .. n : Repeat(Clean, n)[i] = Clean
  BY <1>1, RepeatCells
<1> QED
  BY <1>2, OverlayCells, SameCells

\* Within the file, data may as well be written to the cache.
LEMMA OverlayOverwrite ==
    ASSUME NEW cells \in Cells, NEW pending \in Cells, Len(pending) = Len(cells),
           NEW p \in Nat, NEW new \in Cells, p + Len(new) <= Len(cells),
           \A i \in 1 .. Len(new) : new[i] # Clean
    PROVE  /\ Overlay(cells, Overwrite(pending, p, new)) = Overwrite(Overlay(cells, pending), p, new)
           /\ Len(Overwrite(pending, p, new)) = Len(pending)
<1> DEFINE q == Overwrite(pending, p, new)
           s == Overlay(cells, pending)
<1>1. Len(cells) \in Nat /\ Len(new) \in Nat
  BY LenProperties DEF Cells
<1>2. /\ q \in Cells /\ Len(q) = Len(cells)
      /\ \A i \in 1 .. Len(cells) : q[i] = IF i > p /\ i <= p + Len(new) THEN new[i - p] ELSE pending[i]
  BY <1>1, OverwriteCells
<1>3. /\ s \in Cells /\ Len(s) = Len(cells)
      /\ \A i \in 1 .. Len(cells) : s[i] = IF pending[i] # Clean THEN pending[i] ELSE cells[i]
  BY <1>1, OverlayCells
<1> HIDE DEF q, s
<1>4. /\ Overwrite(s, p, new) \in Cells /\ Len(Overwrite(s, p, new)) = Len(cells)
      /\ \A i \in 1 .. Len(cells) :
            Overwrite(s, p, new)[i] = IF i > p /\ i <= p + Len(new) THEN new[i - p] ELSE s[i]
  BY <1>1, <1>3, OverwriteCells
<1>5. /\ Overlay(cells, q) \in Cells /\ Len(Overlay(cells, q)) = Len(cells)
      /\ \A i \in 1 .. Len(cells) : Overlay(cells, q)[i] = IF q[i] # Clean THEN q[i] ELSE cells[i]
  BY <1>1, <1>2, OverlayCells
<1>6. ASSUME NEW i \in 1 .. Len(cells)
      PROVE  Overlay(cells, q)[i] = Overwrite(s, p, new)[i]
  <2>1. CASE i > p /\ i <= p + Len(new)
    BY <2>1, <1>1, <1>2, <1>4, <1>5
  <2>2. CASE ~(i > p /\ i <= p + Len(new))
    BY <2>2, <1>2, <1>3, <1>4, <1>5
  <2> QED
    BY <2>1, <2>2
<1>7. Overlay(cells, q) = Overwrite(s, p, new)
  BY <1>4, <1>5, <1>6, SameCells
<1> QED
  BY <1>2, <1>7 DEF q, s

-----------------------------------------------------------------------------
(* What the drive sees of the files                                        *)

LEMMA ViewCells ==
    ASSUME NEW f \in [Media -> Cells], NEW c \in Caches, NEW m \in Media
    PROVE  View(f, c, m) \in Cells /\ Len(View(f, c, m)) = Len(f[m])
  BY OverlayCells DEF View, Caches

LEMMA FlushedView ==
    ASSUME DiskTyped, CacheFits
    PROVE  /\ Flushed \in [Media -> Cells]
           /\ \A m \in Media : Flushed[m] = View(content, cache, m) /\ Len(Flushed[m]) = Len(content[m])
<1>1. content \in [Media -> Cells] /\ cache \in Caches
  BY DEF DiskTyped
<1>2. \A m \in Media : /\ View(content, cache, m) \in Cells
                       /\ Len(View(content, cache, m)) = Len(content[m])
  BY <1>1, ViewCells
<1>3. CASE cache.kind = "none"
  BY <1>1, <1>2, <1>3 DEF Flushed, View
<1>4. CASE cache.kind # "none"
  <2>1. cache.file \in Media
    BY <1>1, <1>4 DEF CacheFits, Fits, Caches
  <2>2. Image(cache.file) = View(content, cache, cache.file)
    BY DEF Image, View
  <2>3. Flushed = [content EXCEPT ![cache.file] = View(content, cache, cache.file)]
    BY <1>4, <2>2 DEF Flushed
  <2>4. \A m \in Media : m # cache.file => View(content, cache, m) = content[m]
    BY DEF View
  <2> QED
    BY <1>1, <1>2, <2>1, <2>3, <2>4
<1> QED
  BY <1>3, <1>4

\* A new cache shows the files as they are.
LEMMA NewCacheTyped ==
    ASSUME content \in [Media -> Cells], NEW caching, NEW s \in Nat, NEW m \in Media
    PROVE  LET c == NewCache(caching, s, m)
           IN  /\ c \in Caches /\ c.file = m /\ c.size = s
               /\ c.kind = IF caching = "PISCSI" THEN "PISCSI" ELSE "LINUX"
               /\ c.kind = "PISCSI" =>
                    c.pending = Repeat(Clean, Len(content[m])) /\ Len(c.pending) = Len(content[m])
<1>1. Len(content[m]) \in Nat /\ Clean \in Int
  BY LenProperties DEF Cells, Clean
<1>2. /\ Repeat(Clean, Len(content[m])) \in Cells
      /\ Len(Repeat(Clean, Len(content[m]))) = Len(content[m])
  BY <1>1, RepeatCells
<1>3. <<>> \in Cells
  BY EmptySeq DEF Cells
<1>4. CASE caching = "PISCSI"
  BY <1>2, <1>4 DEF NewCache, Caches
<1>5. CASE caching # "PISCSI"
  BY <1>3, <1>5 DEF NewCache, Caches
<1> QED
  BY <1>4, <1>5

LEMMA NewCacheShows ==
    ASSUME content \in [Media -> Cells], NEW f \in [Media -> Cells],
           NEW caching, NEW s \in Nat, NEW m \in Media
    PROVE  Shows(f, NewCache(caching, s, m))
<1> DEFINE c == NewCache(caching, s, m)
<1>1. Len(content[m]) \in Nat
  BY LenProperties DEF Cells
<1>2. c.kind = "PISCSI" => c.pending = Repeat(Clean, Len(content[m]))
  BY NewCacheTyped
<1> HIDE DEF c
<1>3. Shows(f, c)
  BY <1>1, <1>2, OverlayClean DEF View, Shows
<1> QED
  BY <1>3 DEF c

LEMMA NewCacheFits ==
    ASSUME content \in [Media -> Cells], NEW f \in [Media -> Cells], NEW b,
           NEW caching, NEW s \in Nat, NEW m \in Media, NoMedium \notin Media,
           Len(f[m]) = Len(content[m]), caching = "PISCSI" => b * s <= Len(f[m])
    PROVE  Fits(f, NewCache(caching, s, m), b)
  BY NewCacheTyped DEF Fits

\* Without a cache the files are seen as they are.
LEMMA NoCacheShows ==
    ASSUME NEW f, NEW b, NoMedium \notin Media
    PROVE  /\ NoCache \in Caches /\ Fits(f, NoCache, b) /\ NoCache.kind = "none"
           /\ Shows(f, NoCache)
<1>1. <<>> \in Cells
  BY EmptySeq DEF Cells
<1> QED
  BY <1>1 DEF NoCache, Caches, Fits, View, Shows

\* After a flush the cache shows the same as before.
LEMMA EmptiedShows ==
    ASSUME DiskTyped, CacheFits, cache.kind # "none"
    PROVE  /\ Emptied \in Caches /\ Fits(Flushed, Emptied, blocks)
           /\ Emptied.kind = cache.kind /\ Emptied.file = cache.file /\ Emptied.size = cache.size
           /\ Shows(Flushed, Emptied)
<1> DEFINE n == Len(cache.pending)
           e == Emptied
<1>1. cache \in Caches /\ content \in [Media -> Cells]
  BY DEF DiskTyped
<1>2. n \in Nat /\ Clean \in Int
  BY <1>1, LenProperties DEF Caches, Cells, Clean
<1>3. Repeat(Clean, n) \in Cells /\ Len(Repeat(Clean, n)) = n
  BY <1>2, RepeatCells
<1>4. e = [cache EXCEPT !.pending = Repeat(Clean, n)]
  BY DEF Emptied
<1>5. /\ Flushed \in [Media -> Cells]
      /\ \A m \in Media : Len(Flushed[m]) = Len(content[m])
  BY FlushedView
<1> HIDE DEF e, n
<1>6. /\ e \in Caches /\ e.kind = cache.kind /\ e.file = cache.file /\ e.size = cache.size
      /\ e.pending = Repeat(Clean, n)
  BY <1>1, <1>3, <1>4 DEF Caches
<1>7. cache.file \in Media
  BY <1>1 DEF CacheFits, Fits, Caches
<1>8. Fits(Flushed, e, blocks)
  BY <1>3, <1>5, <1>6, <1>7 DEF CacheFits, Fits, n
<1>9. Shows(Flushed, e)
  BY <1>2, <1>5, <1>6, OverlayClean DEF View, Shows
<1> QED
  BY <1>6, <1>8, <1>9 DEF e

LEMMA Products ==
    ASSUME NEW a \in Nat, NEW b \in Nat, NEW c \in Nat
    PROVE  /\ a * c \in Nat /\ (a + b) * c = a * c + b * c
           /\ a <= b => a * c <= b * c
  OBVIOUS

\* What is written to the cache within the file, or to the file, is seen.
LEMMA WriteShows ==
    ASSUME DiskAssumption, DiskTyped, CacheFits, Seen(content, cache, written),
           NEW v \in Values, NEW n \in Nat, cache.kind # "none",
           cache.kind = "PISCSI" => (next + n) * cache.size <= Len(content[cache.file]),
           CacheWrite(next, n, v),
           written' = [written EXCEPT ![cache.file] = Overwrite(@, next * cache.size, Repeat(v, n * cache.size))]
    PROVE  /\ content' \in [Media -> Cells] /\ written' \in [Media -> Cells] /\ cache' \in Caches
           /\ cache'.kind = cache.kind /\ cache'.file = cache.file /\ cache'.size = cache.size
           /\ Fits(content', cache', blocks)
           /\ Seen(content', cache', written')
<1> DEFINE p == next * cache.size
           l == n * cache.size
           new == Repeat(v, l)
           c == cache.file
<1>1. /\ cache \in Caches /\ content \in [Media -> Cells] /\ written \in [Media -> Cells]
      /\ cache.size \in Nat /\ cache.pending \in Cells /\ next \in Nat
      /\ v \in Int /\ v # Clean /\ NoMedium \notin Media
  BY DEF DiskTyped, Caches, DiskAssumption, Clean
<1>2. c \in Media
  BY <1>1 DEF CacheFits, Fits, Caches
<1>3. p \in Nat /\ l \in Nat /\ (next + n) * cache.size = p + l
  BY <1>1, Products
<1>4. CacheWrite(next, n, v) <=>
         IF cache.kind = "PISCSI"
         THEN cache' = [cache EXCEPT !.pending = Overwrite(@, p, new)] /\ UNCHANGED content
         ELSE content' = [content EXCEPT ![c] = Overwrite(@, p, new)] /\ UNCHANGED cache
  BY DEF CacheWrite
<1>5. written' = [written EXCEPT ![c] = Overwrite(@, p, new)]
  OBVIOUS
<1>6. p + l <= Len(content[c]) \/ cache.kind # "PISCSI"
  BY <1>3
<1> HIDE DEF p, l
<1>7. /\ new \in Cells /\ Len(new) = l
      /\ \A i \in 1 .. l : new[i] # Clean
  BY <1>1, <1>3, RepeatCells
<1> HIDE DEF new, c
<1>8. written' \in [Media -> Cells]
  <2>1. written[c] \in Cells
    BY <1>1, <1>2
  <2>2. Overwrite(written[c], p, new) \in Cells
    BY <1>3, <1>7, <2>1, OverwriteCells
  <2> QED
    BY <1>1, <1>5, <2>2
<1>9. \A m \in Media : View(content, cache, m) = written[m]
  BY DEF Seen
<1>10. CASE cache.kind = "PISCSI"
  <2> DEFINE q == Overwrite(cache.pending, p, new)
  <2>1. cache' = [cache EXCEPT !.pending = q] /\ content' = content
    BY <1>4, <1>10
  <2>2. Len(cache.pending) = Len(content[c])
    BY <1>10 DEF CacheFits, Fits, c
  <2>3. content[c] \in Cells
    BY <1>1, <1>2
  <2>4. q \in Cells
    BY <1>1, <1>3, <1>7, OverwriteCells
  <2>5. /\ Overlay(content[c], q) = Overwrite(Overlay(content[c], cache.pending), p, new)
        /\ Len(q) = Len(cache.pending)
    <3>1. p + Len(new) <= Len(content[c])
      BY <1>6, <1>7, <1>10
    <3>2. \A i \in 1 .. Len(new) : new[i] # Clean
      BY <1>7
    <3>3. cache.pending \in Cells /\ p \in Nat /\ new \in Cells
      BY <1>1, <1>3, <1>7
    <3> DEFINE cells == content[c]
               pending == cache.pending
    <3>4. cells \in Cells /\ pending \in Cells /\ Len(pending) = Len(cells)
          /\ p + Len(new) <= Len(cells)
      BY <2>2, <2>3, <3>1, <3>3
    <3> HIDE DEF cells, pending
    <3>5. /\ Overlay(cells, Overwrite(pending, p, new))
               = Overwrite(Overlay(cells, pending), p, new)
          /\ Len(Overwrite(pending, p, new)) = Len(pending)
      BY <3>2, <3>3, <3>4, OverlayOverwrite
    <3> QED
      BY <3>5, Zenon DEF cells, pending
  <2> HIDE DEF q
  <2>6. /\ cache' \in Caches /\ cache'.kind = cache.kind /\ cache'.file = cache.file
        /\ cache'.size = cache.size /\ cache'.pending = q
    BY <1>1, <2>1, <2>4 DEF Caches
  <2>7. Fits(content', cache', blocks)
    BY <2>1, <2>5, <2>6 DEF CacheFits, Fits
  <2>8. ASSUME NEW m \in Media
        PROVE  View(content', cache', m) = written'[m]
    <3>1. CASE m = c
      <4>1. written[m] = Overlay(content[c], cache.pending)
        BY <1>9, <1>10, <3>1 DEF View, c
      <4>2. written'[m] = Overwrite(written[m], p, new)
        BY <1>1, <1>5, <3>1
      <4>3. View(content', cache', m) = Overlay(content[c], q)
        BY <1>10, <2>1, <2>6, <3>1 DEF View, c
      <4> QED
        BY <2>5, <4>1, <4>2, <4>3
    <3>2. CASE m # c
      BY <1>1, <1>5, <1>9, <2>1, <2>6, <3>2 DEF View, c
    <3> QED
      BY <3>1, <3>2
  <2> QED
    BY <1>1, <1>8, <2>1, <2>6, <2>7, <2>8 DEF Seen
<1>11. CASE cache.kind # "PISCSI"
  <2>1. content' = [content EXCEPT ![c] = Overwrite(@, p, new)] /\ cache' = cache
    BY <1>4, <1>11
  <2>2. content' \in [Media -> Cells]
    <3>1. content[c] \in Cells
      BY <1>1, <1>2
    <3>2. Overwrite(content[c], p, new) \in Cells
      BY <1>3, <1>7, <3>1, OverwriteCells
    <3> QED
      BY <1>1, <2>1, <3>2
  <2>3. Fits(content', cache', blocks)
    BY <1>11, <2>1 DEF CacheFits, Fits
  <2>4. ASSUME NEW m \in Media
        PROVE  View(content', cache', m) = written'[m]
    <3>1. content[m] = written[m] /\ View(content', cache', m) = content'[m]
      BY <1>9, <1>11, <2>1 DEF View
    <3> QED
      BY <1>1, <1>5, <2>1, <3>1
  <2> QED
    BY <1>1, <1>8, <2>1, <2>2, <2>3, <2>4 DEF Seen
<1> QED
  BY <1>10, <1>11

-----------------------------------------------------------------------------
(* Steps                                                                   *)

\* A step that keeps the files and the cache, and at most ends a transfer
Quiet ==
    /\ UNCHANGED <<mode, blocks, cache, content, written, next, step>>
    /\ sent' = Nothing
    /\ size' \in Nat \ {0} /\ unit' \in Units /\ told' \in BOOLEAN
    /\ unit'.ready => unit.ready /\ unit'.name # NoMedium /\ unit'.attached
    /\ unit'.removed => unit.removed
    /\ transfer' = NoTransfer \/ (transfer' = transfer /\ (Idle \/ unit'.protected = unit.protected))
    /\ told => told'
    /\ told' \/ unit'.changed \/ (~unit'.attached /\ ~unit'.removed)

LEMMA NothingSent == sent = Nothing => ReadsLastWritten
  BY DEF Nothing, ReadsLastWritten

LEMMA NothingSentPrimed == sent' = Nothing => ReadsLastWritten'
  BY DEF Nothing, ReadsLastWritten

LEMMA NoTransferTyped == NoTransfer \in Transfers /\ NoTransfer.op = "none"
  BY DEF NoTransfer, Transfers

LEMMA QuietStep ==
    ASSUME DiskInv, Quiet
    PROVE  DiskInv'
<1>1. DiskTyped'
  BY NoTransferTyped DEF DiskInv, DiskTyped, Quiet
<1>2. CacheFits'
  BY DEF DiskInv, CacheFits, Quiet
<1>3. TransferFits'
  BY NoTransferTyped DEF DiskInv, DiskTyped, Transfers, TransferFits, Quiet, Idle
<1>4. Seen(content, cache, written)'
  BY DEF DiskInv, Seen, View, Quiet
<1>5. Reported'
  BY NoTransferTyped DEF DiskInv, Reported, Quiet, Idle
<1>6. ReadsLastWritten'
  BY NothingSentPrimed DEF Quiet
<1> QED
  BY <1>1, <1>2, <1>3, <1>4, <1>5, <1>6 DEF DiskInv

\* The medium leaves the drive.
Leaving ==
    /\ Idle /\ UNCHANGED <<size, blocks, next, step, transfer, told, written>>
    /\ sent' = Nothing
    /\ content' = Flushed /\ cache' = NoCache
    /\ unit' \in Units /\ ~unit'.ready
    /\ told \/ unit'.changed \/ (~unit'.attached /\ ~unit'.removed)

LEMMA LeavingStep ==
    ASSUME DiskAssumption, DiskInv, Leaving
    PROVE  DiskInv'
<1>1. /\ content' \in [Media -> Cells]
      /\ \A m \in Media : content'[m] = View(content, cache, m)
  BY FlushedView DEF DiskInv, Leaving
<1>2. /\ cache' \in Caches /\ cache'.kind = "none" /\ Fits(content', cache', blocks')
      /\ Shows(content', cache')
  BY NoCacheShows DEF Leaving, DiskAssumption
<1>3. DiskTyped'
  BY <1>1, <1>2 DEF DiskInv, DiskTyped, Leaving
<1>4. CacheFits'
  BY <1>2 DEF CacheFits, Leaving
<1>5. TransferFits'
  BY DEF TransferFits, Leaving, Idle
<1>6. Seen(content, cache, written)'
  BY <1>1, <1>2 DEF DiskInv, Seen, Shows, Leaving
<1>7. Reported'
  BY DEF Reported, Leaving, Idle
<1>8. ReadsLastWritten'
  BY NothingSentPrimed DEF Leaving
<1> QED
  BY <1>3, <1>4, <1>5, <1>6, <1>7, <1>8 DEF DiskInv

LEMMA EjectMediumStep ==
    ASSUME DiskAssumption, DiskInv, Idle, EjectMedium
    PROVE  DiskInv'
<1>1. unit \in Units /\ unit.ready
  BY DEF DiskInv, DiskTyped, EjectMedium
<1>2. unit' \in Units /\ ~unit'.ready /\ unit'.changed = unit.changed /\ unit.attached
  BY <1>1 DEF EjectMedium, Released, Units, DiskInv, CacheFits
<1>3. Leaving
  BY <1>2 DEF Leaving, EjectMedium, Saved, SameHistory, SameTransfer, DiskInv, Reported
<1> QED
  BY <1>3, LeavingStep

LEMMA DetachStep ==
    ASSUME DiskAssumption, DiskInv, Detach
    PROVE  DiskInv'
<1>1. unit \in Units
  BY DEF DiskInv, DiskTyped
<1>2. unit' \in Units /\ ~unit'.ready /\ ~unit'.attached /\ ~unit'.removed
  <2>1. Released \in Units /\ ~Released.ready
    BY <1>1 DEF Released, Units
  <2> QED
    BY <2>1 DEF Detach, Units
<1>3. Leaving
  BY <1>2 DEF Leaving, Detach, Saved, SameHistory, SameTransfer
<1> QED
  BY <1>3, LeavingStep

LEMMA OpenedUnitTyped ==
    ASSUME NEW m \in Media, NEW p \in BOOLEAN
    PROVE  LET u == OpenedUnit(kind, m, p)
           IN  u \in Units /\ u.attached /\ u.name = m /\ ~u.removed /\ u.last = NoMedium
  BY DEF OpenedUnit, Units, Protection, MediumSpecific

\* The blocks of a new medium are within its file.
LEMMA BlocksWithin ==
    ASSUME NEW l \in Nat, NEW s \in Nat \ {0}
    PROVE  l \div s \in Nat /\ (l \div s) * s <= l
  OBVIOUS

LEMMA InsertStep ==
    ASSUME DiskAssumption, DiskInv, NEW m \in Media, NEW s \in Sizes, NEW p \in BOOLEAN, Insert(m, s, p)
    PROVE  DiskInv'
<1> DEFINE l == Len(content[m])
           o == OpenedUnit(kind, m, p)
<1>1. /\ content \in [Media -> Cells] /\ unit \in Units /\ s \in Nat \ {0} /\ s \in Nat
      /\ cache.kind = "none" /\ NoMedium \notin Media
  BY DEF DiskInv, DiskTyped, DiskAssumption, CacheFits, Insert
<1>2. l \in Nat
  BY <1>1, LenProperties DEF Cells
<1>3. blocks' = l \div s /\ size' = s /\ content' = content /\ written' = written
      /\ mode' = CachingMode(mode, s) /\ cache' = NewCache(mode', s, m)
  BY DEF Insert
<1>4. blocks' \in Nat /\ blocks' * s <= l
  BY <1>1, <1>2, <1>3, BlocksWithin
<1>5. /\ cache' \in Caches /\ Fits(content, cache', blocks')
      /\ cache'.kind = IF mode' = "PISCSI" THEN "PISCSI" ELSE "LINUX"
      /\ Shows(content, cache')
  <2>1. mode' = "PISCSI" => blocks' * s <= Len(content[m])
    BY <1>4
  <2> QED
    <3>1. cache' \in Caches /\ cache'.kind = IF mode' = "PISCSI" THEN "PISCSI" ELSE "LINUX"
      BY <1>1, <1>3, NewCacheTyped
    <3>2. Fits(content, cache', blocks')
      BY <1>1, <1>3, <2>1, NewCacheFits
    <3>3. Shows(content, cache')
      BY <1>1, <1>3, NewCacheShows
    <3> QED
      BY <3>1, <3>2, <3>3
<1>6. o \in Units /\ o.attached /\ o.name = m /\ ~o.removed
  BY OpenedUnitTyped
<1>7. unit' = [o EXCEPT !.last = unit.last, !.reset = unit.reset, !.changed = TRUE,
                        !.reserved = unit.reserved \cup {m}]
  BY DEF Insert
<1> HIDE DEF o
<1>8. unit' \in Units /\ unit'.changed /\ unit'.attached /\ unit'.name = m /\ ~unit'.removed
  <2>1. /\ unit.last \in Media \cup {NoMedium} /\ unit.reset \in BOOLEAN
        /\ unit.reserved \cup {m} \in SUBSET (Media \cup {NoMedium})
    BY <1>1 DEF Units
  <2> QED
    BY <1>6, <1>7, <2>1 DEF Units
<1>9. DiskTyped'
  BY <1>1, <1>3, <1>4, <1>5, <1>8 DEF DiskInv, DiskTyped, Insert, SameTransfer
<1>10. CacheFits'
  BY <1>1, <1>3, <1>5, <1>8 DEF CacheFits
<1>11. Idle /\ transfer' = transfer
  BY DEF Insert, SameTransfer
<1>12. TransferFits'
  BY <1>11 DEF TransferFits, Idle
<1>13. Seen(content, cache, written)'
  BY <1>1, <1>3, <1>5 DEF DiskInv, Seen, Shows, View
<1>14. Reported'
  BY <1>8, <1>11 DEF Reported, Idle
<1>15. ReadsLastWritten'
  BY NothingSentPrimed DEF Insert, SameTransfer
<1> QED
  BY <1>9, <1>10, <1>12, <1>13, <1>14, <1>15 DEF DiskInv

LEMMA FlushCacheStep ==
    ASSUME DiskAssumption, DiskInv, FlushCache
    PROVE  DiskInv'
<1>1. /\ content' \in [Media -> Cells]
      /\ \A m \in Media : content'[m] = View(content, cache, m)
  BY FlushedView DEF DiskInv, FlushCache
<1>2. /\ cache' \in Caches /\ cache'.kind = cache.kind /\ Fits(content', cache', blocks)
      /\ Shows(content', cache')
  BY EmptiedShows DEF DiskInv, FlushCache
<1>3. DiskTyped'
  BY <1>1, <1>2 DEF DiskInv, DiskTyped, FlushCache, SameUnit, SameHistory, SameTransfer
<1>4. CacheFits'
  BY <1>2 DEF DiskInv, CacheFits, FlushCache, SameUnit
<1>5. TransferFits'
  BY <1>2 DEF TransferFits, Idle, FlushCache, Accepted, SameTransfer
<1>6. Seen(content, cache, written)'
  BY <1>1, <1>2 DEF DiskInv, Seen, Shows, FlushCache, SameHistory
<1>7. Reported'
  BY DEF DiskInv, Reported, FlushCache, SameUnit, SameHistory, SameTransfer, Idle
<1>8. ReadsLastWritten'
  BY NothingSentPrimed DEF FlushCache, SameTransfer
<1> QED
  BY <1>3, <1>4, <1>5, <1>6, <1>7, <1>8 DEF DiskInv

\* A chunk that is sent is a part of what has been written to the file of the cache.
LEMMA ChunkRead ==
    ASSUME DiskAssumption, DiskInv, cache.kind # "none", NEW start \in Nat, NEW n \in Nat,
           ~CacheReadFails(start, n)
    PROVE  LET from == start * cache.size
               cells == CacheRead(start, n)
           IN  cells = SubSeq(written[cache.file], from + 1, from + Len(cells))
<1> DEFINE w == written[cache.file]
           from == start * cache.size
           l == n * cache.size
           cells == CacheRead(start, n)
<1>1. /\ cache \in Caches /\ content \in [Media -> Cells] /\ written \in [Media -> Cells]
      /\ cache.size \in Nat
  BY DEF DiskInv, DiskTyped, Caches
<1>2. cache.file \in Media
  BY <1>1 DEF DiskInv, CacheFits, Fits, Caches
<1>3. Image(cache.file) = w
  BY <1>2 DEF DiskInv, Seen, View, Image
<1>4. from \in Nat /\ l \in Nat /\ (start + n) * cache.size = from + l
  BY <1>1, Products
<1>5. w \in Cells /\ Len(w) \in Nat /\ \A i \in 1 .. Len(w) : w[i] \in Int
  BY <1>1, <1>2, LenProperties, ElementOfSeq DEF Cells
<1>6. cells = SubSeq(w, from + 1, from + l)
  BY <1>3, <1>4 DEF CacheRead
<1>7. from + l <= Len(w)
  BY <1>3, <1>4, <1>5 DEF CacheReadFails
<1> HIDE DEF w, from, l
<1>8. from + 1 \in Int /\ from + l \in Int /\ \A i \in from + 1 .. from + l : w[i] \in Int
  BY <1>4, <1>5, <1>7
<1>9. Len(SubSeq(w, from + 1, from + l)) = l
  <2>1. Len(SubSeq(w, from + 1, from + l)) = IF from + 1 <= from + l THEN (from + l) - (from + 1) + 1 ELSE 0
    BY <1>8, SubSeqProperties
  <2> QED
    BY <1>4, <2>1
<1> QED
  BY <1>6, <1>9 DEF w, from

\* A chunk is read for a transfer, or the transfer ends.
LEMMA ReadDataStep ==
    ASSUME DiskAssumption, DiskInv, cache.kind # "none", told,
           NEW start \in Nat, NEW n \in Nat, NEW t \in Transfers, t.op = "read", step' \in Nat,
           ReadData(t, start, n), UNCHANGED driveVars, SameHistory
    PROVE  DiskInv'
<1>1. next' \in Nat /\ transfer' \in Transfers /\ transfer'.op \in {"none", "read"}
  BY NoTransferTyped DEF ReadData
<1>2. DiskTyped'
  BY <1>1 DEF DiskInv, DiskTyped, driveVars, SameHistory
<1>3. CacheFits'
  BY DEF DiskInv, CacheFits, driveVars
<1>4. TransferFits'
  BY <1>1 DEF TransferFits, driveVars
<1>5. Seen(content, cache, written)'
  BY DEF DiskInv, Seen, View, driveVars, SameHistory
<1>6. Reported'
  BY DEF DiskInv, Reported, driveVars, SameHistory
<1>7. ReadsLastWritten'
  <2>1. CASE CacheReadFails(start, n)
    BY <2>1, NothingSentPrimed DEF ReadData
  <2>2. CASE ~CacheReadFails(start, n)
    <3>1. sent' = [from |-> start * cache.size, cells |-> CacheRead(start, n)]
      BY <2>2 DEF ReadData
    <3>2. cache' = cache /\ written' = written
      BY DEF driveVars, SameHistory
    <3>3. CacheRead(start, n) =
            SubSeq(written[cache.file], start * cache.size + 1, start * cache.size + Len(CacheRead(start, n)))
      BY <2>2, ChunkRead
    <3> QED
      BY <3>1, <3>2, <3>3 DEF ReadsLastWritten
  <2> QED
    BY <2>1, <2>2
<1> QED
  BY <1>2, <1>3, <1>4, <1>5, <1>6, <1>7 DEF DiskInv

\* A drive that is ready has a cache, and has reported a change of the medium.
LEMMA ReadyToTransfer ==
    ASSUME DiskInv, CheckReady
    PROVE  Idle /\ unit.ready /\ cache.kind # "none" /\ told /\ unit.name \in Media
  BY DEF DiskInv, DiskTyped, CacheFits, Reported, CheckReady, Accepted, Units

LEMMA BlocksPerChunkTyped ==
    ASSUME NEW count \in Nat
    PROVE  BlocksPerChunk(count) \in Nat
  BY DEF BlocksPerChunk

LEMMA ReadStep ==
    ASSUME DiskAssumption, DiskInv, NEW start \in Nat, NEW count \in Nat, Read(start, count)
    PROVE  DiskInv'
<1>1. cache.kind # "none" /\ told
  BY ReadyToTransfer DEF Read
<1>2. step' \in Nat
  BY BlocksPerChunkTyped DEF Read
<1> DEFINE t == [op |-> "read", rest |-> count]
<1>3. t \in Transfers /\ t.op = "read"
  BY DEF Transfers
<1>4. ReadData(t, start, step') /\ UNCHANGED driveVars /\ SameHistory
  BY DEF Read
<1> HIDE DEF t
<1> QED
  BY <1>1, <1>2, <1>3, <1>4, ReadDataStep

\* The rest of a transfer
LEMMA RestTyped ==
    ASSUME DiskTyped, NEW n \in Nat, ~(transfer.rest <= n)
    PROVE  LET t == [transfer EXCEPT !.rest = @ - n]
           IN  t \in Transfers /\ t.op = transfer.op /\ t.rest = transfer.rest - n
<1>1. transfer \in Transfers /\ transfer.rest \in Nat
  BY DEF DiskTyped, Transfers
<1>2. transfer.rest - n \in Nat
  BY <1>1
<1> QED
  BY <1>1, <1>2 DEF Transfers

LEMMA ReadNextStep ==
    ASSUME DiskAssumption, DiskInv, ReadNext
    PROVE  DiskInv'
<1>1. DiskTyped /\ step \in Nat /\ next \in Nat /\ transfer.op = "read"
  BY DEF DiskInv, DiskTyped, ReadNext
<1>2. cache.kind # "none" /\ told
  BY <1>1 DEF DiskInv, TransferFits, Reported, Idle
<1>3. CASE transfer.rest <= step
  <2>1. Quiet
    BY <1>1, <1>2, <1>3
       DEF Quiet, ReadNext, driveVars, SameHistory, DiskInv, DiskTyped, CacheFits
  <2> QED
    BY <2>1, QuietStep
<1>4. CASE ~(transfer.rest <= step)
  <2> DEFINE t == [transfer EXCEPT !.rest = @ - step]
  <2>1. t \in Transfers /\ t.op = "read"
    BY <1>1, <1>4, RestTyped
  <2>2. ReadData(t, next, step) /\ UNCHANGED driveVars /\ SameHistory /\ step' = step
    BY <1>4 DEF ReadNext
  <2> HIDE DEF t
  <2>3. step' \in Nat
    BY <1>1, <2>2
  <2> QED
    BY <1>1, <1>2, <2>1, <2>2, <2>3, ReadDataStep
<1> QED
  BY <1>3, <1>4

LEMMA WriteStep ==
    ASSUME DiskAssumption, DiskInv, NEW start \in Nat, NEW count \in Nat \ {0}, Write(start, count)
    PROVE  DiskInv'
<1>1. Idle /\ cache.kind # "none" /\ told /\ ~unit.protected
  BY ReadyToTransfer DEF Write, CheckWritePreconditions
<1>2. transfer' = [op |-> "write", rest |-> count] /\ next' = start /\ step' = BlocksPerChunk(count)
  BY DEF Write
<1>3. transfer' \in Transfers /\ transfer'.op = "write" /\ transfer'.rest = count
  BY <1>2 DEF Transfers
<1>4. step' \in Nat /\ (cache.kind = "PISCSI" => step' = 1)
  BY <1>2, BlocksPerChunkTyped DEF DiskInv, CacheFits, BlocksPerChunk
<1>5. start + count <= blocks
  BY DEF Write, InRange
<1>6. DiskTyped'
  BY <1>2, <1>3, <1>4 DEF DiskInv, DiskTyped, Write, driveVars, SameHistory
<1>7. CacheFits'
  BY DEF DiskInv, CacheFits, Write, driveVars
<1>8. TransferFits'
  BY <1>1, <1>2, <1>3, <1>4, <1>5 DEF TransferFits, Write, driveVars
<1>9. Seen(content, cache, written)'
  BY DEF DiskInv, Seen, View, Write, driveVars, SameHistory
<1>10. Reported'
  BY <1>1 DEF Reported, Write, SameHistory
<1>11. ReadsLastWritten'
  BY NothingSentPrimed DEF Write
<1> QED
  BY <1>6, <1>7, <1>8, <1>9, <1>10, <1>11 DEF DiskInv

\* A chunk of the PiSCSI cache is within its file: it has a single block, which exists.
LEMMA WriteNextStep ==
    ASSUME DiskAssumption, DiskInv, NEW v \in Values, WriteNext(v)
    PROVE  DiskInv'
<1> DEFINE n == IF transfer.op = "write long" THEN 1 ELSE step
<1>1. /\ DiskTyped /\ CacheFits /\ Seen(content, cache, written) /\ transfer \in Transfers
      /\ next \in Nat /\ step \in Nat /\ blocks \in Nat /\ cache \in Caches /\ cache.size \in Nat
      /\ transfer.rest \in Nat
  BY DEF DiskInv, DiskTyped, Transfers, Caches
<1>2. transfer.op \in {"write", "write long"} /\ ~Idle
  BY DEF WriteNext, Idle
<1>3. n \in Nat
  BY <1>1
<1>4. cache.kind # "none" /\ told /\ ~unit.protected
  BY <1>2 DEF DiskInv, TransferFits, Reported
<1>5. ASSUME cache.kind = "PISCSI"
      PROVE  /\ transfer.op = "write" /\ n = 1 /\ step = 1 /\ transfer.rest >= 1
             /\ next + transfer.rest <= blocks
             /\ (next + n) * cache.size <= Len(content[cache.file])
  <2>1. transfer.op = "write"
    BY <1>2, <1>5 DEF DiskInv, TransferFits
  <2>2. step = 1 /\ transfer.rest >= 1 /\ next + transfer.rest <= blocks
    BY <1>5, <2>1 DEF DiskInv, TransferFits
  <2>3. n = 1 /\ next + n <= blocks /\ next + n \in Nat
    BY <1>1, <2>1, <2>2
  <2>4. (next + n) * cache.size <= blocks * cache.size /\ (next + n) * cache.size \in Nat
        /\ blocks * cache.size \in Nat
    BY <1>1, <2>3, Products
  <2>5. blocks * cache.size <= Len(content[cache.file])
    BY <1>5 DEF DiskInv, CacheFits, Fits
  <2>6. cache.file \in Media /\ content[cache.file] \in Cells
    BY <1>1, <1>5 DEF DiskTyped, CacheFits, Fits, Caches
  <2>7. Len(content[cache.file]) \in Nat
    BY <2>6, LenProperties DEF Cells
  <2> QED
    BY <2>1, <2>2, <2>3, <2>4, <2>5, <2>7
<1>6. /\ CacheWrite(next, n, v)
      /\ written' = [written EXCEPT ![cache.file] = Overwrite(@, next * cache.size, Repeat(v, n * cache.size))]
      /\ transfer' = IF transfer.rest <= n THEN NoTransfer ELSE [transfer EXCEPT !.rest = @ - n]
      /\ next' = IF transfer.op = "write" THEN next + n ELSE next
      /\ sent' = Nothing
      /\ UNCHANGED <<mode, unit, size, blocks, step, told>>
  BY DEF WriteNext
<1> HIDE DEF n
<1>7. /\ content' \in [Media -> Cells] /\ written' \in [Media -> Cells] /\ cache' \in Caches
      /\ cache'.kind = cache.kind
      /\ Fits(content', cache', blocks)
      /\ Seen(content', cache', written')
  BY <1>1, <1>3, <1>4, <1>5, <1>6, WriteShows
<1>8. /\ transfer' \in Transfers /\ transfer'.op \in {"none", transfer.op}
      /\ transfer'.op # "none" => transfer'.rest = transfer.rest - n /\ ~(transfer.rest <= n)
  BY <1>1, <1>3, <1>6, RestTyped, NoTransferTyped
<1>9. next' \in Nat
  BY <1>1, <1>3, <1>6
<1>10. DiskTyped'
  BY <1>1, <1>6, <1>7, <1>8, <1>9 DEF DiskTyped
<1>11. CacheFits'
  BY <1>1, <1>4, <1>6, <1>7 DEF CacheFits
<1>12. TransferFits'
  <2>1. ~Idle' => cache'.kind # "none"
    BY <1>4, <1>7
  <2>2. ASSUME transfer'.op = "write", cache'.kind = "PISCSI"
        PROVE  step' = 1 /\ transfer'.rest >= 1 /\ next' + transfer'.rest <= blocks'
    BY <1>1, <1>5, <1>6, <1>7, <1>8, <2>2
  <2>3. transfer'.op = "write long" => cache'.kind = "LINUX"
    BY <1>7, <1>8 DEF DiskInv, TransferFits
  <2> QED
    BY <1>4, <1>6, <2>1, <2>2, <2>3 DEF TransferFits
<1>13. Reported'
  BY <1>4, <1>6 DEF Reported
<1>14. ReadsLastWritten'
  BY <1>6, NothingSentPrimed
<1> QED
  BY <1>7, <1>10, <1>11, <1>12, <1>13, <1>14 DEF DiskInv

LEMMA SwitchShows ==
    ASSUME DiskAssumption, DiskInv, CheckReady, SwitchToLinuxCache
    PROVE  /\ content' \in [Media -> Cells] /\ cache' \in Caches
           /\ cache'.kind = "LINUX" /\ cache'.file \in Media /\ cache'.size \in Nat
           /\ Fits(content', cache', blocks) /\ Shows(content', cache')
           /\ \A m \in Media : content'[m] = written[m]
<1>1. /\ DiskTyped /\ CacheFits /\ content \in [Media -> Cells] /\ cache \in Caches /\ size \in Nat
      /\ cache.kind \in {"PISCSI", "LINUX"} /\ unit.name \in Media /\ NoMedium \notin Media
  BY ReadyToTransfer DEF DiskInv, DiskTyped, Caches, DiskAssumption
<1>2. \A m \in Media : View(content, cache, m) = written[m]
  BY DEF DiskInv, Seen
<1>3. CASE cache.kind = "PISCSI"
  <2>1. content' = Flushed /\ cache' = NewCache("LINUX", size, unit.name)
    BY <1>3 DEF SwitchToLinuxCache, FlushedForLong
  <2>2. /\ content' \in [Media -> Cells]
        /\ \A m \in Media : content'[m] = View(content, cache, m) /\ Len(content'[m]) = Len(content[m])
    BY <1>1, <2>1, FlushedView
  <2>3. cache' \in Caches /\ cache'.kind = "LINUX" /\ cache'.file = unit.name /\ cache'.size = size
    BY <1>1, <2>1, NewCacheTyped
  <2>4. Shows(content', cache')
    BY <1>1, <2>1, <2>2, NewCacheShows
  <2>5. Fits(content', cache', blocks)
    BY <1>1, <2>3 DEF Fits
  <2> QED
    BY <1>1, <1>2, <2>2, <2>3, <2>4, <2>5
<1>4. CASE cache.kind = "LINUX"
  <2>1. content' = content /\ cache' = cache
    BY <1>4 DEF SwitchToLinuxCache, FlushedForLong
  <2>2. Shows(content', cache') /\ Fits(content', cache', blocks)
    BY <1>1, <1>4, <2>1 DEF Shows, View, Fits, CacheFits
  <2>3. cache.file \in Media /\ cache.size \in Nat
    BY <1>1, <1>4 DEF CacheFits, Fits, Caches
  <2> QED
    BY <1>1, <1>2, <1>4, <2>1, <2>2, <2>3 DEF View
<1> QED
  BY <1>1, <1>3, <1>4

\* READ LONG and WRITE LONG
LEMMA LongStep ==
    ASSUME DiskAssumption, DiskInv, CheckReady, SwitchToLinuxCache, SameUnit, SameHistory,
           next' \in Nat, step' \in Nat, transfer' \in Transfers, transfer'.op # "write",
           transfer'.op = "write long" => ~unit.protected, ReadsLastWritten'
    PROVE  DiskInv'
<1>1. /\ content' \in [Media -> Cells] /\ cache' \in Caches /\ cache'.kind = "LINUX"
      /\ Fits(content', cache', blocks) /\ Shows(content', cache')
      /\ \A m \in Media : content'[m] = written[m]
  BY SwitchShows
<1>2. DiskTyped'
  BY <1>1 DEF DiskInv, DiskTyped, SameUnit, SameHistory
<1>3. CacheFits'
  BY <1>1, ReadyToTransfer DEF DiskInv, CacheFits, SameUnit
<1>4. TransferFits'
  BY <1>1 DEF TransferFits, SameUnit
<1>5. Seen(content, cache, written)'
  BY <1>1 DEF Seen, Shows, SameHistory
<1>6. Reported'
  BY ReadyToTransfer DEF Reported, SameHistory
<1> QED
  BY <1>2, <1>3, <1>4, <1>5, <1>6 DEF DiskInv

LEMMA ReadLongStep ==
    ASSUME DiskAssumption, DiskInv, NEW start \in Nat, ReadLong(start)
    PROVE  DiskInv'
<1> DEFINE from == start * cache'.size
           w == written[cache'.file]
<1>1. CheckReady /\ SwitchToLinuxCache /\ SameUnit /\ SameHistory /\ next' = next /\ step' = step
  BY DEF ReadLong
<1>2. transfer' \in Transfers /\ transfer'.op \in {"none", "read"}
  <2>1. transfer' = NoTransfer \/ transfer' = [op |-> "read", rest |-> 0]
    BY DEF ReadLong
  <2>2. CASE transfer' = NoTransfer
    BY <2>2, NoTransferTyped
  <2>3. CASE transfer' = [op |-> "read", rest |-> 0]
    BY <2>3 DEF Transfers
  <2> QED
    BY <2>1, <2>2, <2>3
<1>3. /\ cache'.file \in Media /\ cache'.size \in Nat
      /\ \A m \in Media : content'[m] = written[m]
  BY <1>1, SwitchShows
<1>4. size \in Nat /\ w \in Cells
  BY <1>3 DEF DiskInv, DiskTyped
<1>5. from \in Nat
  BY <1>3, Products
<1>6. content'[cache'.file] = w /\ written' = written
  BY <1>1, <1>3 DEF SameHistory
<1>7. IF from + size > Len(content'[cache'.file]) THEN sent' = Nothing
      ELSE sent' = [from |-> from, cells |-> SubSeq(content'[cache'.file], from + 1, from + size)]
  BY DEF ReadLong
<1> HIDE DEF from
<1>8. ReadsLastWritten'
  <2>1. CASE from + size > Len(w)
    BY <1>6, <1>7, <2>1, NothingSentPrimed
  <2>2. CASE ~(from + size > Len(w))
    <3>1. sent' = [from |-> from, cells |-> SubSeq(w, from + 1, from + size)]
      BY <1>6, <1>7, <2>2
    <3>2. from + 1 \in Int /\ from + size \in Int /\ \A i \in from + 1 .. from + size : w[i] \in Int
      <4>1. w \in Seq(Int) /\ Len(w) \in Nat /\ from + size <= Len(w)
        BY <1>4, <1>5, <2>2, LenProperties DEF Cells
      <4>2. \A i \in 1 .. Len(w) : w[i] \in Int
        BY <4>1, ElementOfSeq
      <4> HIDE DEF w
      <4> QED
        BY <1>4, <1>5, <4>1, <4>2
    <3>3. Len(SubSeq(w, from + 1, from + size)) =
            IF from + 1 <= from + size THEN (from + size) - (from + 1) + 1 ELSE 0
      BY <3>2, SubSeqProperties
    <3>4. Len(SubSeq(w, from + 1, from + size)) = size
      BY <1>4, <1>5, <3>3
    <3> QED
      BY <1>6, <3>1, <3>4 DEF ReadsLastWritten
  <2> QED
    BY <2>1, <2>2
<1>9. next' \in Nat /\ step' \in Nat
  BY <1>1 DEF DiskInv, DiskTyped
<1> QED
  BY <1>1, <1>2, <1>8, <1>9, LongStep

LEMMA WriteLongStep ==
    ASSUME DiskAssumption, DiskInv, NEW start \in Nat, WriteLong(start)
    PROVE  DiskInv'
<1>1. CheckReady /\ SwitchToLinuxCache /\ SameUnit /\ SameHistory /\ ~unit.protected
  BY DEF WriteLong, CheckWritePreconditions
<1>2. transfer' \in Transfers /\ transfer'.op = "write long"
  BY DEF WriteLong, Transfers
<1>3. next' \in Nat /\ step' \in Nat
  BY DEF WriteLong, DiskInv, DiskTyped
<1>4. ReadsLastWritten'
  BY NothingSentPrimed DEF WriteLong
<1> QED
  BY <1>1, <1>2, <1>3, <1>4, LongStep

\* Commands and operations that change nothing but the state of the unit and the block size
LEMMA QuietSteps ==
    ASSUME DiskAssumption, DiskInv
    PROVE  /\ ReportChange \/ ReportAttention => DiskInv'
           /\ \A s \in Requested : ModeSelect(s) => DiskInv'
           /\ \A b \in BOOLEAN : PreventAllowMediumRemoval(b) \/ RemoteProtect(b) \/ Reset(b) => DiskInv'
           /\ Load \/ RemoteStop => DiskInv'
<1>1. /\ unit \in Units /\ size \in Nat \ {0} /\ told \in BOOLEAN
      /\ unit.ready => unit.name # NoMedium /\ unit.attached
      /\ told \/ unit.changed \/ (~unit.attached /\ ~unit.removed)
  BY DEF DiskInv, DiskTyped, CacheFits, Reported
<1>2. ASSUME ReportChange
      PROVE  Quiet
  BY <1>1, <1>2 DEF Quiet, ReportChange, SameTransfer, Units
<1>3. ASSUME ReportAttention
      PROVE  Quiet
  <2>1. unit' \in Units /\ unit'.ready = unit.ready /\ unit'.name = unit.name /\ unit'.attached = unit.attached
        /\ unit'.removed = unit.removed /\ unit'.changed = unit.changed
    BY <1>1, <1>3 DEF ReportAttention, Units
  <2> QED
    BY <1>1, <1>3, <2>1 DEF Quiet, ReportAttention, Accepted, SameTransfer, SameHistory
<1>4. ASSUME NEW s \in Requested, ModeSelect(s)
      PROVE  Quiet
  BY <1>1, <1>4 DEF Quiet, ModeSelect, Accepted, SameTransfer, SameHistory, DiskAssumption
<1>5. ASSUME NEW b \in BOOLEAN, PreventAllowMediumRemoval(b)
      PROVE  Quiet
  BY <1>1, <1>5
     DEF Quiet, PreventAllowMediumRemoval, CheckReady, Accepted, SameTransfer, SameHistory, Units
<1>6. ASSUME NEW b \in BOOLEAN, RemoteProtect(b)
      PROVE  Quiet
  BY <1>1, <1>6 DEF Quiet, RemoteProtect, SameTransfer, SameHistory, Units
<1>7. ASSUME NEW b \in BOOLEAN, Reset(b)
      PROVE  Quiet
  <2>1. unit' \in Units /\ unit'.ready = unit.ready /\ unit'.name = unit.name /\ unit'.attached = unit.attached
        /\ unit'.removed = unit.removed /\ unit'.changed = unit.changed
    BY <1>1, <1>7 DEF Reset, Units
  <2> QED
    BY <1>1, <1>7, <2>1 DEF Quiet, Reset, SameHistory
<1>8. ASSUME Load
      PROVE  Quiet
  <2>1. unit.last \in Media /\ unit.last # NoMedium
    BY <1>1, <1>8 DEF Load, Units
  <2>2. unit' \in Units /\ unit'.ready = unit.ready /\ unit'.name = unit.last /\ unit'.attached = unit.attached
        /\ unit'.removed = unit.removed /\ unit'.changed
    <3>1. unit.reserved \cup {unit.last} \in SUBSET (Media \cup {NoMedium})
      BY <1>1, <2>1 DEF Units
    <3> QED
      BY <1>1, <1>8, <2>1, <3>1 DEF Load, Units
  <2> QED
    BY <1>1, <1>8, <2>1, <2>2 DEF Quiet, Load, Accepted, SameTransfer, SameHistory
<1>9. ASSUME RemoteStop
      PROVE  Quiet
  BY <1>1, <1>9 DEF Quiet, RemoteStop, SameTransfer, SameHistory, Units
<1> QED
  BY <1>2, <1>3, <1>4, <1>5, <1>6, <1>7, <1>8, <1>9, QuietStep

LEMMA InitGood ==
    ASSUME DiskAssumption, DiskInit
    PROVE  DiskInv
<1>1. PICK m \in Media, caching \in Modes, s \in Sizes, p \in BOOLEAN :
        /\ Length[m] >= s /\ mode = CachingMode(caching, s)
        /\ unit = OpenedUnit(kind, m, p) /\ size = s /\ blocks = Length[m] \div s
        /\ cache = NewCache(mode, s, m)
  BY DEF DiskInit
<1>2. /\ next = 0 /\ step = 0 /\ transfer = NoTransfer /\ told = TRUE /\ sent = Nothing
      /\ content = [x \in Media |-> Repeat(0, Length[x])] /\ written = content
  BY DEF DiskInit
<1>3. s \in Nat \ {0} /\ s \in Nat /\ NoMedium \notin Media /\ \A x \in Media : Length[x] \in Nat
  BY DEF DiskAssumption
<1>4. /\ content \in [Media -> Cells]
      /\ \A x \in Media : Len(content[x]) = Length[x]
  <2>1. \A x \in Media : Repeat(0, Length[x]) \in Cells /\ Len(Repeat(0, Length[x])) = Length[x]
    BY <1>3, RepeatCells
  <2> QED
    BY <1>2, <2>1
<1>5. blocks \in Nat /\ blocks * s <= Len(content[m])
  BY <1>1, <1>3, <1>4, BlocksWithin
<1>6. cache \in Caches /\ cache.kind = IF mode = "PISCSI" THEN "PISCSI" ELSE "LINUX"
  BY <1>1, <1>3, <1>4, NewCacheTyped
<1>7. Fits(content, cache, blocks)
  BY <1>1, <1>3, <1>4, <1>5, NewCacheFits
<1>8. Shows(content, cache)
  BY <1>1, <1>3, <1>4, NewCacheShows
<1>9. unit \in Units /\ unit.attached /\ unit.name = m /\ ~unit.removed
  BY <1>1, OpenedUnitTyped
<1>10. DiskTyped
  BY <1>1, <1>2, <1>3, <1>4, <1>5, <1>6, <1>9, NoTransferTyped DEF DiskTyped
<1>11. CacheFits
  BY <1>3, <1>6, <1>7, <1>9 DEF CacheFits
<1>12. TransferFits /\ Reported
  BY <1>2, NoTransferTyped DEF TransferFits, Reported, Idle
<1>13. Seen(content, cache, written)
  BY <1>2, <1>8 DEF Seen, Shows
<1> QED
  BY <1>2, <1>10, <1>11, <1>12, <1>13, NothingSent DEF DiskInv

LEMMA NextGood ==
    ASSUME DiskAssumption, DiskInv, DiskNext
    PROVE  DiskInv'
<1>1. blocks \in Nat /\ MaxCount \in Nat
  BY DEF DiskInv, DiskTyped, DiskAssumption
<1>2. ASSUME NEW start \in 0 .. blocks, NEW count \in 1 .. MaxCount, Read(start, count) \/ Write(start, count)
      PROVE  DiskInv'
  <2>1. start \in Nat /\ count \in Nat \ {0} /\ count \in Nat
    BY <1>1
  <2> QED
    BY <1>2, <2>1, ReadStep, WriteStep
<1>3. ASSUME NEW start \in 0 .. blocks, ReadLong(start) \/ WriteLong(start)
      PROVE  DiskInv'
  <2>1. start \in Nat
    BY <1>1
  <2> QED
    BY <1>3, <2>1, ReadLongStep, WriteLongStep
<1>4. CASE Transferring
  BY <1>2, <1>3, <1>4, ReadNextStep, WriteNextStep, FlushCacheStep DEF Transferring
<1>5. CASE Controlling
  BY <1>5, QuietSteps, EjectMediumStep, DetachStep, InsertStep
     DEF Controlling, Unload, Accepted, RemoteEject
<1> QED
  BY <1>4, <1>5 DEF DiskNext

LEMMA StutteringGood ==
    ASSUME DiskInv, UNCHANGED vars
    PROVE  DiskInv'
<1>1. UNCHANGED <<kind, mode, unit, size, blocks, cache, content, next, step, transfer, told, written, sent>>
  BY DEF vars, driveVars
<1> QED
  BY <1>1 DEF DiskInv, DiskTyped, CacheFits, TransferFits, Seen, View, Reported, ReadsLastWritten, Idle

\* The inductive invariant: what the drive sees of a file is what has been written to it, and
\* transfers stay within the blocks that its cache was made for (disk.cpp:131, 375, 414).
THEOREM DiskInvariant == DiskSpec => []DiskInv
<1>1. DiskInit => DiskInv
  BY InitGood, DiskAssumption
<1>2. DiskInv /\ [DiskNext]_vars => DiskInv'
  BY NextGood, StutteringGood, DiskAssumption
<1> QED
  BY <1>1, <1>2, PTL DEF DiskSpec

-----------------------------------------------------------------------------
(* Theorems                                                                *)

\* A command sends what has been written last, for any media, block sizes and caching modes,
\* whatever commands, resets and operations of the remote interface there are (disk.cpp:375).
THEOREM LastWrittenIsRead == DiskSpec => []ReadsLastWritten
  BY DiskInvariant, PTL DEF DiskInv

\* Data of a new medium are not accessed before it has been reported (storage_device.cpp:39).
THEOREM ChangeIsReported == DiskSpec => []ChangeReported
<1>1. DiskInv => ChangeReported
  BY DEF DiskInv, Reported, ChangeReported
<1> QED
  BY <1>1, DiskInvariant, PTL

\* A file that the drive has no cache for has all that was written to it (disk.cpp:131).
THEOREM ReleasedIsSaved == DiskSpec => []SavedWhenReleased
<1>1. DiskInv => SavedWhenReleased
  BY DEF DiskInv, Seen, View, SavedWhenReleased
<1> QED
  BY <1>1, DiskInvariant, PTL

\* The data of a write-protected medium are kept (storage_device.cpp:53): what the drive sees
\* of a file is what has been written, and nothing is written.
THEOREM ProtectedIsKept == DiskSpec => ProtectedKept
<1> DEFINE Kept == \A m \in Media : unit.protected /\ m = cache.file => Image(m)' = Image(m)
<1>1. ASSUME DiskInv, DiskInv', DiskNext
      PROVE  Kept
  <2>1. CASE written' = written
    BY <1>1, <2>1 DEF DiskInv, Seen, View, Image
  <2>2. CASE \E v \in Values : WriteNext(v)
    BY <1>1, <2>2 DEF DiskInv, TransferFits, WriteNext
  <2>3. written' = written \/ \E v \in Values : WriteNext(v)
    BY <1>1
       DEF DiskNext, Transferring, Controlling, Read, Write, ReadNext, ReadLong, WriteLong, FlushCache,
           ReportChange, ReportAttention, ModeSelect, PreventAllowMediumRemoval, RemoteProtect, Reset,
           Unload, Load, RemoteEject, EjectMedium, RemoteStop, Detach, Insert, SameHistory
  <2> QED
    BY <2>1, <2>2, <2>3
<1>2. DiskInv /\ DiskInv' /\ [DiskNext]_vars => [Kept]_vars
  BY <1>1
<1> QED
  BY <1>2, DiskInvariant, PTL DEF DiskSpec, ProtectedKept
=============================================================================
