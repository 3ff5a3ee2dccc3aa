-------------------------- MODULE ModePagesProofs --------------------------
(***************************************************************************)
(* The block size after an accepted MODE SELECT, and what becomes of what  *)
(* MODE SENSE has sent when it is given back, for any devices, any mode    *)
(* page properties, any requests and any parameter lists.                  *)
(*                                                                         *)
(* The lengths of pages are added up by recursion. Induction and the       *)
(* existence of recursive functions are proved here for sets: a set that   *)
(* is closed under successors up to c without c had an injection into a    *)
(* smaller part of itself.                                                 *)
(***************************************************************************)
EXTENDS ModePages, TLAPS, FiniteSetTheorems

-----------------------------------------------------------------------------
(* A list that is accepted                                                 *)

\* A format page in a list that is accepted has the block size that the list leaves.
LEMMA AcceptedFormatPage ==
    ASSUME NEW list, ListAccepted(list), NEW k \in FormatPages(list)
    PROVE  list.pages[k].size = DescriptorSize(list)
<1>1. k \in 1 .. Len(list.pages) /\ list.pages[k].code = 3 /\ IsParsed(list, k)
    BY DEF FormatPages
<1>2. PageAccepted(list.pages[k], Rest(list, k), DescriptorSize(list))
    BY <1>1 DEF ListAccepted
<1>3. list.pages[k].code # 0
    BY <1>1
<1>4. VerifyBlockSizeChange(list.pages[k].size, DescriptorSize(list), FALSE)
    BY <1>1, <1>2, <1>3, Zenon DEF PageAccepted
<1>. QED  BY <1>4 DEF VerifyBlockSizeChange

\* Processing a list leaves the block size of each format page that has been accepted.
LEMMA ListProcessed ==
    ASSUME NEW list, NEW pf, ProcessList(list, pf)
    PROVE  FormatPageAgrees'
<1>. SUFFICES ASSUME NEW s \in agreed'
              PROVE  s = size'
    BY DEF FormatPageAgrees
<1>1. DescriptorAccepted(list) /\ ListAccepted(list) /\ s \in {list.pages[k].size : k \in FormatPages(list)}
    BY DEF ProcessList
<1>2. size' = DescriptorSize(list)
    BY <1>1 DEF ProcessList
<1>3. PICK k \in FormatPages(list) : s = list.pages[k].size
    BY <1>1
<1>. QED  BY <1>1, <1>2, <1>3, AcceptedFormatPage

\* No other step accepts a list.
LEMMA Otherwise ==
    ASSUME agreed' = {}
    PROVE  FormatPageAgrees'
BY DEF FormatPageAgrees

\* Whenever a list with a format page has been accepted, the block size is that of the page, also
\* if other initiators have changed the block size since it was read (storage_device.cpp:187).
THEOREM FormatPagesAgree == ModePagesSpec => []FormatPageAgrees
<1>1. ModePagesInit => FormatPageAgrees
    BY DEF ModePagesInit, FormatPageAgrees
<1>2. FormatPageAgrees /\ [ModePagesNext]_vars => FormatPageAgrees'
  <2>. SUFFICES ASSUME FormatPageAgrees, [ModePagesNext]_vars
                PROVE  FormatPageAgrees'
      OBVIOUS
  <2>1. ASSUME NEW r \in Requests, ModeSense6(r) \/ ModeSense10(r) \/ HostServicesModeSense(r)
        PROVE  FormatPageAgrees'
      BY <2>1, Otherwise DEF ModeSense6, ModeSense10, HostServicesModeSense, Sense
  <2>2. ASSUME NEW list, NEW pf \in BOOLEAN, NEW sp \in BOOLEAN, ModeSelect6(list, pf, sp)
        PROVE  FormatPageAgrees'
      BY <2>2, ListProcessed DEF ModeSelect6
  <2>3. ASSUME NEW s \in Sizes, Open(s)
        PROVE  FormatPageAgrees'
      BY <2>3, Otherwise DEF Open
  <2>4. CASE Eject
      BY <2>4, Otherwise DEF Eject
  <2>5. CASE UNCHANGED vars
      BY <2>5 DEF vars, FormatPageAgrees
  <2>. QED  BY <2>1, <2>2, <2>3, <2>4, <2>5 DEF ModePagesNext
<1>. QED  BY <1>1, <1>2, PTL DEF ModePagesSpec

-----------------------------------------------------------------------------
(* Induction, and functions defined by recursion                           *)

\* What holds for 0, and for the next number up to n, holds up to n.
LEMMA Induction ==
    ASSUME NEW n \in Nat, NEW S, 0 \in S, \A m \in 0 .. n - 1 : m \in S => m + 1 \in S
    PROVE  \A m \in 0 .. n : m \in S
<1>. SUFFICES ASSUME NEW c \in 0 .. n, c \notin S
              PROVE  FALSE
    OBVIOUS
<1>. DEFINE T == S \cap (0 .. c)
            next == [m \in T |-> m + 1]
<1>1. ASSUME NEW m \in T
      PROVE  m + 1 \in T \ {0}
  <2>1. m \in 0 .. c /\ m # c /\ m \in S
      OBVIOUS
  <2>2. m \in 0 .. n - 1 /\ m + 1 \in 1 .. c
      BY <2>1
  <2>. QED  BY <2>1, <2>2
<1>2. IsFiniteSet(0 .. c)
    BY FS_Interval
<1>3. IsFiniteSet(T)
    BY <1>2, FS_Subset
<1>4. 0 \in T
    OBVIOUS
<1>5. IsFiniteSet(T \ {0}) /\ Cardinality(T \ {0}) = Cardinality(T) - 1
    BY <1>3, <1>4, FS_RemoveElement
<1>6. next \in Injection(T, T \ {0})
  <2>1. next \in [T -> T \ {0}]
      BY <1>1
  <2>2. \A a, b \in T : a \in Int /\ b \in Int
      OBVIOUS
  <2>3. \A a, b \in T : next[a] = next[b] => a = b
      BY <2>2
  <2>. QED  BY <2>1, <2>3 DEF Injection, IsInjective
<1>7. Cardinality(T) <= Cardinality(T \ {0})
    BY <1>5, <1>6, FS_Injection
<1>8. Cardinality(T) \in Nat
    BY <1>3, FS_CardinalityType
<1>. QED  BY <1>5, <1>7, <1>8

\* A function f on 0 .. n that starts with b and goes on with the functions step[1] .. step[n]
Steps(f, n, b, step) == f = [k \in 0 .. n |-> IF k = 0 THEN b ELSE step[k][f[k - 1]]]

\* There is such a function.
LEMMA Recursion ==
    ASSUME NEW n \in Nat, NEW X, NEW b \in X, NEW step \in [1 .. n -> [X -> X]]
    PROVE  \E f \in [0 .. n -> X] : Steps(f, n, b, step)
<1>. DEFINE S == {m \in 0 .. n : \E f \in [0 .. m -> X] : Steps(f, m, b, step)}
<1>1. 0 \in S
  <2>. DEFINE f == [k \in 0 .. 0 |-> b]
  <2>1. f \in [0 .. 0 -> X]
      OBVIOUS
  <2>2. Steps(f, 0, b, step)
      BY DEF Steps
  <2>. QED  BY <2>1, <2>2
<1>2. ASSUME NEW m \in 0 .. n - 1, m \in S
      PROVE  m + 1 \in S
  <2>1. PICK f \in [0 .. m -> X] : Steps(f, m, b, step)
      BY <1>2
  <2>2. m \in Nat /\ m + 1 \in 1 .. n /\ m + 1 \in 0 .. n
      OBVIOUS
  <2>3. step[m + 1] \in [X -> X]
      BY <2>2
  <2>4. f[m] \in X
      BY <2>2
  <2>. DEFINE g == [k \in 0 .. m + 1 |-> IF k = m + 1 THEN step[m + 1][f[m]] ELSE f[k]]
  <2>5. \A k \in 0 .. m + 1 : k = m + 1 \/ (k \in 0 .. m /\ k # m + 1)
      BY <2>2
  <2>6. g \in [0 .. m + 1 -> X]
      BY <2>3, <2>4, <2>5
  <2>7. ASSUME NEW k \in 0 .. m + 1
        PROVE  g[k] = IF k = 0 THEN b ELSE step[k][g[k - 1]]
    <3>1. CASE k = m + 1
      <4>1. k # 0 /\ k - 1 = m /\ m \in 0 .. m + 1 /\ m # m + 1
          BY <3>1, <2>2
      <4>2. g[m] = f[m]
          BY <4>1
      <4>. QED  BY <4>1, <4>2, <3>1
    <3>2. CASE k # m + 1
      <4>1. k \in 0 .. m
          BY <3>2, <2>5
      <4>2. g[k] = f[k]
          BY <3>2
      <4>3. f[k] = IF k = 0 THEN b ELSE step[k][f[k - 1]]
          BY <2>1, <4>1 DEF Steps
      <4>4. k # 0 => k - 1 \in 0 .. m + 1 /\ k - 1 # m + 1
          BY <4>1, <2>2
      <4>5. k # 0 => g[k - 1] = f[k - 1]
          BY <4>4
      <4>. QED  BY <4>2, <4>3, <4>5
    <3>. QED  BY <3>1, <3>2
  <2>8. Steps(g, m + 1, b, step)
      BY <2>7 DEF Steps
  <2>. QED  BY <2>2, <2>6, <2>8
<1>3. n \in 0 .. n
    OBVIOUS
<1>. HIDE DEF S
<1>4. n \in S
    BY <1>1, <1>2, <1>3, Induction
<1>. USE DEF S
<1>. QED  BY <1>4

\* The lengths of the pages of a list are numbers.
Measured(pages) == Len(pages) \in Nat /\ \A k \in 1 .. Len(pages) : pages[k].length \in Nat

\* Bytes adds up the lengths of the pages.
LEMMA BytesAdded ==
    ASSUME NEW pages, Measured(pages)
    PROVE  /\ \A k \in 0 .. Len(pages) : Bytes(pages, k) \in Nat
           /\ Bytes(pages, 0) = 0
           /\ \A k \in 1 .. Len(pages) : Bytes(pages, k) = Bytes(pages, k - 1) + pages[k].length
<1>. DEFINE n == Len(pages)
            Sum(f) == f = [k \in 0 .. n |-> IF k = 0 THEN 0 ELSE f[k - 1] + pages[k].length]
            sum == CHOOSE f : Sum(f)
            step == [k \in 1 .. n |-> [x \in Nat |-> x + pages[k].length]]
<1>1. n \in Nat /\ \A k \in 1 .. n : pages[k].length \in Nat
    BY DEF Measured
<1>2. step \in [1 .. n -> [Nat -> Nat]]
    BY <1>1
<1>3. \A k, x : k \in 1 .. n /\ x \in Nat => step[k][x] = x + pages[k].length
    OBVIOUS
<1>4. \A k : Bytes(pages, k) = sum[k]
    BY DEF Bytes
<1>. HIDE DEF n, step, sum
<1>5. PICK f \in [0 .. n -> Nat] : Steps(f, n, 0, step)
  <2>1. 0 \in Nat
      OBVIOUS
  <2>. QED  BY <1>1, <1>2, <2>1, Recursion
<1>6. ASSUME NEW k \in 0 .. n
      PROVE  f[k] = IF k = 0 THEN 0 ELSE f[k - 1] + pages[k].length
  <2>1. f[k] = IF k = 0 THEN 0 ELSE step[k][f[k - 1]]
      BY <1>5 DEF Steps
  <2>2. k # 0 => k \in 1 .. n /\ k - 1 \in 0 .. n
      BY <1>1
  <2>3. k # 0 => f[k - 1] \in Nat
      BY <2>2
  <2>. QED  BY <2>1, <2>2, <2>3, <1>3
<1>7. Sum(f)
    BY <1>6
<1>8. Sum(sum)
    BY <1>7 DEF sum
<1>9. sum = [k \in 0 .. n |-> IF k = 0 THEN 0 ELSE sum[k - 1] + pages[k].length]
    BY <1>8
<1>. HIDE DEF Sum
<1>10. sum[0] = 0
    BY <1>1, <1>9
<1>11. \A k \in 1 .. n : sum[k] = sum[k - 1] + pages[k].length
  <2>1. \A k \in 1 .. n : k \in 0 .. n /\ k # 0
      BY <1>1
  <2>. QED  BY <1>9, <2>1
<1>. DEFINE S == {k \in 0 .. n : sum[k] \in Nat}
<1>12. 0 \in S
    BY <1>1, <1>10
<1>13. ASSUME NEW m \in 0 .. n - 1, m \in S
       PROVE  m + 1 \in S
  <2>1. m + 1 \in 1 .. n /\ m + 1 \in 0 .. n /\ (m + 1) - 1 = m
      BY <1>1
  <2>2. sum[m + 1] = sum[m] + pages[m + 1].length
      BY <2>1, <1>11
  <2>3. pages[m + 1].length \in Nat
      BY <2>1, <1>1
  <2>4. sum[m] \in Nat
      BY <1>13
  <2>. QED  BY <2>1, <2>2, <2>3, <2>4
<1>. HIDE DEF S
<1>14. \A k \in 0 .. n : k \in S
    BY <1>1, <1>12, <1>13, Induction
<1>15. \A k \in 0 .. n : sum[k] \in Nat
    BY <1>14 DEF S
<1>. QED  BY <1>4, <1>10, <1>11, <1>15 DEF n

\* They grow with the pages.
LEMMA BytesGrow ==
    ASSUME NEW pages, Measured(pages), NEW j \in 1 .. Len(pages)
    PROVE  Bytes(pages, j - 1) + pages[j].length <= Bytes(pages, Len(pages))
<1>. DEFINE n == Len(pages)
            S == {k \in 0 .. n : k >= j => Bytes(pages, j) <= Bytes(pages, k)}
<1>1. n \in Nat /\ \A k \in 1 .. n : pages[k].length \in Nat
    BY DEF Measured
<1>2. \A k \in 0 .. n : Bytes(pages, k) \in Nat
    BY BytesAdded
<1>3. \A k \in 1 .. n : Bytes(pages, k) = Bytes(pages, k - 1) + pages[k].length
    BY BytesAdded
<1>4. j \in 1 .. n
    OBVIOUS
<1>. HIDE DEF n
<1>5. 0 \in S
    BY <1>1, <1>4
<1>6. ASSUME NEW m \in 0 .. n - 1, m \in S
      PROVE  m + 1 \in S
  <2>1. m + 1 \in 1 .. n /\ m + 1 \in 0 .. n /\ m \in 0 .. n /\ (m + 1) - 1 = m
      BY <1>1
  <2>2. Bytes(pages, m + 1) = Bytes(pages, m) + pages[m + 1].length
      BY <2>1, <1>3
  <2>3. Bytes(pages, m) \in Nat /\ Bytes(pages, j) \in Nat /\ pages[m + 1].length \in Nat
      BY <2>1, <1>1, <1>2, <1>4
  <2>4. m >= j => Bytes(pages, j) <= Bytes(pages, m)
      BY <1>6
  <2>5. m + 1 >= j => m >= j \/ m + 1 = j
      BY <1>4, <2>1
  <2>6. ASSUME m + 1 >= j
        PROVE  Bytes(pages, j) <= Bytes(pages, m + 1)
    <3>1. CASE m >= j
        BY <3>1, <2>2, <2>3, <2>4
    <3>2. CASE m + 1 = j
      <4>1. Bytes(pages, m + 1) = Bytes(pages, j)
          BY <3>2
      <4>. QED  BY <4>1, <2>3
    <3>. QED  BY <3>1, <3>2, <2>5, <2>6
  <2>. QED  BY <2>1, <2>6
<1>7. n \in 0 .. n /\ n >= j
    BY <1>1, <1>4
<1>. HIDE DEF S
<1>8. n \in S
    BY <1>1, <1>5, <1>6, <1>7, Induction
<1>9. Bytes(pages, j) <= Bytes(pages, n)
    BY <1>7, <1>8 DEF S
<1>. QED  BY <1>3, <1>4, <1>9 DEF n

\* The codes in their order are codes.
LEMMA OrderedCodes ==
    ASSUME NEW codes
    PROVE  Ordered(codes) \in Seq(codes)
<1>. DEFINE Up(f) == f = [p \in 0 .. 62 |-> IF p = 0 THEN <<>>
                                            ELSE IF p \in codes THEN Append(f[p - 1], p) ELSE f[p - 1]]
            up == CHOOSE f : Up(f)
            step == [p \in 1 .. 62 |-> [q \in Seq(codes) |-> IF p \in codes THEN Append(q, p) ELSE q]]
<1>1. Ordered(codes) = up[62] \o IF 0 \in codes THEN <<0>> ELSE <<>>
    BY DEF Ordered
<1>2. step \in [1 .. 62 -> [Seq(codes) -> Seq(codes)]]
    OBVIOUS
<1>3. \A p, q : p \in 1 .. 62 /\ q \in Seq(codes) => step[p][q] = IF p \in codes THEN Append(q, p) ELSE q
    OBVIOUS
<1>4. <<>> \in Seq(codes) /\ 62 \in Nat
    OBVIOUS
<1>. HIDE DEF step, up
<1>5. PICK f \in [0 .. 62 -> Seq(codes)] : Steps(f, 62, <<>>, step)
    BY <1>2, <1>4, Recursion
<1>6. ASSUME NEW p \in 0 .. 62
      PROVE  f[p] = IF p = 0 THEN <<>> ELSE IF p \in codes THEN Append(f[p - 1], p) ELSE f[p - 1]
  <2>1. f[p] = IF p = 0 THEN <<>> ELSE step[p][f[p - 1]]
      BY <1>5 DEF Steps
  <2>2. p # 0 => p \in 1 .. 62 /\ p - 1 \in 0 .. 62
      OBVIOUS
  <2>3. p # 0 => f[p - 1] \in Seq(codes)
      BY <2>2
  <2>. QED  BY <2>1, <2>2, <2>3, <1>3
<1>7. Up(f)
    BY <1>6
<1>8. Up(up)
    BY <1>7 DEF up
<1>9. up = [p \in 0 .. 62 |-> IF p = 0 THEN <<>> ELSE IF p \in codes THEN Append(up[p - 1], p) ELSE up[p - 1]]
    BY <1>8
<1>. HIDE DEF Up
<1>. DEFINE S == {p \in 0 .. 62 : up[p] \in Seq(codes)}
<1>10. 0 \in S
    BY <1>9
<1>11. ASSUME NEW m \in 0 .. 62 - 1, m \in S
       PROVE  m + 1 \in S
  <2>1. m + 1 \in 0 .. 62 /\ m + 1 # 0 /\ (m + 1) - 1 = m
      OBVIOUS
  <2>2. up[m + 1] = IF m + 1 \in codes THEN Append(up[m], m + 1) ELSE up[m]
      BY <1>9, <2>1
  <2>3. up[m] \in Seq(codes)
      BY <1>11
  <2>4. up[m + 1] \in Seq(codes)
    <3>1. CASE m + 1 \in codes
      <4>1. Append(up[m], m + 1) \in Seq(codes)
          BY <2>3, <3>1
      <4>. QED  BY <4>1, <2>2, <3>1
    <3>2. CASE m + 1 \notin codes
        BY <2>2, <2>3, <3>2
    <3>. QED  BY <3>1, <3>2
  <2>. QED  BY <2>1, <2>4
<1>. HIDE DEF S
<1>12. 62 \in S
  <2>1. \A m \in 0 .. 62 : m \in S
      BY <1>4, <1>10, <1>11, Induction
  <2>. QED  BY <2>1
<1>13. up[62] \in Seq(codes)
    BY <1>12 DEF S
<1>14. (IF 0 \in codes THEN <<0>> ELSE <<>>) \in Seq(codes)
    OBVIOUS
<1>. QED  BY <1>1, <1>13, <1>14

-----------------------------------------------------------------------------
(* What an initiator has been told                                         *)

\* A page that an initiator has been told about is one of the pages of the device, and a format page
\* had the block size.
PageTold(p, c) ==
    /\ p.code \in DOMAIN Supported /\ p.length = Supported[p.code]
    /\ p.code = 3 /\ 3 \notin DOMAIN custom /\ c.ready /\ kind # "SCTP" => p.size = Short(c.size)

CopyTold(c) ==
    c.whole =>
        /\ c.descriptor \in {0, 8, 16}
        /\ c.size \in Nat
        /\ kind # "SCTP" => c.size > 0 /\ c.size % 4 = 0
        /\ Len(c.pages) \in Nat
        /\ \A k \in 1 .. Len(c.pages) : PageTold(c.pages[k], c)

SizesSound == size \in Nat \ {0} /\ size % 4 = 0 /\ shown \in Nat

\* What an initiator has been told remains true of the device, but for the block size.
ModesInv ==
    /\ SizesSound
    /\ DOMAIN copy = Initiators
    /\ \A i \in Initiators : CopyTold(copy[i])

PagesSupported(pages) == \A p \in DOMAIN pages : p \in DOMAIN Supported /\ pages[p] = Supported[p]

\* Asking for one page does not change what it says.
LEMMA PagesForSupported ==
    ASSUME NEW page
    PROVE  PagesSupported(ModePagesFor(page))
<1>1. PICK D : D \subseteq DOMAIN DevicePages /\ ModePagesFor(page) = WithCustomModePages(Restrict(DevicePages, D))
  <2>1. (IF page = AllPages THEN DOMAIN DevicePages ELSE DOMAIN DevicePages \cap {page}) \subseteq DOMAIN DevicePages
      OBVIOUS
  <2>. QED  BY <2>1 DEF ModePagesFor
<1>2. DOMAIN Restrict(DevicePages, D) = D /\ \A p \in D : Restrict(DevicePages, D)[p] = DevicePages[p]
    BY DEF Restrict
<1>. SUFFICES ASSUME NEW p \in DOMAIN WithCustomModePages(Restrict(DevicePages, D))
              PROVE  /\ p \in DOMAIN Supported
                     /\ WithCustomModePages(Restrict(DevicePages, D))[p] = Supported[p]
    BY <1>1 DEF PagesSupported
<1>3. CASE p \in DOMAIN custom
    BY <1>2, <1>3 DEF WithCustomModePages, Supported
<1>4. CASE p \notin DOMAIN custom
    BY <1>1, <1>2, <1>4 DEF WithCustomModePages, Supported
<1>. QED  BY <1>3, <1>4

\* A reply says what is supported.
LEMMA ReplyTold ==
    ASSUME SizesSound, NEW r, NEW header, NEW descriptor \in {0, 8, 16}, NEW pages, PagesSupported(pages)
    PROVE  CopyTold(Reply(r, header, descriptor, pages))
<1>. DEFINE c == Reply(r, header, descriptor, pages)
            codes == Ordered(DOMAIN pages)
            page(p) == [code |-> p, length |-> pages[p],
                        size |-> IF p = 3 /\ p \notin DOMAIN custom THEN FormatPage(r.changeable) ELSE 0]
<1>1. codes \in Seq(DOMAIN pages)
    BY OrderedCodes
<1>2. Len(codes) \in Nat /\ \A k \in 1 .. Len(codes) : codes[k] \in DOMAIN pages
    BY <1>1
<1>3. \/ c = NoCopy
      \/ /\ ~r.changeable
         /\ c = [whole |-> TRUE, ready |-> ready, descriptor |-> descriptor,
                 size |-> BlockSizeForDescriptor(r.changeable), pages |-> [k \in 1 .. Len(codes) |-> page(codes[k])]]
    BY Zenon DEF Reply
<1>. HIDE DEF c, codes
<1>4. CASE c = NoCopy
    BY <1>4 DEF CopyTold, NoCopy, c
<1>5. CASE /\ ~r.changeable
           /\ c = [whole |-> TRUE, ready |-> ready, descriptor |-> descriptor,
                   size |-> BlockSizeForDescriptor(r.changeable), pages |-> [k \in 1 .. Len(codes) |-> page(codes[k])]]
  <2>. HIDE DEF page
  <2>1. /\ c.ready = ready /\ c.descriptor = descriptor
        /\ c.size = BlockSizeForDescriptor(r.changeable)
        /\ c.pages = [k \in 1 .. Len(codes) |-> page(codes[k])]
      BY <1>5
  <2>2. c.size = IF kind = "SCTP" THEN shown ELSE size
      BY <1>5, <2>1 DEF BlockSizeForDescriptor
  <2>3. c.size \in Nat /\ (kind # "SCTP" => c.size > 0 /\ c.size % 4 = 0)
      BY <2>2 DEF SizesSound
  <2>4. Len(c.pages) = Len(codes)
      BY <1>2, <2>1
  <2>5. ASSUME NEW k \in 1 .. Len(codes)
        PROVE  PageTold(c.pages[k], c)
    <3>1. c.pages[k] = page(codes[k]) /\ codes[k] \in DOMAIN pages
        BY <1>2, <2>1
    <3>2. /\ c.pages[k].code = codes[k]
          /\ c.pages[k].length = pages[codes[k]]
          /\ codes[k] = 3 /\ 3 \notin DOMAIN custom => c.pages[k].size = FormatPage(r.changeable)
        BY <3>1 DEF page
    <3>3. codes[k] \in DOMAIN Supported /\ pages[codes[k]] = Supported[codes[k]]
        BY <3>1 DEF PagesSupported
    <3>4. ready => FormatPage(r.changeable) = Short(size)
        BY <1>5 DEF FormatPage
    <3>. QED  BY <2>1, <2>2, <3>2, <3>3, <3>4 DEF PageTold
  <2>. QED  BY <1>2, <2>1, <2>3, <2>4, <2>5 DEF CopyTold, c
<1>. QED  BY <1>3, <1>4, <1>5

\* The devices and their pages stay, so that what an initiator has been told still holds.
LEMMA StillTold ==
    ASSUME UNCHANGED <<kind, custom>>, SizesSound', DOMAIN copy' = Initiators,
           \A i \in Initiators : CopyTold(copy'[i])
    PROVE  ModesInv'
<1>1. Supported' = Supported
    BY DEF Supported, WithCustomModePages, DevicePages
<1>2. ASSUME NEW i \in Initiators
      PROVE  CopyTold(copy[i])'
    BY <1>1 DEF CopyTold, PageTold
<1>. QED  BY <1>2 DEF ModesInv

\* MODE SENSE
LEMMA SenseTold ==
    ASSUME ModesInv, NEW r, NEW header, NEW descriptor \in {0, 8, 16}, NEW limit, Sense(r, header, descriptor, limit)
    PROVE  ModesInv'
<1>. DEFINE pages == IF r.page = 0 THEN <<>> ELSE ModePagesFor(r.page)
            reply == Reply(r, header, descriptor, pages)
<1>1. UNCHANGED <<kind, custom, size, shown>>
    BY DEF Sense
<1>2. PICK i \in Initiators : copy' = [copy EXCEPT ![i] = reply]
    BY DEF Sense
<1>3. PagesSupported(pages)
  <2>1. CASE r.page = 0
      BY <2>1 DEF PagesSupported
  <2>2. CASE r.page # 0
      BY <2>2, PagesForSupported
  <2>. QED  BY <2>1, <2>2
<1>. HIDE DEF pages
<1>4. CopyTold(reply)
    BY <1>3, ReplyTold DEF ModesInv
<1>. HIDE DEF reply
<1>5. SizesSound'
    BY <1>1 DEF ModesInv, SizesSound
<1>6. DOMAIN copy' = Initiators
    BY <1>2 DEF ModesInv
<1>7. ASSUME NEW j \in Initiators
      PROVE  CopyTold(copy'[j])
  <2>1. CASE j = i
    <3>1. copy'[j] = reply
        BY <1>2, <2>1 DEF ModesInv
    <3>. QED  BY <3>1, <1>4
  <2>2. CASE j # i
    <3>1. copy'[j] = copy[j]
        BY <1>2, <2>2 DEF ModesInv
    <3>. QED  BY <3>1 DEF ModesInv
  <2>. QED  BY <2>1, <2>2
<1>. QED  BY <1>1, <1>5, <1>6, <1>7, StillTold

\* MODE SELECT leaves a block size that can be a block size.
LEMMA ProcessListTold ==
    ASSUME ModesInv, NEW list, list.size \in Int, NEW pf, ProcessList(list, pf)
    PROVE  ModesInv'
<1>1. UNCHANGED <<kind, custom, copy>>
    BY DEF ProcessList
<1>2. Short(list.size) \in Nat
    BY DEF Short
<1>3. SizesSound
    BY DEF ModesInv
<1>4. CASE DescriptorAccepted(list)
  <2>1. /\ size' = DescriptorSize(list)
        /\ shown' = IF kind = "SCTP" /\ list.descriptor > 0 /\ Short(list.size) = 0 THEN 0 ELSE shown
      BY <1>4 DEF ProcessList
  <2>2. shown' \in Nat
      BY <2>1, <1>3 DEF SizesSound
  <2>3. ASSUME list.descriptor > 0 /\ Short(list.size) > 0
        PROVE  SizesSound'
    <3>1. VerifyBlockSizeChange(Short(list.size), size, TRUE)
        BY <1>4, <2>3 DEF DescriptorAccepted
    <3>2. size' = Short(list.size)
        BY <2>1, <2>3 DEF DescriptorSize
    <3>3. Short(list.size) = size \/ Short(list.size) % 4 = 0
        BY <3>1, <2>3, <1>2 DEF VerifyBlockSizeChange
    <3>. QED  BY <1>2, <1>3, <2>2, <2>3, <3>2, <3>3 DEF SizesSound
  <2>4. ASSUME ~(list.descriptor > 0 /\ Short(list.size) > 0)
        PROVE  SizesSound'
    <3>1. size' = size
        BY <2>1, <2>4 DEF DescriptorSize
    <3>. QED  BY <1>3, <2>2, <3>1 DEF SizesSound
  <2>5. SizesSound'
      BY <2>3, <2>4
  <2>. QED  BY <1>1, <2>5, StillTold DEF ModesInv
<1>5. CASE ~DescriptorAccepted(list)
  <2>1. SizesSound'
      BY <1>3, <1>5 DEF ProcessList, SizesSound
  <2>. QED  BY <1>1, <2>1, StillTold DEF ModesInv
<1>. QED  BY <1>4, <1>5

LEMMA ModesInvHolds == ModePagesSpec => []ModesInv
<1>1. ModePagesInit => ModesInv
  <2>. SUFFICES ASSUME ModePagesInit
                PROVE  ModesInv
      OBVIOUS
  <2>1. SizesSound
      BY ModePagesAssumption DEF ModePagesInit, SizesSound
  <2>2. DOMAIN copy = Initiators /\ \A i \in Initiators : copy[i] = NoCopy
      BY DEF ModePagesInit
  <2>. QED  BY <2>1, <2>2 DEF ModesInv, CopyTold, NoCopy
<1>2. ModesInv /\ [ModePagesNext]_vars => ModesInv'
  <2>. SUFFICES ASSUME ModesInv, [ModePagesNext]_vars
                PROVE  ModesInv'
      OBVIOUS
  <2>1. ASSUME NEW r \in Requests, ModeSense6(r) \/ ModeSense10(r) \/ HostServicesModeSense(r)
        PROVE  ModesInv'
    <3>1. CASE ModeSense6(r)
      <4>1. (IF HasDescriptor(r) THEN 8 ELSE 0) \in {0, 8, 16}
          OBVIOUS
      <4>2. Sense(r, 4, IF HasDescriptor(r) THEN 8 ELSE 0, 255)
          BY <3>1 DEF ModeSense6
      <4>. QED  BY <4>1, <4>2, SenseTold
    <3>2. CASE ModeSense10(r)
      <4>1. (IF ~HasDescriptor(r) THEN 0 ELSE IF r.llbaa THEN 16 ELSE 8) \in {0, 8, 16}
          OBVIOUS
      <4>2. Sense(r, 8, IF ~HasDescriptor(r) THEN 0 ELSE IF r.llbaa THEN 16 ELSE 8, 65535)
          BY <3>2 DEF ModeSense10
      <4>. QED  BY <4>1, <4>2, SenseTold
    <3>3. CASE HostServicesModeSense(r)
      <4>1. Sense(r, 4, 0, 255) \/ Sense(r, 8, 0, 65535)
          BY <3>3 DEF HostServicesModeSense
      <4>2. 0 \in {0, 8, 16}
          OBVIOUS
      <4>. QED  BY <4>1, <4>2, SenseTold
    <3>. QED  BY <2>1, <3>1, <3>2, <3>3
  <2>2. ASSUME NEW list \in Lists \cup {Given(copy[i]) : i \in {j \in Initiators : copy[j].whole /\ copy[j].descriptor # 16}},
               NEW pf \in BOOLEAN, NEW sp \in BOOLEAN, ModeSelect6(list, pf, sp)
        PROVE  ModesInv'
    <3>1. CASE list \in Lists
      <4>1. list.size \in Int
          BY <3>1, ModePagesAssumption
      <4>. QED  BY <2>2, <4>1, ProcessListTold DEF ModeSelect6
    <3>2. CASE list \notin Lists
      <4>1. PICK i \in Initiators : copy[i].whole /\ list = Given(copy[i])
          BY <2>2, <3>2
      <4>2. list.size = copy[i].size
          BY <4>1 DEF Given
      <4>3. list.size \in Int
          BY <4>1, <4>2 DEF ModesInv, CopyTold
      <4>. QED  BY <2>2, <4>3, ProcessListTold DEF ModeSelect6
    <3>. QED  BY <3>1, <3>2
  <2>3. ASSUME NEW s \in Sizes, Open(s)
        PROVE  ModesInv'
    <3>1. SizesSound'
        BY <2>3, ModePagesAssumption DEF Open, SizesSound
    <3>. QED  BY <2>3, <3>1, StillTold DEF Open, ModesInv
  <2>4. CASE Eject
    <3>1. SizesSound'
        BY <2>4 DEF Eject, ModesInv, SizesSound
    <3>. QED  BY <2>4, <3>1, StillTold DEF Eject, ModesInv
  <2>5. CASE UNCHANGED vars
    <3>1. SizesSound'
        BY <2>5 DEF vars, ModesInv, SizesSound
    <3>. QED  BY <2>5, <3>1, StillTold DEF vars, ModesInv
  <2>. QED  BY <2>1, <2>2, <2>3, <2>4, <2>5 DEF ModePagesNext
<1>. QED  BY <1>1, <1>2, PTL DEF ModePagesSpec

-----------------------------------------------------------------------------
(* What an initiator gives back                                            *)

\* A copy that an initiator can give back
Restorable(c) ==
    /\ CopyTold(c) /\ c.whole /\ kind # "SCTP"
    /\ c.ready /\ c.size < 65536 /\ c.descriptor # 16 /\ Settable(c.pages)

\* The two lowest bytes of the block size are all of it.
LEMMA SizeFits ==
    ASSUME NEW c, Restorable(c)
    PROVE  c.size \in Nat /\ c.size > 0 /\ c.size % 4 = 0 /\ Short(c.size) = c.size
<1>1. c.size \in Nat /\ c.size > 0 /\ c.size % 4 = 0 /\ c.size < 65536
    BY DEF Restorable, CopyTold
<1>2. c.size % 65536 = c.size
    BY <1>1
<1>. QED  BY <1>1, <1>2 DEF Short

\* The pages of such a copy have lengths that a size field can say.
LEMMA PagesDelimited ==
    ASSUME NEW c, Restorable(c)
    PROVE  /\ Len(c.pages) \in Nat /\ c.descriptor \in Nat /\ Measured(c.pages)
           /\ \A k \in 1 .. Len(c.pages) : /\ c.pages[k].length \in Nat
                                           /\ c.pages[k].length >= 2 /\ c.pages[k].length <= 257
                                           /\ c.pages[k].code # 0
<1>1. \A x : x \in 2 .. 257 => x \in Nat /\ x >= 2 /\ x <= 257
    OBVIOUS
<1>2. Len(c.pages) \in Nat /\ c.descriptor \in Nat
    BY DEF Restorable, CopyTold
<1>3. ASSUME NEW k \in 1 .. Len(c.pages)
      PROVE  /\ c.pages[k].length \in Nat
             /\ c.pages[k].length >= 2 /\ c.pages[k].length <= 257
             /\ c.pages[k].code # 0
  <2>1. c.pages[k].code \in {1, 3, 7, 8} \ (DOMAIN custom \cap {3}) /\ c.pages[k].length \in 2 .. 257
    <3>1. Settable(c.pages)
        BY DEF Restorable
    <3>. QED  BY <3>1 DEF Settable
  <2>2. c.pages[k].code # 0
    <3>1. c.pages[k].code \in {1, 3, 7, 8}
        BY <2>1, Zenon
    <3>. QED  BY <3>1
  <2>3. c.pages[k].length \in 2 .. 257
      BY <2>1, Zenon
  <2>. QED  BY <1>1, <2>2, <2>3
<1>4. Measured(c.pages)
    BY <1>2, <1>3 DEF Measured
<1>. QED  BY <1>2, <1>3, <1>4

\* When a page is reached, at least its bytes are left, and no page ends the list.
LEMMA PagesParsed ==
    ASSUME NEW c, Restorable(c), NEW k \in 1 .. Len(c.pages)
    PROVE  /\ Rest(Given(c), k) \in Int /\ c.pages[k].length <= Rest(Given(c), k)
           /\ IsParsed(Given(c), k)
<1>1. /\ Len(c.pages) \in Nat /\ c.descriptor \in Nat /\ Measured(c.pages)
      /\ c.pages[k].length \in Nat /\ c.pages[k].length >= 2
      /\ \A j \in 1 .. Len(c.pages) : c.pages[j].code # 0
    BY PagesDelimited
<1>2. Measured(c.pages)
    BY <1>1
<1>3. k - 1 \in 0 .. Len(c.pages) /\ Len(c.pages) \in 0 .. Len(c.pages)
    BY <1>1
<1>4. Bytes(c.pages, k - 1) \in Nat /\ Bytes(c.pages, Len(c.pages)) \in Nat
    BY <1>2, <1>3, BytesAdded
<1>5. Bytes(c.pages, k - 1) + c.pages[k].length <= Bytes(c.pages, Len(c.pages))
    BY <1>2, BytesGrow
<1>6. /\ Given(c).length = 4 + c.descriptor + Bytes(c.pages, Len(c.pages))
      /\ Given(c).descriptor = c.descriptor /\ Given(c).pages = c.pages
    BY DEF Given, Header
<1>7. Rest(Given(c), k) = Given(c).length - 4 - c.descriptor - Bytes(c.pages, k - 1)
    BY <1>6 DEF Rest, Header
<1>8. Rest(Given(c), k) \in Int /\ c.pages[k].length <= Rest(Given(c), k)
    BY <1>1, <1>4, <1>5, <1>6, <1>7
<1>9. \A j \in 1 .. k - 1 : c.pages[j].code # 0
  <2>1. \A j \in 1 .. k - 1 : j \in 1 .. Len(c.pages)
      BY <1>1
  <2>. QED  BY <1>1, <2>1
<1>10. Rest(Given(c), k) > 0
    BY <1>1, <1>8
<1>. QED  BY <1>1, <1>6, <1>8, <1>9, <1>10 DEF IsParsed

\* A page is accepted unless it says another block size.
LEMMA PageRestored ==
    ASSUME NEW c, Restorable(c), NEW k \in 1 .. Len(c.pages), NEW current
    PROVE  PageAccepted(c.pages[k], Rest(Given(c), k), current) <=> (c.pages[k].code = 3 => c.size = current)
<1>. DEFINE p == c.pages[k]
            rest == Rest(Given(c), k)
<1>1. PageTold(p, c) /\ kind # "SCTP" /\ c.ready
    BY DEF Restorable, CopyTold
<1>2. p.code \in {1, 3, 7, 8} /\ (p.code = 3 => 3 \notin DOMAIN custom)
    BY DEF Restorable, Settable
<1>3. /\ p.length \in Nat /\ p.length >= 2 /\ p.length <= 257
      /\ rest \in Int /\ p.length <= rest
    BY PagesDelimited, PagesParsed
<1>. HIDE DEF p, rest
<1>4. p.code \in DOMAIN Supported /\ p.length = Supported[p.code]
    BY <1>1 DEF PageTold
<1>5. PageSize(p.length) + 2 = p.length
  <2>1. (p.length - 2) % 256 = p.length - 2
      BY <1>3
  <2>. QED  BY <1>3, <2>1 DEF PageSize
<1>6. p.code = 3 => p.size = c.size
    BY <1>1, <1>2, SizeFits DEF PageTold
<1>7. p.code = 3 => (VerifyBlockSizeChange(p.size, current, FALSE) <=> c.size = current)
    BY <1>6 DEF VerifyBlockSizeChange
<1>8. rest >= 2
    BY <1>3
<1>9. PageAccepted(p, rest, current) <=> (p.code = 3 => VerifyBlockSizeChange(p.size, current, FALSE))
  <2>1. p.code # 0 /\ PageSize(p.length) + 2 = Supported[p.code] /\ PageSize(p.length) + 2 <= rest
      BY <1>2, <1>3, <1>4, <1>5
  <2>. QED  BY <1>2, <1>4, <1>8, <2>1, Zenon DEF PageAccepted
<1>. QED  BY <1>7, <1>9 DEF p, rest

\* What can be given back is accepted, unless without a block descriptor the format page is wrong.
LEMMA ListRestored ==
    ASSUME NEW c, Restorable(c), SizesSound
    PROVE  /\ DescriptorAccepted(Given(c))
           /\ DescriptorSize(Given(c)) = IF c.descriptor > 0 THEN c.size ELSE size
           /\ ListAccepted(Given(c)) <=>
                \A k \in 1 .. Len(c.pages) : c.pages[k].code = 3 => c.size = DescriptorSize(Given(c))
<1>1. Len(c.pages) \in Nat /\ c.descriptor \in Nat /\ Measured(c.pages) /\ kind # "SCTP"
    BY PagesDelimited DEF Restorable
<1>2. /\ Given(c).length = 4 + c.descriptor + Bytes(c.pages, Len(c.pages))
      /\ Given(c).descriptor = c.descriptor /\ Given(c).size = c.size /\ Given(c).pages = c.pages
    BY DEF Given, Header
<1>3. Bytes(c.pages, Len(c.pages)) \in Nat
  <2>1. Len(c.pages) \in 0 .. Len(c.pages)
      BY <1>1
  <2>. QED  BY <1>1, <2>1, BytesAdded
<1>4. c.size \in Nat /\ c.size > 0 /\ c.size % 4 = 0 /\ Short(c.size) = c.size
    BY SizeFits
<1>5. Given(c).length >= Header + Given(c).descriptor
    BY <1>1, <1>2, <1>3 DEF Header
<1>6. VerifyBlockSizeChange(Short(Given(c).size), size, TRUE)
    BY <1>2, <1>4 DEF VerifyBlockSizeChange
<1>7. DescriptorAccepted(Given(c))
    BY <1>5, <1>6 DEF DescriptorAccepted
<1>8. DescriptorSize(Given(c)) = IF c.descriptor > 0 THEN c.size ELSE size
    BY <1>2, <1>4 DEF DescriptorSize
<1>9. ListAccepted(Given(c)) <=>
        \A k \in 1 .. Len(c.pages) : PageAccepted(c.pages[k], Rest(Given(c), k), DescriptorSize(Given(c)))
  <2>1. \A k \in 1 .. Len(c.pages) : IsParsed(Given(c), k)
      BY PagesParsed
  <2>. QED  BY <1>1, <1>2, <2>1 DEF ListAccepted
<1>10. \A k \in 1 .. Len(c.pages) :
        PageAccepted(c.pages[k], Rest(Given(c), k), DescriptorSize(Given(c)))
            <=> (c.pages[k].code = 3 => c.size = DescriptorSize(Given(c)))
    BY PageRestored
<1>. QED  BY <1>7, <1>8, <1>9, <1>10

\* What an initiator has been told can be given back at any later time, whatever other initiators
\* have done and even if there is another medium (storage_device.cpp:124).
THEOREM GivenBackTheorem == ModePagesSpec => []GivenBack
<1>1. ModesInv => GivenBack
  <2>. SUFFICES ASSUME ModesInv, NEW i \in Initiators,
                       copy[i].whole, kind # "SCTP", SupportsModeSelect,
                       copy[i].ready, copy[i].size < 65536, copy[i].descriptor # 16, Settable(copy[i].pages)
                PROVE  LET c == copy[i]  list == Given(c)
                       IN  /\ DescriptorAccepted(list)
                           /\ c.descriptor > 0 => ListAccepted(list) /\ DescriptorSize(list) = c.size
                           /\ c.descriptor = 0 =>
                                /\ DescriptorSize(list) = size
                                /\ ListAccepted(list) <=>
                                    (c.size = size \/ \A k \in 1 .. Len(c.pages) : c.pages[k].code # 3)
      BY DEF GivenBack
  <2>. DEFINE c == copy[i]
              list == Given(c)
  <2>1. Restorable(c) /\ SizesSound
      BY DEF ModesInv, Restorable
  <2>2. c.descriptor > 0 \/ (c.descriptor = 0 /\ ~(c.descriptor > 0))
      BY <2>1 DEF Restorable, CopyTold
  <2>. HIDE DEF c
  <2>3. /\ DescriptorAccepted(list)
        /\ DescriptorSize(list) = IF c.descriptor > 0 THEN c.size ELSE size
        /\ ListAccepted(list) <=> \A k \in 1 .. Len(c.pages) : c.pages[k].code = 3 => c.size = DescriptorSize(list)
      BY <2>1, ListRestored
  <2>. HIDE DEF list
  <2>4. c.descriptor > 0 => ListAccepted(list) /\ DescriptorSize(list) = c.size
      BY <2>3
  <2>5. c.descriptor = 0 =>
            /\ DescriptorSize(list) = size
            /\ ListAccepted(list) <=> (c.size = size \/ \A k \in 1 .. Len(c.pages) : c.pages[k].code # 3)
      BY <2>2, <2>3
  <2>. QED  BY <2>3, <2>4, <2>5 DEF c, list
<1>. QED  BY <1>1, ModesInvHolds, PTL
=============================================================================
