----------------------------- MODULE ModePages -----------------------------
(***************************************************************************)
(* Mode pages (devices/page_handler.cpp, storage_device.cpp and the        *)
(* devices that have mode pages): what MODE SENSE tells the initiators of  *)
(* a device about it, and what becomes of a parameter list that they send  *)
(* with MODE SELECT, possibly long after they were told.                   *)
(*                                                                         *)
(* A mode page is its code and its length. The only field that is          *)
(* modelled is the block size, in the block descriptor and in the format   *)
(* device page. Lengths are numbers of bytes.                              *)
(***************************************************************************)
EXTENDS Integers, Sequences, SequencesExt

CONSTANTS
    Kinds,        \* types of devices
    Initiators,
    Sizes,        \* block sizes a medium is opened with
    Definitions,  \* mode page properties, a set of sequences
    Requests,     \* what MODE SENSE asks for
    Lists         \* parameter lists that initiators make up

ASSUME ModePagesAssumption ==
    /\ Kinds \subseteq {"SAHD", "SCHD", "SCRM", "SCMO", "SCCD", "SCTP", "SCHS"}
    /\ \A s \in Sizes : s \in Nat \ {0} /\ s % 4 = 0  \* ValidateBlockSize()
    /\ \A list \in Lists : list.size \in Int

VARIABLES
    kind,     \* the type of the device
    custom,   \* the mode pages that the properties define
    ready,    \* there is a medium
    size,     \* block_size
    shown,    \* block_size_for_descriptor of a tape drive
    copy,     \* for each initiator, what MODE SENSE has sent
    agreed    \* history: the block sizes in the format pages that have just been accepted

vars == <<kind, custom, ready, size, shown, copy, agreed>>

\* SetInt16(), GetInt16()
Short(n) == n % 65536

-----------------------------------------------------------------------------
(* The mode pages of a device: a function from page codes to lengths       *)

StoragePages == 1 :> 12 @@ 2 :> 16 @@ 10 :> 8
DiskPages == StoragePages @@ 7 :> 12 @@ 8 :> 12 @@ 48 :> 24
HardDrivePages == DiskPages @@ 3 :> 24 @@ 4 :> 24 @@ 12 :> 24 @@ 37 :> 25
OpticalMemoryPages == DiskPages @@ 6 :> 4 @@ 32 :> 12
CdPages == DiskPages @@ 13 :> 8
TapePages == StoragePages @@ 15 :> 16 @@ 16 :> 16 @@ 17 :> 8
HostServicesPages == 32 :> 10

DevicePages ==
    CASE kind = "SAHD" -> DiskPages
      [] kind \in {"SCHD", "SCRM"} -> HardDrivePages
      [] kind = "SCMO" -> OpticalMemoryPages
      [] kind = "SCCD" -> CdPages
      [] kind = "SCTP" -> TapePages
      [] kind = "SCHS" -> HostServicesPages

AllPages == 63

\* The size field of a page is a byte and does not count the first two.
PageSize(length) == (length - 2) % 256

\* A property that is not about this product, is not hexadecimal, or contradicts itself is ignored.
IsDefined(d) ==
    /\ d.page \in 0 .. 62 /\ d.matches /\ d.hex
    /\ d.length = 0 \/ d.page = 0 \/ (d.code = d.page /\ d.says = PageSize(d.length))

\* GetCustomModePages(): a later property replaces an earlier one.
CustomModePages(definitions) ==
    FoldLeft(LAMBDA pages, d : IF IsDefined(d) THEN d.page :> d.length @@ pages ELSE pages, <<>>, definitions)

\* Custom pages replace those of the device, those that are empty remove them.
WithCustomModePages(pages) ==
    [p \in {q \in DOMAIN custom : custom[q] > 0} \cup (DOMAIN pages \ DOMAIN custom) |->
        IF p \in DOMAIN custom THEN custom[p] ELSE pages[p]]

\* SetUpModePages(): all custom pages are part of the data whatever page has been asked for.
ModePagesFor(page) ==
    WithCustomModePages(Restrict(DevicePages, IF page = AllPages THEN DOMAIN DevicePages
                                              ELSE DOMAIN DevicePages \cap {page}))

\* In the order of their codes, page 0 last
Ordered(codes) ==
    LET upTo[p \in 0 .. 62] ==
            IF p = 0 THEN <<>> ELSE IF p \in codes THEN Append(upTo[p - 1], p) ELSE upTo[p - 1]
    IN  upTo[62] \o IF 0 \in codes THEN <<0>> ELSE <<>>

Total(pages) == FoldLeft(LAMBDA n, p : n + pages[p], 0, Ordered(DOMAIN pages))

-----------------------------------------------------------------------------
(* MODE SENSE                                                              *)

\* Mutant: the block size in the format device page is the default one.
FormatPageMutant(changeable) == IF changeable THEN 8188 ELSE IF ready THEN 512 ELSE 0

\* AddFormatPage()
FormatPage(changeable) == IF changeable THEN 8188 ELSE IF ready THEN Short(size) ELSE 0

\* What the block descriptor says
BlockSizeForDescriptor(changeable) ==
    IF kind = "SCTP" THEN IF changeable THEN 16777215 ELSE shown
    ELSE IF changeable THEN 65535 ELSE size

NoCopy == [whole |-> FALSE]

\* The reply to a request r. An initiator keeps it unless it is cut off or only says
\* what is changeable.
Reply(r, header, descriptor, pages) ==
    LET codes == Ordered(DOMAIN pages)
        page(p) == [code |-> p, length |-> pages[p],
                    size |-> IF p = 3 /\ p \notin DOMAIN custom THEN FormatPage(r.changeable) ELSE 0]
    IN  IF r.allocation < header + descriptor + Total(pages) \/ r.changeable THEN NoCopy
        ELSE [whole |-> TRUE, ready |-> ready, descriptor |-> descriptor,
              size |-> BlockSizeForDescriptor(r.changeable), pages |-> [k \in 1 .. Len(codes) |-> page(codes[k])]]

\* AddModePages(): an allocation length that ends before the pages is no error. Pages that do
\* not exist are one, and pages that are too long for the size field.
MayAddModePages(r, offset, limit) ==
    r.allocation >= offset => ModePagesFor(r.page) # <<>> /\ Total(ModePagesFor(r.page)) <= limit

Sense(r, header, descriptor, limit) ==
    /\ ~r.subpage
    /\ r.page # 0 \/ kind = "SCHS" => MayAddModePages(r, header + descriptor, limit)
    /\ LET reply == Reply(r, header, descriptor, IF r.page = 0 THEN <<>> ELSE ModePagesFor(r.page))
       IN  \E i \in Initiators : copy' = [copy EXCEPT ![i] = reply]
    /\ agreed' = {}
    /\ UNCHANGED <<kind, custom, ready, size, shown>>

HasDescriptor(r) == ~r.dbd /\ ready

ModeSense6(r) ==
    kind # "SCHS" /\ Sense(r, 4, IF HasDescriptor(r) THEN 8 ELSE 0, 255)

ModeSense10(r) ==
    kind # "SCHS" /\ Sense(r, 8, IF ~HasDescriptor(r) THEN 0 ELSE IF r.llbaa THEN 16 ELSE 8, 65535)

\* Host services have no block descriptor, and the initiator must not ask for one.
HostServicesModeSense(r) ==
    kind = "SCHS" /\ r.dbd /\ (Sense(r, 4, 0, 255) \/ Sense(r, 8, 0, 65535))

-----------------------------------------------------------------------------
(* MODE SELECT                                                             *)

Header == 4

\* The number of bytes of the first n pages of a list
Bytes(pages, n) ==
    LET bytes[k \in 0 .. Len(pages)] == IF k = 0 THEN 0 ELSE bytes[k - 1] + pages[k].length
    IN  bytes[n]

Given(c) == [descriptor |-> c.descriptor, size |-> c.size, pages |-> c.pages,
             length |-> Header + c.descriptor + Bytes(c.pages, Len(c.pages))]

SupportsModeSelect == kind \notin {"SAHD", "SCHS"}
SupportsSaveParameters == kind \in {"SCHD", "SCRM", "SCMO"}

\* Mutant: a permanent change is accepted like a temporary one.
VerifyBlockSizeChangeMutant(requested, current, temporary) ==
    requested = current \/ (requested > 0 /\ requested % 4 = 0)

\* A permanent change is never accepted.
VerifyBlockSizeChange(requested, current, temporary) ==
    \/ requested = current
    \/ temporary /\ requested > 0 /\ requested % 4 = 0
    \/ temporary /\ requested = 0 /\ kind = "SCTP"

\* EvaluateBlockDescriptors()
DescriptorAccepted(list) ==
    /\ list.length >= Header + list.descriptor
    /\ list.descriptor > 0 => VerifyBlockSizeChange(Short(list.size), size, TRUE)

\* Only the lower 16 bits of the block size are evaluated.
DescriptorSize(list) ==
    IF list.descriptor > 0 /\ Short(list.size) > 0 THEN Short(list.size) ELSE size

\* The number of bytes from a page on
Rest(list, k) == list.length - Header - list.descriptor - Bytes(list.pages, k - 1)

\* Page 0 ends the list.
IsParsed(list, k) == Rest(list, k) > 0 /\ \A j \in 1 .. k - 1 : list.pages[j].code # 0

Supported == WithCustomModePages(DevicePages)

PageAccepted(p, rest, current) ==
    /\ p.code \in DOMAIN Supported
    /\ p.code # 0 =>
        /\ rest >= 2 /\ PageSize(p.length) + 2 = Supported[p.code] /\ PageSize(p.length) + 2 <= rest
        /\ p.code \in {1, 3, 7, 8}
        /\ p.code = 3 => VerifyBlockSizeChange(p.size, current, FALSE)

\* ChangeBlockSize(): it refuses block size 0, which a tape drive has just accepted.
ListAccepted(list) ==
    /\ \A k \in 1 .. Len(list.pages) :
        IsParsed(list, k) => PageAccepted(list.pages[k], Rest(list, k), DescriptorSize(list))
    /\ ~(kind = "SCTP" /\ list.descriptor > 0 /\ Short(list.size) = 0)

FormatPages(list) == {k \in 1 .. Len(list.pages) : list.pages[k].code = 3 /\ IsParsed(list, k)}

\* ModeSelect(): the block size is set before the pages are checked, and stays if they are refused.
ProcessList(list, pf) ==
    /\ IF DescriptorAccepted(list)
       THEN /\ size' = DescriptorSize(list)
            /\ shown' = IF kind = "SCTP" /\ list.descriptor > 0 /\ Short(list.size) = 0 THEN 0 ELSE shown
       ELSE UNCHANGED <<size, shown>>
    /\ agreed' = IF pf /\ DescriptorAccepted(list) /\ ListAccepted(list)
                 THEN {list.pages[k].size : k \in FormatPages(list)} ELSE {}
    /\ UNCHANGED <<kind, custom, ready, copy>>

\* An empty list changes nothing.
ModeSelect6(list, pf, sp) ==
    /\ SupportsModeSelect /\ (sp => SupportsSaveParameters)
    /\ list.length > 0
    /\ ProcessList(list, pf)

-----------------------------------------------------------------------------
(* The medium                                                              *)

Removable == kind \in {"SCRM", "SCMO", "SCCD", "SCTP"}

Open(s) ==
    /\ ~ready /\ Removable
    /\ ready' = TRUE /\ size' = s /\ shown' = s
    /\ agreed' = {}
    /\ UNCHANGED <<kind, custom, copy>>

Eject ==
    /\ ready /\ Removable
    /\ ready' = FALSE
    /\ agreed' = {}
    /\ UNCHANGED <<kind, custom, size, shown, copy>>

-----------------------------------------------------------------------------
ModePagesInit ==
    /\ kind \in Kinds
    /\ \E d \in Definitions : custom = CustomModePages(d)
    /\ ready = (kind # "SCHS") /\ size \in Sizes /\ shown = size
    /\ copy = [i \in Initiators |-> NoCopy]
    /\ agreed = {}

ModePagesNext ==
    \/ \E r \in Requests : ModeSense6(r) \/ ModeSense10(r) \/ HostServicesModeSense(r)
    \/ \E list \in Lists \cup {Given(copy[i]) : i \in {j \in Initiators : copy[j].whole /\ copy[j].descriptor # 16}},
          pf, sp \in BOOLEAN : ModeSelect6(list, pf, sp)
    \/ \E s \in Sizes : Open(s)
    \/ Eject

ModePagesSpec == ModePagesInit /\ [][ModePagesNext]_vars

-----------------------------------------------------------------------------
(* Properties                                                              *)

\* Pages that MODE SELECT accepts: their size fields are right, which those of a custom page may not
\* be (page_handler.cpp:148), and the device itself defines the format page.
Settable(pages) ==
    \A k \in 1 .. Len(pages) : /\ pages[k].code \in {1, 3, 7, 8} \ (DOMAIN custom \cap {3})
                               /\ pages[k].length \in 2 .. 257

\* What a disk drive has told an initiator about its settings can be given back at any later
\* time: whatever other initiators have done and even if there is another medium, this restores
\* the block size. Without a block descriptor it is refused if it has the format page and the
\* block size has changed, and else leaves the block size as it is (storage_device.cpp:124).
GivenBack ==
    \A i \in Initiators :
        copy[i].whole /\ kind # "SCTP" /\ SupportsModeSelect =>
            LET c == copy[i]  list == Given(c)
            IN  c.ready /\ c.size < 65536 /\ c.descriptor # 16 /\ Settable(c.pages) =>
                    /\ DescriptorAccepted(list)
                    /\ c.descriptor > 0 => ListAccepted(list) /\ DescriptorSize(list) = c.size
                    /\ c.descriptor = 0 =>
                        /\ DescriptorSize(list) = size
                        /\ ListAccepted(list) <=> (c.size = size \/ \A k \in 1 .. Len(c.pages) : c.pages[k].code # 3)

\* If a parameter list with a format page is accepted the block size is that of the page
\* afterwards, also if another initiator has changed it since the page was read: "We are fine as
\* long as the permanent current block size remains unchanged" (storage_device.cpp:190).
FormatPageAgrees == \A s \in agreed : s = size
=============================================================================
