----------------------------- MODULE ImageFiles -----------------------------
(***************************************************************************)
(* The devices that s2p emulates and the image files they use: the device  *)
(* commands of the remote interface (command/command_executor.cpp), the    *)
(* image file commands (command/command_image_support.cpp), the table of   *)
(* reserved files and the medium of a unit (devices/storage_device.cpp),   *)
(* and the controllers that keep the units (controllers/).                 *)
(*                                                                         *)
(* Two threads use them. The service thread executes the remote interface  *)
(* commands one after the other. Device commands hold the dispatch lock,   *)
(* so that no SCSI command is executed meanwhile; commands for image files *)
(* do not. The SCSI thread holds the lock for a whole command.             *)
(*                                                                         *)
(* A file is named by its path in the image folder. Opening a file may     *)
(* fail at any time. Files are changed by s2p only.                        *)
(***************************************************************************)
EXTENDS Integers, Sequences

CONSTANTS
    Ids,         \* the target IDs in use
    Luns,        \* the LUNs in use
    Types,       \* the device types in use
    Files,       \* paths of image files
    Requests     \* the device commands that clients send

NoFile == "no file"
Nobody == <<>>
NoUnit == [type |-> "none"]
Idle   == [op |-> "idle"]

\* The disk drives: hard drives, removable drive, optical drive and CD-ROM
ImageTypes     == {"SCHD", "SAHD", "SCRM", "SCMO", "SCCD"}
RemovableTypes == {"SCRM", "SCMO", "SCCD"}
\* Host services, network adapter and printer
OtherTypes     == {"SCHS", "SCDP", "SCLP"}

Addresses == Ids \X Luns

Definitions == [address : Addresses, type : Types, file : Files \cup {NoFile},
                protected : BOOLEAN]

\* START changes nothing that is modelled.
Operations == {"ATTACH", "DETACH", "INSERT", "EJECT", "PROTECT", "UNPROTECT", "STOP"}

Commands == [op : Operations, devices : Seq(Definitions) \ {<<>>}]

ASSUME ImageFilesAssumption ==
    /\ 0 \in Luns
    /\ Types \subseteq ImageTypes \cup OtherTypes
    /\ NoFile \notin Files
    /\ Nobody \notin Addresses
    /\ Requests \subseteq Commands

VARIABLES
    units,        \* the attached devices
    reserved,     \* reserved_files: which unit uses a file
    images,       \* the state of each file: "absent", "writable" or "read-only"
    reservedIds,  \* IDs that must not be used
    command,      \* the device command being executed, and the definitions left
    image,        \* the image file command being executed
    unclear       \* history: files whose reservation is no longer certain, see below

fileVars == <<units, reserved, images, reservedIds, command, image, unclear>>

UnitFlags == {"ready", "removed", "protected", "read-only", "protectable"}

Attached == {a \in Addresses : units[a] # NoUnit}

\* A unit has the name of its file, of the file ejected last, and the file that its
\* cache uses.
Units == [type : Types, file : Files \cup {NoFile}, open : Files \cup {NoFile},
          last : Files \cup {NoFile}, flags : SUBSET UnitFlags]

Has(a, flag) == flag \in units[a].flags

FilesInit ==
    /\ units = [a \in Addresses |-> NoUnit]
    /\ reserved = [f \in Files |-> Nobody]
    /\ images \in [Files -> {"absent", "writable", "read-only"}]
    /\ reservedIds = {}
    /\ command = Idle
    /\ image = Idle
    /\ unclear = {}

-----------------------------------------------------------------------------
(* The medium of a unit                                                    *)

\* SetProtected()
Protecting(flags, b) ==
    IF "protectable" \in flags /\ "read-only" \notin flags
    THEN IF b THEN flags \cup {"protected"} ELSE flags \ {"protected"}
    ELSE flags

\* The flags after ValidateFile() for the file f
Validated(flags, f) ==
    ((IF images[f] = "read-only" THEN (flags \cup {"read-only"}) \ {"protectable"} ELSE flags)
        \cup {"ready"}) \ {"removed"}

\* Mutant: a reservation is taken over.
CanReserveMutant(f) == f # NoFile

\* ReserveFile()
CanReserve(f) == f # NoFile /\ reserved[f] = Nobody

\* Mutant: the file is not released.
ReleasedMutant(f) == reserved

\* UnreserveFile(), which does not ask whose reservation it is
Released(f) == IF f = NoFile THEN reserved ELSE [reserved EXCEPT ![f] = Nobody]

\* Whether the medium is locked is left out.
CanEject(a) == Has(a, "ready") /\ units[a].type \in RemovableTypes

Eject(a) ==
    /\ units' = [units EXCEPT ![a].flags = (@ \ {"ready", "protected"}) \cup {"removed"},
                              ![a].last = units[a].file,
                              ![a].file = NoFile,
                              ![a].open = NoFile]
    /\ reserved' = Released(units[a].file)

-----------------------------------------------------------------------------
(* Validating the device definitions of a command: the dry run             *)

Lun0(a) == <<a[1], 0>>

SetUpFlags(d) ==
    (IF d.type = "SCCD" THEN {"read-only"} ELSE IF d.type \in ImageTypes THEN {"protectable"} ELSE {"ready"})
        \cup (IF d.type \in ImageTypes /\ d.file = NoFile THEN {"removed"} ELSE {})

\* Attach() up to the end of the dry run, except for Open()
MayAttach(d) ==
    /\ units[d.address] = NoUnit
    /\ d.address[1] \notin reservedIds
    /\ d.type = "SCDP" => \A a \in Attached : units[a].type # "SCDP"
    /\ d.type \in ImageTypes =>
        /\ d.file = NoFile => d.type \in RemovableTypes
        /\ d.file # NoFile => reserved[d.file] = Nobody /\ images[d.file] # "absent"

\* The file that Insert() uses
InsertFile(d) == IF d.file # NoFile THEN d.file ELSE units[d.address].last

MayInsert(d) ==
    /\ units[d.address].type \in RemovableTypes
    /\ Has(d.address, "removed")
    /\ InsertFile(d) # NoFile

\* Mutant: LUN 0 can always be detached.
MayDetachMutant(d) == TRUE

MayDetach(d) == d.address[2] = 0 =>
    \A a \in Attached : a[1] = d.address[1] => a = d.address

MayProtect(d) == Has(d.address, "protectable") /\ Has(d.address, "ready")

\* ProcessDeviceCmd() in the dry run
DryRun(op, d) ==
    \/ op = "ATTACH" /\ MayAttach(d)
    \/ /\ units[d.address] # NoUnit
       /\ \/ op = "DETACH" /\ MayDetach(d)
          \/ op = "INSERT" /\ MayInsert(d)
          \/ op = "EJECT" /\ units[d.address].type \in RemovableTypes
          \/ op \in {"PROTECT", "UNPROTECT"} /\ MayProtect(d)
          \/ op = "STOP" /\ units[d.address].type \in ImageTypes

\* EnsureLun0()
Lun0Ensured(devices) ==
    LET addresses == Attached \cup {devices[i].address : i \in DOMAIN devices}
    IN  \A a \in addresses : Lun0(a) \in addresses

ServiceIdle == command = Idle /\ image = Idle

\* ProcessCmd() takes the lock and the dry run has no error.
StartCommand(r) ==
    /\ ServiceIdle
    /\ \A i \in DOMAIN r.devices : DryRun(r.op, r.devices[i])
    /\ Lun0Ensured(r.devices)
    /\ command' = r
    /\ UNCHANGED <<units, reserved, images, reservedIds, image, unclear>>

-----------------------------------------------------------------------------
(* Executing a device command: one step for each definition                *)

Current == Head(command.devices)

Executing(op) == command # Idle /\ command.op = op

\* The definition has been executed without error.
Done ==
    /\ command' = IF Len(command.devices) = 1 THEN Idle
                  ELSE [command EXCEPT !.devices = Tail(@)]
    /\ UNCHANGED <<images, reservedIds, image>>

\* An error ends the command; what has been done before is not undone.
Fail ==
    /\ command # Idle
    /\ command' = Idle
    /\ UNCHANGED <<images, reservedIds, image>>

\* The unit after Attach() has opened its file
NewUnit(d) ==
    LET flags == IF d.file = NoFile \/ d.type \notin ImageTypes THEN SetUpFlags(d)
                 ELSE Validated(SetUpFlags(d), d.file)
        file  == IF d.type \in ImageTypes THEN d.file ELSE NoFile
    IN  [type |-> d.type, file |-> file, open |-> file, last |-> NoFile,
         flags |-> Protecting(flags, d.protected)]

\* Without LUN 0 there is no controller yet.
CanAttach(d) == MayAttach(d) /\ (d.address[2] = 0 \/ units[Lun0(d.address)] # NoUnit)

Attach ==
    /\ Executing("ATTACH")
    /\ CanAttach(Current)
    /\ units' = [units EXCEPT ![Current.address] = NewUnit(Current)]
    /\ reserved' = IF NewUnit(Current).file = NoFile THEN reserved
                   ELSE [reserved EXCEPT ![Current.file] = Current.address]
    /\ Done
    /\ UNCHANGED unclear

\* The file cannot be opened, or the device or its controller cannot be initialized.
AttachFails ==
    /\ Executing("ATTACH")
    /\ Fail
    /\ UNCHANGED <<units, reserved, unclear>>

Inserted(a, f, b) ==
    [units[a] EXCEPT !.file = f, !.open = f,
                     !.flags = Protecting(Validated(@, f), b)]

\* An unused file is inserted. A file name that the unit still has is forgotten.
Insert ==
    LET a == Current.address
        f == InsertFile(Current)
    IN  /\ Executing("INSERT")
        /\ MayInsert(Current)
        /\ CanReserve(f)
        /\ images[f] # "absent"
        /\ units' = [units EXCEPT ![a] = Inserted(a, f, Current.protected)]
        /\ reserved' = [reserved EXCEPT ![f] = a]
        /\ unclear' = unclear \cup ({units[a].file} \ {f, NoFile})
        /\ Done

\* The file is reserved, or the unit has got another medium.
InsertRefused ==
    /\ Executing("INSERT")
    /\ MayInsert(Current) => ~CanReserve(InsertFile(Current))
    /\ Fail
    /\ UNCHANGED <<units, reserved, unclear>>

\* The file cannot be opened; the unit keeps its name. If it is only the cache that
\* cannot be initialized, the flags have already been set.
InsertFails ==
    LET a == Current.address
        f == InsertFile(Current)
    IN  /\ Executing("INSERT")
        /\ MayInsert(Current)
        /\ CanReserve(f)
        /\ \E flags \in {units[a].flags} \cup
                        (IF images[f] = "absent" THEN {} ELSE {Validated(units[a].flags, f)}) :
            units' = [units EXCEPT ![a].file = f, ![a].flags = flags]
        /\ unclear' = unclear \cup ({units[a].file, f} \ {NoFile})
        /\ Fail
        /\ UNCHANGED reserved

\* RemoveDevice() and, for the last LUN, DeleteController()
Detach ==
    /\ Executing("DETACH")
    /\ units[Current.address] # NoUnit
    /\ MayDetach(Current)
    /\ reserved' = Released(units[Current.address].file)
    /\ units' = [units EXCEPT ![Current.address] = NoUnit]
    /\ Done
    /\ UNCHANGED unclear

DetachFails ==
    /\ Executing("DETACH")
    /\ units[Current.address] = NoUnit \/ ~MayDetach(Current)
    /\ Fail
    /\ UNCHANGED <<units, reserved, unclear>>

\* With nothing to eject there is only a warning.
EjectForced ==
    /\ Executing("EJECT")
    /\ IF CanEject(Current.address) THEN Eject(Current.address)
       ELSE UNCHANGED <<units, reserved>>
    /\ Done
    /\ UNCHANGED unclear

\* Protect(), Unprotect() and Stop()
ChangeFlags ==
    LET flags == units[Current.address].flags
    IN  /\ \E op \in {"PROTECT", "UNPROTECT", "STOP"} : Executing(op)
        /\ units' = [units EXCEPT ![Current.address].flags =
                        IF command.op = "STOP" THEN flags \ {"ready"}
                        ELSE Protecting(flags, command.op = "PROTECT")]
        /\ Done
        /\ UNCHANGED <<reserved, unclear>>

\* DeleteAllControllers() cleans up each unit.
DetachAll ==
    /\ ServiceIdle
    /\ units' = [a \in Addresses |-> NoUnit]
    /\ reserved' = [f \in Files |-> IF \E a \in Attached : units[a].file = f THEN Nobody
                                    ELSE reserved[f]]
    /\ UNCHANGED <<images, reservedIds, command, image, unclear>>

SetReservedIds(ids) ==
    /\ ServiceIdle
    /\ \A id \in ids : units[<<id, 0>>] = NoUnit
    /\ reservedIds' = ids
    /\ UNCHANGED <<units, reserved, images, command, image, unclear>>

DeviceCommand ==
    \/ \E r \in Requests : StartCommand(r)
    \/ Attach \/ AttachFails \/ Insert \/ InsertRefused \/ InsertFails
    \/ Detach \/ DetachFails \/ EjectForced \/ ChangeFlags
    \/ DetachAll
    \/ \E ids \in SUBSET Ids : SetReservedIds(ids)

-----------------------------------------------------------------------------
(* SCSI commands of an initiator                                           *)

\* The SCSI thread has the lock. That a medium change is reported first is left out.
Dispatch(a) == command = Idle /\ units[a] # NoUnit

\* StartStopUnit() with LOEJ: eject
EjectMedium(a) ==
    /\ Dispatch(a)
    /\ units[a].type \in ImageTypes
    /\ CanEject(a)
    /\ Eject(a)
    /\ UNCHANGED <<images, reservedIds, command, image, unclear>>

\* StartStopUnit() with LOEJ: load. The unit gets the name of the file ejected last
\* instead of the name it has, and tries to reserve that file, but does not open it.
LoadMedium(a) ==
    LET f == units[a].last
    IN  /\ Dispatch(a)
        /\ f # NoFile
        /\ units' = [units EXCEPT ![a].file = f]
        /\ reserved' = IF CanReserve(f) THEN [reserved EXCEPT ![f] = a] ELSE reserved
        /\ unclear' = unclear \cup ({units[a].file} \ {f, NoFile})
                              \cup (IF reserved'[f] = a THEN {} ELSE {f})
        /\ UNCHANGED <<images, reservedIds, command, image>>

ScsiCommand == \E a \in Addresses : EjectMedium(a) \/ LoadMedium(a)

-----------------------------------------------------------------------------
(* Image file commands: the checks, and later what they do to the files    *)

ImageOperations == {"DELETE", "RENAME", "COPY", "PROTECT", "UNPROTECT"}

\* Mutant: files in use can be deleted.
MayChangeMutant(op, f) == images[f] # "absent"

\* Exists, and is not reserved, unless its protection is removed
MayChange(op, f) ==
    /\ images[f] # "absent"
    /\ op = "UNPROTECT" \/ reserved[f] = Nobody

\* Without the dispatch lock
StartImageCommand(op, from, to) ==
    /\ ServiceIdle
    /\ MayChange(op, from)
    /\ op \in {"RENAME", "COPY"} => images[to] = "absent"
    /\ image' = [op |-> op, from |-> from, to |-> to]
    /\ UNCHANGED <<units, reserved, images, reservedIds, command, unclear>>

CreateImage(f, state) ==
    /\ ServiceIdle
    /\ images[f] = "absent"
    /\ images' = [images EXCEPT ![f] = state]
    /\ UNCHANGED <<units, reserved, reservedIds, command, image, unclear>>

\* What is left of the files
Changed(op, from, to, state) ==
    CASE op = "DELETE" -> [images EXCEPT ![from] = "absent"]
      [] op = "RENAME" -> [images EXCEPT ![from] = "absent", ![to] = images[from]]
      [] op = "COPY" -> [images EXCEPT ![to] = state]
      [] op = "PROTECT" -> [images EXCEPT ![from] = "read-only"]
      [] op = "UNPROTECT" -> [images EXCEPT ![from] = "writable"]

ExecuteImageCommand ==
    /\ image # Idle
    /\ \/ \E state \in {"writable", "read-only"} :
            images' = Changed(image.op, image.from, image.to, state)
       \/ UNCHANGED images
    /\ image' = Idle
    /\ UNCHANGED <<units, reserved, reservedIds, command, unclear>>

ImageCommand ==
    \/ \E op \in ImageOperations, from, to \in Files : StartImageCommand(op, from, to)
    \/ \E f \in Files, state \in {"writable", "read-only"} : CreateImage(f, state)
    \/ ExecuteImageCommand

FilesNext == DeviceCommand \/ ScsiCommand \/ ImageCommand

FilesSpec == FilesInit /\ [][FilesNext]_fileVars

-----------------------------------------------------------------------------
\* The type invariant.
FilesTypeOK ==
    /\ units \in [Addresses -> Units \cup {NoUnit}]
    /\ reserved \in [Files -> Addresses \cup {Nobody}]
    /\ images \in [Files -> {"absent", "writable", "read-only"}]
    /\ reservedIds \in SUBSET Ids
    /\ command = Idle \/ command \in Commands
    /\ image = Idle \/ image \in [op : ImageOperations, from : Files, to : Files]
    /\ unclear \in SUBSET Files

\* Each reservation is that of the unit which has the file, and each unit with a file
\* has reserved it and uses no other: as long as no INSERT of the file has failed, and
\* LOAD has not been refused for it or used while the unit has another medium.
ReservationsExact ==
    \A f \in Files \ unclear : \A a \in Addresses :
        /\ reserved[f] = a <=> (units[a] # NoUnit /\ units[a].file = f)
        /\ units[a] # NoUnit /\ units[a].open = f => units[a].file = f

\* Two units never use the same image file: they would destroy its contents, each
\* with its own cache. This holds for the files that are not unclear.
NoSharedImage ==
    \A f \in Files \ unclear : \A a, b \in Attached :
        units[a].open = f /\ units[b].open = f => a = b

\* Whatever is attached or detached, in whatever order and with whatever failures,
\* each target has a LUN 0, a reserved ID has no devices, there is at most one network
\* adapter, and what is ready has a medium unless its cache could not be set up.
DeviceListConsistent ==
    /\ \A a \in Attached : units[Lun0(a)] # NoUnit
    /\ \A a \in Attached : a[1] \notin reservedIds
    /\ \A a, b \in Attached : units[a].type = "SCDP" /\ units[b].type = "SCDP" => a = b
    /\ \A a \in Attached : units[a].type \in ImageTypes =>
        /\ Has(a, "ready") => ~Has(a, "removed") /\ units[a].file # NoFile
        /\ units[a].type \notin RemovableTypes => units[a].open # NoFile

\* What a ready unit uses stays in the image folder.
KeepsReadyMedia ==
    \A a \in Attached : \A f \in Files \ unclear :
        Has(a, "ready") /\ units[a].open = f => images'[f] # "absent"

\* The commands for image files neither delete nor rename the file of a ready unit,
\* although they check without the lock whether it is used.
ReadyMediumKept == [][KeepsReadyMedia]_fileVars
=============================================================================
