------------------------------- MODULE MCDump -------------------------------
(* Dump with a small disk, all kinds of ranges, buffers and images, and    *)
(* with tapes and tape images whose blocks have several lengths.           *)
EXTENDS Dump

Disks(restore, drivers, images) ==
    [medium : {"disk"}, driver : drivers, restore : {restore}, sasi : BOOLEAN, start : {0, 2}, count : {0, 1, 3},
     retries : {0, 1}, buffer : {2, 3, 4, 6}, image : images, tape : {<<>>}]

Block(length, number) == Object("block", length, number)
Weak(length, number) == Object("weak", length, number)
Bad(length, number) == Object("bad", length, number)

TapesRead ==
    {<<>>, <<Filemark>>, <<Block(3, 1), Block(1, 2), Filemark, Block(2, 3)>>, <<Weak(1, 1), Block(3, 2), Weak(2, 3)>>,
     <<Block(2, 1), Bad(2, 2), Block(2, 3), Filemark>>, <<Bad(1, 1), Filemark, Filemark>>}

Images ==
    {<<>>, <<Block(3, 1), Filemark, BadMarker, Bad(2, 2), Filemark>>, <<Block(1, 1), Object("marker", 0, 0), Block(2, 2)>>,
     <<Filemark, Object("end", 0, 0), Block(1, 1)>>, <<Block(1, 1), Object("cut", 2, 2)>>}

OfTapes(restore, tapes) ==
    [medium : {"tape"}, driver : {"board"}, restore : {restore}, sasi : {FALSE}, start : {0}, count : {0},
     retries : {0}, buffer : {8}, image : {0}, tape : tapes]

AllJobs == Disks(FALSE, {"board", "sg"}, {3}) \cup Disks(TRUE, {"board", "sg"}, {1, 3, 4, 7})
    \cup OfTapes(FALSE, TapesRead) \cup OfTapes(TRUE, Images)

SgJobs == {j \in Disks(FALSE, {"sg"}, {3}) : ~j.sasi /\ j.buffer = 4}
=============================================================================
