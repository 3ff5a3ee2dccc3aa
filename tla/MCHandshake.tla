---------------------------- MODULE MCHandshake -----------------------------
(* Handshake with a few commands of each direction.                        *)
EXTENDS Handshake

Read(length, chunk, size, ok) ==
    [op |-> "DATA_IN", length |-> length, chunk |-> chunk, size |-> size, ok |-> ok]
Write(length, chunk, size, ok) ==
    [op |-> "DATA_OUT", length |-> length, chunk |-> chunk, size |-> size, ok |-> ok]

\* Several chunks, failing devices, a buffer that is too small and one that is too large
SomeCommands ==
    {Read(3, 2, 3, TRUE), Read(2, 1, 1, FALSE), Read(1, 1, 2, FALSE), Write(2, 1, 2, FALSE),
     [op |-> "STATUS", length |-> 0, chunk |-> 1, size |-> 0, ok |-> TRUE]}
=============================================================================
