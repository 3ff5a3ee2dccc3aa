---------------------------- MODULE MCImageFiles ----------------------------
(* ImageFiles with a choice of device commands, also with two definitions. *)
EXTENDS ImageFiles, TLC

Def(a, t, f, b) == [address |-> a, type |-> t, file |-> f, protected |-> b]

\* Whatever the command, only these fields matter for it.
AttachDefs == {Def(a, t, f, FALSE) : a \in Addresses, t \in Types, f \in Files \cup {NoFile}}
InsertDefs == {Def(a, CHOOSE t \in Types : TRUE, f, b) :
                a \in Addresses, f \in Files \cup {NoFile}, b \in BOOLEAN}
OtherDefs  == {Def(a, CHOOSE t \in Types : TRUE, NoFile, FALSE) : a \in Addresses}

Sequences12(S) == {<<d>> : d \in S} \cup {<<d, e>> : d, e \in S}

SomeRequests ==
    [op : {"ATTACH"}, devices : Sequences12(AttachDefs)]
        \cup [op : {"INSERT"}, devices : {<<d>> : d \in InsertDefs}]
        \cup [op : {"DETACH"}, devices : Sequences12(OtherDefs)]
        \cup [op : Operations \ {"ATTACH", "INSERT", "DETACH"}, devices : {<<d>> : d \in OtherDefs}]

\* With no file left of which anything can be said the exploration ends.
Bound == unclear # Files

FileSymmetry == Permutations(Files)
=============================================================================
