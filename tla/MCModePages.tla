---------------------------- MODULE MCModePages ----------------------------
(* ModePages with two initiators, some properties and parameter lists.     *)
EXTENDS ModePages

CONSTANTS i1, i2

InitiatorSymmetry == Permutations(Initiators)

Property(page, length) ==
    [page |-> page, matches |-> TRUE, hex |-> TRUE, code |-> page, says |-> PageSize(length), length |-> length]

\* None, pages that are added, removed and replaced, properties that are ignored, and pages that
\* are too long for MODE SENSE(6) or for the size field of a page
SomeDefinitions ==
    {<<>>,
     <<Property(33, 6), Property(8, 0), Property(7, 16)>>,
     <<Property(0, 5), [Property(9, 6) EXCEPT !.code = 8], [Property(9, 6) EXCEPT !.says = 6],
       [Property(9, 6) EXCEPT !.matches = FALSE], [Property(9, 6) EXCEPT !.hex = FALSE], Property(63, 6)>>,
     <<Property(33, 250)>>,
     <<Property(8, 258)>>}

Request(page) ==
    [page |-> page, dbd |-> FALSE, llbaa |-> FALSE, changeable |-> FALSE, subpage |-> FALSE, allocation |-> 255]

SomeRequests ==
    {Request(0), Request(1), Request(63), [Request(3) EXCEPT !.dbd = TRUE], [Request(32) EXCEPT !.dbd = TRUE],
     [Request(3) EXCEPT !.changeable = TRUE, !.llbaa = TRUE], [Request(3) EXCEPT !.allocation = 20],
     [Request(1) EXCEPT !.subpage = TRUE], [Request(8) EXCEPT !.allocation = 600]}

Page(code, length, s) == [code |-> code, length |-> length, size |-> s]

List(s, pages) == Given([descriptor |-> IF s = -1 THEN 0 ELSE 8, size |-> s, pages |-> pages])

SomeLists ==
    {List(s, <<>>) : s \in {-1, 0, 6, 1024, 66048}}
        \cup {List(s, <<Page(1, 12, 0), Page(3, 24, 1024)>>) : s \in {-1, 512, 1024}}
        \cup {List(1024, <<Page(c, 12, 0)>>) : c \in {0, 2, 9}}
        \cup {[List(1024, <<Page(3, 24, 1024)>>) EXCEPT !.length = n] : n \in {2, 8, 12, 13, 30}}
        \cup {List(-1, <<Page(1, 16, 0)>>), List(512, <<Page(7, 12, 0), Page(0, 9, 0), Page(3, 24, 2048)>>)}
=============================================================================
