----------------------------- MODULE BlockStore -----------------------------
(***************************************************************************)
(* What a disk cache promises: the sectors are a plain array.  A read      *)
(* returns what was written last; an access that fails changes nothing;    *)
(* the image file receives the sectors' own, current content and nothing   *)
(* else, at any time; after a successful flush it has all of it; and a     *)
(* restart of the program goes on with what the file has.                  *)
(***************************************************************************)
CONSTANTS Sectors, Values, Failed, Flushed, Nobody

VARIABLES
    content,   \* what an initiator has written and can read
    stored,    \* what the image file has
    answer     \* the result of the last call, and the sector it was for

storeVars == <<content, stored, answer>>

StoreInit ==
    /\ content \in [Sectors -> Values]
    /\ stored = content
    /\ answer = [sector |-> Nobody, value |-> Flushed]

\* Sectors may be written to the file by any call.
Persist == \A s \in Sectors : stored'[s] \in {stored[s], content[s]}

Read(s) ==
    /\ answer' = [sector |-> s, value |-> content[s]]
    /\ UNCHANGED content

Write(s, v) ==
    /\ answer' = [sector |-> s, value |-> v]
    /\ content' = [content EXCEPT ![s] = v]

Fail(s) ==
    /\ answer' = [sector |-> s, value |-> Failed]
    /\ UNCHANGED content

Flush ==
    /\ stored' = content
    /\ answer' = [sector |-> Nobody, value |-> Flushed]
    /\ UNCHANGED content

FailFlush == Fail(Nobody)

Restart ==
    /\ content' = stored'
    /\ answer' = [sector |-> Nobody, value |-> Flushed]

StoreNext ==
    /\ stored' \in [Sectors -> Values]
    /\ Persist
    /\ \/ \E s \in Sectors : Read(s) \/ (\E v \in Values : Write(s, v)) \/ Fail(s)
       \/ Flush
       \/ FailFlush
       \/ Restart

StoreSpec == StoreInit /\ [][StoreNext]_storeVars
=============================================================================
