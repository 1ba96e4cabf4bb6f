------------------------------- MODULE FileLog -------------------------------
(***************************************************************************)
(* What a flash file area promises, whatever bytes hold it: a log of file   *)
(* entries that only grows.  An entry is appended when its header is on the *)
(* card, its image follows, and the one thing that can happen to it later   *)
(* is to be marked as deleted; space is only given back by formatting.      *)
(* This is the abstract specification: FileArea implements it in bytes, and *)
(* FlashStore relies on it for every card it writes to.                     *)
(***************************************************************************)
EXTENDS Naturals, Sequences

CONSTANTS
    Names,           \* file names without the device
    Contents,        \* file images
    Capacity,        \* bytes of the area below its header
    EntrySize(_, _)  \* bytes of an entry, header and image

VARIABLES
    log,      \* the entries, bottom first
    free,     \* bytes between the last entry and the header
    writing   \* the image of the last entry is being written

vars == <<log, free, writing>>

\* done: the whole image is on the card; live: not marked as deleted.
Entry == [name : Names, data : Contents, done : BOOLEAN, live : BOOLEAN]

TypeOK ==
    /\ log \in Seq(Entry)
    /\ free \in 0..Capacity
    /\ writing \in BOOLEAN

Init ==
    /\ log = <<>>
    /\ free \in 0..Capacity
    /\ writing = FALSE

\* The header of a new entry is complete.  A file without bytes is done then.
Create(n, d) ==
    /\ ~writing /\ writing' = TRUE
    /\ EntrySize(n, d) <= free
    /\ free' = free - EntrySize(n, d)
    /\ \E done \in BOOLEAN :
           log' = Append(log, [name |-> n, data |-> d, done |-> done, live |-> TRUE])

\* The last byte of the image is on the card; the writer may be through with it.
Complete ==
    /\ writing /\ writing' \in BOOLEAN
    /\ UNCHANGED free
    /\ log # <<>>
    /\ log' = [log EXCEPT ![Len(log)].done = TRUE]

\* The writer is through with the entry: finished, failed or reset.
Close ==
    /\ writing /\ writing' = FALSE
    /\ UNCHANGED <<log, free>>

MarkDeleted(i) ==
    /\ ~writing /\ UNCHANGED <<writing, free>>
    /\ i \in DOMAIN log
    /\ log' = [log EXCEPT ![i].live = FALSE]

Next ==
    \/ \E n \in Names, d \in Contents : Create(n, d)
    \/ Complete
    \/ Close
    \/ \E i \in DOMAIN log : MarkDeleted(i)

Spec == Init /\ [][Next]_vars

----------------------------------------------------------------------------
\* An entry keeps its place, its name and its image for as long as the area
\* is not formatted, and it never comes back once it is deleted.
Kept(old, new) ==
    /\ new.name = old.name /\ new.data = old.data
    /\ old.done => new.done
    /\ new.live => old.live

\* Whatever is saved, marked as deleted or interrupted, the entries already on
\* the card stay where they are with what they hold (FlashEprSaveRamFile only
\* blows free bytes, FlashEprFileDelete only the deletion flag).
EntriesKept ==
    [][ /\ Len(log') >= Len(log)
        /\ \A i \in DOMAIN log : Kept(log[i], log'[i]) ]_vars

\* Nobody goes back to an image that was left incomplete: an entry becomes
\* complete only while it is the last one and its writer is still at it.
TornStaysTorn ==
    [][ \A i \in DOMAIN log :
            ~log[i].done /\ log'[i].done => writing /\ i = Len(log) ]_vars

==============================================================================
