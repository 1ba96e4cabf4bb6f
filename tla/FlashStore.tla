----------------------------- MODULE FlashStore -----------------------------
(***************************************************************************)
(* The FlashStore application over the file areas of its card slots, an     *)
(* entry at a time: saving RAM files to a card, copying a card to another   *)
(* one, restoring and fetching files to RAM and marking files as deleted.   *)
(* A file is saved by writing a new entry first and marking the old one,    *)
(* remembered in flentry, as deleted afterwards; anything can go wrong in   *)
(* between.                                                                 *)
(*                                                                          *)
(* kept is a history variable: the entry that was last written completely   *)
(* for each name, 0 when there is none or the user deleted it.  No action   *)
(* reads it.                                                                *)
(***************************************************************************)
EXTENDS Naturals, Sequences

CONSTANTS
    Names,           \* file names without the device
    Contents,        \* what the user puts in RAM files
    Torn,            \* what is read from an entry with an incomplete image
    NoFile,          \* no such RAM file
    Slots,           \* card slots with a file area
    ZeroSlots,       \* those whose first file entry is at bank 0, offset 0
    Capacity,        \* slot -> bytes of the area below the header
    EntrySize(_, _), \* bytes of an entry, header and image
    Faults,          \* what can go wrong: see FaultKinds
    ViewDeleted      \* does the user work on deleted files in the file window?

FaultKinds == {"header", "image", "delete", "ram", "reset"}
Images == Contents \union {Torn}

ASSUME StoreAssumption ==
    /\ Torn \notin Contents /\ NoFile \notin Images
    /\ ZeroSlots \subseteq Slots
    /\ Capacity \in [Slots -> Nat]
    /\ \A n \in Names, d \in Images : EntrySize(n, d) \in Nat \ {0}
    /\ Faults \subseteq FaultKinds
    /\ ViewDeleted \in BOOLEAN

VARIABLES
    log,      \* slot -> its file entries, bottom first
    free,     \* slot -> its free bytes
    ram,      \* name -> content of the RAM file
    job,      \* the command that runs
    kept      \* history: see above

vars == <<log, free, ram, job, kept>>

Entry == [name : Names, data : Images, done : BOOLEAN, live : BOOLEAN]

\* flentry holds a pointer, and 0 stands for <None>.
None == [slot |-> "none", at |-> 0]
Pointer == {None} \union [slot : Slots, at : Nat \ {0}]

\* The running command: slot is the one written to, or restored from; a copy
\* reads from the slot "from".  at walks along the entries, todo holds the names
\* still to save, file name and image of the file at hand.  flentry is the entry
\* of that name that was found, to be deleted when the new one is written.  What
\* a command leaves in it is not kept: the next one calls FindFile first.
Jobs ==
    [cmd : {"save", "copy", "quickcopy", "restore"},
     pc : {"next", "find", "prompt", "write", "image", "mark", "failed", "replace", "lost"},
     slot : Slots, from : Slots, at : Nat, todo : SUBSET Names,
     file : {<<>>} \union (Names \X Images), flentry : Pointer, overwrite : BOOLEAN]
NoJob == [pc |-> "idle"]

TypeOK ==
    /\ log \in [Slots -> Seq(Entry)]
    /\ free \in [Slots -> Nat]
    /\ ram \in [Names -> Images \union {NoFile}]
    /\ job \in Jobs \union {NoJob}
    /\ kept \in [Slots -> [Names -> Nat]]

Init ==
    /\ log = [s \in Slots |-> <<>>]
    /\ free = Capacity
    /\ ram = [n \in Names |-> NoFile]
    /\ job = NoJob
    /\ kept = [s \in Slots |-> [n \in Names |-> 0]]

----------------------------------------------------------------------------
Image(e) == IF e.done THEN e.data ELSE Torn

\* FileEprFindFile: the first active entry of that name, 0 if there is none.
Hits(entries, n) == {i \in DOMAIN entries : entries[i].name = n /\ entries[i].live}

Find(entries, n) ==
    IF Hits(entries, n) = {} THEN 0
    ELSE CHOOSE i \in Hits(entries, n) : \A k \in Hits(entries, n) : i <= k

\* The pointer to entry i of slot s as the three bytes of flentry hold it: the
\* first entry in bank 0 cannot be told from <None>.
PointerTo(s, i) == IF s \in ZeroSlots /\ i = 1 THEN None ELSE [slot |-> s, at |-> i]

Erase(s, i) == log' = [log EXCEPT ![s][i].live = FALSE]

\* FlashEprFileDelete: the flag is cleared, or the byte cannot be blown.
DeletesEntry(s, i) == Erase(s, i) \/ ("delete" \in Faults /\ UNCHANGED log)

Goto(pc) == job' = [job EXCEPT !.pc = pc]
Done == job' = NoJob

\* The loop of a command goes on to the next file.
NextFile ==
    \/ job.cmd = "save" /\ job' = [job EXCEPT !.pc = "next", !.file = <<>>]
    \/ job.cmd = "copy" /\ job' = [job EXCEPT !.pc = "next", !.file = <<>>, !.at = @ + 1]
    \/ job.cmd = "restore" /\ job' = [job EXCEPT !.at = @ - 1]
    \/ job.cmd = "quickcopy" /\ Done

Idle == job.pc = "idle"
At(cmd, pc) == job.pc = pc /\ job.cmd = cmd
Card == <<log, free, kept>>
Name == job.file[1]
Size == EntrySize(Name, job.file[2])

----------------------------------------------------------------------------
\* Between commands the user works on the RAM files.
EditRam(n, d) ==
    /\ Idle
    /\ ram' = [ram EXCEPT ![n] = d]
    /\ UNCHANGED <<Card, job>>

Start(cmd, from, to, at, names, overwrite) ==
    /\ Idle
    /\ job' = [cmd |-> cmd, pc |-> "next", slot |-> to, from |-> from, at |-> at,
               todo |-> names, file |-> <<>>, flentry |-> None, overwrite |-> overwrite]
    /\ UNCHANGED <<Card, ram>>

\* SaveFilesCommand, BackupRamCommand: the wildcard is expanded to file names
\* one by one, in whatever order the directory has them.
StartSave(s, names, overwrite) ==
    /\ names # {} /\ \A n \in names : ram[n] # NoFile
    /\ Start("save", s, s, 0, names, overwrite)

\* Slip: the wildcard is opened anew for every file.
SaveNextFromFirst ==
    /\ At("save", "next")
    /\ \/ \E n \in job.todo : job' = [job EXCEPT !.pc = "find", !.file = <<n, ram[n]>>]
       \/ job.todo = {} /\ Done
    /\ UNCHANGED <<Card, ram>>

SaveNext ==
    /\ At("save", "next")
    /\ \/ \E n \in job.todo :
              job' = [job EXCEPT !.pc = "find", !.todo = @ \ {n},
                                      !.file = <<n, ram[n]>>]
       \/ job.todo = {} /\ Done
    /\ UNCHANGED <<Card, ram>>

\* Slip: the loop is entered at the call of FileEprNextFile.
StartCopyAtSecond(s, t, overwrite) ==
    /\ s # t
    /\ \E i \in DOMAIN log[s] : log[s][i].live
    /\ Start("copy", s, t, 2, {}, overwrite)

\* CopyFileAreaCommand: the entries of the current slot are copied from the
\* first to the last, to another slot.
StartCopy(s, t, overwrite) ==
    /\ s # t
    /\ \E i \in DOMAIN log[s] : log[s][i].live
    /\ Start("copy", s, t, 1, {}, overwrite)

CopyNext ==
    /\ At("copy", "next")
    /\ IF job.at > Len(log[job.from]) THEN Done
       ELSE LET e == log[job.from][job.at]
            IN  IF e.live
                THEN job' = [job EXCEPT !.pc = "find", !.file = <<e.name, Image(e)>>]
                ELSE NextFile
    /\ UNCHANGED <<Card, ram>>

\* QuickCopyFileCommand: one entry that is picked in the file window.
QuickCopyFile(s, t, i) ==
    /\ Idle /\ s # t
    /\ log[s][i].live \/ ViewDeleted
    /\ job' = [cmd |-> "quickcopy", pc |-> "find", slot |-> t, from |-> s, at |-> i,
               todo |-> {}, file |-> <<log[s][i].name, Image(log[s][i])>>,
               flentry |-> None, overwrite |-> FALSE]
    /\ UNCHANGED <<Card, ram>>

\* Slip: flentry is not preset to <None>.
FindFileNoPreset ==
    /\ job.pc = "find"
    /\ LET i == Find(log[job.slot], Name)
       IN  job' = [job EXCEPT !.flentry = IF i = 0 THEN @ ELSE PointerTo(job.slot, i),
                              !.pc = IF i = 0 \/ job.overwrite THEN "write" ELSE "prompt"]
    /\ UNCHANGED <<Card, ram>>

\* Slip: flentry is set before the result of the search is looked at.
FindFileUnchecked ==
    /\ job.pc = "find"
    /\ LET i == Find(log[job.slot], Name)
       IN  job' = [job EXCEPT !.flentry = PointerTo(job.slot, i),
                              !.pc = IF i = 0 \/ job.overwrite THEN "write" ELSE "prompt"]
    /\ UNCHANGED <<Card, ram>>

\* FindFile: flentry is cleared and set to the entry of the name, if there is
\* one.  It is written over when the user chose to overwrite all files.
FindFile ==
    /\ job.pc = "find"
    /\ LET i == Find(log[job.slot], Name)
       IN  job' = [job EXCEPT !.flentry = IF i = 0 THEN None ELSE PointerTo(job.slot, i),
                              !.pc = IF i = 0 \/ job.overwrite THEN "write" ELSE "prompt"]
    /\ UNCHANGED <<Card, ram>>

\* PromptOverWrFile and PromptOverWrFileEntry: Yes or No.  The latter, used in
\* copying, takes the wrong words from the stack when flentry is <None>, and
\* returns to wherever they lead.
Prompt ==
    /\ job.pc = "prompt"
    /\ IF job.cmd # "save" /\ job.flentry = None THEN Goto("lost")
       ELSE Goto("write") \/ NextFile
    /\ UNCHANGED <<Card, ram>>

\* The new entry is on the card as soon as its header is.
AppendEntry ==
    /\ Goto("image")
    /\ log' = [log EXCEPT ![job.slot] =
          Append(@, [name |-> Name, data |-> job.file[2], done |-> FALSE,
                     live |-> job.cmd = "quickcopy" => log[job.from][job.at].live])]
    /\ free' = [free EXCEPT ![job.slot] = @ - Size]

\* Slip: the free space is not looked at.
WriteHeaderNoCheck == job.pc = "write" /\ AppendEntry /\ UNCHANGED <<ram, kept>>

\* FlashEprSaveRamFile and FlashEprCopyFileEntry up to the end of the header.
\* A copy takes over the header as it is, with the mark of a deleted file.
\* Without room (RC_Room) the command ends.  When the first byte of the header
\* cannot be blown nothing is on the card (RC_BWR).
WriteHeader ==
    /\ job.pc = "write"
    /\ IF Size > free[job.slot] THEN Done /\ UNCHANGED <<log, free>> ELSE AppendEntry
    /\ UNCHANGED <<ram, kept>>

\* A save asks whether to try again, a copy ends with the error.
GiveUp == IF job.cmd = "save" THEN Goto("failed") ELSE Done

HeaderError ==
    /\ job.pc = "write" /\ "header" \in Faults
    /\ Size <= free[job.slot]
    /\ GiveUp
    /\ UNCHANGED <<Card, ram>>

\* The rest of the file is blown.
WriteImage ==
    /\ job.pc = "image"
    /\ log' = [log EXCEPT ![job.slot][Len(log[job.slot])].done = TRUE]
    /\ kept' = IF log[job.slot][Len(log[job.slot])].live
               THEN [kept EXCEPT ![job.slot][Name] = Len(log[job.slot])] ELSE kept
    /\ Goto("replace")
    /\ UNCHANGED <<free, ram>>

ImageError ==
    /\ job.pc = "image" /\ "image" \in Faults
    /\ Goto("mark")
    /\ UNCHANGED <<Card, ram>>

\* Slip: the error is returned without a jump to MarkDeleted.
MarkDeletedNot ==
    /\ job.pc = "mark"
    /\ GiveUp
    /\ UNCHANGED <<Card, ram>>

\* The new entry is marked as deleted, if possible.
MarkDeleted ==
    /\ job.pc = "mark"
    /\ DeletesEntry(job.slot, Len(log[job.slot]))
    /\ GiveUp
    /\ UNCHANGED <<free, ram, kept>>

\* After the error message SPACE tries the same file again.
Retry ==
    /\ At("save", "failed")
    /\ Goto("find")
    /\ UNCHANGED <<Card, ram>>

\* DeleteOldFile: a save does not look at the result, a copy ends when it fails.
DeleteOldFile ==
    /\ job.pc = "replace"
    /\ \/ /\ job.flentry = None /\ UNCHANGED log /\ NextFile
       \/ /\ job.flentry # None /\ Erase(job.flentry.slot, job.flentry.at) /\ NextFile
       \/ /\ job.flentry # None /\ "delete" \in Faults /\ UNCHANGED log
          /\ IF job.cmd = "save" THEN NextFile ELSE Done
    /\ UNCHANGED <<free, ram, kept>>

\* RestoreFilesCommand: from the last entry back to the first.
StartRestore(s, overwrite) ==
    /\ \E i \in DOMAIN log[s] : log[s][i].live
    /\ Start("restore", s, s, Len(log[s]), {}, overwrite)

\* Slip: the status of the entry is not looked at.
RestoreNextDeleted ==
    /\ At("restore", "next")
    /\ \/ job.at = 0 /\ Done /\ UNCHANGED ram
       \/ /\ job.at > 0
          /\ LET e == log[job.slot][job.at]
             IN  NextFile /\ ram' = [ram EXCEPT ![e.name] = Image(e)]
    /\ UNCHANGED Card

\* A RAM file that exists is written over, or the user is asked; a file that
\* cannot be created or filled is removed, and the command ends.
RestoreNext ==
    /\ At("restore", "next")
    /\ \/ job.at = 0 /\ Done /\ UNCHANGED ram
       \/ /\ job.at > 0
          /\ LET e == log[job.slot][job.at]
             IN  \/ ~e.live /\ NextFile /\ UNCHANGED ram
                 \/ e.live /\ ~job.overwrite /\ ram[e.name] # NoFile /\ NextFile /\ UNCHANGED ram
                 \/ e.live /\ NextFile /\ ram' = [ram EXCEPT ![e.name] = Image(e)]
                 \/ /\ e.live /\ "ram" \in Faults /\ Done
                    /\ ram' = [ram EXCEPT ![e.name] = NoFile]
    /\ UNCHANGED Card

\* ESC at a prompt, at an error message or between two files.
Abort ==
    /\ \/ job.pc \in {"find", "prompt", "failed"} /\ job.cmd = "save"
       \/ job.pc = "prompt" /\ job.cmd # "save" /\ job.flentry # None
       \/ job.pc = "next" /\ job.cmd # "save"
    /\ Done
    /\ UNCHANGED <<Card, ram>>

\* FetchFileCommand and QuickFetchFile: one file, found by its name or picked
\* in the file window, to a RAM file of any name; that file is removed when it
\* cannot be filled.
FetchFile(s, i, n) ==
    /\ Idle
    /\ log[s][i].live \/ ViewDeleted
    /\ \/ ram' = [ram EXCEPT ![n] = Image(log[s][i])]
       \/ "ram" \in Faults /\ ram' = [ram EXCEPT ![n] = NoFile]
    /\ UNCHANGED <<Card, job>>

\* DeleteFileCommand and QuickDeleteFile: the file that was searched for, or any
\* one in the file window.
DeleteFile(s, i) ==
    /\ Idle
    /\ log[s][i].live
    /\ \/ /\ Erase(s, i)
          /\ kept' = [kept EXCEPT ![s] = [n \in Names |-> IF @[n] = i THEN 0 ELSE @[n]]]
       \/ "delete" \in Faults /\ UNCHANGED <<log, kept>>
    /\ UNCHANGED <<free, ram, job>>

\* A soft reset, a flap that opens, or an application killed by OZ: the command
\* is gone and the RAM files stay.
Reset ==
    /\ ~Idle /\ "reset" \in Faults
    /\ Done
    /\ UNCHANGED <<Card, ram>>

----------------------------------------------------------------------------
\* What goes on by itself, with a user who answers prompts but never gives up.
Step ==
    \/ SaveNext
    \/ CopyNext
    \/ FindFile
    \/ Prompt
    \/ WriteHeader
    \/ HeaderError
    \/ WriteImage
    \/ ImageError
    \/ MarkDeleted
    \/ Retry
    \/ DeleteOldFile
    \/ RestoreNext

User ==
    \/ \E n \in Names, d \in Contents \union {NoFile} : EditRam(n, d)
    \/ \E s \in Slots, names \in SUBSET Names, o \in BOOLEAN : StartSave(s, names, o)
    \/ \E s, t \in Slots, o \in BOOLEAN : StartCopy(s, t, o)
    \/ \E s \in Slots, o \in BOOLEAN : StartRestore(s, o)
    \/ \E s, t \in Slots : \E i \in DOMAIN log[s] : QuickCopyFile(s, t, i)
    \/ \E s \in Slots, n \in Names : \E i \in DOMAIN log[s] : FetchFile(s, i, n)
    \/ \E s \in Slots : \E i \in DOMAIN log[s] : DeleteFile(s, i)
    \/ Abort
    \/ Reset

Next == Step \/ User

Spec == Init /\ [][Next]_vars
FairSpec == Spec /\ WF_vars(Step)

----------------------------------------------------------------------------
\* The file that was last written completely under a name stays on the card,
\* active and complete, until the user deletes it: a failed write, a failed
\* deletion, a retry, a reset between any two steps or a stale flentry never
\* cost it.
LatestKept ==
    \A s \in Slots, n \in Names : kept[s][n] # 0 =>
        /\ kept[s][n] \in DOMAIN log[s]
        /\ log[s][kept[s][n]].name = n
        /\ log[s][kept[s][n]].done /\ log[s][kept[s][n]].live

\* Between commands a search by name finds the file that was last written
\* completely under it (flash.txt: "When you save the same file again to the card,
\* the new file gets saved and the old file gets marked as deleted").
FindsNewest ==
    Idle => \A s \in Slots, n \in Names : Find(log[s], n) = kept[s][n]

\* A complete copy that overwrites all files leaves the newest file of every name
\* to be found on the other card.
CopyFaithful ==
    At("copy", "next") /\ job.at > Len(log[job.from]) /\ job.overwrite =>
        \A n \in Names : kept[job.from][n] # 0 =>
            LET i == Find(log[job.slot], n)
            IN  i # 0 /\ log[job.slot][i].data = log[job.from][kept[job.from][n]].data

\* A complete restore that overwrites all files brings the newest file of every
\* name to RAM, though entries are visited from the newest to the oldest.
RestoreFaithful ==
    At("restore", "next") /\ job.at = 0 /\ job.overwrite =>
        \A n \in Names : kept[job.slot][n] # 0 =>
            ram[n] = log[job.slot][kept[job.slot][n]].data

\* Every command comes to its end while images fail again and again: a retry
\* always takes space from the card, until there is no room.
CommandEnds == ~Idle ~> Idle

\* Each card, taken by itself, goes through steps of FileLog: whatever command
\* runs and whichever cards it involves, no step does to a card what a file area
\* does not allow (this is \A s \in Slots : Slot(s)!Spec).
Slot(s) == INSTANCE FileLog WITH
    Contents <- Images, Capacity <- Capacity[s],
    log <- log[s], free <- free[s], writing <- job.pc = "image" /\ job.slot = s

ImplementsLogs ==
    /\ \A s \in Slots : Slot(s)!Init
    /\ [][\A s \in Slots : Slot(s)!Next \/ UNCHANGED Slot(s)!vars]_vars
=============================================================================
