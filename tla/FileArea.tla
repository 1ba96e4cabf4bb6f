------------------------------- MODULE FileArea ------------------------------
(***************************************************************************)
(* One flash file area while stdlib saves and deletes files in it, a byte   *)
(* at a time: FlashEprSaveRamFile, FlashEprFileDelete and the programming   *)
(* of flash under them.  Programming can only clear bits; it can fail       *)
(* (RC_BWR), and the machine can be reset, before any byte.                 *)
(*                                                                          *)
(* intent is a history variable: name and image of each entry whose header  *)
(* was written completely.  No action reads it.                             *)
(***************************************************************************)
EXTENDS FileChain

CONSTANTS
    Names,        \* names as the bytes that go to the card, "/" first
    Contents,     \* images as sequences of bytes
    MaxFaults,    \* bound on failed bytes and resets in a behaviour
    HeaderFaults, \* may a fault strike inside the header of an entry?
    BitAnd(_, _)  \* the bits that two bytes have in common

ASSUME AreaAssumption ==
    /\ \A n \in Names : n \in Seq(Byte) /\ Len(n) \in 2..(FF - 1) /\ n[1] = Slash
    /\ \A d \in Contents : d \in Seq(Byte)
    /\ MaxFaults \in Nat /\ HeaderFaults \in BOOLEAN
    /\ Cap >= 6    \* there is room for a NULL file

ASSUME BitAssumption ==
    \A b \in Byte : /\ \A c \in Byte : BitAnd(c, b) \in Byte
                    /\ BitAnd(FF, b) = b /\ BitAnd(b, FF) = b
                    /\ BitAnd(0, b) = 0 /\ BitAnd(b, 0) = 0

VARIABLES
    card,    \* offset -> byte, for the bytes below the header
    op,      \* the routine that is running
    faults,  \* faults so far
    intent   \* history: see above

vars == <<card, op, faults, intent>>

Idle == [pc |-> "idle", entry |-> 0, at |-> 0, todo |-> <<>>, file |-> <<>>]

\* Save: pc = "blow", entry is the pointer of the new file entry, at the next
\* byte to blow, todo what is left to blow and file name and image.  A save
\* that failed has pc = "mark".
Ops ==
    [pc : {"idle", "blow", "mark"}, entry : 0..CardSpan, at : 0..CardSpan,
     todo : Seq(Byte), file : {<<>>} \union (Names \X Contents)]

TypeOK ==
    /\ card \in [0..(Cap - 1) -> Byte]
    /\ op \in Ops
    /\ faults \in 0..MaxFaults
    /\ intent \in Seq(Names \X Contents)

----------------------------------------------------------------------------
\* Slip: one byte more than the image.
SizeFieldOffByOne(s) ==
    <<(s + 1) % Digit, ((s + 1) \div Digit) % Digit, ((s + 1) \div (Digit * Digit)) % Digit, 0>>

\* A 32 bit size, low byte first.
SizeField(s) ==
    <<s % Digit, (s \div Digit) % Digit, (s \div (Digit * Digit)) % Digit, 0>>

\* Slip: the length byte still counts the ":RAM.x" before the name.
EntryHeaderWithDevice(n, d) == <<Len(n) + 6>> \o n \o SizeField(Len(d))

\* Slip: the size goes to the card high byte first.
EntryHeaderHighFirst(n, d) == <<Len(n)>> \o n \o Reverse(SizeField(Len(d)))

\* The File Entry Header that is built in RAM.
EntryHeader(n, d) == <<Len(n)>> \o n \o SizeField(Len(d))

\* Slip: the header is forgotten when the file is compared with the space.
EntrySizeImageOnly(n, d) == Len(d)

\* Bytes a file will take in the area.
EntrySize(n, d) == Len(n) + 4 + 1 + Len(d)

\* Blowing byte b on cell c leaves the bits that both have set.
Blown(c, b) == BitAnd(c, b)

\* What a failed attempt to blow b on c may leave: some of the bits cleared.
Misblown(c, b) == {r \in Byte : Blown(c, r) = r /\ Blown(r, b) = b /\ (r # b \/ b = c)}

\* The NULL file that formatting leaves on an Intel card.
NullFile == <<1, 0, 0, 0, 0, 0>>

FreshCard(null) ==
    [p \in 0..(Cap - 1) |-> IF null /\ p < Len(NullFile) THEN NullFile[p + 1] ELSE FF]

Init ==
    /\ \E null \in BOOLEAN : card = FreshCard(null)
    /\ op = Idle
    /\ faults = 0
    /\ intent = <<>>

\* Bytes of the header that are not on the card yet.
HeaderLeft == Len(op.todo) > Len(op.file[2])

MayFail == faults < MaxFaults /\ (HeaderFaults \/ ~HeaderLeft)

----------------------------------------------------------------------------
\* FlashEprSaveRamFile up to the first byte: the free space is compared with
\* the size of the entry; RC_Room ends the call without a change.
SaveRamFile(n, d) ==
    /\ op.pc = "idle"
    /\ ScanReturns(card)
    /\ EntrySize(n, d) <= FreeSpace(card)
    /\ op' = [pc |-> "blow", entry |-> AllocFilePtr(card), at |-> AllocFilePtr(card),
              todo |-> EntryHeader(n, d) \o d, file |-> <<n, d>>]
    /\ UNCHANGED <<card, faults, intent>>

\* FlashEprWriteBlock: the next byte is blown, read back and found right.
\* Outside the area it is lost on a ROM, and the read back fails.
BlowByte ==
    /\ op.pc = "blow" /\ op.todo # <<>>
    /\ op.at < Cap
    /\ Blown(card[op.at], Head(op.todo)) = Head(op.todo)
    /\ card' = [card EXCEPT ![op.at] = Head(op.todo)]
    /\ op' = [op EXCEPT !.at = @ + 1, !.todo = Tail(@)]
    /\ intent' = IF Len(op.todo) = Len(op.file[2]) + 1
                 THEN Append(intent, op.file) ELSE intent
    /\ UNCHANGED faults

\* RC_BWR: the byte could not become what it should be, or the chip reports a
\* programming error.  SaveFileEntry and save_file_loop then go on to mark the
\* new entry as deleted.
BlowError ==
    /\ op.pc = "blow" /\ op.todo # <<>>
    /\ IF op.at < Cap /\ Blown(card[op.at], Head(op.todo)) = Head(op.todo)
       THEN /\ MayFail /\ faults' = faults + 1
            /\ \E r \in Misblown(card[op.at], Head(op.todo)) :
                   card' = [card EXCEPT ![op.at] = r]
       ELSE /\ UNCHANGED faults
            /\ card' = IF op.at < Cap
                       THEN [card EXCEPT ![op.at] = Blown(@, Head(op.todo))] ELSE card
    /\ op' = [op EXCEPT !.pc = "mark"]
    /\ UNCHANGED intent

\* LoadBuffer meets the end of the RAM file: Fc = 0.
SaveDone ==
    /\ op.pc = "blow" /\ op.todo = <<>>
    /\ op' = Idle
    /\ UNCHANGED <<card, faults, intent>>

\* FlashEprFileDelete of the entry at p blows a 0 on the first character of
\* its name; RC_Onf without a change when FileEprFileStatus finds no entry.
BlowDeleted(p) ==
    IF AtEnd(card, p) \/ p + 1 >= Cap THEN UNCHANGED <<card, faults>>
    ELSE \/ card' = [card EXCEPT ![p + 1] = Blown(@, 0)] /\ UNCHANGED faults
         \/ /\ faults < MaxFaults /\ faults' = faults + 1
            /\ \E r \in Misblown(card[p + 1], 0) : card' = [card EXCEPT ![p + 1] = r]

\* MarkDeleted, after a write error; its own failure is not looked at.
MarkDeleted ==
    /\ op.pc = "mark"
    /\ BlowDeleted(op.entry)
    /\ op' = Idle
    /\ UNCHANGED intent

\* FlashEprFileDelete of an entry that the application found.
FileDelete(p) ==
    /\ op.pc = "idle"
    /\ ~Deleted(card, p)
    /\ BlowDeleted(p)
    /\ UNCHANGED <<op, intent>>

\* A reset, or the batteries give out: RAM is lost, the card is not.
Reset ==
    /\ op.pc # "idle" /\ faults < MaxFaults
    /\ op.pc = "blow" => HeaderFaults \/ ~HeaderLeft \/ op.at = op.entry
    /\ op' = Idle
    /\ faults' = faults + 1
    /\ UNCHANGED <<card, intent>>

Next ==
    \/ \E n \in Names, d \in Contents : SaveRamFile(n, d)
    \/ BlowByte
    \/ BlowError
    \/ SaveDone
    \/ MarkDeleted
    \/ \E p \in Range(Entries(card)) : FileDelete(p)
    \/ Reset

Spec == Init /\ [][Next]_vars

----------------------------------------------------------------------------
\* The pointers of the entries of intent, after the NULL file of the chain, and
\* the pointer that follows them.
Pointers ==
    LET first == IF NameLength(card, 0) = 1 THEN 2 ELSE 1
    IN  SubSeq(Trail(card), first, first + Len(intent))

ImageOnCard(p, size) == [k \in 1..size |-> ReadByte(card, FileImage(card, p) + k - 1)]

LogOf ==
    LET ptr == Pointers
    IN  [i \in DOMAIN intent |->
            [name |-> intent[i][1], data |-> intent[i][2],
             done |-> ImageOnCard(ptr[i], Len(intent[i][2])) = intent[i][2],
             live |-> ~Deleted(card, ptr[i])]]

\* FileArea implements FileLog: every byte blown, failed or not, and every
\* reset is a step of the log or changes nothing in it.
Log == INSTANCE FileLog WITH
    Capacity <- Cap, log <- LogOf, free <- Cap - Last(Pointers),
    writing <- op.pc = "blow" /\ ~HeaderLeft

ImplementsLog == Log!Spec

\* A save programs erased bytes below the header and no others: an entry that
\* is on the card is never written over, and the header never is, down to the
\* file that fills the area to its last byte.
BlowsFreeByte ==
    op.pc = "blow" /\ op.todo # <<>> => op.at < Cap /\ card[op.at] = FF

\* Between operations FileEprAllocFilePtr returns, and it returns the first
\* byte of free space: all bytes from there to the header are erased, also
\* after saves that failed or were cut off in an image.
FreeIsErased ==
    op.pc = "idle" =>
        /\ ScanReturns(card)
        /\ \A p \in AllocFilePtr(card)..(Cap - 1) : card[p] = FF

\* What FileEprFreeSpace reports is what lies above the pointer that
\* FileEprAllocFilePtr returns, and with active and deleted space it makes up
\* the whole area: no byte is lost or counted twice by 24 and 32 bit sums.
SpaceAccounted ==
    op.pc = "idle" =>
        /\ FreeSpace(card) = Cap - AllocFilePtr(card)
        /\ ActiveSpace(card) + DeletedSpace(card) + FreeSpace(card) = Cap

\* FileEprCntFiles: active and deleted files together are the files in the area,
\* without the NULL file, and without deleted files of no bytes, which look like it;
\* torn entries and those half marked are counted, once.
CountsFiles ==
    op.pc = "idle" =>
        LET forgotten == {i \in DOMAIN intent : LogOf[i].data = <<>> /\ ~LogOf[i].live}
        IN  CntFiles(card).active + CntFiles(card).deleted + Cardinality(forgotten)
                = Len(intent)

\* What the library reports of an area, in bytes and in files, is what is in it.
ReportsTrue == SpaceAccounted /\ CountsFiles

\* FileEprFindFile returns the oldest entry of the name that is not deleted:
\* also when files share their name or image, were half deleted, or when the
\* area starts with the NULL file.
FindsOldestLive ==
    op.pc = "idle" => \A n \in Names :
        LET ptr == Pointers
            hits == {i \in DOMAIN intent :
                        intent[i][1] = n /\ card[ptr[i] + 1] = Slash}
        IN  FindFile(card, n) = IF hits = {} THEN NoEntry ELSE ptr[Min(hits)]

\* Walking back from FileEprLastFile with FileEprPrevFile, as restoring and
\* browsing do, meets every file that is not deleted, and meets the files in
\* the opposite order of the chain.
BackwardWalk ==
    LET walk[k \in 0..Len(intent)] ==
            [p \in 0..CardSpan |->
                IF k = 0 \/ p = NoEntry THEN <<>> ELSE <<p>> \o walk[k - 1][PrevFile(card, p)]]
    IN  walk[Len(intent)][LastFile(card)]

WalkMeetsAllLive ==
    op.pc = "idle" =>
        LET seen == BackwardWalk
        IN  /\ \A p \in Range(Front(Pointers)) : ~Deleted(card, p) => p \in Range(seen)
            /\ \A j, k \in DOMAIN seen : j < k => seen[j] > seen[k]
==============================================================================
