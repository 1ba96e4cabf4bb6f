------------------------------ MODULE FileChain ------------------------------
(***************************************************************************)
(* The chain of file entries in the file area of a card, as the stdlib      *)
(* routines FileEpr* read it byte by byte.                                  *)
(*                                                                          *)
(* A file area is a run of bytes, filled upwards from its bottom bank and   *)
(* closed by the "oz" header, whose first byte is 0.  A file entry is       *)
(*     length of name | name (first character 0 = deleted) | size | image   *)
(* with a size of four bytes, low byte first, of which the routines read    *)
(* three.  There is no directory: every routine walks the chain from the    *)
(* bottom until it meets an erased byte or the header.                      *)
(*                                                                          *)
(* m is the contents of the area, offset -> byte.  Pointers are offsets     *)
(* from the bottom of the card's address space, which is where a file area  *)
(* begins; the operators of this module have no state.                      *)
(***************************************************************************)
EXTENDS Naturals, Sequences, FiniteSets, SequencesExt, FiniteSetsExt

CONSTANTS
    FF,        \* an erased flash byte: all bits set ($FF)
    Cap,       \* offset of the area's header = bytes available to files
    CardSpan,  \* address space of a slot in bytes (64 banks of 16K)
    Slash      \* the first character of the name of an active file

Digit == FF + 1
Byte == 0..FF

ASSUME ChainAssumption ==
    /\ FF \in Nat \ {0} /\ Slash \in 1..(FF - 1)
    /\ Cap \in Nat \ {0} /\ CardSpan \in Nat /\ Cap < CardSpan
    /\ (Digit * Digit * Digit) % CardSpan = 0

NoEntry == CardSpan     \* no pointer is CardSpan: RC_Onf, Fc = 1

----------------------------------------------------------------------------
\* One byte at BHL.  From the header up the card holds application code: the
\* model reads 0 there, the value of the header's first byte.
ReadByte(m, p) == IF p < Cap THEN m[p] ELSE 0

\* BHL advanced by a distance inside the slot.
AddPointerDistance(p, d) == (p + d) % CardSpan

\* FileEprFileEntryInfo, FileEprFileStatus: no entry at p.
AtEnd(m, p) == ReadByte(m, p) \in {0, FF}

NameLength(m, p) == ReadByte(m, p)

Deleted(m, p) == ReadByte(m, AddPointerDistance(p, 1)) = 0

\* The three bytes of the size field that are read, low byte first.
FileSize(m, p) ==
    LET at(k) == ReadByte(m, AddPointerDistance(p, 1 + NameLength(m, p) + k))
    IN  at(0) + Digit * at(1) + Digit * Digit * at(2)

\* FileEprFileImage: the first byte of the image.
FileImage(m, p) == AddPointerDistance(p, 1 + NameLength(m, p) + 4)

NextEntry(m, p) == AddPointerDistance(FileImage(m, p), FileSize(m, p))

\* Bytes of an entry, header and image.
EntrySpace(m, p) == NameLength(m, p) + 4 + 1 + FileSize(m, p)

----------------------------------------------------------------------------
\* The pointers a scan from the bottom visits.  A scan that has not met an
\* end after as many steps as there are addresses visits some address twice
\* and never returns.
Trail(m) ==
    LET walk[k \in 0..CardSpan] ==
            [p \in 0..(CardSpan - 1) |->
                IF k = 0 \/ AtEnd(m, p) THEN <<p>> ELSE <<p>> \o walk[k - 1][NextEntry(m, p)]]
    IN  walk[CardSpan][0]

ScanReturns(m) == AtEnd(m, Last(Trail(m)))

\* Pointers to the entries of the chain, bottom first.
Entries(m) == Front(Trail(m))

\* FileEprAllocFilePtr: the pointer of the next entry to be created.
AllocFilePtr(m) == IF ScanReturns(m) THEN Last(Trail(m)) ELSE NoEntry

\* FileEprTotalSpace: 24 bit sums of active and of deleted entries.
SpaceOf(m, del) ==
    LET chosen == {p \in Range(Entries(m)) : Deleted(m, p) = del}
    IN  MapThenSumSet(LAMBDA p : EntrySpace(m, p), chosen) % (Digit * Digit * Digit)

ActiveSpace(m) == SpaceOf(m, FALSE)
DeletedSpace(m) == SpaceOf(m, TRUE)

\* FileEprFreeSpace: capacity less used space, in 32 bits.
FreeSpace(m) ==
    LET wrap == Digit * Digit * Digit * Digit
        used == (ActiveSpace(m) + DeletedSpace(m)) % (Digit * Digit * Digit)
    IN  (Cap + wrap - used) % wrap

\* CompareFilenames, on names whose letters are already of one case.
NameMatches(m, p, name) ==
    /\ NameLength(m, p) = Len(name)
    /\ \A k \in 1..Len(name) : ReadByte(m, AddPointerDistance(p, k)) = name[k]

\* Slip: the search goes on to the last match.
FindFileNewest(m, name) ==
    LET es == Entries(m)
        hits == {k \in DOMAIN es : NameMatches(m, es[k], name)}
    IN  IF hits = {} THEN NoEntry ELSE es[Max(hits)]

\* FileEprFindFile: the first entry from the bottom with this name.  A deleted
\* entry has lost its "/", so that no name matches it.
FindFile(m, name) ==
    LET es == Entries(m)
        hits == {k \in DOMAIN es : NameMatches(m, es[k], name)}
    IN  IF hits = {} THEN NoEntry ELSE es[Min(hits)]

\* FileEprNextFile.
NextFile(m, p) ==
    IF AtEnd(m, p) \/ AtEnd(m, NextEntry(m, p)) THEN NoEntry ELSE NextEntry(m, p)

\* Slip: any first entry without image is taken for the NULL file.
FirstFileSkipsEmpty(m) ==
    CASE AtEnd(m, 0) -> NoEntry
      [] ~AtEnd(m, 0) /\ FileSize(m, 0) = 0 -> NextFile(m, 0)
      [] OTHER -> 0

\* FileEprFirstFile: a deleted first entry without image is taken for the
\* NULL file of an Intel card and skipped.
FirstFile(m) ==
    CASE AtEnd(m, 0) -> NoEntry
      [] ~AtEnd(m, 0) /\ Deleted(m, 0) /\ FileSize(m, 0) = 0 -> NextFile(m, 0)
      [] OTHER -> 0

\* FileEprLastFile: from the first file to the one without a next.
LastFile(m) == IF FirstFile(m) = NoEntry THEN NoEntry ELSE Last(Entries(m))

\* FileEprPrevFile: scan from the first file for the entry whose next is p.
PrevFile(m, p) ==
    LET first == FirstFile(m)
        before == {q \in Range(Entries(m)) : q >= first /\ NextFile(m, q) = p}
    IN  IF first \in {NoEntry, p} \/ before = {} THEN NoEntry ELSE Min(before)

\* A slip: files without bytes are left out, deleted or not.
CntFilesWithBytes(m) ==
    LET es == {p \in Range(Entries(m)) : FileSize(m, p) # 0}
    IN  [active  |-> Cardinality({p \in es : ~Deleted(m, p)}),
         deleted |-> Cardinality({p \in es : Deleted(m, p)})]

\* FileEprCntFiles: a deleted entry without image counts as a NULL file.
CntFiles(m) ==
    LET es == Range(Entries(m))
    IN  [active  |-> Cardinality({p \in es : ~Deleted(m, p)}),
         deleted |-> Cardinality({p \in es : Deleted(m, p) /\ FileSize(m, p) # 0})]

==============================================================================
