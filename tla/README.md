# Z88 file areas and tools: specifications, model checking and proofs

TLA+ specifications of programs in this repository for the Cambridge Z88. Three
groups: the assembler routines of `src/stdlib` that keep files on flash cards, with
the applications FlashStore (`src/z88apps/flashstore`) and RomUpdate
(`src/z88apps/romupdate`) that share the cards; the file transfer XY-Modem
(`src/z88apps/xymodem`), with the line and the computer at its other end; and two tools in C that run on the
developer's machine, the disassembler DZasm (`src/tools/dzasm`) and the text
compressor mthtoken (`src/tools/mthtoken`). TLC checks the specifications on small
instances; TLAPS proves the main theorems for all.

`PROJECT.json` relates every definition to the source lines it models, and lists
the runs, the mutants, the hazards and the theorems.

## 1. Inventory

| Component | State it keeps | Operations | Interacts with | What is hard, what makes it correct |
|---|---|---|---|---|
| File entry chain, `stdlib/epr*.asm` | none: it reads the bytes of a card | find, first, next, previous, last file; free, active, deleted space; counts; sizes | called by FlashStore, EazyLink, RomUpdate, EpFetch | no directory, every routine scans; 24 and 32 bit sums; the NULL file; torn entries. Every file that is there is found, and the scan ends at free space. |
| Saving and deleting, `fepfsave`, `fepfdel`, `fepwrblk`, `fepwrbyt` | the card: bytes that can only lose bits | save a RAM file, mark an entry as deleted | chain (free space, pointer), flash chip, OZ files | programming errors and resets between any two bytes. Nothing that is on the card is written over; a failure costs at most the new entry. |
| Copying, `fepfcopy`, `fepcpyblk`, `eprtrblksz`; fetching, `eprfetch` | destination card; RAM file | copy an entry, fetch an entry | chain, block programming, OZ files | splitting at bank boundaries, errors in the middle |
| Formatting, reducing, recognising, `fepflfmt`, `feprdcfla`, `fepstdhd`, `eprreqst`, `fepblera` | the "oz" header and sectors of a card | format, shrink by sectors, find the header | FlashStore's format command, RomUpdate | a reset between erasing and the new header; stack handling in error paths |
| FlashStore, `z88apps/flashstore` | `flentry`, current and destination slot, flags; RAM files; the cards | save, backup, copy, copy one, restore, fetch, delete, format, browse | user, stdlib | replace = write new, then mark old: prompts, retries, ESC and resets in between. The last complete version of a file survives and is the one found. |
| Memory pools, `malloc`, `mfree`, `newpool` | `pool_handles`, `pool_index`, `allocated_mem` | allocate, release | OZ memory, AVL trees, z80asm | pools at their limit; blocks released to the pool they came from |
| AVL trees, `insert`, `delete`, `balnc*`, `rot*`, ... | nodes in extended memory | insert, delete, find, reorder, copy, transfer | pools | order and balance after rotations, no node lost |
| XY-Modem, `z88apps/xymodem` | block number, retries, check, position in the file and what is left of it, bytes in the port | receive, send with wildcards, end a batch, cancel, settings (XModem, YModem, 1K, CRC) | a second program over the serial line, RAM files, two users | lost and garbled bytes, repeated blocks, timeouts on both sides, late answers, the order in which the sides are started, numbers that wrap, the end of the file. The file received is the file sent, or is not reported as received; both sides come back. |
| EazyLink, `z88apps/eazylink` | connection state, CRC, open file | commands of the PC-LINK II protocol | serial line, RAM files, file areas | byte by byte acknowledgement, late echoes |
| z88transfer, `wsapps/z88transfer` | PC side of a transfer | send, receive, batch | Imp-Export of the Z88 | framing by escape sequences |
| RomUpdate, `z88apps/romupdate` | RAM copies of banks, card header, DOR chain | add and update an application, update OZ | flash blocks, stdlib, file area | a sector is erased before it is blown again, its other banks are in RAM meanwhile; adding rewrites up to two sectors. No file and no other application is lost, list and count agree. |
| Installer and packages | patches of OZ in RAM | install, remove | OZ | undocumented OZ tables |
| z80asm on the Z88 | symbols, expressions, object files | assemble, link | pools, AVL trees | a sequential compiler |
| Zetriz, alarmsafe, lockup, freeram, fview, wavplay, forever; Forth applications | screens, scores | games and tools | user | nothing shared or persistent worth a model |
| UnZip, ZipUp | buffers | compress, expand | RAM files | algorithms on large data |
| Intuition, ZMonitor, Zdis, Zprom, PDRom, FlashTest, EpFetch, DebugApp | registers, EPROM buffers | debug, disassemble, blow EPROMs | user | they do what the user types |
| Graphics, strings, random numbers, pointer access (stdlib) | none | pure functions | everything | boundaries |
| DZasm: opcode tables and decoders, `parse.c`, `dz.c` | tables | cut a code file into instructions, twice | pass 1, pass 2 | two sets of tables, two decoders, nothing that ties them. Both cut at the same addresses. |
| DZasm: areas, `areas.c` | list of ranges with types | search, insert, join, validate | all of DZasm | a new range across one or two old ones. The list covers the code without gap or overlap. |
| DZasm: session and pass 1, `parse.c`, `prscmds.c`, `collect.c`, `main.c` | areas, labels, remarks, expressions, constants, include list, flags, stack of addresses; the collect file | parse from an address, through a table or vectors; define; save, reload, quit | areas, decoders, AVL trees, files | every jump address is followed, scans of looping code end, what is saved is what was found out |
| DZasm: source, `genasm.c`, `dz.c` | none: it reads the session | write the assembler source | areas, labels | each byte appears once, labels that are used are set, calls have their include files |
| DZasm: front DOR, MTH structures; AVL tree in C | areas and labels of a ROM; tree nodes | `pr`; insert, find, delete, reorder | session | nested records with pointers; balance |
| mthtoken, `mthtoken.c` | token table, scan sequence, lines | tokenize, print, read, expand | files of a host | tokens inside tokens and overlapping ones. A line keeps its meaning, and what is printed reads back. |
| fontbitmap, makejar, RomCombiner, uutools | files of a host | batch conversions | host files | no concurrency |
| OZ definitions, hardware, documents, binaries | - | - | - | constants and documents; OZ itself is not in the repository |

How the modelled parts interact: FlashStore searches a file with
`FileEprFindFile`, remembers the pointer in `flentry`, calls
`FlashEprSaveRamFile` or `FlashEprCopyFileEntry`, which ask the chain for free
space and for the pointer of the next entry and blow header and image through
`FlashEprWriteBlock`; afterwards it calls `FlashEprFileDelete` on `flentry`.
RomUpdate makes room with `FlashEprReduceFileArea`, FlashStore formats with
`FlashEprFileFormat`; where the file area ends is decided by `FileEprRequest` from
the header of the applications and by the "oz" header below them, each time anew.
There is one thread; what interferes are failing bytes, resets, the user's ESC
and prompts, and whatever earlier commands left on the cards.

DZasm is a prompt. Pass 1 takes addresses from a stack, follows the program from
there with its own decoder, puts jump addresses on the stack and labels in a tree,
and inserts the range it went through into the list of areas; commands define
ranges and labels by hand; pass 2 walks the areas and prints each by its type, code
with the decoder of the disassembler. The collect file carries all of it from one
session to the next. What interferes is the order of the user's commands.

XY-Modem is a pair of programs: the receiver asks (NAK or C), the sender answers with a
header, a block or EOT, the receiver with ACK or by asking again. Each waits for a byte
with a timeout and counts its tries. They share nothing but the line, on which bytes
get lost, are garbled, or wait in the port until somebody reads them.

## 2. Modules

| Module | Contents |
|---|---|
| `FileChain` | The routines that read an area, as operators on its bytes (a function from offset to byte). No state. |
| `FileArea` | One area while files are saved and deleted, a byte at a time, with programming errors and resets. EXTENDS `FileChain`. |
| `FileLog` | Abstract specification of an area: a log of entries that only grows, in which entries become complete or get marked. |
| `FlashStore` | The commands of FlashStore over several cards and the RAM files, an entry at a time. |
| `CardLayout` | Applications above, file area below: `FileEprRequest`, free space, the list of applications, as operators on the contents of a card. No state. |
| `CardUpdate` | Formatting and reducing the file area, adding and updating applications, on one card, a sector, a header or a bank at a time. EXTENDS `CardLayout`. |
| `Z80Tables` | The opcode tables of both passes of DZasm and the tables of OZ calls, entry by entry. No state. |
| `Z80Code` | One instruction as pass 1 (`Instr`) and as pass 2 (`Disassemble`) sees it. EXTENDS `Z80Tables`. |
| `AreaList` | The list of areas: search, insertion with its cases, joining. No state. |
| `Dzasm` | A session: commands, pass 1 an instruction at a time, the collect file, leaving and starting again. EXTENDS `Z80Code`, `AreaList`. |
| `DzasmSource` | Pass 2 as an operator on the state of a session, and the properties. EXTENDS `Dzasm`. |
| `MthToken` | mthtoken, from the token table to the line that is printed and read again. |
| `XYLine` | The serial line: blocks and bytes under way, damage. |
| `XYReceive` | XY-Modem receiving, a block or byte at a time. EXTENDS `XYLine`. |
| `XYSend` | XY-Modem sending, likewise. EXTENDS `XYLine`. |
| `XYModem` | Two Z88 with the line between them and their users. EXTENDS `XYReceive`, `XYSend`. |
| `XYRemote` | The receiver with another computer's sender, which keeps to the protocol. EXTENDS `XYReceive`. |
| `MCFileArea`, `MCFlashStore`, `MCCardUpdate`, `MCDzasm`, `MCMthToken`, `MCXYModem`, `MCXYRemote` | Instances for TLC. |
| `FileAreaProofs`, `FlashStoreProofs`, `CardUpdateProofs`, `DzasmProofs`, `DzasmSessionProofs`, `MthTokenProofs`, `XYModemProofs`, `XYRemoteProofs` | Theorems and their proofs. |

`FileArea` and every slot of `FlashStore` are shown to implement `FileLog`:
the first shows that bytes, failing or not, hold such a log; the second that the
application treats each card as one. `FlashStore` can therefore work with
entries instead of bytes, and what `FileLog` promises is proved of both (section 4).

### FileChain

An area is a run of bytes `0..Cap-1`, filled from the bottom, with its header
at `Cap`. Bank and offset of a pointer are one offset in the slot, `CardSpan`
bytes long; `AddPointerDistance` wraps there, as the code does when it puts the
slot mask back. `Trail` is the list of pointers that the loops around
`FileEprFileEntryInfo` visit. The Z80 loop has no bound: `ScanReturns` says
that it meets an end. Above the header the model reads 0, the first byte of the
header.

### FileArea

`card` is the contents of the area. `op` is the running routine: at which byte
it is (`at`), what is left to blow (`todo`) and the pointer of the new entry
(`entry`).

| Action | Code |
|---|---|
| `SaveRamFile` | `FlashEprSaveRamFile` up to the first byte: header built, size compared with `FileEprFreeSpace` |
| `BlowByte`, `BlowError` | `FlashEprWriteBlock`: a byte is programmed and read back, or `RC_BWR` |
| `SaveDone` | end of the RAM file in `LoadBuffer` |
| `MarkDeleted` | the error exit of `SaveToFlashEpr` and `SaveFileEntry` |
| `FileDelete` | `FlashEprFileDelete` |
| `Reset` | the machine is reset (environment) |

Programming is a bitwise AND of old and new byte. It is a constant, `BitAnd`, which
`MCFileArea` gives the value of the community modules' `&`, so that the proofs need
no more of it than `BitAssumption`: bytes give bytes, `FF` leaves a byte as it is, 0
makes it 0. A failed byte keeps any bits between the two. `intent`, which no action reads, holds the names and images
whose headers were written completely.

### FlashStore

`log[s]`, `free[s]` are entries and free bytes of slot `s`; `ram` the RAM files;
`job` the running command with its program counter, the file at hand and
`flentry`. `kept[s][n]` is a history variable: the entry last written completely
under a name, 0 if the user deleted it.

| Action | Code |
|---|---|
| `StartSave`, `SaveNext` | `SaveFilesCommand`, `BackupRamCommand`, loop `next_name` |
| `StartCopy`, `CopyNext`, `QuickCopyFile` | `CopyFileAreaCommand`, loop `copy_loop`; `QuickCopyFileCommand` |
| `FindFile`, `Prompt` | `FindFile` (savefiles.asm), `PromptOverWrFile`, `PromptOverWrFileEntry` |
| `WriteHeader`, `HeaderError`, `WriteImage`, `ImageError`, `MarkDeleted` | `FlashEprSaveRamFile`, `FlashEprCopyFileEntry` |
| `Retry` | SPACE after `DispErrMsg`, `re_save` |
| `DeleteOldFile` | `DeleteOldFile` |
| `StartRestore`, `RestoreNext` | `RestoreFilesCommand`, loop `restore_loop` |
| `FetchFile`, `DeleteFile` | `FetchFileCommand`, `QuickFetchFile`, `DeleteFileCommand`, `QuickDeleteFile` |
| `Abort`, `EditRam`, `Reset` | ESC at the prompts; the user's work on RAM files; a reset |

`Faults` says what may go wrong in a run: the first byte of a header
(`header`), an image (`image`), the deletion flag (`delete`), a RAM file
(`ram`), and `reset`. `ZeroSlots` are slots whose area begins at bank 0.
`ViewDeleted` says whether the user works on deleted entries in the file window.

### CardLayout and CardUpdate

A bank is two units, its last 64 bytes, where headers are, and the rest. A unit
is erased, holds files, code, a header, or is torn: half erased or half blown.
Files fill an area unit by unit from bank 0; the DOR of an application is in the
body of its bank, with the bank of the next one. `card` is the card, `pres` the
banks saved in `:RAM.-`, `job` the running routine, `rom` the banks of the ROM when
the card is the chip in slot 0. A card is empty at first; the chip in slot 0 has the ROM
and, where it leaves room, an area below it or none. That chip has 512K
(`UpdateAssumption`): the other half of slot 0 is RAM.

| Action | Code |
|---|---|
| `SaveFile` | a file is saved (see above) |
| `Format`, `FormatSector`, `BlowHeader`, `SaveNullFile` | `FlashEprFileFormat`, `EraseBlocks`, `FlashEprStdFileHeader`, `SaveNullFile` |
| `FormatRefused` | `preserve_oz_rom` |
| `BlowHeaderAstray` | the end of `EraseBlocks` in slot 0: the header goes to RAM (section 3) |
| `ReduceSector`, `BlowHeader` | `FlashEprReduceFileArea` |
| `AddApp`, `PickBank`, `EraseTopSector`, `Install`, `LinkDor`, `CountBank` | `Update_16k_application` from `try_add_app` |
| `UpdateApp` | `try_upd_app` |
| `PreserveSectorBanks`, `EraseSector`, `BlowBuffer`, `RestoreBank` | `UpdateSector` |
| `EraseError`, `BlowHeaderError`, `RamError`, `EraseSectorError`, `BlowError` | the error exits; those of RomUpdate end in `suicide` |
| `Reset` | a soft reset, after which RAM files are still there |

An erased sector that fails is as it was, or torn as a whole; a bank that fails is
torn, with its last 64 bytes or without. `job.words` counts what a library routine
has pushed; a routine that removes another number of words goes `Stray`. The
history fields `found`, `apps` and `old` of `job` say what was on the card when the
routine began. `hurt` counts the jobs that failed or were cut off.

### Z80Tables and Z80Code

Each table of 256 rows is two functions, one per half. An entry of pass 1 is the
number of operand bytes with bits for undocumented and unknown instructions; an
entry of pass 2 is the kind of operand. Mnemonics are left out; of an OZ call only
the include file that defines it is kept. `Instr` gives what an instruction
does to the parsing: where it goes on, whether the area ends, jump addresses, data
addresses, include files. `Disassemble` gives what pass 2 prints and where it goes
on. Displacements are signed, as `char` is on the machines DZasm is built for.

### AreaList

The doubly linked list is a sequence, and `InsertArea` replaces one or two of its
elements by up to three, case by case as in the code. `InsertCrashes` are the two
cases in which the code follows a null pointer. `JoinAreas` goes through the list with
a recursive function, an area at a time (`Join`).

### Dzasm and DzasmSource

| Action | Code |
|---|---|
| `ParseDZ`, `ParseLookupTable`, `ParseVectorTable`, `ParsePointerTable` | the commands `pp`, `pl`, `pv`, `ppt` of `prscmds.c`, up to the first step of pass 1 |
| `NextEntry` | the loops over the entries of a table in `ParseLookupTable`, `ParseVectorTable` |
| `PopItem`, `PassDone` | the loop of `DZpass1` |
| `ParseInstruction`, `EndOfArea`, `EndOfCode` | a turn of the loop of `ParseArea`; its returns, with the insertion by `DZpass1` |
| `DefineMemory`, `DefineLabel`, `DefineScope`, `RemarkOutput`, `DefineExpression`, `DefineConstant` | `dm`, `dl`, `dx`, `rem`, `de`, `dc` |
| `CreateCollectFile`, `ReloadCollectFile`, `Quit`, `Start` | `cc`, `rc`, `q`; the program is started again |

AVL trees are functions from their keys. `job` is the command that runs and where
pass 1 is; `Down` is a program that has ended or crashed. `file` is the collect
file: what of the work it keeps (`Kept`, `Collected`) rather than its format. The
history variable `parsed` holds the addresses of the instructions pass 1 has met.

What is asked of the user is named. With `Tidy` he parses at instructions
(`Begins`), defines ranges that lie in one area, hold no instruction and are no
table yet, and tables of full lines of DEFW. The tables he has parsed hold addresses of
instructions or of other code (`UserPointers`), and the JP instructions of a vector table
follow one another (`UserVectors`). What he takes for instructions are some: complete, apart, and going
on to and calling each other or other code (`WellCut`; `TidyAssumption` says so of every code
file, and TLC checks it). Without it almost nothing holds,
as DZasm takes any range. `Known`, `Names`, `Texts`, `Positions` and `DataTypes` are
the addresses, names, texts and types he uses, and `Budget` the number of commands he
gives.

`Source` is the text of pass 2 as a sequence of bytes with the labels set, the
labels used and the include files needed, so that properties can compare it with the
code file and with pass 1.

### MthToken

A run of the program for one line and back: `Load` the table and the sequence,
`ParseLine`, `ReplaceToken` and `NextToken` (`TokenizeLine`, `TokenizeTextFile`),
`OutputTextFile`, then `ReadBack` and `OutputDeTokenizedTextFile` as with `-r`. A
printed line is a sequence of lexical elements: marks, characters, commas,
constants. `UnknownToken` is the crash at a code of the sequence that the table has not.

### XYLine, XYReceive and XYSend

`fwd` is what is under way to the receiver, `back` what is under way to the sender. A
block is one message, with its number, its length, the check it carries, what a header
says, and `data`: which part of which file its bytes are. Where the line hits it is its
flaw, one of four places that the receiver tells apart: the first byte, the number, the
bytes and checks behind it, and the last byte, which is lost. Control bytes and answers
are bytes; a garbled one is one that means nothing. The bytes that follow a
refused block go into `purge`, which the code calls before it asks again.

| Action | Code |
|---|---|
| `KeyReceive`, `KeySend`, `KeyEndBatch`, `KeyOther`, `KeyShiftEnter` | the keys of `main_menu` |
| `PurgeByte`, `TransmitNak`, `TransmitCans` | `purge`, and `send_NAK` or `cancel` after a second of silence |
| `RxTimeout` | `hw_rxbt` returns with carry, in `receive_block` and `file_receive_canceled` |
| `RefuseBlock`, `OutOfSync`, `LoseCrcByte`, `RefuseNoise` | the exits of `receive_block` up to `not_crc16` |
| `TakeHeader`, `TakeBlock`, `TakeEot` | `receive_ymodem_header`, `buf_to_file` and `ack_block`, `file_received` |
| `TakeCan`, `SecondByte` | `file_receive_canceled` |
| `TxRead` | a byte read in `wait_for_NAK0`, `wait_for_NAK1`, `wait_to_send`, or after EOT, with all that follows up to the next wait: `send_block`, `send_next_block`, `send_EOTs`, the next file |
| `TxTimeout`, `TxEscape` | the timeouts of the same waits; Esc |
| `TxPurge`, `TxPurged` | `timeout_to_main` and `send_end_batch`: `purge`, then CANs |

`rx` and `tx` are the variables of the program with a program counter that says where it
waits. `file` is what has been written to the open file, piece by piece, with the number
of bytes kept of each; `saved` the files for which the receiver has reported success.
`rx.nest` counts return addresses left on the stack.

### XYModem and XYRemote

`XYModem` joins the two programs. Of time only the order of timeouts is kept, from the
periods in the code: a sender that has a byte to read answers before the receiver's
second of silence is over (`Silence`); a receiver at work asks again, after 4 seconds,
before a sender that waits 31 gives up (`TxSilence`). At `nak0`, `nak1` and `answer` the
sender therefore gives up only on a receiver that is in its menu. `setting` is what both
users have set, what they may send, and how often the line fails; `received` remembers
whether the receiver was started before or after the sender waited for it.

`XYRemote` puts another sender in place of `XYSend`: it sends a refused block again, and
the next one after an ACK only, has a number of tries, and gives up with CANs. The code of
it is not in the repository; it is what the receiver expects of a peer. When the sides are `hasty`
nothing is assumed about time: either may give up waiting for the other whenever
there is nothing for it to read. `faults` counts damage that a refusal and another try
repair apart from any other. Calls fail as well: the file cannot be opened, written,
a byte not be transmitted.

## 3. Runs

| Run | Bounds | What it shows |
|---|---|---|
| `FileArea` | bytes of 3 bits, area of 23 bytes in a slot of 32, 2 names, images of 0 and 2 bytes, 2 faults | free bytes only are written; the scan ends at erased space; what is reported of space and files is what is there, but for deleted empty files (`ReportsTrue`); the search finds the oldest active entry; the backward walk meets every active file; the area implements `FileLog` |
| `FlashStore` | 2 slots of 2 entries, 2 names, 2 contents, header, image and RAM errors | the search finds the last complete version between commands; complete copies and restores hand on the newest files |
| `FlashStoreFaults` | slots of 2 and 1 entries, 1 content, image and deletion errors and resets | the last complete version of a file is never lost; commands end; each card implements `FileLog` |
| `FlashStoreSlot0` | as `FlashStore`, slot at bank 0 | **violation** of `FindsNewest` |
| `FlashStoreDeleted` | as `FlashStore`, deleted entries copied | **violation** of `LatestKept` |
| `CardUpdate` | 3 sectors of 2 banks, an empty card or slot 0 with a ROM of 3 banks, with an area below it or without, or of 6, 2 attempts to erase, 2 failed or cut off jobs | what is blown goes to erased bytes; files are only lost by a format; format and reduction leave the applications alone; after a format in slots 1 to 3 there is an area (`FormatMakesArea`); without failures header, area and application list agree between operations (`CardConsistent`); the banks of a sector that is rewritten are on the card or in RAM; operations end |
| `CardUpdateFull` | as above, no faults, full cards formatted | **violation** of `AppsKept` |
| `Dzasm` | 8 code files of 8 bytes, 3 commands out of 13 kinds, 2 addresses with names, 1 name, 1 text, tidy user | areas keep covering the code (`AreasPartition`, in `SessionInv`); jump addresses are followed (`TargetsTraced`); pass 2 cuts the code where pass 1 did (`PassesAgree`); the source has a place for each byte, once and in order, and what it prints there can be assembled but for two kinds of rows (`SourceComplete`, `Misprints`); it sets the labels it uses and includes what it needs (`SourceAssembles`); work that is not saved is flagged (`UnsavedIsFlagged`); nothing known is forgotten (`StaysResolved`); scans end (`ScanEnds`) |
| `MthToken` | 4 tables of up to 3 tokens, 3 sequences, lines of up to 4 bytes over 4 characters, of up to 5 over 3 with a code, and of up to 3 with backslashes | replacing keeps the text (`MeaningKept`) and leaves nothing to replace (`NothingLeft`); printed lines read back (`ReadsBack`); it ends (`TokenizingEnds`) |
| `XYModem` | blocks of 2 and 4 bytes, numbers modulo 3, both protocols, checks and block sizes, 4 tries, either side first; files of 0 to 11 bytes and batches of 2 and 3 on a clean line; with CRC 2 batches on a line that damages or loses 2 items in either direction, and Esc | a file reported as received is the file sent (`FileWhole`); on a clean line all files of a batch arrive (`Delivered`); the sender comes back (`SendingEnds`) |
| `XYModemNak` | checksums, sender first, 1 damaged block | **violation** of `EveryFileWhole`: a NAK skips a part of the file |
| `XYRemote` | files of 0 and 7 bytes (4 blocks), 2 faults of any kind, 3 tries and 2, both sides hasty or patient | blocks are written once and in order (`InOrder`), received files are whole (`SavedWhole`), the receiver comes back (`ReceivingEnds`); patient sides repair damage to items, less often than the sender tries (`DamageRepaired`) |

Why the bounds are enough. In `FileArea` entries take 7 and 9 bytes and the area
23 = 7 + 7 + 9: it fills up to the last byte, overflows by one file, holds three
entries and the NULL file with two; two faults give a torn image whose mark
fails too, or two torn images. A digit of 8 makes offsets of two digits, so that
the order of the size bytes matters. Two slots and two names are the fewest for
a copy and for a stale `flentry` of another file; two entries are a file and its
new version, or two files, or a torn image and its retry; with one entry a copy
finds no room. Files of one unit suffice because `FlashStore` only compares
sizes with free space, which `FileArea` checks in bytes.

Three sectors are the fewest in which an area of two sectors can be reduced, an
area can lie below applications with a gap in the same sector, and an area is
lost and a smaller one made below it. Two banks per sector (four in the code) give
a sector with an application and a bank to preserve, or with a free bank beside
it. A card header, a list of up to six applications and a chip that is full of
them all occur. Two failures include a reset in the middle of repairing what a
first one left.

The code files of `Dzasm` hold, between them, a call, absolute and relative jumps
forward and back, a loop, a call of OZ that returns and one that does not, prefixed
instructions, a table of addresses, one of pointers, a vector, code that nothing calls
and code that runs to the end; eight bytes are enough for two routines with data
between or behind. Three commands are a table, a redefinition and a save, or two parses and
a definition between their areas, or a save, an end and a new start with a change. The
agreement of the two decoders on the other instructions is proved (`DecodersAgree`).
In `MthToken` there are a token inside two others, one that overlaps itself, one of a
single character, one with a quotation mark and a control code, a file that is no
table, and sequences with a code that is not in the table.

With blocks of two bytes, long ones of two blocks, and files of 0 to 11 bytes all
paths at the end of a file occur: nothing, a part of a short block, exactly one, a long
block and a rest, a multiple of a long one. Three is the smallest modulus at which the
expected number, the one before and another are different, and four blocks let the
number wrap. Two faults are a lost answer and a second loss while the block is repeated,
or damage that uses up the tries of one side; with three tries a receiver gives up after
two. `FileWhole` speaks of checksums only where nothing was damaged and the sender was
started first, as `xy-modem.txt:49-51` asks for (`Undisturbed`): elsewhere a NAK that was
sent, or that waits in the port, makes the sender skip a part of the file, which
`XYModemNak` shows. With CRC it holds for either order and under all damage. The line does
not turn a block into EOT: a receiver cannot know that byte from a real one.

Deadlock is not checked for the runs of XY-Modem, where users and programs stop,
nor for `Dzasm`, where the user's commands run out, nor for `MthToken`, which
ends; nor for `FileArea`, whose area may be full of deleted entries, nor for
`CardUpdate`: RomUpdate hangs in `ApplRomLastDor` when an
interrupted update has cut the list of applications. `FlashStore` has none.

Every property has a mutant: a slip in one routine, written before it and marked
"Slip" or "A bug", under which TLC finds the property violated.

### Findings

1. *Slot 0* (`FlashStoreSlot0`): a pointer to bank 0, offset 0 reads as no pointer;
   the first file of such an area is never replaced.
2. *Copy of deleted entries* (`FlashStoreDeleted`): the C key on a deleted entry
   appends a deleted copy and marks the destination's active file as deleted.
3. *Format of a full card* (`CardUpdateFull`): `FlashEprFileFormat` does not report
   that applications leave no room, as its description says, but erases them.
4. *NAK skips a block* (`XYModemNak`): the sender answers a NAK with the next part of the
   file, under the number of the block that was refused. With checksums the file that
   arrives has a gap and is reported as received. With CRC a refusal is C, which the
   sender ignores, so that no damage is ever repaired.

Exceptions that the passing runs make, where the code does not do what its documents
say; each is named in the property or in a constant:

* *Torn headers*: `FileEprAllocFilePtr` returns a pointer that is not "first byte of free
  space" (`eprfaloc.asm:38`) once a save was cut off between the length byte and the last
  byte of the size. With `HeaderFaults = TRUE` and `MaxFaults = 1` TLC finds `FreeIsErased`
  violated; the run has faults anywhere else: before the length byte, in the image, in a
  deletion mark and between any two operations.
* *Counts*: `FileEprCntFiles` leaves out deleted empty files, though its counts "are total
  files in the file area" (`eprcntfl.asm:38`). `CountsFiles` says so.
* *Refused format*: in slot 0, when the ROM leaves no room, `fepflfmt.asm:176` takes the saved
  AF off the stack where it means the return address, and the routine returns to the
  caller's HL: `FormatRefused` goes to `Stray`, which `CommandEnds` admits.
* *Header in slot 0*: a format is to end with "All sectors erased and a new header blown"
  (`fepflfmt.asm:104`). For every chip below 1 MB `fepflfmt.asm:276-281` sets bit 5 of the bank of the
  header, in slot 0 too, where banks $20-$3F are RAM (`fepblera.asm:113-118` makes the
  exception for slot 0, this does not). The header goes to RAM, reads back
  as it should, and success is returned for a chip that has been erased and has no
  header. `BlowHeaderAstray` does this, and `FormatMakesArea` says `rom = 0`. The areas
  that the chip in slot 0 has in the model are there from the start.
* *CAN is not heard* by a YModem sender in `wait_for_NAK0` and by one that has sent EOT,
  though two of them are to stop a program "sending, or trying to" (`xy-modem.txt:40-41`).
  There CAN is a byte like any other that is not the answer waited for.
* *A jump into the menu*: without the last byte of a CRC the receiver goes to a label in the
  middle of `main_menu` (`JP C,not_crc`, line 768), with the file open and a return address
  on the stack, and does not ask for the block again; Shift+Enter (`xy-modem.txt:53`)
  then leads to the menu. `DamageRepaired` leaves this damage out (`Repairable`).

What the model shows besides, about which no document says anything: a bank that was
added, but not yet counted when a reset came, can never be used again
(`ErrMsgNewBankNotEmpty`); a list that an interrupted update has cut makes the next
addition hang; when a bank cannot be blown, the RAM copies of the other banks of
its sector are deleted.

Of XY-Modem likewise: a block that comes again because its ACK was lost is answered
with NAK and not with ACK, so that a transfer after a lost ACK ends when the tries do,
with the file as far as it had come; `out_of_sync` ends it at once when the number is
garbled. Neither costs data that was reported as received; `DamageRepaired` leaves lost
answers and garbled numbers out for this reason.

Of DZasm and mthtoken, met while modelling and not checked by a run of their own:

* `InsertArea` releases the area in hand and then reads it when a new range starts with
  one area and ends with the next (`areas.c:228-231`), and reads behind the last area
  when a range goes over it. With the code `CD 04 00 C9 ...`, parsing at 0003 and then at
  0000 does the first; the run `Dzasm` gets there (`Define`, `Down`), and properties
  that speak of the prompt do not count it.
* `pv` stores a label for the first address only, and `DZpass1` drops addresses without
  label, so that of "JP instruction vector table at <adr> and forward"
  (`prscmds.c:200`) the second and later vectors are followed only when something
  else has labelled them.
* A range over several areas leaves the ranges behind it as they are; `ValidateAreas`,
  which would notice, is never called.
* `ED 63` and `ED 6B` have two operand bytes in pass 1's decoder and are unknown to both
  tables (`dz.c:22`: "All 'undocumented' instructions are recognised"). For an unknown
  instruction pass 1 ends the area with the prefix, and pass 2 prints it with a
  byte more; `DecodersAgree` is about printed instructions only.
* A remark before a byte inside a row of DEFB ends the line, and `defbline` stays false
  (`genasm.c:261-269`): the next byte is printed as `,$xx` at the start of a line (284-288), and so on to
  the end of the row. A line of DEFM that begins with a quotation mark prints it as `'"'` and
  takes a string to be open (440-447): the text behind it is printed raw. The assembler can take neither.
  `DefbOutput` and `DefmOutput` put these bytes into `rubbish`, and `SourceComplete` says that
  they are the only ones: those `Misprints` describes.
* A code of the low level interface that is not in `os2` is printed as entry 26, which is
  a call, and not as entry 27, which says that it is unknown; codes below 21h
  read before the start of `os1` in pass 1.
* A remark behind a line of DEFB makes the next row begin too far on (`DefbOutput`); the
  last byte of an odd DEFW area is not printed. `Tidy` and `Positions` leave
  these out of the run.
* The collect file does not keep XREF declarations, the attributes of areas, and the last
  of the include files; `q` asks whether to save only when there is a collect
  file already; `rc` without one releases everything and goes on.
* mthtoken releases a token it did not get when the sequence names an unknown code; a table
  whose token holds its own code is expanded for ever; a line that begins with a
  quotation mark, or is empty, is printed as no valid DEFM line; a backslash is printed as
  it is and read as the beginning of an escape (`GetChar`), so that `a\b` comes back as two other bytes.
  `Printable` leaves out all three.

### Fairness

`FairSpec` is `Spec /\ WF_vars(Step)`: the application goes on as long as it has
something to do, and the user answers prompts and presses SPACE after an error,
but need not press ESC, nor start a command. `CommandEnds` holds because each
retry takes the space of an entry. Header errors are left out of this run: when
the first byte of a header cannot be blown no space is taken, and a card that
never programs is retried as long as the user likes.

`CardUpdate` has the same form: an operation goes on once begun, whether its steps
succeed or fail. Formats, additions and updates are started by the user without
fairness. `CommandEnds` excepts the two ways in which the code does not come back:
`Stray`, and the hanging `ApplRomLastDor`.

`Dzasm` has `WF_vars(PassStep)`: a scan goes on by itself, while commands are the
user's and have no fairness; `ScanEnds` says that it stops, at the prompt or with the
program. `MthToken` is a program that runs by itself: `WF_vars(Next)`.

`XYModem` and `XYRemote` have weak fairness of each program: it reads what has come, and
its timeouts expire when nothing comes. Nothing is asked of users, nor of the line, whose
faults are bounded by `maxFaults` or `MaxFaults`.

## 4. Theorems

| Theorem | Statement | Assumes |
|---|---|---|
| `FileAreaProofs!TypeCorrect` | `Spec => []TypeOK` | `ChainAssumption`, `AreaAssumption`, `BitAssumption` |
| `FileAreaProofs!AreaIsLaidOut` | `Spec => []AreaInv` | the same, `~HeaderFaults` |
| `FileAreaProofs!SavesBlowFreeBytes` | `Spec => []BlowsFreeByte` | the same |
| `FileAreaProofs!FreeSpaceIsErased` | `Spec => []FreeIsErased` | the same |
| `FileAreaProofs!OldestLiveIsFound` | `Spec => []FindsOldestLive` | the same |
| `FileAreaProofs!ReportsAreTrue` | `Spec => []ReportsTrue` | the same |
| `FileAreaProofs!WalkBackMeetsAllLive` | `Spec => []WalkMeetsAllLive` | the same |
| `FileAreaProofs!AreaImplementsLog` | `Spec => ImplementsLog` | the same |
| `FileAreaProofs!AreaKeepsEntries` | `Spec => Log!EntriesKept` | the same |
| `FileAreaProofs!AreaLeavesTornImages` | `Spec => Log!TornStaysTorn` | the same |
| `FileAreaProofs!AreaLogTyped` | `Spec => []Log!TypeOK` | the same |
| `FlashStoreProofs!TypeCorrect` | `Spec => []TypeOK` | `StoreAssumption` |
| `FlashStoreProofs!LatestIsKept` | `Spec => []LatestKept` | `StoreAssumption`, `~ViewDeleted` |
| `FlashStoreProofs!StoreImplementsLogs` | `Spec => ImplementsLogs` | `StoreAssumption`, `~ViewDeleted` |
| `FlashStoreProofs!CardImplementsLog` | `Spec => Slot(s)!Spec`, for every slot `s` | the same |
| `FlashStoreProofs!CardKeepsEntries` | `Spec => Slot(s)!EntriesKept` | the same |
| `FlashStoreProofs!CardLeavesTornImages` | `Spec => Slot(s)!TornStaysTorn` | the same |
| `FlashStoreProofs!CardSpaceTyped` | `Spec => [](free[s] \in 0..Capacity[s])` | the same |
| `FlashStoreProofs!NewestIsFound` | `Spec => []FindsNewest` | `StoreAssumption`, `Reliable` |
| `FlashStoreProofs!RestoreIsFaithful` | `Spec => []RestoreFaithful` | the same |
| `FlashStoreProofs!CopyIsFaithful` | `Spec => []CopyFaithful` | the same |
| `CardUpdateProofs!CoreInvariant` | `Spec => []Core` | `CardAssumption`, `UpdateAssumption` |
| `CardUpdateProofs!CardTypeCorrect` | `Spec => []TypeOK` | the same |
| `CardUpdateProofs!PassiveBanksKept` | `Spec => []PassiveKept` | the same |
| `CardUpdateProofs!BlowsGoToErased` | `Spec => BlowsErased` | the same |
| `CardUpdateProofs!FilesAreKept` | `Spec => FilesKept` | the same |
| `CardUpdateProofs!FormatAlwaysMakesArea` | `Spec => []FormatMakesArea` | the same |
| `CardUpdateProofs!CardIsConsistent` | `Spec => []CardConsistent` | the same |
| `CardUpdateProofs!AppsAreKept` | `Spec => AppsKept` | the same, `FormatFull = FALSE` |
| `DzasmProofs!InstrForward` | pass 1 goes on at a later address, an area ends at the last byte of an instruction, which has one jump address at most | bytes in memory |
| `DzasmProofs!DecodersAgree` | whatever pass 2 prints as an instruction ends where pass 1 goes on | bytes in memory |
| `DzasmProofs!InsertKeepsPartition` | a range inside one area is inserted without a crash, and the list still covers the code | a list that does |
| `DzasmProofs!InsertChangesRange` | such an insertion changes the type of the addresses in the range, and of no other | a list that covers the code |
| `DzasmProofs!TraceInvariant` | `Spec => []TraceInv` | `SessionAssumption` |
| `DzasmProofs!AllTargetsTraced` | `Spec => []TargetsTraced` | `SessionAssumption` |
| `DzasmSessionProofs!SettledInvariant` | `Spec => []SettledInv` | `SessionAssumption`, `TidyAssumption`, `Tidy` |
| `DzasmSessionProofs!SessionIsOrderly` | `Spec => []SessionInv` | the same |
| `DzasmSessionProofs!WorkIsFlagged` | `Spec => []UnsavedIsFlagged` | the same |
| `DzasmSessionProofs!KnownStaysKnown` | `Spec => StaysResolved` | the same |
| `DzasmSessionProofs!MetInvariant` | `Spec => []MetInv` | the same, `NoCodeDefined` |
| `DzasmSessionProofs!PassesSplitAlike` | `Spec => []PassesAgree` | the same, `HaveMnemonics` |
| `DzasmSessionProofs!SourceIsComplete` | `Spec => []SourceComplete` | the same, `InFront` |
| `MthTokenProofs!TokenInvariant` | `Spec => []TokenInv` | `TableAssumption` |
| `MthTokenProofs!MeaningIsKept` | `Spec => []MeaningKept` | the same, `CodesKnown` |
| `MthTokenProofs!NothingIsLeft` | `Spec => []NothingLeft` | the same |
| `MthTokenProofs!PrintedIsRead` | `Spec => []ReadsBack` | the same |
| `XYModemProofs!LineInvariant` | `Spec => []LineInv` | `LineAssumption`, `SendAssumption`, `ReceiveAssumption`, `LineFits` |
| `XYModemProofs!ReceivedIsSent` | `Spec => FileWhole` | the same |
| `XYRemoteProofs!ReceivesInOrder` | `Spec => []InOrder` | `LineAssumption`, `ReceiveAssumption`, `RemoteAssumption` |
| `XYRemoteProofs!SavesWholeFiles` | `Spec => []SavedWhole` | the same |

The theorems about `FileArea` hold for bytes, names, images and areas of any size that the size
field can express, and for any number of faults. `~HeaderFaults` is the condition of the run as well: a fault in
the middle of a header leaves a length or a size that was never meant, and the code has no way to
tell (section 3, *Torn headers*). None of the properties is inductive. `AreaInv` is `TypeInv` (a
save never leaves the slot) and `Layout`: there is a sequence of pointers `ptr` such that

* `Laid`: the header of each file of `Stored` (the NULL file, if any, and `intent`) can be read at its
  pointer, but for the first character of the name, which deleting clears, and the next pointer
  is the size of the entry further on;
* between operations everything from the last pointer to the header is erased;
* during a save (`Blowing`) what was blown are the first bytes of the entry, what is left are its
  other bytes, these fit, and everything above the byte at hand is erased.

A byte of a save is blown on an erased byte, above all headers that `Laid` reads (`HeaderKept`); the
last byte of a header makes the sequence one longer (`LaidOneMore`). Deleting changes the byte
that `Laid` leaves open. What the library computes is then read off `Laid`: the loop of `Trail` visits `ptr`
(`TrailFollows`, by the least step where it would not), its end is the first erased byte
(`Scanned`), the space sums telescope (`SumOfChosen`; the fold over a set is shown to be a
sum that does not depend on the order, `SumOfOneMore`), and the way back from the last file
is `ptr` downwards from the first file (`BackFollows`), where `FirstIsSkip` says
that what is taken for a NULL file is no live one.

`AreaImplementsLog` maps the bytes to entries (`Seen`): a blown byte of a header
changes nothing, the last one is `Create`, a byte of an image is `Complete` when with it the image on
the card is that of `intent`, and otherwise changes nothing, for it lies in one entry
only (`OneEntry`). A failed byte of an image changes nothing in the log, as it is wrong
unless it was to be `FF` and is (`ErrorByte`). Deleting is `MarkDeleted`, or a stutter when the
byte fails and stays. The recursive functions of the model, `Trail` and the walk back, exist by
`NatRecursion`, which is proved here for functions and does without an operator parameter.

`TypeOK` of `FlashStore` is not inductive: that `DeleteOldFile` marks an entry
that exists needs to know that `flentry` points into the destination's log, that
a copy reads an entry that is there, and that a job has a file at hand wherever
one is used. This is `JobInv`, and `TypeInv == TypeOK /\ JobInv` is the inductive
invariant, with one step per action.

`LatestKept` says that the entry remembered in `kept` exists, has its name, is
complete and active. A step can only break it by marking that very entry.
`MarkDeleted` marks the entry just being written: it is not complete, hence not
the one kept. `DeleteOldFile` marks `flentry`: `WriterInv` says that at that
point the new entry is the last of the log and is the one kept for the name at
hand, and that `flentry` is an older entry of the same name, hence not the one
kept for this name, nor for any other. The assumption `~ViewDeleted` is needed:
the copy of a deleted entry is complete but not active, which is finding 2.

`CardStep` is the refinement: each step of `FlashStore` appends a header or an image,
marks an entry, or leaves every log alone, and for each slot that is an action of `FileLog` or
a stutter. It needs `KeptInv`, because `FileLog` only lets an entry become complete that
is the last one: `WriterInv` says that the entry whose image is written is the last of its
card. What `FileLog` promises of a log is then proved of every card, and of the bytes of an
area, from the steps of the log alone (`CardKeeps`, `LogKeeps`): entries keep their places, names
and images, torn ones stay torn, and an entry is only begun in free space.

`FindsNewest`, `CopyFaithful` and `RestoreFaithful` are false when the machine fails in certain ways
(a deletion mark that cannot be blown leaves two active files of one name); `Reliable`
excludes these and nothing else: headers, images and RAM files may still fail. `HitsInv`
is the strengthening: a name has exactly one active entry, the one in `kept`, or none; while the
next one is written there are two, and `flentry` is the older. `RestoreInv` says that a
restore, which goes from the newest entry down, has already brought back each name
whose newest entry lies above the one at hand; visiting an older entry of that name
cannot undo this, because by `HitsInv` there is no active one. `CopyInv` says the same of
a copy, which goes up: the newest file of each name among the entries visited is the newest on
the other card, and the file at hand is that of the entry at hand.

The theorems about `CardUpdate` hold for any number of sectors and of banks in a sector, up
to 64 banks on the card. That bound is `CardAssumption`'s: `FormatSector` counts sectors in
one byte, a slot has 1 MB. None of the properties is inductive. `Core` is:

* `GoodCard`: a file area header ends a sector, gives the size of the area it ends, and lies below
  the banks that the card header counts; below it there is no application and no
  other header. `Tidy`: files fill an area from its first unit on. Both hold in the
  middle of every operation and after every reset, which is what makes a restart sound.
* `JobInv` says of each operation what it has found out and not yet used. `FormatInv`: the
  boundary where the area will end has no header above it, and the sectors from there down to
  the one at hand are erased. `ReduceInv`: the new boundary is a sector lower, and no
  files lie between. `AddInv`: the new bank is blank, and the one below those that the card
  header counts.
  `RewriteInv`: what is preserved in RAM is what was in the sector, what was written back is
  already in place. It is stated over `Final`, the card when the sector is complete again,
  so that the card in between needs no special treatment.

`PassiveKept` follows from `RewriteInv`, but for the time after an operation, where the history of
what was in the sector stays behind (`OldInv`). `FilesKept` needs `FilesInv`: the sectors with the
card header, with applications and with the bank at hand have no file of the area that the
operation came upon (`Clear`), and neither has what will be written back to them. The reason is that an area ends a sector, so
that a sector above its header holds none of its files, and that reducing looks for files
in the last sector before it gives it up. `AppsKept` assumes that the user does not format a card that is full of applications:
the code then erases them with the rest of the card, which is finding 3.

`CardIsConsistent` compares three things that the code keeps apart: the count in the card
header, the links from DOR to DOR, and the place of the file area header. They agree between
operations only, and only while nothing failed (`hurt = 0`). `LaidInv` is the
strengthening that `Core` needs beside it. Between operations the card is `InOrder`: the
applications are the banks from `Lowest` up, each linked to the one below (`Linked`); what
is neither application nor in the area is erased (`Vacant`); a header is at the
`Border`, the last bank below the sector of the lowest application (`Placed`); and nothing is
torn (`Intact`). `LaidJob` says what is left of this at each step of an operation: adding a bank
goes from a card in order to one whose new bank is blown but not linked, linked but not counted,
and counted, which differ in the parameters of `Laid` alone; a sector being rewritten will
be in order when it is complete (`Final`); formatting and reducing erase from the
border. There is a lemma for each action. `Dors` follows the links with a recursive function, and is shown to
meet the linked banks and no others. TLC had checked `LaidInv` on the run's
instance before it was proved.

Cards are searched from the top or from the bottom. That a least or greatest bank exists is
proved from the well-foundedness of `<` on the numbers (`LeastElement`), which the library
states as a fact without an operator parameter.

`TargetsTraced` speaks of the prompt; in the middle of a scan it is false. The
induction hypothesis `TraceInv` says where a jump address inside the code, of an
instruction that was met, can be meanwhile: already parsed, being parsed now, or on the
stack with a label that is local (`Accounted`). `LabelsLocal` is why such a label is
never taken for extern, `JobShape` that what is in hand lies in the code, and
`FileClosed` carries the property through the collect file, so that a session that
reads it starts with a closed set. Addresses are put on the stack unless visited,
so visited ones must be accounted for too. That an instruction has one
jump address at most is `InstrForward`; it is what makes the order of the stack immaterial.
No assumption on the user is needed: it holds for untidy ones as well.

`DecodersAgree` goes through the tables, one lemma for each pair: `MainTables`, `EdTables`,
`IndexTables`, `BitTables` compare all 256 entries of the two passes, the rest is the
control flow of the two decoders. The run `Dzasm` meets some forty instructions;
the theorem covers the others, which is what a test would hardly do.

`InsertKeepsPartition` splits on the cases of `InsertArea`; each replaces an element by
one to three that cover the same range (`CutPieces`, `InsertIsCut`), and
`SplicedPartition` carries the order of the others. The hypothesis that the range lies
in one area is what `Tidy` asks of the user, and what pass 1 does unless code runs on
into a known area; without it the statement is false.

What pass 1 of a tidy user puts into the list need not lie in one area: code that nobody
knew yet may run on into code that was parsed before. `SettledInv` is the
invariant that says how far. When an area is put into the list, the scan has come from its start over
instructions that go on (`Walked`), and the search found unknown land at the start (`JobOk`). If it
goes beyond the unknown area it began in, the next area is not unknown, because two
unknown areas never lie side by side (`VoidsApart`), and no data, because
data areas hold no instructions and areas start between instructions (`AreaOk`, `Boundary`). So it is program,
and as a program area ends where its code does (`Stop`) or with
the code, the scan ends in it too (`RunsInto`). What is inserted then replaces parts of two
areas at most, and the cases of `InsertArea` that do not crash keep the order (`PassInserts`).
Each part needs the others: joining areas keeps `VoidsApart` and makes fewer starts,
inserting makes new starts at instructions and between them only. `StackOk`, `PointersRead` and `VectorsRead`
say that what pass 1 is told to follow are instructions or other code, and how far a
table has been read, so that the table can become an area when it is done. `LabelsOk` says
that labels are local in the code and nowhere else, and are addresses of 16 bits, which the
collect file reads them as. `FileOk` carries all of it through the collect file: the areas in it are `Settled`, and
inserting them one by one again gives the same areas. `Saved` is the strengthening of `UnsavedIsFlagged`
in the middle of pass 1: a step that changes what an address is or what labels there are sets the flag,
and joining changes neither.
`StaysResolved` follows from the step: `StillKnown` is proved of each insertion. That
the lists of `JoinAreas` and `Inserted` exist, being recursive functions, is `StepsDefine`, and
they are reasoned about from the first element on. TLC had checked `SettledInv` and `MetInv` on the run's
instance before they were proved.

That pass 2 prints what pass 1 met is a property of the list of areas, since pass 2 sees nothing else.
`SettledInv` knows where areas start, not that the code in a program area has been met.
`MetInv` adds that (`CodeMet`): the bytes of every instruction met lie in program areas or in
the range pass 1 is following (`InRun`), and every byte of these is part of an instruction that was met. It is
inductive only with the types of all addresses in view: an insertion changes the range and nothing else
(`Retyped`), joining changes no type, and what pass 1 inserts when it comes to an end is the
very range it followed. A user who declares bytes as code without parsing them breaks it
(`NoCodeDefined` says he does not, as in the run). `FileMet` carries it through the
collect file. `EvenTables` and `TableWaits` say that words come in twos, which the last line of a DEFW area needs.

From there to the text the argument goes up in three steps. Lines: the disassembler goes forward by four bytes at most
(`PrintedForward`), so that the function `Z80Asm` picks exists (`PrintingExists`), and lines that stand for their bytes, each
beginning where the last one ended, stand for the whole (`LinesStand`). In a program area the first byte begins an instruction
that was met, and behind each such instruction is the next one or the end of the area (`CodeOfArea`); the two
decoders agree on its length (`DecodersAgree`) provided it has a mnemonic (`HaveMnemonics`, which the run's code files
satisfy). Areas: `DataPrinted` goes through the kinds of data. The list: text of
adjacent ranges joins (`StandTogether`, `SplitTogether`), and areas are adjacent (`SourcePrinted`). `InFront` leaves out
remarks behind lines, which make a row of DEFB skip bytes (section 3); for `PassesAgree` they are allowed.
That the assembler can take the text is proved along the same steps: only rows of DEFB and DEFM have `rubbish` at all, and
what these have lies in `Misprints` of the area (section 3), a condition on types, labels, bytes and
remarks that no row boundary enters.

`InOrder` and `SavedWhole` hold for any number of faults and any timing, as long as no
block is turned into EOT (`RemoteAssumption`) and block numbers are taken modulo three
at least (`LineAssumption`). They speak of the receiver's files; that these agree with the
sender rests on the line. `LineInv` says that items under way are in the order of the
sender, none older than the last one acknowledged, and that a block of the file has the
sender's number or the one before. `SenderInv` says that, while the file is not over, the
sender is at the item acknowledged last or at the next one, that an ACK is under
way only in the first case, and only one. `ReceiverInv` ties the receiver's number and the
length of its file to these. A block that has the expected number is then the next item,
because the one before has another number (`NextNum(n) # n`); EOT is accepted at any
time, but only comes when all blocks were acknowledged. This is the argument
why a number of one byte is enough however long the file. `IInv` joins these with the type
invariant and the two properties; the state before the key R is `BeforeStart`.

The theorems about `MthToken` hold for any number of tokens up to the 128 that a table can have,
for tokens and lines of any length, and any scan sequence. `TableAssumption` says of the tables
that load what the program takes for granted (`Sound`): a token is not empty, and is made of known tokens and
not of itself, because `AllocExpandedToken` does not end otherwise. A scan sequence may name codes
that do not exist. `TokenInv` says that the line has a code without token just when the
source has, stands for the same text when it has none (`SameText`), and has no text of a token that has been
passed (`Replaceless`). What is in the way is that the operators are recursive functions: `Replaced` and
`RawString` go through a line, `ExpandedTokens` through the table, `Elements` through what is printed.
That these functions exist is proved with `StepsDefine`, from the well-foundedness of `<`; for
`ExpandedTokens` along the rank of tokens. `ReplacedJoined` then says that texts joined
stand for what they stand for, joined. `ReplacementKeeps` splits the line at the place of the
token with it: a code is put for a text that it stands for. `NoNewPlace` is the reason for `NothingLeft`: a place
of another token in the new line does not touch the code, since an expanded token has no codes in it, so
it was a place in the old line too. `RoundTrip` goes down from the end of a line: behind byte `k`
the reader finds the bytes from `k + 1` on, in a string or after a comma, as the flags of the printer
were (`ReadBehind`); `NoRoundTrip` is the converse, so that among lines without a backslash `Printable` is exact. For the others
`Elements` is no model of the reader, and `ReadBack` goes to phase `escaped` and says nothing of what is read.
`MeaningKept` needs `CodesKnown`, that codes which are in the source already are codes of the table, as in the
run: what another code stands for is not defined, and the program crashes when it prints it.

`FileWhole` of `XYModem` holds for files, blocks and batches of any size, any number of tries, and
whenever keys are pressed; with CRC for any number of faults on the line, of all kinds but one. `LineFits` says
what it takes, all of which the run satisfies. But for the first condition, instances that break one
give TLC a file that is reported as received and is not whole, so that none of these can be dropped
(that a batch has a file, and that a byte holds the number of short blocks in a long one, is in the code):

* Both programs are set to the same protocol, which is up to their users. Programs set to different ones do not understand
  each other; in small instances nothing but whole files is received then either.
* With XModem a file leaves room for one long block below `MaxBlocks`, the number the receiver
  counts down from when it knows no size (32767 blocks, 4 MB): a receiver that has counted to zero cuts
  its blocks.
* When files follow in a batch, not every EOT of one of them can get lost: after `Eots` in vain the sender
  goes on with the next file, whose blocks a receiver that still has the last one open takes for more of
  it.
* No fault turns the first byte of a block into EOT. There is no check on EOT; the receiver takes
  it anywhere.

Of the parts of `LineInv`, `AtWork` is the one that matters. It goes by where the sender is. While it waits
for the answer to a block (`AtBlock`), that block is under way and the receiver has the file up to
it, or the answer is under way and the receiver has the block as well (`Has`); nothing else is, and
never on both lines (`OneSided`). That a block is under way, written, or refused for
good is what fails with checksums, where NAK is an answer that makes the sender go on reading: with CRC the receiver
asks by `C`, which a sender behind its first block does not know. So after a damaged block the sender goes on waiting,
and gives up; the file is not finished, but none is finished wrongly. `Covers` says that the pieces on the
receiver's disk are the file up to a place, `Expects` that what the receiver has counted down is what is
still to come, so that the last block is cut where the file ends (`TakenCount`), and `Counted` is the same of the sender's
count of short blocks, which is how it decides between long and short ones. `AtEot` counts: an open file
behind the end of sending means that each EOT so far met a fault. `Before` is the time until the
receiver is started, and `Ended` the time after the sender has left, when bytes may still
arrive but no EOT. With checksums the line has no faults and the sender is first (`Sound`), and the invariant says more:
either something is under way or it was just asked for (`AskedOnce`, `Answered`). The part about counts of EOTs, and
the condition on batches that follows from it, came out of proof attempts that failed; TLC had checked `LineInv` on two
instances before it was proved.

Only model-checked: `SourceAssembles` of `DzasmSource`, which is false in general and holds for the run's code files:
a reference into the middle of an instruction or of a DEFW has no line to be
defined at, and the last include file does not come back from the collect file; and
liveness, which under fairness is out of the prover's reach. `FileArea` with
faults in headers has no theorem but `TypeCorrect`: the other properties are false there.

## 5. What is not modelled

* Chips: identification, command sequences, VPP. A byte is blown or it is not
  (`RC_BWR`); `RC_VPL` takes the same path in the callers.
* Bank boundaries and buffers inside a copy or a fetch: entries are copied whole.
* A header cut in its middle exists in `FileArea` only; in `FlashStore` a header is
  written completely or its first byte fails.
* Cards that are exchanged while a command runs.
* Names are compared without regard to case by the code; the model takes them to be of
  one case.
* What FlashStore shows: windows, statistics, the cursor, catalogues.
* `FileArea` and `FlashStore` begin with formatted areas; how an area is made and
  shrunk is in `CardUpdate`, where files are units of a bank.
* UV EPROMs, chips with sectors of 16K, file areas above an application area (the
  second watermark of `CheckFileEprHeader`), and chips that RomUpdate finds in
  several slots at once.
* A bank that RomUpdate adds has its DOR at offset 0, so that a link to bank 0 reads as
  the end of the list.
* Updating OZ and loading whole cards (`updtoz.asm`, `loadcard.asm`).
* DZasm: the text of mnemonics and of lines, the format of the collect file, the commands
  that only show things, explicit include files, the front DOR with its applications and
  MTH structures, allocation failures. Its AVL trees are functions.
* mthtoken: the scanner (constants, comments), several lines, reports. Lines with a backslash are
  tokenized and printed as any other; what the reader makes of their escapes is left open.
* What CardUpdate's properties do not reach: `CardConsistent` says nothing of a card once a job on it failed
  or was cut off (`hurt`); after that there are `PassiveKept`, `FilesKept`, `AppsKept`, `BlowsErased` and
  `FormatMakesArea`. `CommandEnds` excepts the stray exit and the scan of a cut list, which do not end. The
  error exit of `feprdcfla.asm:105` is not modelled.
* The sums of `eprtotsp.asm` and `eprfresp.asm` are sums of integers: carries between the registers are not modelled.
* XY-Modem: the streaming mode -G, the bytes of a block one by one, with their timeouts and
  the values of checks (a check never passes by accident), date and time in headers, the
  configuration file, file names and wildcards, the mailbox, a sender that cannot transmit
  or read its file.
* All components that have no module in section 2.

## 6. Plan

In this order, the most important behaviour first:

1. `TransferBlock`: `FileEprTransferBlockSize`, `FlashEprCopyBlock` and the block
   loops of copy and fetch, against a copy of the entry as a whole.
2. `Pools`: `Malloc`, `mfree`, with OZ pools as environment; a block is released to
   the pool it came from; counters agree with the blocks in use.
3. `AvlTree`: insertion and deletion with the rotations of stdlib against sets.
4. `PcLink`: the acknowledged byte channel of EazyLink with timeouts.
5. The rest of RomUpdate: OZ and whole cards.
6. DZasm: the AVL tree in C with its rotations, the front DOR and MTH structures.

Theorems to come: `AvlTree` and `Pools` with their modules; for `XYModem`, that the header fixes how many
blocks a receiver takes whoever sends them.
