----------------------------- MODULE CardUpdate -----------------------------
(***************************************************************************)
(* The operations that change the layout of one flash card, a sector, a     *)
(* header or a bank at a time: formatting and reducing the file area        *)
(* (stdlib), adding and updating applications (RomUpdate), and files saved  *)
(* in between.  Sectors can fail to be erased, banks to be programmed, and  *)
(* the machine can be reset between, or in the middle of, any two of them.  *)
(***************************************************************************)
EXTENDS CardLayout, TLC

CONSTANTS
    Roms,         \* banks of the ROM, if it is the chip in slot 0; else 0
    Intel,        \* an Intel chip, which gets a NULL file
    FormatFull,   \* does the user format a card that is full of applications?
    Retries,      \* attempts to erase a sector: 5
    Faults,       \* what can go wrong: see FaultKinds
    MaxHurt       \* bound: how many jobs it fails

FaultKinds == {"erase", "blow", "ram", "reset"}

\* The chip in slot 0 has 512K, the other half of the slot is RAM.
ASSUME UpdateAssumption ==
    /\ Roms \subseteq 0 .. Banks
    /\ (\E r \in Roms : r > 0) => Banks <= 32
    /\ {Intel, FormatFull} \subseteq BOOLEAN
    /\ Retries \in Nat \ {0}
    /\ Faults \subseteq FaultKinds
    /\ MaxHurt \in Nat

VARIABLES
    card,    \* bank -> what it holds
    pres,    \* bank -> its file in :RAM.-, while the sector is rewritten
    job,     \* the operation that runs
    rom,     \* banks of the ROM on the card, which is in slot 0 then
    hurt     \* history: how often a job failed or was interrupted by a reset

vars == <<card, pres, job, rom, hurt>>

\* bank is where a header or an application goes, image the buffer with what is
\* blown there; sector and left walk along the sectors to erase; words are on
\* the stack above the return address; rest are the preserved banks not yet
\* written back.  History: found, apps and old are the banks of the file
\* area, of the applications, and the preserved banks as the job came upon them.
Jobs ==
    [cmd : {"format", "reduce", "add", "update"},
     pc : {"erase", "refuse", "header", "null", "pick", "top", "install", "link", "count",
           "preserve", "sector", "blow", "restore"},
     then : {"end", "pick", "top", "count"},
     bank : Bank, image : Content, sector : Sector, left : 0 .. Sectors, words : 0 .. 6,
     tries : 0 .. Retries, rest : SUBSET DOMAIN pres,
     found : 0 .. Banks, apps : 0 .. Banks, old : {job.old}]

Ended(result, old) == [pc |-> "idle", result |-> result, old |-> old]
Idle == job.pc = "idle"
Stray == [pc |-> "stray"]

TypeOK ==
    /\ card \in [Bank -> Content]
    /\ DOMAIN pres \subseteq Bank /\ \A b \in DOMAIN pres : pres[b] \in Content
    /\ Idle \/ job = Stray \/ job \in Jobs
    /\ rom \in Roms
    /\ hurt \in 0 .. MaxHurt

\* A card fresh from the shop, or the chip in slot 0 with the ROM in its top banks.
Fresh(banks) ==
    [b \in Bank |->
        IF b < Banks - banks THEN Empty
        ELSE [body |-> Code(IF b = Banks - banks THEN 0 ELSE b - 1),
              top |-> IF b = Top THEN AppHeader(banks) ELSE Code(0)]]

\* The chip with an area below the ROM, which was programmed with it.
WithArea(c) ==
    LET bank == Request(c).bank
    IN  [c EXCEPT ![bank].top = FileHeader(HeaderSize(bank))]

Init ==
    /\ rom \in Roms
    /\ \/ card = Fresh(rom)
       \/ rom > 0 /\ Request(Fresh(rom)).kind = "potential" /\ card = WithArea(Fresh(rom))
    /\ pres = << >>
    /\ job = Ended("none", << >>)
    /\ hurt = 0

MayFail(kind) == kind \in Faults /\ hurt < MaxHurt

NewJob(cmd, pc) ==
    [cmd |-> cmd, pc |-> pc, then |-> "end", bank |-> Top, image |-> Empty, sector |-> Sectors - 1,
     left |-> 0, words |-> 0, tries |-> Retries, rest |-> {},
     found |-> IF Found(card) THEN Request(card).banks ELSE 0, apps |-> AppBanks(card),
     old |-> << >>]

\* A library routine takes its words off the stack and returns: to its caller if
\* these were all.
Return(words, result) == job' = IF job.words = words THEN Ended(result, << >>) ELSE Stray

\* RomUpdate ends after an error message and deletes the files of the banks.
Suicide == job' = Ended("failed", << >>) /\ pres' = << >>

----------------------------------------------------------------------------
\* A file is saved in the area (see FileArea and FlashStore).
SaveFile ==
    /\ Idle /\ Found(card) /\ Free(card) > 0
    /\ LET u == Used(card)
           b == u \div 2
       IN  card' = IF u % 2 = 0 THEN [card EXCEPT ![b].body = Blow(@, Files)]
                                ELSE [card EXCEPT ![b].top = Blow(@, Files)]
    /\ job' = Ended("none", << >>)
    /\ UNCHANGED <<pres, rom, hurt>>

----------------------------------------------------------------------------
\* FlashEprFileFormat: erases an area that was found, or where one could be, and
\* otherwise the card as a whole.  The header of an area is copied to image.
Format ==
    LET area == Request(card)
    IN  /\ Idle
        /\ area.kind = "room" => FormatFull \/ rom > 0
        /\ job' = IF rom > 0 /\ area.kind \in {"none", "room"}
                  THEN [NewJob("format", "refuse") EXCEPT !.words = 6]
                  ELSE [NewJob("format", "erase") EXCEPT
                           !.bank = area.bank, !.sector = SectorOf(area.bank),
                           !.left = area.banks \div SectorBanks, !.words = 3,
                           !.image.top = IF area.kind = "found" THEN card[area.bank].top ELSE Blank]
        /\ UNCHANGED <<card, pres, rom, hurt>>

\* preserve_oz_rom, with one word off the stack, goes to the error exit.
FormatRefused ==
    /\ job.pc = "refuse"
    /\ Return(3, "failed")
    /\ UNCHANGED <<card, pres, rom, hurt>>

\* The loop ends when left comes to 0, however it started.
FormatSector ==
    /\ job.pc = "erase" /\ job.cmd = "format"
    /\ card' = Wipe(card, job.sector)
    /\ job' = IF job.left = 1 THEN [job EXCEPT !.left = 0, !.pc = "header"]
              ELSE [job EXCEPT !.left = (@ + 255) % 256, !.sector = @ - 1]
    /\ UNCHANGED <<pres, rom, hurt>>

----------------------------------------------------------------------------
\* FlashEprReduceFileArea, called by RomUpdate for one sector: the sector with
\* the header is erased and a new header blown that much further down.
ReduceJob(sectors, then) ==
    [NewJob("reduce", "erase") EXCEPT
        !.bank = Request(card).bank - sectors * SectorBanks,
        !.sector = SectorOf(Request(card).bank), !.words = 4, !.then = then]

ReduceSector ==
    /\ job.pc = "erase" /\ job.cmd = "reduce"
    /\ card' = Wipe(card, job.sector)
    /\ job' = [job EXCEPT !.pc = "header", !.words = 3]
    /\ UNCHANGED <<pres, rom, hurt>>

\* Formatting and reducing do not try again.
EraseError ==
    /\ job.pc = "erase" /\ MayFail("erase")
    /\ card' \in {card, Scramble(card, job.sector)}
    /\ Return(IF job.cmd = "format" THEN 3 ELSE 4, "failed")
    /\ hurt' = hurt + 1
    /\ UNCHANGED <<pres, rom>>

\* FlashEprStdFileHeader: the old header, or a new one.
NewHeader == IF job.image.top = Blank THEN FileHeader(HeaderSize(job.bank)) ELSE job.image.top

\* A chip of less than 1 MB is programmed in the upper half of the slot.  EraseBlocks
\* turns to it in every slot; but in slot 0 the upper half is RAM, not the chip.
HeaderAstray == rom > 0 /\ job.cmd = "format"

BlowHeader ==
    /\ job.pc = "header" /\ ~HeaderAstray
    /\ card' = [card EXCEPT ![job.bank].top = Blow(@, NewHeader)]
    /\ CASE job.cmd = "reduce" -> job' = [job EXCEPT !.cmd = "add", !.pc = job.then, !.words = 0, !.bank = Top]
         [] job.cmd = "format" /\ Intel -> job' = [job EXCEPT !.pc = "null"]
         [] OTHER -> Return(3, "formatted")
    /\ UNCHANGED <<pres, rom, hurt>>

\* The header comes out right in the RAM that is there, or there is none.  An Intel
\* chip, with a NULL file, is only in slot 3.
BlowHeaderAstray ==
    /\ job.pc = "header" /\ HeaderAstray
    /\ \E result \in {"formatted", "failed"} : Return(3, result)
    /\ UNCHANGED <<card, pres, rom, hurt>>

SaveNullFile ==
    /\ job.pc = "null"
    /\ card' = [card EXCEPT ![0].body = Blow(@, Files)]
    /\ Return(3, "formatted")
    /\ UNCHANGED <<pres, rom, hurt>>

BlowHeaderError ==
    /\ job.pc \in {"header", "null"} /\ ~HeaderAstray /\ MayFail("blow")
    /\ card' = IF job.pc = "header" THEN [card EXCEPT ![job.bank].top = Torn]
                                    ELSE [card EXCEPT ![0].body = Torn]
    /\ Return(3, "failed")
    /\ hurt' = hurt + 1
    /\ UNCHANGED <<pres, rom>>

----------------------------------------------------------------------------
\* RomUpdate, an application that is not on the card: a bank is added below the
\* others, or at the top of a card that has none.  When there is no bank between
\* applications and file area, the area is reduced first.
AddApp ==
    LET area == Request(card)
        full == area.bank = Top - AppBanks(card)
    IN  /\ Idle /\ rom = 0 /\ SearchEnds(card)
        /\ CASE area.kind = "none" -> job' = NewJob("add", "top")
             [] area.kind = "found" /\ full ->
                    /\ Shrinkable(card, 1)
                    /\ job' = ReduceJob(1, IF AppBanks(card) = 0 THEN "top" ELSE "pick")
             [] OTHER -> AppBanks(card) < Banks /\ job' = NewJob("add", "pick")
        /\ UNCHANGED <<card, pres, rom, hurt>>

\* Slip: the bank is taken as it is.
PickBankUnchecked ==
    /\ job.pc = "pick"
    /\ job' = [job EXCEPT !.pc = "install", !.then = "count", !.bank = Top - AppBanks(card),
                         !.image = [body |-> Code(0), top |-> Code(0)]]
    /\ UNCHANGED <<card, pres, rom, hurt>>

\* exec_add_appbank: the bank must not be in use.
PickBank ==
    /\ job.pc = "pick"
    /\ LET bank == Top - AppBanks(card)
       IN  IF card[bank] = Empty
           THEN /\ job' = [job EXCEPT !.pc = "install", !.then = "count", !.bank = bank,
                                      !.image = [body |-> Code(0), top |-> Code(0)]]
                /\ UNCHANGED pres
           ELSE Suicide
    /\ UNCHANGED <<card, rom, hurt>>

\* newapp_empty_card: the top sector is erased, the bank file brings its card header.
EraseTopSector ==
    /\ job.pc = "top"
    /\ card' = Wipe(card, Sectors - 1)
    /\ job' = [job EXCEPT !.pc = "install", !.then = "end",
                          !.image = [body |-> Code(0), top |-> AppHeader(1)]]
    /\ UNCHANGED <<pres, rom, hurt>>

Install ==
    /\ job.pc = "install"
    /\ card' = [card EXCEPT ![job.bank] = BlowBank(@, job.image)]
    /\ job' = IF job.then = "end" THEN Ended("added", << >>) ELSE [job EXCEPT !.pc = "link"]
    /\ UNCHANGED <<pres, rom, hurt>>

\* The last DOR of the list gets a link to the new one.  ApplRomLastDor does not
\* return when the list does not end.
LinkDor ==
    /\ job.pc = "link" /\ ListEnds(card)
    /\ LET last == LastDor(card)
       IN  job' = [job EXCEPT !.pc = "preserve", !.bank = last,
                              !.image = [card[last] EXCEPT !.body = Code(job.bank)]]
    /\ UNCHANGED <<card, pres, rom, hurt>>

\* The card header counts one more bank.
CountBank ==
    /\ job.pc = "count"
    /\ job' = [job EXCEPT !.pc = "preserve", !.then = "end", !.bank = Top,
                          !.image = [card[Top] EXCEPT !.top = AppHeader(AppBanks(card) + 1)]]
    /\ UNCHANGED <<card, pres, rom, hurt>>

\* try_upd_app: the new version takes over the link of the old one, and the card
\* header when it is in the top bank.
UpdateApp ==
    /\ Idle /\ rom = 0
    /\ \E b \in Dors(card) :
          /\ IsDor(card, b)
          /\ job' = [NewJob("update", "preserve") EXCEPT
                        !.bank = b,
                        !.image = [body |-> Code(NextDor(card, b)),
                                   top |-> IF b = Top THEN card[Top].top ELSE Code(0)]]
    /\ UNCHANGED <<card, pres, rom, hurt>>

----------------------------------------------------------------------------
\* UpdateSector: the other banks of the sector that are in use are saved to RAM,
\* the sector is erased, the bank is blown and the others are restored.
OthersOf(bank) == BanksOf(SectorOf(bank)) \ {bank}

\* Slip: only the banks below are saved.
PassiveBanksBelow(bank) == {b \in OthersOf(bank) : b < bank /\ card[b] # Empty}

PassiveBanks(bank) == {b \in OthersOf(bank) : card[b] # Empty}

PreserveSectorBanks ==
    /\ job.pc = "preserve"
    /\ pres' = [b \in PassiveBanks(job.bank) |-> card[b]]
    /\ job' = [job EXCEPT !.pc = "sector", !.tries = Retries, !.rest = DOMAIN pres',
                          !.old = [b \in OthersOf(job.bank) |-> card[b]]]
    /\ UNCHANGED <<card, rom, hurt>>

\* No room for the files in RAM, which is asked for before a bank is added and for
\* each sector; or their CRC is wrong, which is looked at when they are read back, too.
RamError ==
    /\ job.pc \in {"pick", "preserve", "restore"} /\ MayFail("ram")
    /\ Suicide
    /\ hurt' = hurt + 1
    /\ UNCHANGED <<card, rom>>

EraseSector ==
    /\ job.pc = "sector"
    /\ card' = Wipe(card, SectorOf(job.bank))
    /\ job' = [job EXCEPT !.pc = "blow"]
    /\ UNCHANGED <<pres, rom, hurt>>

\* Slip: the update of the sector is tried again from its start.
EraseSectorErrorFromStart ==
    /\ job.pc \in {"sector", "top"} /\ MayFail("erase")
    /\ card' \in {card, Scramble(card, SectorOf(job.bank))}
    /\ job' = IF job.pc = "top" THEN job ELSE [job EXCEPT !.pc = "preserve"]
    /\ UNCHANGED <<pres, rom, hurt>>

\* EraseSector of RomUpdate tries several times.
EraseSectorError ==
    /\ job.pc \in {"sector", "top"} /\ MayFail("erase")
    /\ card' \in {card, Scramble(card, SectorOf(job.bank))}
    /\ IF job.tries > 1
       THEN job' = [job EXCEPT !.tries = @ - 1] /\ UNCHANGED pres
       ELSE Suicide
    /\ hurt' = IF job.tries > 1 THEN hurt ELSE hurt + 1
    /\ UNCHANGED rom

\* deltmpfiles, when the last bank is back.
SectorDone ==
    /\ pres' = << >>
    /\ job' = IF job.then = "count" THEN [job EXCEPT !.pc = "count", !.rest = {}]
              ELSE Ended(job.cmd, job.old)

BlowBuffer ==
    /\ job.pc = "blow"
    /\ card' = [card EXCEPT ![job.bank] = BlowBank(@, job.image)]
    /\ IF job.rest = {} THEN SectorDone
       ELSE job' = [job EXCEPT !.pc = "restore"] /\ UNCHANGED pres
    /\ UNCHANGED <<rom, hurt>>

NextToRestore == CHOOSE b \in job.rest : \A x \in job.rest : x <= b

RestoreBank ==
    /\ job.pc = "restore"
    /\ LET b == NextToRestore
       IN  /\ card' = [card EXCEPT ![b] = BlowBank(@, pres[b])]
           /\ IF job.rest = {b} THEN SectorDone
              ELSE job' = [job EXCEPT !.rest = @ \ {b}] /\ UNCHANGED pres
    /\ UNCHANGED <<rom, hurt>>

\* A bank that is blown only in part: its last bytes are still as they were.
HalfBlown(bank) ==
    {[card EXCEPT ![bank] = [body |-> Torn, top |-> Torn]], [card EXCEPT ![bank].body = Torn]}
Target == IF job.pc = "restore" THEN NextToRestore ELSE job.bank

BlowError ==
    /\ job.pc \in {"install", "blow", "restore"} /\ MayFail("blow")
    /\ card' \in HalfBlown(Target)
    /\ Suicide
    /\ hurt' = hurt + 1
    /\ UNCHANGED rom

\* A soft reset, in which files in RAM survive, between two steps or in the middle
\* of one.
Reset ==
    /\ ~Idle /\ MayFail("reset")
    /\ \/ UNCHANGED card
       \/ job.pc \in {"install", "blow", "restore"} /\ card' \in HalfBlown(Target)
       \/ job.pc = "header" /\ ~HeaderAstray /\ card' = [card EXCEPT ![job.bank].top = Torn]
       \/ job.pc = "erase" /\ card' = Scramble(card, job.sector)
       \/ job.pc \in {"sector", "top"} /\ card' = Scramble(card, SectorOf(job.bank))
    /\ job' = Ended("reset", IF job = Stray THEN << >> ELSE job.old)
    /\ hurt' = hurt + 1
    /\ UNCHANGED <<pres, rom>>

----------------------------------------------------------------------------
Errors == EraseError \/ BlowHeaderError \/ RamError \/ EraseSectorError \/ BlowError

Step ==
    \/ FormatRefused \/ FormatSector \/ ReduceSector \/ BlowHeader \/ BlowHeaderAstray
    \/ SaveNullFile \/ PickBank \/ EraseTopSector \/ Install \/ LinkDor \/ CountBank
    \/ PreserveSectorBanks \/ EraseSector \/ BlowBuffer \/ RestoreBank
    \/ Errors

Next == SaveFile \/ Format \/ AddApp \/ UpdateApp \/ Step \/ Reset

Spec == Init /\ [][Next]_vars

\* An operation goes on without the user once it has begun.
FairSpec == Spec /\ WF_vars(Step)

----------------------------------------------------------------------------
\* What is blown goes to erased bytes: apart from erasing, only blank units
\* change.  This is what IsBankUsed, the size of the free space and the order
\* erase, blow, restore are for; it holds whatever fails.
BlowsErased ==
    [][job.pc \in {"erase", "sector", "top"} \/
       \A u \in 0 .. 2 * Banks - 1 :
          Unit(card', u) # Unit(card, u) => Unit(card, u) = Blank]_vars

\* Files only go when the user formats, whatever fails: an operation that came
\* upon a file area leaves its files alone, in every step.
FilesKept ==
    [][\A u \in 0 .. 2 * Banks - 1 :
          Unit(card, u) = Files /\ Unit(card', u) # Files =>
              ~Idle /\ (job.cmd = "format" \/ u >= 2 * job.found)]_vars

\* Formatting and reducing leave the banks alone that the card header counts.
AppsKept ==
    [][~Idle /\ job # Stray /\ job.cmd \in {"format", "reduce"} =>
          \A b \in Bank : b >= Banks - job.apps => card'[b] = card[b]]_vars

\* After a format that reports success there is an area without files but the NULL
\* file, whatever happened to the card before; but in slot 0, where success is
\* reported, too, and no header is on the chip (see HeaderAstray).
FormatMakesArea ==
    Idle /\ job.result = "formatted" /\ rom = 0 =>
        LET area == Request(card)
        IN  /\ area.kind = "found" /\ area.banks = area.bank + 1
            /\ Used(card) = IF Intel THEN 1 ELSE 0
            /\ \A u \in Used(card) .. Capacity(card) - 1 : Unit(card, u) = Blank

\* As long as no operation fails, the file area that is on a card is found between
\* operations, is as large as its header says, and has no gaps.
AreaFound ==
    Idle /\ hurt = 0 =>
        /\ \A b \in Bank : card[b].top.is = "oz" =>
              Request(card) = [kind |-> "found", bank |-> b, banks |-> b + 1]
        /\ \A u \in 0 .. 2 * Banks - 1 :
              Unit(card, u) = Files => Found(card) /\ u < Used(card)

\* As long as no operation fails, the banks that the card header counts hold
\* applications, all others none, and the list has all of them; but for bank 0,
\* to which no DOR can be linked.
AppsListed ==
    Idle /\ hurt = 0 =>
        /\ {b \in Bank : IsDor(card, b)} = {b \in Bank : b >= Banks - AppBanks(card)}
        /\ Dors(card) = {b \in Bank : b >= Banks - AppBanks(card)} \ {0}
        /\ AppBanks(card) > 0 => ListEnds(card)

\* Between operations header, file area and application list agree.
CardConsistent == TypeOK /\ AreaFound /\ AppsListed

\* While a sector is rewritten, and after a reset in the middle of it, the other
\* banks of the sector are on the card or in a file in RAM.
PassiveKept ==
    job # Stray =>
        \A b \in DOMAIN job.old :
            \/ job.old[b] \in {Empty, card[b]}
            \/ (b \in DOMAIN pres /\ pres[b] = job.old[b])

\* Every operation ends, if sectors cannot be erased, too; but for a list that
\* leads nowhere.
CommandEnds == ~Idle ~> (Idle \/ job = Stray \/ (job.pc = "link" /\ ~ListEnds(card)))
=============================================================================
