----------------------------- MODULE CardLayout -----------------------------
(***************************************************************************)
(* How a flash card is divided: applications in the top banks, listed from  *)
(* a card header in the last 64 bytes of the top bank; a file area below,   *)
(* with its header in the last 64 bytes of its top bank, which is the last  *)
(* bank of a sector.  Operators on the contents of a card; no state.        *)
(*                                                                          *)
(* A bank is two units: its last 64 bytes ("top"), where headers are, and   *)
(* the rest ("body").  Files fill an area unit by unit from bank 0.         *)
(***************************************************************************)
EXTENDS Naturals, FiniteSets

CONSTANTS
    Sectors,       \* sectors of the chip
    SectorBanks    \* 16K banks of a sector: 4

\* A slot has 1 MB.
ASSUME CardAssumption ==
    /\ Sectors \in Nat \ {0, 1} /\ SectorBanks \in Nat \ {0, 1}
    /\ Sectors * SectorBanks <= 64

Banks == Sectors * SectorBanks
Top == Banks - 1
Bank == 0 .. Top
Sector == 0 .. Sectors - 1

\* What a unit holds.  The body of an application bank has its DOR, linked to
\* the DOR of bank "next"; 0 ends the list.
Blank == [is |-> "blank"]
Files == [is |-> "files"]
Torn == [is |-> "torn"]
Code(next) == [is |-> "code", next |-> next]
FileHeader(banks) == [is |-> "oz", banks |-> banks]
AppHeader(banks) == [is |-> "OZ", banks |-> banks]

Body == {Blank, Files, Torn} \union [is : {"code"}, next : Bank]
TopUnit == Body \union [is : {"oz", "OZ"}, banks : 1 .. Banks]
Content == [body : Body, top : TopUnit]
Empty == [body |-> Blank, top |-> Blank]

SectorOf(bank) == bank \div SectorBanks
BanksOf(sector) == {b \in Bank : SectorOf(b) = sector}

\* Programming can only clear bits: what is blown on a unit that is not erased
\* comes out right if it was the same before.
Blow(old, new) == IF old = Blank \/ old = new THEN new ELSE Torn
BlowBank(old, new) == [body |-> Blow(old.body, new.body), top |-> Blow(old.top, new.top)]

Wipe(c, sector) == [b \in Bank |-> IF SectorOf(b) = sector THEN Empty ELSE c[b]]
Scramble(c, sector) ==
    [b \in Bank |-> IF SectorOf(b) = sector THEN [body |-> Torn, top |-> Torn] ELSE c[b]]

----------------------------------------------------------------------------
\* Banks reserved for applications, 0 if there is no card header.
AppBanks(c) == IF c[Top].top.is = "OZ" THEN c[Top].top.banks ELSE 0

\* Slip: the sector boundary is the one above the lowest application.
RequestRoundUp(c) ==
    LET low == Banks - AppBanks(c)
        bank == IF AppBanks(c) = 0 THEN Top ELSE (SectorOf(low - 1) + 1) * SectorBanks - 1
    IN  IF c[Top].top.is # "oz" /\ AppBanks(c) = 0
        THEN [kind |-> "none", bank |-> Top, banks |-> Banks]
        ELSE IF low < SectorBanks
        THEN [kind |-> "room", bank |-> Top, banks |-> Banks]
        ELSE IF c[bank].top.is = "oz"
        THEN [kind |-> "found", bank |-> bank, banks |-> c[bank].top.banks]
        ELSE [kind |-> "potential", bank |-> bank, banks |-> bank + 1]

\* The file area: "found" with the bank of its header and its banks; "potential"
\* when there is room for one; "room" when there is none; "none" without any header.
Request(c) ==
    LET low == Banks - AppBanks(c)
        bank == IF AppBanks(c) = 0 THEN Top ELSE SectorOf(low) * SectorBanks - 1
    IN  IF c[Top].top.is # "oz" /\ AppBanks(c) = 0
        THEN [kind |-> "none", bank |-> Top, banks |-> Banks]
        ELSE IF low < SectorBanks
        THEN [kind |-> "room", bank |-> Top, banks |-> Banks]
        ELSE IF c[bank].top.is = "oz"
        THEN [kind |-> "found", bank |-> bank, banks |-> c[bank].top.banks]
        ELSE [kind |-> "potential", bank |-> bank, banks |-> bank + 1]

Found(c) == Request(c).kind = "found"

\* Slip: the number of a bank is taken for a size.
HeaderSizeIndex(bank) == IF bank % Banks = 0 THEN Banks ELSE bank % Banks

\* The header of an area made at a bank says how many banks it has.
HeaderSize(bank) == IF (bank + 1) % Banks = 0 THEN Banks ELSE (bank + 1) % Banks

\* Units of an area, the header not counted, and the pointer to the free ones.
Unit(c, u) == IF u % 2 = 0 THEN c[u \div 2].body ELSE c[u \div 2].top
Capacity(c) == 2 * Request(c).banks - 1
Used(c) ==
    CHOOSE u \in 0 .. Capacity(c) :
        /\ u = Capacity(c) \/ Unit(c, u) # Files
        /\ \A v \in 0 .. u - 1 : Unit(c, v) = Files
Free(c) == Capacity(c) - Used(c)

\* Slip: the header of the area counts as free.
ShrinkableWithHeader(c, sectors) == Free(c) + 1 >= sectors * 2 * SectorBanks

\* May the area be reduced by this many sectors?
Shrinkable(c, sectors) == Free(c) >= sectors * 2 * SectorBanks

----------------------------------------------------------------------------
\* The list of applications, from the front DOR in the top bank.
NextDor(c, bank) == c[bank].body.next
IsDor(c, bank) == c[bank].body.is = "code"
Dors(c) ==
    LET dor[n \in 0 .. Banks] ==
            IF n = 0 THEN IF AppBanks(c) = 0 THEN 0 ELSE Top
            ELSE IF dor[n - 1] = 0 \/ ~IsDor(c, dor[n - 1]) THEN dor[n - 1]
            ELSE NextDor(c, dor[n - 1])
    IN  {b \in Bank \ {0} : \E n \in 0 .. Banks : dor[n] = b}

\* The search for a name ends at the last DOR, or at a bank without DOR.  The
\* search for the last DOR stays at a bank without DOR for ever; both do so in a
\* list that has become a circle.
SearchEnds(c) == Dors(c) = {} \/ \E b \in Dors(c) : IsDor(c, b) => NextDor(c, b) = 0
ListEnds(c) == \E b \in Dors(c) : IsDor(c, b) /\ NextDor(c, b) = 0

\* Slip: the front DOR is taken for the last.
FrontDor(c) == Top

LastDor(c) == CHOOSE b \in Dors(c) : IsDor(c, b) /\ NextDor(c, b) = 0
=============================================================================
