--------------------------- MODULE CardUpdateProofs ---------------------------
(***************************************************************************)
(* Proofs about CardUpdate, for cards of every size, every ROM, every       *)
(* number of retries and whatever fails.  Core is the inductive invariant:  *)
(* what a card may look like after any failure (GoodCard, Tidy), and what   *)
(* the running operation knows of it (JobInv).                              *)
(***************************************************************************)
EXTENDS CardUpdate, Integers, WellFoundedInduction, TLAPS

----------------------------------------------------------------------------
(* Banks and sectors *)

LEMMA DivMod ==
    ASSUME NEW n \in Nat \ {0}, NEW b \in Nat
    PROVE  b \div n \in Nat /\ n * (b \div n) <= b /\ b < n * (b \div n) + n
  BY Z3

LEMMA MulMono ==
    ASSUME NEW n \in Nat, NEW i \in Int, NEW j \in Int, i < j
    PROVE  n * i \in Int /\ n * j \in Int /\ n * i + n <= n * j
<1> DEFINE d == j - i - 1
<1>1. d \in Nat /\ j = i + 1 + d
  OBVIOUS
<1>2. n * j = n * i + n + n * d
  BY <1>1
<1>3. n * d >= 0
  BY <1>1
<1> QED  BY <1>2, <1>3

\* The bank that ends a sector.
Ends(b) == b = SectorBanks * SectorOf(b) + SectorBanks - 1

LEMMA Sizes ==
    /\ SectorBanks \in Nat /\ SectorBanks >= 2 /\ Sectors \in Nat /\ Sectors >= 2
    /\ Banks \in Nat /\ Top \in Nat /\ Banks = Top + 1 /\ Top >= SectorBanks
    /\ Bank = 0 .. Top /\ Sectors <= 32
<1>1. SectorBanks \in Nat /\ SectorBanks >= 2 /\ Sectors \in Nat /\ Sectors >= 2
  BY CardAssumption
<1>2. Banks = SectorBanks * Sectors
  BY <1>1 DEF Banks
<1>3. SectorBanks * 1 + SectorBanks <= SectorBanks * Sectors
  BY <1>1, MulMono
<1>4. Sectors * 1 + Sectors <= Sectors * SectorBanks
  BY <1>1, MulMono
<1>5. Sectors <= 32
  BY <1>1, <1>4, CardAssumption
<1> QED  BY <1>1, <1>2, <1>3, <1>5 DEF Top, Bank

\* A bank lies between the first and the last one of its sector.
LEMMA InSector ==
    ASSUME NEW b \in Nat
    PROVE  /\ SectorOf(b) \in Nat
           /\ SectorBanks * SectorOf(b) \in Nat
           /\ SectorBanks * SectorOf(b) <= b /\ b <= SectorBanks * SectorOf(b) + SectorBanks - 1
<1>1. SectorBanks \in Nat \ {0}
  BY Sizes
<1>2. b \div SectorBanks \in Nat /\ SectorBanks * (b \div SectorBanks) <= b
      /\ b < SectorBanks * (b \div SectorBanks) + SectorBanks
  BY <1>1, DivMod
<1>3. SectorBanks * SectorOf(b) \in Nat
  BY <1>1, <1>2 DEF SectorOf
<1> QED  BY <1>1, <1>2, <1>3 DEF SectorOf

\* What lies between the first and the last bank of a sector belongs to it.
LEMMA SectorIs ==
    ASSUME NEW b \in Nat, NEW s \in Int, SectorBanks * s <= b, b < SectorBanks * s + SectorBanks
    PROVE  SectorOf(b) = s
<1>1. /\ SectorBanks \in Nat /\ SectorBanks * s \in Int
      /\ SectorBanks * SectorOf(b) \in Int /\ SectorOf(b) \in Int
  <2>1. SectorBanks \in Nat /\ SectorOf(b) \in Nat /\ SectorBanks * SectorOf(b) \in Nat
    BY Sizes, InSector
  <2> QED  BY <2>1
<1>2. CASE SectorOf(b) < s
  <2>1. SectorBanks * SectorOf(b) + SectorBanks <= SectorBanks * s
    BY <1>1, <1>2, MulMono
  <2> QED  BY <1>1, <2>1, InSector
<1>3. CASE s < SectorOf(b)
  <2>1. SectorBanks * s + SectorBanks <= SectorBanks * SectorOf(b)
    BY <1>1, <1>3, MulMono
  <2> QED  BY <1>1, <2>1, InSector
<1> QED  BY <1>1, <1>2, <1>3

LEMMA SectorMono ==
    ASSUME NEW a \in Nat, NEW b \in Nat, a <= b
    PROVE  SectorOf(a) <= SectorOf(b)
<1>1. /\ SectorOf(a) \in Nat /\ SectorOf(b) \in Nat /\ SectorBanks \in Nat
      /\ SectorBanks * SectorOf(a) \in Nat /\ SectorBanks * SectorOf(b) \in Nat
      /\ SectorBanks * SectorOf(a) <= a /\ b < SectorBanks * SectorOf(b) + SectorBanks
  <2>1. SectorOf(a) \in Nat /\ SectorBanks * SectorOf(a) \in Nat /\ SectorBanks * SectorOf(a) <= a
    BY InSector
  <2>2. /\ SectorOf(b) \in Nat /\ SectorBanks * SectorOf(b) \in Nat
        /\ b <= SectorBanks * SectorOf(b) + SectorBanks - 1
    BY InSector
  <2>3. SectorBanks \in Nat
    BY Sizes
  <2> QED  BY <2>1, <2>2, <2>3
<1>2. CASE SectorOf(b) < SectorOf(a)
  <2>1. SectorBanks * SectorOf(b) + SectorBanks <= SectorBanks * SectorOf(a)
    BY <1>1, <1>2, MulMono
  <2> QED  BY <1>1, <2>1
<1> QED  BY <1>1, <1>2

\* Above the last bank of a sector another one begins.
LEMMA AfterEnd ==
    ASSUME NEW b \in Nat, Ends(b), NEW c \in Nat, b < c
    PROVE  SectorOf(b) < SectorOf(c)
<1>1. SectorOf(b) \in Nat /\ SectorOf(c) \in Nat /\ SectorOf(b) <= SectorOf(c)
  BY InSector, SectorMono
<1>2. CASE SectorOf(b) = SectorOf(c)
  BY <1>2, InSector, Sizes DEF Ends
<1> QED  BY <1>1, <1>2

LEMMA EndOfSector ==
    ASSUME NEW s \in Nat
    PROVE  LET e == SectorBanks * s + SectorBanks - 1
           IN  e \in Nat /\ SectorOf(e) = s /\ Ends(e)
<1> DEFINE e == SectorBanks * s + SectorBanks - 1
<1>1. SectorBanks \in Nat /\ SectorBanks >= 2 /\ SectorBanks * s \in Nat
  BY Sizes
<1>2. e \in Nat /\ SectorBanks * s <= e /\ e < SectorBanks * s + SectorBanks
  BY <1>1
<1>3. SectorOf(e) = s
  BY <1>2, SectorIs
<1> QED  BY <1>2, <1>3 DEF Ends

\* One sector further up or down.
LEMMA NextEnd ==
    ASSUME NEW b \in Nat, Ends(b)
    PROVE  /\ Ends(b + SectorBanks) /\ SectorOf(b + SectorBanks) = SectorOf(b) + 1
           /\ b >= SectorBanks => /\ b - SectorBanks \in Nat /\ Ends(b - SectorBanks)
                                  /\ SectorOf(b - SectorBanks) = SectorOf(b) - 1
<1> DEFINE s == SectorOf(b)
<1>1. s \in Nat /\ SectorBanks \in Nat /\ SectorBanks * s \in Nat /\ SectorBanks >= 2
      /\ b = SectorBanks * s + SectorBanks - 1
  BY InSector, Sizes DEF Ends
<1>2. SectorBanks * (s + 1) = SectorBanks * s + SectorBanks /\ s + 1 \in Nat
  BY <1>1
<1>3. Ends(b + SectorBanks) /\ SectorOf(b + SectorBanks) = s + 1
  <2>1. b + SectorBanks = SectorBanks * (s + 1) + SectorBanks - 1
    BY <1>1, <1>2
  <2> QED  BY <1>2, <2>1, EndOfSector
<1>4. ASSUME b >= SectorBanks
      PROVE  b - SectorBanks \in Nat /\ Ends(b - SectorBanks) /\ SectorOf(b - SectorBanks) = s - 1
  <2>1. s # 0
    BY <1>1, <1>4
  <2>2. s - 1 \in Nat /\ SectorBanks * (s - 1) = SectorBanks * s - SectorBanks
    BY <1>1, <2>1
  <2>3. b - SectorBanks = SectorBanks * (s - 1) + SectorBanks - 1
    BY <1>1, <2>2
  <2> QED  BY <2>2, <2>3, EndOfSector
<1> QED  BY <1>3, <1>4

\* Between the ends of two sectors lies at least a sector.
LEMMA EndsApart ==
    ASSUME NEW b \in Nat, Ends(b), NEW c \in Nat, Ends(c), b < c
    PROVE  b + SectorBanks <= c
<1>1. SectorOf(b) \in Nat /\ SectorOf(c) \in Nat /\ SectorOf(b) < SectorOf(c) /\ SectorBanks \in Nat
  BY InSector, AfterEnd, Sizes
<1>2. SectorBanks * SectorOf(b) + SectorBanks <= SectorBanks * SectorOf(c)
  BY <1>1, MulMono
<1>3. SectorBanks * SectorOf(b) \in Nat /\ SectorBanks * SectorOf(c) \in Nat
  BY InSector
<1> QED  BY <1>1, <1>2, <1>3 DEF Ends

LEMMA TopEnds == Ends(Top) /\ SectorOf(Top) = Sectors - 1 /\ \A b \in Bank : SectorOf(b) \in Sector
<1>1. Sectors - 1 \in Nat /\ Banks = SectorBanks * Sectors /\ SectorBanks \in Nat
  BY Sizes DEF Banks
<1>2. Top = SectorBanks * (Sectors - 1) + SectorBanks - 1
  <2>1. SectorBanks * Sectors = SectorBanks * (Sectors - 1) + SectorBanks
    <3> DEFINE d == Sectors - 1
    <3>1. d \in Nat /\ Sectors = d + 1
      BY Sizes
    <3> HIDE DEF d
    <3>2. SectorBanks * (d + 1) = SectorBanks * d + SectorBanks
      BY <1>1, <3>1
    <3>3. SectorBanks * Sectors = SectorBanks * d + SectorBanks
      BY <3>1, <3>2
    <3> QED  BY <3>3 DEF d
  <2> QED  BY <1>1, <2>1, Sizes DEF Top
<1>3. Ends(Top) /\ SectorOf(Top) = Sectors - 1
  BY <1>1, <1>2, EndOfSector
<1>4. ASSUME NEW b \in Bank PROVE SectorOf(b) \in Sector
  <2>1. b \in Nat /\ b <= Top /\ Top \in Nat
    BY Sizes
  <2>2. SectorOf(b) \in Nat /\ SectorOf(b) <= SectorOf(Top)
    BY <2>1, InSector, SectorMono
  <2> QED  BY <1>1, <1>3, <2>2, Sizes DEF Sector
<1> QED  BY <1>3, <1>4

\* The number of sectors up to the end of one.
LEMMA SectorsUpTo ==
    ASSUME NEW b \in Nat, Ends(b)
    PROVE  (b + 1) \div SectorBanks = SectorOf(b) + 1
<1>1. SectorBanks \in Nat /\ SectorBanks >= 2 /\ SectorOf(b) \in Nat /\ SectorBanks * SectorOf(b) \in Nat
  BY InSector, Sizes
<1>2. SectorBanks * (SectorOf(b) + 1) = SectorBanks * SectorOf(b) + SectorBanks
  BY <1>1
<1>3. b + 1 = SectorBanks * (SectorOf(b) + 1)
  BY <1>1, <1>2 DEF Ends
<1>4. SectorOf(b + 1) = SectorOf(b) + 1
  BY <1>1, <1>3, SectorIs
<1> QED  BY <1>4 DEF SectorOf

LEMMA HeaderSizeIs == ASSUME NEW b \in Bank PROVE HeaderSize(b) = b + 1
<1>1. b \in Nat /\ Banks \in Nat /\ Banks > 0 /\ b + 1 <= Banks
  BY Sizes
<1>2. CASE b + 1 = Banks
  <2>1. Banks % Banks = 0
    BY <1>1, Z3
  <2> QED  BY <1>2, <2>1 DEF HeaderSize
<1>3. CASE b + 1 < Banks
  <2>1. (b + 1) % Banks = b + 1
    BY <1>1, <1>3, Z3
  <2> QED  BY <1>1, <2>1 DEF HeaderSize
<1> QED  BY <1>1, <1>2, <1>3

----------------------------------------------------------------------------
(* What a card may look like, whatever has failed *)

Plain == {Blank, Files, Torn}
HasHeader(c, b) == c[b].top.is = "oz"

\* Below the header of an area there are no applications, and no other header.
Below(c, b) ==
    \A k \in Bank : k <= b => c[k].body \in Plain /\ (k < b => c[k].top \in Plain)

\* A header ends a sector, gives the size of its area, and lies below the banks that the
\* card header counts.
GoodCard(c) ==
    \A b \in Bank : HasHeader(c, b) =>
        /\ Ends(b) /\ c[b].top = FileHeader(b + 1) /\ b < Banks - AppBanks(c)
        /\ Below(c, b)

\* Files fill the units of an area from the first one on.
Packed(c, b) ==
    \A u, v \in 0 .. 2 * b : u < v /\ Unit(c, v) = Files => Unit(c, u) = Files

Boundary(c) == IF AppBanks(c) = 0 THEN Top ELSE SectorBanks * SectorOf(Banks - AppBanks(c)) - 1

\* A card on which some units have been erased or spoiled.
Worn(c, d) ==
    \A b \in Bank : /\ d[b].body \in {c[b].body, Blank, Torn}
                    /\ d[b].top \in {c[b].top, Blank, Torn}

LEMMA Kinds ==
    /\ Blank # Files /\ Blank # Torn /\ Files # Torn
    /\ \A x \in Plain : x.is \notin {"code", "OZ", "oz"}
    /\ Plain \subseteq Body /\ Body \subseteq TopUnit
    /\ \A n \in Bank : Code(n) \in Body /\ Code(n) \notin Plain /\ Code(n).is = "code" /\ Code(n).next = n
    /\ \A n \in 1 .. Banks : /\ FileHeader(n) \in TopUnit /\ AppHeader(n) \in TopUnit
                             /\ FileHeader(n).is = "oz" /\ AppHeader(n).is = "OZ"
                             /\ FileHeader(n).banks = n /\ AppHeader(n).banks = n
    /\ Empty \in Content /\ Empty.body = Blank /\ Empty.top = Blank
  BY DEF Blank, Files, Torn, Plain, Body, TopUnit, Code, FileHeader, AppHeader, Content, Empty

LEMMA HeaderKinds ==
    /\ \A x \in Body : x.is \notin {"OZ", "oz"} /\ (x.is # "code" => x \in Plain)
    /\ \A x \in Body : x.is = "code" => x.next \in Bank
    /\ \A x \in TopUnit : x.is \in {"OZ", "oz"} => x.banks \in 1 .. Banks
    /\ \A x \in TopUnit : x.is = "oz" => x = FileHeader(x.banks)
    /\ \A x \in TopUnit : x.is = "OZ" => x = AppHeader(x.banks)
  BY DEF Blank, Files, Torn, Plain, Body, TopUnit, Code, FileHeader, AppHeader

LEMMA AppBanksIs ==
    ASSUME NEW c \in [Bank -> Content]
    PROVE  /\ AppBanks(c) \in 0 .. Banks
           /\ AppBanks(c) # 0 <=> c[Top].top.is = "OZ"
           /\ AppBanks(c) # 0 => c[Top].top = AppHeader(AppBanks(c))
<1>1. Top \in Bank /\ Banks \in Nat
  BY Sizes
<1>2. c[Top].top \in TopUnit
  BY <1>1 DEF Content
<1>3. CASE c[Top].top.is = "OZ"
  <2>1. c[Top].top.banks \in 1 .. Banks /\ c[Top].top = AppHeader(c[Top].top.banks)
    BY <1>2, <1>3, HeaderKinds
  <2> QED  BY <1>1, <1>3, <2>1 DEF AppBanks
<1>4. CASE c[Top].top.is # "OZ"
  BY <1>1, <1>4 DEF AppBanks
<1> QED  BY <1>3, <1>4

LEMMA WornApps ==
    ASSUME NEW c \in [Bank -> Content], NEW d \in [Bank -> Content], Worn(c, d)
    PROVE  AppBanks(d) \in {0, AppBanks(c)}
<1>1. Top \in Bank
  BY Sizes
<1>2. d[Top].top \in {c[Top].top, Blank, Torn}
  BY <1>1 DEF Worn
<1>3. Blank.is # "OZ" /\ Torn.is # "OZ"
  BY Kinds DEF Plain
<1> QED  BY <1>2, <1>3 DEF AppBanks

LEMMA WornBelow ==
    ASSUME NEW c, NEW d, Worn(c, d), NEW b, Below(c, b)
    PROVE  Below(d, b)
  BY DEF Worn, Below, Plain

LEMMA WornGood ==
    ASSUME NEW c \in [Bank -> Content], NEW d \in [Bank -> Content], Worn(c, d), GoodCard(c)
    PROVE  GoodCard(d)
<1> SUFFICES ASSUME NEW b \in Bank, HasHeader(d, b)
             PROVE  /\ Ends(b) /\ d[b].top = FileHeader(b + 1) /\ b < Banks - AppBanks(d)
                    /\ Below(d, b)
  BY DEF GoodCard
<1>1. d[b].top = c[b].top
  BY Kinds DEF Worn, HasHeader, Plain
<1>2. /\ Ends(b) /\ c[b].top = FileHeader(b + 1) /\ b < Banks - AppBanks(c)
      /\ Below(c, b)
  BY <1>1 DEF GoodCard, HasHeader
<1>3. AppBanks(d) \in {0, AppBanks(c)}
  BY WornApps
<1>4. b < Banks - AppBanks(d)
  BY <1>2, <1>3, Sizes
<1> QED  BY <1>1, <1>2, <1>4, WornBelow

LEMMA WearIsWorn ==
    ASSUME NEW c \in [Bank -> Content]
    PROVE  /\ \A s : Wipe(c, s) \in [Bank -> Content] /\ Worn(c, Wipe(c, s))
           /\ \A s : Scramble(c, s) \in [Bank -> Content] /\ Worn(c, Scramble(c, s))
           /\ \A b \in Bank : LET d == [c EXCEPT ![b] = [body |-> Torn, top |-> Torn]]
                              IN  d \in [Bank -> Content] /\ Worn(c, d)
           /\ \A b \in Bank : LET d == [c EXCEPT ![b].body = Torn]
                              IN  d \in [Bank -> Content] /\ Worn(c, d)
           /\ \A b \in Bank : LET d == [c EXCEPT ![b].top = Torn]
                              IN  d \in [Bank -> Content] /\ Worn(c, d)
<1>1. Torn \in Body /\ Torn \in TopUnit /\ Empty \in Content /\ Empty.body = Blank /\ Empty.top = Blank
  BY Kinds DEF Plain
<1>2. [body |-> Torn, top |-> Torn] \in Content
  BY <1>1 DEF Content
<1>3. \A b \in Bank : c[b] \in Content
  OBVIOUS
<1>4. \A s : Wipe(c, s) \in [Bank -> Content] /\ Worn(c, Wipe(c, s))
  BY <1>1, <1>3 DEF Wipe, Worn
<1>5. \A s : Scramble(c, s) \in [Bank -> Content] /\ Worn(c, Scramble(c, s))
  BY <1>2, <1>3 DEF Scramble, Worn
<1>6. ASSUME NEW b \in Bank, NEW x \in Content,
             x.body \in {c[b].body, Torn}, x.top \in {c[b].top, Torn}
      PROVE  [c EXCEPT ![b] = x] \in [Bank -> Content] /\ Worn(c, [c EXCEPT ![b] = x])
  BY <1>6 DEF Worn
<1>7. ASSUME NEW b \in Bank
      PROVE  /\ [c[b] EXCEPT !.body = Torn] \in Content /\ [c[b] EXCEPT !.top = Torn] \in Content
             /\ [c[b] EXCEPT !.body = Torn].body = Torn /\ [c[b] EXCEPT !.body = Torn].top = c[b].top
             /\ [c[b] EXCEPT !.top = Torn].body = c[b].body /\ [c[b] EXCEPT !.top = Torn].top = Torn
  BY <1>1, <1>3 DEF Content
<1>8. \A b \in Bank : /\ [c EXCEPT ![b].body = Torn] = [c EXCEPT ![b] = [c[b] EXCEPT !.body = Torn]]
                      /\ [c EXCEPT ![b].top = Torn] = [c EXCEPT ![b] = [c[b] EXCEPT !.top = Torn]]
  OBVIOUS
<1> QED  BY <1>2, <1>4, <1>5, <1>6, <1>7, <1>8

----------------------------------------------------------------------------
(* The running operation *)

Tidy(c) == \A b \in Bank : HasHeader(c, b) => Packed(c, b)
NoFiles(x) == x.body # Files /\ x.top # Files
Running == job.pc \notin {"idle", "stray"}
Applying == {"preserve", "sector", "blow", "restore"}
Rewriting == job.pc \in {"sector", "blow", "restore"}

\* The card when the sector that is being rewritten is complete again.
Final ==
    [b \in Bank |-> IF b = job.bank THEN job.image
                    ELSE IF Rewriting /\ b \in OthersOf(job.bank) THEN job.old[b] ELSE card[b]]

\* Formatting: the area ends at a boundary where no header is above it; the sectors from
\* there down to the one at hand are erased, and all of them when the header is blown.
FormatInv ==
    job.cmd = "format" =>
        /\ job.pc \in {"refuse", "erase", "header", "null"}
        /\ job.pc # "refuse" =>
             /\ job.words = 3 /\ Ends(job.bank)
             /\ job.bank = Top \/ (AppBanks(card) > 0 /\ Boundary(card) = job.bank)
             /\ job.image.top \in {Blank, FileHeader(job.bank + 1)}
             /\ \A b \in Bank : b > job.bank => ~HasHeader(card, b)
             /\ ~FormatFull => job.bank < Banks - job.apps
        /\ job.pc = "erase" =>
             /\ job.left = job.sector + 1 /\ job.sector <= SectorOf(job.bank)
             /\ \A b \in Bank : b <= job.bank /\ SectorOf(b) > job.sector => card[b] = Empty
        /\ job.pc = "header" => \A b \in Bank : b <= job.bank => card[b] = Empty
        /\ job.pc = "null" =>
             /\ card[job.bank].body = Blank /\ card[job.bank].top = FileHeader(job.bank + 1)
             /\ \A b \in Bank : b < job.bank => card[b] = Empty

\* Reducing: nothing of the files is in the sector that is given up, nor where the new
\* header goes.
ReduceInv ==
    job.cmd = "reduce" =>
        /\ job.pc \in {"erase", "header"}
        /\ job.bank + SectorBanks \in Bank /\ Ends(job.bank)
        /\ job.image.top = Blank
        /\ job.bank + SectorBanks = Top - AppBanks(card)
        /\ job.found = job.bank + SectorBanks + 1 /\ job.apps = AppBanks(card)
        /\ job.then = IF AppBanks(card) = 0 THEN "top" ELSE "pick"
        /\ Below(card, job.bank) /\ Packed(card, job.bank)
        /\ card[job.bank].top \in {Blank, Torn}
        /\ \A k \in Bank : job.bank < k /\ k <= job.bank + SectorBanks => NoFiles(card[k])
        /\ job.pc = "erase" =>
              /\ job.words = 4 /\ job.sector = SectorOf(job.bank + SectorBanks)
              /\ HasHeader(card, job.bank + SectorBanks)
        /\ job.pc = "header" =>
              /\ job.words = 3
              /\ \A b \in Bank : ~HasHeader(card, b)
              /\ \A b \in Bank : SectorOf(b) = SectorOf(job.bank + SectorBanks) => card[b] = Empty

\* Adding and updating: the new bank is free, and below those that the card header counts
\* until it is counted; a sector is rewritten for an application or the card header.
AddInv ==
    job.cmd \in {"add", "update"} =>
        /\ job.pc \in {"pick", "top", "install", "link", "count"} \union Applying
        /\ job.cmd = "update" => job.pc \in Applying /\ job.then = "end"
        /\ job.pc = "pick" => AppBanks(card) \in 1 .. Banks - 1
        /\ job.pc = "top" => job.bank = Top
        /\ job.pc = "install" =>
              /\ card[job.bank] = Empty
              /\ \/ /\ job.then = "end" /\ job.bank = Top
                    /\ job.image = [body |-> Code(0), top |-> AppHeader(1)]
                 \/ /\ job.then = "count" /\ AppBanks(card) \in 1 .. Banks - 1
                    /\ job.bank = Top - AppBanks(card)
                    /\ job.image = [body |-> Code(0), top |-> Code(0)]
        /\ job.pc \in {"link", "count"} =>
              /\ job.then = "count" /\ AppBanks(card) \in 1 .. Banks - 1
              /\ IsDor(card, Top - AppBanks(card))
        /\ job.pc = "link" => job.bank = Top - AppBanks(card)
        /\ job.pc \in Applying =>
              /\ job.then \in {"end", "count"}
              /\ job.image.body.is = "code" \/ (job.bank = Top /\ job.image.top.is = "OZ")
              /\ GoodCard(Final)
              /\ job.then = "count" =>
                     /\ AppBanks(Final) \in 1 .. Banks - 1
                     /\ IsDor(Final, Top - AppBanks(Final))

\* A sector is erased and blown with all its banks in RAM.
RewriteInv ==
    Rewriting =>
        /\ DOMAIN job.old = OthersOf(job.bank)
        /\ DOMAIN pres = {b \in OthersOf(job.bank) : job.old[b] # Empty}
        /\ \A b \in DOMAIN pres : pres[b] = job.old[b]
        /\ job.pc \in {"sector", "blow"} => job.rest = DOMAIN pres
        /\ job.pc = "blow" => \A b \in BanksOf(SectorOf(job.bank)) : card[b] = Empty
        /\ job.pc = "restore" =>
              /\ card[job.bank] = job.image /\ job.rest # {}
              /\ \A b \in OthersOf(job.bank) : card[b] = IF b \in job.rest THEN Empty ELSE job.old[b]

JobInv == Running => FormatInv /\ ReduceInv /\ AddInv /\ RewriteInv
Core == TypeOK /\ GoodCard(card) /\ Tidy(card) /\ JobInv

\* Between operations a history of what was in a sector only stays behind when the
\* operation was to preserve it.
OldInv ==
    job.pc \in {"erase", "refuse", "header", "null", "pick", "top", "install", "link"} => job.old = << >>

----------------------------------------------------------------------------
(* Least elements *)

Before == {ss \in Nat \X Nat : ss[1] < ss[2]}

LEMMA BeforeWellFounded == IsWellFoundedOn(Before, Nat)
  BY NatLessThanWellFounded DEF OpToRel, Before

LEMMA LeastElement ==
    ASSUME NEW T, T \subseteq Nat, T # {}
    PROVE  \E x \in T : \A y \in T : x <= y
<1>1. PICK x \in T : \A y \in T : ~ (<<y, x>> \in Before)
  BY BeforeWellFounded, WFMin
<1>2. \A y \in T : y < x => <<y, x>> \in Before
  BY DEF Before
<1>3. \A y \in T : ~ (y < x)
  BY <1>1, <1>2
<1> QED  BY <1>3

----------------------------------------------------------------------------
(* Units *)

LEMMA Halves ==
    /\ \A u \in Nat : u \div 2 \in Nat /\ u % 2 \in {0, 1} /\ u = 2 * (u \div 2) + (u % 2)
    /\ \A b \in Nat : (2 * b) % 2 = 0 /\ (2 * b) \div 2 = b /\ (2 * b + 1) % 2 = 1 /\ (2 * b + 1) \div 2 = b
<1>1. ASSUME NEW u \in Nat
      PROVE  u \div 2 \in Nat /\ u % 2 \in {0, 1} /\ u = 2 * (u \div 2) + (u % 2)
  BY Z3
<1>2. ASSUME NEW b \in Nat
      PROVE  (2 * b) % 2 = 0 /\ (2 * b) \div 2 = b /\ (2 * b + 1) % 2 = 1 /\ (2 * b + 1) \div 2 = b
  BY Z3
<1> QED  BY <1>1, <1>2

LEMMA UnitIs ==
    ASSUME NEW c, NEW b \in Nat
    PROVE  Unit(c, 2 * b) = c[b].body /\ Unit(c, 2 * b + 1) = c[b].top
  BY Halves DEF Unit

\* The units up to the body of a bank are those of the banks below, and its body.
LEMMA UnitsTo ==
    ASSUME NEW c, NEW h \in Nat, NEW u \in 0 .. 2 * h
    PROVE  \E k \in 0 .. h : \/ u = 2 * k /\ Unit(c, u) = c[k].body
                             \/ k < h /\ u = 2 * k + 1 /\ Unit(c, u) = c[k].top
<1> DEFINE k == u \div 2
<1>1. k \in Nat /\ (u = 2 * k \/ u = 2 * k + 1)
  BY Halves
<1>2. k \in 0 .. h /\ (u = 2 * k + 1 => k < h)
  BY <1>1
<1> HIDE DEF k
<1> QED  BY <1>1, <1>2, UnitIs

LEMMA SameUnits ==
    ASSUME NEW c, NEW d, NEW h \in Nat,
           \A k \in 0 .. h : d[k].body = c[k].body /\ (k < h => d[k].top = c[k].top)
    PROVE  \A u \in 0 .. 2 * h : Unit(d, u) = Unit(c, u)
<1> SUFFICES ASSUME NEW u \in 0 .. 2 * h PROVE Unit(d, u) = Unit(c, u)
  OBVIOUS
<1>1. PICK k \in 0 .. h : \/ u = 2 * k /\ Unit(c, u) = c[k].body
                          \/ k < h /\ u = 2 * k + 1 /\ Unit(c, u) = c[k].top
  BY UnitsTo
<1>2. Unit(d, 2 * k) = d[k].body /\ Unit(d, 2 * k + 1) = d[k].top
  BY UnitIs
<1> QED  BY <1>1, <1>2

LEMMA SamePacked ==
    ASSUME NEW c, NEW d, NEW h \in Nat, Packed(c, h),
           \A k \in 0 .. h : d[k].body = c[k].body /\ (k < h => d[k].top = c[k].top)
    PROVE  Packed(d, h)
<1>1. \A u \in 0 .. 2 * h : Unit(d, u) = Unit(c, u)
  BY SameUnits
<1> QED  BY <1>1 DEF Packed

\* Where no unit has files, they are packed.
LEMMA NoneIsPacked ==
    ASSUME NEW d, NEW h \in Nat, \A k \in 0 .. h : d[k].body # Files /\ (k < h => d[k].top # Files)
    PROVE  Packed(d, h)
<1> SUFFICES ASSUME NEW v \in 0 .. 2 * h, Unit(d, v) = Files PROVE FALSE
  BY DEF Packed
<1>1. PICK k \in 0 .. h : \/ v = 2 * k /\ Unit(d, v) = d[k].body
                          \/ k < h /\ v = 2 * k + 1 /\ Unit(d, v) = d[k].top
  BY UnitsTo
<1> QED  BY <1>1

LEMMA SmallerPacked ==
    ASSUME NEW c, NEW h \in Nat, Packed(c, h), NEW i \in Nat, i <= h
    PROVE  Packed(c, i)
  BY DEF Packed

\* A card that wears out above its headers stays in order.
LEMMA WornTidy ==
    ASSUME NEW c \in [Bank -> Content], NEW d \in [Bank -> Content], Worn(c, d), GoodCard(c), Tidy(c),
           \A h \in Bank : HasHeader(d, h) =>
              \A k \in Bank : k <= h => d[k].body = c[k].body /\ (k < h => d[k].top = c[k].top)
    PROVE  GoodCard(d) /\ Tidy(d)
<1>1. GoodCard(d)
  BY WornGood
<1>2. ASSUME NEW h \in Bank, HasHeader(d, h) PROVE Packed(d, h)
  <2>1. HasHeader(c, h)
    BY <1>2, Kinds DEF Worn, HasHeader, Plain
  <2>2. Packed(c, h)
    BY <2>1 DEF Tidy
  <2>3. h \in Nat /\ \A k \in 0 .. h : k \in Bank
    BY Sizes
  <2>4. \A k \in 0 .. h : d[k].body = c[k].body /\ (k < h => d[k].top = c[k].top)
    BY <1>2, <2>3
  <2> QED  BY <2>2, <2>3, <2>4, SamePacked
<1> QED  BY <1>1, <1>2 DEF Tidy

LEMMA HeaderlessTidy ==
    ASSUME NEW d, \A b \in Bank : ~HasHeader(d, b)
    PROVE  GoodCard(d) /\ Tidy(d)
  BY DEF GoodCard, Tidy

\* Of two headers of a card one would be below the other.
LEMMA OneHeader ==
    ASSUME NEW c, GoodCard(c), NEW a \in Bank, NEW b \in Bank, HasHeader(c, a), HasHeader(c, b)
    PROVE  a = b
<1>1. ASSUME NEW x \in Bank, NEW y \in Bank, HasHeader(c, x), HasHeader(c, y), x < y PROVE FALSE
  <2>1. c[x].top \in Plain
    BY <1>1, Sizes DEF GoodCard, Below
  <2> QED  BY <1>1, <2>1, Kinds DEF HasHeader
<1> QED  BY <1>1, Sizes

LEMMA BlowIs ==
    /\ \A x : Blow(Blank, x) = x
    /\ \A x, y : Blow(x, y) \in {y, Torn}
    /\ \A x \in Content : BlowBank(Empty, x) = x
<1>1. \A x : Blow(Blank, x) = x
  BY DEF Blow
<1>2. \A x, y : Blow(x, y) \in {y, Torn}
  BY DEF Blow
<1>3. ASSUME NEW x \in Content PROVE BlowBank(Empty, x) = x
  BY <1>1, <1>3 DEF BlowBank, Empty, Content
<1> QED  BY <1>1, <1>2, <1>3

LEMMA JobTyped ==
    ASSUME TypeOK, Running
    PROVE  /\ job \in Jobs
           /\ job.cmd \in {"format", "reduce", "add", "update"}
           /\ job.pc \in {"erase", "refuse", "header", "null", "pick", "top", "install", "link", "count",
                          "preserve", "sector", "blow", "restore"}
           /\ job.then \in {"end", "pick", "top", "count"}
           /\ job.bank \in Bank /\ job.image \in Content /\ job.sector \in Sector
           /\ job.left \in 0 .. Sectors /\ job.words \in 0 .. 6 /\ job.tries \in 0 .. Retries
           /\ job.rest \subseteq DOMAIN pres /\ job.found \in 0 .. Banks /\ job.apps \in 0 .. Banks
<1>1. job \in Jobs
  BY DEF TypeOK, Running, Idle, Stray
<1> QED  BY <1>1 DEF Jobs

\* What has to be shown where an operation ends.
LEMMA EndStep ==
    ASSUME card' \in [Bank -> Content], GoodCard(card'), Tidy(card'),
           DOMAIN pres' \subseteq Bank, \A b \in DOMAIN pres' : pres'[b] \in Content,
           job' = Stray \/ \E result, old : job' = Ended(result, old),
           rom' \in Roms, hurt' \in 0 .. MaxHurt
    PROVE  Core'
<1>1. job'.pc \in {"idle", "stray"} /\ (job'.pc = "idle" \/ job' = Stray)
  BY DEF Stray, Ended
<1>2. TypeOK'
  BY <1>1 DEF TypeOK, Idle, Stray
<1>3. JobInv'
  BY <1>1 DEF JobInv, Running
<1> QED  BY <1>2, <1>3 DEF Core

\* A job that fails leaves the count of failures in its range.
LEMMA HurtTyped ==
    ASSUME TypeOK, NEW kind, MayFail(kind)
    PROVE  hurt + 1 \in 0 .. MaxHurt
  BY UpdateAssumption DEF TypeOK, MayFail

LEMMA CoreTyped ==
    ASSUME Core
    PROVE  /\ TypeOK /\ GoodCard(card) /\ Tidy(card) /\ JobInv
           /\ card \in [Bank -> Content] /\ rom \in Roms /\ hurt \in 0 .. MaxHurt
           /\ DOMAIN pres \subseteq Bank /\ \A b \in DOMAIN pres : pres[b] \in Content
  BY DEF Core, TypeOK

LEMMA NoFilesOfBanks == DOMAIN << >> = {}
  OBVIOUS

----------------------------------------------------------------------------
(* What goes wrong leaves the card in order *)

\* The sector lies above all headers, or has the last one.
LEMMA SectorWears ==
    ASSUME NEW c \in [Bank -> Content], GoodCard(c), Tidy(c), NEW s,
           \A h \in Bank : HasHeader(c, h) => SectorOf(h) <= s,
           NEW d, d \in {Wipe(c, s), Scramble(c, s)}
    PROVE  /\ d \in [Bank -> Content] /\ GoodCard(d) /\ Tidy(d)
           /\ \A b \in Bank : SectorOf(b) # s => d[b] = c[b]
           /\ \A b \in Bank : HasHeader(d, b) => HasHeader(c, b) /\ SectorOf(b) # s
<1>1. d \in [Bank -> Content] /\ Worn(c, d)
  BY WearIsWorn
<1>2. \A b \in Bank : SectorOf(b) # s => d[b] = c[b]
  BY DEF Wipe, Scramble
<1>3. \A b \in Bank : SectorOf(b) = s => d[b].top \in {Blank, Torn}
  BY DEF Wipe, Scramble, Empty
<1>4. \A b \in Bank : HasHeader(d, b) => HasHeader(c, b) /\ SectorOf(b) # s
  BY <1>2, <1>3, Kinds DEF HasHeader, Plain
<1>5. ASSUME NEW h \in Bank, HasHeader(d, h), NEW k \in Bank, k <= h PROVE d[k] = c[k]
  <2>1. SectorOf(h) <= s /\ SectorOf(h) # s
    BY <1>4, <1>5
  <2>2. k \in Nat /\ h \in Nat
    BY Sizes
  <2>3. SectorOf(k) <= SectorOf(h)
    BY <1>5, <2>2, SectorMono
  <2>4. SectorOf(k) # s
    <3>1. SUFFICES ASSUME SectorOf(k) = s PROVE FALSE
      OBVIOUS
    <3>2. SectorOf(k) \in Nat /\ SectorOf(h) \in Nat
      BY <2>2, InSector
    <3> QED  BY <3>1, <3>2, <2>1, <2>3
  <2> QED  BY <1>2, <2>4
<1>6. GoodCard(d) /\ Tidy(d)
  BY <1>1, <1>5, WornTidy
<1> QED  BY <1>1, <1>2, <1>4, <1>6

LEMMA EraseBelow ==
    ASSUME Core, job.pc = "erase"
    PROVE  /\ job.cmd \in {"format", "reduce"}
           /\ \A h \in Bank : HasHeader(card, h) => SectorOf(h) <= job.sector
           /\ job.cmd = "reduce" => \A h \in Bank : HasHeader(card, h) => SectorOf(h) = job.sector
<1>1. /\ FormatInv /\ ReduceInv /\ AddInv /\ TypeOK /\ GoodCard(card) /\ Running
  BY DEF Core, JobInv, Running
<1>2. job.cmd \in {"format", "reduce"}
  BY <1>1, JobTyped DEF AddInv, Applying
<1>3. CASE job.cmd = "format"
  <2>1. /\ \A b \in Bank : b > job.bank => ~HasHeader(card, b)
        /\ \A b \in Bank : b <= job.bank /\ SectorOf(b) > job.sector => card[b] = Empty
    BY <1>1, <1>3 DEF FormatInv
  <2>2. ASSUME NEW h \in Bank, HasHeader(card, h) PROVE SectorOf(h) <= job.sector
    <3>1. h <= job.bank /\ h \in Nat
      BY <2>1, <2>2, <1>1, JobTyped, Sizes
    <3>2. ~(SectorOf(h) > job.sector)
      BY <2>1, <2>2, <3>1, Kinds DEF HasHeader, Plain
    <3>3. SectorOf(h) \in Nat
      BY <3>1, InSector
    <3>4. job.sector \in Nat
      BY <1>1, JobTyped, Sizes DEF Sector
    <3> QED  BY <3>2, <3>3, <3>4
  <2> QED  BY <1>3, <2>2
<1>4. CASE job.cmd = "reduce"
  <2>1. /\ job.bank + SectorBanks \in Bank /\ HasHeader(card, job.bank + SectorBanks)
        /\ job.sector = SectorOf(job.bank + SectorBanks)
    BY <1>1, <1>4 DEF ReduceInv
  <2>2. ASSUME NEW h \in Bank, HasHeader(card, h) PROVE SectorOf(h) = job.sector
    BY <1>1, <2>1, <2>2, OneHeader
  <2>3. job.sector \in Nat
    BY <1>1, JobTyped, Sizes DEF Sector
  <2> QED  BY <1>4, <2>2, <2>3
<1> QED  BY <1>2, <1>3, <1>4

LEMMA EraseWears ==
    ASSUME Core, job.pc = "erase", NEW d, d \in {Wipe(card, job.sector), Scramble(card, job.sector)}
    PROVE  /\ d \in [Bank -> Content] /\ GoodCard(d) /\ Tidy(d)
           /\ \A b \in Bank : SectorOf(b) # job.sector => d[b] = card[b]
           /\ \A b \in Bank : HasHeader(d, b) => HasHeader(card, b) /\ SectorOf(b) # job.sector
  BY EraseBelow, CoreTyped, SectorWears

LEMMA TopWears ==
    ASSUME Core, job.pc = "top", NEW d, d \in {Wipe(card, SectorOf(Top)), Scramble(card, SectorOf(Top))}
    PROVE  /\ d \in [Bank -> Content] /\ GoodCard(d) /\ Tidy(d)
           /\ \A b \in Bank : SectorOf(b) # SectorOf(Top) => d[b] = card[b]
           /\ \A b \in Bank : HasHeader(d, b) => HasHeader(card, b) /\ SectorOf(b) # SectorOf(Top)
<1>1. \A h \in Bank : SectorOf(h) <= SectorOf(Top)
  BY SectorMono, Sizes
<1> QED  BY <1>1, CoreTyped, SectorWears

\* Where the header of an area goes, there is none.
LEMMA NoHeaderYet ==
    ASSUME Core, job.pc = "header"
    PROVE  /\ job.cmd \in {"format", "reduce"} /\ job.words = 3
           /\ \A b \in Bank : ~HasHeader(card, b)
           /\ card[job.bank].top \in {Blank, Torn}
<1>1. /\ FormatInv /\ ReduceInv /\ AddInv /\ TypeOK /\ Running
  BY DEF Core, JobInv, Running
<1>2. job.cmd \in {"format", "reduce"}
  BY <1>1, JobTyped DEF AddInv, Applying
<1>3. CASE job.cmd = "format"
  <2>1. /\ \A b \in Bank : b > job.bank => ~HasHeader(card, b)
        /\ \A b \in Bank : b <= job.bank => card[b] = Empty
        /\ job.words = 3
    BY <1>1, <1>3 DEF FormatInv
  <2>2. \A b \in Bank : b <= job.bank => ~HasHeader(card, b)
    BY <2>1, Kinds DEF HasHeader, Plain
  <2>3. job.bank \in Bank /\ card[job.bank] = Empty
    BY <2>1, <1>1, JobTyped, Sizes
  <2>4. \A b \in Bank : b > job.bank \/ b <= job.bank
    BY <2>3, Sizes
  <2> QED  BY <1>3, <2>1, <2>2, <2>3, <2>4, Kinds
<1>4. CASE job.cmd = "reduce"
  BY <1>1, <1>4 DEF ReduceInv
<1> QED  BY <1>2, <1>3, <1>4

LEMMA NullAfterHeader ==
    ASSUME Core, job.pc = "null"
    PROVE  /\ job.cmd = "format" /\ job.words = 3 /\ Ends(job.bank)
           /\ job.bank \in Nat /\ 0 < job.bank /\ 0 \in Bank
           /\ card[job.bank].body = Blank /\ card[job.bank].top = FileHeader(job.bank + 1)
           /\ \A b \in Bank : b < job.bank => card[b] = Empty
           /\ \A b \in Bank : HasHeader(card, b) => b = job.bank
<1>1. /\ FormatInv /\ ReduceInv /\ AddInv /\ TypeOK /\ Running /\ GoodCard(card)
  BY DEF Core, JobInv, Running
<1>2. job.cmd = "format" /\ job.bank \in Bank
  BY <1>1, JobTyped DEF AddInv, ReduceInv, Applying
<1>3. /\ job.words = 3 /\ Ends(job.bank)
      /\ card[job.bank].body = Blank /\ card[job.bank].top = FileHeader(job.bank + 1)
      /\ \A b \in Bank : b < job.bank => card[b] = Empty
  BY <1>1, <1>2 DEF FormatInv
<1>4. job.bank \in Nat /\ 0 \in Bank /\ job.bank + 1 \in 1 .. Banks
  BY <1>2, Sizes
<1>5. 0 < job.bank
  <2>1. SectorBanks * SectorOf(job.bank) \in Nat /\ SectorBanks \in Nat /\ SectorBanks >= 2
    BY <1>4, InSector, Sizes
  <2> QED  BY <1>3, <1>4, <2>1 DEF Ends
<1>6. HasHeader(card, job.bank)
  BY <1>3, <1>4, Kinds DEF HasHeader
<1>7. \A b \in Bank : HasHeader(card, b) => b = job.bank
  BY <1>1, <1>2, <1>6, OneHeader
<1> QED  BY <1>2, <1>3, <1>4, <1>5, <1>7

LEMMA HeaderWears ==
    ASSUME Core, NEW d,
           \/ job.pc = "header" /\ d = [card EXCEPT ![job.bank].top = Torn]
           \/ job.pc = "null" /\ d = [card EXCEPT ![0].body = Torn]
    PROVE  d \in [Bank -> Content] /\ GoodCard(d) /\ Tidy(d)
<1>1. card \in [Bank -> Content] /\ GoodCard(card) /\ Tidy(card) /\ TypeOK
  BY CoreTyped
<1>2. job.bank \in Bank /\ 0 \in Bank
  <2>1. Running
    BY DEF Running
  <2> QED  BY <1>1, <2>1, JobTyped, Sizes
<1>3. d \in [Bank -> Content] /\ Worn(card, d)
  BY <1>1, <1>2, WearIsWorn
<1>4. \A b \in Bank : HasHeader(d, b) => HasHeader(card, b)
  BY <1>3, Kinds DEF Worn, HasHeader, Plain
<1>5. CASE job.pc = "header"
  <2>1. \A b \in Bank : ~HasHeader(d, b)
    BY <1>4, <1>5, NoHeaderYet
  <2> QED  BY <1>3, <2>1, HeaderlessTidy
<1>6. CASE job.pc = "null"
  <2>1. d = [card EXCEPT ![0].body = Torn]
    BY <1>6
  <2>2. GoodCard(d)
    BY <1>1, <1>3, WornGood
  <2>3. ASSUME NEW h \in Bank, HasHeader(d, h) PROVE Packed(d, h)
    <3>1. h = job.bank /\ h \in Nat
      BY <1>4, <1>6, <2>3, NullAfterHeader
    <3>2. \A k \in 0 .. h : card[k].body = Blank /\ (k < h => card[k].top = Blank)
      <4>1. \A k \in 0 .. h : k \in Bank
        BY <3>1, <1>2, Sizes
      <4> QED  BY <1>6, <3>1, <4>1, NullAfterHeader, Kinds
    <3>3. \A k \in 0 .. h : d[k].body \in {card[k].body, Torn} /\ d[k].top = card[k].top
      BY <1>1, <1>2, <2>1, Sizes DEF Content
    <3>4. \A k \in 0 .. h : d[k].body # Files /\ (k < h => d[k].top # Files)
      BY <3>2, <3>3, Kinds
    <3> QED  BY <3>1, <3>4, NoneIsPacked
  <2> QED  BY <1>3, <2>2, <2>3 DEF Tidy
<1> QED  BY <1>5, <1>6

\* The bank of an application that is to be blown is erased and above every header.
LEMMA InstallBank ==
    ASSUME Core, job.pc = "install"
    PROVE  /\ job.cmd \in {"add", "update"} /\ job.bank \in Bank /\ card[job.bank] = Empty
           /\ \A h \in Bank : HasHeader(card, h) => h < job.bank
           /\ job.image.body = Code(0)
           /\ \/ /\ job.then = "end" /\ job.bank = Top
                 /\ job.image = [body |-> Code(0), top |-> AppHeader(1)]
              \/ /\ job.then = "count" /\ AppBanks(card) \in 1 .. Banks - 1
                 /\ job.bank = Top - AppBanks(card)
                 /\ job.image = [body |-> Code(0), top |-> Code(0)]
<1>1. /\ FormatInv /\ ReduceInv /\ AddInv /\ TypeOK /\ Running /\ GoodCard(card)
  BY DEF Core, JobInv, Running
<1>2. job.cmd \in {"add", "update"} /\ job.bank \in Bank
  BY <1>1, JobTyped DEF FormatInv, ReduceInv
<1>3. /\ card[job.bank] = Empty
      /\ \/ /\ job.then = "end" /\ job.bank = Top
            /\ job.image = [body |-> Code(0), top |-> AppHeader(1)]
         \/ /\ job.then = "count" /\ AppBanks(card) \in 1 .. Banks - 1
            /\ job.bank = Top - AppBanks(card)
            /\ job.image = [body |-> Code(0), top |-> Code(0)]
  BY <1>1, <1>2 DEF AddInv
<1>4. ASSUME NEW h \in Bank, HasHeader(card, h) PROVE h < job.bank
  <2>1. h # job.bank
    BY <1>3, <1>4, Kinds DEF HasHeader, Plain
  <2>2. h < Banks - AppBanks(card)
    BY <1>1, <1>4 DEF GoodCard
  <2> QED  BY SMTT(30), <1>3, <2>1, <2>2, Sizes
<1> QED  BY <1>2, <1>3, <1>4

LEMMA InstallWears ==
    ASSUME Core, job.pc = "install", NEW d \in HalfBlown(job.bank)
    PROVE  d \in [Bank -> Content] /\ GoodCard(d) /\ Tidy(d)
<1>1. card \in [Bank -> Content] /\ GoodCard(card) /\ Tidy(card)
  BY CoreTyped
<1>2. d \in [Bank -> Content] /\ Worn(card, d)
  BY <1>1, InstallBank, WearIsWorn DEF HalfBlown
<1>3. \A b \in Bank : b # job.bank => d[b] = card[b]
  BY <1>1 DEF HalfBlown
<1>4. ASSUME NEW h \in Bank, HasHeader(d, h), NEW k \in Bank, k <= h PROVE d[k] = card[k]
  <2>1. HasHeader(card, h)
    BY <1>2, <1>4, Kinds DEF Worn, HasHeader, Plain
  <2>2. h < job.bank
    BY <2>1, InstallBank
  <2> QED  BY <1>3, <1>4, <2>2, Sizes
<1> QED  BY <1>1, <1>2, <1>4, WornTidy

\* What is blown on a sector or was saved from it is known.
LEMMA ApplyJob ==
    ASSUME Core, job.pc \in Applying
    PROVE  /\ TypeOK /\ Running /\ job \in Jobs
           /\ job.cmd \in {"add", "update"} /\ job.bank \in Bank /\ job.image \in Content
           /\ job.then \in {"end", "count"}
           /\ job.image.body.is = "code" \/ (job.bank = Top /\ job.image.top.is = "OZ")
           /\ GoodCard(Final)
           /\ job.then = "count" =>
                 /\ AppBanks(Final) \in 1 .. Banks - 1 /\ IsDor(Final, Top - AppBanks(Final))
           /\ RewriteInv
<1>1. /\ FormatInv /\ ReduceInv /\ AddInv /\ RewriteInv /\ TypeOK /\ Running
  BY DEF Core, JobInv, Running, Applying
<1>2. job.cmd \in {"add", "update"}
  BY <1>1, JobTyped DEF FormatInv, ReduceInv, Applying
<1> QED  BY <1>1, <1>2, JobTyped DEF AddInv

LEMMA FinalTyped ==
    ASSUME Core, job.pc \in Applying
    PROVE  Final \in [Bank -> Content]
<1> SUFFICES ASSUME NEW b \in Bank, Rewriting, b \in OthersOf(job.bank)
             PROVE  job.old[b] \in Content
  BY ApplyJob, CoreTyped DEF Final
<1>1. job.old[b] = Empty \/ (b \in DOMAIN pres /\ pres[b] = job.old[b])
  BY ApplyJob DEF RewriteInv
<1> QED  BY <1>1, CoreTyped, Kinds

LEMMA FinalIs ==
    ASSUME Core, job.pc \in Applying
    PROVE  /\ Final[job.bank] = job.image
           /\ \A b \in Bank : SectorOf(b) # SectorOf(job.bank) => Final[b] = card[b]
           /\ ~Rewriting => \A b \in Bank : b # job.bank => Final[b] = card[b]
           /\ Rewriting => \A b \in OthersOf(job.bank) : Final[b] = job.old[b]
  BY ApplyJob DEF Final, OthersOf, BanksOf

\* The headers of a card lie in sectors below the one that is rewritten.
LEMMA HeadersBelow ==
    ASSUME Core, job.pc \in Applying, NEW h \in Bank, HasHeader(Final, h)
    PROVE  h < job.bank /\ SectorOf(h) < SectorOf(job.bank)
<1>1. Ends(h) /\ Below(Final, h)
  BY ApplyJob DEF GoodCard
<1>2. h \in Nat /\ job.bank \in Nat /\ job.bank \in Bank /\ job.bank <= Top /\ h <= Top
  BY ApplyJob, Sizes
<1>3. Final[job.bank] = job.image
  BY FinalIs
<1>4. ~(job.bank <= h)
  <2>1. CASE job.image.body.is = "code"
    BY <1>1, <1>2, <1>3, <2>1, Kinds DEF Below
  <2>2. CASE job.bank = Top /\ job.image.top.is = "OZ"
    <3>1. h # Top
      BY <1>3, <2>2 DEF HasHeader
    <3> QED  BY <1>2, <2>2, <3>1
  <2> QED  BY <2>1, <2>2, ApplyJob
<1>5. h < job.bank
  BY <1>2, <1>4
<1> QED  BY <1>1, <1>2, <1>5, AfterEnd

\* A sector with less than it shall have in the end.
LEMMA ApplyWears ==
    ASSUME Core, job.pc \in Applying, NEW d \in [Bank -> Content],
           \A b \in Bank : SectorOf(b) # SectorOf(job.bank) => d[b] = card[b],
           \A b \in Bank : SectorOf(b) = SectorOf(job.bank) =>
              /\ d[b].body \in {Final[b].body, Blank, Torn}
              /\ d[b].top \in {Final[b].top, Blank, Torn}
    PROVE  GoodCard(d) /\ Tidy(d)
<1>1. Final \in [Bank -> Content] /\ GoodCard(Final) /\ card \in [Bank -> Content] /\ Tidy(card)
  BY FinalTyped, ApplyJob, CoreTyped
<1>2. Worn(Final, d)
  BY <1>1, FinalIs DEF Worn
<1>3. GoodCard(d)
  BY <1>1, <1>2, WornGood
<1>4. ASSUME NEW h \in Bank, HasHeader(d, h) PROVE Packed(d, h)
  <2>1. HasHeader(Final, h)
    BY <1>2, <1>4, Kinds DEF Worn, HasHeader, Plain
  <2>2. SectorOf(h) < SectorOf(job.bank) /\ h \in Nat /\ job.bank \in Nat
    BY <2>1, HeadersBelow, ApplyJob, Sizes
  <2>3. \A k \in 0 .. h : d[k] = card[k]
    <3> SUFFICES ASSUME NEW k \in 0 .. h PROVE d[k] = card[k]
      OBVIOUS
    <3>1. k \in Nat /\ k <= h /\ k \in Bank
      BY <2>2, Sizes
    <3>2. SectorOf(k) <= SectorOf(h) /\ SectorOf(k) \in Nat /\ SectorOf(h) \in Nat
      BY <2>2, <3>1, SectorMono, InSector
    <3>3. SectorOf(job.bank) \in Nat
      BY <2>2, InSector
    <3>4. SectorOf(k) # SectorOf(job.bank)
      BY <2>2, <3>2, <3>3
    <3> QED  BY <3>1, <3>4
  <2>4. HasHeader(card, h)
    BY <1>4, <2>2, <2>3 DEF HasHeader
  <2>5. Packed(card, h)
    BY <1>1, <2>4 DEF Tidy
  <2> QED  BY <2>2, <2>3, <2>5, SamePacked
<1> QED  BY <1>3, <1>4 DEF Tidy

LEMMA GreatestElement ==
    ASSUME NEW T, T \subseteq Bank, T # {}
    PROVE  \E x \in T : \A y \in T : y <= x
<1> DEFINE U == {Top - x : x \in T}
<1>1. Top \in Nat /\ Bank = 0 .. Top
  BY Sizes
<1>2. U \subseteq Nat /\ U # {}
  BY <1>1
<1>3. PICK m \in U : \A n \in U : m <= n
  BY <1>2, LeastElement
<1>4. PICK x \in T : m = Top - x
  BY <1>3
<1>5. ASSUME NEW y \in T PROVE y <= x
  <2>1. Top - y \in U
    OBVIOUS
  <2>2. m <= Top - y
    BY <1>3, <2>1
  <2>3. x \in 0 .. Top /\ y \in 0 .. Top
    BY <1>1
  <2> QED  BY <1>1, <1>4, <2>2, <2>3
<1> QED  BY <1>5

LEMMA RestoreIs ==
    ASSUME Core, job.pc = "restore"
    PROVE  /\ NextToRestore \in job.rest /\ NextToRestore \in OthersOf(job.bank) /\ NextToRestore \in Bank
           /\ card[NextToRestore] = Empty
           /\ pres[NextToRestore] = job.old[NextToRestore]
<1>1. /\ job.rest # {} /\ job.rest \subseteq DOMAIN pres /\ DOMAIN pres \subseteq Bank
      /\ DOMAIN pres \subseteq OthersOf(job.bank)
      /\ \A b \in DOMAIN pres : pres[b] = job.old[b]
      /\ \A b \in OthersOf(job.bank) : card[b] = IF b \in job.rest THEN Empty ELSE job.old[b]
  BY ApplyJob, JobTyped, CoreTyped DEF RewriteInv, Rewriting, Applying
<1>2. \E x \in job.rest : \A y \in job.rest : y <= x
  BY <1>1, GreatestElement
<1>3. NextToRestore \in job.rest
  BY <1>2 DEF NextToRestore
<1> QED  BY <1>1, <1>3

\* Wherever the programming of a sector breaks off, the card stays in order.
LEMMA BlowWears ==
    ASSUME Core, job.pc \in {"blow", "restore"}, NEW d \in HalfBlown(Target)
    PROVE  d \in [Bank -> Content] /\ GoodCard(d) /\ Tidy(d)
<1>1. card \in [Bank -> Content] /\ job.pc \in Applying /\ Rewriting /\ job.bank \in Bank
  BY CoreTyped, ApplyJob DEF Applying, Rewriting
<1>2. Target \in Bank /\ SectorOf(Target) = SectorOf(job.bank)
  BY <1>1, RestoreIs DEF Target, OthersOf, BanksOf
<1>3. d \in [Bank -> Content] /\ Worn(card, d) /\ \A b \in Bank : b # Target => d[b] = card[b]
  BY <1>1, <1>2, WearIsWorn DEF HalfBlown
<1>4. \A b \in Bank : SectorOf(b) = SectorOf(job.bank) => card[b] \in {Final[b], Empty}
  <2>1. CASE job.pc = "blow"
    BY <2>1, <1>1, ApplyJob DEF RewriteInv, BanksOf
  <2>2. CASE job.pc = "restore"
    <3>1. /\ card[job.bank] = job.image
          /\ \A b \in OthersOf(job.bank) : card[b] \in {Empty, job.old[b]}
      BY <1>1, <2>2, ApplyJob DEF RewriteInv
    <3>2. /\ Final[job.bank] = job.image
          /\ \A b \in OthersOf(job.bank) : Final[b] = job.old[b]
      BY <1>1, FinalIs
    <3>3. \A b \in Bank : SectorOf(b) = SectorOf(job.bank) => b = job.bank \/ b \in OthersOf(job.bank)
      BY DEF OthersOf, BanksOf
    <3> QED  BY <3>1, <3>2, <3>3
  <2> QED  BY <1>1, <2>1, <2>2
<1>5. \A b \in Bank : SectorOf(b) = SectorOf(job.bank) =>
              /\ d[b].body \in {Final[b].body, Blank, Torn}
              /\ d[b].top \in {Final[b].top, Blank, Torn}
  BY <1>3, <1>4, Kinds DEF Worn
<1>6. \A b \in Bank : SectorOf(b) # SectorOf(job.bank) => d[b] = card[b]
  BY <1>2, <1>3
<1> QED  BY <1>1, <1>3, <1>5, <1>6, ApplyWears

LEMMA SectorPcWears ==
    ASSUME Core, job.pc = "sector",
           NEW d, d \in {Wipe(card, SectorOf(job.bank)), Scramble(card, SectorOf(job.bank))}
    PROVE  d \in [Bank -> Content] /\ GoodCard(d) /\ Tidy(d)
<1>1. card \in [Bank -> Content] /\ job.pc \in Applying
  BY CoreTyped DEF Applying
<1>2. d \in [Bank -> Content]
  BY <1>1, WearIsWorn
<1>3. \A b \in Bank : SectorOf(b) # SectorOf(job.bank) => d[b] = card[b]
  BY DEF Wipe, Scramble
<1>4. \A b \in Bank : SectorOf(b) = SectorOf(job.bank) =>
              /\ d[b].body \in {Final[b].body, Blank, Torn}
              /\ d[b].top \in {Final[b].top, Blank, Torn}
  BY Kinds DEF Wipe, Scramble
<1> QED  BY <1>1, <1>2, <1>3, <1>4, ApplyWears

----------------------------------------------------------------------------
(* The file area *)

LEMMA BoundaryIs ==
    ASSUME NEW c \in [Bank -> Content], AppBanks(c) # 0, Banks - AppBanks(c) >= SectorBanks
    PROVE  /\ Boundary(c) \in Bank /\ Boundary(c) < Banks - AppBanks(c) /\ Ends(Boundary(c))
           /\ Boundary(c) = SectorOf(Banks - AppBanks(c)) * SectorBanks - 1
           /\ \A h \in Bank : Ends(h) /\ h < Banks - AppBanks(c) => h <= Boundary(c)
<1> DEFINE low == Banks - AppBanks(c)
<1> DEFINE s == SectorOf(low)
<1>1. /\ low \in Nat /\ SectorBanks \in Nat /\ SectorBanks >= 2 /\ SectorBanks <= low
      /\ low < Banks /\ Banks = Top + 1 /\ Top \in Nat /\ Bank = 0 .. Top
  BY AppBanksIs, Sizes
<1>2. s \in Nat /\ SectorBanks * s \in Nat /\ SectorBanks * s <= low /\ low <= SectorBanks * s + SectorBanks - 1
  BY <1>1, InSector
<1>3. s # 0
  BY <1>1, <1>2
<1>4. Boundary(c) = SectorBanks * s - 1
  BY DEF Boundary
<1> HIDE DEF s, low
<1>5. s - 1 \in Nat /\ SectorBanks * (s - 1) = SectorBanks * s - SectorBanks
  BY <1>1, <1>2, <1>3
<1>6. Boundary(c) = SectorBanks * (s - 1) + SectorBanks - 1
  BY <1>1, <1>2, <1>4, <1>5
<1>7. Ends(Boundary(c)) /\ SectorOf(Boundary(c)) = s - 1 /\ Boundary(c) \in Nat
  BY <1>5, <1>6, EndOfSector
<1>8. Boundary(c) < low /\ Boundary(c) \in Bank
  BY <1>1, <1>2, <1>4, <1>7
<1>9. s * SectorBanks = SectorBanks * s
  BY <1>1, <1>2
<1>10. ASSUME NEW h \in Bank, Ends(h), h < low PROVE h <= Boundary(c)
  <2> SUFFICES ASSUME h > Boundary(c) PROVE FALSE
    BY <1>1, <1>8
  <2>1. h \in Nat /\ SectorBanks * s <= h /\ h < SectorBanks * s + SectorBanks - 1
    BY <1>1, <1>2, <1>4, <1>10
  <2>2. SectorOf(h) = s
    BY <1>1, <1>2, <2>1, SectorIs
  <2> QED  BY <1>10, <2>1, <2>2 DEF Ends
<1> QED  BY <1>4, <1>7, <1>8, <1>9, <1>10 DEF s, low

\* FileEprRequest, on a card that is in order.
LEMMA RequestIs ==
    ASSUME NEW c \in [Bank -> Content], GoodCard(c)
    PROVE  LET area == Request(c)
           IN  /\ area.kind \in {"none", "room", "found", "potential"}
               /\ area.bank \in Bank /\ Ends(area.bank) /\ area.banks = area.bank + 1
               /\ \A h \in Bank : HasHeader(c, h) => h <= area.bank
               /\ area.kind \in {"found", "potential"} =>
                     /\ area.bank < Banks - AppBanks(c)
                     /\ area.bank = Top \/ (AppBanks(c) # 0 /\ Boundary(c) = area.bank)
               /\ area.kind \in {"none", "room"} => area.bank = Top
               /\ area.kind = "none" => AppBanks(c) = 0
               /\ area.kind \in {"room", "potential"} => AppBanks(c) # 0
               /\ area.kind = "found" => HasHeader(c, area.bank)
               /\ area.kind = "found" /\ AppBanks(c) = 0 => area.bank = Top
               /\ area.kind # "found" => \A h \in Bank : HasHeader(c, h) => h < area.bank
<1> DEFINE area == Request(c)
<1> DEFINE low == Banks - AppBanks(c)
<1>1. /\ Top \in Bank /\ Ends(Top) /\ Banks = Top + 1 /\ Top \in Nat /\ \A h \in Bank : h \in Nat /\ h <= Top
      /\ AppBanks(c) \in 0 .. Banks
  BY Sizes, TopEnds, AppBanksIs
<1>2. CASE c[Top].top.is # "oz" /\ AppBanks(c) = 0
  <2>1. area = [kind |-> "none", bank |-> Top, banks |-> Banks]
    BY <1>2 DEF Request
  <2>2. \A h \in Bank : HasHeader(c, h) => h < Top
    BY <1>1, <1>2 DEF HasHeader
  <2> QED  BY <1>1, <1>2, <2>1, <2>2
<1>3. CASE ~(c[Top].top.is # "oz" /\ AppBanks(c) = 0) /\ low < SectorBanks
  <2>1. area = [kind |-> "room", bank |-> Top, banks |-> Banks]
    BY <1>3 DEF Request
  <2>2. AppBanks(c) # 0
    BY <1>3, Sizes
  <2>3. \A h \in Bank : HasHeader(c, h) => h < Top
    BY <1>1, <2>2 DEF GoodCard
  <2> QED  BY <1>1, <2>1, <2>2, <2>3
<1>4. CASE ~(c[Top].top.is # "oz" /\ AppBanks(c) = 0) /\ ~(low < SectorBanks)
  <2> DEFINE bank == IF AppBanks(c) = 0 THEN Top ELSE SectorOf(low) * SectorBanks - 1
  <2>1. area = IF c[bank].top.is = "oz"
               THEN [kind |-> "found", bank |-> bank, banks |-> c[bank].top.banks]
               ELSE [kind |-> "potential", bank |-> bank, banks |-> bank + 1]
    BY <1>4 DEF Request
  <2>2. low >= SectorBanks
    BY <1>1, <1>4, Sizes
  <2>3. /\ bank \in Bank /\ Ends(bank) /\ bank < low
        /\ bank = Top \/ (AppBanks(c) # 0 /\ Boundary(c) = bank)
        /\ AppBanks(c) = 0 => bank = Top
        /\ \A h \in Bank : HasHeader(c, h) => h <= bank
    <3>1. CASE AppBanks(c) = 0
      BY <3>1, <1>1
    <3>2. CASE AppBanks(c) # 0
      <4>1. /\ Boundary(c) \in Bank /\ Boundary(c) < low /\ Ends(Boundary(c))
            /\ Boundary(c) = SectorOf(low) * SectorBanks - 1
            /\ \A h \in Bank : Ends(h) /\ h < low => h <= Boundary(c)
        BY <2>2, <3>2, BoundaryIs
      <4>2. bank = Boundary(c)
        BY <3>2, <4>1
      <4>3. \A h \in Bank : HasHeader(c, h) => Ends(h) /\ h < low
        BY DEF GoodCard
      <4> QED  BY <3>2, <4>1, <4>2, <4>3
    <3> QED  BY <3>1, <3>2
  <2> HIDE DEF bank
  <2>4. CASE c[bank].top.is = "oz"
    <3>1. HasHeader(c, bank) /\ c[bank].top = FileHeader(bank + 1)
      BY <2>3, <2>4 DEF HasHeader, GoodCard
    <3>2. c[bank].top.banks = bank + 1
      BY <3>1 DEF FileHeader
    <3>3. area = [kind |-> "found", bank |-> bank, banks |-> bank + 1]
      BY <2>1, <2>4, <3>2
    <3> QED  BY <2>3, <3>1, <3>3
  <2>5. CASE c[bank].top.is # "oz"
    <3>1. area = [kind |-> "potential", bank |-> bank, banks |-> bank + 1]
      BY <2>1, <2>5
    <3>2. AppBanks(c) # 0
      BY <1>4, <2>3, <2>5
    <3>3. ASSUME NEW h \in Bank, HasHeader(c, h) PROVE h < bank
      <4>1. h # bank
        BY <2>5, <3>3 DEF HasHeader
      <4>2. h <= bank /\ h \in Nat /\ bank \in Nat
        BY <1>1, <2>3, <3>3
      <4> QED  BY <4>1, <4>2
    <3> QED  BY <2>3, <3>1, <3>2, <3>3
  <2> QED  BY <2>4, <2>5
<1> QED  BY <1>2, <1>3, <1>4

\* The first unit of an area that has no file.
LEMMA UsedIs ==
    ASSUME NEW c \in [Bank -> Content], GoodCard(c), Found(c)
    PROVE  /\ Capacity(c) = 2 * Request(c).bank + 1
           /\ Used(c) \in 0 .. Capacity(c)
           /\ Used(c) = Capacity(c) \/ Unit(c, Used(c)) # Files
           /\ \A v \in 0 .. Used(c) - 1 : Unit(c, v) = Files
<1> DEFINE b == Request(c).bank
<1> DEFINE T == {u \in 0 .. Capacity(c) : u = Capacity(c) \/ Unit(c, u) # Files}
<1>1. b \in Nat /\ Request(c).banks = b + 1
  BY RequestIs, Sizes
<1>2. Capacity(c) = 2 * b + 1 /\ Capacity(c) \in Nat
  BY <1>1 DEF Capacity
<1>3. T \subseteq Nat /\ Capacity(c) \in T
  BY <1>2
<1>4. PICK u \in T : \A v \in T : u <= v
  BY <1>3, LeastElement
<1>5. \A v \in 0 .. u - 1 : Unit(c, v) = Files
  <2> SUFFICES ASSUME NEW v \in 0 .. u - 1, Unit(c, v) # Files PROVE FALSE
    OBVIOUS
  <2>1. u \in 0 .. Capacity(c)
    OBVIOUS
  <2>2. v \in 0 .. Capacity(c) /\ v < u
    BY <1>2, <2>1
  <2>3. v \in T
    BY <2>2
  <2> QED  BY <1>2, <1>4, <2>1, <2>2, <2>3
<1>6. \E x \in 0 .. Capacity(c) : /\ x = Capacity(c) \/ Unit(c, x) # Files
                                  /\ \A v \in 0 .. x - 1 : Unit(c, v) = Files
  BY <1>5
<1>7. /\ Used(c) \in 0 .. Capacity(c)
      /\ Used(c) = Capacity(c) \/ Unit(c, Used(c)) # Files
      /\ \A v \in 0 .. Used(c) - 1 : Unit(c, v) = Files
  BY <1>6 DEF Used
<1> QED  BY <1>2, <1>7

----------------------------------------------------------------------------
(* Formatting *)

\* What has to be shown where an operation goes on.
LEMMA RunStep ==
    ASSUME card' \in [Bank -> Content], GoodCard(card'), Tidy(card'),
           DOMAIN pres' \subseteq Bank, \A b \in DOMAIN pres' : pres'[b] \in Content,
           rom' \in Roms, hurt' \in 0 .. MaxHurt, job' \in Jobs',
           FormatInv', ReduceInv', AddInv', RewriteInv'
    PROVE  Core'
  BY DEF Core, JobInv, TypeOK

LEMMA SameApps ==
    ASSUME NEW c, NEW d, d[Top].top = c[Top].top
    PROVE  AppBanks(d) = AppBanks(c) /\ Boundary(d) = Boundary(c)
  BY DEF AppBanks, Boundary

\* The record of a job that begins.
JobRecord(cmd, pc, then, bank, image, sector, left, words) ==
    [cmd |-> cmd, pc |-> pc, then |-> then, bank |-> bank, image |-> image, sector |-> sector,
     left |-> left, words |-> words, tries |-> Retries, rest |-> {},
     found |-> IF Found(card) THEN Request(card).banks ELSE 0, apps |-> AppBanks(card),
     old |-> << >>]

LEMMA NewJobIs ==
    ASSUME NEW cmd, NEW pc
    PROVE  NewJob(cmd, pc) = JobRecord(cmd, pc, "end", Top, Empty, Sectors - 1, 0, 0)
  BY DEF NewJob, JobRecord

LEMMA JobRecordTyped ==
    ASSUME Core,
           job' = JobRecord(job'.cmd, job'.pc, job'.then, job'.bank, job'.image, job'.sector, job'.left,
                            job'.words),
           job'.cmd \in {"format", "reduce", "add", "update"},
           job'.pc \in {"erase", "refuse", "header", "null", "pick", "top", "install", "link", "count",
                        "preserve", "sector", "blow", "restore"},
           job'.then \in {"end", "pick", "top", "count"}, job'.bank \in Bank, job'.image \in Content,
           job'.sector \in Sector, job'.left \in 0 .. Sectors, job'.words \in 0 .. 6
    PROVE  /\ job' \in Jobs'
           /\ job'.rest = {} /\ job'.old = << >> /\ job'.apps = AppBanks(card)
           /\ job'.found = IF Found(card) THEN Request(card).banks ELSE 0
<1>1. card \in [Bank -> Content] /\ GoodCard(card)
  BY CoreTyped
<1>2. Request(card).bank \in Bank /\ Request(card).banks = Request(card).bank + 1
  BY <1>1, RequestIs
<1> DEFINE found == IF Found(card) THEN Request(card).banks ELSE 0
<1>3. found \in 0 .. Banks
  BY <1>2, Sizes
<1>4. AppBanks(card) \in 0 .. Banks
  BY <1>1, AppBanksIs
<1>5. Retries \in 0 .. Retries
  BY UpdateAssumption
<1> DEFINE apps == AppBanks(card)
<1>6. job' = [cmd |-> job'.cmd, pc |-> job'.pc, then |-> job'.then, bank |-> job'.bank, image |-> job'.image,
              sector |-> job'.sector, left |-> job'.left, words |-> job'.words, tries |-> Retries,
              rest |-> {}, found |-> found, apps |-> apps, old |-> << >>]
  BY DEF JobRecord
<1>7. apps \in 0 .. Banks
  BY <1>4
<1> HIDE DEF found, apps
<1>8. job' \in Jobs'
  BY <1>3, <1>5, <1>6, <1>7 DEF Jobs
<1> QED  BY <1>6, <1>8 DEF found, apps

LEMMA EndsTyped ==
    /\ Top \in Bank /\ Empty \in Content /\ Sectors - 1 \in Sector /\ 0 \in 0 .. Sectors /\ 0 \in 0 .. 6
  BY Sizes, Kinds DEF Sector

LEMMA FormatCore == ASSUME Core, Format PROVE Core'
<1> DEFINE area == Request(card)
<1>1. /\ card \in [Bank -> Content] /\ GoodCard(card) /\ Tidy(card) /\ card' = card /\ pres' = pres
      /\ rom' = rom /\ hurt' = hurt
      /\ rom \in Roms /\ hurt \in 0 .. MaxHurt
      /\ DOMAIN pres \subseteq Bank /\ \A b \in DOMAIN pres : pres[b] \in Content
  BY CoreTyped DEF Format
<1>2. CASE job' = [NewJob("format", "refuse") EXCEPT !.words = 6]
  <2>1. job' = JobRecord("format", "refuse", "end", Top, Empty, Sectors - 1, 0, 6)
    BY <1>2, NewJobIs DEF JobRecord
  <2>2. /\ job'.cmd = "format" /\ job'.pc = "refuse" /\ job'.then = "end" /\ job'.bank = Top
        /\ job'.image = Empty /\ job'.sector = Sectors - 1 /\ job'.left = 0 /\ job'.words = 6
    BY <2>1 DEF JobRecord
  <2>4. job' \in Jobs'
    BY <2>1, <2>2, EndsTyped, JobRecordTyped
  <2>3. FormatInv' /\ ReduceInv' /\ AddInv' /\ RewriteInv'
    BY <2>2 DEF FormatInv, ReduceInv, AddInv, RewriteInv, Rewriting
  <2> QED  BY <1>1, <2>3, <2>4, RunStep
<1>3. CASE /\ ~(rom > 0 /\ area.kind \in {"none", "room"})
           /\ job' = [NewJob("format", "erase") EXCEPT
                           !.bank = area.bank, !.sector = SectorOf(area.bank),
                           !.left = area.banks \div SectorBanks, !.words = 3,
                           !.image.top = IF area.kind = "found" THEN card[area.bank].top ELSE Blank]
  <2> DEFINE image == [Empty EXCEPT !.top = IF area.kind = "found" THEN card[area.bank].top ELSE Blank]
  <2>1. /\ area.kind \in {"none", "room", "found", "potential"}
        /\ area.bank \in Bank /\ Ends(area.bank) /\ area.banks = area.bank + 1
        /\ \A h \in Bank : HasHeader(card, h) => h <= area.bank
        /\ area.kind \in {"found", "potential"} =>
              /\ area.bank < Banks - AppBanks(card)
              /\ area.bank = Top \/ (AppBanks(card) # 0 /\ Boundary(card) = area.bank)
        /\ area.kind \in {"none", "room"} => area.bank = Top
        /\ area.kind = "none" => AppBanks(card) = 0
        /\ area.kind = "found" => HasHeader(card, area.bank)
    BY <1>1, RequestIs
  <2>2. /\ image \in Content /\ image.top \in {Blank, FileHeader(area.bank + 1)}
    <3>1. area.kind = "found" => card[area.bank].top = FileHeader(area.bank + 1)
      BY <1>1, <2>1 DEF GoodCard
    <3>2. area.bank + 1 \in 1 .. Banks
      BY <2>1, Sizes
    <3> QED  BY <3>1, <3>2, Kinds DEF Content
  <2>3. /\ SectorOf(area.bank) \in Sector /\ SectorOf(area.bank) \in Nat
        /\ area.banks \div SectorBanks = SectorOf(area.bank) + 1
        /\ area.banks \div SectorBanks \in 0 .. Sectors
    <3>1. SectorOf(area.bank) \in Sector
      BY <2>1, TopEnds
    <3>2. area.bank \in Nat
      BY <2>1, Sizes
    <3>3. area.banks \div SectorBanks = SectorOf(area.bank) + 1
      BY <2>1, <3>2, SectorsUpTo
    <3> QED  BY <3>1, <3>3, Sizes DEF Sector
  <2> DEFINE left == area.banks \div SectorBanks
  <2>4. job' = JobRecord("format", "erase", "end", area.bank, image, SectorOf(area.bank), left, 3)
    BY ZenonT(30), <1>3 DEF NewJob, JobRecord, Empty
  <2> HIDE DEF image, left, area
  <2>5. /\ job'.cmd = "format" /\ job'.pc = "erase" /\ job'.then = "end" /\ job'.bank = area.bank
        /\ job'.image = image /\ job'.sector = SectorOf(area.bank) /\ job'.left = left /\ job'.words = 3
    BY <2>4 DEF JobRecord
  <2>13. job' \in Jobs' /\ job'.apps = AppBanks(card)
    BY <2>1, <2>2, <2>3, <2>4, <2>5, EndsTyped, JobRecordTyped DEF left
  <2>6. ~FormatFull => area.bank < Banks - AppBanks(card)
    <3>1. ASSUME ~FormatFull PROVE area.kind # "room"
      <4>1. area.kind = "room" => rom > 0
        BY <3>1 DEF Format, area
      <4> QED  BY <4>1, <1>3 DEF area
    <3>2. area.kind = "none" => area.bank < Banks - AppBanks(card)
      BY <2>1, Sizes
    <3> QED  BY <3>1, <3>2, <2>1
  <2>7. AppBanks(card) \in 0 .. Banks /\ area.bank \in Nat /\ area.bank <= Top
    BY <1>1, <2>1, AppBanksIs, Sizes
  <2>8. area.bank = Top \/ (AppBanks(card) > 0 /\ Boundary(card) = area.bank)
    BY <2>1, <2>7
  <2>9. \A b \in Bank : b > area.bank => ~HasHeader(card, b)
    BY <2>1, <2>7, Sizes
  <2>10. \A b \in Bank : b <= area.bank /\ SectorOf(b) > SectorOf(area.bank) => card[b] = Empty
    <3>1. ASSUME NEW b \in Bank, b <= area.bank PROVE ~(SectorOf(b) > SectorOf(area.bank))
      <4>1. b \in Nat
        BY Sizes
      <4>2. SectorOf(b) <= SectorOf(area.bank) /\ SectorOf(b) \in Nat
        BY <3>1, <4>1, <2>7, SectorMono, InSector
      <4> QED  BY <4>2, <2>3
    <3> QED  BY <3>1
  <2>11. FormatInv'
    BY <1>1, <2>1, <2>2, <2>3, <2>5, <2>6, <2>8, <2>9, <2>10, <2>13 DEF FormatInv, HasHeader, left, AppBanks, Boundary
  <2>12. ReduceInv' /\ AddInv' /\ RewriteInv'
    BY <2>5 DEF ReduceInv, AddInv, RewriteInv, Rewriting
  <2> QED  BY <1>1, <2>11, <2>12, <2>13, RunStep
<1> QED  BY <1>2, <1>3 DEF Format

\* What has to be shown where a routine returns.
LEMMA ReturnStep ==
    ASSUME Core, card' \in [Bank -> Content], GoodCard(card'), Tidy(card'), pres' = pres, rom' = rom,
           hurt' \in 0 .. MaxHurt, NEW words, NEW result, Return(words, result)
    PROVE  Core'
<1>1. job' = Stray \/ \E r, old : job' = Ended(r, old)
  BY DEF Return
<1> QED  BY <1>1, CoreTyped, EndStep

LEMMA FormatRefusedCore == ASSUME Core, FormatRefused PROVE Core'
<1>1. Return(3, "failed") /\ card' = card /\ pres' = pres /\ rom' = rom /\ hurt' = hurt
  BY DEF FormatRefused
<1>2. GoodCard(card') /\ Tidy(card') /\ card' \in [Bank -> Content] /\ hurt' \in 0 .. MaxHurt
  BY <1>1, CoreTyped
<1> QED  BY <1>1, <1>2, ReturnStep

\* Erasing below the sector of the card header leaves it alone.
LEMMA TopUntouched ==
    ASSUME NEW b \in Bank, Ends(b), b # Top, NEW s \in Nat, s <= SectorOf(b)
    PROVE  SectorOf(Top) # s
<1>1. b \in Nat /\ Top \in Nat /\ b < Top
  BY Sizes
<1>2. SectorOf(b) < SectorOf(Top) /\ SectorOf(b) \in Nat /\ SectorOf(Top) \in Nat
  BY <1>1, AfterEnd, InSector
<1> QED  BY <1>2

LEMMA FormatSectorCore == ASSUME Core, FormatSector PROVE Core'
<1>1. /\ card \in [Bank -> Content] /\ pres' = pres /\ rom' = rom /\ hurt' = hurt
      /\ rom \in Roms /\ hurt \in 0 .. MaxHurt /\ TypeOK /\ Running
      /\ DOMAIN pres \subseteq Bank /\ \A b \in DOMAIN pres : pres[b] \in Content
      /\ job.pc = "erase" /\ job.cmd = "format" /\ FormatInv
      /\ card' = Wipe(card, job.sector)
  BY CoreTyped DEF FormatSector, Running, JobInv
<1>2. /\ job.words = 3 /\ Ends(job.bank)
      /\ job.bank = Top \/ (AppBanks(card) > 0 /\ Boundary(card) = job.bank)
      /\ job.image.top \in {Blank, FileHeader(job.bank + 1)}
      /\ \A b \in Bank : b > job.bank => ~HasHeader(card, b)
      /\ ~FormatFull => job.bank < Banks - job.apps
      /\ job.left = job.sector + 1 /\ job.sector <= SectorOf(job.bank)
      /\ \A b \in Bank : b <= job.bank /\ SectorOf(b) > job.sector => card[b] = Empty
  BY <1>1 DEF FormatInv
<1>3. /\ card' \in [Bank -> Content] /\ GoodCard(card') /\ Tidy(card')
      /\ \A b \in Bank : SectorOf(b) # job.sector => card'[b] = card[b]
      /\ \A b \in Bank : HasHeader(card', b) => HasHeader(card, b)
  BY <1>1, EraseWears
<1>4. \A b \in Bank : SectorOf(b) = job.sector => card'[b] = Empty
  BY <1>1 DEF Wipe
<1>5. /\ job \in Jobs /\ job.bank \in Bank /\ job.sector \in Sector /\ job.sector \in Nat
      /\ job.left \in 1 .. 32 /\ job.sector < Sectors
  <2>1. job \in Jobs /\ job.bank \in Bank /\ job.sector \in Sector
    BY <1>1, JobTyped
  <2>2. job.sector \in Nat /\ job.sector < Sectors /\ Sectors <= 32 /\ Sectors \in Nat
    BY <2>1, Sizes DEF Sector
  <2> QED  BY <1>2, <2>1, <2>2
<1>6. job.bank = Top \/ (AppBanks(card') > 0 /\ Boundary(card') = job.bank)
  <2> SUFFICES ASSUME job.bank # Top PROVE AppBanks(card') = AppBanks(card) /\ Boundary(card') = Boundary(card)
    BY <1>2
  <2>1. SectorOf(Top) # job.sector
    BY <1>2, <1>5, TopUntouched
  <2>2. card'[Top] = card[Top]
    BY <1>3, <2>1, Sizes
  <2> QED  BY <2>2, SameApps
<1>7. /\ \A b \in Bank : b > job.bank => ~HasHeader(card', b)
      /\ \A b \in Bank : b <= job.bank /\ SectorOf(b) >= job.sector => card'[b] = Empty
  <2>1. \A b \in Bank : SectorOf(b) \in Nat
    BY TopEnds, Sizes DEF Sector
  <2> QED  BY <1>2, <1>3, <1>4, <1>5, <2>1
<1>8. CASE job.left = 1
  <2>1. job' = [job EXCEPT !.left = 0, !.pc = "header"]
    BY <1>8 DEF FormatSector
  <2>2. job' \in Jobs' /\ job'.pc = "header" /\ job'.cmd = "format" /\ job'.words = 3 /\ job'.bank = job.bank
        /\ job'.image = job.image /\ job'.apps = job.apps
    BY <1>1, <1>2, <1>5, <2>1, EndsTyped DEF Jobs
  <2>3. \A b \in Bank : b <= job.bank => card'[b] = Empty
    <3>1. job.sector = 0 /\ \A b \in Bank : SectorOf(b) >= 0
      BY <1>2, <1>5, <1>8, TopEnds, Sizes DEF Sector
    <3> QED  BY <1>7, <3>1
  <2>4. FormatInv'
    BY <1>2, <1>6, <1>7, <2>2, <2>3 DEF FormatInv, AppBanks, Boundary, HasHeader
  <2>5. ReduceInv' /\ AddInv' /\ RewriteInv'
    BY <2>2 DEF ReduceInv, AddInv, RewriteInv, Rewriting
  <2> QED  BY <1>1, <1>3, <2>2, <2>4, <2>5, RunStep
<1>9. CASE job.left # 1
  <2>1. (job.left + 255) % 256 = job.left - 1
    <3> DEFINE n == job.left - 1
    <3>1. n \in 0 .. 31 /\ job.left + 255 = n + 256
      BY <1>5, <1>9
    <3> HIDE DEF n
    <3>2. (n + 256) % 256 = n
      BY <3>1
    <3> QED  BY <3>1, <3>2, <1>5 DEF n
  <2>2. job' = [job EXCEPT !.left = job.left - 1, !.sector = job.sector - 1]
    BY <1>9, <1>5, <2>1 DEF FormatSector, Jobs
  <2>3. job.left - 1 \in 0 .. Sectors /\ job.sector - 1 \in Sector /\ job.sector - 1 \in Nat
    BY <1>2, <1>5, <1>9, Sizes DEF Sector
  <2>4. job' \in Jobs' /\ job'.pc = "erase" /\ job'.cmd = "format" /\ job'.words = 3 /\ job'.bank = job.bank
        /\ job'.image = job.image /\ job'.apps = job.apps
        /\ job'.left = job.left - 1 /\ job'.sector = job.sector - 1
    BY <1>1, <1>2, <1>5, <2>2, <2>3 DEF Jobs
  <2>5. \A b \in Bank : b <= job.bank /\ SectorOf(b) > job.sector - 1 => card'[b] = Empty
    <3>1. \A b \in Bank : SectorOf(b) \in Nat
      BY TopEnds, Sizes DEF Sector
    <3> QED  BY <1>5, <1>7, <3>1
  <2>6. SectorOf(job.bank) \in Nat
    BY <1>5, TopEnds, Sizes DEF Sector
  <2>7. FormatInv'
    BY <1>2, <1>5, <1>6, <1>7, <2>3, <2>4, <2>5, <2>6 DEF FormatInv, AppBanks, Boundary, HasHeader
  <2>8. ReduceInv' /\ AddInv' /\ RewriteInv'
    BY <2>4 DEF ReduceInv, AddInv, RewriteInv, Rewriting
  <2> QED  BY <1>1, <1>3, <2>4, <2>7, <2>8, RunStep
<1> QED  BY <1>8, <1>9

LEMMA EraseErrorCore == ASSUME Core, EraseError PROVE Core'
<1>1. /\ job.pc = "erase" /\ MayFail("erase") /\ pres' = pres /\ rom' = rom /\ hurt' = hurt + 1
      /\ card' = card \/ card' = Scramble(card, job.sector)
      /\ Return(IF job.cmd = "format" THEN 3 ELSE 4, "failed")
  BY DEF EraseError
<1>2. GoodCard(card') /\ Tidy(card') /\ card' \in [Bank -> Content]
  BY <1>1, CoreTyped, EraseWears
<1>3. hurt' \in 0 .. MaxHurt
  BY <1>1, CoreTyped, HurtTyped
<1> QED  BY <1>1, <1>2, <1>3, ReturnStep

LEMMA BlowHeaderErrorCore == ASSUME Core, BlowHeaderError PROVE Core'
<1>1. /\ job.pc \in {"header", "null"} /\ MayFail("blow") /\ pres' = pres /\ rom' = rom /\ hurt' = hurt + 1
      /\ \/ job.pc = "header" /\ card' = [card EXCEPT ![job.bank].top = Torn]
         \/ job.pc = "null" /\ card' = [card EXCEPT ![0].body = Torn]
      /\ Return(3, "failed")
  BY DEF BlowHeaderError
<1>2. GoodCard(card') /\ Tidy(card') /\ card' \in [Bank -> Content]
  BY <1>1, HeaderWears
<1>3. hurt' \in 0 .. MaxHurt
  BY <1>1, CoreTyped, HurtTyped
<1> QED  BY <1>1, <1>2, <1>3, ReturnStep

LEMMA BlowHeaderAstrayCore == ASSUME Core, BlowHeaderAstray PROVE Core'
<1>1. card' = card /\ pres' = pres /\ rom' = rom /\ hurt' = hurt /\ \E result : Return(3, result)
  BY DEF BlowHeaderAstray
<1>2. GoodCard(card') /\ Tidy(card') /\ card' \in [Bank -> Content] /\ hurt' \in 0 .. MaxHurt
  BY <1>1, CoreTyped
<1> QED  BY <1>1, <1>2, ReturnStep

LEMMA SaveNullFileCore == ASSUME Core, SaveNullFile PROVE Core'
<1>1. /\ job.pc = "null" /\ pres' = pres /\ rom' = rom /\ hurt' = hurt
      /\ card' = [card EXCEPT ![0].body = Blow(@, Files)] /\ Return(3, "formatted")
      /\ card \in [Bank -> Content] /\ GoodCard(card) /\ hurt \in 0 .. MaxHurt
  BY CoreTyped DEF SaveNullFile
<1>2. /\ job.bank \in Nat /\ 0 < job.bank /\ 0 \in Bank /\ job.bank \in Bank
      /\ card[job.bank].body = Blank /\ card[job.bank].top = FileHeader(job.bank + 1)
      /\ \A b \in Bank : b < job.bank => card[b] = Empty
      /\ \A b \in Bank : HasHeader(card, b) => b = job.bank
  <2>1. job.bank \in Bank
    BY <1>1, CoreTyped, JobTyped DEF Running
  <2> QED  BY <1>1, <2>1, NullAfterHeader
<1>3. /\ card' \in [Bank -> Content] /\ card'[0].body = Files
      /\ \A b \in Bank : card'[b].top = card[b].top /\ (b # 0 => card'[b] = card[b])
  <2>1. card[0].body = Blank
    BY <1>2, Kinds
  <2>2. card' = [card EXCEPT ![0] = [card[0] EXCEPT !.body = Files]]
    BY <1>1, <1>2, <2>1, BlowIs
  <2>3. card[0] \in Content /\ Files \in Body
    BY <1>1, <1>2, Kinds DEF Plain
  <2>4. LET x == [card[0] EXCEPT !.body = Files]
        IN  x \in Content /\ x.body = Files /\ x.top = card[0].top
    BY <2>3 DEF Content
  <2> QED  BY <1>1, <1>2, <2>2, <2>4
<1>4. AppBanks(card') = AppBanks(card)
  BY <1>3, Sizes, SameApps
<1>5. GoodCard(card')
  <2> SUFFICES ASSUME NEW b \in Bank, HasHeader(card', b)
               PROVE  /\ Ends(b) /\ card'[b].top = FileHeader(b + 1) /\ b < Banks - AppBanks(card')
                      /\ Below(card', b)
    BY DEF GoodCard
  <2>1. HasHeader(card, b)
    BY <1>3 DEF HasHeader
  <2>2. /\ Ends(b) /\ card[b].top = FileHeader(b + 1) /\ b < Banks - AppBanks(card)
        /\ Below(card, b)
    BY <1>1, <2>1 DEF GoodCard
  <2>3. Below(card', b)
    BY <1>3, <2>2 DEF Below, Plain
  <2> QED  BY <1>3, <1>4, <2>2, <2>3
<1>6. Tidy(card')
  <2> SUFFICES Packed(card', job.bank)
    BY <1>2, <1>3 DEF Tidy, HasHeader
  <2>1. ASSUME NEW v \in 0 .. 2 * job.bank, Unit(card', v) = Files PROVE v = 0
    <3>1. PICK k \in 0 .. job.bank : \/ v = 2 * k /\ Unit(card', v) = card'[k].body
                                     \/ k < job.bank /\ v = 2 * k + 1 /\ Unit(card', v) = card'[k].top
      BY <1>2, UnitsTo
    <3>2. k \in Bank /\ k \in Nat /\ k <= job.bank
      BY <1>2, Sizes
    <3>3. card[k].body = Blank /\ (k < job.bank => card[k].top = Blank)
      BY <1>2, <3>2, Kinds
    <3>4. k < job.bank => card'[k].top # Files
      BY <1>3, <3>2, <3>3, Kinds
    <3>5. k # 0 => card'[k].body # Files
      BY <1>3, <3>2, <3>3, Kinds
    <3> QED  BY <2>1, <3>1, <3>4, <3>5
  <2>2. ASSUME NEW u \in 0 .. 2 * job.bank, NEW v \in 0 .. 2 * job.bank, u < v PROVE Unit(card', v) # Files
    <3>1. v # 0
      BY <1>2, <2>2
    <3> QED  BY <2>1, <3>1
  <2> QED  BY <2>2 DEF Packed
<1> QED  BY <1>1, <1>3, <1>5, <1>6, ReturnStep

----------------------------------------------------------------------------
(* Reducing the file area *)

LEMMA ReduceSectorCore == ASSUME Core, ReduceSector PROVE Core'
<1> DEFINE old == job.bank + SectorBanks
<1>1. /\ card \in [Bank -> Content] /\ pres' = pres /\ rom' = rom /\ hurt' = hurt
      /\ rom \in Roms /\ hurt \in 0 .. MaxHurt /\ TypeOK /\ Running /\ GoodCard(card)
      /\ DOMAIN pres \subseteq Bank /\ \A b \in DOMAIN pres : pres[b] \in Content
      /\ job.pc = "erase" /\ job.cmd = "reduce" /\ ReduceInv
      /\ card' = Wipe(card, job.sector)
      /\ job' = [job EXCEPT !.pc = "header", !.words = 3]
  BY CoreTyped DEF ReduceSector, Running, JobInv
<1>2. /\ old \in Bank /\ Ends(job.bank) /\ job.image.top = Blank
      /\ old = Top - AppBanks(card)
      /\ job.found = old + 1 /\ job.apps = AppBanks(card)
      /\ job.then = IF AppBanks(card) = 0 THEN "top" ELSE "pick"
      /\ Below(card, job.bank) /\ Packed(card, job.bank)
      /\ card[job.bank].top \in {Blank, Torn}
      /\ \A k \in Bank : job.bank < k /\ k <= old => NoFiles(card[k])
      /\ job.sector = SectorOf(old) /\ HasHeader(card, old)
  BY <1>1 DEF ReduceInv
<1>3. job \in Jobs /\ job.bank \in Bank /\ job.bank \in Nat
  BY <1>1, JobTyped, Sizes
<1>4. /\ card' \in [Bank -> Content] /\ GoodCard(card') /\ Tidy(card')
      /\ \A b \in Bank : SectorOf(b) # job.sector => card'[b] = card[b]
      /\ \A b \in Bank : ~HasHeader(card', b)
  BY <1>1, EraseWears, EraseBelow
<1>5. /\ job' \in Jobs' /\ job'.cmd = "reduce" /\ job'.pc = "header" /\ job'.words = 3 /\ job'.bank = job.bank
      /\ job'.image = job.image /\ job'.found = job.found /\ job'.apps = job.apps /\ job'.then = job.then
  <2>1. 3 \in 0 .. 6
    OBVIOUS
  <2> QED  BY <1>1, <1>3, <2>1 DEF Jobs
<1>6. AppBanks(card') = AppBanks(card)
  <2>1. CASE AppBanks(card) = 0
    <3>1. Worn(card, card')
      BY <1>1, WearIsWorn
    <3> QED  BY <1>1, <1>4, <2>1, <3>1, WornApps
  <2>2. CASE AppBanks(card) # 0
    <3>1. old # Top /\ Ends(old)
      BY <1>1, <1>2, <2>2, AppBanksIs, Sizes DEF GoodCard
    <3>2. SectorOf(old) \in Nat
      <4>1. old \in Nat
        BY <1>2, Sizes
      <4> QED  BY <4>1, InSector
    <3>3. SectorOf(Top) # job.sector
      BY <1>2, <3>1, <3>2, TopUntouched
    <3> QED  BY <1>4, <3>3, Sizes, SameApps
  <2> QED  BY <2>1, <2>2
<1>7. \A k \in Bank : SectorOf(k) = job.sector => card'[k] = Empty
  BY <1>1 DEF Wipe
<1>8. \A k \in Bank : k <= job.bank => card'[k] = card[k]
  <2> SUFFICES ASSUME NEW k \in Bank, k <= job.bank PROVE SectorOf(k) # job.sector
    BY <1>4
  <2>1. k \in Nat /\ SectorBanks \in Nat
    BY Sizes
  <2>2. SectorOf(k) <= SectorOf(job.bank) /\ SectorOf(k) \in Nat /\ SectorOf(job.bank) \in Nat
    BY <1>3, <2>1, SectorMono, InSector
  <2>3. SectorOf(old) = SectorOf(job.bank) + 1
    BY <1>2, <1>3, NextEnd
  <2> QED  BY <1>2, <2>2, <2>3
<1>9. Below(card', job.bank) /\ card'[job.bank].top \in {Blank, Torn}
  BY <1>2, <1>3, <1>8, Sizes DEF Below
<1>10. Packed(card', job.bank)
  <2>1. \A k \in 0 .. job.bank : k \in Bank /\ k <= job.bank
    BY <1>3, Sizes
  <2> QED  BY <1>2, <1>3, <1>8, <2>1, SamePacked
<1>11. \A k \in Bank : job.bank < k /\ k <= old => NoFiles(card'[k])
  BY <1>2, <1>4, <1>7, Kinds DEF NoFiles
<1>12. ReduceInv'
  BY <1>2, <1>4, <1>5, <1>6, <1>7, <1>9, <1>10, <1>11 DEF ReduceInv, Below, Packed, Unit, HasHeader
<1>13. FormatInv' /\ AddInv' /\ RewriteInv'
  BY <1>5 DEF FormatInv, AddInv, RewriteInv, Rewriting
<1> QED  BY <1>1, <1>4, <1>5, <1>12, <1>13, RunStep

\* A header is blown where none was, or comes out torn.
LEMMA NewHeaderIs ==
    ASSUME Core, job.pc = "header", card' = [card EXCEPT ![job.bank].top = Blow(@, NewHeader)]
    PROVE  /\ job.bank \in Bank /\ card' \in [Bank -> Content]
           /\ card'[job.bank].body = card[job.bank].body
           /\ card'[job.bank].top \in {FileHeader(job.bank + 1), Torn}
           /\ card[job.bank].top = Blank => card'[job.bank].top = FileHeader(job.bank + 1)
           /\ \A b \in Bank : b # job.bank => card'[b] = card[b]
           /\ job.bank + 1 \in 1 .. Banks
<1>1. Running /\ TypeOK /\ card \in [Bank -> Content] /\ FormatInv /\ ReduceInv
  BY CoreTyped DEF Running, JobInv
<1>2. job.bank \in Bank /\ job.bank + 1 \in 1 .. Banks
  BY SMTT(30), <1>1, JobTyped, Sizes
<1>3. NewHeader = FileHeader(job.bank + 1)
  <2>1. job.image.top \in {Blank, FileHeader(job.bank + 1)}
    BY <1>1, NoHeaderYet DEF FormatInv, ReduceInv
  <2> QED  BY <1>2, <2>1, HeaderSizeIs DEF NewHeader
<1> DEFINE t == Blow(card[job.bank].top, FileHeader(job.bank + 1))
<1>4. t \in {FileHeader(job.bank + 1), Torn} /\ (card[job.bank].top = Blank => t = FileHeader(job.bank + 1))
  BY BlowIs
<1>5. card' = [card EXCEPT ![job.bank] = [card[job.bank] EXCEPT !.top = t]]
  BY <1>3
<1>6. t \in TopUnit /\ card[job.bank] \in Content
  BY <1>1, <1>2, <1>4, Kinds DEF Plain
<1> HIDE DEF t
<1>7. LET x == [card[job.bank] EXCEPT !.top = t]
      IN  x \in Content /\ x.body = card[job.bank].body /\ x.top = t
  BY <1>6 DEF Content
<1> QED  BY <1>1, <1>2, <1>4, <1>5, <1>7

LEMMA BlowHeaderGood ==
    ASSUME Core, BlowHeader
    PROVE  /\ card' \in [Bank -> Content] /\ GoodCard(card') /\ Tidy(card')
           /\ AppBanks(card') = AppBanks(card)
<1>1. job.pc = "header" /\ card' = [card EXCEPT ![job.bank].top = Blow(@, NewHeader)]
  BY DEF BlowHeader
<1>2. /\ Running /\ TypeOK /\ card \in [Bank -> Content] /\ FormatInv /\ ReduceInv
  BY <1>1, CoreTyped DEF Running, JobInv
<1>3. /\ job.cmd \in {"format", "reduce"} /\ \A b \in Bank : ~HasHeader(card, b)
      /\ card[job.bank].top \in {Blank, Torn}
  BY <1>1, NoHeaderYet
<1>4. /\ job.bank \in Bank /\ card' \in [Bank -> Content]
      /\ card'[job.bank].body = card[job.bank].body
      /\ card'[job.bank].top \in {FileHeader(job.bank + 1), Torn}
      /\ \A b \in Bank : b # job.bank => card'[b] = card[b]
      /\ job.bank + 1 \in 1 .. Banks
  BY <1>1, NewHeaderIs
<1>5. AppBanks(card') = AppBanks(card)
  <2>1. CASE job.bank # Top
    BY <1>4, <2>1, SameApps, Sizes
  <2>2. CASE job.bank = Top
    BY <1>3, <1>4, <2>2, Kinds DEF AppBanks, Plain
  <2> QED  BY <2>1, <2>2
<1>6. \A b \in Bank : HasHeader(card', b) => b = job.bank
  BY <1>3, <1>4 DEF HasHeader
<1>7. /\ Ends(job.bank) /\ job.bank < Banks - AppBanks(card)
      /\ Below(card, job.bank) /\ Packed(card, job.bank)
  <2>1. CASE job.cmd = "format"
    <3>1. /\ Ends(job.bank)
          /\ job.bank = Top \/ (AppBanks(card) > 0 /\ Boundary(card) = job.bank)
          /\ \A b \in Bank : b <= job.bank => card[b] = Empty
      BY <1>1, <1>2, <2>1 DEF FormatInv
    <3>2. job.bank < Banks - AppBanks(card)
      <4>1. CASE job.bank = Top
        <5>1. card[Top] = Empty
          BY <3>1, <1>4, <4>1, Sizes
        <5>2. AppBanks(card) = 0
          BY <5>1, Kinds DEF AppBanks, Plain
        <5> QED  BY <4>1, <5>2, Sizes
      <4>2. CASE AppBanks(card) > 0 /\ Boundary(card) = job.bank
        <5> DEFINE low == Banks - AppBanks(card)
        <5>1. low \in Nat /\ SectorBanks \in Nat /\ AppBanks(card) # 0
          BY <1>2, <4>2, AppBanksIs, Sizes
        <5>2. SectorBanks * SectorOf(low) \in Nat /\ SectorBanks * SectorOf(low) <= low
          BY <5>1, InSector
        <5> QED  BY <4>2, <5>1, <5>2 DEF Boundary
      <4> QED  BY <3>1, <4>1, <4>2
    <3>3. Below(card, job.bank)
      BY <3>1, Kinds, Sizes DEF Below, Plain
    <3>4. Packed(card, job.bank)
      <4>1. job.bank \in Nat /\ \A k \in 0 .. job.bank : k \in Bank /\ k <= job.bank
        BY <1>4, Sizes
      <4>2. \A k \in 0 .. job.bank : card[k].body # Files /\ card[k].top # Files
        BY <3>1, <4>1, Kinds
      <4> QED  BY <4>1, <4>2, NoneIsPacked
    <3> QED  BY <3>1, <3>2, <3>3, <3>4
  <2>2. CASE job.cmd = "reduce"
    <3>1. /\ Ends(job.bank) /\ job.bank + SectorBanks = Top - AppBanks(card)
          /\ Below(card, job.bank) /\ Packed(card, job.bank)
      BY <2>2, <1>2, <1>1 DEF ReduceInv
    <3>2. job.bank < Banks - AppBanks(card)
      BY <1>2, <1>4, <3>1, AppBanksIs, Sizes
    <3> QED  BY <3>1, <3>2
  <2> QED  BY <1>3, <2>1, <2>2
<1>8. Below(card', job.bank)
  BY <1>4, <1>7, Sizes DEF Below
<1>9. Packed(card', job.bank)
  <2>1. job.bank \in Nat /\ \A k \in 0 .. job.bank : k \in Bank /\ (k < job.bank => k # job.bank)
    BY <1>4, Sizes
  <2> QED  BY <1>4, <1>7, <2>1, SamePacked
<1>10. GoodCard(card')
  <2> SUFFICES ASSUME NEW b \in Bank, HasHeader(card', b)
               PROVE  /\ Ends(b) /\ card'[b].top = FileHeader(b + 1) /\ b < Banks - AppBanks(card')
                      /\ Below(card', b)
    BY DEF GoodCard
  <2>1. b = job.bank
    BY <1>6
  <2>2. card'[b].top = FileHeader(b + 1)
    BY <2>1, <1>4, Kinds DEF HasHeader, Plain
  <2> QED  BY <1>5, <1>7, <1>8, <2>1, <2>2
<1> QED  BY <1>4, <1>5, <1>6, <1>9, <1>10 DEF Tidy

LEMMA BlowHeaderCore == ASSUME Core, BlowHeader PROVE Core'
<1>1. job.pc = "header" /\ card' = [card EXCEPT ![job.bank].top = Blow(@, NewHeader)]
      /\ pres' = pres /\ rom' = rom /\ hurt' = hurt
  BY DEF BlowHeader
<1>2. /\ Running /\ TypeOK /\ card \in [Bank -> Content] /\ FormatInv /\ ReduceInv
      /\ rom \in Roms /\ hurt \in 0 .. MaxHurt
      /\ DOMAIN pres \subseteq Bank /\ \A b \in DOMAIN pres : pres[b] \in Content
  BY <1>1, CoreTyped DEF Running, JobInv
<1>3. /\ job.cmd \in {"format", "reduce"} /\ job.words = 3 /\ \A b \in Bank : ~HasHeader(card, b)
  BY <1>1, NoHeaderYet
<1>4. /\ job.bank \in Bank /\ card' \in [Bank -> Content]
      /\ card'[job.bank].body = card[job.bank].body
      /\ card'[job.bank].top \in {FileHeader(job.bank + 1), Torn}
      /\ card[job.bank].top = Blank => card'[job.bank].top = FileHeader(job.bank + 1)
      /\ \A b \in Bank : b # job.bank => card'[b] = card[b]
      /\ job.bank + 1 \in 1 .. Banks
  BY <1>1, NewHeaderIs
<1>5. /\ GoodCard(card') /\ Tidy(card') /\ AppBanks(card') = AppBanks(card)
  BY BlowHeaderGood
<1>6. CASE job.cmd = "reduce"
  <2>1. job' = [job EXCEPT !.cmd = "add", !.pc = job.then, !.words = 0, !.bank = Top]
    BY <1>6 DEF BlowHeader
  <2>2. /\ job.then = IF AppBanks(card) = 0 THEN "top" ELSE "pick"
        /\ job.bank + SectorBanks = Top - AppBanks(card)
    BY <1>1, <1>2, <1>6 DEF ReduceInv
  <2>3. job' \in Jobs' /\ job'.cmd = "add" /\ job'.pc = job.then /\ job'.bank = Top
    BY <1>1, <1>2, <2>1, <2>2, JobTyped, EndsTyped DEF Jobs
  <2>4. AppBanks(card) \in 0 .. Banks - 1
    BY <1>2, <1>4, <2>2, AppBanksIs, Sizes
  <2>5. AddInv'
    BY <1>5, <2>2, <2>3, <2>4 DEF AddInv, AppBanks, Applying
  <2>6. FormatInv' /\ ReduceInv' /\ RewriteInv'
    BY <2>2, <2>3 DEF FormatInv, ReduceInv, RewriteInv, Rewriting
  <2> QED  BY <1>1, <1>2, <1>4, <1>5, <2>3, <2>5, <2>6, RunStep
<1>7. CASE job.cmd = "format" /\ Intel
  <2>1. job' = [job EXCEPT !.pc = "null"]
    BY <1>7 DEF BlowHeader
  <2>2. /\ job' \in Jobs' /\ job'.cmd = "format" /\ job'.pc = "null" /\ job'.bank = job.bank
        /\ job'.image = job.image /\ job'.words = job.words /\ job'.apps = job.apps
    BY <1>1, <1>2, <1>7, <2>1, JobTyped DEF Jobs
  <2>3. /\ Ends(job.bank)
        /\ job.bank = Top \/ (AppBanks(card) > 0 /\ Boundary(card) = job.bank)
        /\ job.image.top \in {Blank, FileHeader(job.bank + 1)}
        /\ ~FormatFull => job.bank < Banks - job.apps
        /\ \A b \in Bank : b <= job.bank => card[b] = Empty
    BY <1>1, <1>2, <1>7 DEF FormatInv
  <2>4. Boundary(card') = Boundary(card)
    BY <1>5 DEF Boundary
  <2>5. \A b \in Bank : b > job.bank => ~HasHeader(card', b)
    BY <1>3, <1>4, Sizes DEF HasHeader
  <2>6. card[job.bank] = Empty
    BY <1>4, <2>3, Sizes
  <2>7. /\ card'[job.bank].body = Blank /\ card'[job.bank].top = FileHeader(job.bank + 1)
        /\ \A b \in Bank : b < job.bank => card'[b] = Empty
    BY <1>4, <2>3, <2>6, Kinds, Sizes
  <2>8. FormatInv'
    BY <1>3, <1>5, <2>2, <2>3, <2>4, <2>5, <2>7 DEF FormatInv, AppBanks, Boundary, HasHeader
  <2>9. ReduceInv' /\ AddInv' /\ RewriteInv'
    BY <2>2 DEF ReduceInv, AddInv, RewriteInv, Rewriting
  <2> QED  BY <1>1, <1>2, <1>4, <1>5, <2>2, <2>8, <2>9, RunStep
<1>8. CASE job.cmd = "format" /\ ~Intel
  <2>1. Return(3, "formatted")
    BY <1>8 DEF BlowHeader
  <2> QED  BY <1>1, <1>2, <1>4, <1>5, <2>1, ReturnStep
<1> QED  BY <1>3, <1>6, <1>7, <1>8

----------------------------------------------------------------------------
(* Saving a file *)

\* The file goes to the first unit without one; only one unit changes.
LEMMA SaveFileIs ==
    ASSUME Core, SaveFile
    PROVE  LET h == Request(card).bank
               b == Used(card) \div 2
           IN  /\ h \in Bank /\ HasHeader(card, h) /\ Used(card) \in 0 .. 2 * h /\ b \in 0 .. h
               /\ Unit(card, Used(card)) # Files /\ \A v \in 0 .. Used(card) - 1 : Unit(card, v) = Files
               /\ card' \in [Bank -> Content]
               /\ \A k \in Bank : k # b => card'[k] = card[k]
               /\ \/ /\ Used(card) = 2 * b
                     /\ card'[b].body = Blow(card[b].body, Files) /\ card'[b].top = card[b].top
                  \/ /\ Used(card) = 2 * b + 1 /\ b < h
                     /\ card'[b].body = card[b].body /\ card'[b].top = Blow(card[b].top, Files)
<1> DEFINE h == Request(card).bank
<1> DEFINE u == Used(card)
<1> DEFINE b == u \div 2
<1>1. /\ card \in [Bank -> Content] /\ GoodCard(card) /\ Found(card) /\ Capacity(card) - u > 0
      /\ card' = IF u % 2 = 0 THEN [card EXCEPT ![b].body = Blow(@, Files)]
                              ELSE [card EXCEPT ![b].top = Blow(@, Files)]
  BY CoreTyped DEF SaveFile, Free
<1>2. h \in Bank /\ h \in Nat /\ HasHeader(card, h)
  BY <1>1, RequestIs, Sizes DEF Found
<1>3. /\ Capacity(card) = 2 * h + 1 /\ u \in 0 .. Capacity(card)
      /\ u = Capacity(card) \/ Unit(card, u) # Files
      /\ \A v \in 0 .. u - 1 : Unit(card, v) = Files
  BY <1>1, UsedIs
<1> HIDE DEF h, u
<1>4. u \in 0 .. 2 * h /\ Unit(card, u) # Files
  BY <1>1, <1>2, <1>3
<1>5. /\ b \in Nat /\ u % 2 \in {0, 1} /\ u = 2 * b + (u % 2)
  BY <1>4, Halves
<1> HIDE DEF b
<1>6. b \in 0 .. h /\ b \in Bank /\ (u % 2 = 1 => b < h)
  BY <1>2, <1>4, <1>5, Sizes
<1>7. \A x : Blow(x, Files) \in {Files, Torn}
  BY BlowIs
<1>8. Files \in Body /\ Torn \in Body /\ Files \in TopUnit /\ Torn \in TopUnit /\ card[b] \in Content
  BY <1>1, <1>6, Kinds DEF Plain
<1> DEFINE x == Blow(card[b].body, Files)
<1> DEFINE y == Blow(card[b].top, Files)
<1>9. x \in Body /\ y \in TopUnit
  BY <1>7, <1>8
<1>10. CASE u % 2 = 0
  <2>1. card' = [card EXCEPT ![b] = [card[b] EXCEPT !.body = x]]
    BY <1>1, <1>10
  <2> HIDE DEF x, y
  <2>2. LET z == [card[b] EXCEPT !.body = x]
        IN  z \in Content /\ z.body = x /\ z.top = card[b].top
    BY <1>8, <1>9 DEF Content
  <2>3. /\ card' \in [Bank -> Content] /\ \A k \in Bank : k # b => card'[k] = card[k]
        /\ card'[b].body = x /\ card'[b].top = card[b].top
    BY <1>1, <1>6, <2>1, <2>2
  <2>4. u = 2 * b
    BY <1>5, <1>10
  <2> QED  BY <1>2, <1>3, <1>4, <1>6, <2>3, <2>4 DEF x, h, u, b
<1>11. CASE u % 2 = 1
  <2>1. card' = [card EXCEPT ![b] = [card[b] EXCEPT !.top = y]]
    BY <1>1, <1>11
  <2> HIDE DEF x, y
  <2>2. LET z == [card[b] EXCEPT !.top = y]
        IN  z \in Content /\ z.body = card[b].body /\ z.top = y
    BY <1>8, <1>9 DEF Content
  <2>3. /\ card' \in [Bank -> Content] /\ \A k \in Bank : k # b => card'[k] = card[k]
        /\ card'[b].body = card[b].body /\ card'[b].top = y
    BY <1>1, <1>6, <2>1, <2>2
  <2>4. u = 2 * b + 1 /\ b < h
    BY <1>5, <1>6, <1>11
  <2> QED  BY <1>2, <1>3, <1>4, <1>6, <2>3, <2>4 DEF y, h, u, b
<1> QED  BY <1>5, <1>10, <1>11

LEMMA SaveFileCore == ASSUME Core, SaveFile PROVE Core'
<1> DEFINE h == Request(card).bank
<1> DEFINE u == Used(card)
<1> DEFINE b == u \div 2
<1>1. /\ h \in Bank /\ HasHeader(card, h) /\ u \in 0 .. 2 * h /\ b \in 0 .. h
      /\ Unit(card, u) # Files /\ \A v \in 0 .. u - 1 : Unit(card, v) = Files
      /\ card' \in [Bank -> Content]
      /\ \A k \in Bank : k # b => card'[k] = card[k]
      /\ \/ /\ u = 2 * b /\ card'[b].body = Blow(card[b].body, Files) /\ card'[b].top = card[b].top
         \/ /\ u = 2 * b + 1 /\ b < h
            /\ card'[b].body = card[b].body /\ card'[b].top = Blow(card[b].top, Files)
  BY SaveFileIs
<1> HIDE DEF h, u, b
<1>2. /\ card \in [Bank -> Content] /\ GoodCard(card) /\ Tidy(card) /\ h \in Nat /\ b \in Bank /\ b \in Nat
  BY <1>1, CoreTyped, Sizes
<1>3. /\ Ends(h) /\ card[h].top = FileHeader(h + 1) /\ h < Banks - AppBanks(card) /\ Below(card, h)
      /\ Packed(card, h) /\ \A k \in Bank : HasHeader(card, k) => k = h
  BY <1>1, <1>2, OneHeader DEF GoodCard, Tidy
<1>4. /\ card'[b].body \in {card[b].body, Files, Torn}
      /\ card'[b].top = card[b].top \/ (b < h /\ card'[b].top \in {Files, Torn})
  BY <1>1, BlowIs
<1>5. \A k \in Bank : HasHeader(card', k) => k = h
  <2>1. \A k \in Bank : HasHeader(card', k) => HasHeader(card, k)
    BY <1>1, <1>4, Kinds DEF HasHeader, Plain
  <2> QED  BY <1>3, <2>1
<1>6. card'[h].top = card[h].top
  BY <1>1, <1>2, <1>4
<1>7. AppBanks(card') = AppBanks(card)
  <2>1. Top \in Bank /\ Top \in Nat /\ h <= Top
    BY <1>1, Sizes
  <2>2. card'[Top].top = card[Top].top
    BY <1>1, <1>2, <1>4, <2>1
  <2> QED  BY <2>2, SameApps
<1>8. Below(card', h)
  <2> SUFFICES ASSUME NEW k \in Bank, k <= h
               PROVE  card'[k].body \in Plain /\ (k < h => card'[k].top \in Plain)
    BY DEF Below
  <2>1. card[k].body \in Plain /\ (k < h => card[k].top \in Plain)
    BY <1>3 DEF Below
  <2>2. Files \in Plain /\ Torn \in Plain
    BY DEF Plain
  <2> QED  BY <1>1, <1>4, <2>1, <2>2
<1>9. GoodCard(card')
  BY <1>3, <1>5, <1>6, <1>7, <1>8 DEF GoodCard
<1>10. \A v \in 0 .. 2 * h : v # u => Unit(card', v) = Unit(card, v)
  <2> SUFFICES ASSUME NEW v \in 0 .. 2 * h, v # u PROVE Unit(card', v) = Unit(card, v)
    OBVIOUS
  <2>1. PICK k \in 0 .. h : \/ v = 2 * k /\ Unit(card, v) = card[k].body
                            \/ k < h /\ v = 2 * k + 1 /\ Unit(card, v) = card[k].top
    BY <1>2, UnitsTo
  <2>2. k \in Nat /\ k \in Bank
    BY <1>1, <1>2, Sizes
  <2>3. Unit(card', 2 * k) = card'[k].body /\ Unit(card', 2 * k + 1) = card'[k].top
    BY <2>2, UnitIs
  <2>4. CASE k # b
    BY <1>1, <2>1, <2>2, <2>3, <2>4
  <2>5. CASE k = b
    BY <1>1, <1>2, <2>1, <2>2, <2>3, <2>5
  <2> QED  BY <2>4, <2>5
<1>11. Packed(card', h)
  <2> SUFFICES ASSUME NEW w \in 0 .. 2 * h, NEW v \in 0 .. 2 * h, w < v, Unit(card', v) = Files
               PROVE  Unit(card', w) = Files
    BY DEF Packed
  <2>1. u \in 0 .. 2 * h
    BY <1>1
  <2>2. CASE v = u
    <3>1. w \in 0 .. u - 1
      BY <1>2, <2>1, <2>2
    <3> QED  BY <1>1, <1>10, <2>2, <3>1
  <2>3. CASE v # u
    <3>1. Unit(card, v) = Files
      BY <1>10, <2>3
    <3>2. ~(u < v)
      BY <1>1, <1>3, <3>1 DEF Packed
    <3>3. w # u
      BY <1>2, <2>1, <2>3, <3>2
    <3>4. Unit(card, w) = Files
      BY <1>3, <3>1 DEF Packed
    <3> QED  BY <1>10, <3>3, <3>4
  <2> QED  BY <2>2, <2>3
<1>12. Tidy(card')
  BY <1>5, <1>11 DEF Tidy
<1>13. job' = Ended("none", << >>) /\ pres' = pres /\ rom' = rom /\ hurt' = hurt
  BY DEF SaveFile
<1> QED  BY <1>1, <1>9, <1>12, <1>13, CoreTyped, EndStep

----------------------------------------------------------------------------
(* Adding and updating applications *)

\* The first bank that is given up, and all above it, have no files.
LEMMA ReduceBank ==
    ASSUME Core, Found(card), Shrinkable(card, 1)
    PROVE  LET h == Request(card).bank
               b == h - SectorBanks
           IN  /\ h \in Bank /\ HasHeader(card, h) /\ Ends(h) /\ h < Banks - AppBanks(card)
               /\ Request(card).banks = h + 1
               /\ b \in Bank /\ b \in Nat /\ b + SectorBanks = h /\ b < h /\ Ends(b)
               /\ Below(card, b) /\ Packed(card, b)
               /\ card[b].top \in {Blank, Torn}
               /\ \A k \in Bank : b < k /\ k <= h => NoFiles(card[k])
<1> DEFINE h == Request(card).bank
<1> DEFINE b == h - SectorBanks
<1> DEFINE u == Used(card)
<1>1. card \in [Bank -> Content] /\ GoodCard(card) /\ Tidy(card)
  BY CoreTyped
<1>2. h \in Bank /\ h \in Nat /\ HasHeader(card, h) /\ Request(card).banks = h + 1
  BY <1>1, RequestIs, Sizes DEF Found
<1>3. /\ Ends(h) /\ h < Banks - AppBanks(card) /\ Below(card, h) /\ Packed(card, h)
      /\ card[h].top = FileHeader(h + 1)
  BY <1>1, <1>2 DEF GoodCard, Tidy
<1>4. /\ Capacity(card) = 2 * h + 1 /\ u \in 0 .. Capacity(card)
      /\ u = Capacity(card) \/ Unit(card, u) # Files
  BY <1>1, UsedIs
<1>5. Capacity(card) - u >= 2 * SectorBanks /\ SectorBanks \in Nat /\ SectorBanks >= 2
  BY Sizes DEF Shrinkable, Free
<1> HIDE DEF h, u
<1>6. h >= SectorBanks /\ u \in 0 .. 2 * b + 1 /\ Unit(card, u) # Files
  BY <1>2, <1>4, <1>5
<1>7. b \in Nat /\ Ends(b) /\ b \in Bank /\ b < h /\ b + SectorBanks = h
  BY <1>2, <1>3, <1>5, <1>6, NextEnd, Sizes
<1> HIDE DEF b
<1>8. Below(card, b) /\ Packed(card, b)
  <2>1. Packed(card, b)
    BY <1>2, <1>3, <1>7, SmallerPacked
  <2>2. ASSUME NEW k \in Bank, k <= b PROVE k <= h /\ (k < b => k < h)
    BY <1>2, <1>7, <2>2, Sizes
  <2> QED  BY <1>3, <2>1, <2>2 DEF Below
<1>9. \A v \in u .. 2 * h : Unit(card, v) # Files
  BY <1>2, <1>3, <1>4, <1>6 DEF Packed
<1>10. card[b].top \in {Blank, Torn}
  <2>1. card[b].top \in Plain
    BY <1>2, <1>3, <1>7 DEF Below
  <2>2. 2 * b + 1 \in u .. 2 * h
    BY <1>2, <1>6, <1>7
  <2>3. card[b].top # Files
    BY <1>7, <1>9, <2>2, UnitIs
  <2> QED  BY <2>1, <2>3 DEF Plain
<1>11. ASSUME NEW k \in Bank, b < k, k <= h PROVE NoFiles(card[k])
  <2>1. k \in Nat
    BY Sizes
  <2>2. 2 * k \in u .. 2 * h /\ (k < h => 2 * k + 1 \in u .. 2 * h)
    BY <1>2, <1>6, <1>7, <1>11, <2>1
  <2>3. card[k].body # Files /\ (k < h => card[k].top # Files)
    BY <1>9, <2>1, <2>2, UnitIs
  <2>4. k = h => card[k].top # Files
    <3>1. FileHeader(h + 1).is = "oz"
      BY DEF FileHeader
    <3> QED  BY <1>3, <3>1, Kinds DEF Plain
  <2> QED  BY <1>2, <1>11, <2>1, <2>3, <2>4 DEF NoFiles
<1> QED  BY <1>2, <1>3, <1>7, <1>8, <1>10, <1>11 DEF h, b

LEMMA AddAppCore == ASSUME Core, AddApp PROVE Core'
<1> DEFINE area == Request(card)
<1>1. /\ card \in [Bank -> Content] /\ GoodCard(card) /\ Tidy(card) /\ card' = card /\ pres' = pres
      /\ rom' = rom /\ hurt' = hurt
      /\ rom \in Roms /\ hurt \in 0 .. MaxHurt
      /\ DOMAIN pres \subseteq Bank /\ \A b \in DOMAIN pres : pres[b] \in Content
  BY CoreTyped DEF AddApp
<1>2. /\ area.kind \in {"none", "room", "found", "potential"}
      /\ area.kind \in {"room", "potential"} => AppBanks(card) # 0
      /\ area.kind = "found" /\ AppBanks(card) = 0 => area.bank = Top
      /\ AppBanks(card) \in 0 .. Banks
  BY <1>1, RequestIs, AppBanksIs
<1>3. CASE area.kind = "none"
  <2>1. job' = JobRecord("add", "top", "end", Top, Empty, Sectors - 1, 0, 0)
    BY <1>3, NewJobIs DEF AddApp
  <2>2. /\ job'.cmd = "add" /\ job'.pc = "top" /\ job'.then = "end" /\ job'.bank = Top
        /\ job'.image = Empty /\ job'.sector = Sectors - 1 /\ job'.left = 0 /\ job'.words = 0
    BY <2>1 DEF JobRecord
  <2>3. job' \in Jobs'
    BY <2>1, <2>2, EndsTyped, JobRecordTyped
  <2>4. FormatInv' /\ ReduceInv' /\ AddInv' /\ RewriteInv'
    BY <2>2 DEF FormatInv, ReduceInv, AddInv, RewriteInv, Rewriting, Applying
  <2> QED  BY <1>1, <2>3, <2>4, RunStep
<1>4. CASE area.kind = "found" /\ area.bank = Top - AppBanks(card)
  <2> DEFINE b == area.bank - SectorBanks
  <2> DEFINE then == IF AppBanks(card) = 0 THEN "top" ELSE "pick"
  <2>1. Shrinkable(card, 1) /\ job' = ReduceJob(1, then) /\ Found(card)
    BY <1>4 DEF AddApp, Found
  <2>2. /\ area.bank \in Bank /\ HasHeader(card, area.bank) /\ Ends(area.bank)
        /\ area.banks = area.bank + 1
        /\ b \in Bank /\ b \in Nat /\ b + SectorBanks = area.bank /\ Ends(b)
        /\ Below(card, b) /\ Packed(card, b)
        /\ card[b].top \in {Blank, Torn}
        /\ \A k \in Bank : b < k /\ k <= area.bank => NoFiles(card[k])
    BY <2>1, ReduceBank
  <2>3. job' = JobRecord("reduce", "erase", then, b, Empty, SectorOf(area.bank), 0, 4)
    <3>1. 1 * SectorBanks = SectorBanks
      BY Sizes
    <3> QED  BY <2>1, <3>1 DEF ReduceJob, NewJob, JobRecord
  <2> HIDE DEF area, b, then
  <2>4. /\ job'.cmd = "reduce" /\ job'.pc = "erase" /\ job'.then = then /\ job'.bank = b
        /\ job'.image = Empty /\ job'.sector = SectorOf(area.bank) /\ job'.left = 0 /\ job'.words = 4
    BY <2>3 DEF JobRecord
  <2>5. job' \in Jobs' /\ job'.apps = AppBanks(card) /\ job'.found = area.bank + 1
    <3>1. then \in {"end", "pick", "top", "count"}
      BY DEF then
    <3>2. SectorOf(area.bank) \in Sector
      BY <2>2, TopEnds
    <3>3. 4 \in 0 .. 6
      OBVIOUS
    <3> QED  BY <2>1, <2>2, <2>3, <2>4, <3>1, <3>2, <3>3, EndsTyped, JobRecordTyped DEF area
  <2>6. Empty.top = Blank
    BY Kinds
  <2>7. area.bank = Top - AppBanks(card) /\ area.bank \in Bank
    BY <1>4, <2>2
  <2>8. ReduceInv'
    BY <1>1, <2>2, <2>4, <2>5, <2>6, <2>7 DEF ReduceInv, Below, Packed, Unit, HasHeader, AppBanks, then
  <2>9. FormatInv' /\ AddInv' /\ RewriteInv'
    BY <2>4 DEF FormatInv, AddInv, RewriteInv, Rewriting
  <2> QED  BY <1>1, <2>5, <2>8, <2>9, RunStep
<1>5. CASE area.kind # "none" /\ ~(area.kind = "found" /\ area.bank = Top - AppBanks(card))
  <2>1. AppBanks(card) < Banks /\ job' = NewJob("add", "pick")
    BY <1>5 DEF AddApp
  <2>2. job' = JobRecord("add", "pick", "end", Top, Empty, Sectors - 1, 0, 0)
    BY <2>1, NewJobIs
  <2>3. /\ job'.cmd = "add" /\ job'.pc = "pick" /\ job'.then = "end" /\ job'.bank = Top
        /\ job'.image = Empty /\ job'.sector = Sectors - 1 /\ job'.left = 0 /\ job'.words = 0
    BY <2>2 DEF JobRecord
  <2>4. job' \in Jobs'
    BY <2>2, <2>3, EndsTyped, JobRecordTyped
  <2>5. AppBanks(card) \in 1 .. Banks - 1
    <3>1. AppBanks(card) # 0
      <4>1. SUFFICES ASSUME AppBanks(card) = 0 PROVE FALSE
        OBVIOUS
      <4>2. area.kind = "found" /\ area.bank = Top
        BY <1>2, <1>5, <4>1
      <4> QED  BY <1>5, <4>1, <4>2, Sizes
    <3> QED  BY <1>2, <2>1, <3>1, Sizes
  <2>6. FormatInv' /\ ReduceInv' /\ AddInv' /\ RewriteInv'
    BY <1>1, <2>3, <2>5 DEF FormatInv, ReduceInv, AddInv, RewriteInv, Rewriting, Applying, AppBanks
  <2> QED  BY <1>1, <2>4, <2>6, RunStep
<1> QED  BY <1>2, <1>3, <1>4, <1>5

\* The error exit of RomUpdate.
LEMMA SuicideStep ==
    ASSUME Core, card' \in [Bank -> Content], GoodCard(card'), Tidy(card'), Suicide,
           rom' = rom, hurt' \in 0 .. MaxHurt
    PROVE  Core'
<1>1. pres' = << >> /\ DOMAIN pres' = {} /\ job' = Ended("failed", << >>)
  BY DEF Suicide
<1> QED  BY <1>1, CoreTyped, EndStep

LEMMA PickBankCore == ASSUME Core, PickBank PROVE Core'
<1>1. /\ card \in [Bank -> Content] /\ GoodCard(card) /\ Tidy(card) /\ card' = card
      /\ rom' = rom /\ hurt' = hurt /\ job.pc = "pick" /\ Running /\ TypeOK
      /\ rom \in Roms /\ hurt \in 0 .. MaxHurt
      /\ DOMAIN pres \subseteq Bank /\ \A b \in DOMAIN pres : pres[b] \in Content
      /\ FormatInv /\ ReduceInv /\ AddInv
  BY CoreTyped DEF PickBank, Running, JobInv
<1> DEFINE bank == Top - AppBanks(card)
<1>2. CASE card[bank] = Empty
  <2>1. job' = [job EXCEPT !.pc = "install", !.then = "count", !.bank = bank,
                           !.image = [body |-> Code(0), top |-> Code(0)]]
        /\ pres' = pres
    BY <1>2 DEF PickBank
  <2>2. job \in Jobs /\ job.cmd \in {"add", "update"}
    BY <1>1, JobTyped DEF FormatInv, ReduceInv
  <2>3. AppBanks(card) \in 1 .. Banks - 1 /\ job.cmd = "add"
    BY <1>1, <2>2 DEF AddInv, Applying
  <2>4. bank \in Bank
    BY <2>3, Sizes
  <2>5. 0 \in Bank /\ [body |-> Code(0), top |-> Code(0)] \in Content
    BY Kinds, Sizes DEF Content
  <2> DEFINE image == [body |-> Code(0), top |-> Code(0)]
  <2> HIDE DEF image, bank
  <2>6. /\ job' \in Jobs' /\ job'.cmd = "add" /\ job'.pc = "install" /\ job'.then = "count" /\ job'.bank = bank
        /\ job'.image = image
    BY <2>1, <2>2, <2>3, <2>4, <2>5 DEF Jobs, image
  <2>7. AddInv'
    BY <1>1, <1>2, <2>3, <2>6 DEF AddInv, AppBanks, Applying, image, bank
  <2>8. FormatInv' /\ ReduceInv' /\ RewriteInv'
    BY <2>6 DEF FormatInv, ReduceInv, RewriteInv, Rewriting
  <2> QED  BY <1>1, <2>1, <2>6, <2>7, <2>8, RunStep
<1>3. CASE card[bank] # Empty
  <2>1. Suicide
    BY <1>3 DEF PickBank
  <2> QED  BY <1>1, <2>1, SuicideStep
<1> QED  BY <1>2, <1>3

LEMMA EraseTopSectorCore == ASSUME Core, EraseTopSector PROVE Core'
<1>1. /\ card \in [Bank -> Content] /\ card' = Wipe(card, SectorOf(Top)) /\ pres' = pres
      /\ rom' = rom /\ hurt' = hurt /\ job.pc = "top" /\ Running /\ TypeOK
      /\ rom \in Roms /\ hurt \in 0 .. MaxHurt
      /\ DOMAIN pres \subseteq Bank /\ \A b \in DOMAIN pres : pres[b] \in Content
      /\ FormatInv /\ ReduceInv /\ AddInv
      /\ job' = [job EXCEPT !.pc = "install", !.then = "end",
                            !.image = [body |-> Code(0), top |-> AppHeader(1)]]
  BY CoreTyped, TopEnds DEF EraseTopSector, Running, JobInv
<1>2. card' \in [Bank -> Content] /\ GoodCard(card') /\ Tidy(card')
  BY <1>1, TopWears
<1>3. card'[Top] = Empty
  BY <1>1, Sizes DEF Wipe
<1>4. job \in Jobs /\ job.cmd \in {"add", "update"}
  BY <1>1, JobTyped DEF FormatInv, ReduceInv
<1>5. job.cmd = "add" /\ job.bank = Top
  BY <1>1, <1>4 DEF AddInv, Applying
<1> DEFINE image == [body |-> Code(0), top |-> AppHeader(1)]
<1>6. image \in Content
  BY Kinds, Sizes DEF Content
<1> HIDE DEF image
<1>7. /\ job' \in Jobs' /\ job'.cmd = "add" /\ job'.pc = "install" /\ job'.then = "end" /\ job'.bank = Top
      /\ job'.image = image
  BY <1>1, <1>4, <1>5, <1>6 DEF Jobs, image
<1>8. AddInv'
  BY <1>3, <1>7 DEF AddInv, Applying, image
<1>9. FormatInv' /\ ReduceInv' /\ RewriteInv'
  BY <1>7 DEF FormatInv, ReduceInv, RewriteInv, Rewriting
<1> QED  BY <1>1, <1>2, <1>7, <1>8, <1>9, RunStep

\* All headers are below a bank that holds a DOR.
LEMMA HeadersUnderDor ==
    ASSUME NEW c, GoodCard(c), NEW b \in Bank, IsDor(c, b)
    PROVE  /\ \A h \in Bank : HasHeader(c, h) => h < b
           /\ c[b].top.is # "oz"
<1>1. ASSUME NEW h \in Bank, HasHeader(c, h) PROVE ~(b <= h)
  BY <1>1, Kinds DEF GoodCard, Below, IsDor
<1>2. \A h \in Bank : HasHeader(c, h) => h < b
  BY <1>1, Sizes
<1>3. ~HasHeader(c, b)
  BY <1>2, Sizes
<1> QED  BY <1>2, <1>3 DEF HasHeader

\* A bank above all headers may become an application, or the top bank get a card header.
LEMMA BankGood ==
    ASSUME NEW c \in [Bank -> Content], GoodCard(c), NEW b \in Bank, NEW x \in Content,
           \A h \in Bank : HasHeader(c, h) => h < b,
           x.top.is # "oz",
           NEW d, d = [c EXCEPT ![b] = x],
           \A h \in Bank : HasHeader(c, h) => h < Banks - AppBanks(d)
    PROVE  d \in [Bank -> Content] /\ GoodCard(d) /\ (Tidy(c) => Tidy(d))
<1>1. d \in [Bank -> Content] /\ d[b] = x /\ \A k \in Bank : k # b => d[k] = c[k]
  OBVIOUS
<1>2. \A h \in Bank : HasHeader(d, h) => HasHeader(c, h) /\ h # b
  BY <1>1 DEF HasHeader
<1>3. ASSUME NEW h \in Bank, HasHeader(d, h), NEW k \in Bank, k <= h PROVE d[k] = c[k]
  <2>1. h < b
    BY <1>2, <1>3
  <2> QED  BY <1>1, <1>3, <2>1, Sizes
<1>4. GoodCard(d)
  <2> SUFFICES ASSUME NEW h \in Bank, HasHeader(d, h)
               PROVE  /\ Ends(h) /\ d[h].top = FileHeader(h + 1) /\ h < Banks - AppBanks(d)
                      /\ Below(d, h)
    BY DEF GoodCard
  <2>1. HasHeader(c, h) /\ d[h] = c[h]
    BY <1>1, <1>2
  <2>2. Ends(h) /\ c[h].top = FileHeader(h + 1) /\ Below(c, h)
    BY <2>1 DEF GoodCard
  <2>3. Below(d, h)
    BY <1>3, <2>2 DEF Below
  <2> QED  BY <2>1, <2>2, <2>3
<1>5. ASSUME Tidy(c) PROVE Tidy(d)
  <2> SUFFICES ASSUME NEW h \in Bank, HasHeader(d, h) PROVE Packed(d, h)
    BY DEF Tidy
  <2>1. Packed(c, h)
    BY <1>2, <1>5 DEF Tidy
  <2>2. h \in Nat /\ \A k \in 0 .. h : k \in Bank /\ k <= h
    BY Sizes
  <2> QED  BY <1>3, <2>1, <2>2, SamePacked
<1> QED  BY <1>1, <1>4, <1>5

LEMMA InstallIs ==
    ASSUME Core, Install
    PROVE  /\ card' = [card EXCEPT ![job.bank] = job.image]
           /\ card' \in [Bank -> Content] /\ GoodCard(card') /\ Tidy(card')
           /\ job.then = "count" => AppBanks(card') = AppBanks(card)
<1>1. /\ card \in [Bank -> Content] /\ GoodCard(card) /\ Tidy(card)
      /\ job.pc = "install" /\ Running /\ TypeOK
      /\ card' = [card EXCEPT ![job.bank] = BlowBank(@, job.image)]
  BY CoreTyped DEF Install, Running
<1>2. /\ job.bank \in Bank /\ card[job.bank] = Empty
      /\ \A h \in Bank : HasHeader(card, h) => h < job.bank
      /\ \/ /\ job.then = "end" /\ job.bank = Top
            /\ job.image = [body |-> Code(0), top |-> AppHeader(1)]
         \/ /\ job.then = "count" /\ AppBanks(card) \in 1 .. Banks - 1
            /\ job.bank = Top - AppBanks(card)
            /\ job.image = [body |-> Code(0), top |-> Code(0)]
  BY <1>1, InstallBank
<1>3. job.image \in Content
  BY <1>1, JobTyped
<1>4. card' = [card EXCEPT ![job.bank] = job.image]
  BY <1>1, <1>2, <1>3, BlowIs
<1>5. job.image.top.is # "oz"
  BY <1>2 DEF Code, AppHeader
<1>6. /\ \A h \in Bank : HasHeader(card, h) => h < Banks - AppBanks(card')
      /\ job.then = "count" => AppBanks(card') = AppBanks(card)
  <2>1. CASE job.then = "end"
    <3>1. card'[Top].top = AppHeader(1)
      BY <1>1, <1>2, <1>4, <2>1
    <3>2. AppBanks(card') = 1
      BY <3>1 DEF AppBanks, AppHeader
    <3> QED  BY <1>2, <2>1, <3>2, Sizes
  <2>2. CASE job.then = "count"
    <3>1. job.bank # Top
      BY <1>2, <2>2, Sizes
    <3>2. AppBanks(card') = AppBanks(card)
      <4>1. card'[Top].top = card[Top].top
        BY <1>1, <1>4, <3>1, Sizes
      <4> QED  BY <4>1, SameApps
    <3> QED  BY <1>1, <3>2 DEF GoodCard
  <2> QED  BY <1>2, <2>1, <2>2
<1>7. \A h \in Bank : HasHeader(card, h) => h < job.bank /\ h < Banks - AppBanks(card')
  BY <1>2, <1>6
<1>8. card' \in [Bank -> Content] /\ GoodCard(card') /\ (Tidy(card) => Tidy(card'))
  <2> DEFINE b == job.bank
             x == job.image
  <2>1. card \in [Bank -> Content] /\ GoodCard(card) /\ b \in Bank /\ x \in Content
    BY <1>1, <1>2, <1>3
  <2>2. x.top.is # "oz" /\ card' = [card EXCEPT ![b] = x]
    BY <1>4, <1>5
  <2>3. \A h \in Bank : HasHeader(card, h) => h < b /\ h < Banks - AppBanks(card')
    BY <1>7
  <2> HIDE DEF b, x
  <2> QED  BY <2>1, <2>2, <2>3, BankGood
<1> QED  BY <1>1, <1>4, <1>6, <1>8

LEMMA InstallCore == ASSUME Core, Install PROVE Core'
<1>1. /\ card \in [Bank -> Content] /\ pres' = pres
      /\ rom' = rom /\ hurt' = hurt /\ job.pc = "install" /\ Running /\ TypeOK
      /\ rom \in Roms /\ hurt \in 0 .. MaxHurt
      /\ DOMAIN pres \subseteq Bank /\ \A b \in DOMAIN pres : pres[b] \in Content
      /\ AddInv
  BY CoreTyped DEF Install, Running, JobInv
<1>2. /\ card' = [card EXCEPT ![job.bank] = job.image]
      /\ card' \in [Bank -> Content] /\ GoodCard(card') /\ Tidy(card')
      /\ job.then = "count" => AppBanks(card') = AppBanks(card)
  BY InstallIs
<1>3. /\ job.cmd \in {"add", "update"} /\ job.bank \in Bank /\ job.image.body = Code(0)
      /\ \/ job.then = "end"
         \/ /\ job.then = "count" /\ AppBanks(card) \in 1 .. Banks - 1
            /\ job.bank = Top - AppBanks(card)
  BY <1>1, InstallBank
<1>4. CASE job.then = "end"
  <2>1. job' = Ended("added", << >>)
    BY <1>4 DEF Install
  <2> QED  BY <1>1, <1>2, <2>1, EndStep
<1>5. CASE job.then = "count" /\ AppBanks(card) \in 1 .. Banks - 1 /\ job.bank = Top - AppBanks(card)
  <2>1. job' = [job EXCEPT !.pc = "link"]
    BY <1>5 DEF Install
  <2>2. job.cmd = "add" /\ job \in Jobs
    BY <1>1, <1>3, JobTyped DEF AddInv, Applying
  <2>3. job' \in Jobs' /\ job'.cmd = "add" /\ job'.pc = "link" /\ job'.then = "count" /\ job'.bank = job.bank
    BY <1>1, <1>5, <2>1, <2>2 DEF Jobs
  <2>4. card'[job.bank].body.is = "code"
    BY <1>1, <1>2, <1>3 DEF Code
  <2>5. AddInv'
    BY <1>2, <1>5, <2>3, <2>4 DEF AddInv, AppBanks, IsDor, Applying
  <2>6. FormatInv' /\ ReduceInv' /\ RewriteInv'
    BY <2>3 DEF FormatInv, ReduceInv, RewriteInv, Rewriting
  <2> QED  BY <1>1, <1>2, <2>3, <2>5, <2>6, RunStep
<1> QED  BY <1>3, <1>4, <1>5

\* What a job needs that is going to rewrite a sector.
LEMMA PreserveStep ==
    ASSUME Core, card' = card, pres' = pres, rom' = rom, hurt' = hurt,
           job' \in Jobs', job'.pc = "preserve", job'.bank \in Bank, job'.image \in Content,
           job'.cmd \in {"add", "update"}, job'.cmd = "update" => job'.then = "end",
           job'.then \in {"end", "count"},
           job'.image.body.is = "code" \/ (job'.bank = Top /\ job'.image.top.is = "OZ"),
           NEW d, d = [card EXCEPT ![job'.bank] = job'.image],
           GoodCard(d),
           job'.then = "count" => AppBanks(d) \in 1 .. Banks - 1 /\ IsDor(d, Top - AppBanks(d))
    PROVE  Core'
<1>1. /\ card \in [Bank -> Content] /\ GoodCard(card) /\ Tidy(card)
      /\ rom \in Roms /\ hurt \in 0 .. MaxHurt
      /\ DOMAIN pres \subseteq Bank /\ \A b \in DOMAIN pres : pres[b] \in Content
  BY CoreTyped
<1>2. Final' = d
  BY <1>1 DEF Final, Rewriting
<1>3. /\ GoodCard(Final')
      /\ job'.then = "count" => AppBanks(Final') \in 1 .. Banks - 1 /\ IsDor(Final', Top - AppBanks(Final'))
  BY <1>2
<1>4. AddInv'
  BY <1>3 DEF AddInv, Applying, GoodCard, Below, HasHeader, AppBanks, IsDor
<1>5. FormatInv' /\ ReduceInv' /\ RewriteInv'
  BY DEF FormatInv, ReduceInv, RewriteInv, Rewriting
<1> QED  BY <1>1, <1>4, <1>5, RunStep

\* The list of applications has banks of the card, and not bank 0.
LEMMA DorsAreBanks == \A c : Dors(c) \subseteq Bank \ {0}
  BY DEF Dors

LEMMA LinkDorCore == ASSUME Core, LinkDor PROVE Core'
<1> DEFINE last == LastDor(card)
<1> DEFINE image == [card[last] EXCEPT !.body = Code(job.bank)]
<1> DEFINE d == [card EXCEPT ![last] = image]
<1>1. /\ card \in [Bank -> Content] /\ GoodCard(card) /\ card' = card /\ pres' = pres
      /\ rom' = rom /\ hurt' = hurt /\ job.pc = "link" /\ Running /\ TypeOK /\ ListEnds(card)
      /\ FormatInv /\ ReduceInv /\ AddInv
      /\ job' = [job EXCEPT !.pc = "preserve", !.bank = last, !.image = image]
  BY CoreTyped DEF LinkDor, Running, JobInv
<1>2. last \in Dors(card) /\ IsDor(card, last)
  <2>1. \E b \in Dors(card) : IsDor(card, b) /\ NextDor(card, b) = 0
    BY <1>1 DEF ListEnds
  <2> QED  BY <2>1 DEF LastDor
<1>3. last \in Bank
  BY <1>2, DorsAreBanks
<1>4. job.cmd \in {"add", "update"} /\ job \in Jobs /\ job.bank \in Bank
  BY <1>1, JobTyped DEF FormatInv, ReduceInv
<1>5. /\ job.cmd = "add" /\ job.then = "count" /\ AppBanks(card) \in 1 .. Banks - 1
      /\ IsDor(card, Top - AppBanks(card))
  BY <1>1, <1>4 DEF AddInv, Applying
<1> HIDE DEF last
<1>6. image \in Content /\ image.body.is = "code" /\ image.top = card[last].top
  <2>1. card[last] \in Content /\ Code(job.bank) \in Body /\ Code(job.bank).is = "code"
    BY <1>1, <1>3, <1>4, Kinds
  <2> QED  BY <2>1 DEF Content
<1> HIDE DEF image
<1>7. /\ job' \in Jobs' /\ job'.cmd = "add" /\ job'.pc = "preserve" /\ job'.then = "count" /\ job'.bank = last
      /\ job'.image = image
  BY ZenonT(30), <1>1, <1>3, <1>4, <1>5, <1>6 DEF Jobs
<1>8. /\ \A h \in Bank : HasHeader(card, h) => h < last
      /\ image.top.is # "oz"
  BY <1>1, <1>2, <1>3, <1>6, HeadersUnderDor
<1>9. AppBanks(d) = AppBanks(card)
  <2>1. d[Top].top = card[Top].top
    BY <1>1, <1>3, <1>6, Sizes
  <2> QED  BY <2>1, SameApps
<1>10. GoodCard(d)
  <2>1. \A h \in Bank : HasHeader(card, h) => h < Banks - AppBanks(d)
    BY <1>1, <1>9 DEF GoodCard
  <2> QED  BY <1>1, <1>3, <1>6, <1>8, <2>1, BankGood
<1>11. IsDor(d, Top - AppBanks(d))
  <2>1. Top - AppBanks(card) \in Bank
    BY <1>5, Sizes
  <2> QED  BY <1>1, <1>3, <1>5, <1>6, <1>9, <2>1 DEF IsDor
<1>12. AppBanks(d) \in 1 .. Banks - 1
  BY <1>5, <1>9
<1> HIDE DEF d
<1>13. d = [card EXCEPT ![job'.bank] = job'.image]
  BY <1>7 DEF d
<1> QED  BY <1>1, <1>3, <1>6, <1>7, <1>10, <1>11, <1>12, <1>13, PreserveStep

LEMMA CountBankCore == ASSUME Core, CountBank PROVE Core'
<1> DEFINE image == [card[Top] EXCEPT !.top = AppHeader(AppBanks(card) + 1)]
<1> DEFINE d == [card EXCEPT ![Top] = image]
<1>1. /\ card \in [Bank -> Content] /\ GoodCard(card) /\ card' = card /\ pres' = pres
      /\ rom' = rom /\ hurt' = hurt /\ job.pc = "count" /\ Running /\ TypeOK
      /\ FormatInv /\ ReduceInv /\ AddInv
      /\ job' = [job EXCEPT !.pc = "preserve", !.then = "end", !.bank = Top, !.image = image]
  BY CoreTyped DEF CountBank, Running, JobInv
<1>2. job.cmd \in {"add", "update"} /\ job \in Jobs
  BY <1>1, JobTyped DEF FormatInv, ReduceInv
<1>3. /\ job.cmd = "add" /\ AppBanks(card) \in 1 .. Banks - 1
      /\ IsDor(card, Top - AppBanks(card))
  BY <1>1, <1>2 DEF AddInv, Applying
<1>4. Top \in Bank /\ AppBanks(card) + 1 \in 1 .. Banks /\ Top - AppBanks(card) \in Bank
  BY <1>3, Sizes
<1>5. image \in Content /\ image.top = AppHeader(AppBanks(card) + 1)
  <2>1. card[Top] \in Content /\ AppHeader(AppBanks(card) + 1) \in TopUnit
    BY <1>1, <1>4, Kinds
  <2> QED  BY <2>1 DEF Content
<1>6. image.top.is = "OZ" /\ image.top.banks = AppBanks(card) + 1
  BY <1>5 DEF AppHeader
<1> HIDE DEF image
<1>7. /\ job' \in Jobs' /\ job'.cmd = "add" /\ job'.pc = "preserve" /\ job'.then = "end" /\ job'.bank = Top
      /\ job'.image = image
  BY ZenonT(30), <1>1, <1>2, <1>3, <1>4, <1>5 DEF Jobs
<1>8. \A h \in Bank : HasHeader(card, h) => h < Top - AppBanks(card)
  BY <1>1, <1>3, <1>4, HeadersUnderDor
<1>9. AppBanks(d) = AppBanks(card) + 1
  BY <1>1, <1>4, <1>6 DEF AppBanks
<1>10. GoodCard(d)
  <2>1. \A h \in Bank : HasHeader(card, h) => h < Banks - AppBanks(d) /\ h < Top
    BY <1>3, <1>8, <1>9, Sizes
  <2> QED  BY <1>1, <1>4, <1>5, <1>6, <2>1, BankGood
<1> HIDE DEF d
<1>11. d = [card EXCEPT ![job'.bank] = job'.image]
  BY <1>7 DEF d
<1> QED  BY <1>1, <1>4, <1>5, <1>6, <1>7, <1>10, <1>11, PreserveStep

LEMMA UpdateAppCore == ASSUME Core, UpdateApp PROVE Core'
<1>1. PICK b \in Dors(card) :
          /\ IsDor(card, b)
          /\ job' = [NewJob("update", "preserve") EXCEPT
                        !.bank = b,
                        !.image = [body |-> Code(NextDor(card, b)),
                                   top |-> IF b = Top THEN card[Top].top ELSE Code(0)]]
  BY DEF UpdateApp
<1> DEFINE image == [body |-> Code(NextDor(card, b)), top |-> IF b = Top THEN card[Top].top ELSE Code(0)]
<1> DEFINE d == [card EXCEPT ![b] = image]
<1>2. /\ card \in [Bank -> Content] /\ GoodCard(card) /\ card' = card /\ pres' = pres
      /\ rom' = rom /\ hurt' = hurt /\ b \in Bank
  BY CoreTyped, DorsAreBanks DEF UpdateApp
<1>3. /\ \A h \in Bank : HasHeader(card, h) => h < b
      /\ card[b].top.is # "oz"
  BY <1>1, <1>2, HeadersUnderDor
<1>4. /\ image \in Content /\ image.body.is = "code" /\ image.top.is # "oz"
      /\ b = Top => image.top = card[Top].top
  <2>1. NextDor(card, b) \in Bank
    BY <1>1, <1>2, HeaderKinds DEF IsDor, NextDor, Content
  <2>2. Code(NextDor(card, b)) \in Body /\ Code(NextDor(card, b)).is = "code"
    BY <2>1, Kinds
  <2>3. Code(0) \in TopUnit /\ Code(0).is # "oz"
    BY Kinds, Sizes DEF Code
  <2>4. card[b] \in Content
    BY <1>2
  <2> QED  BY <1>3, <2>2, <2>3, <2>4 DEF Content
<1>5. job' = JobRecord("update", "preserve", "end", b, image, Sectors - 1, 0, 0)
  BY <1>1, NewJobIs DEF JobRecord
<1> HIDE DEF image
<1>6. /\ job'.cmd = "update" /\ job'.pc = "preserve" /\ job'.then = "end" /\ job'.bank = b
      /\ job'.image = image /\ job'.sector = Sectors - 1 /\ job'.left = 0 /\ job'.words = 0
  BY <1>5 DEF JobRecord
<1>7. job' \in Jobs'
  BY <1>2, <1>4, <1>5, <1>6, EndsTyped, JobRecordTyped
<1>8. AppBanks(d) = AppBanks(card)
  <2>1. d[Top].top = card[Top].top
    BY <1>2, <1>4, Sizes
  <2> QED  BY <2>1, SameApps
<1>9. GoodCard(d)
  <2>1. \A h \in Bank : HasHeader(card, h) => h < Banks - AppBanks(d)
    BY <1>2, <1>8 DEF GoodCard
  <2> QED  BY <1>2, <1>3, <1>4, <2>1, BankGood
<1> HIDE DEF d
<1>10. d = [card EXCEPT ![job'.bank] = job'.image]
  BY <1>6 DEF d
<1> QED  BY <1>2, <1>4, <1>6, <1>7, <1>9, <1>10, PreserveStep

----------------------------------------------------------------------------
(* Rewriting a sector *)

LEMMA PreserveSectorBanksCore == ASSUME Core, PreserveSectorBanks PROVE Core'
<1>1. /\ card \in [Bank -> Content] /\ GoodCard(card) /\ Tidy(card) /\ card' = card
      /\ rom' = rom /\ hurt' = hurt /\ rom \in Roms /\ hurt \in 0 .. MaxHurt
      /\ job.pc = "preserve" /\ job.pc \in Applying
      /\ pres' = [b \in PassiveBanks(job.bank) |-> card[b]]
      /\ job' = [job EXCEPT !.pc = "sector", !.tries = Retries, !.rest = DOMAIN pres',
                            !.old = [b \in OthersOf(job.bank) |-> card[b]]]
  BY CoreTyped DEF PreserveSectorBanks, Applying
<1>2. /\ job \in Jobs /\ job.cmd \in {"add", "update"} /\ job.bank \in Bank /\ job.image \in Content
      /\ job.then \in {"end", "count"} /\ (job.cmd = "update" => job.then = "end")
      /\ job.image.body.is = "code" \/ (job.bank = Top /\ job.image.top.is = "OZ")
      /\ GoodCard(Final)
      /\ job.then = "count" => AppBanks(Final) \in 1 .. Banks - 1 /\ IsDor(Final, Top - AppBanks(Final))
  <2>1. AddInv
    BY <1>1, CoreTyped DEF JobInv, Running
  <2> QED  BY <1>1, <2>1, ApplyJob DEF AddInv
<1>3. DOMAIN pres' = PassiveBanks(job.bank) /\ \A b \in DOMAIN pres' : pres'[b] = card[b]
  BY <1>1
<1>4. PassiveBanks(job.bank) \subseteq OthersOf(job.bank) /\ OthersOf(job.bank) \subseteq Bank
      /\ \A b \in OthersOf(job.bank) : b \in PassiveBanks(job.bank) <=> card[b] # Empty
  BY DEF PassiveBanks, OthersOf, BanksOf
<1>5. DOMAIN pres' \subseteq Bank /\ \A b \in DOMAIN pres' : pres'[b] \in Content
  BY <1>1, <1>3, <1>4
<1> DEFINE old == [b \in OthersOf(job.bank) |-> card[b]]
<1>6. /\ job' \in Jobs' /\ job'.cmd = job.cmd /\ job'.pc = "sector" /\ job'.then = job.then
      /\ job'.bank = job.bank /\ job'.image = job.image /\ job'.rest = DOMAIN pres' /\ job'.old = old
  <2>1. Retries \in 0 .. Retries
    BY UpdateAssumption
  <2> HIDE DEF old
  <2>2. job' = [job EXCEPT !.pc = "sector", !.tries = Retries, !.rest = DOMAIN pres', !.old = old]
    BY <1>1 DEF old
  <2> DEFINE dom == DOMAIN pres'
  <2>3. job' = [job EXCEPT !.pc = "sector", !.tries = Retries, !.rest = dom, !.old = old]
    BY <2>2
  <2> HIDE DEF dom
  <2>4. /\ job'.cmd = job.cmd /\ job'.pc = "sector" /\ job'.then = job.then
        /\ job'.bank = job.bank /\ job'.image = job.image /\ job'.rest = dom /\ job'.old = old
    BY <1>2, <2>3 DEF Jobs
  <2>5. job' \in Jobs'
    BY <1>2, <2>1, <2>3, <2>4 DEF Jobs, dom
  <2> QED  BY <2>4, <2>5 DEF dom
<1>7. Final' = Final
  <2>1. \A b \in Bank : Final'[b] = Final[b]
    BY <1>1, <1>6 DEF Final, Rewriting
  <2> QED  BY <2>1 DEF Final
<1>8. AddInv'
  <2>1. GoodCard(Final')
        /\ (job'.then = "count" => AppBanks(Final') \in 1 .. Banks - 1 /\ IsDor(Final', Top - AppBanks(Final')))
    BY <1>2, <1>6, <1>7
  <2> QED  BY <1>2, <1>6, <2>1 DEF AddInv, Applying, GoodCard, Below, HasHeader, AppBanks, IsDor
<1>9. RewriteInv'
  BY <1>3, <1>4, <1>6 DEF RewriteInv, OthersOf, BanksOf
<1>10. FormatInv' /\ ReduceInv'
  BY <1>2, <1>6 DEF FormatInv, ReduceInv
<1> QED  BY <1>1, <1>5, <1>6, <1>8, <1>9, <1>10, RunStep

LEMMA RamErrorCore == ASSUME Core, RamError PROVE Core'
<1>1. Suicide /\ card' = card /\ rom' = rom /\ hurt' = hurt + 1 /\ MayFail("ram")
  BY DEF RamError
<1>2. GoodCard(card') /\ Tidy(card') /\ card' \in [Bank -> Content] /\ hurt' \in 0 .. MaxHurt
  BY <1>1, CoreTyped, HurtTyped
<1> QED  BY <1>1, <1>2, SuicideStep

LEMMA EraseSectorCore == ASSUME Core, EraseSector PROVE Core'
<1>1. /\ card \in [Bank -> Content] /\ pres' = pres
      /\ rom' = rom /\ hurt' = hurt /\ rom \in Roms /\ hurt \in 0 .. MaxHurt
      /\ DOMAIN pres \subseteq Bank /\ \A b \in DOMAIN pres : pres[b] \in Content
      /\ job.pc = "sector" /\ job.pc \in Applying /\ AddInv
      /\ card' = Wipe(card, SectorOf(job.bank))
      /\ job' = [job EXCEPT !.pc = "blow"]
  BY CoreTyped DEF EraseSector, Applying, JobInv, Running
<1>2. /\ job \in Jobs /\ job.cmd \in {"add", "update"} /\ job.bank \in Bank /\ job.image \in Content
      /\ job.then \in {"end", "count"} /\ (job.cmd = "update" => job.then = "end")
      /\ job.image.body.is = "code" \/ (job.bank = Top /\ job.image.top.is = "OZ")
      /\ GoodCard(Final)
      /\ job.then = "count" => AppBanks(Final) \in 1 .. Banks - 1 /\ IsDor(Final, Top - AppBanks(Final))
      /\ RewriteInv
  BY <1>1, ApplyJob DEF AddInv
<1>3. card' \in [Bank -> Content] /\ GoodCard(card') /\ Tidy(card')
  BY <1>1, SectorPcWears
<1>4. /\ job' \in Jobs' /\ job'.cmd = job.cmd /\ job'.pc = "blow" /\ job'.then = job.then
      /\ job'.bank = job.bank /\ job'.image = job.image /\ job'.rest = job.rest /\ job'.old = job.old
  BY <1>1, <1>2 DEF Jobs
<1>5. /\ \A b \in BanksOf(SectorOf(job.bank)) : card'[b] = Empty
      /\ \A b \in Bank : b \notin BanksOf(SectorOf(job.bank)) => card'[b] = card[b]
  BY <1>1 DEF Wipe, BanksOf
<1>6. Final' = Final
  <2>1. \A b \in Bank : Final'[b] = Final[b]
    BY <1>1, <1>4, <1>5 DEF Final, Rewriting, OthersOf
  <2> QED  BY <2>1 DEF Final
<1>7. AddInv'
  <2>1. GoodCard(Final')
        /\ (job'.then = "count" => AppBanks(Final') \in 1 .. Banks - 1 /\ IsDor(Final', Top - AppBanks(Final')))
    BY <1>2, <1>4, <1>6
  <2> QED  BY <1>2, <1>4, <2>1 DEF AddInv, Applying, GoodCard, Below, HasHeader, AppBanks, IsDor
<1>8. RewriteInv'
  BY <1>1, <1>2, <1>4, <1>5 DEF RewriteInv, Rewriting, OthersOf, BanksOf
<1>9. FormatInv' /\ ReduceInv'
  BY <1>2, <1>4 DEF FormatInv, ReduceInv
<1> QED  BY <1>1, <1>3, <1>4, <1>7, <1>8, <1>9, RunStep

LEMMA EraseSectorErrorCore == ASSUME Core, EraseSectorError PROVE Core'
<1>1. /\ card \in [Bank -> Content]
      /\ rom' = rom /\ rom \in Roms /\ hurt \in 0 .. MaxHurt
      /\ DOMAIN pres \subseteq Bank /\ \A b \in DOMAIN pres : pres[b] \in Content
      /\ job.pc \in {"sector", "top"} /\ JobInv /\ Running /\ TypeOK
      /\ card' \in {card, Scramble(card, SectorOf(job.bank))}
      /\ hurt' = IF job.tries > 1 THEN hurt ELSE hurt + 1
      /\ MayFail("erase")
  BY CoreTyped DEF EraseSectorError, JobInv, Running
<1>2. /\ job \in Jobs /\ job.bank \in Bank /\ job.tries \in 0 .. Retries
      /\ job.cmd \in {"format", "reduce", "add", "update"}
      /\ FormatInv /\ ReduceInv /\ AddInv /\ RewriteInv
  BY <1>1, JobTyped DEF JobInv
<1>3. job.cmd \in {"add", "update"} /\ (job.pc = "top" => job.bank = Top /\ job.cmd = "add")
  BY <1>1, <1>2 DEF FormatInv, ReduceInv, AddInv, Applying
<1>4. card' \in [Bank -> Content] /\ GoodCard(card') /\ Tidy(card')
  BY <1>1, <1>3, CoreTyped, SectorPcWears, TopWears
<1>5. CASE ~(job.tries > 1)
  <2>1. Suicide /\ hurt' \in 0 .. MaxHurt
    BY <1>1, <1>5, HurtTyped DEF EraseSectorError
  <2> QED  BY <1>1, <1>4, <2>1, SuicideStep
<1>6. CASE job.tries > 1
  <2>1. job' = [job EXCEPT !.tries = job.tries - 1] /\ pres' = pres /\ hurt' = hurt
    BY <1>1, <1>2, <1>6 DEF EraseSectorError, Jobs
  <2>2. job.tries - 1 \in 0 .. Retries
    BY <1>2, <1>6, UpdateAssumption
  <2>3. /\ job' \in Jobs' /\ job'.cmd = job.cmd /\ job'.pc = job.pc /\ job'.then = job.then
        /\ job'.bank = job.bank /\ job'.image = job.image /\ job'.rest = job.rest /\ job'.old = job.old
    BY <1>2, <2>1, <2>2 DEF Jobs
  <2>4. FormatInv' /\ ReduceInv'
    BY <1>3, <2>3 DEF FormatInv, ReduceInv
  <2>5. CASE job.pc = "top"
    <3>1. AddInv' /\ RewriteInv'
      BY <1>3, <2>3, <2>5 DEF AddInv, RewriteInv, Rewriting, Applying
    <3> QED  BY <1>1, <1>4, <2>1, <2>3, <2>4, <3>1, RunStep
  <2>6. CASE job.pc = "sector"
    <3>1. job.pc \in Applying
      BY <2>6 DEF Applying
    <3>2. /\ job.image \in Content
          /\ job.then \in {"end", "count"} /\ (job.cmd = "update" => job.then = "end")
          /\ job.image.body.is = "code" \/ (job.bank = Top /\ job.image.top.is = "OZ")
          /\ GoodCard(Final)
          /\ job.then = "count" => AppBanks(Final) \in 1 .. Banks - 1 /\ IsDor(Final, Top - AppBanks(Final))
      BY <1>2, <3>1, ApplyJob DEF AddInv
    <3>3. \A b \in Bank : b \notin BanksOf(SectorOf(job.bank)) => card'[b] = card[b]
      BY <1>1 DEF Scramble, BanksOf
    <3>4. Final' = Final
      <4>1. \A b \in Bank : Final'[b] = Final[b]
        BY <1>2, <2>3, <2>6, <3>3 DEF Final, Rewriting, OthersOf, BanksOf
      <4> QED  BY <4>1 DEF Final
    <3>5. AddInv'
      <4>1. GoodCard(Final')
            /\ (job'.then = "count" =>
                   AppBanks(Final') \in 1 .. Banks - 1 /\ IsDor(Final', Top - AppBanks(Final')))
        BY <2>3, <3>2, <3>4
      <4> QED  BY <1>3, <2>3, <2>6, <3>2, <4>1 DEF AddInv, Applying, GoodCard, Below, HasHeader, AppBanks, IsDor
    <3>6. RewriteInv'
      BY <1>2, <2>1, <2>3, <2>6 DEF RewriteInv, Rewriting
    <3> QED  BY <1>1, <1>4, <2>1, <2>3, <2>4, <3>5, <3>6, RunStep
  <2> QED  BY <1>1, <2>5, <2>6
<1> QED  BY <1>5, <1>6

\* When a sector is complete the card is as it was to be in the end.
LEMMA SectorDoneStep ==
    ASSUME Core, job.pc \in {"blow", "restore"}, card' = Final, SectorDone, rom' = rom, hurt' = hurt
    PROVE  Core'
<1>1. /\ rom \in Roms /\ hurt \in 0 .. MaxHurt /\ job.pc \in Applying /\ AddInv
      /\ card \in [Bank -> Content]
  BY CoreTyped DEF Applying, JobInv, Running
<1>2. /\ job \in Jobs /\ job.cmd \in {"add", "update"}
      /\ job.then \in {"end", "count"} /\ (job.cmd = "update" => job.then = "end")
      /\ GoodCard(Final)
      /\ job.then = "count" => AppBanks(Final) \in 1 .. Banks - 1 /\ IsDor(Final, Top - AppBanks(Final))
  BY <1>1, ApplyJob DEF AddInv
<1>3. card' \in [Bank -> Content] /\ GoodCard(card') /\ Tidy(card')
  <2>1. Final \in [Bank -> Content]
    BY <1>1, FinalTyped
  <2>2. \A b \in Bank : SectorOf(b) # SectorOf(job.bank) => Final[b] = card[b]
    BY <1>1, FinalIs
  <2> DEFINE d == Final
  <2>3. /\ d \in [Bank -> Content]
        /\ \A b \in Bank : SectorOf(b) # SectorOf(job.bank) => d[b] = card[b]
        /\ \A b \in Bank : SectorOf(b) = SectorOf(job.bank) =>
              /\ d[b].body \in {Final[b].body, Blank, Torn}
              /\ d[b].top \in {Final[b].top, Blank, Torn}
    BY <2>1, <2>2
  <2>4. d = card'
    OBVIOUS
  <2> HIDE DEF d
  <2>5. GoodCard(d) /\ Tidy(d)
    BY <1>1, <2>3, ApplyWears
  <2> QED  BY <2>3, <2>4, <2>5
<1>4. pres' = << >> /\ DOMAIN pres' = {}
  BY DEF SectorDone
<1>5. CASE job.then = "count"
  <2>1. job' = [job EXCEPT !.pc = "count", !.rest = {}]
    BY <1>5 DEF SectorDone
  <2>2. job' \in Jobs' /\ job'.cmd = job.cmd /\ job'.pc = "count" /\ job'.then = "count"
    BY <1>2, <1>5, <2>1 DEF Jobs
  <2>3. job.cmd = "add"
    BY <1>2, <1>5
  <2>4. AppBanks(card') \in 1 .. Banks - 1 /\ IsDor(card', Top - AppBanks(card'))
    BY <1>2, <1>5
  <2>5. AddInv'
    BY <2>2, <2>3, <2>4 DEF AddInv, Applying, AppBanks, IsDor
  <2>6. FormatInv' /\ ReduceInv' /\ RewriteInv'
    BY <2>2, <2>3 DEF FormatInv, ReduceInv, RewriteInv, Rewriting
  <2> QED  BY <1>1, <1>3, <1>4, <2>2, <2>5, <2>6, RunStep
<1>6. CASE job.then = "end"
  <2>1. job' = Ended(job.cmd, job.old)
    BY <1>6 DEF SectorDone
  <2> QED  BY <1>1, <1>3, <1>4, <2>1, EndStep
<1> QED  BY <1>2, <1>5, <1>6

\* What is on the card before and after the bank itself is blown.
LEMMA BlowBufferIs ==
    ASSUME Core, BlowBuffer
    PROVE  /\ card' = [card EXCEPT ![job.bank] = job.image]
           /\ job.rest = DOMAIN pres
           /\ \A b \in OthersOf(job.bank) : card[b] = Empty /\ b # job.bank /\ b \in Bank
           /\ job.rest = {} => card' = Final
<1>1. /\ card \in [Bank -> Content] /\ job.pc = "blow" /\ job.pc \in Applying /\ Rewriting
      /\ card' = [card EXCEPT ![job.bank] = BlowBank(@, job.image)]
  BY CoreTyped DEF BlowBuffer, Applying, Rewriting
<1>2. /\ job.bank \in Bank /\ job.image \in Content
      /\ DOMAIN pres = {b \in OthersOf(job.bank) : job.old[b] # Empty}
      /\ job.rest = DOMAIN pres
      /\ \A b \in BanksOf(SectorOf(job.bank)) : card[b] = Empty
  BY <1>1, ApplyJob DEF RewriteInv
<1>3. card[job.bank] = Empty /\ \A b \in OthersOf(job.bank) : card[b] = Empty /\ b # job.bank /\ b \in Bank
  BY <1>2 DEF OthersOf, BanksOf
<1>4. card' = [card EXCEPT ![job.bank] = job.image]
  BY <1>1, <1>2, <1>3, BlowIs
<1>5. ASSUME job.rest = {} PROVE card' = Final
  <2>1. \A b \in OthersOf(job.bank) : job.old[b] = Empty
    BY <1>2, <1>5
  <2>2. \A b \in Bank : card'[b] = Final[b]
    BY <1>1, <1>2, <1>3, <1>4, <2>1 DEF Final
  <2>3. card' \in [Bank -> Content] /\ Final \in [Bank -> Content]
    BY <1>1, <1>2, <1>4, FinalTyped
  <2> QED  BY <2>2, <2>3
<1> QED  BY <1>2, <1>3, <1>4, <1>5

\* What has to be shown while banks are left to be restored.
LEMMA RestoreStep ==
    ASSUME Core, job.pc \in {"blow", "restore"}, pres' = pres, rom' = rom, hurt' = hurt,
           card' \in [Bank -> Content],
           \A b \in Bank : b \notin BanksOf(SectorOf(job.bank)) => card'[b] = card[b],
           card'[job.bank] = job.image,
           NEW rest, rest # {}, rest \subseteq job.rest,
           \A b \in OthersOf(job.bank) : card'[b] = IF b \in rest THEN Empty ELSE job.old[b],
           job' = [job EXCEPT !.pc = "restore", !.rest = rest]
    PROVE  Core'
<1>1. /\ card \in [Bank -> Content] /\ rom \in Roms /\ hurt \in 0 .. MaxHurt /\ job.pc \in Applying
      /\ AddInv /\ Rewriting
      /\ DOMAIN pres \subseteq Bank /\ \A b \in DOMAIN pres : pres[b] \in Content
  BY CoreTyped DEF Applying, JobInv, Running, Rewriting
<1>2. /\ job \in Jobs /\ job.cmd \in {"add", "update"} /\ job.bank \in Bank /\ job.image \in Content
      /\ job.then \in {"end", "count"} /\ (job.cmd = "update" => job.then = "end")
      /\ job.image.body.is = "code" \/ (job.bank = Top /\ job.image.top.is = "OZ")
      /\ GoodCard(Final)
      /\ job.then = "count" => AppBanks(Final) \in 1 .. Banks - 1 /\ IsDor(Final, Top - AppBanks(Final))
      /\ RewriteInv
  BY <1>1, ApplyJob DEF AddInv
<1>3. job.rest \subseteq DOMAIN pres
  BY <1>2 DEF Jobs
<1>4. /\ job' \in Jobs' /\ job'.cmd = job.cmd /\ job'.pc = "restore" /\ job'.then = job.then
      /\ job'.bank = job.bank /\ job'.image = job.image /\ job'.rest = rest /\ job'.old = job.old
  BY <1>2, <1>3 DEF Jobs
<1>5. Final' = Final
  <2>1. \A b \in Bank : Final'[b] = Final[b]
    BY <1>1, <1>4 DEF Final, Rewriting, OthersOf
  <2> QED  BY <2>1 DEF Final
<1>6. GoodCard(card') /\ Tidy(card')
  <2>1. \A b \in Bank : SectorOf(b) # SectorOf(job.bank) => card'[b] = card[b]
    BY DEF BanksOf
  <2>2. /\ Final[job.bank] = job.image
        /\ \A b \in OthersOf(job.bank) : Final[b] = job.old[b]
    BY <1>1, FinalIs
  <2>3. ASSUME NEW b \in Bank, SectorOf(b) = SectorOf(job.bank) PROVE card'[b] \in {Final[b], Empty}
    <3>1. b = job.bank \/ b \in OthersOf(job.bank)
      BY <2>3 DEF OthersOf, BanksOf
    <3> QED  BY <2>2, <3>1
  <2>4. \A b \in Bank : SectorOf(b) = SectorOf(job.bank) =>
              /\ card'[b].body \in {Final[b].body, Blank, Torn}
              /\ card'[b].top \in {Final[b].top, Blank, Torn}
    BY <2>3, Kinds
  <2> QED  BY <1>1, <2>1, <2>4, ApplyWears
<1>7. AddInv'
  <2>1. GoodCard(Final')
        /\ (job'.then = "count" => AppBanks(Final') \in 1 .. Banks - 1 /\ IsDor(Final', Top - AppBanks(Final')))
    BY <1>2, <1>4, <1>5
  <2> QED  BY <1>2, <1>4, <2>1 DEF AddInv, Applying, GoodCard, Below, HasHeader, AppBanks, IsDor
<1>8. RewriteInv'
  BY <1>1, <1>2, <1>4 DEF RewriteInv, Rewriting, OthersOf, BanksOf
<1>9. FormatInv' /\ ReduceInv'
  BY <1>2, <1>4 DEF FormatInv, ReduceInv
<1> QED  BY <1>1, <1>4, <1>6, <1>7, <1>8, <1>9, RunStep

LEMMA BlowBufferCore == ASSUME Core, BlowBuffer PROVE Core'
<1>1. /\ job.pc = "blow" /\ rom' = rom /\ hurt' = hurt /\ job.pc \in Applying /\ Rewriting
      /\ card \in [Bank -> Content]
  BY CoreTyped DEF BlowBuffer, Applying, Rewriting
<1>2. /\ card' = [card EXCEPT ![job.bank] = job.image]
      /\ job.rest = DOMAIN pres
      /\ \A b \in OthersOf(job.bank) : card[b] = Empty /\ b # job.bank /\ b \in Bank
      /\ job.rest = {} => card' = Final
  BY BlowBufferIs
<1>3. CASE job.rest = {}
  BY <1>1, <1>2, <1>3, SectorDoneStep DEF BlowBuffer
<1>4. CASE job.rest # {}
  <2>1. job' = [job EXCEPT !.pc = "restore"] /\ pres' = pres
    BY <1>4 DEF BlowBuffer
  <2>2. /\ job \in Jobs /\ job.bank \in Bank /\ job.image \in Content
        /\ DOMAIN pres = {b \in OthersOf(job.bank) : job.old[b] # Empty}
    BY <1>1, ApplyJob DEF RewriteInv
  <2>3. job' = [job EXCEPT !.pc = "restore", !.rest = job.rest]
    BY <2>1, <2>2 DEF Jobs
  <2>4. /\ card' \in [Bank -> Content] /\ card'[job.bank] = job.image
        /\ \A b \in Bank : b \notin BanksOf(SectorOf(job.bank)) => card'[b] = card[b]
    BY <1>1, <1>2, <2>2 DEF BanksOf
  <2>5. \A b \in OthersOf(job.bank) : card'[b] = IF b \in job.rest THEN Empty ELSE job.old[b]
    BY <1>1, <1>2, <2>2
  <2> QED  BY <1>1, <1>4, <2>1, <2>3, <2>4, <2>5, RestoreStep
<1> QED  BY <1>3, <1>4

\* What is on the card before and after a bank is restored.
LEMMA RestoreBankIs ==
    ASSUME Core, RestoreBank
    PROVE  LET b == NextToRestore
           IN  /\ b \in job.rest /\ b \in OthersOf(job.bank) /\ b \in Bank /\ b # job.bank
               /\ card[b] = Empty /\ job.old[b] \in Content
               /\ card' = [card EXCEPT ![b] = job.old[b]]
               /\ job.rest = {b} => card' = Final
<1> DEFINE b == NextToRestore
<1>1. /\ card \in [Bank -> Content] /\ job.pc = "restore" /\ job.pc \in Applying /\ Rewriting
      /\ card' = [card EXCEPT ![b] = BlowBank(@, pres[b])]
  BY CoreTyped DEF RestoreBank, Applying, Rewriting
<1>2. /\ b \in job.rest /\ b \in OthersOf(job.bank) /\ b \in Bank /\ card[b] = Empty
      /\ pres[b] = job.old[b]
  BY <1>1, RestoreIs
<1> HIDE DEF b
<1>3. /\ job \in Jobs /\ job.bank \in Bank
      /\ card[job.bank] = job.image
      /\ \A k \in OthersOf(job.bank) : card[k] = IF k \in job.rest THEN Empty ELSE job.old[k]
  BY <1>1, ApplyJob DEF RewriteInv
<1>4. pres[b] \in Content
  BY <1>2, <1>3, CoreTyped DEF Jobs
<1>5. card' = [card EXCEPT ![b] = job.old[b]]
  BY <1>1, <1>2, <1>4, BlowIs
<1>6. b # job.bank
  BY <1>2 DEF OthersOf
<1>7. ASSUME job.rest = {b} PROVE card' = Final
  <2>1. \A k \in Bank : card'[k] = Final[k]
    BY <1>1, <1>2, <1>3, <1>5, <1>6, <1>7 DEF Final
  <2>2. card' \in [Bank -> Content] /\ Final \in [Bank -> Content]
    BY <1>1, <1>2, <1>4, <1>5, FinalTyped
  <2> QED  BY <2>1, <2>2
<1> QED  BY <1>2, <1>4, <1>5, <1>6, <1>7 DEF b

LEMMA RestoreBankCore == ASSUME Core, RestoreBank PROVE Core'
<1> DEFINE b == NextToRestore
<1>1. /\ job.pc = "restore" /\ rom' = rom /\ hurt' = hurt /\ job.pc \in Applying /\ Rewriting
      /\ card \in [Bank -> Content]
      /\ IF job.rest = {b} THEN SectorDone
         ELSE job' = [job EXCEPT !.rest = @ \ {b}] /\ UNCHANGED pres
  BY CoreTyped DEF RestoreBank, Applying, Rewriting
<1>2. /\ b \in job.rest /\ b \in OthersOf(job.bank) /\ b \in Bank /\ b # job.bank
      /\ card[b] = Empty /\ job.old[b] \in Content
      /\ card' = [card EXCEPT ![b] = job.old[b]]
      /\ job.rest = {b} => card' = Final
  BY RestoreBankIs DEF RestoreBank
<1> HIDE DEF b
<1>3. CASE job.rest = {b}
  BY <1>1, <1>2, <1>3, SectorDoneStep
<1>4. CASE job.rest # {b}
  <2> DEFINE rest == job.rest \ {b}
  <2>1. /\ job \in Jobs /\ job.bank \in Bank
        /\ card[job.bank] = job.image
        /\ \A k \in OthersOf(job.bank) : card[k] = IF k \in job.rest THEN Empty ELSE job.old[k]
    BY <1>1, ApplyJob DEF RewriteInv
  <2>2. job' = [job EXCEPT !.pc = "restore", !.rest = rest] /\ pres' = pres
    <3>1. job' = [job EXCEPT !.rest = @ \ {b}] /\ pres' = pres
      BY <1>1, <1>4
    <3>2. job' = [job EXCEPT !.rest = rest]
      BY <3>1
    <3>3. [job EXCEPT !.pc = "restore"] = job
      BY <1>1, <2>1 DEF Jobs
    <3> QED  BY <3>1, <3>2, <3>3
  <2>3. rest # {} /\ rest \subseteq job.rest
    BY <1>2, <1>4
  <2>4. /\ card' \in [Bank -> Content] /\ card'[job.bank] = job.image
        /\ \A k \in Bank : k \notin BanksOf(SectorOf(job.bank)) => card'[k] = card[k]
    BY <1>1, <1>2, <2>1 DEF OthersOf
  <2>5. \A k \in OthersOf(job.bank) : card'[k] = IF k \in rest THEN Empty ELSE job.old[k]
    <3>1. OthersOf(job.bank) \subseteq Bank
      BY DEF OthersOf, BanksOf
    <3> QED  BY <1>1, <1>2, <2>1, <3>1
  <2> HIDE DEF rest
  <2> QED  BY <1>1, <2>2, <2>3, <2>4, <2>5, RestoreStep
<1> QED  BY <1>3, <1>4

LEMMA BlowErrorCore == ASSUME Core, BlowError PROVE Core'
<1>1. /\ job.pc \in {"install", "blow", "restore"} /\ MayFail("blow") /\ card' \in HalfBlown(Target)
      /\ Suicide /\ rom' = rom /\ hurt' = hurt + 1
  BY DEF BlowError
<1>2. card' \in [Bank -> Content] /\ GoodCard(card') /\ Tidy(card')
  BY <1>1, BlowWears, InstallWears DEF Target
<1>3. hurt' \in 0 .. MaxHurt
  BY <1>1, CoreTyped, HurtTyped
<1> QED  BY <1>1, <1>2, <1>3, SuicideStep

\* A reset between two steps, or in the middle of one.
LEMMA ResetCore == ASSUME Core, Reset PROVE Core'
<1>1. /\ pres' = pres /\ rom' = rom /\ hurt' = hurt + 1 /\ MayFail("reset")
      /\ \E result, old : job' = Ended(result, old)
  BY DEF Reset
<1>2. card' \in [Bank -> Content] /\ GoodCard(card') /\ Tidy(card')
  <2>1. CASE card' = card
    BY <2>1, CoreTyped
  <2>2. CASE job.pc \in {"install", "blow", "restore"} /\ card' \in HalfBlown(Target)
    BY <2>2, BlowWears, InstallWears DEF Target
  <2>3. CASE job.pc = "header" /\ card' = [card EXCEPT ![job.bank].top = Torn]
    BY <2>3, HeaderWears
  <2>4. CASE job.pc = "erase" /\ card' = Scramble(card, job.sector)
    BY <2>4, EraseWears
  <2>5. CASE job.pc = "sector" /\ card' = Scramble(card, SectorOf(job.bank))
    BY <2>5, SectorPcWears
  <2>6. CASE job.pc = "top" /\ card' = Scramble(card, SectorOf(job.bank))
    <3>1. job.bank = Top
      <4>1. TypeOK /\ Running /\ FormatInv /\ ReduceInv /\ AddInv
        BY <2>6, CoreTyped DEF JobInv, Running
      <4>2. job.cmd \in {"add", "update"}
        BY <2>6, <4>1, JobTyped DEF FormatInv, ReduceInv
      <4> QED  BY <2>6, <4>1, <4>2 DEF AddInv
    <3> QED  BY <2>6, <3>1, TopWears
  <2> QED  BY <2>1, <2>2, <2>3, <2>4, <2>5, <2>6 DEF Reset
<1>3. hurt' \in 0 .. MaxHurt
  BY <1>1, CoreTyped, HurtTyped
<1> QED  BY <1>1, <1>2, <1>3, CoreTyped, EndStep

----------------------------------------------------------------------------
(* Core is an invariant *)

\* A card fresh from the shop, or with the ROM in its top banks.
LEMMA FreshIs ==
    ASSUME NEW r \in 0 .. Banks, NEW c, c = Fresh(r)
    PROVE  /\ c \in [Bank -> Content] /\ AppBanks(c) = r
           /\ \A b \in Bank : ~HasHeader(c, b)
           /\ \A b \in Bank : b < Banks - r => c[b] = Empty
           /\ \A b \in Bank : ~(b < Banks - r) =>
                 /\ c[b].body = Code(IF b = Banks - r THEN 0 ELSE b - 1)
                 /\ c[b].top = IF b = Top THEN AppHeader(r) ELSE Code(0)
<1>1. /\ Banks = Top + 1 /\ Top \in Nat /\ Bank = 0 .. Top /\ Top \in Bank /\ r \in Nat
  BY Sizes
<1>2. \A b \in Bank :
         c[b] = IF b < Banks - r THEN Empty
                ELSE [body |-> Code(IF b = Banks - r THEN 0 ELSE b - 1),
                      top |-> IF b = Top THEN AppHeader(r) ELSE Code(0)]
  BY DEF Fresh
<1>3. c \in [Bank -> Content]
  <2> SUFFICES ASSUME NEW b \in Bank
               PROVE  (IF b < Banks - r THEN Empty
                       ELSE [body |-> Code(IF b = Banks - r THEN 0 ELSE b - 1),
                             top |-> IF b = Top THEN AppHeader(r) ELSE Code(0)]) \in Content
    BY DEF Fresh
  <2>1. CASE b < Banks - r
    BY <2>1, Kinds
  <2>2. CASE ~(b < Banks - r)
    <3>1. (IF b = Banks - r THEN 0 ELSE b - 1) \in Bank /\ r \in 1 .. Banks /\ 0 \in Bank
      BY <1>1, <2>2
    <3>2. Code(IF b = Banks - r THEN 0 ELSE b - 1) \in Body
      BY <3>1, Kinds
    <3>3. (IF b = Top THEN AppHeader(r) ELSE Code(0)) \in TopUnit
      BY <3>1, Kinds
    <3> QED  BY <2>2, <3>2, <3>3 DEF Content
  <2> QED  BY <2>1, <2>2
<1>4. AppBanks(c) = r
  <2>1. CASE r = 0
    <3>1. Top < Banks - r
      BY <1>1, <2>1
    <3>2. c[Top] = Empty
      BY <1>1, <1>2, <3>1
    <3> QED  BY <2>1, <3>2, Kinds DEF AppBanks, Blank
  <2>2. CASE r # 0
    <3>1. ~(Top < Banks - r)
      BY <1>1, <2>2
    <3>2. c[Top] = [body |-> Code(IF Top = Banks - r THEN 0 ELSE Top - 1), top |-> AppHeader(r)]
      BY <1>1, <1>2, <3>1
    <3> QED  BY <3>2 DEF AppBanks, AppHeader
  <2> QED  BY <2>1, <2>2
<1>5. ASSUME NEW b \in Bank, ~(b < Banks - r)
      PROVE  /\ c[b].body = Code(IF b = Banks - r THEN 0 ELSE b - 1)
             /\ c[b].top = IF b = Top THEN AppHeader(r) ELSE Code(0)
  <2>1. c[b] = [body |-> Code(IF b = Banks - r THEN 0 ELSE b - 1),
                top |-> IF b = Top THEN AppHeader(r) ELSE Code(0)]
    BY <1>2, <1>5
  <2> QED  BY <2>1
<1>6. \A b \in Bank : b < Banks - r => c[b] = Empty
  BY <1>2
<1>7. \A b \in Bank : ~HasHeader(c, b)
  <2>1. AppHeader(r).is # "oz" /\ Code(0).is # "oz" /\ Blank.is # "oz"
    BY DEF AppHeader, Code, Blank
  <2> QED  BY <1>5, <1>6, <2>1, Kinds DEF HasHeader
<1> QED  BY <1>3, <1>4, <1>5, <1>6, <1>7

\* The chip that came with an area has it at the boundary below the ROM.
LEMMA WithAreaIs ==
    ASSUME NEW r \in 0 .. Banks, r > 0, NEW c, c = Fresh(r), Request(c).kind = "potential",
           NEW d, d = WithArea(c)
    PROVE  /\ d \in [Bank -> Content] /\ AppBanks(d) = r /\ GoodCard(d) /\ Tidy(d)
           /\ \E h \in Bank :
                 /\ h < Banks - r /\ h # Top /\ Boundary(d) = h
                 /\ d[h].body = Blank /\ d[h].top = FileHeader(h + 1)
                 /\ \A b \in Bank : b # h => d[b] = c[b]
<1> DEFINE h == Request(c).bank
<1>1. /\ Banks = Top + 1 /\ Top \in Nat /\ Bank = 0 .. Top /\ Top \in Bank /\ r \in Nat
  BY Sizes
<1>2. /\ c \in [Bank -> Content] /\ AppBanks(c) = r /\ \A b \in Bank : ~HasHeader(c, b)
      /\ \A b \in Bank : b < Banks - r => c[b] = Empty
  BY FreshIs
<1>3. GoodCard(c)
  BY <1>2, HeaderlessTidy
<1>4. h \in Bank /\ Ends(h) /\ h < Banks - r /\ (h = Top \/ Boundary(c) = h)
  BY <1>2, <1>3, RequestIs
<1>5. h # Top /\ Boundary(c) = h /\ h + 1 \in 1 .. Banks
  BY <1>1, <1>4
<1>6. d = [c EXCEPT ![h].top = FileHeader(h + 1)]
  BY <1>4, HeaderSizeIs DEF WithArea
<1> HIDE DEF h
<1>7. c[h] = Empty /\ Empty \in Content /\ FileHeader(h + 1) \in TopUnit /\ Blank \in Body
  BY <1>2, <1>4, <1>5, Kinds DEF Plain
<1>8. /\ d[h].body = Blank /\ d[h].top = FileHeader(h + 1)
      /\ \A b \in Bank : b # h => d[b] = c[b]
  BY <1>2, <1>4, <1>6, <1>7, Kinds
<1>9. d \in [Bank -> Content]
  BY <1>2, <1>4, <1>6, <1>7 DEF Content
<1>10. AppBanks(d) = r /\ Boundary(d) = h
  BY <1>1, <1>2, <1>5, <1>8 DEF AppBanks, Boundary
<1>11. \A b \in Bank : HasHeader(d, b) => b = h
  BY <1>2, <1>8 DEF HasHeader
<1>12. \A b \in Bank : b < h => d[b] = Empty
  BY <1>1, <1>2, <1>4, <1>8
<1>13. Below(d, h)
  BY <1>1, <1>4, <1>8, <1>12, Kinds DEF Below, Plain
<1>14. Packed(d, h)
  <2>1. h \in Nat /\ \A k \in 0 .. h : k \in Bank
    BY <1>1, <1>4
  <2>2. \A k \in 0 .. h : d[k].body # Files /\ (k < h => d[k].top # Files)
    BY <1>8, <1>12, <2>1, Kinds
  <2> QED  BY <2>1, <2>2, NoneIsPacked
<1>15. GoodCard(d) /\ Tidy(d)
  BY <1>4, <1>8, <1>10, <1>11, <1>13, <1>14 DEF GoodCard, Tidy
<1> QED  BY <1>4, <1>5, <1>8, <1>9, <1>10, <1>15

LEMMA InitCore == Init => Core
<1> SUFFICES ASSUME Init PROVE Core
  OBVIOUS
<1>1. /\ rom \in 0 .. Banks /\ rom \in Roms /\ pres = << >>
      /\ job = Ended("none", << >>) /\ hurt = 0
      /\ \/ card = Fresh(rom)
         \/ rom > 0 /\ Request(Fresh(rom)).kind = "potential" /\ card = WithArea(Fresh(rom))
  BY UpdateAssumption DEF Init
<1>2. card \in [Bank -> Content] /\ GoodCard(card) /\ Tidy(card)
  BY <1>1, FreshIs, WithAreaIs, HeaderlessTidy
<1>3. job.pc = "idle" /\ hurt \in 0 .. MaxHurt /\ DOMAIN pres = {}
  BY <1>1, UpdateAssumption DEF Ended
<1> QED  BY <1>1, <1>2, <1>3 DEF Core, TypeOK, JobInv, Running, Idle

LEMMA StutterCore == ASSUME Core, UNCHANGED vars PROVE Core'
<1>1. card' = card /\ pres' = pres /\ job' = job /\ rom' = rom /\ hurt' = hurt
  BY DEF vars
<1>2. TypeOK'
  BY <1>1 DEF Core, TypeOK, Idle, Jobs
<1>3. GoodCard(card') /\ Tidy(card')
  BY <1>1 DEF Core
<1>4. JobInv'
  <2>1. CASE ~Running
    BY <1>1, <2>1 DEF JobInv, Running
  <2>2. CASE Running
    <3>1. FormatInv /\ ReduceInv /\ AddInv /\ RewriteInv
      BY <2>2 DEF Core, JobInv
    <3>2. FormatInv'
      BY <1>1, <3>1 DEF FormatInv, AppBanks, Boundary, HasHeader
    <3>3. ReduceInv'
      BY <1>1, <3>1 DEF ReduceInv, Below, Packed, Unit, HasHeader, AppBanks
    <3>4. Final' = Final
      BY <1>1 DEF Final, Rewriting
    <3>5. AddInv'
      <4>1. job.pc \in Applying /\ job.cmd \in {"add", "update"} =>
              /\ GoodCard(Final')
              /\ job.then = "count" => AppBanks(Final') \in 1 .. Banks - 1 /\ IsDor(Final', Top - AppBanks(Final'))
        BY <3>1, <3>4 DEF AddInv
      <4> QED  BY <1>1, <3>1, <4>1 DEF AddInv, GoodCard, Below, HasHeader, AppBanks, IsDor
    <3>6. RewriteInv'
      BY <1>1, <3>1 DEF RewriteInv, Rewriting
    <3> QED  BY <3>2, <3>3, <3>5, <3>6 DEF JobInv
  <2> QED  BY <2>1, <2>2
<1> QED  BY <1>2, <1>3, <1>4 DEF Core

LEMMA NextCore == Core /\ [Next]_vars => Core'
<1> SUFFICES ASSUME Core, [Next]_vars PROVE Core'
  OBVIOUS
<1>1. CASE SaveFile
  BY <1>1, SaveFileCore
<1>2. CASE Format
  BY <1>2, FormatCore
<1>3. CASE AddApp
  BY <1>3, AddAppCore
<1>4. CASE UpdateApp
  BY <1>4, UpdateAppCore
<1>5. CASE Reset
  BY <1>5, ResetCore
<1>6. CASE FormatRefused
  BY <1>6, FormatRefusedCore
<1>7. CASE FormatSector
  BY <1>7, FormatSectorCore
<1>8. CASE ReduceSector
  BY <1>8, ReduceSectorCore
<1>9. CASE BlowHeader
  BY <1>9, BlowHeaderCore
<1>10. CASE SaveNullFile
  BY <1>10, SaveNullFileCore
<1>11. CASE PickBank
  BY <1>11, PickBankCore
<1>12. CASE EraseTopSector
  BY <1>12, EraseTopSectorCore
<1>13. CASE Install
  BY <1>13, InstallCore
<1>14. CASE LinkDor
  BY <1>14, LinkDorCore
<1>15. CASE CountBank
  BY <1>15, CountBankCore
<1>16. CASE PreserveSectorBanks
  BY <1>16, PreserveSectorBanksCore
<1>17. CASE EraseSector
  BY <1>17, EraseSectorCore
<1>18. CASE BlowBuffer
  BY <1>18, BlowBufferCore
<1>19. CASE RestoreBank
  BY <1>19, RestoreBankCore
<1>20. CASE EraseError
  BY <1>20, EraseErrorCore
<1>21. CASE BlowHeaderError
  BY <1>21, BlowHeaderErrorCore
<1>22. CASE RamError
  BY <1>22, RamErrorCore
<1>23. CASE EraseSectorError
  BY <1>23, EraseSectorErrorCore
<1>24. CASE BlowError
  BY <1>24, BlowErrorCore
<1>25. CASE UNCHANGED vars
  BY <1>25, StutterCore
<1>26. CASE BlowHeaderAstray
  BY <1>26, BlowHeaderAstrayCore
<1> QED  BY <1>1, <1>2, <1>3, <1>4, <1>5, <1>6, <1>7, <1>8, <1>9, <1>10, <1>11, <1>12, <1>13, <1>14,
            <1>15, <1>16, <1>17, <1>18, <1>19, <1>20, <1>21, <1>22, <1>23, <1>24, <1>25, <1>26
         DEF Next, Step, Errors

THEOREM CoreInvariant == Spec => []Core
<1>1. Init => Core
  BY InitCore
<1>2. Core /\ [Next]_vars => Core'
  BY NextCore
<1> QED  BY <1>1, <1>2, PTL DEF Spec

----------------------------------------------------------------------------
(* The other banks of a sector are kept *)

\* While a sector is rewritten all its other banks that had something are in RAM.
LEMMA RewriteKeeps ==
    ASSUME Core, Rewriting
    PROVE  \A b \in DOMAIN job.old : job.old[b] = Empty \/ (b \in DOMAIN pres /\ pres[b] = job.old[b])
<1>1. RewriteInv
  BY CoreTyped DEF JobInv, Running, Rewriting
<1> QED  BY <1>1 DEF RewriteInv

LEMMA RewriteKeepsNext == ASSUME Core', Rewriting' PROVE PassiveKept' /\ OldInv'
<1>1. RewriteInv'
  BY DEF Core, JobInv, Running, Rewriting
<1>2. \A b \in DOMAIN job'.old : job'.old[b] = Empty \/ (b \in DOMAIN pres' /\ pres'[b] = job'.old[b])
  BY <1>1 DEF RewriteInv, Rewriting
<1> QED  BY <1>2 DEF PassiveKept, OldInv, Rewriting

LEMMA NothingOld == ASSUME job'.old = << >> PROVE PassiveKept' /\ OldInv'
<1>1. DOMAIN job'.old = {}
  OBVIOUS
<1> QED  BY <1>1 DEF PassiveKept, OldInv

\* A sector that is complete has its other banks on the card.
LEMMA DoneKeeps ==
    ASSUME Core, job.pc \in {"blow", "restore"}, card' = Final, SectorDone
    PROVE  PassiveKept' /\ OldInv'
<1>1. /\ job.pc \in Applying /\ Rewriting /\ job \in Jobs
      /\ DOMAIN job.old = OthersOf(job.bank)
      /\ \A b \in OthersOf(job.bank) : Final[b] = job.old[b]
  <2>1. job.pc \in Applying /\ Rewriting
    BY DEF Applying, Rewriting
  <2> QED  BY <2>1, ApplyJob, FinalIs DEF RewriteInv
<1>2. job'.old = job.old /\ job'.pc \in {"count", "idle"}
  BY <1>1 DEF SectorDone, Ended, Jobs
<1> QED  BY <1>1, <1>2 DEF PassiveKept, OldInv

LEMMA PassiveStep == Core /\ Core' /\ PassiveKept /\ OldInv /\ [Next]_vars => PassiveKept' /\ OldInv'
<1> SUFFICES ASSUME Core, Core', PassiveKept, OldInv, [Next]_vars PROVE PassiveKept' /\ OldInv'
  OBVIOUS
<1>1. CASE SaveFile
  BY <1>1, NothingOld DEF SaveFile, Ended
<1>2. CASE Format
  BY <1>2, NothingOld DEF Format, NewJob
<1>3. CASE AddApp
  <2>1. /\ NewJob("add", "top").old = << >> /\ NewJob("add", "pick").old = << >>
        /\ ReduceJob(1, "top").old = << >> /\ ReduceJob(1, "pick").old = << >>
    BY DEF NewJob, ReduceJob
  <2>2. \/ job' = NewJob("add", "top") \/ job' = NewJob("add", "pick")
        \/ job' = ReduceJob(1, "top") \/ job' = ReduceJob(1, "pick")
    BY <1>3 DEF AddApp
  <2>3. job'.old = << >>
    BY <2>1, <2>2
  <2> QED  BY <2>3, NothingOld
<1>4. CASE UpdateApp
  BY <1>4, NothingOld DEF UpdateApp, NewJob
<1>5. CASE Reset
  <2>1. /\ pres' = pres /\ job' = Ended("reset", IF job = Stray THEN << >> ELSE job.old) /\ job.pc # "idle"
    BY <1>5 DEF Reset, Idle
  <2>2. CASE job = Stray
    BY <2>1, <2>2, NothingOld DEF Ended
  <2>3. CASE job # Stray /\ card' = card
    <3>1. job'.old = job.old /\ job'.pc = "idle"
      BY <2>1, <2>3 DEF Ended
    <3> QED  BY <2>1, <2>3, <3>1 DEF PassiveKept, OldInv
  <2>4. CASE job # Stray /\ Rewriting
    <3>1. job'.old = job.old /\ job'.pc = "idle"
      BY <2>1, <2>4 DEF Ended
    <3> QED  BY <2>1, <2>4, <3>1, RewriteKeeps DEF PassiveKept, OldInv
  <2>5. CASE job # Stray /\ job.pc \in {"install", "header", "erase", "top"}
    BY <2>1, <2>5, NothingOld DEF Ended, OldInv
  <2> QED  BY <1>5, <2>2, <2>3, <2>4, <2>5 DEF Reset, Rewriting
<1>6. CASE FormatRefused \/ EraseError \/ SaveNullFile \/ BlowHeaderError \/ BlowHeaderAstray
  <2>1. job' = Stray \/ \E result : job' = Ended(result, << >>)
    BY <1>6 DEF FormatRefused, EraseError, SaveNullFile, BlowHeaderError, BlowHeaderAstray, Return
  <2>2. CASE job' = Stray
    BY <2>2 DEF PassiveKept, OldInv, Stray
  <2>3. CASE \E result : job' = Ended(result, << >>)
    BY <2>3, NothingOld DEF Ended
  <2> QED  BY <2>1, <2>2, <2>3
<1>7. CASE BlowHeader
  <2>1. job.old = << >> /\ job \in Jobs
    BY <1>7, CoreTyped, JobTyped DEF BlowHeader, OldInv, Running
  <2>2. job' = Stray \/ job'.old = << >>
    <3>1. CASE job.cmd = "reduce"
      <4>1. job' = [job EXCEPT !.cmd = "add", !.pc = job.then, !.words = 0, !.bank = Top]
        BY <1>7, <3>1 DEF BlowHeader
      <4> QED  BY <2>1, <4>1 DEF Jobs
    <3>2. CASE job.cmd = "format" /\ Intel
      <4>1. job' = [job EXCEPT !.pc = "null"]
        BY <1>7, <3>2 DEF BlowHeader
      <4> QED  BY <2>1, <4>1 DEF Jobs
    <3>3. CASE job.cmd # "reduce" /\ ~(job.cmd = "format" /\ Intel)
      <4>1. Return(3, "formatted")
        BY <1>7, <3>3 DEF BlowHeader
      <4> QED  BY <4>1 DEF Return, Ended
    <3> QED  BY <3>1, <3>2, <3>3
  <2>3. CASE job' = Stray
    BY <2>3 DEF PassiveKept, OldInv, Stray
  <2> QED  BY <2>2, <2>3, NothingOld
<1>8. CASE FormatSector \/ ReduceSector \/ PickBank \/ EraseTopSector \/ Install \/ LinkDor
  <2>1. job.pc \in {"erase", "pick", "top", "install", "link"}
    BY <1>8 DEF FormatSector, ReduceSector, PickBank, EraseTopSector, Install, LinkDor
  <2>2. job.old = << >> /\ job \in Jobs
    BY <2>1, CoreTyped, JobTyped DEF OldInv, Running
  <2>3. CASE FormatSector
    BY <2>2, <2>3, NothingOld DEF FormatSector, Jobs
  <2>4. CASE ReduceSector
    BY <2>2, <2>4, NothingOld DEF ReduceSector, Jobs
  <2>5. CASE PickBank
    <3>1. CASE Suicide
      BY <3>1, NothingOld DEF Suicide, Ended
    <3>2. CASE ~Suicide
      <4>1. job'.old = job.old
        BY <2>2, <2>5, <3>2 DEF PickBank, Jobs
      <4> QED  BY <2>2, <4>1, NothingOld
    <3> QED  BY <3>1, <3>2
  <2>6. CASE EraseTopSector
    BY <2>2, <2>6, NothingOld DEF EraseTopSector, Jobs
  <2>7. CASE Install
    BY <2>2, <2>7, NothingOld DEF Install, Jobs, Ended
  <2>8. CASE LinkDor
    BY <2>2, <2>8, NothingOld DEF LinkDor, Jobs
  <2> QED  BY <1>8, <2>3, <2>4, <2>5, <2>6, <2>7, <2>8
<1>9. CASE CountBank
  <2>1. /\ card' = card /\ pres' = pres /\ job \in Jobs /\ job.pc = "count"
    BY <1>9, CoreTyped, JobTyped DEF CountBank, Running
  <2>2. job'.old = job.old /\ job'.pc = "preserve" /\ job # Stray
    BY <1>9, <2>1 DEF CountBank, Jobs, Stray
  <2> QED  BY <2>1, <2>2 DEF PassiveKept, OldInv
<1>10. CASE PreserveSectorBanks
  <2>1. job \in Jobs
    BY <1>10, CoreTyped, JobTyped DEF PreserveSectorBanks, Running
  <2>2. job'.old = [b \in OthersOf(job.bank) |-> card[b]] /\ job'.pc = "sector" /\ card' = card
    BY <1>10, <2>1 DEF PreserveSectorBanks, Jobs
  <2> QED  BY <2>2 DEF PassiveKept, OldInv
<1>11. CASE RamError \/ BlowError
  BY <1>11, NothingOld DEF RamError, BlowError, Suicide, Ended
<1>12. CASE EraseSector
  <2>1. job \in Jobs
    BY <1>12, CoreTyped, JobTyped DEF EraseSector, Running
  <2>2. job'.pc = "blow"
    BY <1>12, <2>1 DEF EraseSector, Jobs
  <2> QED  BY <2>2, RewriteKeepsNext DEF Rewriting
<1>13. CASE EraseSectorError
  <2>1. job \in Jobs /\ job.pc \in {"sector", "top"}
    BY <1>13, CoreTyped, JobTyped DEF EraseSectorError, Running
  <2>2. CASE ~(job.tries > 1)
    BY <1>13, <2>2, NothingOld DEF EraseSectorError, Suicide, Ended
  <2>3. CASE job.tries > 1
    <3>1. job'.old = job.old /\ job'.pc = job.pc
      BY <1>13, <2>1, <2>3 DEF EraseSectorError, Jobs
    <3>2. CASE job.pc = "top"
      BY <3>1, <3>2, NothingOld DEF OldInv
    <3>3. CASE job.pc = "sector"
      BY <3>1, <3>3, RewriteKeepsNext DEF Rewriting
    <3> QED  BY <2>1, <3>2, <3>3
  <2> QED  BY <2>2, <2>3
<1>14. CASE BlowBuffer
  <2>1. job.pc = "blow" /\ job \in Jobs
    BY <1>14, CoreTyped, JobTyped DEF BlowBuffer, Running
  <2>2. CASE job.rest = {}
    BY <1>14, <2>1, <2>2, BlowBufferIs, DoneKeeps DEF BlowBuffer
  <2>3. CASE job.rest # {}
    <3>1. job'.pc = "restore"
      BY <1>14, <2>1, <2>3 DEF BlowBuffer, Jobs
    <3> QED  BY <3>1, RewriteKeepsNext DEF Rewriting
  <2> QED  BY <2>2, <2>3
<1>15. CASE RestoreBank
  <2>1. job.pc = "restore" /\ job \in Jobs
    BY <1>15, CoreTyped, JobTyped DEF RestoreBank, Running
  <2>2. CASE job.rest = {NextToRestore}
    BY <1>15, <2>1, <2>2, RestoreBankIs, DoneKeeps DEF RestoreBank
  <2>3. CASE job.rest # {NextToRestore}
    <3>1. job'.pc = "restore"
      BY <1>15, <2>1, <2>3 DEF RestoreBank, Jobs
    <3> QED  BY <3>1, RewriteKeepsNext DEF Rewriting
  <2> QED  BY <2>2, <2>3
<1>16. CASE UNCHANGED vars
  BY <1>16 DEF vars, PassiveKept, OldInv
<1> QED  BY <1>1, <1>2, <1>3, <1>4, <1>5, <1>6, <1>7, <1>8, <1>9, <1>10, <1>11, <1>12, <1>13, <1>14,
            <1>15, <1>16
         DEF Next, Step, Errors

\* UpdateSector: while a sector is rewritten, and after a reset in the middle of it, the
\* other banks of the sector are on the card or in a file in RAM, whatever fails.
THEOREM PassiveBanksKept == Spec => []PassiveKept
<1>1. Init => PassiveKept /\ OldInv
  <2> SUFFICES ASSUME Init PROVE PassiveKept /\ OldInv
    OBVIOUS
  <2>1. job.old = << >> /\ DOMAIN << >> = {}
    BY DEF Init, Ended
  <2> QED  BY <2>1 DEF PassiveKept, OldInv
<1>2. Core /\ Core' /\ PassiveKept /\ OldInv /\ [Next]_vars => PassiveKept' /\ OldInv'
  BY PassiveStep
<1> QED  BY <1>1, <1>2, CoreInvariant, PTL DEF Spec

----------------------------------------------------------------------------
(* What is blown goes to erased bytes *)

Erased(c, d) ==
    \A b \in Bank : /\ d[b].body = c[b].body \/ c[b].body = Blank
                    /\ d[b].top = c[b].top \/ c[b].top = Blank

\* Every unit of the card is the body or the top of a bank.
LEMMA UnitOfBank ==
    ASSUME NEW u \in 0 .. 2 * Banks - 1
    PROVE  \E b \in Bank : \/ u = 2 * b /\ \A c : Unit(c, u) = c[b].body
                           \/ u = 2 * b + 1 /\ \A c : Unit(c, u) = c[b].top
<1> DEFINE b == u \div 2
<1>1. u \in Nat /\ Banks \in Nat /\ u < 2 * Banks
  BY Sizes
<1>2. b \in Nat /\ (u = 2 * b \/ u = 2 * b + 1)
  BY <1>1, Halves
<1> HIDE DEF b
<1>3. b \in Bank
  BY <1>1, <1>2, Sizes
<1>4. \A c : Unit(c, 2 * b) = c[b].body /\ Unit(c, 2 * b + 1) = c[b].top
  BY <1>2, UnitIs
<1> QED  BY <1>2, <1>3, <1>4

LEMMA ErasedUnits ==
    ASSUME NEW c, NEW d, Erased(c, d), NEW u \in 0 .. 2 * Banks - 1, Unit(d, u) # Unit(c, u)
    PROVE  Unit(c, u) = Blank
<1>1. PICK b \in Bank : \/ \A e : Unit(e, u) = e[b].body
                        \/ \A e : Unit(e, u) = e[b].top
  BY UnitOfBank
<1>2. /\ d[b].body = c[b].body \/ c[b].body = Blank
      /\ d[b].top = c[b].top \/ c[b].top = Blank
  BY DEF Erased
<1> QED  BY <1>1, <1>2

\* A blow to an erased bank, in full or in part.
LEMMA EmptyErased ==
    ASSUME NEW c \in [Bank -> Content], NEW b \in Bank, c[b] = Empty
    PROVE  /\ \A x : Erased(c, [c EXCEPT ![b] = x])
           /\ \A d \in {[c EXCEPT ![b] = [body |-> Torn, top |-> Torn]], [c EXCEPT ![b].body = Torn]} :
                 Erased(c, d)
<1>1. c[b].body = Blank /\ c[b].top = Blank
  BY DEF Empty
<1> QED  BY <1>1 DEF Erased

LEMMA TargetEmpty ==
    ASSUME Core, job.pc \in {"install", "blow", "restore"}
    PROVE  Target \in Bank /\ card[Target] = Empty
<1>1. CASE job.pc = "install"
  BY <1>1, InstallBank DEF Target
<1>2. CASE job.pc = "blow"
  <2>1. job.bank \in Bank /\ RewriteInv
    BY <1>2, ApplyJob DEF Applying
  <2>2. job.bank \in BanksOf(SectorOf(job.bank))
    BY <2>1 DEF BanksOf
  <2> QED  BY <1>2, <2>1, <2>2 DEF RewriteInv, Rewriting, Target
<1>3. CASE job.pc = "restore"
  BY <1>3, RestoreIs DEF Target
<1> QED  BY <1>1, <1>2, <1>3

LEMMA HalfErased ==
    ASSUME Core, job.pc \in {"install", "blow", "restore"}, card' \in HalfBlown(Target)
    PROVE  Erased(card, card')
  BY TargetEmpty, EmptyErased, CoreTyped DEF HalfBlown

LEMMA HeaderErased ==
    ASSUME Core,
           \/ job.pc = "header" /\ card' = [card EXCEPT ![job.bank].top = Torn]
           \/ job.pc = "null" /\ card' = [card EXCEPT ![0].body = Torn]
    PROVE  Erased(card, card')
<1>1. card \in [Bank -> Content] /\ job.bank \in Bank
  <2>1. Running
    BY DEF Running
  <2> QED  BY <2>1, CoreTyped, JobTyped
<1>2. \A b \in Bank : card[b] = [body |-> card[b].body, top |-> card[b].top]
  BY <1>1 DEF Content
<1>3. CASE job.pc = "header"
  <2>1. card[job.bank].top \in {Blank, Torn}
    BY <1>3, NoHeaderYet
  <2> QED  BY <1>1, <1>2, <1>3, <2>1 DEF Erased
<1>4. CASE job.pc = "null"
  <2>1. 0 \in Bank /\ card[0].body = Blank
    <3>1. /\ job.bank \in Nat /\ 0 < job.bank /\ 0 \in Bank
          /\ \A b \in Bank : b < job.bank => card[b] = Empty
      BY <1>4, NullAfterHeader
    <3> QED  BY <3>1, Kinds
  <2> QED  BY <1>1, <1>2, <1>4, <2>1 DEF Erased
<1> QED  BY <1>3, <1>4

LEMMA SaveFileErased == ASSUME Core, SaveFile PROVE Erased(card, card')
<1> DEFINE h == Request(card).bank
<1> DEFINE u == Used(card)
<1> DEFINE b == u \div 2
<1>1. /\ h \in Bank /\ HasHeader(card, h) /\ b \in 0 .. h
      /\ Unit(card, u) # Files
      /\ \A k \in Bank : k # b => card'[k] = card[k]
      /\ \/ /\ u = 2 * b /\ card'[b].body = Blow(card[b].body, Files) /\ card'[b].top = card[b].top
         \/ /\ u = 2 * b + 1 /\ b < h
            /\ card'[b].body = card[b].body /\ card'[b].top = Blow(card[b].top, Files)
  BY SaveFileIs
<1> HIDE DEF h, u, b
<1>2. GoodCard(card) /\ h \in Nat /\ b \in Bank /\ b \in Nat
  BY <1>1, CoreTyped, Sizes
<1>3. card[b].body \in Plain /\ (b < h => card[b].top \in Plain)
  BY <1>1, <1>2 DEF GoodCard, Below
<1>4. Unit(card, 2 * b) = card[b].body /\ Unit(card, 2 * b + 1) = card[b].top
  BY <1>2, UnitIs
<1>5. \A x \in Plain : x # Files => x = Blank \/ Blow(x, Files) = x
  BY DEF Plain, Blow
<1> QED  BY <1>1, <1>2, <1>3, <1>4, <1>5 DEF Erased

LEMMA StepErased ==
    ASSUME Core, Next, job.pc \notin {"erase", "sector", "top"}
    PROVE  Erased(card, card')
<1>1. card \in [Bank -> Content]
  BY CoreTyped
<1>2. CASE card' = card
  BY <1>2 DEF Erased
<1>3. CASE SaveFile
  BY <1>3, SaveFileErased
<1>4. CASE BlowHeader
  <2>1. job.pc = "header" /\ card' = [card EXCEPT ![job.bank].top = Blow(@, NewHeader)]
    BY <1>4 DEF BlowHeader
  <2>2. /\ job.bank \in Bank /\ card[job.bank].top \in {Blank, Torn}
        /\ card'[job.bank].body = card[job.bank].body
        /\ \A b \in Bank : b # job.bank => card'[b] = card[b]
    BY <2>1, NewHeaderIs, NoHeaderYet
  <2>3. card'[job.bank].top = Blow(card[job.bank].top, NewHeader)
    <3>1. card[job.bank] = [body |-> card[job.bank].body, top |-> card[job.bank].top]
      BY <1>1, <2>2 DEF Content
    <3> QED  BY <1>1, <2>1, <2>2, <3>1
  <2>4. \A x : Blow(Torn, x) = Torn
    BY Kinds DEF Blow
  <2> QED  BY <2>2, <2>3, <2>4 DEF Erased
<1>5. CASE SaveNullFile
  <2>1. job.pc = "null" /\ card' = [card EXCEPT ![0].body = Blow(@, Files)]
    BY <1>5 DEF SaveNullFile
  <2>2. 0 \in Bank /\ card[0].body = Blank
    <3>1. /\ job.bank \in Nat /\ 0 < job.bank /\ 0 \in Bank
          /\ \A b \in Bank : b < job.bank => card[b] = Empty
      BY <2>1, NullAfterHeader
    <3> QED  BY <3>1, Kinds
  <2>3. card[0] = [body |-> card[0].body, top |-> card[0].top]
    BY <1>1, <2>2 DEF Content
  <2> QED  BY <1>1, <2>1, <2>2, <2>3 DEF Erased
<1>6. CASE Install
  BY <1>1, <1>6, InstallIs, InstallBank, EmptyErased DEF Install
<1>7. CASE BlowBuffer
  <2>1. job.pc = "blow" /\ card' = [card EXCEPT ![job.bank] = job.image]
    BY <1>7, BlowBufferIs DEF BlowBuffer
  <2>2. job.bank \in Bank /\ card[job.bank] = Empty
    BY <2>1, TargetEmpty DEF Target
  <2> QED  BY <1>1, <2>1, <2>2, EmptyErased
<1>8. CASE RestoreBank
  <2> DEFINE b == NextToRestore
  <2>1. b \in Bank /\ card[b] = Empty /\ card' = [card EXCEPT ![b] = job.old[b]]
    BY <1>8, RestoreBankIs
  <2> HIDE DEF b
  <2> QED  BY <1>1, <2>1, EmptyErased
<1>9. CASE BlowHeaderError
  BY <1>9, HeaderErased DEF BlowHeaderError
<1>10. CASE BlowError
  BY <1>10, HalfErased DEF BlowError
<1>11. CASE Reset
  BY <1>2, <1>11, HeaderErased, HalfErased DEF Reset
<1>12. CASE FormatSector \/ ReduceSector \/ EraseError \/ EraseTopSector \/ EraseSector \/ EraseSectorError
  BY <1>12 DEF FormatSector, ReduceSector, EraseError, EraseTopSector, EraseSector, EraseSectorError
<1>13. CASE \/ Format \/ AddApp \/ UpdateApp \/ FormatRefused \/ PickBank \/ LinkDor \/ CountBank
            \/ PreserveSectorBanks \/ RamError \/ BlowHeaderAstray
  <2>1. card' = card
    BY <1>13 DEF Format, AddApp, UpdateApp, FormatRefused, PickBank, LinkDor, CountBank,
                 PreserveSectorBanks, RamError, BlowHeaderAstray
  <2> QED  BY <1>2, <2>1
<1> QED  BY <1>3, <1>4, <1>5, <1>6, <1>7, <1>8, <1>9, <1>10, <1>11, <1>12, <1>13 DEF Next, Step, Errors

\* FlashEprWriteBlock and the two RomUpdate loops that blow banks: but for erasing, only
\* blank units of a card change, in every step and whatever fails.
THEOREM BlowsGoToErased == Spec => BlowsErased
<1> DEFINE Step1 ==
      job.pc \in {"erase", "sector", "top"} \/
         \A u \in 0 .. 2 * Banks - 1 : Unit(card', u) # Unit(card, u) => Unit(card, u) = Blank
<1>1. Core /\ [Next]_vars => [Step1]_vars
  BY StepErased, ErasedUnits
<1> QED  BY <1>1, CoreInvariant, PTL DEF Spec, BlowsErased

----------------------------------------------------------------------------
(* Formatting and reducing stay below the applications *)

\* A sector that ends at or below a bank has none of the banks above.
LEMMA SectorIsBelow ==
    ASSUME NEW e \in Bank, Ends(e), NEW s \in Nat, s <= SectorOf(e), NEW b \in Bank, b > e
    PROVE  SectorOf(b) # s
<1>1. e \in Nat /\ b \in Nat
  BY Sizes
<1>2. SectorOf(e) < SectorOf(b) /\ SectorOf(e) \in Nat /\ SectorOf(b) \in Nat
  BY <1>1, AfterEnd, InSector
<1> QED  BY <1>2

\* The banks that an operation of the file area may touch end below the applications.
LEMMA AreaEnds ==
    ASSUME Core, FormatFull = FALSE, job.cmd \in {"format", "reduce"}, Running, job.pc # "refuse"
    PROVE  \E e \in Bank :
              /\ Ends(e) /\ e < Banks - job.apps /\ job.bank \in Bank /\ job.bank <= e
              /\ job.pc = "erase" => job.sector \in Nat /\ job.sector <= SectorOf(e)
<1>1. /\ FormatInv /\ ReduceInv /\ TypeOK /\ job.bank \in Bank /\ job.sector \in Nat
      /\ job.apps \in 0 .. Banks
  BY JobTyped, Sizes, CoreTyped DEF JobInv, Sector
<1>2. CASE job.cmd = "format"
  <2>1. /\ Ends(job.bank) /\ job.bank < Banks - job.apps
        /\ job.pc = "erase" => job.sector <= SectorOf(job.bank)
    BY <1>1, <1>2 DEF FormatInv
  <2> QED  BY <1>1, <2>1, Sizes
<1>3. CASE job.cmd = "reduce"
  <2> DEFINE e == job.bank + SectorBanks
  <2>1. /\ e \in Bank /\ Ends(job.bank) /\ e = Top - AppBanks(card) /\ job.apps = AppBanks(card)
        /\ job.pc = "erase" => job.sector = SectorOf(e)
    BY <1>1, <1>3 DEF ReduceInv
  <2>2. job.bank \in Nat /\ SectorBanks \in Nat /\ Top \in Nat /\ Banks = Top + 1 /\ e \in Nat
    BY <1>1, <2>1, Sizes
  <2>3. Ends(e)
    BY <2>1, <2>2, NextEnd
  <2>4. e < Banks - job.apps /\ job.bank <= e /\ SectorOf(e) \in Nat
    BY <1>1, <2>1, <2>2, InSector
  <2> HIDE DEF e
  <2> QED  BY <1>1, <2>1, <2>3, <2>4
<1> QED  BY <1>2, <1>3

LEMMA StepKeepsApps ==
    ASSUME Core, Next, FormatFull = FALSE, ~Idle, job # Stray, job.cmd \in {"format", "reduce"},
           NEW b \in Bank, b >= Banks - job.apps
    PROVE  card'[b] = card[b]
<1>1. /\ Running /\ TypeOK /\ job.pc \in {"refuse", "erase", "header", "null"}
      /\ card \in [Bank -> Content] /\ job.apps \in 0 .. Banks
  <2>1. Running /\ TypeOK
    BY CoreTyped DEF TypeOK, Running, Idle, Jobs
  <2>2. FormatInv /\ ReduceInv
    BY <2>1, CoreTyped DEF JobInv
  <2> QED  BY <2>1, <2>2, CoreTyped, JobTyped DEF FormatInv, ReduceInv
<1>2. CASE card' = card
  BY <1>2
<1>3. CASE job.pc # "refuse" /\ card' # card
  <2>1. PICK e \in Bank :
              /\ Ends(e) /\ e < Banks - job.apps /\ job.bank \in Bank /\ job.bank <= e
              /\ job.pc = "erase" => job.sector \in Nat /\ job.sector <= SectorOf(e)
    BY <1>1, <1>3, AreaEnds
  <2>2. b > e /\ b # job.bank
    BY <1>1, <2>1, Sizes
  <2>3. CASE job.pc = "erase"
    <3>1. SectorOf(b) # job.sector
      BY <2>1, <2>2, <2>3, SectorIsBelow
    <3>2. card' \in {Wipe(card, job.sector), Scramble(card, job.sector)}
      BY <1>3, <2>3 DEF Next, Step, Errors, SaveFile, Format, AddApp, UpdateApp, FormatRefused, FormatSector,
            ReduceSector, BlowHeader, BlowHeaderAstray, SaveNullFile, PickBank, EraseTopSector, Install, LinkDor,
            CountBank, PreserveSectorBanks, EraseSector, BlowBuffer, RestoreBank, EraseError, BlowHeaderError,
            RamError, EraseSectorError, BlowError, Reset, Idle
    <3> QED  BY <3>1, <3>2 DEF Wipe, Scramble
  <2>4. CASE job.pc = "header"
    <3>1. \/ card' = [card EXCEPT ![job.bank].top = Blow(@, NewHeader)]
          \/ card' = [card EXCEPT ![job.bank].top = Torn]
      BY <1>3, <2>4 DEF Next, Step, Errors, SaveFile, Format, AddApp, UpdateApp, FormatRefused, FormatSector,
            ReduceSector, BlowHeader, BlowHeaderAstray, SaveNullFile, PickBank, EraseTopSector, Install, LinkDor,
            CountBank, PreserveSectorBanks, EraseSector, BlowBuffer, RestoreBank, EraseError, BlowHeaderError,
            RamError, EraseSectorError, BlowError, Reset, Idle
    <3> QED  BY <1>1, <2>2, <3>1
  <2>5. CASE job.pc = "null"
    <3>1. \/ card' = [card EXCEPT ![0].body = Blow(@, Files)]
          \/ card' = [card EXCEPT ![0].body = Torn]
      BY <1>3, <2>5 DEF Next, Step, Errors, SaveFile, Format, AddApp, UpdateApp, FormatRefused, FormatSector,
            ReduceSector, BlowHeader, BlowHeaderAstray, SaveNullFile, PickBank, EraseTopSector, Install, LinkDor,
            CountBank, PreserveSectorBanks, EraseSector, BlowBuffer, RestoreBank, EraseError, BlowHeaderError,
            RamError, EraseSectorError, BlowError, Reset, Idle
    <3>2. b # 0
      BY <2>1, <2>2, Sizes
    <3> QED  BY <1>1, <3>1, <3>2
  <2> QED  BY <1>1, <1>3, <2>3, <2>4, <2>5
<1>4. CASE job.pc = "refuse"
  <2>1. card' = card
      BY <1>4 DEF Next, Step, Errors, SaveFile, Format, AddApp, UpdateApp, FormatRefused, FormatSector,
            ReduceSector, BlowHeader, BlowHeaderAstray, SaveNullFile, PickBank, EraseTopSector, Install, LinkDor,
            CountBank, PreserveSectorBanks, EraseSector, BlowBuffer, RestoreBank, EraseError, BlowHeaderError,
            RamError, EraseSectorError, BlowError, Reset, Idle
  <2> QED  BY <2>1
<1> QED  BY <1>2, <1>3, <1>4

\* FlashEprFileFormat and FlashEprReduceFileArea leave the banks alone that the card header
\* counts, unless the user formats a card that is full of applications.
THEOREM AppsAreKept == ASSUME FormatFull = FALSE PROVE Spec => AppsKept
<1> DEFINE Kept ==
      ~Idle /\ job # Stray /\ job.cmd \in {"format", "reduce"} =>
          \A b \in Bank : b >= Banks - job.apps => card'[b] = card[b]
<1>1. Core /\ [Next]_vars => [Kept]_vars
  BY StepKeepsApps
<1> QED  BY <1>1, CoreInvariant, PTL DEF Spec, AppsKept

----------------------------------------------------------------------------
(* After a format there is an empty area *)

\* A header where an area would be made is the header of the area that is found.
LEMMA FoundAt ==
    ASSUME NEW c \in [Bank -> Content], GoodCard(c), NEW h \in Bank, HasHeader(c, h),
           h = Top \/ (AppBanks(c) > 0 /\ Boundary(c) = h)
    PROVE  /\ Request(c).kind = "found" /\ Request(c).bank = h /\ Request(c).banks = h + 1
<1> DEFINE area == Request(c)
<1>1. /\ area.kind \in {"none", "room", "found", "potential"}
      /\ area.bank \in Bank /\ area.banks = area.bank + 1
      /\ area.kind \in {"found", "potential"} =>
            /\ area.bank < Banks - AppBanks(c)
            /\ area.bank = Top \/ (AppBanks(c) # 0 /\ Boundary(c) = area.bank)
      /\ area.kind \in {"none", "room"} => area.bank = Top
      /\ area.kind = "none" => AppBanks(c) = 0
      /\ area.kind \in {"room", "potential"} => AppBanks(c) # 0
      /\ area.kind = "found" => HasHeader(c, area.bank)
      /\ area.kind # "found" => h < area.bank
  BY RequestIs
<1>2. /\ Ends(h) /\ h < Banks - AppBanks(c) /\ AppBanks(c) \in Nat /\ h \in Nat
      /\ Banks = Top + 1 /\ Top \in Nat
  BY AppBanksIs, Sizes DEF GoodCard
<1>3. area.kind # "none"
  BY <1>1, <1>2
<1>4. area.kind # "room"
  <2>1. SectorBanks <= h + 1 /\ SectorBanks \in Nat
    <3>1. SectorBanks * SectorOf(h) \in Nat /\ SectorBanks \in Nat
      BY <1>2, InSector, Sizes
    <3> QED  BY <1>2, <3>1 DEF Ends
  <2>2. ~(Banks - AppBanks(c) < SectorBanks)
    BY <1>2, <2>1
  <2>3. c[Top].top.is = "oz" \/ AppBanks(c) # 0
    BY <1>2 DEF HasHeader
  <2> QED  BY <2>2, <2>3 DEF Request
<1>5. area.kind # "potential"
  BY <1>1, <1>2
<1>6. area.kind = "found" /\ HasHeader(c, area.bank)
  BY <1>1, <1>3, <1>4, <1>5
<1>7. area.bank = h
  BY <1>1, <1>6, OneHeader
<1> QED  BY <1>1, <1>6, <1>7

\* What FormatMakesArea says of a card.
EmptyArea(c) ==
    LET area == Request(c)
    IN  /\ area.kind = "found" /\ area.banks = area.bank + 1
        /\ Used(c) = IF Intel THEN 1 ELSE 0
        /\ \A u \in Used(c) .. Capacity(c) - 1 : Unit(c, u) = Blank

LEMMA NewArea ==
    ASSUME NEW c \in [Bank -> Content], GoodCard(c), NEW h \in Bank, HasHeader(c, h), 0 < h,
           h = Top \/ (AppBanks(c) > 0 /\ Boundary(c) = h),
           c[0].body = IF Intel THEN Files ELSE Blank,
           \A b \in Bank : b <= h => (b # 0 => c[b].body = Blank) /\ (b < h => c[b].top = Blank)
    PROVE  EmptyArea(c)
<1>1. Request(c).kind = "found" /\ Request(c).bank = h /\ Request(c).banks = h + 1
  BY FoundAt
<1>2. h \in Nat /\ 0 \in Nat /\ \A b \in 0 .. h : b \in Bank
  BY Sizes
<1>3. /\ Capacity(c) = 2 * h + 1 /\ Used(c) \in 0 .. Capacity(c)
      /\ Used(c) = Capacity(c) \/ Unit(c, Used(c)) # Files
      /\ \A v \in 0 .. Used(c) - 1 : Unit(c, v) = Files
  BY <1>1, UsedIs DEF Found
<1> DEFINE used == Used(c)
<1> HIDE DEF used
<1>4. \A u \in 1 .. 2 * h : Unit(c, u) = Blank
  <2> SUFFICES ASSUME NEW u \in 1 .. 2 * h PROVE Unit(c, u) = Blank
    OBVIOUS
  <2>1. u \in 0 .. 2 * h
    BY <1>2
  <2>2. PICK k \in 0 .. h : \/ u = 2 * k /\ Unit(c, u) = c[k].body
                            \/ k < h /\ u = 2 * k + 1 /\ Unit(c, u) = c[k].top
    BY <1>2, <2>1, UnitsTo
  <2> QED  BY <1>2, <2>2
<1>5. Unit(c, 0) = c[0].body
  <2>1. Unit(c, 2 * 0) = c[0].body
    BY <1>2, UnitIs
  <2> QED  BY <2>1
<1>6. Blank # Files
  BY Kinds
<1>7. used = IF Intel THEN 1 ELSE 0
  <2>1. used \in 0 .. 2 * h + 1 /\ 1 \in 1 .. 2 * h /\ (used = 2 * h + 1 \/ Unit(c, used) # Files)
        /\ \A v \in 0 .. used - 1 : Unit(c, v) = Files
    BY <1>2, <1>3 DEF used
  <2>2. ~(used > 1)
    <3>1. Unit(c, 1) # Files
      BY <1>4, <1>6, <2>1
    <3> QED  BY <2>1, <3>1
  <2>3. CASE Intel
    BY <1>2, <1>5, <2>1, <2>2, <2>3
  <2>4. CASE ~Intel
    <3>1. Unit(c, 0) # Files
      BY <1>5, <1>6, <2>4
    <3>2. ~(used = 1)
      BY <2>1, <3>1
    <3> QED  BY <2>1, <2>2, <2>4, <3>2
  <2> QED  BY <2>3, <2>4
<1>8. \A u \in used .. 2 * h : Unit(c, u) = Blank
  <2> SUFFICES ASSUME NEW u \in used .. 2 * h PROVE Unit(c, u) = Blank
    OBVIOUS
  <2>1. CASE u = 0
    BY <1>5, <1>7, <2>1
  <2>2. CASE u # 0
    BY <1>2, <1>4, <1>7, <2>2
  <2> QED  BY <2>1, <2>2
<1> QED  BY <1>1, <1>2, <1>3, <1>7, <1>8 DEF EmptyArea, used

\* Only an Intel chip gets a NULL file.
NullInv == job.pc = "null" => Intel

LEMMA FormatStep ==
    ASSUME Core, NullInv, BlowHeader \/ SaveNullFile, Idle', job'.result = "formatted"
    PROVE  EmptyArea(card')
<1>1. CASE BlowHeader
  <2>1. job.pc = "header" /\ card' = [card EXCEPT ![job.bank].top = Blow(@, NewHeader)] /\ Running
    BY <1>1 DEF BlowHeader, Running
  <2>2. TypeOK /\ FormatInv /\ job \in Jobs
    BY <2>1, CoreTyped, JobTyped DEF JobInv
  <2>3. job.cmd = "format" /\ ~Intel
    <3>1. job.cmd \in {"format", "reduce"}
      BY <2>1, NoHeaderYet
    <3>2. CASE job.cmd = "reduce"
      <4>1. job' = [job EXCEPT !.cmd = "add", !.pc = job.then, !.words = 0, !.bank = Top]
        BY <1>1, <3>2 DEF BlowHeader
      <4>2. job'.pc # "idle"
        BY <2>2, <4>1 DEF Jobs
      <4> QED  BY <4>2 DEF Idle
    <3>3. CASE job.cmd = "format" /\ Intel
      <4>1. job' = [job EXCEPT !.pc = "null"]
        BY <1>1, <3>3 DEF BlowHeader
      <4>2. job'.pc # "idle"
        BY <2>2, <4>1 DEF Jobs
      <4> QED  BY <4>2 DEF Idle
    <3> QED  BY <3>1, <3>2, <3>3
  <2>4. /\ Ends(job.bank)
        /\ job.bank = Top \/ (AppBanks(card) > 0 /\ Boundary(card) = job.bank)
        /\ \A b \in Bank : b <= job.bank => card[b] = Empty
    BY <2>1, <2>2, <2>3 DEF FormatInv
  <2>5. /\ card' \in [Bank -> Content] /\ GoodCard(card') /\ AppBanks(card') = AppBanks(card)
    BY <1>1, BlowHeaderGood
  <2>6. /\ job.bank \in Bank /\ job.bank + 1 \in 1 .. Banks
        /\ card'[job.bank].body = card[job.bank].body
        /\ card[job.bank].top = Blank => card'[job.bank].top = FileHeader(job.bank + 1)
        /\ \A b \in Bank : b # job.bank => card'[b] = card[b]
    BY <2>1, NewHeaderIs
  <2>7. job.bank \in Nat /\ 0 < job.bank /\ 0 \in Bank
    <3>1. job.bank \in Nat /\ SectorBanks \in Nat /\ SectorBanks >= 2 /\ 0 \in Bank
      BY <2>6, Sizes
    <3>2. SectorBanks * SectorOf(job.bank) \in Nat
      BY <3>1, InSector
    <3>3. job.bank = SectorBanks * SectorOf(job.bank) + SectorBanks - 1
      BY <2>4 DEF Ends
    <3> QED  BY <3>1, <3>2, <3>3
  <2>8. HasHeader(card', job.bank)
    BY <2>4, <2>6, <2>7, Kinds DEF HasHeader
  <2>9. job.bank = Top \/ (AppBanks(card') > 0 /\ Boundary(card') = job.bank)
    BY <2>4, <2>5 DEF Boundary
  <2>10. /\ card'[0].body = Blank
         /\ \A b \in Bank : b <= job.bank => card'[b].body = Blank /\ (b < job.bank => card'[b].top = Blank)
    BY <2>4, <2>6, <2>7, Kinds
  <2> DEFINE d == card'
  <2> DEFINE h == job.bank
  <2>11. /\ d \in [Bank -> Content] /\ GoodCard(d) /\ h \in Bank /\ HasHeader(d, h) /\ 0 < h
         /\ h = Top \/ (AppBanks(d) > 0 /\ Boundary(d) = h)
         /\ d[0].body = IF Intel THEN Files ELSE Blank
         /\ \A b \in Bank : b <= h => (b # 0 => d[b].body = Blank) /\ (b < h => d[b].top = Blank)
    BY <2>3, <2>5, <2>6, <2>7, <2>8, <2>9, <2>10
  <2>12. d = card'
    OBVIOUS
  <2> HIDE DEF d, h
  <2>13. EmptyArea(d)
    BY <2>11, NewArea
  <2> QED  BY <2>12, <2>13
<1>2. CASE SaveNullFile
  <2>1. job.pc = "null" /\ card' = [card EXCEPT ![0].body = Blow(@, Files)] /\ Running
    BY <1>2 DEF SaveNullFile, Running
  <2>2. TypeOK /\ FormatInv /\ job.bank \in Bank /\ card \in [Bank -> Content]
    BY <2>1, CoreTyped, JobTyped DEF JobInv
  <2>3. /\ job.cmd = "format" /\ job.bank \in Nat /\ 0 < job.bank /\ 0 \in Bank
        /\ card[job.bank].body = Blank /\ card[job.bank].top = FileHeader(job.bank + 1)
        /\ \A b \in Bank : b < job.bank => card[b] = Empty
    BY <2>1, NullAfterHeader
  <2>4. job.bank = Top \/ (AppBanks(card) > 0 /\ Boundary(card) = job.bank)
    BY <2>1, <2>2, <2>3 DEF FormatInv
  <2>5. card' \in [Bank -> Content] /\ GoodCard(card')
    <3>1. Core'
      BY <1>2, SaveNullFileCore
    <3> QED  BY <3>1 DEF Core, TypeOK
  <2>6. Intel
    BY <2>1 DEF NullInv
  <2>7. card'[0].body = Files /\ \A b \in Bank : card'[b].top = card[b].top /\ (b # 0 => card'[b] = card[b])
    <3>1. card[0].body = Blank
      BY <2>3, Kinds
    <3>2. Blow(card[0].body, Files) = Files
      BY <3>1, BlowIs
    <3>3. card[0] = [body |-> card[0].body, top |-> card[0].top]
      BY <2>2, <2>3 DEF Content
    <3> QED  BY <2>1, <2>2, <2>3, <3>2, <3>3
  <2>8. AppBanks(card') = AppBanks(card)
    <3>1. Top \in Bank
      BY Sizes
    <3> QED  BY <2>7, <3>1 DEF AppBanks
  <2>9. job.bank = Top \/ (AppBanks(card') > 0 /\ Boundary(card') = job.bank)
    BY <2>4, <2>8 DEF Boundary
  <2>10. HasHeader(card', job.bank)
    <3>1. job.bank + 1 \in 1 .. Banks
      BY <2>2, <2>3, Sizes
    <3> QED  BY <2>2, <2>3, <2>7, <3>1, Kinds DEF HasHeader
  <2>11. \A b \in Bank : b <= job.bank =>
            (b # 0 => card'[b].body = Blank) /\ (b < job.bank => card'[b].top = Blank)
    <3> SUFFICES ASSUME NEW b \in Bank, b <= job.bank
                 PROVE  (b # 0 => card'[b].body = Blank) /\ (b < job.bank => card'[b].top = Blank)
      OBVIOUS
    <3>1. CASE b = job.bank
      BY <2>3, <2>7, <3>1
    <3>2. CASE b < job.bank
      BY <2>3, <2>7, <3>2, Kinds
    <3> QED  BY <2>3, <3>1, <3>2, Sizes
  <2> DEFINE d == card'
  <2> DEFINE h == job.bank
  <2>12. /\ d \in [Bank -> Content] /\ GoodCard(d) /\ h \in Bank /\ HasHeader(d, h) /\ 0 < h
         /\ h = Top \/ (AppBanks(d) > 0 /\ Boundary(d) = h)
         /\ d[0].body = IF Intel THEN Files ELSE Blank
         /\ \A b \in Bank : b <= h => (b # 0 => d[b].body = Blank) /\ (b < h => d[b].top = Blank)
    BY <2>2, <2>3, <2>5, <2>6, <2>7, <2>9, <2>10, <2>11
  <2>13. d = card'
    OBVIOUS
  <2> HIDE DEF d, h
  <2>14. EmptyArea(d)
    BY <2>12, NewArea
  <2> QED  BY <2>13, <2>14
<1> QED  BY <1>1, <1>2

\* Only these steps end an operation with the report of a new area.
LEMMA NotFormatted ==
    ASSUME Core, Next, ~BlowHeader, ~SaveNullFile, ~BlowHeaderAstray
    PROVE  ~(Idle' /\ job'.result = "formatted") /\ job'.pc # "null"
<1>1. CASE SaveFile
  BY <1>1 DEF SaveFile, Ended
<1>2. CASE Format \/ AddApp \/ UpdateApp
  <2>1. \A cmd, pc : NewJob(cmd, pc).pc = pc
    BY NewJobIs DEF JobRecord
  <2>2. ReduceJob(1, "top").pc = "erase" /\ ReduceJob(1, "pick").pc = "erase"
    BY DEF NewJob, ReduceJob
  <2>3. CASE AddApp
    <3>1. \/ job' = NewJob("add", "top") \/ job' = NewJob("add", "pick")
          \/ job' = ReduceJob(1, "top") \/ job' = ReduceJob(1, "pick")
      BY <2>3 DEF AddApp
    <3>2. job'.pc \in {"top", "pick", "erase"}
      BY <2>1, <2>2, <3>1
    <3> QED  BY <3>2 DEF Idle
  <2>4. CASE Format
    <3>1. job'.pc \in {"refuse", "erase"}
      BY <2>1, <2>4 DEF Format, NewJob
    <3> QED  BY <3>1 DEF Idle
  <2>5. CASE UpdateApp
    <3>1. job'.pc = "preserve"
      BY <2>1, <2>5 DEF UpdateApp, NewJob
    <3> QED  BY <3>1 DEF Idle
  <2> QED  BY <1>2, <2>3, <2>4, <2>5
<1>3. CASE FormatRefused \/ EraseError \/ BlowHeaderError
  <2>1. job' = Stray \/ job' = Ended("failed", << >>)
    BY <1>3 DEF FormatRefused, EraseError, BlowHeaderError, Return
  <2> QED  BY <2>1 DEF Stray, Ended, Idle
<1>4. CASE RamError \/ BlowError
  BY <1>4 DEF RamError, BlowError, Suicide, Ended
<1>5. CASE Reset
  BY <1>5 DEF Reset, Ended
<1> DEFINE Walks == {"erase", "sector", "top", "pick", "install", "link", "count", "preserve", "blow", "restore"}
<1>6. CASE /\ ~Suicide
           /\ \/ FormatSector \/ ReduceSector \/ PickBank \/ EraseTopSector \/ LinkDor \/ CountBank
              \/ PreserveSectorBanks \/ EraseSector \/ EraseSectorError
  <2>1. job \in Jobs /\ job.pc \in Walks
    <3>1. job.pc \in Walks
      BY <1>6 DEF FormatSector, ReduceSector, PickBank, EraseTopSector, LinkDor, CountBank,
                  PreserveSectorBanks, EraseSector, EraseSectorError
    <3> QED  BY <3>1, CoreTyped, JobTyped DEF Running
  <2>2. job'.pc \in Walks \union {"header"}
    <3>1. CASE FormatSector
      BY <2>1, <3>1 DEF FormatSector, Jobs
    <3>2. CASE ReduceSector
      BY <2>1, <3>2 DEF ReduceSector, Jobs
    <3>3. CASE PickBank
      <4> DEFINE x == [body |-> Code(0), top |-> Code(0)]
      <4>1. job' = [job EXCEPT !.pc = "install", !.then = "count", !.bank = Top - AppBanks(card), !.image = x]
        BY <1>6, <3>3 DEF PickBank
      <4> HIDE DEF x
      <4> QED  BY <2>1, <4>1 DEF Jobs
    <3>4. CASE EraseTopSector
      BY <2>1, <3>4 DEF EraseTopSector, Jobs
    <3>5. CASE LinkDor
      BY <2>1, <3>5 DEF LinkDor, Jobs
    <3>6. CASE CountBank
      BY <2>1, <3>6 DEF CountBank, Jobs
    <3>7. CASE PreserveSectorBanks
      BY <2>1, <3>7 DEF PreserveSectorBanks, Jobs
    <3>8. CASE EraseSector
      BY <2>1, <3>8 DEF EraseSector, Jobs
    <3>9. CASE EraseSectorError
      <4>1. job' = [job EXCEPT !.tries = @ - 1]
        BY <1>6, <3>9 DEF EraseSectorError
      <4> QED  BY <2>1, <4>1 DEF Jobs
    <3> QED  BY <1>6, <3>1, <3>2, <3>3, <3>4, <3>5, <3>6, <3>7, <3>8, <3>9
  <2> QED  BY <2>2 DEF Idle
<1>7. CASE Suicide
  BY <1>7 DEF Suicide, Ended
<1>8. CASE Install
  <2>1. job \in Jobs
    BY <1>8, CoreTyped, JobTyped DEF Running, Install
  <2>2. job' = Ended("added", << >>) \/ job' = [job EXCEPT !.pc = "link"]
    BY <1>8 DEF Install
  <2>3. CASE job' = Ended("added", << >>)
    BY <2>3 DEF Ended
  <2>4. CASE job' = [job EXCEPT !.pc = "link"]
    BY <2>1, <2>4 DEF Jobs, Idle
  <2> QED  BY <2>2, <2>3, <2>4
<1>9. CASE BlowBuffer \/ RestoreBank
  <2>1. job \in Jobs /\ job.cmd \in {"add", "update"} /\ job.pc \in {"blow", "restore"}
    <3>1. job.pc \in {"blow", "restore"}
      BY <1>9 DEF BlowBuffer, RestoreBank
    <3> QED  BY <3>1, ApplyJob DEF Applying
  <2>2. \/ SectorDone \/ job' = [job EXCEPT !.pc = "restore"]
        \/ job' = [job EXCEPT !.rest = @ \ {NextToRestore}]
    BY <1>9 DEF BlowBuffer, RestoreBank
  <2>3. CASE SectorDone
    <3>1. job' = [job EXCEPT !.pc = "count", !.rest = {}] \/ job' = Ended(job.cmd, job.old)
      BY <2>3 DEF SectorDone
    <3>2. CASE job' = Ended(job.cmd, job.old)
      BY <2>1, <3>2 DEF Ended
    <3>3. CASE job' = [job EXCEPT !.pc = "count", !.rest = {}]
      BY <2>1, <3>3 DEF Jobs, Idle
    <3> QED  BY <3>1, <3>2, <3>3
  <2>4. CASE job' = [job EXCEPT !.pc = "restore"]
    BY <2>1, <2>4 DEF Jobs, Idle
  <2>5. CASE job' = [job EXCEPT !.rest = @ \ {NextToRestore}]
    <3>1. job'.pc = job.pc
      BY <2>1, <2>5 DEF Jobs
    <3> QED  BY <2>1, <3>1 DEF Idle
  <2> QED  BY <2>2, <2>3, <2>4, <2>5
<1> QED  BY <1>1, <1>2, <1>3, <1>4, <1>5, <1>6, <1>7, <1>8, <1>9 DEF Next, Step, Errors

LEMMA FormattedStep ==
    ASSUME Core, Core', NullInv, FormatMakesArea, [Next]_vars
    PROVE  NullInv' /\ FormatMakesArea'
<1>1. CASE UNCHANGED vars
  <2>1. card' = card /\ job' = job /\ rom' = rom
    BY <1>1 DEF vars
  <2>2. NullInv'
    BY <2>1 DEF NullInv
  <2> DEFINE Area(c) ==
        LET area == Request(c)
        IN  /\ area.kind = "found" /\ area.banks = area.bank + 1
            /\ Used(c) = IF Intel THEN 1 ELSE 0
            /\ \A u \in Used(c) .. Capacity(c) - 1 : Unit(c, u) = Blank
  <2>3. FormatMakesArea <=> (job.pc = "idle" /\ job.result = "formatted" /\ rom = 0 => Area(card))
    BY DEF FormatMakesArea, Idle
  <2>4. FormatMakesArea' <=> (job'.pc = "idle" /\ job'.result = "formatted" /\ rom' = 0 => Area(card'))
    BY DEF FormatMakesArea, Idle, Used, Capacity, Request, Unit, AppBanks
  <2> HIDE DEF Area
  <2>5. FormatMakesArea'
    BY <2>1, <2>3, <2>4
  <2> QED  BY <2>2, <2>5
<1>2. CASE Next /\ ~BlowHeader /\ ~SaveNullFile /\ ~BlowHeaderAstray
  BY <1>2, NotFormatted DEF NullInv, FormatMakesArea
<1>3. CASE BlowHeader \/ SaveNullFile
  <2>1. job'.pc = "null" => Intel
    <3>1. CASE BlowHeader
      <4>1. job \in Jobs /\ job.then # "null"
        BY <3>1, CoreTyped, JobTyped DEF Running, BlowHeader
      <4>2. CASE job.cmd = "format" /\ Intel
        BY <4>2
      <4>3. CASE job.cmd = "reduce"
        <5>1. job' = [job EXCEPT !.cmd = "add", !.pc = job.then, !.words = 0, !.bank = Top]
          BY <3>1, <4>3 DEF BlowHeader
        <5> QED  BY <4>1, <5>1 DEF Jobs
      <4>4. CASE job.cmd # "reduce" /\ ~(job.cmd = "format" /\ Intel)
        <5>1. Return(3, "formatted")
          BY <3>1, <4>4 DEF BlowHeader
        <5> QED  BY <5>1 DEF Return, Ended, Stray
      <4> QED  BY <4>2, <4>3, <4>4
    <3>2. CASE SaveNullFile
      BY <3>2 DEF SaveNullFile, Return, Ended, Stray
    <3> QED  BY <1>3, <3>1, <3>2
  <2>2. Idle' /\ job'.result = "formatted" => EmptyArea(card')
    BY <1>3, FormatStep
  <2> QED  BY <2>1, <2>2 DEF NullInv, FormatMakesArea, EmptyArea, Used, Capacity, Request, Unit, AppBanks, Idle
<1>4. CASE BlowHeaderAstray
  <2>1. rom > 0 /\ rom' = rom /\ rom \in Nat
    <3>1. rom > 0 /\ rom' = rom
      BY <1>4 DEF BlowHeaderAstray, HeaderAstray
    <3>2. rom \in Roms /\ Banks \in Nat
      BY Sizes, CoreTyped DEF TypeOK
    <3> QED  BY <3>1, <3>2, UpdateAssumption
  <2>2. job'.pc # "null"
    BY <1>4 DEF BlowHeaderAstray, Return, Ended, Stray
  <2> QED  BY <2>1, <2>2 DEF NullInv, FormatMakesArea
<1> QED  BY <1>1, <1>2, <1>3, <1>4

\* FlashEprFileFormat in slots 1 to 3: when it reports success there is a file area with nothing
\* in it but the NULL file of an Intel chip, whatever happened to the card before.  (In slot 0
\* the header goes to RAM, and the chip is left without.)
THEOREM FormatAlwaysMakesArea == Spec => []FormatMakesArea
<1>1. Init => NullInv /\ FormatMakesArea
  BY DEF Init, Ended, NullInv, FormatMakesArea, Idle
<1>2. Core /\ Core' /\ NullInv /\ FormatMakesArea /\ [Next]_vars => NullInv' /\ FormatMakesArea'
  BY FormattedStep
<1> QED  BY <1>1, <1>2, CoreInvariant, PTL DEF Spec

----------------------------------------------------------------------------
(* Files only go when the user formats *)

\* A sector of the card may be erased for an application: of the area that the operation came
\* upon it has no files.
Clear(c, found, bank) == \A b \in BanksOf(SectorOf(bank)) : b >= found \/ NoFiles(c[b])

\* The sectors with the card header, with applications and with the bank at hand are clear, and
\* so is what will be written back to them.
FilesInv ==
    job.cmd \in {"add", "update"} =>
        /\ AppBanks(card) # 0 \/ job.pc = "top" => Clear(card, job.found, Top)
        /\ \A d \in Bank : IsDor(card, d) => Clear(card, job.found, d)
        /\ job.pc = "pick" => Clear(card, job.found, Top - AppBanks(card))
        /\ job.pc \in {"install"} \union Applying => Clear(card, job.found, job.bank)
        /\ job.pc \in Applying => job.bank >= job.found \/ NoFiles(job.image)
        /\ Rewriting => \A b \in OthersOf(job.bank) : b >= job.found \/ NoFiles(job.old[b])
RunFiles == Running => FilesInv

\* An area ends below every bank above its header, and the whole sector of that bank.
LEMMA AboveHeader ==
    ASSUME NEW c, NEW h \in Bank, Ends(h), NEW d \in Bank, h < d
    PROVE  Clear(c, h + 1, d)
<1> SUFFICES ASSUME NEW b \in BanksOf(SectorOf(d)) PROVE b >= h + 1
  BY DEF Clear
<1>1. b \in Nat /\ h \in Nat /\ d \in Nat /\ SectorOf(b) = SectorOf(d)
  BY Sizes DEF BanksOf
<1>2. SectorOf(h) < SectorOf(d) /\ SectorOf(h) \in Nat /\ SectorOf(b) \in Nat
  BY <1>1, AfterEnd, InSector
<1>3. ~(b <= h)
  <2>1. b <= h => SectorOf(b) <= SectorOf(h)
    BY <1>1, SectorMono
  <2> QED  BY <1>1, <1>2, <2>1
<1> QED  BY <1>1, <1>3

\* Where no area is found everything is clear.
LEMMA NoAreaClear == ASSUME NEW c, NEW d PROVE Clear(c, 0, d)
<1>1. \A b \in BanksOf(SectorOf(d)) : b >= 0
  BY Sizes DEF BanksOf
<1> QED  BY <1>1 DEF Clear

\* What an operation comes upon.
LEMMA AllClear ==
    ASSUME NEW c \in [Bank -> Content], GoodCard(c),
           NEW found, found = IF Found(c) THEN Request(c).banks ELSE 0
    PROVE  /\ AppBanks(c) # 0 => Clear(c, found, Top)
           /\ \A d \in Bank : IsDor(c, d) => Clear(c, found, d)
           /\ ~Found(c) => \A d : Clear(c, found, d)
           /\ Found(c) => \A d \in Bank : d > Request(c).bank => Clear(c, found, d)
<1>1. CASE ~Found(c)
  BY <1>1, NoAreaClear
<1>2. CASE Found(c)
  <2> DEFINE h == Request(c).bank
  <2>1. h \in Bank /\ Ends(h) /\ found = h + 1 /\ HasHeader(c, h) /\ h < Banks - AppBanks(c)
    BY <1>2, RequestIs DEF Found
  <2> HIDE DEF h
  <2>2. \A d \in Bank : d > h => Clear(c, h + 1, d)
    <3> SUFFICES ASSUME NEW d \in Bank, d > h PROVE Clear(c, h + 1, d)
      OBVIOUS
    <3>1. h < d
      BY <2>1, Sizes
    <3> QED  BY <2>1, <3>1, AboveHeader
  <2>3. ASSUME NEW d \in Bank, IsDor(c, d) PROVE d > h
    <3>1. h < d
      BY <2>1, <2>3, HeadersUnderDor
    <3> QED  BY <2>1, <3>1, Sizes
  <2>4. AppBanks(c) # 0 => Top > h /\ Top \in Bank
    BY <2>1, AppBanksIs, Sizes
  <2> QED  BY <1>2, <2>1, <2>2, <2>3, <2>4 DEF h
<1> QED  BY <1>1, <1>2

\* A step after which nothing but what is clear has changed in the sector at hand.
LEMMA StaysClear ==
    ASSUME NEW c \in [Bank -> Content], NEW d \in [Bank -> Content], NEW found, NEW bank,
           \A b \in Bank : b \notin BanksOf(SectorOf(bank)) => d[b] = c[b],
           \A b \in BanksOf(SectorOf(bank)) : b >= found \/ NoFiles(d[b]),
           NEW k, Clear(c, found, k)
    PROVE  Clear(d, found, k)
  BY DEF Clear, BanksOf

LEMMA StillClear ==
    ASSUME NEW c \in [Bank -> Content], NEW d \in [Bank -> Content], NEW found, NEW bank \in Bank,
           \A b \in Bank : b \notin BanksOf(SectorOf(bank)) => d[b] = c[b],
           \A b \in BanksOf(SectorOf(bank)) : b >= found \/ NoFiles(d[b]),
           AppBanks(c) # 0 => Clear(c, found, Top),
           \A k \in Bank : IsDor(c, k) => Clear(c, found, k)
    PROVE  /\ Clear(d, found, bank)
           /\ AppBanks(d) # 0 => Clear(d, found, Top)
           /\ \A k \in Bank : IsDor(d, k) => Clear(d, found, k)
<1>1. Clear(d, found, bank)
  BY DEF Clear
<1>2. ASSUME NEW k \in Bank, k \in BanksOf(SectorOf(bank)) PROVE Clear(d, found, k)
  <2>1. SectorOf(k) = SectorOf(bank)
    BY <1>2 DEF BanksOf
  <2> QED  BY <1>1, <2>1 DEF Clear
<1>3. ASSUME AppBanks(d) # 0 PROVE Clear(d, found, Top)
  <2>1. Top \in Bank
    BY Sizes
  <2>2. CASE Top \in BanksOf(SectorOf(bank))
    BY <1>2, <2>1, <2>2
  <2>3. CASE Top \notin BanksOf(SectorOf(bank))
    <3>1. d[Top] = c[Top]
      BY <2>1, <2>3
    <3>2. Clear(c, found, Top)
      BY <1>3, <3>1 DEF AppBanks
    <3> QED  BY <3>2, StaysClear
  <2> QED  BY <2>2, <2>3
<1>4. ASSUME NEW k \in Bank, IsDor(d, k) PROVE Clear(d, found, k)
  <2>1. CASE k \in BanksOf(SectorOf(bank))
    BY <1>2, <2>1
  <2>2. CASE k \notin BanksOf(SectorOf(bank))
    <3>1. d[k] = c[k]
      BY <2>2
    <3>2. Clear(c, found, k)
      BY <1>4, <3>1 DEF IsDor
    <3> QED  BY <3>2, StaysClear
  <2> QED  BY <2>1, <2>2
<1> QED  BY <1>1, <1>3, <1>4

\* A step that changes nothing but the sector at hand.
LEMMA SectorClearStep ==
    ASSUME Core, Core', FilesInv, job.cmd \in {"add", "update"}, job.bank \in Bank,
           \A b \in Bank : b \notin BanksOf(SectorOf(job.bank)) => card'[b] = card[b],
           \A b \in BanksOf(SectorOf(job.bank)) : b >= job.found \/ NoFiles(card'[b]),
           job'.found = job.found, job'.pc # "pick", job'.pc = "top" => job.bank = Top,
           job'.pc \in {"install"} \union Applying => job'.bank = job.bank,
           job'.pc \in Applying => job.pc \in Applying /\ job'.image = job.image,
           Rewriting' => Rewriting /\ job'.old = job.old
    PROVE  FilesInv'
<1> DEFINE c == card
<1> DEFINE d == card'
<1> DEFINE found == job.found
<1> DEFINE bank == job.bank
<1>1. /\ c \in [Bank -> Content] /\ d \in [Bank -> Content] /\ bank \in Bank
      /\ \A b \in Bank : b \notin BanksOf(SectorOf(bank)) => d[b] = c[b]
      /\ \A b \in BanksOf(SectorOf(bank)) : b >= found \/ NoFiles(d[b])
      /\ AppBanks(c) # 0 => Clear(c, found, Top)
      /\ \A k \in Bank : IsDor(c, k) => Clear(c, found, k)
  BY DEF FilesInv, Core, TypeOK
<1>2. c = card /\ d = card' /\ found = job.found /\ bank = job.bank
  OBVIOUS
<1> HIDE DEF c, d, found, bank
<1>3. /\ Clear(d, found, bank)
      /\ AppBanks(d) # 0 => Clear(d, found, Top)
      /\ \A k \in Bank : IsDor(d, k) => Clear(d, found, k)
  BY <1>1, StillClear
<1>4. job.pc \in Applying => job.bank >= job.found \/ NoFiles(job.image)
  BY DEF FilesInv
<1>5. Rewriting => \A b \in OthersOf(job.bank) : b >= job.found \/ NoFiles(job.old[b])
  BY DEF FilesInv
<1>6. Rewriting' => job'.pc \in Applying
  BY DEF Rewriting, Applying
<1> QED  BY <1>2, <1>3, <1>4, <1>5, <1>6 DEF FilesInv

\* A step that changes nothing but the operation.
LEMMA SameClearStep ==
    ASSUME FilesInv, job.cmd \in {"add", "update"}, card' = card,
           job'.found = job.found, job'.pc \notin {"pick", "top"},
           job'.pc \in {"install"} \union Applying => Clear(card, job.found, job'.bank),
           job'.pc \in Applying => job'.bank >= job.found \/ NoFiles(job'.image),
           Rewriting' => \A b \in OthersOf(job'.bank) : b >= job.found \/ NoFiles(job'.old[b])
    PROVE  FilesInv'
  BY DEF FilesInv

\* An operation on applications begins with the card header, all applications, and the bank
\* that would be added, above the area.
LEMMA StartClear ==
    ASSUME Core, card' = card, job'.found = (IF Found(card) THEN Request(card).banks ELSE 0),
           ~Rewriting',
           job'.pc = "top" => ~Found(card),
           job'.pc = "pick" /\ Found(card) =>
              Top - AppBanks(card) \in Bank /\ Top - AppBanks(card) > Request(card).bank,
           job'.pc \in {"install"} \union Applying => job'.bank \in Bank /\ IsDor(card, job'.bank),
           job'.pc \in Applying => job'.bank >= job'.found \/ NoFiles(job'.image)
    PROVE  FilesInv'
<1> DEFINE found == IF Found(card) THEN Request(card).banks ELSE 0
<1>1. card \in [Bank -> Content] /\ GoodCard(card)
  BY CoreTyped
<1>2. /\ AppBanks(card) # 0 => Clear(card, found, Top)
      /\ \A d \in Bank : IsDor(card, d) => Clear(card, found, d)
      /\ ~Found(card) => \A d : Clear(card, found, d)
      /\ Found(card) => \A d \in Bank : d > Request(card).bank => Clear(card, found, d)
  BY <1>1, AllClear
<1>3. job'.found = found
  OBVIOUS
<1> HIDE DEF found
<1> QED  BY <1>2, <1>3 DEF FilesInv

LEMMA AddAppFiles == ASSUME Core, AddApp PROVE FilesInv'
<1> DEFINE area == Request(card)
<1>1. card' = card /\ card \in [Bank -> Content] /\ GoodCard(card)
  BY CoreTyped DEF AddApp
<1>2. CASE area.kind = "none"
  <2>1. job' = JobRecord("add", "top", "end", Top, Empty, Sectors - 1, 0, 0)
    BY <1>2, NewJobIs DEF AddApp
  <2>2. job'.pc = "top" /\ job'.found = (IF Found(card) THEN Request(card).banks ELSE 0)
    BY <2>1 DEF JobRecord
  <2>3. ~Found(card)
    BY <1>2 DEF Found
  <2> QED  BY <1>1, <2>2, <2>3, StartClear DEF Rewriting, Applying
<1>3. CASE area.kind = "found" /\ area.bank = Top - AppBanks(card)
  <2>1. job' = ReduceJob(1, "top") \/ job' = ReduceJob(1, "pick")
    BY <1>3 DEF AddApp
  <2>2. ReduceJob(1, "top").cmd = "reduce" /\ ReduceJob(1, "pick").cmd = "reduce"
    BY DEF NewJob, ReduceJob
  <2>3. job'.cmd = "reduce"
    BY <2>1, <2>2
  <2> QED  BY <2>3 DEF FilesInv
<1>4. CASE area.kind # "none" /\ ~(area.kind = "found" /\ area.bank = Top - AppBanks(card))
  <2>1. AppBanks(card) < Banks /\ job' = NewJob("add", "pick")
    BY <1>4 DEF AddApp
  <2>2. job' = JobRecord("add", "pick", "end", Top, Empty, Sectors - 1, 0, 0)
    BY <2>1, NewJobIs
  <2>3. job'.pc = "pick" /\ job'.found = (IF Found(card) THEN Request(card).banks ELSE 0)
    BY <2>2 DEF JobRecord
  <2>4. ASSUME Found(card) PROVE Top - AppBanks(card) \in Bank /\ Top - AppBanks(card) > area.bank
    <3>1. area.bank < Banks - AppBanks(card) /\ area.bank \in Bank /\ area.bank # Top - AppBanks(card)
      BY <1>1, <1>4, <2>4, RequestIs DEF Found
    <3> HIDE DEF area
    <3> QED  BY SMTT(30), <1>1, <3>1, AppBanksIs, Sizes
  <2> QED  BY <1>1, <2>3, <2>4, StartClear DEF Rewriting, Applying
<1> QED  BY <1>2, <1>3, <1>4

LEMMA UpdateAppFiles == ASSUME Core, UpdateApp PROVE FilesInv'
<1>1. PICK b \in Dors(card) :
          /\ IsDor(card, b)
          /\ job' = [NewJob("update", "preserve") EXCEPT
                        !.bank = b,
                        !.image = [body |-> Code(NextDor(card, b)),
                                   top |-> IF b = Top THEN card[Top].top ELSE Code(0)]]
  BY DEF UpdateApp
<1> DEFINE image == [body |-> Code(NextDor(card, b)), top |-> IF b = Top THEN card[Top].top ELSE Code(0)]
<1> DEFINE found == IF Found(card) THEN Request(card).banks ELSE 0
<1>2. /\ card \in [Bank -> Content] /\ GoodCard(card) /\ card' = card /\ b \in Bank
  BY CoreTyped, DorsAreBanks DEF UpdateApp
<1>3. job' = JobRecord("update", "preserve", "end", b, image, Sectors - 1, 0, 0)
  BY <1>1, NewJobIs DEF JobRecord
<1>4. image.body # Files /\ (b # Top => image.top # Files) /\ (b = Top => image.top = card[b].top)
  BY DEF Code, Files
<1>5. b >= found \/ NoFiles(card[b])
  <2>1. Clear(card, found, b)
    BY <1>1, <1>2, AllClear
  <2>2. b \in BanksOf(SectorOf(b))
    BY <1>2 DEF BanksOf
  <2> QED  BY <2>1, <2>2 DEF Clear
<1> HIDE DEF image
<1>6. job'.pc = "preserve" /\ job'.bank = b /\ job'.image = image /\ job'.found = found
  BY <1>3 DEF JobRecord
<1>7. b >= found \/ NoFiles(image)
  BY <1>4, <1>5 DEF NoFiles
<1> QED  BY <1>1, <1>2, <1>6, <1>7, StartClear DEF Rewriting, Applying

LEMMA BlowHeaderFiles ==
    ASSUME Core, BlowHeader, job.cmd = "reduce"
    PROVE  FilesInv'
<1> DEFINE h == job.bank + SectorBanks
<1>1. /\ job.pc = "header" /\ card' = [card EXCEPT ![job.bank].top = Blow(@, NewHeader)]
      /\ job' = [job EXCEPT !.cmd = "add", !.pc = job.then, !.words = 0, !.bank = Top]
  BY DEF BlowHeader
<1>2. /\ job \in Jobs /\ ReduceInv /\ job.bank \in Bank /\ card \in [Bank -> Content]
  <2>1. Running
    BY <1>1 DEF Running
  <2> QED  BY <2>1, CoreTyped, JobTyped DEF JobInv
<1>3. /\ h \in Bank /\ Ends(job.bank) /\ h = Top - AppBanks(card) /\ job.found = h + 1
      /\ job.then = IF AppBanks(card) = 0 THEN "top" ELSE "pick"
      /\ Below(card, job.bank)
      /\ \A b \in Bank : SectorOf(b) = SectorOf(h) => card[b] = Empty
  BY <1>1, <1>2 DEF ReduceInv
<1>4. job.bank \in Nat /\ h \in Nat /\ SectorBanks \in Nat /\ SectorBanks >= 2 /\ h = job.bank + SectorBanks
      /\ Top \in Nat /\ Bank = 0 .. Top
  BY <1>2, <1>3, Sizes
<1> HIDE DEF h
<1>5. Ends(h) /\ SectorOf(h) = SectorOf(job.bank) + 1 /\ SectorOf(job.bank) \in Nat
  BY <1>3, <1>4, NextEnd, InSector
<1>6. /\ card'[job.bank].body = card[job.bank].body
      /\ \A b \in Bank : b # job.bank => card'[b] = card[b]
  BY <1>1, NewHeaderIs
<1>7. job'.found = h + 1 /\ job'.pc = job.then
  BY <1>1, <1>2, <1>3 DEF Jobs
<1>8. AppBanks(card') = AppBanks(card) /\ AppBanks(card) \in Nat
  BY <1>2, BlowHeaderGood, AppBanksIs, Sizes
<1>9. Clear(card', h + 1, h)
  <2> SUFFICES ASSUME NEW b \in Bank, SectorOf(b) = SectorOf(h) PROVE NoFiles(card'[b])
    BY DEF Clear, BanksOf
  <2>1. b # job.bank
    BY <1>5
  <2> QED  BY <1>3, <1>6, <2>1, Kinds DEF NoFiles
<1>10. \A d \in Bank : h < d => Clear(card', h + 1, d)
  BY <1>3, <1>5, AboveHeader
<1>11. ASSUME NEW d \in Bank, IsDor(card', d) PROVE Clear(card', h + 1, d)
  <2>1. IsDor(card, d)
    BY <1>6, <1>11 DEF IsDor
  <2>2. card[d].body \notin Plain
    BY <2>1, Kinds DEF IsDor
  <2>3. d > job.bank /\ d \in Nat
    BY <1>4, <2>2, <1>3 DEF Below
  <2>4. CASE d <= h
    <3>1. SectorOf(d) <= SectorOf(h) /\ SectorOf(job.bank) < SectorOf(d) /\ SectorOf(d) \in Nat
      BY <1>3, <1>4, <2>3, <2>4, SectorMono, AfterEnd, InSector
    <3>2. SectorOf(d) = SectorOf(h)
      BY <1>5, <3>1
    <3> QED  BY <1>3, <2>2, <3>2, Kinds DEF Plain
  <2>5. CASE h < d
    BY <1>10, <2>5
  <2> QED  BY <1>4, <2>3, <2>4, <2>5
<1>12. AppBanks(card) # 0 => Clear(card', h + 1, Top)
  <2>1. AppBanks(card) # 0 => h < Top /\ Top \in Bank
    BY <1>3, <1>4, <1>8
  <2> QED  BY <1>10, <2>1
<1>13. job.then = "top" => h = Top
  BY <1>3, <1>4
<1>14. Top - AppBanks(card') = h
  BY <1>3, <1>8
<1>15. job'.pc \in {"top", "pick"}
  BY <1>3, <1>7
<1>16. job'.pc = "top" => h = Top
  BY <1>7, <1>13
<1> QED  BY <1>7, <1>8, <1>9, <1>11, <1>12, <1>14, <1>15, <1>16 DEF FilesInv, Applying, Rewriting

LEMMA BanksOfBank == ASSUME NEW bank \in Bank PROVE bank \in BanksOf(SectorOf(bank))
  BY DEF BanksOf

\* An erased or spoiled sector has no files.
LEMMA WipedClear ==
    ASSUME NEW c, NEW s,
           NEW d, d \in {Wipe(c, s), Scramble(c, s)}
    PROVE  /\ \A b \in Bank : b \notin BanksOf(s) => d[b] = c[b]
           /\ \A b \in BanksOf(s) : NoFiles(d[b])
<1>1. /\ \A b \in Bank : SectorOf(b) # s => Wipe(c, s)[b] = c[b] /\ Scramble(c, s)[b] = c[b]
      /\ \A b \in Bank : SectorOf(b) = s =>
            Wipe(c, s)[b] = Empty /\ Scramble(c, s)[b] = [body |-> Torn, top |-> Torn]
  BY DEF Wipe, Scramble
<1>2. NoFiles(Empty) /\ NoFiles([body |-> Torn, top |-> Torn])
  BY Kinds DEF NoFiles
<1> QED  BY <1>1, <1>2 DEF BanksOf

\* The operation that runs is one on applications, and its sector is clear.
LEMMA AppJob ==
    ASSUME Core, RunFiles, job.pc \in {"pick", "top", "install", "link", "count"} \union Applying
    PROVE  /\ job \in Jobs /\ job.cmd \in {"add", "update"} /\ job.bank \in Bank /\ FilesInv
           /\ card \in [Bank -> Content]
           /\ job.pc = "top" => job.bank = Top /\ Clear(card, job.found, Top)
           /\ job.pc \in {"install"} \union Applying =>
                 /\ Clear(card, job.found, job.bank)
                 /\ job.bank >= job.found \/ NoFiles(card[job.bank])
<1>1. Running /\ FilesInv
  BY DEF Running, RunFiles, Applying
<1>2. /\ job \in Jobs /\ job.bank \in Bank /\ job.cmd \in {"format", "reduce", "add", "update"}
      /\ FormatInv /\ ReduceInv /\ AddInv
  BY <1>1, CoreTyped, JobTyped DEF JobInv
<1>3. job.cmd \in {"add", "update"}
  BY <1>2 DEF FormatInv, ReduceInv, Applying
<1>4. job.pc \in {"install"} \union Applying => Clear(card, job.found, job.bank)
  BY <1>1, <1>3 DEF FilesInv
<1>5. job.pc = "top" => job.bank = Top /\ Clear(card, job.found, Top)
  BY <1>1, <1>2, <1>3 DEF AddInv, FilesInv
<1>6. Clear(card, job.found, job.bank) => job.bank >= job.found \/ NoFiles(card[job.bank])
  BY <1>2, BanksOfBank DEF Clear
<1> QED  BY <1>1, <1>2, <1>3, <1>4, <1>5, <1>6, CoreTyped

LEMMA PickBankFiles == ASSUME Core, RunFiles, PickBank PROVE RunFiles'
<1>1. CASE Suicide
  BY <1>1 DEF Suicide, Ended, RunFiles, Running
<1>2. CASE ~Suicide
  <2> DEFINE image == [body |-> Code(0), top |-> Code(0)]
  <2>1. /\ job' = [job EXCEPT !.pc = "install", !.then = "count", !.bank = Top - AppBanks(card), !.image = image]
        /\ card' = card /\ job.pc = "pick"
    BY <1>2 DEF PickBank
  <2>2. job \in Jobs /\ job.cmd \in {"add", "update"} /\ FilesInv
    BY <2>1, AppJob
  <2>3. Clear(card, job.found, Top - AppBanks(card))
    BY <2>1, <2>2 DEF FilesInv
  <2> HIDE DEF image
  <2>4. job'.pc = "install" /\ job'.bank = Top - AppBanks(card) /\ job'.found = job.found
    BY <2>1, <2>2 DEF Jobs
  <2> QED  BY <2>1, <2>2, <2>3, <2>4, SameClearStep DEF RunFiles, Rewriting, Applying
<1> QED  BY <1>1, <1>2

LEMMA EraseTopSectorFiles == ASSUME Core, Core', RunFiles, EraseTopSector PROVE RunFiles'
<1> DEFINE image == [body |-> Code(0), top |-> AppHeader(1)]
<1>1. /\ job.pc = "top" /\ card' = Wipe(card, Sectors - 1)
      /\ job' = [job EXCEPT !.pc = "install", !.then = "end", !.image = image]
  BY DEF EraseTopSector
<1> HIDE DEF image
<1>2. job \in Jobs /\ job.cmd \in {"add", "update"} /\ FilesInv /\ job.bank = Top /\ job.bank \in Bank
  BY <1>1, AppJob
<1>3. job'.pc = "install" /\ job'.bank = job.bank /\ job'.found = job.found
  BY <1>1, <1>2 DEF Jobs
<1>4. /\ \A b \in Bank : b \notin BanksOf(SectorOf(job.bank)) => card'[b] = card[b]
      /\ \A b \in BanksOf(SectorOf(job.bank)) : NoFiles(card'[b])
  BY <1>1, <1>2, TopEnds, WipedClear
<1> QED  BY <1>1, <1>2, <1>3, <1>4, SectorClearStep DEF RunFiles, Rewriting, Applying

LEMMA InstallFiles == ASSUME Core, Core', RunFiles, Install PROVE RunFiles'
<1>1. CASE job' = Ended("added", << >>)
  BY <1>1 DEF Ended, RunFiles, Running
<1>2. CASE job' = [job EXCEPT !.pc = "link"]
  <2>1. job.pc = "install" /\ card' = [card EXCEPT ![job.bank] = job.image]
    BY InstallIs DEF Install
  <2>2. /\ job \in Jobs /\ job.cmd \in {"add", "update"} /\ FilesInv /\ job.bank \in Bank
        /\ card \in [Bank -> Content] /\ Clear(card, job.found, job.bank)
    BY <2>1, AppJob
  <2>3. job'.pc = "link" /\ job'.found = job.found
    BY <1>2, <2>2 DEF Jobs
  <2>4. NoFiles(job.image)
    <3>1. \/ job.image = [body |-> Code(0), top |-> AppHeader(1)]
          \/ job.image = [body |-> Code(0), top |-> Code(0)]
      BY <2>1, InstallBank
    <3>2. Code(0) # Files /\ AppHeader(1) # Files
      BY DEF Code, AppHeader, Files
    <3> QED  BY <3>1, <3>2 DEF NoFiles
  <2>5. /\ \A b \in Bank : b \notin BanksOf(SectorOf(job.bank)) => card'[b] = card[b]
        /\ \A b \in BanksOf(SectorOf(job.bank)) : b >= job.found \/ NoFiles(card'[b])
    <3>1. job.bank \in BanksOf(SectorOf(job.bank)) /\ BanksOf(SectorOf(job.bank)) \subseteq Bank
      BY <2>2, BanksOfBank DEF BanksOf
    <3> QED  BY <2>1, <2>2, <2>4, <3>1 DEF Clear
  <2> QED  BY <2>2, <2>3, <2>5, SectorClearStep DEF RunFiles, Rewriting, Applying
<1> QED  BY <1>1, <1>2 DEF Install

LEMMA LinkDorFiles == ASSUME Core, RunFiles, LinkDor PROVE RunFiles'
<1> DEFINE last == LastDor(card)
<1> DEFINE image == [card[last] EXCEPT !.body = Code(job.bank)]
<1>1. /\ job.pc = "link" /\ card' = card
      /\ job' = [job EXCEPT !.pc = "preserve", !.bank = last, !.image = image]
  BY DEF LinkDor
<1>2. last \in Bank /\ IsDor(card, last)
  <2>1. \E b \in Dors(card) : IsDor(card, b) /\ NextDor(card, b) = 0
    BY DEF LinkDor, ListEnds
  <2> QED  BY <2>1, DorsAreBanks DEF LastDor
<1> HIDE DEF last
<1>3. job \in Jobs /\ job.cmd \in {"add", "update"} /\ FilesInv /\ card \in [Bank -> Content]
  BY <1>1, AppJob
<1>4. Clear(card, job.found, last)
  BY <1>2, <1>3 DEF FilesInv
<1>5. last >= job.found \/ NoFiles(card[last])
  BY <1>2, <1>4, BanksOfBank DEF Clear
<1>6. image.body # Files /\ image.top = card[last].top
  <2>1. card[last] = [body |-> card[last].body, top |-> card[last].top]
    BY <1>2, <1>3 DEF Content
  <2>2. Code(job.bank) # Files
    BY DEF Code, Files
  <2> QED  BY <2>1, <2>2
<1> HIDE DEF image
<1>7. last >= job.found \/ NoFiles(image)
  BY <1>5, <1>6 DEF NoFiles
<1>8. job'.pc = "preserve" /\ job'.bank = last /\ job'.image = image /\ job'.found = job.found
  BY <1>1, <1>3 DEF Jobs
<1> QED  BY <1>1, <1>3, <1>4, <1>7, <1>8, SameClearStep DEF RunFiles, Rewriting, Applying

LEMMA CountBankFiles == ASSUME Core, RunFiles, CountBank PROVE RunFiles'
<1> DEFINE image == [card[Top] EXCEPT !.top = AppHeader(AppBanks(card) + 1)]
<1>1. /\ job.pc = "count" /\ card' = card
      /\ job' = [job EXCEPT !.pc = "preserve", !.then = "end", !.bank = Top, !.image = image]
  BY DEF CountBank
<1>2. job \in Jobs /\ job.cmd \in {"add", "update"} /\ FilesInv /\ card \in [Bank -> Content] /\ Top \in Bank
  BY <1>1, AppJob, Sizes
<1>3. AppBanks(card) # 0
  <2>1. Running
    BY <1>1 DEF Running
  <2>2. AddInv
    BY <2>1, CoreTyped DEF JobInv
  <2>3. AppBanks(card) \in 1 .. Banks - 1
    BY <1>1, <1>2, <2>2 DEF AddInv
  <2> QED  BY <2>3, Sizes
<1>4. Clear(card, job.found, Top)
  BY <1>2, <1>3 DEF FilesInv
<1>5. Top >= job.found \/ NoFiles(card[Top])
  BY <1>2, <1>4, BanksOfBank DEF Clear
<1>6. image.body = card[Top].body /\ image.top # Files
  <2>1. card[Top] = [body |-> card[Top].body, top |-> card[Top].top]
    BY <1>2 DEF Content
  <2>2. \A n : AppHeader(n) # Files
    BY DEF AppHeader, Files
  <2> QED  BY <2>1, <2>2
<1> HIDE DEF image
<1>7. Top >= job.found \/ NoFiles(image)
  BY <1>5, <1>6 DEF NoFiles
<1>8. job'.pc = "preserve" /\ job'.bank = Top /\ job'.image = image /\ job'.found = job.found
  BY <1>1, <1>2 DEF Jobs
<1> QED  BY <1>1, <1>2, <1>4, <1>7, <1>8, SameClearStep DEF RunFiles, Rewriting, Applying

LEMMA PreserveSectorBanksFiles == ASSUME Core, RunFiles, PreserveSectorBanks PROVE RunFiles'
<1> DEFINE old == [b \in OthersOf(job.bank) |-> card[b]]
<1>1. /\ job.pc = "preserve" /\ card' = card
      /\ job' = [job EXCEPT !.pc = "sector", !.tries = Retries, !.rest = DOMAIN pres', !.old = old]
  BY DEF PreserveSectorBanks
<1>2. job \in Jobs /\ job.cmd \in {"add", "update"} /\ FilesInv /\ Clear(card, job.found, job.bank)
  BY <1>1, AppJob DEF Applying
<1>3. job.bank >= job.found \/ NoFiles(job.image)
  BY <1>1, <1>2 DEF FilesInv, Applying
<1>4. \A b \in OthersOf(job.bank) : b >= job.found \/ NoFiles(old[b])
  BY <1>2 DEF Clear, OthersOf
<1> HIDE DEF old
<1>5. /\ job'.pc = "sector" /\ job'.bank = job.bank /\ job'.image = job.image /\ job'.found = job.found
      /\ job'.old = old
  BY <1>1, <1>2 DEF Jobs
<1> QED  BY <1>1, <1>2, <1>3, <1>4, <1>5, SameClearStep DEF RunFiles, Rewriting, Applying

LEMMA EraseSectorFiles ==
    ASSUME Core, Core', RunFiles, EraseSector \/ EraseSectorError
    PROVE  RunFiles'
<1>1. CASE Suicide
  BY <1>1 DEF Suicide, Ended, RunFiles, Running
<1>2. CASE ~Suicide
  <2>1. /\ job.pc \in {"sector", "top"}
        /\ card' \in {card, Wipe(card, SectorOf(job.bank)), Scramble(card, SectorOf(job.bank))}
        /\ \/ job.pc = "sector" /\ job' = [job EXCEPT !.pc = "blow"]
           \/ job' = [job EXCEPT !.tries = @ - 1]
    BY <1>2 DEF EraseSector, EraseSectorError
  <2>2. /\ job \in Jobs /\ job.cmd \in {"add", "update"} /\ FilesInv /\ job.bank \in Bank
        /\ Clear(card, job.found, job.bank)
        /\ job.pc = "top" => job.bank = Top
    BY <2>1, AppJob DEF Applying
  <2>3. /\ job'.pc = job.pc \/ (job.pc = "sector" /\ job'.pc = "blow")
        /\ job'.bank = job.bank /\ job'.image = job.image /\ job'.found = job.found /\ job'.old = job.old
    BY <2>1, <2>2 DEF Jobs
  <2>4. /\ \A b \in Bank : b \notin BanksOf(SectorOf(job.bank)) => card'[b] = card[b]
        /\ \A b \in BanksOf(SectorOf(job.bank)) : b >= job.found \/ NoFiles(card'[b])
    <3>1. CASE card' = card
      BY <2>2, <3>1 DEF Clear
    <3>2. CASE card' \in {Wipe(card, SectorOf(job.bank)), Scramble(card, SectorOf(job.bank))}
      BY <3>2, WipedClear
    <3> QED  BY <2>1, <3>1, <3>2
  <2> QED  BY <2>1, <2>2, <2>3, <2>4, SectorClearStep DEF RunFiles, Rewriting, Applying
<1> QED  BY <1>1, <1>2

LEMMA WriteBackFiles ==
    ASSUME Core, Core', RunFiles, BlowBuffer \/ RestoreBank
    PROVE  RunFiles'
<1>1. job.pc \in {"blow", "restore"}
  BY DEF BlowBuffer, RestoreBank
<1>2. /\ job \in Jobs /\ job.cmd \in {"add", "update"} /\ FilesInv /\ job.bank \in Bank
      /\ Clear(card, job.found, job.bank) /\ card \in [Bank -> Content]
  BY <1>1, AppJob DEF Applying
<1>3. /\ job.bank >= job.found \/ NoFiles(job.image)
      /\ \A b \in OthersOf(job.bank) : b >= job.found \/ NoFiles(job.old[b])
  BY <1>1, <1>2 DEF FilesInv, Applying, Rewriting
<1>4. \E b \in BanksOf(SectorOf(job.bank)) : \E x :
         card' = [card EXCEPT ![b] = x] /\ (b >= job.found \/ NoFiles(x))
  <2>1. CASE BlowBuffer
    <3>1. card' = [card EXCEPT ![job.bank] = job.image]
      BY <2>1, BlowBufferIs
    <3> QED  BY <1>2, <1>3, <3>1, BanksOfBank
  <2>2. CASE RestoreBank
    <3> DEFINE b == NextToRestore
    <3>1. b \in OthersOf(job.bank) /\ card' = [card EXCEPT ![b] = job.old[b]]
      BY <2>2, RestoreBankIs
    <3> HIDE DEF b
    <3>2. b \in BanksOf(SectorOf(job.bank))
      BY <3>1 DEF OthersOf
    <3> QED  BY <1>3, <3>1, <3>2
  <2> QED  BY <2>1, <2>2
<1>5. /\ \A b \in Bank : b \notin BanksOf(SectorOf(job.bank)) => card'[b] = card[b]
      /\ \A b \in BanksOf(SectorOf(job.bank)) : b >= job.found \/ NoFiles(card'[b])
  <2>1. BanksOf(SectorOf(job.bank)) \subseteq Bank
    BY DEF BanksOf
  <2> QED  BY <1>2, <1>4, <2>1 DEF Clear
<1>6. \/ SectorDone \/ job' = [job EXCEPT !.pc = "restore"]
      \/ job' = [job EXCEPT !.rest = @ \ {NextToRestore}]
  BY DEF BlowBuffer, RestoreBank
<1>7. CASE job' = Ended(job.cmd, job.old)
  BY <1>7 DEF Ended, RunFiles, Running
<1>8. CASE job' # Ended(job.cmd, job.old)
  <2>1. \/ job' = [job EXCEPT !.pc = "count", !.rest = {}]
        \/ job' = [job EXCEPT !.pc = "restore"]
        \/ job' = [job EXCEPT !.rest = @ \ {NextToRestore}]
    BY <1>6, <1>8 DEF SectorDone
  <2>2. /\ job'.pc \in {"count", "restore"} \/ job'.pc = job.pc
        /\ job'.bank = job.bank /\ job'.image = job.image /\ job'.found = job.found /\ job'.old = job.old
    BY <1>2, <2>1 DEF Jobs
  <2> QED  BY <1>1, <1>2, <1>5, <2>2, SectorClearStep DEF RunFiles, Rewriting, Applying
<1> QED  BY <1>7, <1>8

LEMMA EndedFiles == ASSUME job' = Stray \/ \E result, old : job' = Ended(result, old) PROVE RunFiles'
  BY DEF Stray, Ended, RunFiles, Running

LEMMA FilesStep == ASSUME Core, Core', RunFiles, [Next]_vars PROVE RunFiles'
<1>1. CASE \/ SaveFile \/ FormatRefused \/ EraseError \/ BlowHeaderError \/ SaveNullFile
           \/ BlowHeaderAstray \/ RamError \/ BlowError \/ Reset
  <2>1. job' = Stray \/ \E result, old : job' = Ended(result, old)
    BY <1>1 DEF SaveFile, FormatRefused, EraseError, BlowHeaderError, SaveNullFile, BlowHeaderAstray, RamError,
                BlowError, Reset, Return, Suicide
  <2> QED  BY <2>1, EndedFiles
<1>2. CASE Format
  <2>1. job'.cmd = "format"
    BY <1>2 DEF Format, NewJob
  <2> QED  BY <2>1 DEF RunFiles, FilesInv
<1>3. CASE FormatSector \/ ReduceSector
  <2>1. job.cmd \in {"format", "reduce"} /\ job \in Jobs
    BY <1>3, CoreTyped, JobTyped DEF FormatSector, ReduceSector, Running
  <2>2. job'.cmd = job.cmd
    BY <1>3, <2>1 DEF FormatSector, ReduceSector, Jobs
  <2> QED  BY <2>1, <2>2 DEF RunFiles, FilesInv
<1>4. CASE BlowHeader
  <2>1. job.cmd \in {"format", "reduce"} /\ job \in Jobs
    BY <1>4, CoreTyped, JobTyped, NoHeaderYet DEF BlowHeader, Running
  <2>2. CASE job.cmd = "reduce"
    BY <1>4, <2>2, BlowHeaderFiles DEF RunFiles
  <2>3. CASE job.cmd = "format" /\ Intel
    <3>1. job' = [job EXCEPT !.pc = "null"]
      BY <1>4, <2>3 DEF BlowHeader
    <3>2. job'.cmd = "format"
      BY <2>1, <2>3, <3>1 DEF Jobs
    <3> QED  BY <3>2 DEF RunFiles, FilesInv
  <2>4. CASE job.cmd = "format" /\ ~Intel
    <3>1. Return(3, "formatted")
      BY <1>4, <2>4 DEF BlowHeader
    <3> QED  BY <3>1, EndedFiles DEF Return
  <2> QED  BY <2>1, <2>2, <2>3, <2>4
<1>5. CASE AddApp
  BY <1>5, AddAppFiles DEF RunFiles
<1>6. CASE UpdateApp
  BY <1>6, UpdateAppFiles DEF RunFiles
<1>7. CASE PickBank
  BY <1>7, PickBankFiles
<1>8. CASE EraseTopSector
  BY <1>8, EraseTopSectorFiles
<1>9. CASE Install
  BY <1>9, InstallFiles
<1>10. CASE LinkDor
  BY <1>10, LinkDorFiles
<1>11. CASE CountBank
  BY <1>11, CountBankFiles
<1>12. CASE PreserveSectorBanks
  BY <1>12, PreserveSectorBanksFiles
<1>13. CASE EraseSector \/ EraseSectorError
  BY <1>13, EraseSectorFiles
<1>14. CASE BlowBuffer \/ RestoreBank
  BY <1>14, WriteBackFiles
<1>15. CASE UNCHANGED vars
  BY <1>15 DEF vars, RunFiles, Running, FilesInv, Rewriting
<1> QED  BY <1>1, <1>2, <1>3, <1>4, <1>5, <1>6, <1>7, <1>8, <1>9, <1>10, <1>11, <1>12, <1>13, <1>14,
            <1>15 DEF Next, Step, Errors

\* The sector that is erased, and what it may have of files.
LEMMA EraseClear ==
    ASSUME Core, RunFiles, job.pc \in {"erase", "sector", "top"}, job.cmd # "format",
           NEW s, s = (IF job.pc = "erase" THEN job.sector ELSE SectorOf(job.bank)),
           NEW b \in BanksOf(s)
    PROVE  b >= job.found \/ NoFiles(card[b])
<1>1. CASE job.pc = "erase"
  <2> DEFINE h == job.bank + SectorBanks
  <2>1. job.cmd = "reduce" /\ ReduceInv /\ job.bank \in Bank
    <3>1. Running
      BY <1>1 DEF Running
    <3> QED  BY <1>1, <3>1, EraseBelow, CoreTyped, JobTyped DEF JobInv
  <2>2. /\ Ends(job.bank) /\ h \in Bank /\ job.sector = SectorOf(h)
        /\ \A k \in Bank : job.bank < k /\ k <= h => NoFiles(card[k])
    BY <1>1, <2>1 DEF ReduceInv
  <2>3. /\ b \in Bank /\ b \in Nat /\ job.bank \in Nat /\ h \in Nat /\ SectorOf(b) = SectorOf(h)
        /\ h = job.bank + SectorBanks
    BY <1>1, <2>1, <2>2, Sizes DEF BanksOf
  <2> HIDE DEF h
  <2>4. Ends(h) /\ SectorOf(h) = SectorOf(job.bank) + 1 /\ SectorOf(job.bank) \in Nat
    BY <2>2, <2>3, NextEnd, InSector
  <2>5. ~(b <= job.bank)
    <3>1. b <= job.bank => SectorOf(b) <= SectorOf(job.bank)
      BY <2>3, SectorMono
    <3> QED  BY <2>3, <2>4, <3>1
  <2>6. ~(h < b)
    <3>1. h < b => SectorOf(h) < SectorOf(b)
      BY <2>3, <2>4, AfterEnd
    <3> QED  BY <2>3, <2>4, <3>1
  <2> QED  BY <2>2, <2>3, <2>5, <2>6
<1>2. CASE job.pc \in {"sector", "top"}
  <2>1. Clear(card, job.found, job.bank)
    BY <1>2, AppJob DEF Applying
  <2> QED  BY <1>2, <2>1 DEF Clear
<1> QED  BY <1>1, <1>2

LEMMA EraseChanges ==
    ASSUME Next, job.pc \in {"erase", "sector", "top"},
           NEW s, s = (IF job.pc = "erase" THEN job.sector ELSE SectorOf(job.bank)),
           Core
    PROVE  card' \in {card, Wipe(card, s), Scramble(card, s)}
<1>1. job.pc = "top" => SectorOf(job.bank) = Sectors - 1
  <2>1. ASSUME job.pc = "top" PROVE SectorOf(job.bank) = Sectors - 1
    <3>1. Running /\ FormatInv /\ ReduceInv /\ AddInv
      BY <2>1, CoreTyped DEF Running, JobInv
    <3>2. job.cmd \in {"add", "update"}
      BY <2>1, <3>1, CoreTyped, JobTyped DEF FormatInv, ReduceInv
    <3>3. job.bank = Top
      BY <2>1, <3>1, <3>2 DEF AddInv
    <3> QED  BY <3>3, TopEnds
  <2> QED  BY <2>1
<1> QED
  BY <1>1 DEF Next, Step, Errors, SaveFile, Format, AddApp, UpdateApp, FormatRefused, FormatSector,
     ReduceSector, BlowHeader, BlowHeaderAstray, SaveNullFile, PickBank, EraseTopSector, Install, LinkDor,
     CountBank, PreserveSectorBanks, EraseSector, BlowBuffer, RestoreBank, EraseError, BlowHeaderError,
     RamError, EraseSectorError, BlowError, Reset, Idle

LEMMA FilesKeptStep ==
    ASSUME Core, RunFiles, Next, NEW u \in 0 .. 2 * Banks - 1,
           Unit(card, u) = Files, Unit(card', u) # Files
    PROVE  ~Idle /\ (job.cmd = "format" \/ u >= 2 * job.found)
<1>1. job.pc \in {"erase", "sector", "top"}
  <2>1. Blank # Files
    BY Kinds
  <2> QED  BY <2>1, StepErased, ErasedUnits
<1> DEFINE s == IF job.pc = "erase" THEN job.sector ELSE SectorOf(job.bank)
<1>2. card' \in {card, Wipe(card, s), Scramble(card, s)}
  BY <1>1, EraseChanges
<1> HIDE DEF s
<1>3. ASSUME job.cmd # "format" PROVE u >= 2 * job.found
  <2>1. PICK b \in Bank : \/ u = 2 * b /\ \A c : Unit(c, u) = c[b].body
                          \/ u = 2 * b + 1 /\ \A c : Unit(c, u) = c[b].top
    BY UnitOfBank
  <2>2. card'[b] # card[b] /\ ~NoFiles(card[b])
    BY <2>1 DEF NoFiles
  <2>3. b \in BanksOf(s)
    <3>1. card' # card
      BY <2>2
    <3>2. b \notin BanksOf(s) => card'[b] = card[b]
      BY <1>2, <3>1, WipedClear
    <3> QED  BY <2>2, <3>2
  <2>4. b >= job.found
    BY <1>1, <1>3, <2>2, <2>3, EraseClear DEF s
  <2>5. job.found \in Nat /\ b \in Nat
    <3>1. job.found \in 0 .. Banks
      BY <1>1, CoreTyped, JobTyped DEF Running
    <3> QED  BY <3>1, Sizes
  <2> QED  BY <2>1, <2>4, <2>5
<1> QED  BY <1>1, <1>3 DEF Idle

\* Whatever fails, files only go when the user formats: adding, updating and reducing leave
\* the files of the area alone that they came upon.
THEOREM FilesAreKept == Spec => FilesKept
<1> DEFINE Kept ==
      \A u \in 0 .. 2 * Banks - 1 :
          Unit(card, u) = Files /\ Unit(card', u) # Files =>
              ~Idle /\ (job.cmd = "format" \/ u >= 2 * job.found)
<1>1. Init => RunFiles
  BY DEF Init, Ended, RunFiles, Running
<1>2. Core /\ Core' /\ RunFiles /\ [Next]_vars => RunFiles'
  BY FilesStep
<1>3. Core /\ RunFiles /\ [Next]_vars => [Kept]_vars
  BY FilesKeptStep
<1> QED  BY <1>1, <1>2, <1>3, CoreInvariant, PTL DEF Spec, FilesKept

\* Cards, files in RAM and operations are what they are said to be.
THEOREM CardTypeCorrect == Spec => []TypeOK
<1>1. Core => TypeOK
  BY DEF Core
<1> QED  BY <1>1, CoreInvariant, PTL

----------------------------------------------------------------------------
(* Header, area and list of applications *)

\* The lowest bank that the card header counts; Banks if there is none.
Lowest(c) == Banks - AppBanks(c)

\* The bank where the header of an area is when applications go down to low.
Border(low) == IF low = Banks THEN Top ELSE SectorBanks * SectorOf(low) - 1

\* Applications from low to the top; each is linked to the one below, from tail on to none.
Linked(c, low, tail) ==
    \A b \in Bank : b >= low =>
        c[b].body = Code(IF b > tail THEN b - 1 ELSE 0) /\ c[b].top # Files

\* Above the area, or when there is none, the other banks are erased.
Vacant(c, low) ==
    \A b \in Bank : b < low /\ (\A h \in Bank : HasHeader(c, h) => h < b) => c[b] = Empty

\* An area, if there is one, ends where it must when applications go down to next.
Placed(c, next) == \A h \in Bank : HasHeader(c, h) => h = Border(next)

\* Nothing of the other banks is damaged.
Intact(c, low) == \A b \in Bank : b < low => c[b].body # Torn /\ c[b].top # Torn

\* The parts of a card with applications from low on, all but those below tail in the list,
\* and an area that leaves room down to next.
Laid(c, low, tail, next) ==
    Linked(c, low, tail) /\ Vacant(c, low) /\ Placed(c, next) /\ Intact(c, low)

\* A card between operations.
InOrder(c) == Laid(c, Lowest(c), Lowest(c), Lowest(c))

\* What becomes of that while an operation runs: of the card that is reduced or formatted the
\* applications are left; the new bank is erased, blown, linked and counted, and the sector that
\* is rewritten will be in order when it is complete.
LaidJob ==
    LET low == Lowest(card)
        final == Lowest(Final) - (IF job.then = "count" THEN 1 ELSE 0)
    IN
    /\ job.pc = "refuse" => InOrder(card)
    /\ job.cmd = "format" /\ job.pc # "refuse" /\ job.bank # Top =>
           /\ Linked(card, low, low)
           /\ \A b \in Bank : job.bank < b /\ b < low => card[b] = Empty
    /\ job.cmd = "reduce" => Linked(card, low, low) /\ Intact(card, low)
    /\ job.pc = "pick" => Laid(card, low, low, low - 1) /\ card[low - 1] = Empty
    /\ job.pc = "top" => Laid(Wipe(card, Sectors - 1), Banks, Banks, Top)
    /\ job.pc = "install" => Laid(card, low, low, low - 1)
    /\ job.pc = "link" => Laid(card, low - 1, low, low - 1)
    /\ job.pc = "count" => Laid(card, low - 1, low - 1, low - 1)
    /\ job.pc \in Applying => Laid(Final, final, final, final)

\* After a failure nothing is said of the card.
LaidInv == hurt = 0 => (Idle => InOrder(card)) /\ (Running => LaidJob)

LEMMA LowestIs ==
    ASSUME NEW c \in [Bank -> Content]
    PROVE  /\ Lowest(c) \in Nat /\ Lowest(c) \in 0 .. Banks
           /\ Lowest(c) = Banks - AppBanks(c) /\ AppBanks(c) = Banks - Lowest(c)
           /\ AppBanks(c) = 0 <=> Lowest(c) = Banks
           /\ Lowest(c) = Banks \/ Lowest(c) \in Bank
<1>1. AppBanks(c) \in 0 .. Banks /\ Banks \in Nat /\ Banks = Top + 1 /\ Bank = 0 .. Top /\ Top \in Nat
  BY AppBanksIs, Sizes
<1> QED  BY <1>1 DEF Lowest

\* The border is the last bank of a sector, below the applications.
LEMMA BorderIs ==
    ASSUME NEW low \in 0 .. Banks
    PROVE  /\ Border(low) \in Int /\ Border(low) < low
           /\ Border(low) \in Nat => Border(low) \in Bank /\ Ends(Border(low))
           /\ \A h \in Bank : Ends(h) /\ h < low => h <= Border(low)
<1>1. Banks \in Nat /\ Banks = Top + 1 /\ Bank = 0 .. Top /\ Top \in Nat /\ Ends(Top)
  BY Sizes, TopEnds
<1>2. CASE low = Banks
  BY <1>1, <1>2 DEF Border
<1>3. CASE low # Banks
  <2>1. /\ low \in Nat /\ SectorOf(low) \in Nat /\ SectorBanks * SectorOf(low) \in Nat
        /\ SectorBanks * SectorOf(low) <= low /\ SectorBanks \in Nat /\ SectorBanks >= 2
    <3>1. low \in Nat
      BY <1>1
    <3> QED  BY <3>1, InSector, Sizes
  <2>2. Border(low) = SectorBanks * SectorOf(low) - 1
    BY <1>3 DEF Border
  <2>3. Border(low) \in Int /\ Border(low) < low
    BY <2>1, <2>2
  <2>4. ASSUME Border(low) \in Nat PROVE Border(low) \in Bank /\ Ends(Border(low))
    <3> DEFINE s == SectorOf(low) - 1
    <3>1. SectorOf(low) # 0
      BY <2>1, <2>2, <2>4
    <3>2. s \in Nat /\ SectorOf(low) = s + 1
      BY <2>1, <3>1
    <3> HIDE DEF s
    <3>3. SectorBanks * (s + 1) = SectorBanks * s + SectorBanks
      BY <2>1, <3>2
    <3>4. Border(low) = SectorBanks * s + SectorBanks - 1
      <4>1. SectorBanks * SectorOf(low) = SectorBanks * s + SectorBanks
        BY <3>2, <3>3
      <4>2. SectorBanks * s \in Nat
        BY <2>1, <3>2
      <4> QED  BY <2>1, <2>2, <4>1, <4>2
    <3>5. Ends(Border(low))
      BY <3>2, <3>4, EndOfSector
    <3>6. Border(low) \in Bank
      BY <1>1, <1>3, <2>3, <2>4
    <3> QED  BY <3>5, <3>6
  <2>5. ASSUME NEW h \in Bank, Ends(h), h < low PROVE h <= Border(low)
    <3>1. h \in Nat /\ SectorOf(h) \in Nat /\ SectorOf(h) < SectorOf(low)
      BY <1>1, <2>1, <2>5, AfterEnd, InSector
    <3>2. SectorBanks * SectorOf(h) + SectorBanks <= SectorBanks * SectorOf(low)
      BY <2>1, <3>1, MulMono
    <3>3. h = SectorBanks * SectorOf(h) + SectorBanks - 1 /\ SectorBanks * SectorOf(h) \in Nat
      BY <2>5, <3>1, InSector DEF Ends
    <3> QED  BY <2>1, <2>2, <3>2, <3>3
  <2> QED  BY <2>3, <2>4, <2>5
<1> QED  BY <1>2, <1>3

\* Only the linked banks have a DOR.
LEMMA DorsLinked ==
    ASSUME NEW c \in [Bank -> Content], GoodCard(c), NEW low \in 0 .. Banks, NEW tail,
           Linked(c, low, tail), Vacant(c, low)
    PROVE  \A b \in Bank : IsDor(c, b) <=> b >= low
<1>1. Bank = 0 .. Top /\ Top \in Nat /\ Banks \in Nat
  BY Sizes
<1>2. ASSUME NEW b \in Bank, b >= low PROVE IsDor(c, b)
  <2>1. c[b].body = Code(IF b > tail THEN b - 1 ELSE 0)
    BY <1>2 DEF Linked
  <2> QED  BY <2>1 DEF IsDor, Code
<1>3. ASSUME NEW b \in Bank, b < low PROVE ~IsDor(c, b)
  <2>1. CASE \A h \in Bank : HasHeader(c, h) => h < b
    <3>1. c[b] = Empty
      BY <1>3, <2>1 DEF Vacant
    <3> QED  BY <3>1 DEF IsDor, Empty, Blank
  <2>2. CASE \E h \in Bank : HasHeader(c, h) /\ ~(h < b)
    <3>1. PICK h \in Bank : HasHeader(c, h) /\ ~(h < b)
      BY <2>2
    <3>2. Below(c, h) /\ b <= h
      BY <1>1, <3>1 DEF GoodCard
    <3>3. c[b].body \in Plain
      BY <3>2 DEF Below
    <3> QED  BY <3>3, Kinds DEF IsDor
  <2> QED  BY <2>1, <2>2
<1> QED  BY <1>1, <1>2, <1>3

\* The walk along the list, as Dors has it.
IsDorWalk(dor, c) ==
    dor = [n \in 0 .. Banks |->
              IF n = 0 THEN IF AppBanks(c) = 0 THEN 0 ELSE Top
              ELSE IF dor[n - 1] = 0 \/ ~IsDor(c, dor[n - 1]) THEN dor[n - 1]
              ELSE NextDor(c, dor[n - 1])]

LEMMA DorWalkIs ==
    ASSUME NEW c \in [Bank -> Content], NEW low \in Nat, NEW tail \in 0 .. Top, low <= tail,
           Linked(c, low, tail), AppBanks(c) # 0, NEW dor, IsDorWalk(dor, c)
    PROVE  \A n \in 0 .. Banks : dor[n] = IF Top - n >= tail THEN Top - n ELSE 0
<1>1. Banks \in Nat /\ Banks = Top + 1 /\ Bank = 0 .. Top /\ Top \in Nat
  BY Sizes
<1> DEFINE Bad == {n \in Nat : n <= Banks /\ dor[n] # IF Top - n >= tail THEN Top - n ELSE 0}
<1>2. Bad = {}
  <2> SUFFICES ASSUME Bad # {} PROVE FALSE
    OBVIOUS
  <2>1. PICK n \in Bad : \A k \in Bad : n <= k
    BY LeastElement
  <2>2. n \in Nat /\ n <= Banks /\ dor[n] # IF Top - n >= tail THEN Top - n ELSE 0
    OBVIOUS
  <2>3. dor[n] = IF n = 0 THEN IF AppBanks(c) = 0 THEN 0 ELSE Top
                 ELSE IF dor[n - 1] = 0 \/ ~IsDor(c, dor[n - 1]) THEN dor[n - 1]
                 ELSE NextDor(c, dor[n - 1])
    <3>1. n \in 0 .. Banks
      BY <1>1, <2>2
    <3> QED  BY <3>1 DEF IsDorWalk
  <2>4. n # 0
    BY <1>1, <2>2, <2>3
  <2> DEFINE m == n - 1
  <2>5. m \in Nat /\ m <= Banks /\ m \notin Bad /\ m <= Top
    BY <1>1, <2>1, <2>2, <2>4
  <2>6. dor[m] = IF Top - m >= tail THEN Top - m ELSE 0
    BY <2>5
  <2>7. dor[n] = IF dor[m] = 0 \/ ~IsDor(c, dor[m]) THEN dor[m] ELSE NextDor(c, dor[m])
    BY <2>3, <2>4
  <2>8. n = m + 1
    BY <2>2
  <2> HIDE DEF m
  <2>9. CASE dor[m] = 0
    BY <1>1, <2>2, <2>5, <2>6, <2>7, <2>8, <2>9
  <2>10. CASE dor[m] # 0
    <3>1. dor[m] = Top - m /\ Top - m >= tail /\ dor[m] \in Bank /\ dor[m] >= low
      BY <1>1, <2>5, <2>6, <2>10
    <3>2. c[dor[m]].body = Code(IF dor[m] > tail THEN dor[m] - 1 ELSE 0)
      BY <3>1 DEF Linked
    <3>3. IsDor(c, dor[m]) /\ NextDor(c, dor[m]) = IF dor[m] > tail THEN dor[m] - 1 ELSE 0
      BY <3>2 DEF IsDor, NextDor, Code
    <3>4. dor[n] = IF dor[m] > tail THEN dor[m] - 1 ELSE 0
      BY <2>7, <2>10, <3>3
    <3> QED  BY <1>1, <2>2, <2>5, <2>8, <3>1, <3>4
  <2> QED  BY <2>9, <2>10
<1> QED  BY <1>2

LEMMA DorWalkExists ==
    ASSUME NEW c \in [Bank -> Content], NEW low \in Nat, NEW tail \in 0 .. Top, low <= tail,
           Linked(c, low, tail), AppBanks(c) # 0
    PROVE  \E dor : IsDorWalk(dor, c)
<1> DEFINE dor == [n \in 0 .. Banks |-> IF Top - n >= tail THEN Top - n ELSE 0]
<1>1. Banks \in Nat /\ Banks = Top + 1 /\ Bank = 0 .. Top /\ Top \in Nat
  BY Sizes
<1>2. ASSUME NEW n \in 0 .. Banks
      PROVE  dor[n] = IF n = 0 THEN IF AppBanks(c) = 0 THEN 0 ELSE Top
                      ELSE IF dor[n - 1] = 0 \/ ~IsDor(c, dor[n - 1]) THEN dor[n - 1]
                      ELSE NextDor(c, dor[n - 1])
  <2>1. CASE n = 0
    BY <1>1, <2>1
  <2>2. CASE n # 0
    <3> DEFINE m == n - 1
    <3>1. m \in 0 .. Banks /\ m <= Top /\ n = m + 1 /\ n \in Nat
      BY <1>1, <2>2
    <3> HIDE DEF m
    <3>2. dor[m] = IF Top - m >= tail THEN Top - m ELSE 0
      BY <3>1
    <3>3. dor[n] = IF Top - n >= tail THEN Top - n ELSE 0
      OBVIOUS
    <3> HIDE DEF dor
    <3>4. CASE dor[m] = 0
      <4>1. dor[n] = 0
        BY <1>1, <3>1, <3>2, <3>3, <3>4
      <4> QED  BY <2>2, <3>4, <4>1 DEF m
    <3>5. CASE dor[m] # 0
      <4>1. dor[m] = Top - m /\ Top - m >= tail /\ dor[m] \in Bank /\ dor[m] >= low
        BY <1>1, <3>1, <3>2, <3>5
      <4>2. c[dor[m]].body = Code(IF dor[m] > tail THEN dor[m] - 1 ELSE 0)
        BY <4>1 DEF Linked
      <4>3. IsDor(c, dor[m]) /\ NextDor(c, dor[m]) = IF dor[m] > tail THEN dor[m] - 1 ELSE 0
        BY <4>2 DEF IsDor, NextDor, Code
      <4>4. dor[n] = NextDor(c, dor[m])
        BY <1>1, <3>1, <3>3, <4>1, <4>3
      <4> QED  BY <2>2, <3>5, <4>3, <4>4 DEF m
    <3> QED  BY <3>4, <3>5
  <2> QED  BY <2>1, <2>2
<1>3. IsDorWalk(dor, c)
  BY <1>2 DEF IsDorWalk
<1> QED  BY <1>3

DorWalk(c) == CHOOSE dor : IsDorWalk(dor, c)

\* The list of the DORs: from the top bank down to the last that is linked.
LEMMA DorsAre ==
    ASSUME NEW c \in [Bank -> Content], NEW low \in Nat, NEW tail \in 0 .. Top, low <= tail,
           Linked(c, low, tail), AppBanks(c) # 0
    PROVE  Dors(c) = {b \in Bank \ {0} : b >= tail}
<1>1. Banks \in Nat /\ Banks = Top + 1 /\ Bank = 0 .. Top /\ Top \in Nat
  BY Sizes
<1> DEFINE dor == DorWalk(c)
<1>2. IsDorWalk(dor, c)
  BY DorWalkExists DEF DorWalk
<1>3. Dors(c) = {b \in Bank \ {0} : \E n \in 0 .. Banks : dor[n] = b}
  BY DEF Dors, DorWalk, IsDorWalk
<1> HIDE DEF dor
<1>4. \A n \in 0 .. Banks : dor[n] = IF Top - n >= tail THEN Top - n ELSE 0
  BY <1>2, DorWalkIs
<1>5. ASSUME NEW b \in Bank \ {0}, b >= tail PROVE \E n \in 0 .. Banks : dor[n] = b
  <2>1. Top - b \in 0 .. Banks /\ Top - (Top - b) = b
    BY <1>1
  <2> QED  BY <1>4, <1>5, <2>1
<1>6. ASSUME NEW b \in Bank \ {0}, NEW n \in 0 .. Banks, dor[n] = b PROVE b >= tail
  <2>1. b = IF Top - n >= tail THEN Top - n ELSE 0
    BY <1>4, <1>6
  <2> QED  BY <1>1, <2>1
<1> QED  BY <1>3, <1>5, <1>6

LEMMA NoDors == ASSUME NEW c, AppBanks(c) = 0 PROVE Dors(c) = {}
<1>1. Banks \in Nat /\ Top \in Nat
  BY Sizes
<1> DEFINE zero == [n \in 0 .. Banks |-> 0]
           dor == DorWalk(c)
<1>2. IsDorWalk(zero, c)
  <2>1. \A n \in 0 .. Banks : n # 0 => n - 1 \in 0 .. Banks
    BY <1>1
  <2> QED  BY <2>1 DEF IsDorWalk
<1>3. IsDorWalk(dor, c)
  BY <1>2 DEF DorWalk
<1>4. Dors(c) = {b \in Bank \ {0} : \E n \in 0 .. Banks : dor[n] = b}
  BY DEF Dors, DorWalk, IsDorWalk
<1> HIDE DEF dor
<1> DEFINE Bad == {n \in Nat : n <= Banks /\ dor[n] # 0}
<1>5. Bad = {}
  <2> SUFFICES ASSUME Bad # {} PROVE FALSE
    OBVIOUS
  <2>1. PICK n \in Bad : \A k \in Bad : n <= k
    BY LeastElement
  <2>2. n \in Nat /\ n <= Banks /\ n \in 0 .. Banks /\ dor[n] # 0
    BY <1>1
  <2>3. dor[n] = IF n = 0 THEN 0
                 ELSE IF dor[n - 1] = 0 \/ ~IsDor(c, dor[n - 1]) THEN dor[n - 1]
                 ELSE NextDor(c, dor[n - 1])
    BY <1>3, <2>2 DEF IsDorWalk
  <2>4. n - 1 \in Nat /\ n - 1 <= Banks /\ n - 1 \notin Bad
    BY <1>1, <2>1, <2>2, <2>3
  <2> QED  BY <2>2, <2>3, <2>4
<1> QED  BY <1>4, <1>5

\* What can be said of the list of a card whose applications are linked.
LEMMA ListIs ==
    ASSUME NEW c \in [Bank -> Content], NEW low \in Nat, NEW tail \in Bank, low <= tail,
           Linked(c, low, tail), AppBanks(c) # 0
    PROVE  /\ Dors(c) = {b \in Bank \ {0} : b >= tail}
           /\ ListEnds(c)
           /\ \A b \in Dors(c) : c[b].body = Code(NextDor(c, b)) /\ IsDor(c, b)
           /\ tail # 0 => LastDor(c) = tail
<1>1. Banks \in Nat /\ Banks = Top + 1 /\ Bank = 0 .. Top /\ Top \in Nat /\ Top >= 2
  BY Sizes
<1>2. Dors(c) = {b \in Bank \ {0} : b >= tail}
  BY <1>1, DorsAre
<1>3. ASSUME NEW b \in Dors(c)
      PROVE  /\ b \in Bank /\ IsDor(c, b) /\ c[b].body = Code(NextDor(c, b))
             /\ NextDor(c, b) = IF b > tail THEN b - 1 ELSE 0
  <2>1. b \in Bank /\ b >= low
    BY <1>1, <1>2
  <2>2. c[b].body = Code(IF b > tail THEN b - 1 ELSE 0)
    BY <2>1 DEF Linked
  <2> QED  BY <2>1, <2>2 DEF IsDor, NextDor, Code
<1>4. ListEnds(c)
  <2>1. CASE tail = 0
    <3>1. 1 \in Dors(c) /\ 1 > tail /\ 1 - 1 = 0
      BY <1>1, <1>2, <2>1
    <3> QED  BY <1>3, <3>1 DEF ListEnds
  <2>2. CASE tail # 0
    <3>1. tail \in Dors(c) /\ ~(tail > tail)
      BY <1>1, <1>2, <2>2
    <3> QED  BY <1>3, <3>1 DEF ListEnds
  <2> QED  BY <2>1, <2>2
<1>5. ASSUME tail # 0 PROVE LastDor(c) = tail
  <2>1. tail \in Dors(c) /\ IsDor(c, tail) /\ NextDor(c, tail) = 0
    BY <1>1, <1>2, <1>3, <1>5
  <2>2. ASSUME NEW b \in Dors(c), IsDor(c, b), NextDor(c, b) = 0 PROVE b = tail
    <3>1. b \in Bank /\ b >= tail /\ (b > tail => b - 1 = 0)
      BY <1>2, <1>3, <2>2
    <3> QED  BY <1>1, <1>5, <3>1
  <2> QED  BY <2>1, <2>2 DEF LastDor
<1> QED  BY <1>2, <1>3, <1>4, <1>5

----------------------------------------------------------------------------
(* A card in order is consistent *)

LEMMA BorderBoundary ==
    ASSUME NEW c \in [Bank -> Content]
    PROVE  /\ AppBanks(c) = 0 => Border(Lowest(c)) = Top
           /\ AppBanks(c) # 0 => Border(Lowest(c)) = Boundary(c)
  BY LowestIs DEF Border, Boundary

LEMMA RequestRecord ==
    ASSUME NEW c
    PROVE  Request(c) = [kind |-> Request(c).kind, bank |-> Request(c).bank, banks |-> Request(c).banks]
  BY DEF Request

\* On a card in order the header of an area is where it is looked for.
LEMMA OrderedArea ==
    ASSUME NEW c \in [Bank -> Content], GoodCard(c), Tidy(c), InOrder(c)
    PROVE  /\ \A b \in Bank : c[b].top.is = "oz" =>
                 Request(c) = [kind |-> "found", bank |-> b, banks |-> b + 1]
           /\ \A u \in 0 .. 2 * Banks - 1 : Unit(c, u) = Files => Found(c) /\ u < Used(c)
<1> DEFINE low == Lowest(c)
<1>1. Linked(c, low, low) /\ Vacant(c, low) /\ Placed(c, low)
  BY DEF InOrder, Laid
<1>2. Banks \in Nat /\ Banks = Top + 1 /\ Bank = 0 .. Top /\ Top \in Nat /\ low \in 0 .. Banks
      /\ AppBanks(c) \in Nat
  BY Sizes, LowestIs
<1>3. ASSUME NEW h \in Bank, HasHeader(c, h)
      PROVE  /\ Request(c).kind = "found" /\ Request(c).bank = h /\ Request(c).banks = h + 1
             /\ \A k \in Bank : HasHeader(c, k) => k = h
  <2>1. h = Border(low)
    BY <1>1, <1>3 DEF Placed
  <2>2. h = Top \/ (AppBanks(c) > 0 /\ Boundary(c) = h)
    BY <1>2, <2>1, BorderBoundary
  <2> QED  BY <1>3, <2>2, FoundAt, OneHeader
<1>4. ASSUME NEW b \in Bank, c[b].top.is = "oz"
      PROVE  Request(c) = [kind |-> "found", bank |-> b, banks |-> b + 1]
  BY <1>3, <1>4, RequestRecord DEF HasHeader
<1>5. ASSUME NEW u \in 0 .. 2 * Banks - 1, Unit(c, u) = Files
      PROVE  Found(c) /\ u < Used(c)
  <2>1. PICK b \in Bank : \/ u = 2 * b /\ \A d : Unit(d, u) = d[b].body
                          \/ u = 2 * b + 1 /\ \A d : Unit(d, u) = d[b].top
    BY UnitOfBank
  <2>2. c[b].body = Files \/ c[b].top = Files
    BY <1>5, <2>1
  <2>3. b < low
    <3>1. CASE b >= low
      <4>1. c[b].body = Code(IF b > low THEN b - 1 ELSE 0) /\ c[b].top # Files
        BY <1>1, <3>1 DEF Linked
      <4>2. Files.is # "code" /\ \A n : Code(n).is = "code"
        BY DEF Files, Code
      <4> QED  BY <2>2, <4>1, <4>2
    <3> QED  BY <1>2, <3>1
  <2>4. PICK h \in Bank : HasHeader(c, h) /\ ~(h < b)
    <3>1. c[b] # Empty
      BY <2>2, Kinds
    <3> QED  BY <1>1, <2>3, <3>1 DEF Vacant
  <2>5. Request(c).kind = "found" /\ Request(c).bank = h /\ Found(c)
    BY <1>3, <2>4 DEF Found
  <2>6. u \in 0 .. 2 * h
    <3>1. b = h => u # 2 * b + 1
      BY <1>5, <2>1, <2>4, Kinds DEF HasHeader, Plain
    <3> QED  BY <1>2, <2>1, <2>4, <3>1
  <2>7. /\ Capacity(c) = 2 * h + 1 /\ Used(c) \in 0 .. Capacity(c)
        /\ Used(c) = Capacity(c) \/ Unit(c, Used(c)) # Files
    BY <2>5, UsedIs
  <2>8. ASSUME Used(c) <= u PROVE FALSE
    <3>1. Used(c) \in 0 .. 2 * h /\ Used(c) < u
      BY <1>2, <1>5, <2>6, <2>7, <2>8
    <3>2. Packed(c, h)
      BY <2>4 DEF Tidy
    <3>3. Unit(c, Used(c)) # Files
      BY <1>2, <2>7, <3>1
    <3> QED  BY <1>5, <2>6, <3>1, <3>2, <3>3 DEF Packed
  <2> QED  BY <1>2, <2>5, <2>7, <2>8
<1> QED  BY <1>4, <1>5

LEMMA OrderedList ==
    ASSUME NEW c \in [Bank -> Content], GoodCard(c), InOrder(c)
    PROVE  /\ {b \in Bank : IsDor(c, b)} = {b \in Bank : b >= Banks - AppBanks(c)}
           /\ Dors(c) = {b \in Bank : b >= Banks - AppBanks(c)} \ {0}
           /\ AppBanks(c) > 0 => ListEnds(c)
<1> DEFINE low == Lowest(c)
<1>1. Linked(c, low, low) /\ Vacant(c, low)
  BY DEF InOrder, Laid
<1>2. /\ Banks \in Nat /\ Banks = Top + 1 /\ Bank = 0 .. Top /\ Top \in Nat /\ low \in 0 .. Banks
      /\ low \in Nat /\ low = Banks - AppBanks(c) /\ AppBanks(c) \in Nat
      /\ AppBanks(c) = 0 <=> low = Banks
      /\ low = Banks \/ low \in Bank
  <2>1. Banks \in Nat /\ Banks = Top + 1 /\ Bank = 0 .. Top /\ Top \in Nat
    BY Sizes
  <2>2. AppBanks(c) \in 0 .. Banks
    BY AppBanksIs
  <2>3. /\ low \in Nat /\ low \in 0 .. Banks /\ low = Banks - AppBanks(c)
        /\ AppBanks(c) = 0 <=> low = Banks
        /\ low = Banks \/ low \in Bank
    BY LowestIs
  <2> QED  BY <2>1, <2>2, <2>3
<1> HIDE DEF low
<1>3. \A b \in Bank : IsDor(c, b) <=> b >= low
  BY <1>1, <1>2, DorsLinked
<1>4. {b \in Bank : IsDor(c, b)} = {b \in Bank : b >= Banks - AppBanks(c)}
  BY <1>2, <1>3
<1>5. CASE AppBanks(c) = 0
  <2>1. Dors(c) = {}
    BY <1>5, NoDors
  <2>2. \A b \in Bank : ~(b >= Banks - AppBanks(c))
    BY <1>2, <1>5
  <2> QED  BY <1>2, <1>4, <1>5, <2>1, <2>2
<1>6. CASE AppBanks(c) # 0
  <2>1. Dors(c) = {b \in Bank \ {0} : b >= low} /\ ListEnds(c)
    <3>1. low \in Bank /\ low <= low
      BY <1>2, <1>6
    <3> QED  BY <1>1, <1>2, <1>6, <3>1, ListIs
  <2> QED  BY <1>2, <1>4, <2>1
<1> QED  BY <1>5, <1>6

LEMMA LaidConsistent == Core /\ LaidInv => CardConsistent
<1> SUFFICES ASSUME Core, LaidInv PROVE CardConsistent
  OBVIOUS
<1>1. TypeOK /\ GoodCard(card) /\ Tidy(card) /\ card \in [Bank -> Content]
  BY CoreTyped
<1>2. ASSUME Idle, hurt = 0 PROVE InOrder(card)
  BY <1>2 DEF LaidInv
<1>3. AreaFound
  BY <1>1, <1>2, OrderedArea DEF AreaFound
<1>4. AppsListed
  BY <1>1, <1>2, OrderedList DEF AppsListed
<1> QED  BY <1>1, <1>3, <1>4 DEF CardConsistent

----------------------------------------------------------------------------
(* Saving a file, and what an operation comes upon *)

\* The applications of two cards with the same card header.
LEMMA SameLowest ==
    ASSUME NEW c, NEW d, d[Top].top = c[Top].top
    PROVE  Lowest(d) = Lowest(c) /\ AppBanks(d) = AppBanks(c)
  BY SameApps DEF Lowest

\* What has to be shown where an operation ends.
LEMMA EndedLaid ==
    ASSUME InOrder(card'), NEW result, NEW old, job' = Ended(result, old)
    PROVE  LaidInv'
<1>1. job'.pc = "idle"
  BY DEF Ended
<1> QED  BY <1>1 DEF LaidInv, Running

\* An operation that has gone astray knows nothing of the card.
LEMMA StrayLaid == ASSUME job' = Stray PROVE LaidInv'
<1>1. job'.pc = "stray"
  BY DEF Stray
<1> QED  BY <1>1 DEF LaidInv, Running, Idle

LEMMA SaveFileLaid == ASSUME Core, LaidInv, hurt = 0, SaveFile PROVE LaidInv'
<1> DEFINE low == Lowest(card)
           h == Request(card).bank
           b == Used(card) \div 2
<1>1. TypeOK /\ GoodCard(card) /\ Tidy(card) /\ card \in [Bank -> Content]
  BY CoreTyped
<1>2. Linked(card, low, low) /\ Vacant(card, low) /\ Placed(card, low) /\ Intact(card, low)
  BY DEF LaidInv, SaveFile, InOrder, Laid
<1>3. /\ h \in Bank /\ HasHeader(card, h) /\ Used(card) \in 0 .. 2 * h /\ b \in 0 .. h
      /\ Unit(card, Used(card)) # Files
      /\ card' \in [Bank -> Content]
      /\ \A k \in Bank : k # b => card'[k] = card[k]
      /\ \/ /\ Used(card) = 2 * b
            /\ card'[b].body = Blow(card[b].body, Files) /\ card'[b].top = card[b].top
         \/ /\ Used(card) = 2 * b + 1 /\ b < h
            /\ card'[b].body = card[b].body /\ card'[b].top = Blow(card[b].top, Files)
  BY SaveFileIs
<1>4. Bank = 0 .. Top /\ Top \in Nat /\ Banks \in Nat /\ low \in 0 .. Banks /\ low \in Nat /\ low = Banks - AppBanks(card)
  BY Sizes, LowestIs, <1>1
<1>5. h < low /\ Below(card, h) /\ b \in Bank /\ b \in Nat
  BY <1>1, <1>3, <1>4 DEF GoodCard
<1> HIDE DEF b, h, low
<1>6. Unit(card, 2 * b) = card[b].body /\ Unit(card, 2 * b + 1) = card[b].top
  BY <1>5, UnitIs
<1>7. /\ card[b].body \in Plain /\ card[b].body # Torn
      /\ b < h => card[b].top \in Plain /\ card[b].top # Torn
  BY <1>2, <1>3, <1>4, <1>5 DEF Below, Intact
<1>8. /\ card'[b].body \in {card[b].body, Files} /\ card'[b].top \in {card[b].top, Files}
      /\ card'[b].top # card[b].top => b < h
  BY <1>3, <1>6, <1>7 DEF Blow, Plain
<1>9. \A k \in Bank : HasHeader(card', k) <=> HasHeader(card, k)
  <2> SUFFICES ASSUME NEW k \in Bank PROVE HasHeader(card', k) <=> HasHeader(card, k)
    OBVIOUS
  <2>1. CASE k # b
    BY <1>3, <2>1 DEF HasHeader
  <2>2. CASE k = b
    BY <1>7, <1>8, <2>2, Kinds DEF HasHeader, Plain
  <2> QED  BY <2>1, <2>2
<1>10. Lowest(card') = low
  <2>1. card'[Top].top = card[Top].top
    BY <1>3, <1>4, <1>8
  <2> QED  BY <2>1, SameLowest DEF low
<1>11. Linked(card', low, low)
  BY <1>2, <1>3, <1>4, <1>5 DEF Linked
<1>12. Vacant(card', low)
  BY <1>2, <1>3, <1>4, <1>5, <1>9 DEF Vacant
<1>13. Placed(card', low)
  BY <1>2, <1>9 DEF Placed
<1>14. Intact(card', low)
  <2> SUFFICES ASSUME NEW k \in Bank, k < low PROVE card'[k].body # Torn /\ card'[k].top # Torn
    BY DEF Intact
  <2>1. card[k].body # Torn /\ card[k].top # Torn
    BY <1>2 DEF Intact
  <2> QED  BY <1>3, <1>8, <2>1, Kinds
<1>15. InOrder(card')
  BY <1>10, <1>11, <1>12, <1>13, <1>14 DEF InOrder, Laid
<1>16. job' = Ended("none", << >>)
  BY DEF SaveFile
<1> QED  BY <1>15, <1>16, EndedLaid

\* Above the bank where an area is looked for, and below the applications, there is nothing.
LEMMA GapEmpty ==
    ASSUME NEW c \in [Bank -> Content], GoodCard(c), InOrder(c)
    PROVE  /\ \A b \in Bank : Request(c).bank < b /\ b < Lowest(c) => c[b] = Empty
           /\ Request(c).kind = "none" => \A b \in Bank : c[b] = Empty
<1> DEFINE low == Lowest(c)
           area == Request(c)
<1>1. Linked(c, low, low) /\ Vacant(c, low) /\ Placed(c, low)
  BY DEF InOrder, Laid
<1>2. Bank = 0 .. Top /\ Top \in Nat /\ Banks \in Nat /\ Banks = Top + 1 /\ low \in 0 .. Banks
      /\ (AppBanks(c) = 0 => low = Banks)
  BY Sizes, LowestIs
<1>3. /\ area.bank \in Bank /\ \A h \in Bank : HasHeader(c, h) => h <= area.bank
      /\ area.kind \in {"none", "room"} => area.bank = Top
      /\ area.kind = "none" => AppBanks(c) = 0
      /\ area.kind # "found" => \A h \in Bank : HasHeader(c, h) => h < area.bank
  BY RequestIs
<1>4. ASSUME NEW b \in Bank, area.bank < b, b < low PROVE c[b] = Empty
  <2>1. \A h \in Bank : HasHeader(c, h) => h < b
    BY <1>2, <1>3, <1>4
  <2> QED  BY <1>1, <1>4, <2>1 DEF Vacant
<1>5. ASSUME area.kind = "none", NEW b \in Bank PROVE c[b] = Empty
  <2>1. low = Banks /\ b < low
    BY <1>2, <1>3, <1>5
  <2>2. \A h \in Bank : ~HasHeader(c, h)
    <3>1. \A h \in Bank : HasHeader(c, h) => h = Top
      BY <1>1, <2>1 DEF Placed, Border
    <3> QED  BY <1>3, <1>5, <3>1, <1>2
  <2> QED  BY <1>1, <2>1, <2>2 DEF Vacant
<1> QED  BY <1>4, <1>5

----------------------------------------------------------------------------
(* Formatting below the applications *)

\* While the card is formatted below the applications, these are in order.
AboveArea(c, bank) ==
    /\ Linked(c, Lowest(c), Lowest(c))
    /\ \A b \in Bank : bank < b /\ b < Lowest(c) => c[b] = Empty

LEMMA FormattingLaid ==
    ASSUME job'.cmd = "format", job'.pc \in {"erase", "header", "null"},
           job'.bank # Top => AboveArea(card', job'.bank)
    PROVE  LaidInv'
<1>1. LaidJob'
  BY DEF LaidJob, AboveArea, Applying
<1>2. ~Idle'
  BY DEF Idle
<1> QED  BY <1>1, <1>2 DEF LaidInv

LEMMA FormatLaid == ASSUME Core, LaidInv, hurt = 0, Format PROVE LaidInv'
<1> DEFINE area == Request(card)
<1>1. card' = card /\ InOrder(card) /\ card \in [Bank -> Content] /\ GoodCard(card)
  BY CoreTyped DEF Format, LaidInv
<1>2. CASE job' = [NewJob("format", "refuse") EXCEPT !.words = 6]
  <2>1. job' = JobRecord("format", "refuse", "end", Top, Empty, Sectors - 1, 0, 6)
    BY <1>2, NewJobIs DEF JobRecord
  <2>2. job'.cmd = "format" /\ job'.pc = "refuse"
    BY <2>1 DEF JobRecord
  <2> QED  BY <1>1, <2>2 DEF LaidInv, LaidJob, Idle, Applying
<1>3. CASE job' = [NewJob("format", "erase") EXCEPT
                           !.bank = area.bank, !.sector = SectorOf(area.bank),
                           !.left = area.banks \div SectorBanks, !.words = 3,
                           !.image.top = IF area.kind = "found" THEN card[area.bank].top ELSE Blank]
  <2> DEFINE image == [Empty EXCEPT !.top = IF area.kind = "found" THEN card[area.bank].top ELSE Blank]
             left == area.banks \div SectorBanks
  <2>1. job' = JobRecord("format", "erase", "end", area.bank, image, SectorOf(area.bank), left, 3)
    BY ZenonT(30), <1>3 DEF NewJob, JobRecord, Empty
  <2> HIDE DEF image, left
  <2>2. job'.cmd = "format" /\ job'.pc = "erase" /\ job'.bank = area.bank
    BY <2>1 DEF JobRecord
  <2>3. AboveArea(card', area.bank)
    BY <1>1, GapEmpty DEF AboveArea, InOrder, Laid
  <2> QED  BY <2>2, <2>3, FormattingLaid
<1> QED  BY <1>2, <1>3 DEF Format

LEMMA FormatRefusedLaid == ASSUME Core, LaidInv, hurt = 0, FormatRefused PROVE LaidInv'
<1>1. InOrder(card')
  BY DEF FormatRefused, LaidInv, LaidJob, Running
<1> QED  BY <1>1, EndedLaid, StrayLaid DEF FormatRefused, Return

\* A job that formats below the applications knows them above it.
LEMMA FormatKnows ==
    ASSUME Core, LaidInv, hurt = 0, Running, job.cmd = "format", job.pc # "refuse"
    PROVE  /\ card \in [Bank -> Content] /\ GoodCard(card) /\ Tidy(card)
           /\ job.bank \in Bank /\ Ends(job.bank) /\ job.words = 3
           /\ job.bank = Top \/ (AppBanks(card) > 0 /\ Boundary(card) = job.bank)
           /\ job.bank # Top => /\ AboveArea(card, job.bank) /\ job.bank = Border(Lowest(card))
                                /\ job.bank < Lowest(card)
<1>1. /\ TypeOK /\ card \in [Bank -> Content] /\ GoodCard(card) /\ Tidy(card) /\ FormatInv
  BY CoreTyped DEF JobInv
<1>2. job.bank \in Bank /\ Ends(job.bank) /\ job.words = 3
      /\ (job.bank = Top \/ (AppBanks(card) > 0 /\ Boundary(card) = job.bank))
  BY <1>1, JobTyped DEF FormatInv
<1>3. ASSUME job.bank # Top
      PROVE  AboveArea(card, job.bank) /\ job.bank = Border(Lowest(card)) /\ job.bank < Lowest(card)
  <2>1. AboveArea(card, job.bank)
    BY <1>3 DEF LaidInv, LaidJob, AboveArea
  <2>2. AppBanks(card) # 0
    BY <1>1, <1>2, <1>3, AppBanksIs
  <2>3. job.bank = Border(Lowest(card))
    BY <1>1, <1>2, <1>3, <2>2, BorderBoundary
  <2>4. Lowest(card) \in 0 .. Banks
    BY <1>1, LowestIs
  <2> QED  BY <2>1, <2>3, <2>4, BorderIs
<1> QED  BY <1>1, <1>2, <1>3

\* Below the area nothing that matters to the applications changes.
LEMMA StillAbove ==
    ASSUME NEW c \in [Bank -> Content], NEW d \in [Bank -> Content], NEW bank \in Bank, bank # Top,
           AboveArea(c, bank), bank < Lowest(c), \A b \in Bank : bank < b => d[b] = c[b]
    PROVE  AboveArea(d, bank) /\ Lowest(d) = Lowest(c)
<1>1. Bank = 0 .. Top /\ Top \in Nat /\ Lowest(c) \in Nat
  BY Sizes, LowestIs
<1>2. d[Top] = c[Top]
  BY <1>1
<1>3. Lowest(d) = Lowest(c)
  BY <1>2, SameLowest
<1> QED  BY <1>1, <1>3 DEF AboveArea, Linked

LEMMA FormatSectorLaid == ASSUME Core, LaidInv, hurt = 0, FormatSector PROVE LaidInv'
<1>1. Running /\ job.cmd = "format" /\ job.pc = "erase"
  BY DEF FormatSector, Running
<1>2. /\ card \in [Bank -> Content] /\ job.bank \in Bank /\ Ends(job.bank)
      /\ job.bank # Top => AboveArea(card, job.bank) /\ job.bank < Lowest(card)
  BY <1>1, FormatKnows
<1>3. job'.cmd = "format" /\ job'.pc \in {"erase", "header"} /\ job'.bank = job.bank
  <2>1. job \in Jobs
    BY <1>1, JobTyped DEF Core
  <2> QED  BY <1>1, <2>1 DEF FormatSector, Jobs
<1>4. job.sector \in Nat /\ job.sector <= SectorOf(job.bank)
  <2>1. job.sector \in Sector /\ FormatInv
    BY <1>1, JobTyped DEF Core, JobInv
  <2> QED  BY <1>1, <2>1, Sizes DEF FormatInv, Sector
<1>5. card' \in [Bank -> Content] /\ \A b \in Bank : job.bank < b => card'[b] = card[b]
  <2>1. card' = Wipe(card, job.sector)
    BY <1>1 DEF FormatSector
  <2>2. ASSUME NEW b \in Bank, job.bank < b PROVE card'[b] = card[b]
    <3>1. b > job.bank
      BY <1>2, <2>2, Sizes
    <3>2. SectorOf(b) # job.sector
      BY <1>2, <1>4, <3>1, SectorIsBelow
    <3> QED  BY <2>1, <3>2 DEF Wipe
  <2> QED  BY <1>2, <2>1, <2>2, WearIsWorn
<1>6. job.bank # Top => AboveArea(card', job.bank)
  BY <1>2, <1>5, StillAbove
<1> QED  BY <1>3, <1>6, FormattingLaid

\* A card with an empty or a new area below its applications is in order.
LEMMA AreaInOrder ==
    ASSUME NEW c \in [Bank -> Content], NEW h \in Bank, c[h].top = FileHeader(h + 1), c[h].body = Blank,
           \A b \in Bank : b < h => c[b] \in {Empty, [body |-> Files, top |-> Blank]},
           GoodCard(c), h # Top => AboveArea(c, h) /\ h = Border(Lowest(c)) /\ h < Lowest(c)
    PROVE  InOrder(c)
<1> DEFINE low == Lowest(c)
<1>1. /\ Bank = 0 .. Top /\ Top \in Nat /\ Banks = Top + 1 /\ h + 1 \in 1 .. Banks
      /\ low \in Nat /\ low <= Banks /\ (AppBanks(c) = 0 => low = Banks)
  <2>1. low \in Nat /\ low \in 0 .. Banks /\ (AppBanks(c) = 0 => low = Banks)
    BY LowestIs
  <2> QED  BY <2>1, Sizes
<1>2. HasHeader(c, h) /\ FileHeader(h + 1).is = "oz" /\ c[h].top # Files /\ c[h].top # Torn
  BY <1>1, Kinds DEF HasHeader, FileHeader, Files, Torn
<1>3. /\ h = Border(low) /\ h < low
      /\ Linked(c, low, low)
      /\ \A b \in Bank : h < b /\ b < low => c[b] = Empty
  <2>1. CASE h # Top
    BY <2>1 DEF AboveArea
  <2>2. CASE h = Top
    <3>1. AppBanks(c) = 0
      BY <1>2, <2>2 DEF AppBanks, HasHeader
    <3>2. low = Banks
      BY <1>1, <3>1
    <3> QED  BY <1>1, <2>2, <3>2 DEF Border, Linked
  <2> QED  BY <2>1, <2>2
<1> HIDE DEF low
<1>4. Vacant(c, low)
  BY <1>1, <1>2, <1>3 DEF Vacant
<1>5. Placed(c, low)
  BY <1>2, <1>3, OneHeader DEF Placed
<1>6. Intact(c, low)
  <2> SUFFICES ASSUME NEW b \in Bank, b < low PROVE c[b].body # Torn /\ c[b].top # Torn
    BY DEF Intact
  <2>1. CASE b = h
    BY <1>2, <2>1, Kinds
  <2>2. CASE b # h
    <3>1. c[b] \in {Empty, [body |-> Files, top |-> Blank]}
      BY <1>1, <1>3, <2>2
    <3> QED  BY <3>1, Kinds
  <2> QED  BY <2>1, <2>2
<1> QED  BY <1>3, <1>4, <1>5, <1>6 DEF InOrder, Laid, low

\* So is a card without an area and with nothing below its applications.
LEMMA EmptyInOrder ==
    ASSUME NEW c \in [Bank -> Content], NEW h \in Bank, \A b \in Bank : ~HasHeader(c, b),
           \A b \in Bank : b <= h => c[b] = Empty, h # Top => AboveArea(c, h)
    PROVE  InOrder(c)
<1> DEFINE low == Lowest(c)
<1>1. /\ Bank = 0 .. Top /\ Top \in Nat /\ Banks = Top + 1 /\ low \in Nat
      /\ (AppBanks(c) = 0 => low = Banks)
  BY Sizes, LowestIs
<1>2. Linked(c, low, low) /\ \A b \in Bank : b < low => c[b] = Empty
  <2>1. CASE h # Top
    BY <1>1, <2>1 DEF AboveArea
  <2>2. CASE h = Top
    <3>1. c[Top] = Empty
      BY <1>1, <2>2
    <3>2. AppBanks(c) = 0
      BY <3>1, Kinds DEF AppBanks, Plain
    <3> QED  BY <1>1, <2>2, <3>2 DEF Linked
  <2> QED  BY <2>1, <2>2
<1> HIDE DEF low
<1>3. Vacant(c, low) /\ Placed(c, low) /\ Intact(c, low)
  BY <1>2, Kinds DEF Vacant, Placed, Intact
<1> QED  BY <1>2, <1>3 DEF InOrder, Laid, low

LEMMA BlowHeaderAstrayLaid == ASSUME Core, LaidInv, hurt = 0, BlowHeaderAstray PROVE LaidInv'
<1>1. /\ Running /\ job.pc = "header" /\ job.cmd = "format" /\ card' = card
      /\ \E result : Return(3, result)
  BY DEF BlowHeaderAstray, HeaderAstray, Running
<1>2. /\ card \in [Bank -> Content] /\ job.bank \in Bank
      /\ job.bank # Top => AboveArea(card, job.bank)
  BY <1>1, FormatKnows
<1>3. /\ \A b \in Bank : b <= job.bank => card[b] = Empty
      /\ \A b \in Bank : ~HasHeader(card, b)
  BY <1>1, NoHeaderYet DEF Core, JobInv, FormatInv
<1>4. InOrder(card')
  BY <1>1, <1>2, <1>3, EmptyInOrder
<1> QED  BY <1>1, <1>4, EndedLaid, StrayLaid DEF Return

LEMMA BlowFormatLaid ==
    ASSUME Core, Core', LaidInv, hurt = 0, BlowHeader, job.cmd = "format"
    PROVE  LaidInv'
<1>1. Running /\ job.pc = "header" /\ card' = [card EXCEPT ![job.bank].top = Blow(@, NewHeader)]
  BY DEF BlowHeader, Running
<1>2. /\ card \in [Bank -> Content] /\ job.bank \in Bank /\ job.words = 3
      /\ job.bank # Top => /\ AboveArea(card, job.bank) /\ job.bank = Border(Lowest(card))
                           /\ job.bank < Lowest(card)
  BY <1>1, FormatKnows
<1>3. \A b \in Bank : b <= job.bank => card[b] = Empty
  BY <1>1 DEF Core, JobInv, FormatInv
<1>4. card[job.bank] = Empty /\ card[job.bank].top = Blank
  BY <1>2, <1>3, Sizes, Kinds
<1>5. /\ card' \in [Bank -> Content]
      /\ card'[job.bank].body = Blank /\ card'[job.bank].top = FileHeader(job.bank + 1)
      /\ \A b \in Bank : b # job.bank => card'[b] = card[b]
  BY <1>1, <1>4, NewHeaderIs, Kinds
<1>6. job.bank # Top => AboveArea(card', job.bank) /\ Lowest(card') = Lowest(card)
  <2>1. \A b \in Bank : job.bank < b => card'[b] = card[b]
    BY <1>2, <1>5, Sizes
  <2> QED  BY <1>2, <1>5, <2>1, StillAbove
<1>7. InOrder(card')
  <2>1. \A b \in Bank : b < job.bank => card'[b] = Empty
    BY <1>2, <1>3, <1>5, Sizes
  <2>2. GoodCard(card')
    BY DEF Core
  <2>3. job.bank # Top => /\ AboveArea(card', job.bank) /\ job.bank = Border(Lowest(card'))
                          /\ job.bank < Lowest(card')
    BY <1>2, <1>6
  <2> QED  BY <1>2, <1>5, <2>1, <2>2, <2>3, AreaInOrder
<1>8. CASE Intel
  <2>1. job' = [job EXCEPT !.pc = "null"]
    BY <1>8 DEF BlowHeader
  <2>2. job \in Jobs
    BY <1>1, JobTyped DEF Core
  <2>3. job'.cmd = "format" /\ job'.pc = "null" /\ job'.bank = job.bank
    BY <2>1, <2>2 DEF Jobs
  <2> QED  BY <1>6, <2>3, FormattingLaid
<1>9. CASE ~Intel
  <2>1. Return(3, "formatted")
    BY <1>9 DEF BlowHeader
  <2> QED  BY <1>2, <1>7, <2>1, EndedLaid DEF Return
<1> QED  BY <1>8, <1>9

LEMMA SaveNullFileLaid == ASSUME Core, Core', LaidInv, hurt = 0, SaveNullFile PROVE LaidInv'
<1>1. Running /\ job.pc = "null" /\ card' = [card EXCEPT ![0].body = Blow(@, Files)] /\ Return(3, "formatted")
  BY DEF SaveNullFile, Running
<1>2. /\ job.cmd = "format" /\ job.words = 3 /\ 0 < job.bank /\ 0 \in Bank
      /\ card[job.bank].body = Blank /\ card[job.bank].top = FileHeader(job.bank + 1)
      /\ \A b \in Bank : b < job.bank => card[b] = Empty
  BY <1>1, NullAfterHeader
<1>3. /\ card \in [Bank -> Content] /\ job.bank \in Bank
      /\ job.bank # Top => /\ AboveArea(card, job.bank) /\ job.bank = Border(Lowest(card))
                           /\ job.bank < Lowest(card)
  BY <1>1, <1>2, FormatKnows
<1>4. card' \in [Bank -> Content] /\ GoodCard(card')
  BY CoreTyped DEF Core, TypeOK
<1>5. /\ card[0] = Empty
      /\ card'[0] = [body |-> Files, top |-> Blank]
      /\ \A b \in Bank : b # 0 => card'[b] = card[b]
  <2>1. card[0] = Empty
    BY <1>2
  <2>2. card'[0] = [card[0] EXCEPT !.body = Blow(Blank, Files)]
    BY <1>1, <1>2, <1>3, <2>1, Kinds
  <2> QED  BY <1>1, <1>3, <2>1, <2>2, BlowIs DEF Empty
<1>6. \A b \in Bank : b < job.bank => card'[b] \in {Empty, [body |-> Files, top |-> Blank]}
  BY <1>2, <1>5
<1>7. \A b \in Bank : job.bank < b => card'[b] = card[b]
  BY <1>2, <1>3, <1>5, Sizes
<1>8. /\ job.bank # 0
      /\ card'[job.bank].body = Blank /\ card'[job.bank].top = FileHeader(job.bank + 1)
  BY <1>2, <1>3, <1>5
<1>9. job.bank # Top => /\ AboveArea(card', job.bank) /\ job.bank = Border(Lowest(card'))
                        /\ job.bank < Lowest(card')
  BY <1>3, <1>4, <1>7, StillAbove
<1>10. InOrder(card')
  BY <1>3, <1>4, <1>6, <1>8, <1>9, AreaInOrder
<1> QED  BY <1>1, <1>2, <1>10, EndedLaid DEF Return

----------------------------------------------------------------------------
(* Adding an application, and reducing the area for it *)

\* What has to be shown while an operation other than formatting runs.
LEMMA RunningLaid ==
    ASSUME Running', job'.cmd # "format", job'.pc # "refuse", LaidJob'
    PROVE  LaidInv'
  BY DEF LaidInv, Running, Idle

\* When a header is not in the bank below the applications, it is still where it must be for
\* one more application.
LEMMA BorderBelow ==
    ASSUME NEW low \in 1 .. Banks, NEW h \in Bank, Ends(h), h < low - 1,
           h = Border(low) \/ h + SectorBanks = low - 1
    PROVE  h = Border(low - 1)
<1>1. Bank = 0 .. Top /\ Top \in Nat /\ Banks \in Nat /\ SectorBanks \in Nat /\ low - 1 \in 0 .. Banks
  BY Sizes
<1>2. /\ Border(low - 1) \in Int /\ Border(low - 1) < low - 1
      /\ Border(low - 1) \in Nat => Border(low - 1) \in Bank /\ Ends(Border(low - 1))
      /\ h <= Border(low - 1)
  BY <1>1, BorderIs
<1>3. Border(low - 1) \in Nat /\ Border(low - 1) \in Bank /\ Ends(Border(low - 1))
  BY <1>1, <1>2
<1>4. CASE h = Border(low)
  <2>1. low \in 0 .. Banks
    BY <1>1
  <2>2. Border(low - 1) < low
    BY <1>1, <1>2
  <2>3. Border(low - 1) <= Border(low)
    BY <1>3, <2>1, <2>2, BorderIs
  <2> QED  BY <1>1, <1>2, <1>4, <2>3
<1>5. CASE h + SectorBanks = low - 1
  <2>1. ~(h < Border(low - 1))
    <3>1. h < Border(low - 1) => h + SectorBanks <= Border(low - 1)
      BY <1>1, <1>3, EndsApart
    <3> QED  BY <1>1, <1>2, <1>3, <1>5, <3>1
  <2> QED  BY <1>1, <1>2, <2>1
<1> QED  BY <1>4, <1>5

\* There is no area when none is found below the applications.
LEMMA OrderedRequest ==
    ASSUME NEW c \in [Bank -> Content], GoodCard(c), InOrder(c), AppBanks(c) # 0, NEW h \in Bank, HasHeader(c, h)
    PROVE  Request(c).kind = "found" /\ Request(c).bank = h
<1>1. h = Border(Lowest(c))
  BY DEF InOrder, Laid, Placed
<1>2. AppBanks(c) > 0 /\ Boundary(c) = h
  BY <1>1, BorderBoundary, AppBanksIs, Sizes
<1> QED  BY <1>2, FoundAt

LEMMA AddAppLaid == ASSUME Core, LaidInv, hurt = 0, AddApp PROVE LaidInv'
<1> DEFINE area == Request(card)
           low == Lowest(card)
<1>1. /\ card \in [Bank -> Content] /\ GoodCard(card) /\ Tidy(card) /\ card' = card /\ InOrder(card)
      /\ Linked(card, low, low) /\ Vacant(card, low) /\ Placed(card, low) /\ Intact(card, low)
  BY CoreTyped DEF AddApp, LaidInv, InOrder, Laid
<1>2. /\ area.kind \in {"none", "room", "found", "potential"}
      /\ area.kind \in {"room", "potential"} => AppBanks(card) # 0
      /\ area.kind = "found" /\ AppBanks(card) = 0 => area.bank = Top
      /\ AppBanks(card) \in 0 .. Banks
  BY <1>1, RequestIs, AppBanksIs
<1>0. Bank = 0 .. Top /\ Top \in Nat /\ Banks \in Nat /\ Banks = Top + 1
  BY Sizes
<1>3. CASE area.kind = "none"
  <2>1. job' = JobRecord("add", "top", "end", Top, Empty, Sectors - 1, 0, 0)
    BY <1>3, NewJobIs DEF AddApp
  <2>2. job'.cmd = "add" /\ job'.pc = "top"
    BY <2>1 DEF JobRecord
  <2> DEFINE d == Wipe(card, Sectors - 1)
  <2>3. \A b \in Bank : d[b] = Empty
    BY <1>1, <1>3, GapEmpty DEF Wipe
  <2> HIDE DEF d
  <2>4. Linked(d, Banks, Banks) /\ Vacant(d, Banks) /\ Placed(d, Top) /\ Intact(d, Banks)
    BY <1>0, <2>3, Kinds DEF Linked, Vacant, Placed, Intact, HasHeader, Empty, Blank
  <2>5. LaidJob'
    BY <1>1, <2>2, <2>4 DEF LaidJob, Applying, d, Laid
  <2> QED  BY <2>2, <2>5, RunningLaid DEF Running
<1>4. CASE area.kind = "found" /\ area.bank = Top - AppBanks(card)
  <2> DEFINE then == IF AppBanks(card) = 0 THEN "top" ELSE "pick"
  <2>1. job' = ReduceJob(1, then)
    BY <1>4 DEF AddApp
  <2>2. job'.cmd = "reduce" /\ job'.pc = "erase"
    BY <2>1 DEF ReduceJob, NewJob
  <2>3. LaidJob'
    BY <1>1, <2>2 DEF LaidJob, Applying
  <2> QED  BY <2>2, <2>3, RunningLaid DEF Running
<1>5. CASE area.kind # "none" /\ ~(area.kind = "found" /\ area.bank = Top - AppBanks(card))
  <2>1. AppBanks(card) < Banks /\ job' = NewJob("add", "pick")
    BY <1>5 DEF AddApp
  <2>2. job' = JobRecord("add", "pick", "end", Top, Empty, Sectors - 1, 0, 0)
    BY <2>1, NewJobIs
  <2>3. job'.cmd = "add" /\ job'.pc = "pick"
    BY <2>2 DEF JobRecord
  <2>4. AppBanks(card) # 0
    <3>1. SUFFICES ASSUME AppBanks(card) = 0 PROVE FALSE
      OBVIOUS
    <3>2. area.kind = "found" /\ area.bank = Top
      BY <1>2, <1>5, <3>1
    <3> QED  BY <1>0, <1>5, <3>1, <3>2
  <2>5. low \in 0 .. Banks /\ low = Banks - AppBanks(card)
    BY <1>1, LowestIs
  <2>6. low \in 1 .. Banks /\ low - 1 = Top - AppBanks(card) /\ low - 1 \in Bank /\ low \in Nat
    BY <1>0, <1>2, <2>1, <2>5
  <2>7. ASSUME NEW h \in Bank, HasHeader(card, h) PROVE h < low - 1 /\ Ends(h) /\ h = Border(low)
    <3>1. area.kind = "found" /\ area.bank = h
      BY <1>1, <2>4, <2>7, OrderedRequest
    <3>2. h # low - 1
      BY <1>5, <2>6, <3>1
    <3>3. h < low /\ Ends(h)
      BY <1>1, <2>5, <2>7 DEF GoodCard
    <3>4. h = Border(low)
      BY <1>1, <2>7 DEF Placed
    <3> QED  BY <1>0, <2>6, <3>2, <3>3, <3>4
  <2>8. Placed(card, low - 1)
    BY <2>6, <2>7, BorderBelow DEF Placed
  <2>9. card[low - 1] = Empty
    <3>1. low - 1 < low
      BY <2>6
    <3> QED  BY <1>1, <2>6, <2>7, <3>1 DEF Vacant
  <2>10. LaidJob'
    BY <1>1, <2>3, <2>8, <2>9 DEF LaidJob, Applying, Laid
  <2> QED  BY <2>3, <2>10, RunningLaid DEF Running
<1> QED  BY <1>3, <1>4, <1>5

\* What a job that reduces the area knows.
LEMMA ReduceKnows ==
    ASSUME Core, LaidInv, hurt = 0, Running, job.cmd = "reduce"
    PROVE  LET low == Lowest(card)
           IN  /\ card \in [Bank -> Content] /\ GoodCard(card) /\ ReduceInv
               /\ Linked(card, low, low) /\ Intact(card, low)
               /\ low \in 1 .. Banks /\ low \in Nat /\ job.bank \in Bank /\ job.bank \in Nat /\ Ends(job.bank)
               /\ low - 1 \in Bank /\ low - 1 \in Nat
               /\ job.bank + SectorBanks = low - 1 /\ job.bank < low - 1
               /\ Ends(low - 1) /\ SectorOf(low - 1) = SectorOf(job.bank) + 1
               /\ SectorOf(job.bank) \in Nat
<1> DEFINE low == Lowest(card)
<1>1. TypeOK /\ card \in [Bank -> Content] /\ GoodCard(card) /\ ReduceInv
  BY CoreTyped DEF JobInv
<1>2. job.bank \in Bank /\ Ends(job.bank)
      /\ job.bank + SectorBanks = Top - AppBanks(card) /\ job.bank + SectorBanks \in Bank
  BY <1>1, JobTyped DEF ReduceInv
<1>3. /\ Bank = 0 .. Top /\ Top \in Nat /\ Banks \in Nat /\ Banks = Top + 1
      /\ SectorBanks \in Nat /\ SectorBanks >= 2
  BY Sizes
<1>4. low \in 0 .. Banks /\ low = Banks - AppBanks(card) /\ AppBanks(card) \in 0 .. Banks
  BY <1>1, LowestIs, AppBanksIs
<1>5. Linked(card, low, low) /\ Intact(card, low)
  BY DEF LaidInv, LaidJob
<1> HIDE DEF low
<1>6. job.bank + SectorBanks = low - 1
  BY <1>2, <1>3, <1>4
<1>7. job.bank \in Nat /\ low \in 1 .. Banks /\ low \in Nat /\ low - 1 \in Bank /\ low - 1 \in Nat /\ job.bank < low - 1
  BY <1>2, <1>3, <1>4, <1>6
<1>8. Ends(low - 1) /\ SectorOf(low - 1) = SectorOf(job.bank) + 1
  BY <1>2, <1>6, <1>7, NextEnd
<1>9. SectorOf(job.bank) \in Nat
  BY <1>7, InSector
<1> QED  BY <1>1, <1>2, <1>5, <1>6, <1>7, <1>8, <1>9 DEF low

LEMMA ReduceSectorLaid == ASSUME Core, Core', LaidInv, hurt = 0, ReduceSector PROVE LaidInv'
<1> DEFINE low == Lowest(card)
<1>1. Running /\ job.cmd = "reduce" /\ job.pc = "erase" /\ card' = Wipe(card, job.sector)
  BY DEF ReduceSector, Running
<1>2. /\ card \in [Bank -> Content] /\ ReduceInv
      /\ Linked(card, low, low) /\ Intact(card, low)
      /\ low \in 1 .. Banks /\ low - 1 \in Bank /\ low - 1 \in Nat /\ job.bank + SectorBanks = low - 1
      /\ Ends(low - 1)
  BY <1>1, ReduceKnows
<1>3. /\ Bank = 0 .. Top /\ Top \in Nat /\ Banks \in Nat /\ Banks = Top + 1
      /\ low = Banks - AppBanks(card) /\ AppBanks(card) \in 0 .. Banks /\ low \in Nat
  BY <1>2, Sizes, LowestIs, AppBanksIs
<1> HIDE DEF low
<1>4. job.sector = SectorOf(low - 1)
  BY <1>1, <1>2 DEF ReduceInv
<1>5. \A b \in Bank : b >= low => card'[b] = card[b]
  <2> SUFFICES ASSUME NEW b \in Bank, b >= low PROVE card'[b] = card[b]
    OBVIOUS
  <2>1. b \in Nat /\ low - 1 < b
    BY <1>2, <1>3
  <2>2. SectorOf(low - 1) < SectorOf(b)
    BY <1>2, <2>1, AfterEnd
  <2>3. SectorOf(b) # job.sector
    BY <1>2, <1>4, <2>1, <2>2, InSector
  <2> QED  BY <1>1, <2>3 DEF Wipe
<1>6. card' \in [Bank -> Content]
  BY <1>1, <1>2, WearIsWorn
<1>7. Lowest(card') = low
  <2>1. CASE AppBanks(card) = 0
    <3>1. Worn(card, card')
      BY <1>1, <1>2, WearIsWorn
    <3>2. AppBanks(card') = 0
      BY <1>2, <1>6, <2>1, <3>1, WornApps
    <3> QED  BY <2>1, <3>2 DEF Lowest, low
  <2>2. CASE AppBanks(card) # 0
    <3>1. card'[Top] = card[Top]
      BY <1>3, <1>5, <2>2
    <3> QED  BY <3>1, SameLowest DEF low
  <2> QED  BY <2>1, <2>2
<1>8. Linked(card', low, low)
  BY <1>2, <1>5 DEF Linked
<1>9. Intact(card', low)
  BY <1>1, <1>2, Kinds DEF Intact, Wipe
<1>10. job'.cmd = "reduce" /\ job'.pc = "header"
  <2>1. job \in Jobs
    BY <1>1, JobTyped DEF Core
  <2> QED  BY <1>1, <2>1 DEF ReduceSector, Jobs
<1>11. LaidJob'
  BY <1>7, <1>8, <1>9, <1>10 DEF LaidJob, Applying
<1> QED  BY <1>10, <1>11, RunningLaid DEF Running

LEMMA BlowReducedLaid ==
    ASSUME Core, Core', LaidInv, hurt = 0, BlowHeader, job.cmd = "reduce"
    PROVE  LaidInv'
<1> DEFINE low == Lowest(card)
<1>1. Running /\ job.pc = "header" /\ card' = [card EXCEPT ![job.bank].top = Blow(@, NewHeader)]
      /\ job' = [job EXCEPT !.cmd = "add", !.pc = job.then, !.words = 0, !.bank = Top]
  BY DEF BlowHeader, Running
<1>2. /\ card \in [Bank -> Content] /\ ReduceInv
      /\ Linked(card, low, low) /\ Intact(card, low)
      /\ low \in 1 .. Banks /\ low - 1 \in Bank /\ low - 1 \in Nat /\ job.bank + SectorBanks = low - 1
      /\ job.bank \in Bank /\ job.bank \in Nat /\ Ends(job.bank) /\ job.bank < low - 1
      /\ Ends(low - 1) /\ SectorOf(low - 1) = SectorOf(job.bank) + 1 /\ SectorOf(job.bank) \in Nat
  BY <1>1, ReduceKnows
<1>3. /\ Bank = 0 .. Top /\ Top \in Nat /\ Banks \in Nat /\ Banks = Top + 1
      /\ low = Banks - AppBanks(card) /\ AppBanks(card) \in 0 .. Banks /\ low \in Nat
  BY <1>2, Sizes, LowestIs, AppBanksIs
<1> HIDE DEF low
<1>4. /\ Below(card, job.bank) /\ card[job.bank].top \in {Blank, Torn}
      /\ \A b \in Bank : ~HasHeader(card, b)
      /\ \A b \in Bank : SectorOf(b) = SectorOf(low - 1) => card[b] = Empty
      /\ job.then = IF AppBanks(card) = 0 THEN "top" ELSE "pick"
  BY <1>1, <1>2 DEF ReduceInv
<1>5. card[job.bank].top = Blank
  BY <1>2, <1>3, <1>4 DEF Intact
<1>6. /\ card' \in [Bank -> Content] /\ card'[job.bank].body = card[job.bank].body
      /\ card'[job.bank].top = FileHeader(job.bank + 1)
      /\ \A b \in Bank : b # job.bank => card'[b] = card[b]
      /\ job.bank + 1 \in 1 .. Banks
  BY <1>1, <1>5, NewHeaderIs
<1>7. HasHeader(card', job.bank) /\ \A b \in Bank : HasHeader(card', b) => b = job.bank
  BY <1>4, <1>6, Kinds DEF HasHeader
<1>8. \A b \in Bank : job.bank < b /\ b < low => SectorOf(b) = SectorOf(low - 1)
  <2> SUFFICES ASSUME NEW b \in Bank, job.bank < b, b < low PROVE SectorOf(b) = SectorOf(low - 1)
    OBVIOUS
  <2>1. b \in Nat /\ b <= low - 1
    BY <1>2, <1>3
  <2>2. SectorOf(job.bank) < SectorOf(b) /\ SectorOf(b) <= SectorOf(low - 1) /\ SectorOf(b) \in Nat
    BY <1>2, <2>1, AfterEnd, SectorMono, InSector
  <2> QED  BY <1>2, <2>2
<1>9. \A b \in Bank : job.bank < b /\ b < low => card'[b] = Empty
  BY <1>2, <1>4, <1>6, <1>8, <1>3
<1>10. Lowest(card') = low /\ AppBanks(card') = AppBanks(card)
  <2>1. job.bank # Top
    BY <1>2, <1>3
  <2>2. card'[Top] = card[Top]
    BY <1>3, <1>6, <2>1
  <2> QED  BY <2>2, SameLowest DEF low
<1>11. Linked(card', low, low)
  <2> SUFFICES ASSUME NEW b \in Bank, b >= low
               PROVE  card'[b].body = Code(IF b > low THEN b - 1 ELSE 0) /\ card'[b].top # Files
    BY DEF Linked
  <2>1. b # job.bank
    BY <1>2, <1>3
  <2>2. card'[b] = card[b]
    BY <1>6, <2>1
  <2> QED  BY <1>2, <1>3, <2>2 DEF Linked
<1>12. Vacant(card', low)
  BY <1>2, <1>7, <1>9 DEF Vacant
<1>13. Placed(card', low - 1)
  <2>1. job.bank = Border(low - 1)
    BY <1>2, BorderBelow
  <2> QED  BY <1>7, <2>1 DEF Placed
<1>14. Intact(card', low)
  <2>1. FileHeader(job.bank + 1) # Torn
    BY DEF FileHeader, Torn
  <2> QED  BY <1>2, <1>6, <2>1 DEF Intact
<1>15. Laid(card', low, low, low - 1)
  BY <1>11, <1>12, <1>13, <1>14 DEF Laid
<1>16. card'[low - 1] = Empty
  BY <1>2, <1>3, <1>9
<1>17. job'.cmd = "add" /\ job'.pc = job.then
  <2>1. job \in Jobs
    BY <1>1, JobTyped DEF Core
  <2> QED  BY <1>1, <2>1 DEF Jobs
<1>18. CASE AppBanks(card) # 0
  <2>1. LaidJob'
    BY <1>4, <1>10, <1>15, <1>16, <1>17, <1>18 DEF LaidJob, Applying
  <2> QED  BY <1>4, <1>17, <1>18, <2>1, RunningLaid DEF Running
<1>19. CASE AppBanks(card) = 0
  <2>1. low = Banks /\ low - 1 = Top
    BY <1>3, <1>19
  <2>2. Wipe(card', Sectors - 1) = card'
    <3> SUFFICES ASSUME NEW b \in Bank, SectorOf(b) = Sectors - 1 PROVE card'[b] = Empty
      BY <1>6 DEF Wipe
    <3>1. SectorOf(b) = SectorOf(low - 1)
      BY <2>1, TopEnds
    <3>2. b # job.bank
      BY <1>2, <3>1
    <3> QED  BY <1>4, <1>6, <3>1, <3>2
  <2>3. Laid(Wipe(card', Sectors - 1), Banks, Banks, Top)
    BY <1>15, <2>1, <2>2
  <2>4. LaidJob'
    BY <1>4, <1>17, <1>19, <2>3 DEF LaidJob, Applying
  <2> QED  BY <1>4, <1>17, <1>19, <2>4, RunningLaid DEF Running
<1> QED  BY <1>18, <1>19

\* The application bank under the others, and what a job that adds or updates one is.
LEMMA AddingIs ==
    ASSUME Core, job.pc \in {"pick", "top", "install", "link", "count"} \union Applying
    PROVE  /\ Running /\ TypeOK /\ job \in Jobs /\ job.cmd \in {"add", "update"} /\ AddInv /\ RewriteInv
           /\ card \in [Bank -> Content] /\ GoodCard(card)
           /\ job.pc \in {"pick", "link", "count"} =>
                 /\ AppBanks(card) \in 1 .. Banks - 1
                 /\ Lowest(card) \in Bank /\ Lowest(card) \in 1 .. Top
                 /\ Lowest(card) - 1 = Top - AppBanks(card) /\ Lowest(card) - 1 \in Bank
<1>1. Running
  BY DEF Running, Applying
<1>2. TypeOK /\ JobInv /\ job \in Jobs /\ card \in [Bank -> Content] /\ GoodCard(card)
      /\ job.cmd \in {"format", "reduce", "add", "update"}
  BY <1>1, CoreTyped, JobTyped
<1>3. FormatInv /\ ReduceInv /\ AddInv /\ RewriteInv
  BY <1>1, <1>2 DEF JobInv
<1>4. job.cmd \in {"add", "update"}
  BY <1>2, <1>3 DEF FormatInv, ReduceInv, Applying
<1>5. ASSUME job.pc \in {"pick", "link", "count"}
      PROVE  /\ AppBanks(card) \in 1 .. Banks - 1
             /\ Lowest(card) \in Bank /\ Lowest(card) \in 1 .. Top
             /\ Lowest(card) - 1 = Top - AppBanks(card) /\ Lowest(card) - 1 \in Bank
  <2>1. AppBanks(card) \in 1 .. Banks - 1
    BY <1>3, <1>4, <1>5 DEF AddInv
  <2>2. Lowest(card) = Banks - AppBanks(card)
    BY <1>2, LowestIs
  <2> QED  BY <2>1, <2>2, Sizes
<1> QED  BY <1>1, <1>2, <1>3, <1>4, <1>5

LEMMA PickBankLaid == ASSUME Core, LaidInv, hurt = 0, PickBank PROVE LaidInv'
<1> DEFINE low == Lowest(card)
<1>1. job.pc = "pick" /\ card' = card
  BY DEF PickBank
<1>2. /\ Running /\ job \in Jobs /\ low - 1 = Top - AppBanks(card)
      /\ job.cmd \in {"add", "update"}
  BY <1>1, AddingIs
<1>3. Laid(card, low, low, low - 1) /\ card[low - 1] = Empty
  BY <1>1, <1>2 DEF LaidInv, LaidJob
<1>4. job'.cmd = job.cmd /\ job'.pc = "install"
  BY <1>2, <1>3 DEF PickBank, Jobs
<1>5. LaidJob'
  BY <1>1, <1>2, <1>3, <1>4 DEF LaidJob, Applying
<1> QED  BY <1>2, <1>4, <1>5, RunningLaid DEF Running

LEMMA EraseTopSectorLaid == ASSUME Core, LaidInv, hurt = 0, EraseTopSector PROVE LaidInv'
<1>1. job.pc = "top" /\ card' = Wipe(card, Sectors - 1)
  BY DEF EraseTopSector
<1>2. Running /\ job \in Jobs /\ job.cmd \in {"add", "update"} /\ card \in [Bank -> Content]
  BY <1>1, AddingIs
<1>3. Laid(card', Banks, Banks, Top)
  BY <1>1, <1>2 DEF LaidInv, LaidJob
<1>4. card' \in [Bank -> Content]
  BY <1>1, <1>2, WearIsWorn
<1>5. Lowest(card') = Banks
  <2>1. card'[Top] = Empty
    BY <1>1, TopEnds, EndsTyped DEF Wipe
  <2>2. AppBanks(card') = 0
    BY <2>1, Kinds DEF AppBanks, Blank
  <2> QED  BY <1>4, <2>2, LowestIs
<1>6. job'.cmd = job.cmd /\ job'.pc = "install"
  BY <1>2 DEF EraseTopSector, Jobs
<1>7. Laid(card', Lowest(card'), Lowest(card'), Lowest(card') - 1)
  <2>1. Banks - 1 = Top
    BY Sizes
  <2> QED  BY <1>3, <1>5, <2>1
<1>8. LaidJob'
  BY <1>2, <1>6, <1>7 DEF LaidJob, Applying
<1> QED  BY <1>2, <1>6, <1>8, RunningLaid DEF Running

----------------------------------------------------------------------------
(* The new bank, its link and the card header *)

\* An application in the erased bank below the others, not linked yet.
LEMMA BankBelow ==
    ASSUME NEW c \in [Bank -> Content], NEW low \in Nat, low - 1 \in Bank, c[low - 1] = Empty,
           Laid(c, low, low, low - 1), NEW x, x.body = Code(0), x.top # Files, x.top.is # "oz"
    PROVE  Laid([c EXCEPT ![low - 1] = x], low - 1, low, low - 1)
<1> DEFINE d == [c EXCEPT ![low - 1] = x]
<1>1. Linked(c, low, low) /\ Vacant(c, low) /\ Placed(c, low - 1) /\ Intact(c, low)
  BY DEF Laid
<1>2. d[low - 1] = x /\ \A b \in Bank : b # low - 1 => d[b] = c[b]
  OBVIOUS
<1>3. Bank = 0 .. Top /\ Top \in Nat
  BY Sizes
<1> HIDE DEF d
<1>4. \A h \in Bank : HasHeader(d, h) <=> HasHeader(c, h)
  <2>1. ~HasHeader(d, low - 1) /\ ~HasHeader(c, low - 1)
    BY <1>2, Kinds DEF HasHeader, Blank
  <2> QED  BY <1>2, <2>1 DEF HasHeader
<1>5. Linked(d, low - 1, low)
  <2> SUFFICES ASSUME NEW b \in Bank, b >= low - 1
               PROVE  d[b].body = Code(IF b > low THEN b - 1 ELSE 0) /\ d[b].top # Files
    BY DEF Linked
  <2>1. CASE b = low - 1
    BY <1>2, <2>1
  <2>2. CASE b # low - 1
    <3>1. b >= low
      BY <1>3, <2>2
    <3> QED  BY <1>1, <1>2, <2>2, <3>1 DEF Linked
  <2> QED  BY <2>1, <2>2
<1>6. Vacant(d, low - 1)
  <2> SUFFICES ASSUME NEW b \in Bank, b < low - 1, \A h \in Bank : HasHeader(d, h) => h < b
               PROVE  d[b] = Empty
    BY DEF Vacant
  <2>1. b < low /\ b # low - 1
    BY <1>3
  <2> QED  BY <1>1, <1>2, <1>4, <2>1 DEF Vacant
<1>7. Placed(d, low - 1)
  BY <1>1, <1>4 DEF Placed
<1>8. Intact(d, low - 1)
  <2> SUFFICES ASSUME NEW b \in Bank, b < low - 1 PROVE d[b].body # Torn /\ d[b].top # Torn
    BY DEF Intact
  <2>1. b < low /\ b # low - 1
    BY <1>3
  <2> QED  BY <1>1, <1>2, <2>1 DEF Intact
<1> QED  BY <1>5, <1>6, <1>7, <1>8 DEF Laid, d

\* The list may as well end at the bank above all.
LEMMA TailAtTop ==
    ASSUME NEW c, Laid(c, Top, Banks, Top)
    PROVE  Laid(c, Top, Top, Top)
<1>1. Bank = 0 .. Top /\ Top \in Nat /\ Banks = Top + 1
  BY Sizes
<1>2. Linked(c, Top, Top)
  BY <1>1 DEF Laid, Linked
<1> QED  BY <1>2 DEF Laid

LEMMA InstallLaid == ASSUME Core, LaidInv, hurt = 0, Install PROVE LaidInv'
<1> DEFINE low == Lowest(card)
<1>1. job.pc = "install"
  BY DEF Install
<1>2. Running /\ job \in Jobs /\ job.cmd \in {"add", "update"} /\ card \in [Bank -> Content]
  BY <1>1, AddingIs
<1>3. Laid(card, low, low, low - 1)
  BY <1>1, <1>2 DEF LaidInv, LaidJob
<1>4. /\ card' = [card EXCEPT ![job.bank] = job.image] /\ card' \in [Bank -> Content]
      /\ job.then = "count" => AppBanks(card') = AppBanks(card)
  BY InstallIs
<1>5. /\ job.bank \in Bank /\ card[job.bank] = Empty
      /\ job.image.body = Code(0)
      /\ \/ /\ job.then = "end" /\ job.bank = Top
            /\ job.image = [body |-> Code(0), top |-> AppHeader(1)]
         \/ /\ job.then = "count" /\ AppBanks(card) \in 1 .. Banks - 1
            /\ job.bank = Top - AppBanks(card)
            /\ job.image = [body |-> Code(0), top |-> Code(0)]
  BY <1>1, InstallBank
<1>6. /\ Banks \in Nat /\ Top \in Nat /\ Banks = Top + 1 /\ Bank = 0 .. Top
      /\ low \in Nat /\ low = Banks - AppBanks(card)
  <2>1. low \in Nat /\ low = Banks - AppBanks(card)
    BY <1>2, LowestIs
  <2> QED  BY <2>1, Sizes
<1> HIDE DEF low
<1>7. job.image.top # Files /\ job.image.top.is # "oz"
  BY <1>5 DEF AppHeader, Code, Files
<1>8. CASE job.then = "end"
  <2>1. AppBanks(card) = 0
    BY <1>5, <1>8, Kinds DEF AppBanks, Blank
  <2>2. low = Banks /\ low - 1 = job.bank
    BY <1>5, <1>6, <1>8, <2>1
  <2>3. Laid(card', low - 1, low, low - 1)
    BY <1>2, <1>3, <1>4, <1>5, <1>6, <1>7, <2>2, BankBelow
  <2>4. Laid(card', Top, Top, Top)
    BY <1>6, <2>2, <2>3, TailAtTop
  <2>5. Lowest(card') = Top
    <3>1. card'[Top].top = AppHeader(1)
      BY <1>4, <1>5, <1>8, <1>2
    <3>2. AppBanks(card') = 1
      BY <3>1 DEF AppBanks, AppHeader
    <3> QED  BY <1>6, <3>2 DEF Lowest
  <2>6. InOrder(card')
    BY <2>4, <2>5 DEF InOrder
  <2>7. job' = Ended("added", << >>)
    BY <1>8 DEF Install
  <2> QED  BY <2>6, <2>7, EndedLaid
<1>9. CASE job.then = "count"
  <2>1. low - 1 = job.bank
    BY <1>5, <1>6, <1>9
  <2>2. Laid(card', low - 1, low, low - 1)
    BY <1>2, <1>3, <1>4, <1>5, <1>6, <1>7, <2>1, BankBelow
  <2>3. Lowest(card') = low
    BY <1>4, <1>9 DEF Lowest, low
  <2>4. job'.cmd = job.cmd /\ job'.pc = "link"
    BY <1>2, <1>9 DEF Install, Jobs
  <2>5. LaidJob'
    BY <1>2, <2>2, <2>3, <2>4 DEF LaidJob, Applying
  <2> QED  BY <1>2, <2>4, <2>5, RunningLaid DEF Running
<1> QED  BY <1>5, <1>8, <1>9

\* A bank that has an application gets another, linked as it must be.
LEMMA BankReplaced ==
    ASSUME NEW c \in [Bank -> Content], NEW low \in Nat, NEW b \in Bank, b >= low, NEW tail, NEW tail2,
           Laid(c, low, tail, low), NEW x, c[b].top.is # "oz", x.top # Files, x.top.is # "oz",
           x.body = Code(IF b > tail2 THEN b - 1 ELSE 0),
           \A k \in Bank : k >= low /\ k # b => (k > tail <=> k > tail2)
    PROVE  Laid([c EXCEPT ![b] = x], low, tail2, low)
<1> DEFINE d == [c EXCEPT ![b] = x]
<1>1. Linked(c, low, tail) /\ Vacant(c, low) /\ Placed(c, low) /\ Intact(c, low)
  BY DEF Laid
<1>2. d[b] = x /\ \A k \in Bank : k # b => d[k] = c[k]
  OBVIOUS
<1>3. Bank = 0 .. Top /\ Top \in Nat
  BY Sizes
<1> HIDE DEF d
<1>4. \A h \in Bank : HasHeader(d, h) <=> HasHeader(c, h)
  BY <1>2 DEF HasHeader
<1>5. Linked(d, low, tail2)
  BY <1>1, <1>2 DEF Linked
<1>6. \A k \in Bank : k < low => d[k] = c[k]
  BY <1>2, <1>3
<1>7. Vacant(d, low) /\ Intact(d, low) /\ Placed(d, low)
  BY <1>1, <1>4, <1>6 DEF Vacant, Intact, Placed
<1> QED  BY <1>5, <1>7 DEF Laid, d

\* What has to be shown where the update of a sector begins.
LEMMA PreservingLaid ==
    ASSUME card' = card, job'.pc = "preserve", job'.cmd \in {"add", "update"},
           NEW d, d = [card EXCEPT ![job'.bank] = job'.image], card \in [Bank -> Content],
           NEW low, low = Lowest(d) - (IF job'.then = "count" THEN 1 ELSE 0), Laid(d, low, low, low)
    PROVE  LaidInv'
<1>1. Final' = d
  BY DEF Final, Rewriting
<1>2. LaidJob'
  BY <1>1 DEF LaidJob
<1> QED  BY <1>2, RunningLaid DEF Running

LEMMA LinkDorLaid == ASSUME Core, LaidInv, hurt = 0, LinkDor PROVE LaidInv'
<1> DEFINE low == Lowest(card)
           image == [card[low] EXCEPT !.body = Code(job.bank)]
           d == [card EXCEPT ![low] = image]
<1>1. job.pc = "link" /\ card' = card
  BY DEF LinkDor
<1>2. /\ Running /\ job \in Jobs /\ job.cmd \in {"add", "update"} /\ AddInv /\ card \in [Bank -> Content]
      /\ GoodCard(card)
      /\ AppBanks(card) \in 1 .. Banks - 1 /\ low \in Bank /\ low \in 1 .. Top
      /\ low - 1 = Top - AppBanks(card) /\ low - 1 \in Bank
  BY <1>1, AddingIs
<1>3. Laid(card, low - 1, low, low - 1)
  BY <1>1, <1>2 DEF LaidInv, LaidJob
<1>4. job.bank = low - 1 /\ job.then = "count"
  BY <1>1, <1>2 DEF AddInv
<1>5. LastDor(card) = low /\ IsDor(card, low)
  <2>1. /\ Linked(card, low - 1, low) /\ low - 1 \in Nat /\ low - 1 <= low /\ low # 0 /\ AppBanks(card) # 0
        /\ low \in Bank \ {0} /\ low >= low
    BY <1>2, <1>3, Sizes DEF Laid
  <2>2. /\ Dors(card) = {b \in Bank \ {0} : b >= low}
        /\ \A b \in Dors(card) : card[b].body = Code(NextDor(card, b)) /\ IsDor(card, b)
        /\ LastDor(card) = low
    BY <1>2, <2>1, ListIs
  <2> QED  BY <2>1, <2>2
<1> DEFINE last == LastDor(card)
<1>6. job' = [job EXCEPT !.pc = "preserve", !.bank = last, !.image = [card[last] EXCEPT !.body = Code(job.bank)]]
  BY DEF LinkDor
<1>7. job' = [job EXCEPT !.pc = "preserve", !.bank = low, !.image = image]
  BY <1>5, <1>6
<1>8. card[low].top.is # "oz"
  BY <1>2, <1>5, HeadersUnderDor
<1> HIDE DEF low, last
<1>9. image.body = Code(low - 1) /\ image.top = card[low].top
  <2>1. card[low] \in Content
    BY <1>2
  <2> QED  BY <1>4, <2>1 DEF Content
<1> HIDE DEF image
<1>10. /\ job'.cmd = job.cmd /\ job'.pc = "preserve" /\ job'.then = "count" /\ job'.bank = low
       /\ job'.image = image
  BY <1>2, <1>4, <1>7 DEF Jobs
<1>11. Lowest(d) = low
  <2>1. d[Top].top = card[Top].top
    BY <1>2, <1>9, EndsTyped
  <2> QED  BY <2>1, SameLowest DEF low
<1>12. Laid(d, low - 1, low - 1, low - 1)
  <2>1. card[low].top # Files
    BY <1>2, <1>3, Sizes DEF Laid, Linked
  <2>2. \A k \in Bank : k >= low - 1 /\ k # low => (k > low <=> k > low - 1)
    BY <1>2, Sizes
  <2>3. low >= low - 1 /\ low - 1 \in Nat /\ low > low - 1
    BY <1>2, Sizes
  <2> QED  BY <1>2, <1>3, <1>8, <1>9, <2>1, <2>2, <2>3, BankReplaced
<1> HIDE DEF d
<1>13. d = [card EXCEPT ![job'.bank] = job'.image]
  BY <1>10 DEF d
<1>14. low - 1 = Lowest(d) - (IF job'.then = "count" THEN 1 ELSE 0)
  BY <1>10, <1>11
<1> QED  BY <1>1, <1>2, <1>10, <1>12, <1>13, <1>14, PreservingLaid

LEMMA CountBankLaid == ASSUME Core, LaidInv, hurt = 0, CountBank PROVE LaidInv'
<1> DEFINE low == Lowest(card)
           image == [card[Top] EXCEPT !.top = AppHeader(AppBanks(card) + 1)]
           d == [card EXCEPT ![Top] = image]
<1>1. job.pc = "count" /\ card' = card
      /\ job' = [job EXCEPT !.pc = "preserve", !.then = "end", !.bank = Top, !.image = image]
  BY DEF CountBank
<1>2. /\ Running /\ job \in Jobs /\ job.cmd \in {"add", "update"} /\ card \in [Bank -> Content]
      /\ AppBanks(card) \in 1 .. Banks - 1 /\ low \in Bank /\ low \in 1 .. Top
      /\ low - 1 = Top - AppBanks(card) /\ low - 1 \in Bank
  BY <1>1, AddingIs
<1>3. Laid(card, low - 1, low - 1, low - 1)
  BY <1>1, <1>2 DEF LaidInv, LaidJob
<1>4. Top \in Bank /\ Top \in Nat /\ Bank = 0 .. Top /\ Banks = Top + 1 /\ Banks \in Nat
  BY Sizes
<1> HIDE DEF low
<1>5. image.body = card[Top].body /\ image.top = AppHeader(AppBanks(card) + 1)
  <2>1. card[Top] \in Content
    BY <1>2, <1>4
  <2> QED  BY <2>1 DEF Content
<1> HIDE DEF image
<1>6. job'.cmd = job.cmd /\ job'.pc = "preserve" /\ job'.then = "end" /\ job'.bank = Top /\ job'.image = image
  BY <1>1, <1>2 DEF Jobs
<1>7. AppBanks(d) = AppBanks(card) + 1
  <2>1. d[Top].top = AppHeader(AppBanks(card) + 1)
    BY <1>2, <1>4, <1>5
  <2> QED  BY <2>1 DEF AppBanks, AppHeader
<1>8. Lowest(d) = low - 1
  BY <1>2, <1>4, <1>7 DEF Lowest
<1>9. Laid(d, low - 1, low - 1, low - 1)
  <2>1. card[Top].top.is = "OZ"
    BY <1>2, AppBanksIs
  <2>2. card[Top].top.is # "oz" /\ image.top # Files /\ image.top.is # "oz"
    BY <1>5, <2>1 DEF AppHeader, Files
  <2>3. Top >= low - 1 /\ low - 1 \in Nat
    BY <1>2, <1>4
  <2>4. image.body = Code(IF Top > low - 1 THEN Top - 1 ELSE 0)
    BY <1>3, <1>4, <1>5, <2>3 DEF Laid, Linked
  <2>5. \A k \in Bank : k >= low - 1 /\ k # Top => (k > low - 1 <=> k > low - 1)
    OBVIOUS
  <2> QED  BY <1>2, <1>3, <1>4, <2>2, <2>3, <2>4, <2>5, BankReplaced
<1> HIDE DEF d
<1>10. d = [card EXCEPT ![job'.bank] = job'.image]
  BY <1>6 DEF d
<1>11. low - 1 = Lowest(d) - (IF job'.then = "count" THEN 1 ELSE 0)
  BY <1>2, <1>4, <1>6, <1>8
<1> QED  BY <1>1, <1>2, <1>6, <1>9, <1>10, <1>11, PreservingLaid

LEMMA UpdateAppLaid == ASSUME Core, LaidInv, hurt = 0, UpdateApp PROVE LaidInv'
<1>1. PICK b \in Dors(card) :
          /\ IsDor(card, b)
          /\ job' = [NewJob("update", "preserve") EXCEPT
                        !.bank = b,
                        !.image = [body |-> Code(NextDor(card, b)),
                                   top |-> IF b = Top THEN card[Top].top ELSE Code(0)]]
  BY DEF UpdateApp
<1> DEFINE image == [body |-> Code(NextDor(card, b)), top |-> IF b = Top THEN card[Top].top ELSE Code(0)]
           d == [card EXCEPT ![b] = image]
           low == Lowest(card)
<1>2. /\ card \in [Bank -> Content] /\ GoodCard(card) /\ card' = card /\ InOrder(card) /\ b \in Bank \ {0}
      /\ Laid(card, low, low, low)
  BY CoreTyped, DorsAreBanks DEF UpdateApp, LaidInv, InOrder
<1>3. /\ Banks \in Nat /\ Top \in Nat /\ Bank = 0 .. Top /\ Banks = Top + 1 /\ b \in Nat /\ b # 0
      /\ low \in Nat /\ (low = Banks \/ low \in Bank) /\ (AppBanks(card) = 0 <=> low = Banks)
  <2>1. low \in Nat /\ (low = Banks \/ low \in Bank) /\ (AppBanks(card) = 0 <=> low = Banks)
    BY <1>2, LowestIs
  <2> QED  BY <1>2, <2>1, Sizes
<1> HIDE DEF low
<1>4. AppBanks(card) # 0
  BY <1>1, NoDors
<1>5. b >= low /\ card[b].body = Code(NextDor(card, b)) /\ low \in Bank
  <2>1. low \in Bank /\ low <= low /\ Linked(card, low, low)
    BY <1>2, <1>3, <1>4 DEF Laid
  <2> QED  BY <1>1, <1>2, <1>3, <1>4, <2>1, ListIs
<1>6. /\ \A h \in Bank : HasHeader(card, h) => h < b
      /\ card[b].top.is # "oz"
  BY <1>1, <1>2, HeadersUnderDor
<1>7. job' = JobRecord("update", "preserve", "end", b, image, Sectors - 1, 0, 0)
  BY <1>1, NewJobIs DEF JobRecord
<1>8. image.body = card[b].body /\ image.top = IF b = Top THEN card[Top].top ELSE Code(0)
  BY <1>5
<1> HIDE DEF image
<1>9. job'.cmd = "update" /\ job'.pc = "preserve" /\ job'.then = "end" /\ job'.bank = b /\ job'.image = image
  BY <1>7 DEF JobRecord
<1>10. Lowest(d) = low
  <2>1. d[Top].top = card[Top].top
    BY <1>2, <1>3, <1>8
  <2> QED  BY <2>1, SameLowest DEF low
<1>11. Laid(d, low, low, low)
  <2>1. card[b].top # Files /\ card[b].body = Code(IF b > low THEN b - 1 ELSE 0)
    BY <1>2, <1>5 DEF Laid, Linked
  <2>2. image.top # Files /\ image.top.is # "oz"
    BY <1>6, <1>8, <2>1 DEF Code, Files
  <2> QED  BY <1>2, <1>3, <1>5, <1>6, <1>8, <2>1, <2>2, BankReplaced
<1> HIDE DEF d
<1>12. d = [card EXCEPT ![job'.bank] = job'.image]
  BY <1>9 DEF d
<1>13. low = Lowest(d) - (IF job'.then = "count" THEN 1 ELSE 0)
  BY <1>3, <1>9, <1>10
<1> QED  BY <1>2, <1>9, <1>11, <1>12, <1>13, PreservingLaid

----------------------------------------------------------------------------
(* The sector that is rewritten *)

\* What has to be shown while a sector is rewritten: the card that comes of it stays the same.
LEMMA RewritingLaid ==
    ASSUME Core, LaidInv, hurt = 0, job.pc \in Applying, job'.pc \in {"sector", "blow", "restore"},
           job'.cmd = job.cmd, job'.then = job.then, job'.bank = job.bank, job'.image = job.image,
           job'.old = IF Rewriting THEN job.old ELSE [b \in OthersOf(job.bank) |-> card[b]],
           \A b \in Bank : b \notin BanksOf(SectorOf(job.bank)) => card'[b] = card[b]
    PROVE  LaidInv'
<1>1. Running /\ job.cmd \in {"add", "update"} /\ job.bank \in Bank
  BY ApplyJob
<1>2. Final' = Final
  <2> SUFFICES ASSUME NEW b \in Bank PROVE Final'[b] = Final[b]
    BY DEF Final
  <2>1. CASE b = job.bank
    BY <2>1 DEF Final
  <2>2. CASE b # job.bank /\ b \in OthersOf(job.bank)
    BY <2>2 DEF Final, Rewriting
  <2>3. CASE b # job.bank /\ b \notin OthersOf(job.bank)
    <3>1. b \notin BanksOf(SectorOf(job.bank))
      BY <2>3 DEF OthersOf
    <3> QED  BY <2>3, <3>1 DEF Final
  <2> QED  BY <2>1, <2>2, <2>3
<1> DEFINE final == Lowest(Final) - (IF job.then = "count" THEN 1 ELSE 0)
<1>3. Laid(Final, final, final, final)
  BY <1>1 DEF LaidInv, LaidJob
<1>4. LaidJob'
  BY <1>1, <1>2, <1>3 DEF LaidJob
<1> QED  BY <1>1, <1>4, RunningLaid DEF Running

\* What has to be shown where a sector is complete.
LEMMA SectorDoneLaid ==
    ASSUME Core, LaidInv, hurt = 0, job.pc \in {"blow", "restore"}, card' = Final, SectorDone
    PROVE  LaidInv'
<1>1. job.pc \in Applying
  BY DEF Applying
<1>2. Running /\ job \in Jobs /\ job.cmd \in {"add", "update"} /\ job.then \in {"end", "count"}
  BY <1>1, ApplyJob
<1> DEFINE final == Lowest(Final) - (IF job.then = "count" THEN 1 ELSE 0)
<1>3. Laid(Final, final, final, final)
  BY <1>1, <1>2 DEF LaidInv, LaidJob
<1>4. CASE job.then = "count"
  <2>1. job'.cmd = job.cmd /\ job'.pc = "count"
    BY <1>2, <1>4 DEF SectorDone, Jobs
  <2>2. LaidJob'
    BY <1>2, <1>3, <1>4, <2>1 DEF LaidJob, Applying
  <2> QED  BY <1>2, <2>1, <2>2, RunningLaid DEF Running
<1>5. CASE job.then = "end"
  <2>1. Final \in [Bank -> Content]
    BY <1>1, FinalTyped
  <2>2. final = Lowest(Final)
    BY <1>5, <2>1, LowestIs
  <2>3. InOrder(card')
    BY <1>3, <2>2 DEF InOrder
  <2>4. job' = Ended(job.cmd, job.old)
    BY <1>5 DEF SectorDone
  <2> QED  BY <2>3, <2>4, EndedLaid
<1> QED  BY <1>2, <1>4, <1>5

LEMMA PreserveSectorBanksLaid == ASSUME Core, LaidInv, hurt = 0, PreserveSectorBanks PROVE LaidInv'
<1> DEFINE old == [b \in OthersOf(job.bank) |-> card[b]]
           dom == DOMAIN pres'
<1>1. job.pc = "preserve" /\ card' = card
      /\ job' = [job EXCEPT !.pc = "sector", !.tries = Retries, !.rest = dom, !.old = old]
  BY DEF PreserveSectorBanks
<1>2. job.pc \in Applying /\ ~Rewriting
  BY <1>1 DEF Applying, Rewriting
<1>3. job \in Jobs
  BY <1>2, ApplyJob
<1> HIDE DEF old, dom
<1>4. /\ job'.cmd = job.cmd /\ job'.pc = "sector" /\ job'.then = job.then
      /\ job'.bank = job.bank /\ job'.image = job.image /\ job'.old = old
  BY <1>1, <1>3 DEF Jobs
<1>5. job'.old = IF Rewriting THEN job.old ELSE [b \in OthersOf(job.bank) |-> card[b]]
  BY <1>2, <1>4 DEF old
<1> QED  BY <1>1, <1>2, <1>4, <1>5, RewritingLaid

LEMMA EraseSectorLaid == ASSUME Core, LaidInv, hurt = 0, EraseSector PROVE LaidInv'
<1>1. job.pc = "sector" /\ card' = Wipe(card, SectorOf(job.bank)) /\ job' = [job EXCEPT !.pc = "blow"]
  BY DEF EraseSector
<1>2. job.pc \in Applying /\ Rewriting
  BY <1>1 DEF Applying, Rewriting
<1>3. job \in Jobs
  BY <1>2, ApplyJob
<1>4. /\ job'.cmd = job.cmd /\ job'.pc = "blow" /\ job'.then = job.then
      /\ job'.bank = job.bank /\ job'.image = job.image /\ job'.old = job.old
  BY <1>1, <1>3 DEF Jobs
<1>5. \A b \in Bank : b \notin BanksOf(SectorOf(job.bank)) => card'[b] = card[b]
  BY <1>1 DEF Wipe, BanksOf
<1> QED  BY <1>2, <1>4, <1>5, RewritingLaid

LEMMA EraseSectorAgainLaid ==
    ASSUME Core, LaidInv, hurt = 0, EraseSectorError, job.tries > 1
    PROVE  LaidInv'
<1>1. /\ job.pc \in {"sector", "top"} /\ card' \in {card, Scramble(card, SectorOf(job.bank))}
      /\ job' = [job EXCEPT !.tries = @ - 1]
  BY DEF EraseSectorError
<1>2. Running /\ job \in Jobs /\ AddInv /\ job.cmd \in {"add", "update"} /\ card \in [Bank -> Content]
  BY <1>1, AddingIs DEF Applying
<1>3. /\ job'.cmd = job.cmd /\ job'.pc = job.pc /\ job'.then = job.then
      /\ job'.bank = job.bank /\ job'.image = job.image /\ job'.old = job.old
  BY <1>1, <1>2 DEF Jobs
<1>4. CASE job.pc = "sector"
  <2>1. job.pc \in Applying /\ Rewriting
    BY <1>4 DEF Applying, Rewriting
  <2>2. \A b \in Bank : b \notin BanksOf(SectorOf(job.bank)) => card'[b] = card[b]
    BY <1>1 DEF Scramble, BanksOf
  <2> QED  BY <1>3, <1>4, <2>1, <2>2, RewritingLaid
<1>5. CASE job.pc = "top"
  <2>1. SectorOf(job.bank) = Sectors - 1
    BY <1>2, <1>5, TopEnds DEF AddInv
  <2>2. Wipe(card', Sectors - 1) = Wipe(card, Sectors - 1)
    BY <1>1, <2>1 DEF Wipe, Scramble
  <2>3. Laid(Wipe(card, Sectors - 1), Banks, Banks, Top)
    BY <1>2, <1>5 DEF LaidInv, LaidJob
  <2>4. LaidJob'
    BY <1>2, <1>3, <1>5, <2>2, <2>3 DEF LaidJob, Applying
  <2> QED  BY <1>2, <1>3, <1>5, <2>4, RunningLaid DEF Running
<1> QED  BY <1>1, <1>4, <1>5

LEMMA BlowBufferLaid == ASSUME Core, LaidInv, hurt = 0, BlowBuffer PROVE LaidInv'
<1>1. job.pc = "blow"
  BY DEF BlowBuffer
<1>2. job.pc \in Applying /\ Rewriting
  BY <1>1 DEF Applying, Rewriting
<1>3. job \in Jobs /\ job.bank \in Bank
  BY <1>2, ApplyJob
<1>4. /\ card' = [card EXCEPT ![job.bank] = job.image]
      /\ job.rest = {} => card' = Final
  BY BlowBufferIs
<1>5. CASE job.rest = {}
  BY <1>1, <1>4, <1>5, SectorDoneLaid DEF BlowBuffer
<1>6. CASE job.rest # {}
  <2>1. job' = [job EXCEPT !.pc = "restore"]
    BY <1>6 DEF BlowBuffer
  <2>2. /\ job'.cmd = job.cmd /\ job'.pc = "restore" /\ job'.then = job.then
        /\ job'.bank = job.bank /\ job'.image = job.image /\ job'.old = job.old
    BY <1>3, <2>1 DEF Jobs
  <2>3. \A b \in Bank : b \notin BanksOf(SectorOf(job.bank)) => card'[b] = card[b]
    BY <1>3, <1>4, BanksOfBank
  <2> QED  BY <1>2, <2>2, <2>3, RewritingLaid
<1> QED  BY <1>5, <1>6

LEMMA RestoreBankLaid == ASSUME Core, LaidInv, hurt = 0, RestoreBank PROVE LaidInv'
<1>1. job.pc = "restore"
  BY DEF RestoreBank
<1>2. job.pc \in Applying /\ Rewriting
  BY <1>1 DEF Applying, Rewriting
<1>3. job \in Jobs /\ job.bank \in Bank
  BY <1>2, ApplyJob
<1> DEFINE b == NextToRestore
<1>4. /\ b \in job.rest /\ b \in OthersOf(job.bank)
      /\ card' = [card EXCEPT ![b] = job.old[b]]
      /\ job.rest = {b} => card' = Final
  BY RestoreBankIs
<1>5. IF job.rest = {b} THEN SectorDone ELSE job' = [job EXCEPT !.rest = @ \ {b}]
  BY DEF RestoreBank
<1> HIDE DEF b
<1>6. CASE job.rest = {b}
  BY <1>1, <1>4, <1>5, <1>6, SectorDoneLaid
<1>7. CASE job.rest # {b}
  <2>1. /\ job'.cmd = job.cmd /\ job'.pc = "restore" /\ job'.then = job.then
        /\ job'.bank = job.bank /\ job'.image = job.image /\ job'.old = job.old
    BY <1>1, <1>3, <1>5, <1>7 DEF Jobs
  <2>2. \A k \in Bank : k \notin BanksOf(SectorOf(job.bank)) => card'[k] = card[k]
    BY <1>4 DEF OthersOf
  <2> QED  BY <1>2, <2>1, <2>2, RewritingLaid
<1> QED  BY <1>6, <1>7

LEMMA InitLaid == Init => LaidInv
<1> SUFFICES ASSUME Init PROVE LaidInv
  OBVIOUS
<1>1. /\ rom \in 0 .. Banks /\ rom \in Nat /\ Banks \in Nat /\ Banks = Top + 1 /\ Bank = 0 .. Top
      /\ Top \in Nat
      /\ \/ card = Fresh(rom)
         \/ rom > 0 /\ Request(Fresh(rom)).kind = "potential" /\ card = WithArea(Fresh(rom))
  BY UpdateAssumption, Sizes DEF Init
<1> DEFINE c == Fresh(rom)
           low == Banks - rom
<1>2. /\ c \in [Bank -> Content] /\ AppBanks(c) = rom
      /\ \A b \in Bank : ~HasHeader(c, b)
      /\ \A b \in Bank : b < low => c[b] = Empty
      /\ \A b \in Bank : ~(b < low) =>
            /\ c[b].body = Code(IF b = low THEN 0 ELSE b - 1)
            /\ c[b].top = IF b = Top THEN AppHeader(rom) ELSE Code(0)
  BY <1>1, FreshIs
<1>3. low \in Nat /\ Lowest(c) = low
  BY <1>1, <1>2 DEF Lowest
<1>4. c = Fresh(rom)
  OBVIOUS
<1> HIDE DEF low, c
<1>5. Linked(c, low, low)
  <2> SUFFICES ASSUME NEW b \in Bank, b >= low
               PROVE  c[b].body = Code(IF b > low THEN b - 1 ELSE 0) /\ c[b].top # Files
    BY DEF Linked
  <2>1. ~(b < low) /\ (b > low <=> b # low)
    BY <1>1, <1>3
  <2> QED  BY <1>2, <2>1 DEF AppHeader, Code, Files
<1>6. CASE card = c
  <2>1. Vacant(card, low) /\ Intact(card, low) /\ Placed(card, low)
    BY <1>2, <1>6, Kinds DEF Vacant, Intact, Placed
  <2>2. InOrder(card) /\ job.pc = "idle"
    BY <1>3, <1>5, <1>6, <2>1 DEF InOrder, Laid, Init, Ended
  <2> QED  BY <2>2 DEF LaidInv, Running
<1>7. CASE rom > 0 /\ Request(c).kind = "potential" /\ card = WithArea(c)
  <2>1. PICK h \in Bank :
              /\ h < low /\ h # Top /\ Boundary(card) = h
              /\ card[h].body = Blank /\ card[h].top = FileHeader(h + 1)
              /\ \A b \in Bank : b # h => card[b] = c[b]
    BY <1>1, <1>4, <1>7, WithAreaIs DEF low
  <2>2. card \in [Bank -> Content] /\ AppBanks(card) = rom /\ GoodCard(card)
    BY <1>1, <1>4, <1>7, WithAreaIs
  <2>3. Lowest(card) = low
    BY <2>2 DEF Lowest, low
  <2>4. h = Border(low)
    BY <1>7, <2>1, <2>2, <2>3, BorderBoundary
  <2>5. AboveArea(card, h)
    <3>1. Linked(card, low, low)
      BY <1>1, <1>3, <1>5, <2>1 DEF Linked
    <3> QED  BY <1>1, <1>2, <2>1, <2>3, <3>1 DEF AboveArea
  <2>6. \A b \in Bank : b < h => card[b] = Empty
    BY <1>1, <1>2, <1>3, <2>1
  <2>7. InOrder(card)
    BY <2>1, <2>2, <2>3, <2>4, <2>5, <2>6, AreaInOrder
  <2>8. job.pc = "idle"
    BY DEF Init, Ended
  <2> QED  BY <2>7, <2>8 DEF LaidInv, Running
<1> QED  BY <1>1, <1>4, <1>6, <1>7

LEMMA LaidStep == ASSUME Core, Core', LaidInv, [Next]_vars PROVE LaidInv'
<1>1. CASE UNCHANGED vars
  BY <1>1 DEF vars, LaidInv, LaidJob, Idle, Running, Final, Rewriting
<1>2. CASE hurt' # 0
  BY <1>2 DEF LaidInv
<1>3. CASE Next /\ hurt' = 0
  <2>1. hurt \in 0 .. MaxHurt /\ MaxHurt \in Nat
    BY CoreTyped, UpdateAssumption
  <2>2. hurt + 1 # 0
    BY <2>1
  <2>3. ~Reset /\ ~EraseError /\ ~BlowHeaderError /\ ~RamError /\ ~BlowError
        /\ (EraseSectorError => job.tries > 1)
    BY <1>3, <2>2 DEF Reset, EraseError, BlowHeaderError, RamError, BlowError, EraseSectorError
  <2>4. \/ SaveFile \/ Format \/ AddApp \/ UpdateApp
        \/ FormatRefused \/ FormatSector \/ ReduceSector \/ BlowHeader \/ BlowHeaderAstray
        \/ SaveNullFile \/ PickBank \/ EraseTopSector \/ Install \/ LinkDor \/ CountBank
        \/ PreserveSectorBanks \/ EraseSector \/ BlowBuffer \/ RestoreBank
        \/ EraseSectorError
    BY <1>3, <2>3 DEF Next, Step, Errors
  <2>5. hurt = 0
    BY <1>3, <2>3, <2>4 DEF SaveFile, Format, AddApp, UpdateApp, FormatRefused, FormatSector, ReduceSector,
         BlowHeader, BlowHeaderAstray, SaveNullFile, PickBank, EraseTopSector, Install, LinkDor, CountBank,
         PreserveSectorBanks, EraseSector, BlowBuffer, RestoreBank, EraseSectorError
  <2>6. CASE SaveFile
    BY <2>5, <2>6, SaveFileLaid
  <2>7. CASE Format
    BY <2>5, <2>7, FormatLaid
  <2>8. CASE AddApp
    BY <2>5, <2>8, AddAppLaid
  <2>9. CASE UpdateApp
    BY <2>5, <2>9, UpdateAppLaid
  <2>10. CASE FormatRefused
    BY <2>5, <2>10, FormatRefusedLaid
  <2>11. CASE FormatSector
    BY <2>5, <2>11, FormatSectorLaid
  <2>12. CASE ReduceSector
    BY <2>5, <2>12, ReduceSectorLaid
  <2>13. CASE BlowHeader
    <3>1. job.cmd \in {"format", "reduce"}
      BY <2>13, NoHeaderYet DEF BlowHeader
    <3> QED  BY <2>5, <2>13, <3>1, BlowFormatLaid, BlowReducedLaid
  <2>14. CASE SaveNullFile
    BY <2>5, <2>14, SaveNullFileLaid
  <2>15. CASE PickBank
    BY <2>5, <2>15, PickBankLaid
  <2>16. CASE EraseTopSector
    BY <2>5, <2>16, EraseTopSectorLaid
  <2>17. CASE Install
    BY <2>5, <2>17, InstallLaid
  <2>18. CASE LinkDor
    BY <2>5, <2>18, LinkDorLaid
  <2>19. CASE CountBank
    BY <2>5, <2>19, CountBankLaid
  <2>20. CASE PreserveSectorBanks
    BY <2>5, <2>20, PreserveSectorBanksLaid
  <2>21. CASE EraseSector
    BY <2>5, <2>21, EraseSectorLaid
  <2>22. CASE BlowBuffer
    BY <2>5, <2>22, BlowBufferLaid
  <2>23. CASE RestoreBank
    BY <2>5, <2>23, RestoreBankLaid
  <2>24. CASE EraseSectorError
    BY <2>3, <2>5, <2>24, EraseSectorAgainLaid
  <2>25. CASE BlowHeaderAstray
    BY <2>5, <2>25, BlowHeaderAstrayLaid
  <2> QED  BY <2>4, <2>6, <2>7, <2>8, <2>9, <2>10, <2>11, <2>12, <2>13, <2>14, <2>15, <2>16, <2>17,
              <2>18, <2>19, <2>20, <2>21, <2>22, <2>23, <2>24, <2>25
<1> QED  BY <1>1, <1>2, <1>3

\* FlashEprRequest, ApplRomFirstDOR and the operations that change a card: as long as none of them
\* fails, header, file area and list of applications agree between operations; the area that is
\* on a card is found, has all files and no gaps, and the list has all the banks that the card
\* header counts.
THEOREM CardIsConsistent == Spec => []CardConsistent
<1>1. Init => LaidInv
  BY InitLaid
<1>2. Core /\ Core' /\ LaidInv /\ [Next]_vars => LaidInv'
  BY LaidStep
<1>3. Core /\ LaidInv => CardConsistent
  BY LaidConsistent
<1> QED  BY <1>1, <1>2, <1>3, CoreInvariant, PTL DEF Spec
=============================================================================
