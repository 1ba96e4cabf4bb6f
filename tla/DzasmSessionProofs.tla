------------------------ MODULE DzasmSessionProofs ------------------------
(***************************************************************************)
(* Proofs about a session of DZasm with a user who knows where the code is. *)
(* Whatever commands he gives, in whatever order, the areas cover the code, *)
(* pass 1 makes nothing unknown that was known, work that the collect file  *)
(* has not is flagged, and pass 2 prints the instructions that pass 1 met   *)
(* and every byte of the code once.                                         *)
(***************************************************************************)
EXTENDS DzasmProofs

----------------------------------------------------------------------------
(* Induction on a number *)

LEMMA Upwards ==
    ASSUME NEW n \in Nat, NEW T, 0 \in T, \A k \in 1..n : k - 1 \in T => k \in T
    PROVE  0..n \subseteq T
<1> DEFINE Wrong == {k \in 0..n : k \notin T}
<1> SUFFICES ASSUME Wrong # {} PROVE FALSE
  OBVIOUS
<1>1. PICK k \in Wrong : \A y \in Wrong : k <= y
  <2>1. Wrong \subseteq Nat  OBVIOUS
  <2> QED  BY <2>1, LeastNumber
<1>2. k # 0
  OBVIOUS
<1>3. k \in 1..n /\ k - 1 \in 0..n /\ ~(k <= k - 1)
  BY <1>2
<1>4. k - 1 \in T
  BY <1>1, <1>3
<1> QED  BY <1>3, <1>4

----------------------------------------------------------------------------
(* Code files *)

\* What instructions of a tidy user's code file are like.
LEMMA Instructions ==
    ASSUME Tidy, NEW m \in Images, NEW b \in Begins(m)
    PROVE  LET i == Instr(m, b) IN
           /\ b \in Int /\ b \in Code /\ i.next \in Int /\ b < i.next /\ i.next <= gEndOfCode + 1
           /\ i.ends = {} \/ i.ends = {i.next - 1}
           /\ i.ends = {} => i.next \in Begins(m) \union {gEndOfCode + 1}
           /\ \A t \in i.targets : t \in Int /\ (t \in Begins(m) \/ Extern(t))
           /\ \A d \in Begins(m) : d <= b \/ i.next <= d
<1> DEFINE i == Instr(m, b)
<1>1. WellCut(m) /\ m \in [Code -> Byte]
  BY TidyAssumption, SessionAssumption
<1>2. /\ b \in Code /\ i.next <= gEndOfCode + 1
      /\ i.ends = {} => i.next \in Begins(m) \union {gEndOfCode + 1}
      /\ \A t \in i.targets : t \in Begins(m) \/ Extern(t)
      /\ \A d \in Begins(m) : d <= b \/ i.next <= d
  BY <1>1 DEF WellCut
<1>3. b \in Int
  BY <1>2, CodeNotExtern
<1>4. Turn(i, b + 1)
  BY <1>1, <1>3, InstrForward
<1> HIDE DEF i
<1>5. /\ i.next \in Int /\ i.next >= b + 1
      /\ i.ends = {} \/ i.ends = {i.next - 1}
      /\ \A t \in i.targets : t \in Int
  BY <1>4 DEF Turn
<1> QED  BY <1>2, <1>3, <1>5 DEF i

Limits == /\ Org \in Nat /\ gEndOfCode \in Int /\ Org <= gEndOfCode
          /\ gEndOfCode < MAXCODESIZE /\ Code = Org..gEndOfCode

LEMMA CodeLimits == Limits /\ Code \subseteq Int
  BY SessionAssumption DEF Limits, gEndOfCode, Code, MAXCODESIZE

\* No instruction has bytes on both sides of an address.
Boundary(m, x) == \A b \in Begins(m) : b < x => Instr(m, b).next <= x

\* No instruction goes on at an address from the one before.
Stop(m, x) == \A b \in Begins(m) : Instr(m, b).next = x => Instr(m, b).ends # {}

\* Bytes of no instruction.
Free(m, start, end) ==
    \A b \in Begins(m) : (b..(Instr(m, b).next - 1)) \intersect (start..end) = {}

\* Code that pass 1 has followed from start to end.
Run(m, start, end) ==
    /\ start \in Begins(m) /\ end \in Int /\ start <= end /\ end <= gEndOfCode
    /\ Boundary(m, end + 1) /\ (end = gEndOfCode \/ Stop(m, end + 1))
    /\ \A x \in start..end : \E b \in Begins(m) :
          /\ start <= b /\ b <= x /\ x < Instr(m, b).next
          /\ Instr(m, b).next = end + 1 \/ Instr(m, b).ends = {}

\* The same, on the way: it goes on at next.
Walked(m, start, next) ==
    /\ start \in Begins(m) /\ next \in Begins(m) \union {gEndOfCode + 1} /\ start <= next
    /\ \A x \in start..(next - 1) : \E b \in Begins(m) :
          /\ start <= b /\ b <= x /\ x < Instr(m, b).next
          /\ Instr(m, b).ends = {}

LEMMA BeginsAreBoundaries ==
    ASSUME Tidy, NEW m \in Images, NEW b \in Begins(m)
    PROVE  Boundary(m, b) /\ Boundary(m, Instr(m, b).next)
<1>1. b \in Int /\ Instr(m, b).next \in Int /\ b < Instr(m, b).next
      /\ \A d \in Begins(m) : d <= b \/ Instr(m, b).next <= d
  BY Instructions
<1>2. \A d \in Begins(m) :
          d \in Int /\ Instr(m, d).next \in Int /\ (b <= d \/ Instr(m, d).next <= b)
  BY Instructions
<1>3. Boundary(m, b)
  BY <1>1, <1>2 DEF Boundary
<1>4. ASSUME NEW d \in Begins(m), d < Instr(m, b).next
      PROVE  Instr(m, d).next <= Instr(m, b).next
  <2>1. d <= b
    BY <1>1, <1>2, <1>4
  <2>2. CASE d = b  BY <1>1, <2>2
  <2>3. CASE d # b  BY <1>1, <1>2, <2>1, <2>3
  <2> QED  BY <2>2, <2>3
<1> QED  BY <1>3, <1>4 DEF Boundary

\* The code goes on behind an instruction that does not end an area.
LEMMA WalkGoesOn ==
    ASSUME Tidy, NEW m \in Images, NEW start, NEW next \in Code, Walked(m, start, next),
           Instr(m, next).ends = {}
    PROVE  Walked(m, start, Instr(m, next).next)
<1> DEFINE e == Instr(m, next).next
<1>1. next \in Begins(m) /\ start \in Begins(m) /\ start <= next
  BY CodeLimits DEF Walked, Limits
<1>2. next \in Int /\ start \in Int /\ e \in Int /\ next < e
      /\ e \in Begins(m) \union {gEndOfCode + 1}
  BY <1>1, Instructions
<1> HIDE DEF e
<1>3. ASSUME NEW x \in start..(e - 1)
      PROVE  \E b \in Begins(m) : /\ start <= b /\ b <= x /\ x < Instr(m, b).next
                                  /\ Instr(m, b).ends = {}
  <2>1. CASE x < next
    <3>1. x \in start..(next - 1)  BY <1>2, <2>1
    <3> QED  BY <3>1 DEF Walked
  <2>2. CASE ~(x < next)
    <3>1. next <= x /\ x < e  BY <1>2, <2>2
    <3> QED  BY <1>1, <3>1 DEF e
  <2> QED  BY <2>1, <2>2
<1>4. start <= e
  BY <1>1, <1>2
<1> QED  BY <1>1, <1>2, <1>3, <1>4 DEF Walked, e

\* It ends with an instruction that ends an area, or with the code.
LEMMA WalkEnds ==
    ASSUME Tidy, NEW m \in Images, NEW start, NEW next \in Code, Walked(m, start, next),
           NEW end \in Instr(m, next).ends
    PROVE  Run(m, start, end)
<1>1. next \in Begins(m) /\ start \in Begins(m) /\ start <= next
  BY CodeLimits DEF Walked, Limits
<1>2. /\ next \in Int /\ start \in Int /\ Instr(m, next).next \in Int
      /\ next < Instr(m, next).next /\ Instr(m, next).next <= gEndOfCode + 1
      /\ Instr(m, next).ends = {Instr(m, next).next - 1}
      /\ \A d \in Begins(m) : d <= next \/ Instr(m, next).next <= d
  BY <1>1, Instructions
<1>3. end \in Int /\ end + 1 = Instr(m, next).next /\ next <= end /\ end <= gEndOfCode
  BY <1>2, CodeLimits DEF Limits
<1>4. Boundary(m, end + 1)
  BY <1>1, <1>3, BeginsAreBoundaries
<1>5. ASSUME NEW b \in Begins(m), Instr(m, b).next = end + 1
      PROVE  Instr(m, b).ends # {}
  <2>1. /\ b \in Int /\ b < Instr(m, b).next
        /\ \A d \in Begins(m) : d <= b \/ Instr(m, b).next <= d
    BY Instructions
  <2>2. b <= next /\ next <= b
    BY <1>1, <1>2, <1>3, <1>5, <2>1
  <2>3. b = next
    BY <1>2, <2>1, <2>2
  <2> QED  BY <2>3
<1>6. ASSUME NEW x \in start..end
      PROVE  \E b \in Begins(m) :
                /\ start <= b /\ b <= x /\ x < Instr(m, b).next
                /\ Instr(m, b).next = end + 1 \/ Instr(m, b).ends = {}
  <2>1. CASE x < next
    <3>1. x \in start..(next - 1)  BY <1>2, <2>1
    <3> QED  BY <3>1 DEF Walked
  <2>2. CASE ~(x < next)
    <3>1. next <= x /\ x < end + 1  BY <1>2, <1>3, <2>2
    <3> QED  BY <1>1, <1>3, <3>1
  <2> QED  BY <2>1, <2>2
<1>7. start <= end
  BY <1>1, <1>2, <1>3
<1> QED  BY <1>1, <1>3, <1>4, <1>5, <1>6, <1>7 DEF Run, Stop

LEMMA WalkEndsWithCode ==
    ASSUME Tidy, NEW m \in Images, NEW start, NEW next, Walked(m, start, next),
           next > gEndOfCode
    PROVE  Run(m, start, gEndOfCode)
<1>1. \A b \in Begins(m) : b \in Int /\ b \in Code /\ Instr(m, b).next \in Int
                           /\ Instr(m, b).next <= gEndOfCode + 1
  BY Instructions
<1>2. gEndOfCode \in Int /\ Code = Org..gEndOfCode
  BY CodeLimits DEF Limits
<1>3. start \in Begins(m) /\ next = gEndOfCode + 1 /\ next - 1 = gEndOfCode
  BY <1>1, <1>2 DEF Walked
<1>4. start \in Int /\ start <= gEndOfCode
  BY <1>1, <1>2, <1>3
<1>5. Boundary(m, gEndOfCode + 1)
  BY <1>1 DEF Boundary
<1>6. \A x \in start..gEndOfCode : \E b \in Begins(m) :
          /\ start <= b /\ b <= x /\ x < Instr(m, b).next
          /\ Instr(m, b).next = gEndOfCode + 1 \/ Instr(m, b).ends = {}
  BY <1>3 DEF Walked
<1>7. gEndOfCode <= gEndOfCode
  BY <1>2
<1> QED  BY <1>2, <1>3, <1>4, <1>5, <1>6, <1>7 DEF Run

\* The edges of a range without instructions are between instructions.
LEMMA FreeEdges ==
    ASSUME Tidy, NEW m \in Images, NEW start \in Code, NEW end \in Code, start <= end,
           Free(m, start, end)
    PROVE  /\ Boundary(m, start) /\ Boundary(m, end + 1)
           /\ Stop(m, start) /\ Stop(m, end + 1)
           /\ Begins(m) \intersect (start..end) = {}
<1>1. start \in Int /\ end \in Int /\ start # gEndOfCode + 1
  BY CodeLimits DEF Limits
<1>2. ASSUME NEW b \in Begins(m)
      PROVE  /\ b \in Int /\ Instr(m, b).next \in Int /\ b < Instr(m, b).next
             /\ Instr(m, b).ends = {} => Instr(m, b).next \in Begins(m) \union {gEndOfCode + 1}
  BY Instructions
<1>3. ASSUME NEW b \in Begins(m), NEW x \in start..end
      PROVE  ~(b <= x /\ x < Instr(m, b).next)
  <2>1. b <= x /\ x < Instr(m, b).next => x \in b..(Instr(m, b).next - 1)
    BY <1>1, <1>2
  <2> QED  BY <2>1 DEF Free
<1>4. start \in start..end /\ end \in start..end
  BY <1>1
<1>5. Begins(m) \intersect (start..end) = {}
  <2>1. \A b \in Begins(m) : b \notin start..end
    BY <1>1, <1>2, <1>3
  <2> QED  BY <2>1
<1>6. Boundary(m, start) /\ Boundary(m, end + 1)
  <2>1. ASSUME NEW b \in Begins(m), b < start PROVE Instr(m, b).next <= start
    BY <1>1, <1>2, <1>3, <1>4, <2>1
  <2>2. ASSUME NEW b \in Begins(m), b < end + 1 PROVE Instr(m, b).next <= end + 1
    BY <1>1, <1>2, <1>3, <1>4, <2>2
  <2> QED  BY <2>1, <2>2 DEF Boundary
<1>7. ASSUME NEW b \in Begins(m), Instr(m, b).next = start PROVE Instr(m, b).ends # {}
  BY <1>1, <1>2, <1>4, <1>5, <1>7
<1>8. ASSUME NEW b \in Begins(m), Instr(m, b).next = end + 1 PROVE FALSE
  <2>1. b <= end /\ end < Instr(m, b).next
    BY <1>1, <1>2, <1>8
  <2> QED  BY <1>3, <1>4, <2>1
<1> QED  BY <1>5, <1>6, <1>7, <1>8 DEF Stop

----------------------------------------------------------------------------
(* What is true of the list of areas *)

\* An area starts between instructions; where it is data there are none; and code
\* that goes on does not leave it.
AreaOk(m, a) ==
    /\ Boundary(m, a.start)
    /\ a.type \notin {"vacuum", "program"} => Begins(m) \intersect (a.start..a.end) = {}
    /\ a.type = "program" => a.end = gEndOfCode \/ Stop(m, a.end + 1)

\* No two unknown areas lie side by side.
VoidsApart(list) == \A k \in 2..Len(list) : list[k - 1].type # "vacuum" \/ list[k].type # "vacuum"

Settled(m, list) ==
    /\ list \in Seq(Areas) /\ Partition(list, Org, gEndOfCode)
    /\ \A k \in 1..Len(list) : AreaOk(m, list[k])
    /\ VoidsApart(list)

\* No area starts inside the range.
Whole(list, start, end) == \A k \in 1..Len(list) : list[k].start \notin (start + 1)..end

\* Nothing known of list is unknown in s.
StillKnown(list, s) ==
    \A x \in Code : SearchArea(s, x) = "vacuum" => SearchArea(list, x) = "vacuum"

\* Areas of s start where those of list do, or at an edge of the range.
StartsAmong(list, s, start, end) ==
    \A k \in 1..Len(s) :
        s[k].start \in {start, end + 1} \union {list[h].start : h \in 1..Len(list)}

LEMMA InOrder2 ==
    ASSUME NEW list \in Seq(Areas), NEW low, NEW high, Partition(list, low, high)
    PROVE  /\ ValidAreas(list) /\ Len(list) \in Nat \ {0}
           /\ list[1].start = low /\ list[Len(list)].end = high
           /\ \A k \in 1..Len(list) : list[k].start <= list[k].end
           /\ \A k \in 2..Len(list) : list[k].start = list[k - 1].end + 1
<1>1. ValidAreas(list) /\ Len(list) \in Nat \ {0}
      /\ list[1].start = low /\ list[Len(list)].end = high
  BY DEF Partition
<1>2. \A k \in 1..Len(list) : list[k].start <= list[k].end
  BY <1>1 DEF ValidAreas
<1>3. \A k \in 2..Len(list) : k \in DOMAIN list \ {1}
  OBVIOUS
<1>4. \A k \in 2..Len(list) : list[k].start = list[k - 1].end + 1
  BY <1>1, <1>3 DEF ValidAreas
<1> QED  BY <1>1, <1>2, <1>4

\* The areas of a list lie in the code.
LEMMA AreasInCode ==
    ASSUME NEW list \in Seq(Areas), Partition(list, Org, gEndOfCode), NEW k \in 1..Len(list)
    PROVE  Org <= list[k].start /\ list[k].end <= gEndOfCode
<1>1. /\ ValidAreas(list) /\ Len(list) \in Nat \ {0}
      /\ list[1].start = Org /\ list[Len(list)].end = gEndOfCode
      /\ \A h \in 1..Len(list) : list[h].start <= list[h].end
  BY InOrder2
<1>2. /\ list[k].start \in Int /\ list[k].end \in Int
      /\ list[1].end \in Int /\ list[1].start \in Int
      /\ list[Len(list)].end \in Int /\ list[Len(list)].start \in Int
  BY <1>1, AreaFields
<1>3. 1 \in 1..Len(list) /\ Len(list) \in 1..Len(list)
  BY <1>1
<1>4. Org <= list[k].start
  <2>1. CASE k = 1
    BY <1>1, <1>2, <2>1
  <2>2. CASE k # 1
    <3>1. list[1].end < list[k].start
      BY <1>1, <1>3, <2>2, Ordered
    <3> QED  BY <1>1, <1>2, <1>3, <3>1
  <2> QED  BY <2>1, <2>2
<1>5. list[k].end <= gEndOfCode
  <2>1. CASE k = Len(list)
    BY <1>1, <1>2, <2>1
  <2>2. CASE k # Len(list)
    <3>1. list[k].end < list[Len(list)].start
      BY <1>1, <1>3, <2>2, Ordered
    <3> QED  BY <1>1, <1>2, <1>3, <3>1
  <2> QED  BY <2>1, <2>2
<1> QED  BY <1>4, <1>5

\* A range that no area starts inside of lies in one area.
LEMMA WholeFits ==
    ASSUME NEW list \in Seq(Areas), Partition(list, Org, gEndOfCode),
           NEW start \in Code, NEW end \in Code, start <= end, Whole(list, start, end)
    PROVE  Fits(list, start, end)
<1>1. start \in Int /\ end \in Int /\ end <= gEndOfCode /\ start \in Org..gEndOfCode
      /\ Org \in Int /\ gEndOfCode \in Int
  BY CodeLimits DEF Limits
<1>2. PICK k \in 1..Len(list) : Holds(list[k], start)
  BY <1>1, Covered
<1>3. /\ list[k].start \in Int /\ list[k].end \in Int
      /\ list[k].start <= start /\ start <= list[k].end
  BY <1>2, AreaFields DEF Holds
<1>4. CASE end <= list[k].end
  BY <1>3, <1>4 DEF Fits
<1>5. CASE ~(end <= list[k].end)
  <2>1. Len(list) \in Nat \ {0} /\ list[Len(list)].end = gEndOfCode
        /\ \A h \in 2..Len(list) : list[h].start = list[h - 1].end + 1
    BY InOrder2
  <2>2. k # Len(list)
    BY <1>1, <1>3, <1>5, <2>1
  <2>3. k + 1 \in 2..Len(list) /\ k + 1 \in 1..Len(list) /\ (k + 1) - 1 = k
    BY <2>1, <2>2
  <2>4. list[k + 1].start = list[k].end + 1
    BY <2>1, <2>3
  <2>5. list[k + 1].start \in (start + 1)..end
    BY <1>1, <1>3, <1>5, <2>4
  <2> QED  BY <2>3, <2>5 DEF Whole
<1> QED  BY <1>4, <1>5

LEMMA FitsWhole ==
    ASSUME NEW list \in Seq(Areas), NEW low, NEW high, Partition(list, low, high),
           NEW start \in Int, NEW end \in Int, Fits(list, start, end)
    PROVE  Whole(list, start, end)
<1>1. PICK k \in 1..Len(list) : list[k].start <= start /\ end <= list[k].end
  BY DEF Fits
<1>2. ValidAreas(list) /\ \A h \in 1..Len(list) : list[h].start <= list[h].end
  BY InOrder2
<1>3. ASSUME NEW h \in 1..Len(list), list[h].start \in (start + 1)..end
      PROVE  FALSE
  <2>1. /\ list[h].start \in Int /\ list[h].end \in Int /\ h \in Int /\ k \in Int
        /\ list[k].start \in Int /\ list[k].end \in Int
    BY AreaFields
  <2>2. h < k => list[h].end < list[k].start
    BY <1>2, <2>1, Ordered
  <2>3. k < h => list[k].end < list[h].start
    BY <1>2, <2>1, Ordered
  <2>4. list[h].start <= list[h].end
    BY <1>2
  <2>5. h # k
    BY <1>1, <1>3, <2>1
  <2> QED  BY <1>1, <1>3, <2>1, <2>2, <2>3, <2>4, <2>5
<1> QED  BY <1>3 DEF Whole
----------------------------------------------------------------------------
(* A range is put in *)

\* The areas c to n with the range start..end in them.
Pieces(c, n, start, end, type) ==
    IF start = c.start
    THEN IF end = n.end THEN <<Area(start, end, type)>>
         ELSE <<Area(start, end, type), Upper(n, end)>>
    ELSE IF end = n.end THEN <<Lower(c, start), Area(start, end, type)>>
         ELSE <<Lower(c, start), Area(start, end, type), Upper(n, end)>>

LEMMA PiecesCover ==
    ASSUME NEW c \in Areas, NEW n \in Areas, NEW start \in Int, NEW end \in Int, NEW type \in Types,
           c.start <= start, start <= end, end <= n.end
    PROVE  LET new == Pieces(c, n, start, end, type) IN
           /\ new \in Seq(Areas) /\ Partition(new, c.start, n.end)
           /\ \A k \in 1..Len(new) :
                 \/ new[k] = Area(start, end, type)
                 \/ new[k] = Lower(c, start) /\ start # c.start
                 \/ new[k] = Upper(n, end) /\ end # n.end
           /\ type # "vacuum" => VoidsApart(new)
<1> DEFINE l == Lower(c, start)
           r == Area(start, end, type)
           u == Upper(n, end)
<1>1. c.start \in Int /\ n.end \in Int /\ c.type \in Types /\ n.type \in Types
  BY DEF Areas
<1>2. /\ l \in Areas /\ l.start = c.start /\ l.end = start - 1 /\ l.type = c.type
      /\ r \in Areas /\ r.start = start /\ r.end = end /\ r.type = type
      /\ u \in Areas /\ u.start = end + 1 /\ u.end = n.end /\ u.type = n.type
  BY <1>1 DEF Areas, Lower, Upper, Area
<1> HIDE DEF l, r, u
<1>3. CASE start = c.start /\ end = n.end
  <2>1. Pieces(c, n, start, end, type) = <<r>>
    BY <1>3 DEF Pieces, r
  <2>2. <<r>> \in Seq(Areas) /\ Len(<<r>>) = 1 /\ <<r>>[1] = r /\ DOMAIN <<r>> = 1..1
    BY <1>2
  <2>3. Partition(<<r>>, c.start, n.end)
    BY <1>1, <1>2, <1>3, <2>2 DEF Partition, ValidAreas
  <2>4. VoidsApart(<<r>>)
    BY <2>2 DEF VoidsApart
  <2> QED  BY <2>1, <2>2, <2>3, <2>4 DEF r
<1>4. CASE start = c.start /\ end # n.end
  <2>1. Pieces(c, n, start, end, type) = <<r, u>>
    BY <1>4 DEF Pieces, r, u
  <2>2. /\ <<r, u>> \in Seq(Areas) /\ Len(<<r, u>>) = 2 /\ DOMAIN <<r, u>> = 1..2
        /\ <<r, u>>[1] = r /\ <<r, u>>[2] = u
    BY <1>2
  <2>3. Partition(<<r, u>>, c.start, n.end)
    BY <1>1, <1>2, <1>4, <2>2 DEF Partition, ValidAreas
  <2>4. type # "vacuum" => VoidsApart(<<r, u>>)
    BY <1>2, <2>2 DEF VoidsApart
  <2> QED  BY <1>4, <2>1, <2>2, <2>3, <2>4 DEF r, u
<1>5. CASE start # c.start /\ end = n.end
  <2>1. Pieces(c, n, start, end, type) = <<l, r>>
    BY <1>5 DEF Pieces, l, r
  <2>2. /\ <<l, r>> \in Seq(Areas) /\ Len(<<l, r>>) = 2 /\ DOMAIN <<l, r>> = 1..2
        /\ <<l, r>>[1] = l /\ <<l, r>>[2] = r
    BY <1>2
  <2>3. Partition(<<l, r>>, c.start, n.end)
    BY <1>1, <1>2, <1>5, <2>2 DEF Partition, ValidAreas
  <2>4. type # "vacuum" => VoidsApart(<<l, r>>)
    BY <1>2, <2>2 DEF VoidsApart
  <2> QED  BY <1>5, <2>1, <2>2, <2>3, <2>4 DEF l, r
<1>6. CASE start # c.start /\ end # n.end
  <2>1. Pieces(c, n, start, end, type) = <<l, r, u>>
    BY <1>6 DEF Pieces, l, r, u
  <2>2. /\ <<l, r, u>> \in Seq(Areas) /\ Len(<<l, r, u>>) = 3 /\ DOMAIN <<l, r, u>> = 1..3
        /\ <<l, r, u>>[1] = l /\ <<l, r, u>>[2] = r /\ <<l, r, u>>[3] = u
    BY <1>2
  <2>3. Partition(<<l, r, u>>, c.start, n.end)
    BY <1>1, <1>2, <1>6, <2>2 DEF Partition, ValidAreas
  <2>4. type # "vacuum" => VoidsApart(<<l, r, u>>)
    BY <1>2, <2>2 DEF VoidsApart
  <2> QED  BY <1>6, <2>1, <2>2, <2>3, <2>4 DEF l, r, u
<1> QED  BY <1>3, <1>4, <1>5, <1>6

\* A range that may be put into the area c.
Insertable(m, c, start, end, type) ==
    /\ type \in Types \ {"vacuum"}
    /\ AreaOk(m, Area(start, end, type))
    /\ Boundary(m, end + 1)
    /\ c.type = "program" => Stop(m, start)

LEMMA PiecesOk ==
    ASSUME NEW m, NEW c \in Areas, NEW n \in Areas, AreaOk(m, c), AreaOk(m, n),
           NEW start \in Int, NEW end \in Int, NEW type, Insertable(m, c, start, end, type),
           start <= c.end, c.start <= start, n.start <= end + 1
    PROVE  AreaOk(m, Lower(c, start)) /\ AreaOk(m, Upper(n, end))
<1> DEFINE l == Lower(c, start)
           u == Upper(n, end)
<1>2. /\ l.start = c.start /\ l.end = start - 1 /\ l.type = c.type
      /\ u.start = end + 1 /\ u.end = n.end /\ u.type = n.type
      /\ c.start \in Int /\ c.end \in Int /\ n.start \in Int /\ n.end \in Int
  BY DEF Areas, Lower, Upper
<1> HIDE DEF l, u
<1>3. AreaOk(m, l)
  <2>1. l.start..l.end \subseteq c.start..c.end /\ l.end + 1 = start
    BY <1>2
  <2>2. l.type = "program" => Stop(m, l.end + 1)
    BY <1>2, <2>1 DEF Insertable
  <2> QED  BY <1>2, <2>1, <2>2 DEF AreaOk
<1>4. AreaOk(m, u)
  <2>1. u.start..u.end \subseteq n.start..n.end
    BY <1>2
  <2>2. Boundary(m, u.start)
    BY <1>2 DEF Insertable
  <2> QED  BY <1>2, <2>1, <2>2 DEF AreaOk
<1> QED  BY <1>3, <1>4 DEF l, u

\* No two unknown areas become neighbours when pieces take the place of areas.
LEMMA SplicedVoids ==
    ASSUME NEW list \in Seq(Areas), VoidsApart(list), NEW low, NEW high, Partition(list, low, high),
           NEW i \in 1..Len(list), NEW j \in i..Len(list),
           NEW new \in Seq(Areas), VoidsApart(new), Len(new) # 0,
           new[1].type = "vacuum" => list[i].type = "vacuum",
           new[Len(new)].type = "vacuum" => list[j].type = "vacuum"
    PROVE  VoidsApart(Splice(list, i, j, new))
<1> DEFINE s == Splice(list, i, j, new)
           n == Len(new)
<1>1. /\ s \in Seq(Areas) /\ Len(s) = i - 1 + n + (Len(list) - j)
      /\ \A k \in 1..(i - 1) : s[k] = list[k]
      /\ \A k \in 1..n : s[i - 1 + k] = new[k]
      /\ \A k \in (j + 1)..Len(list) : s[k - j + (i - 1 + n)] = list[k]
  BY Spliced
<1>2. \A m \in 1..Len(s) :
          \/ m \in 1..(i - 1) /\ m \in 1..Len(list) /\ s[m] = list[m]
          \/ \E k \in 1..n : m = i - 1 + k /\ s[m] = new[k]
          \/ \E k \in (j + 1)..Len(list) : m = k - j + (i - 1 + n) /\ s[m] = list[k]
  BY SplicedMember
<1>3. n \in Nat \ {0}
  OBVIOUS
<1> HIDE DEF s, n
<1>4. ASSUME NEW m \in 2..Len(s)
      PROVE  s[m - 1].type # "vacuum" \/ s[m].type # "vacuum"
  <2>1. CASE m \in 1..(i - 1)
    <3>1. m \in 2..Len(list) /\ m \in 1..(i - 1) /\ m - 1 \in 1..(i - 1)  BY <2>1
    <3> QED  BY <1>1, <3>1 DEF VoidsApart
  <2>2. ASSUME NEW k \in 1..n, m = i - 1 + k
        PROVE  s[m - 1].type # "vacuum" \/ s[m].type # "vacuum"
    <3>1. s[m] = new[k]
      BY <1>1, <2>2
    <3>2. CASE k = 1
      <4>1. m - 1 \in 1..(i - 1) /\ i \in 2..Len(list) /\ m - 1 = i - 1
        BY <1>3, <2>2, <3>2
      <4>2. s[m - 1] = list[i - 1]
        BY <1>1, <4>1
      <4> QED  BY <3>1, <3>2, <4>1, <4>2 DEF VoidsApart
    <3>3. CASE k # 1
      <4>1. k \in 2..n /\ k - 1 \in 1..n /\ m - 1 = i - 1 + (k - 1)
        BY <1>3, <2>2, <3>3
      <4>2. s[m - 1] = new[k - 1]
        BY <1>1, <4>1
      <4> QED  BY <3>1, <4>1, <4>2 DEF VoidsApart, n
    <3> QED  BY <3>2, <3>3
  <2>3. ASSUME NEW k \in (j + 1)..Len(list), m = k - j + (i - 1 + n)
        PROVE  s[m - 1].type # "vacuum" \/ s[m].type # "vacuum"
    <3>1. s[m] = list[k] /\ k \in 2..Len(list)
      BY <1>1, <2>3
    <3>2. CASE k = j + 1
      <4>1. n \in 1..n /\ m - 1 = i - 1 + n /\ k - 1 = j
        BY <1>3, <2>3, <3>2
      <4>2. s[m - 1] = new[n]
        BY <1>1, <4>1
      <4> QED  BY <3>1, <4>1, <4>2 DEF VoidsApart, n
    <3>3. CASE k # j + 1
      <4>1. k - 1 \in (j + 1)..Len(list) /\ m - 1 = (k - 1) - j + (i - 1 + n)
        BY <1>3, <2>3, <3>3
      <4>2. s[m - 1] = list[k - 1]
        BY <1>1, <4>1
      <4> QED  BY <3>1, <4>2 DEF VoidsApart
    <3> QED  BY <3>2, <3>3
  <2>4. m \in 1..Len(s)
    OBVIOUS
  <2> QED  BY <1>2, <2>1, <2>2, <2>3, <2>4
<1> QED  BY <1>4 DEF VoidsApart, s
\* What becomes of a list when a range is put in.
Grown(m, list, s, start, end) ==
    Settled(m, s) /\ StillKnown(list, s) /\ StartsAmong(list, s, start, end)

LEMMA PutIn ==
    ASSUME NEW m, NEW list, Settled(m, list),
           NEW i \in 1..Len(list), NEW j \in i..Len(list),
           NEW start \in Int, NEW end \in Int, NEW type,
           Insertable(m, list[i], start, end, type),
           start <= end, list[i].start <= start, start <= list[i].end,
           list[j].start <= end, end <= list[j].end
    PROVE  Grown(m, list, Splice(list, i, j, Pieces(list[i], list[j], start, end, type)),
                 start, end)
<1> DEFINE c == list[i]
           n == list[j]
           new == Pieces(c, n, start, end, type)
           s == Splice(list, i, j, new)
<1>1. /\ list \in Seq(Areas) /\ Partition(list, Org, gEndOfCode) /\ VoidsApart(list)
      /\ \A k \in 1..Len(list) : AreaOk(m, list[k])
  BY DEF Settled
<1>2. j \in 1..Len(list) /\ type \in Types /\ type # "vacuum" /\ ValidAreas(list)
  BY <1>1 DEF Insertable, Partition
<1>3. /\ c \in Areas /\ n \in Areas /\ AreaOk(m, c) /\ AreaOk(m, n)
      /\ c.start \in Int /\ c.end \in Int /\ n.start \in Int /\ n.end \in Int
  BY <1>1, <1>2, AreaFields
<1> HIDE DEF c, n
<1>4. /\ c.start <= start /\ start <= c.end /\ n.start <= end /\ end <= n.end
      /\ n.start <= end + 1 /\ Insertable(m, c, start, end, type)
  BY <1>3 DEF c, n
<1>5. /\ new \in Seq(Areas) /\ Partition(new, c.start, n.end) /\ VoidsApart(new)
      /\ \A k \in 1..Len(new) :
            \/ new[k] = Area(start, end, type)
            \/ new[k] = Lower(c, start) /\ start # c.start
            \/ new[k] = Upper(n, end) /\ end # n.end
  BY <1>2, <1>3, <1>4, PiecesCover
<1>6. AreaOk(m, Lower(c, start)) /\ AreaOk(m, Upper(n, end)) /\ AreaOk(m, Area(start, end, type))
  BY <1>3, <1>4, PiecesOk DEF Insertable
<1>7. /\ Lower(c, start).start = c.start /\ Lower(c, start).end = start - 1
      /\ Lower(c, start).type = c.type
      /\ Upper(n, end).start = end + 1 /\ Upper(n, end).end = n.end
      /\ Upper(n, end).type = n.type
      /\ Area(start, end, type).start = start /\ Area(start, end, type).end = end
      /\ Area(start, end, type).type = type
  BY <1>3 DEF Lower, Upper, Area, Areas
<1>8. Len(new) \in Nat \ {0} /\ new[1].start = c.start /\ new[Len(new)].end = n.end
  BY <1>5, InOrder2
<1> HIDE DEF new
<1>9. s \in Seq(Areas) /\ Partition(s, Org, gEndOfCode)
  BY <1>1, <1>2, <1>5, SplicedPartition DEF c, n
<1>10. \A k \in 1..Len(s) :
          \/ k \in 1..Len(list) /\ s[k] = list[k]
          \/ \E h \in 1..Len(new) : s[k] = new[h]
          \/ \E h \in 1..Len(list) : s[k] = list[h]
  <2>1. \A k \in 1..Len(s) :
          \/ k \in 1..(i - 1) /\ k \in 1..Len(list) /\ s[k] = list[k]
          \/ \E h \in 1..Len(new) : k = i - 1 + h /\ s[k] = new[h]
          \/ \E h \in (j + 1)..Len(list) : k = h - j + (i - 1 + Len(new)) /\ s[k] = list[h]
    BY <1>1, <1>5, SplicedMember
  <2>2. (j + 1)..Len(list) \subseteq 1..Len(list)
    OBVIOUS
  <2> QED  BY <2>1, <2>2
<1>11. VoidsApart(s)
  <2>1. new[1].type = "vacuum" => c.type = "vacuum"
    <3>1. new[1] # Upper(n, end)
      BY <1>3, <1>4, <1>7, <1>8
    <3> QED  BY <1>2, <1>5, <1>7, <1>8, <3>1
  <2>2. new[Len(new)].type = "vacuum" => n.type = "vacuum"
    <3>1. new[Len(new)] # Lower(c, start)
      BY <1>3, <1>4, <1>7, <1>8
    <3>2. Len(new) \in 1..Len(new)
      BY <1>8
    <3> QED  BY <1>2, <1>5, <1>7, <3>1, <3>2
  <2> QED  BY <1>1, <1>5, <1>8, <2>1, <2>2, SplicedVoids DEF c, n
<1> HIDE DEF s
<1>12. \A k \in 1..Len(s) : AreaOk(m, s[k])
  BY <1>1, <1>5, <1>6, <1>10
<1>13. ASSUME NEW x \in Code, SearchArea(s, x) = "vacuum"
       PROVE  SearchArea(list, x) = "vacuum"
  <2>1. x \in Int /\ x \in Org..gEndOfCode /\ Org \in Int /\ gEndOfCode \in Int
    BY CodeLimits DEF Limits
  <2>2. PICK k \in 1..Len(s) : Holds(s[k], x)
    BY <1>9, <2>1, Covered
  <2>3. s[k].type = "vacuum"
    <3>1. ValidAreas(s)
      BY <1>9 DEF Partition
    <3> QED  BY <1>9, <1>13, <2>1, <2>2, <3>1, Found
  <2>4. ASSUME NEW h \in 1..Len(list), Holds(list[h], x), list[h].type = "vacuum"
        PROVE  SearchArea(list, x) = "vacuum"
    BY <1>1, <1>2, <2>1, <2>4, Found
  <2>5. CASE \E h \in 1..Len(list) : s[k] = list[h]
    BY <2>2, <2>3, <2>4, <2>5
  <2>6. CASE \E h \in 1..Len(new) : s[k] = new[h]
    <3>1. \/ s[k] = Area(start, end, type)
          \/ s[k] = Lower(c, start)
          \/ s[k] = Upper(n, end)
      BY <1>5, <2>6
    <3>2. s[k] # Area(start, end, type)
      BY <1>2, <1>7, <2>3
    <3>3. CASE s[k] = Lower(c, start)
      <4>1. c.type = "vacuum"
        BY <1>7, <2>3, <3>3
      <4>2. c.start <= x /\ x <= start - 1
        BY <1>7, <2>2, <3>3 DEF Holds
      <4>3. start <= c.end /\ start \in Int /\ c.end \in Int /\ x \in Int
        BY <1>3, <1>4, <2>1
      <4>4. x <= c.end
        BY <4>2, <4>3
      <4>5. Holds(c, x)
        BY <4>2, <4>4 DEF Holds
      <4> QED  BY <2>4, <4>1, <4>5 DEF c
    <3>4. CASE s[k] = Upper(n, end)
      <4>1. n.type = "vacuum"
        BY <1>7, <2>3, <3>4
      <4>2. end + 1 <= x /\ x <= n.end
        BY <1>7, <2>2, <3>4 DEF Holds
      <4>3. n.start <= end + 1 /\ end \in Int /\ n.start \in Int /\ x \in Int
        BY <1>3, <1>4, <2>1
      <4>4. n.start <= x
        BY <4>2, <4>3
      <4>5. Holds(n, x)
        BY <4>2, <4>4 DEF Holds
      <4> QED  BY <1>2, <2>4, <4>1, <4>5 DEF n
    <3> QED  BY <3>1, <3>2, <3>3, <3>4
  <2> QED  BY <1>10, <2>5, <2>6
<1>14. ASSUME NEW k \in 1..Len(s)
       PROVE  s[k].start \in {start, end + 1} \union {list[h].start : h \in 1..Len(list)}
  <2>1. CASE \E h \in 1..Len(list) : s[k] = list[h]
    BY <2>1
  <2>2. CASE \E h \in 1..Len(new) : s[k] = new[h]
    <3>1. s[k].start \in {start, end + 1, c.start}
      BY <1>5, <1>7, <2>2
    <3> QED  BY <3>1 DEF c
  <2> QED  BY <1>10, <2>1, <2>2
<1> QED  BY <1>9, <1>11, <1>12, <1>13, <1>14 DEF Grown, Settled, StillKnown, StartsAmong, s, new, c, n

\* What InsertArea does, where it may: the areas i to j get the range.
PutsIn(m, list, i, j, start, end, type) ==
    /\ i \in 1..Len(list) /\ j \in i..Len(list)
    /\ start \in Int /\ end \in Int /\ Insertable(m, list[i], start, end, type)
    /\ start <= end /\ list[i].start <= start /\ start <= list[i].end
    /\ list[j].start <= end /\ end <= list[j].end
    /\ InsertArea(list, start, end, type) =
           Splice(list, i, j, Pieces(list[i], list[j], start, end, type))

\* A range of the user, in one area.
LEMMA UserPuts ==
    ASSUME Tidy, NEW m \in Images, NEW list, Settled(m, list),
           NEW start \in Code, NEW end \in Code, start <= end,
           Fits(list, start, end), Free(m, start, end), NEW type \in Types \ {"vacuum"}
    PROVE  /\ ~InsertCrashes(list, start, end)
           /\ \E i : PutsIn(m, list, i, i, start, end, type)
<1>1. list \in Seq(Areas) /\ ValidAreas(list)
  BY DEF Settled, Partition
<1>2. start \in Int /\ end \in Int
  BY CodeLimits
<1>3. PICK i \in 1..Len(list) : list[i].start <= start /\ end <= list[i].end
  <2>1. DOMAIN list = 1..Len(list)
    BY <1>1
  <2> QED  BY <2>1 DEF Fits
<1>4. list[i] \in Areas /\ list[i].start \in Int /\ list[i].end \in Int
  BY <1>1, AreaFields
<1>5. /\ ~InsertCrashes(list, start, end)
      /\ InsertArea(list, start, end, type) = Splice(list, i, i, Cut(list[i], start, end, type))
  BY <1>1, <1>2, <1>3, InsertIsCut
<1>6. Cut(list[i], start, end, type) = Pieces(list[i], list[i], start, end, type)
  <2> DEFINE c == list[i]
  <2>1. c = Area(c.start, c.end, c.type)
    BY <1>4 DEF Areas, Area
  <2> HIDE DEF c
  <2>2. [c EXCEPT !.type = type] = Area(c.start, c.end, type)
    BY <2>1 DEF Area
  <2> QED  BY <2>2 DEF Cut, Pieces, c
<1>7. Insertable(m, list[i], start, end, type)
  <2>1. /\ Boundary(m, start) /\ Boundary(m, end + 1) /\ Stop(m, start) /\ Stop(m, end + 1)
        /\ Begins(m) \intersect (start..end) = {}
    BY FreeEdges
  <2>2. AreaOk(m, Area(start, end, type))
    BY <2>1 DEF AreaOk, Area
  <2> QED  BY <2>1, <2>2 DEF Insertable
<1>8. list[i].start <= start /\ start <= list[i].end /\ list[i].start <= end /\ end <= list[i].end
  BY <1>2, <1>3, <1>4
<1>9. i \in i..Len(list)
  BY <1>1
<1> QED  BY <1>2, <1>5, <1>6, <1>7, <1>8, <1>9 DEF PutsIn

LEMMA UserInserts ==
    ASSUME Tidy, NEW m \in Images, NEW list, Settled(m, list),
           NEW start \in Code, NEW end \in Code, start <= end,
           Fits(list, start, end), Free(m, start, end), NEW type \in Types \ {"vacuum"}
    PROVE  /\ ~InsertCrashes(list, start, end)
           /\ Grown(m, list, InsertArea(list, start, end, type), start, end)
<1>1. ~InsertCrashes(list, start, end) /\ \E i : PutsIn(m, list, i, i, start, end, type)
  BY UserPuts
<1> QED  BY <1>1, PutIn DEF PutsIn

\* Code that pass 1 has followed does not leave an area that is code.
LEMMA RunStaysInArea ==
    ASSUME Tidy, NEW m \in Images, NEW list, Settled(m, list), NEW start, NEW end,
           Run(m, start, end), NEW i \in 1..Len(list), list[i].type = "program",
           list[i].start <= end, start <= list[i].end
    PROVE  end <= list[i].end
<1> DEFINE c == list[i]
<1> SUFFICES ASSUME ~(end <= c.end) PROVE FALSE
  OBVIOUS
<1>1. /\ list \in Seq(Areas) /\ Partition(list, Org, gEndOfCode)
      /\ \A k \in 1..Len(list) : AreaOk(m, list[k])
  BY DEF Settled
<1>2. /\ Len(list) \in Nat \ {0} /\ list[Len(list)].end = gEndOfCode
      /\ \A k \in 2..Len(list) : list[k].start = list[k - 1].end + 1
  BY <1>1, InOrder2
<1>3. /\ start \in Begins(m) /\ end \in Int /\ start <= end /\ end <= gEndOfCode
      /\ \A x \in start..end : \E b \in Begins(m) :
            /\ start <= b /\ b <= x /\ x < Instr(m, b).next
            /\ Instr(m, b).next = end + 1 \/ Instr(m, b).ends = {}
  BY DEF Run
<1>4. \A b \in Begins(m) : b \in Int /\ Instr(m, b).next \in Int
  BY Instructions
<1>5. start \in Int /\ c.start \in Int /\ c.end \in Int /\ gEndOfCode \in Int
  BY <1>1, <1>3, <1>4, AreaFields, CodeLimits DEF Limits
<1>6. c.end \in start..end /\ c.end # gEndOfCode /\ AreaOk(m, c)
  BY <1>1, <1>3, <1>5
<1>7. Stop(m, c.end + 1)
  BY <1>6 DEF AreaOk
<1>8. Boundary(m, c.end + 1)
  <2>1. i # Len(list)
    BY <1>2, <1>6
  <2>2. i + 1 \in 1..Len(list) /\ i + 1 \in 2..Len(list) /\ (i + 1) - 1 = i
    BY <1>2, <2>1
  <2>3. list[i + 1].start = c.end + 1 /\ AreaOk(m, list[i + 1])
    BY <1>1, <1>2, <2>2
  <2> QED  BY <2>3 DEF AreaOk
<1> HIDE DEF c
<1>9. PICK b \in Begins(m) : /\ b <= c.end /\ c.end < Instr(m, b).next
                             /\ Instr(m, b).next = end + 1 \/ Instr(m, b).ends = {}
  BY <1>3, <1>6
<1>10. Instr(m, b).next = c.end + 1
  BY <1>4, <1>5, <1>8, <1>9 DEF Boundary
<1>11. Instr(m, b).ends # {}
  BY <1>7, <1>10 DEF Stop
<1>12. Instr(m, b).next # end + 1
  BY <1>3, <1>5, <1>10
<1> QED  BY <1>9, <1>11, <1>12

\* Code that pass 1 has followed from an unknown address.  Where it runs on into the
\* next area, that one begins with an instruction of the run, is code, and holds the
\* rest of the run.
LEMMA RunsInto ==
    ASSUME Tidy, NEW m \in Images, NEW list, Settled(m, list), NEW start, NEW end,
           Run(m, start, end), NEW i \in 1..Len(list), Holds(list[i], start),
           list[i].type = "vacuum", end > list[i].end
    PROVE  /\ i + 1 \in 1..Len(list) /\ list[i + 1].start = list[i].end + 1
           /\ list[i + 1].start <= end /\ end <= list[i + 1].end
           /\ list[i + 1].type = "program"
<1> DEFINE c == list[i]
           n == list[i + 1]
<1>1. /\ list \in Seq(Areas) /\ Partition(list, Org, gEndOfCode) /\ VoidsApart(list)
      /\ \A k \in 1..Len(list) : AreaOk(m, list[k])
  BY DEF Settled
<1>2. /\ Len(list) \in Nat \ {0} /\ list[Len(list)].end = gEndOfCode
      /\ \A k \in 1..Len(list) : list[k].start <= list[k].end
      /\ \A k \in 2..Len(list) : list[k].start = list[k - 1].end + 1
  BY <1>1, InOrder2
<1>3. /\ start \in Begins(m) /\ end \in Int /\ start <= end /\ end <= gEndOfCode
      /\ \A x \in start..end : \E b \in Begins(m) :
            /\ start <= b /\ b <= x /\ x < Instr(m, b).next
            /\ Instr(m, b).next = end + 1 \/ Instr(m, b).ends = {}
  BY DEF Run
<1>4. \A b \in Begins(m) : b \in Int /\ Instr(m, b).next \in Int
  BY Instructions
<1>5. start \in Int /\ c.start \in Int /\ c.end \in Int /\ gEndOfCode \in Int
  BY <1>1, <1>3, <1>4, AreaFields, CodeLimits DEF Limits
<1>6. i # Len(list)
  BY <1>2, <1>3, <1>5
<1>7. i + 1 \in 1..Len(list) /\ i + 1 \in 2..Len(list) /\ (i + 1) - 1 = i
  BY <1>2, <1>6
<1>8. /\ n.start = c.end + 1 /\ n.start <= n.end /\ AreaOk(m, n) /\ n \in Areas
      /\ n.start \in Int /\ n.end \in Int
  BY <1>1, <1>2, <1>7, AreaFields
<1>9. n.start <= end /\ c.start <= start /\ start <= c.end
  BY <1>3, <1>5, <1>8 DEF Holds
<1>10. n.type # "vacuum"
  <2>1. \A k \in 2..Len(list) : list[k - 1].type # "vacuum" \/ list[k].type # "vacuum"
    BY <1>1 DEF VoidsApart
  <2> QED  BY <1>7, <2>1
<1> HIDE DEF c, n
<1>12. n.start \in Begins(m)
  <2>1. n.start \in start..end
    BY <1>3, <1>5, <1>8, <1>9
  <2>2. PICK b \in Begins(m) : b <= n.start /\ n.start < Instr(m, b).next
    BY <1>3, <2>1
  <2>3. ~(b < n.start)
    BY <1>4, <1>8, <2>2 DEF AreaOk, Boundary
  <2>4. b = n.start
    BY <1>4, <1>8, <2>2, <2>3
  <2> QED  BY <2>4
<1>13. n.type = "program"
  <2>1. n.start \in n.start..n.end
    BY <1>8
  <2> QED  BY <1>8, <1>10, <1>12, <2>1 DEF AreaOk
<1>14. end <= n.end
  <2>1. start <= n.end
    BY <1>5, <1>8, <1>9
  <2> QED  BY <1>7, <1>9, <1>13, <2>1, RunStaysInArea DEF n
<1> QED  BY <1>7, <1>8, <1>9, <1>13, <1>14 DEF c, n

LEMMA PassPuts ==
    ASSUME Tidy, NEW m \in Images, NEW list, Settled(m, list), NEW start, NEW end,
           Run(m, start, end), SearchArea(list, start) = "vacuum",
           ~InsertCrashes(list, start, end)
    PROVE  \E i, j : /\ PutsIn(m, list, i, j, start, end, "program")
                     /\ list[i].type = "vacuum" /\ list[j].type \in {"vacuum", "program"}
<1>1. /\ list \in Seq(Areas) /\ Partition(list, Org, gEndOfCode) /\ ValidAreas(list)
      /\ \A k \in 1..Len(list) : AreaOk(m, list[k])
  BY DEF Settled, Partition
<1>2. /\ start \in Begins(m) /\ end \in Int /\ start <= end /\ end <= gEndOfCode
      /\ Boundary(m, end + 1) /\ (end = gEndOfCode \/ Stop(m, end + 1))
  BY DEF Run
<1>3. start \in Int /\ start \in Org..gEndOfCode /\ Org \in Int /\ gEndOfCode \in Int
  <2>1. start \in Int /\ start \in Code
    BY <1>2, Instructions
  <2> QED  BY <2>1, CodeLimits DEF Limits
<1>4. PICK i \in 1..Len(list) : Holds(list[i], start)
  BY <1>1, <1>3, Covered
<1>5. list[i].type = "vacuum"
  BY <1>1, <1>3, <1>4, Found
<1> DEFINE c == list[i]
<1>6. c \in Areas /\ c.start \in Int /\ c.end \in Int /\ c.start <= start /\ start <= c.end
  BY <1>1, <1>4, AreaFields DEF Holds
<1>7. Insertable(m, c, start, end, "program")
  <2>1. Boundary(m, start)
    BY <1>2, BeginsAreBoundaries
  <2>2. AreaOk(m, Area(start, end, "program"))
    BY <1>2, <2>1 DEF AreaOk, Area
  <2> QED  BY <1>2, <1>5, <2>2 DEF Insertable, Types
<1>8. Reached(list, start) # {} /\ Place(list, start) = i
  BY <1>1, <1>3, <1>4, PlaceFound
<1> DEFINE s == InsertArea(list, start, end, "program")
<1>9. CASE end <= c.end
  <2>1. s = Splice(list, i, i, Cut(c, start, end, "program"))
    BY <1>1, <1>2, <1>3, <1>6, <1>9, InsertIsCut DEF Types
  <2>2. Cut(c, start, end, "program") = Pieces(c, c, start, end, "program")
    <3>1. c = Area(c.start, c.end, c.type)
      BY <1>6 DEF Areas, Area
    <3> HIDE DEF c
    <3>2. [c EXCEPT !.type = "program"] = Area(c.start, c.end, "program")
      BY <3>1 DEF Area
    <3> QED  BY <3>2 DEF Cut, Pieces
  <2>3. c.start <= end /\ i \in i..Len(list)
    BY <1>1, <1>2, <1>3, <1>6
  <2> HIDE DEF s
  <2>4. PutsIn(m, list, i, i, start, end, "program")
    BY <1>2, <1>3, <1>6, <1>7, <1>9, <2>1, <2>2, <2>3 DEF PutsIn, s
  <2> QED  BY <1>5, <2>4
<1>10. CASE ~(end <= c.end)
  <2> DEFINE n == list[i + 1]
  <2>1. /\ i + 1 \in 1..Len(list) /\ n.start = c.end + 1 /\ n.start <= end /\ end <= n.end
        /\ n.type = "program"
    BY <1>2, <1>4, <1>5, <1>6, <1>10, RunsInto
  <2>2. n \in Areas /\ n.start \in Int /\ n.end \in Int /\ i + 1 \in i..Len(list)
    BY <1>1, <2>1, AreaFields
  <2>3. s = Splice(list, i, i + 1, Pieces(c, n, start, end, "program"))
    <3>1. CASE start = c.start
      <4>1. s = InsertAtStart(list, i, start, end, "program")
        BY <1>3, <1>6, <1>8, <3>1 DEF InsertArea
      <4>2. end # n.end
        BY <1>2, <1>6, <1>8, <1>10, <3>1 DEF InsertCrashes
      <4>3. InsertAtStart(list, i, start, end, "program") =
                Splice(list, i, i + 1, <<Area(start, end, "program"), Upper(n, end)>>)
        BY <1>2, <1>6, <1>10 DEF InsertAtStart, Upper
      <4> QED  BY <3>1, <4>1, <4>2, <4>3 DEF Pieces
    <3>2. CASE start # c.start
      <4>1. s = InsertInside(list, i, start, end, "program")
        BY <1>3, <1>6, <1>8, <3>2 DEF InsertArea
      <4>2. CASE end = n.end
        <5>1. InsertInside(list, i, start, end, "program") =
                  Splice(list, i, i + 1, <<Lower(c, start), [n EXCEPT !.start = start]>>)
          BY <1>2, <1>6, <1>10, <4>2 DEF InsertInside, Lower
        <5>2. [n EXCEPT !.start = start] = Area(start, end, "program")
          <6>1. n = Area(n.start, n.end, n.type)
            BY <2>2 DEF Areas, Area
          <6>2. \A e : e = Area(n.start, end, "program")
                    => [e EXCEPT !.start = start] = Area(start, end, "program")
            BY DEF Area
          <6> HIDE DEF n
          <6> QED  BY <2>1, <4>2, <6>1, <6>2
        <5> QED  BY <3>2, <4>1, <4>2, <5>1, <5>2 DEF Pieces
      <4>3. CASE end # n.end
        <5>1. InsertInside(list, i, start, end, "program") =
                  Splice(list, i, i + 1, <<Lower(c, start), Area(start, end, "program"), Upper(n, end)>>)
          BY <1>2, <1>6, <1>10, <4>3 DEF InsertInside, Lower, Upper
        <5> QED  BY <3>2, <4>1, <4>3, <5>1 DEF Pieces
      <4> QED  BY <4>2, <4>3
    <3> QED  BY <3>1, <3>2
  <2> HIDE DEF s
  <2>4. PutsIn(m, list, i, i + 1, start, end, "program")
    BY <1>2, <1>3, <1>6, <1>7, <2>1, <2>2, <2>3 DEF PutsIn, s
  <2> QED  BY <1>5, <2>1, <2>4
<1> QED  BY <1>9, <1>10

LEMMA PassInserts ==
    ASSUME Tidy, NEW m \in Images, NEW list, Settled(m, list), NEW start, NEW end,
           Run(m, start, end), SearchArea(list, start) = "vacuum",
           ~InsertCrashes(list, start, end)
    PROVE  Grown(m, list, InsertArea(list, start, end, "program"), start, end)
<1>1. \E i, j : PutsIn(m, list, i, j, start, end, "program")
  BY PassPuts
<1> QED  BY <1>1, PutIn DEF PutsIn
----------------------------------------------------------------------------
(* JoinAreas *)

\* Steps may be any function of the number and what has been computed before it.
Stepwise(n, V, a, step) ==
    \E u \in [0..n -> V] : u[0] = a /\ \A k \in 1..n : u[k] = step[<<k, u[k - 1]>>]

LEMMA StepsDefine ==
    ASSUME NEW n \in Nat, NEW V, NEW a \in V, NEW step \in [(1..n) \X V -> V]
    PROVE  Stepwise(n, V, a, step)
<1> DEFINE Upto(m, u) == u[0] = a /\ \A k \in 1..m : u[k] = step[<<k, u[k - 1]>>]
           T == {m \in 0..n : \E u \in [0..n -> V] : Upto(m, u)}
<1>1. 0 \in T
  <2> DEFINE w == [k \in 0..n |-> a]
  <2>1. w \in [0..n -> V] /\ Upto(0, w)
    OBVIOUS
  <2>2. \E u \in [0..n -> V] : Upto(0, u)
    <3> HIDE DEF w, Upto
    <3> QED  BY <2>1
  <2> QED  BY <2>2
<1>2. ASSUME NEW m \in 1..n, m - 1 \in T PROVE m \in T
  <2>1. PICK u \in [0..n -> V] : Upto(m - 1, u)
    BY <1>2
  <2> DEFINE w == [u EXCEPT ![m] = step[<<m, u[m - 1]>>]]
  <2>2. u[m - 1] \in V /\ <<m, u[m - 1]>> \in (1..n) \X V
    OBVIOUS
  <2>3. w \in [0..n -> V]
    BY <2>2
  <2>4. Upto(m, w)
    <3>1. w[0] = a
      BY <2>1
    <3>2. ASSUME NEW k \in 1..m PROVE w[k] = step[<<k, w[k - 1]>>]
      <4>1. k - 1 \in 0..n /\ k \in 0..n /\ w[k - 1] = u[k - 1]
        OBVIOUS
      <4>2. CASE k = m  BY <4>1, <4>2
      <4>3. CASE k # m
        <5>1. k \in 1..(m - 1)  BY <4>3
        <5> QED  BY <2>1, <4>1, <5>1
      <4> QED  BY <4>2, <4>3
    <3> QED  BY <3>1, <3>2
  <2>5. \E x \in [0..n -> V] : Upto(m, x)
    <3> HIDE DEF w, Upto
    <3> QED  BY <2>3, <2>4
  <2> QED  BY <2>5
<1>3. 0..n \subseteq T
  <2> HIDE DEF T
  <2> QED  BY <1>1, <1>2, Upwards
<1> QED  BY <1>3 DEF Stepwise

LEMMA SpansJoin ==
    ASSUME NEW a \in Int, NEW b \in Int, NEW c \in Int, NEW d \in Int, a <= b, c = b + 1, c <= d
    PROVE  a..d = (a..b) \union (c..d)
  OBVIOUS

LEMMA JoinIsList ==
    ASSUME NEW u \in Seq(Areas), NEW a \in Areas
    PROVE  Join(u, a) \in Seq(Areas)
<1>1. CASE u # <<>> /\ u[Len(u)].type = a.type
  <2>1. Len(u) \in 1..Len(u) /\ u[Len(u)] \in Areas
    BY <1>1
  <2>2. [u[Len(u)] EXCEPT !.end = a.end] \in Areas
    BY <2>1 DEF Areas
  <2> DEFINE l == [u[Len(u)] EXCEPT !.end = a.end]
  <2>3. Join(u, a) = [u EXCEPT ![Len(u)] = l]
    BY <1>1 DEF Join
  <2> HIDE DEF l
  <2>4. [u EXCEPT ![Len(u)] = l] \in Seq(Areas)
    BY <2>1, <2>2 DEF l
  <2> QED  BY <2>3, <2>4
<1>2. CASE ~(u # <<>> /\ u[Len(u)].type = a.type)
  BY <1>2 DEF Join
<1> QED  BY <1>1, <1>2

\* u is what JoinAreas computes on its way.
JoinedUpto(list, u) ==
    u = [k \in 0..Len(list) |-> IF k = 0 THEN <<>> ELSE Join(u[k - 1], list[k])]

LEMMA JoinExists ==
    ASSUME NEW list \in Seq(Areas)
    PROVE  \E u : JoinedUpto(list, u) /\ JoinAreas(list) = u[Len(list)]
<1> DEFINE n == Len(list)
           V == Seq(Areas)
           step == [p \in (1..n) \X V |-> Join(p[2], list[p[1]])]
<1>1. n \in Nat /\ <<>> \in V
  OBVIOUS
<1>2. step \in [(1..n) \X V -> V]
  <2>1. \A p \in (1..n) \X V : list[p[1]] \in Areas /\ p[2] \in Seq(Areas)
    OBVIOUS
  <2>2. \A p \in (1..n) \X V : Join(p[2], list[p[1]]) \in V
    BY <2>1, JoinIsList
  <2> QED  BY <2>2
<1>3. \A k \in 1..n, x \in V : step[<<k, x>>] = Join(x, list[k])
  OBVIOUS
<1> HIDE DEF n, V, step
<1>4. Stepwise(n, V, <<>>, step)
  BY <1>1, <1>2, StepsDefine
<1>5. PICK u \in [0..n -> V] : u[0] = <<>> /\ \A k \in 1..n : u[k] = step[<<k, u[k - 1]>>]
  BY <1>4 DEF Stepwise
<1>6. \A k \in 1..n : u[k] = Join(u[k - 1], list[k])
  <2>1. \A k \in 1..n : u[k - 1] \in V
    BY <1>1
  <2> QED  BY <1>3, <1>5, <2>1
<1>7. \A k \in 0..n : u[k] = IF k = 0 THEN <<>> ELSE Join(u[k - 1], list[k])
  BY <1>1, <1>5, <1>6
<1>8. JoinedUpto(list, u)
  BY <1>7 DEF JoinedUpto, n
<1>9. JoinedUpto(list, CHOOSE w : JoinedUpto(list, w))
  BY <1>8
<1>10. JoinAreas(list) = (CHOOSE w : JoinedUpto(list, w))[Len(list)]
  BY DEF JoinAreas, JoinedUpto
<1> QED  BY <1>9, <1>10

\* What the first k areas of list have become.
JoinOf(m, list, k, s) ==
    /\ s \in Seq(Areas) /\ s # <<>> /\ Partition(s, Org, list[k].end)
    /\ s[Len(s)].type = list[k].type
    /\ \A h \in 1..Len(s) :
          /\ AreaOk(m, s[h])
          /\ s[h].start \in {list[g].start : g \in 1..Len(list)}
          /\ \A x \in (s[h].start)..(s[h].end) :
                \E g \in 1..Len(list) : Holds(list[g], x) /\ list[g].type = s[h].type
    /\ VoidsApart(s)

LEMMA JoinFirst ==
    ASSUME NEW m, NEW list, Settled(m, list)
    PROVE  JoinOf(m, list, 1, Join(<<>>, list[1]))
<1> DEFINE a == list[1]
           s == <<a>>
<1>1. /\ list \in Seq(Areas) /\ Partition(list, Org, gEndOfCode) /\ Len(list) \in Nat \ {0}
      /\ a.start = Org /\ 1 \in 1..Len(list) /\ AreaOk(m, a) /\ a.start <= a.end
      /\ a \in Areas /\ a.start \in Int /\ a.end \in Int
  <2>1. list \in Seq(Areas) /\ Partition(list, Org, gEndOfCode)
    BY DEF Settled
  <2>2. Len(list) \in Nat \ {0} /\ a.start = Org /\ \A k \in 1..Len(list) : list[k].start <= list[k].end
    BY <2>1, InOrder2
  <2>3. 1 \in 1..Len(list)
    BY <2>2
  <2> QED  BY <2>1, <2>2, <2>3, AreaFields DEF Settled
<1>2. Join(<<>>, a) = s
  BY DEF Join
<1> HIDE DEF a
<1>3. s \in Seq(Areas) /\ s # <<>> /\ Len(s) = 1 /\ s[1] = a /\ DOMAIN s = 1..1
  BY <1>1
<1> HIDE DEF s
<1>4. Partition(s, Org, a.end)
  BY <1>1, <1>3 DEF Partition, ValidAreas
<1>5. VoidsApart(s)
  BY <1>3 DEF VoidsApart
<1>6. \A x \in a.start..a.end : Holds(a, x)
  BY <1>1 DEF Holds
<1>7. \A h \in 1..Len(s) :
          /\ AreaOk(m, s[h])
          /\ s[h].start \in {list[g].start : g \in 1..Len(list)}
          /\ \A x \in (s[h].start)..(s[h].end) :
                \E g \in 1..Len(list) : Holds(list[g], x) /\ list[g].type = s[h].type
  <2>1. \A h \in 1..Len(s) : h = 1
    BY <1>3
  <2>2. /\ AreaOk(m, s[1])
        /\ s[1].start \in {list[g].start : g \in 1..Len(list)}
        /\ \A x \in (s[1].start)..(s[1].end) :
              \E g \in 1..Len(list) : Holds(list[g], x) /\ list[g].type = s[1].type
    BY <1>1, <1>3, <1>6 DEF a
  <2> QED  BY <2>1, <2>2
<1> QED  BY <1>2, <1>3, <1>4, <1>5, <1>7 DEF JoinOf, a

LEMMA JoinNext ==
    ASSUME NEW m, NEW list, Settled(m, list), NEW k \in 2..Len(list), NEW s,
           JoinOf(m, list, k - 1, s)
    PROVE  JoinOf(m, list, k, Join(s, list[k]))
<1> DEFINE a == list[k]
           b == list[k - 1]
           n == Len(s)
           r == Join(s, a)
<1>1. /\ list \in Seq(Areas) /\ k \in 1..Len(list) /\ k - 1 \in 1..Len(list)
      /\ a.start = b.end + 1 /\ a.start <= a.end /\ AreaOk(m, a)
      /\ a \in Areas /\ a.start \in Int /\ a.end \in Int /\ b.end \in Int
  <2>1. list \in Seq(Areas) /\ Partition(list, Org, gEndOfCode)
    BY DEF Settled
  <2>2. /\ \A h \in 1..Len(list) : list[h].start <= list[h].end
        /\ \A h \in 2..Len(list) : list[h].start = list[h - 1].end + 1
    BY <2>1, InOrder2
  <2>3. k \in 1..Len(list) /\ k - 1 \in 1..Len(list)
    OBVIOUS
  <2> QED  BY <2>1, <2>2, <2>3, AreaFields DEF Settled
<1>2. /\ s \in Seq(Areas) /\ s # <<>> /\ Partition(s, Org, b.end) /\ s[n].type = b.type
      /\ \A h \in 1..n :
            /\ AreaOk(m, s[h])
            /\ s[h].start \in {list[g].start : g \in 1..Len(list)}
            /\ \A x \in (s[h].start)..(s[h].end) :
                  \E g \in 1..Len(list) : Holds(list[g], x) /\ list[g].type = s[h].type
      /\ VoidsApart(s)
  BY DEF JoinOf
<1>3. /\ n \in Nat \ {0} /\ n \in 1..n /\ s[1].start = Org /\ s[n].end = b.end
      /\ \A h \in 1..n : s[h].start <= s[h].end
      /\ \A h \in 2..n : s[h].start = s[h - 1].end + 1
      /\ \A h \in 1..n : s[h] \in Areas /\ s[h].start \in Int /\ s[h].end \in Int
  <2>1. /\ n \in Nat \ {0} /\ s[1].start = Org /\ s[n].end = b.end
        /\ \A h \in 1..n : s[h].start <= s[h].end
        /\ \A h \in 2..n : s[h].start = s[h - 1].end + 1
    BY <1>2, InOrder2
  <2> QED  BY <1>2, <2>1, AreaFields
<1> DEFINE l == s[n]
<1>4. ASSUME NEW x \in a.start..a.end
      PROVE  \E g \in 1..Len(list) : Holds(list[g], x) /\ list[g].type = a.type
  BY <1>1 DEF Holds
<1>5. a.start \in {list[g].start : g \in 1..Len(list)}
  BY <1>1
<1>6. CASE l.type = a.type
  <2> DEFINE e == [l EXCEPT !.end = a.end]
  <2>1. r = [s EXCEPT ![n] = e]
    BY <1>2, <1>6 DEF Join
  <2>2. e \in Areas /\ e.start = l.start /\ e.end = a.end /\ e.type = a.type
    BY <1>1, <1>3, <1>6 DEF Areas
  <2>3. AreaOk(m, e)
    <3>1. AreaOk(m, l) /\ AreaOk(m, a) /\ l.type = a.type
      BY <1>1, <1>2, <1>3, <1>6
    <3>2. e.start..e.end = (l.start..l.end) \union (a.start..a.end)
      <4>1. l.end + 1 = a.start /\ l.start <= l.end /\ l.start \in Int /\ l.end \in Int
        BY <1>1, <1>3
      <4>2. a.start \in Int /\ a.end \in Int /\ a.start <= a.end
        BY <1>1
      <4>3. e.start = l.start /\ e.end = a.end
        BY <2>2
      <4> HIDE DEF l, e, a
      <4> QED  BY <4>1, <4>2, <4>3, SpansJoin
    <3> HIDE DEF l, e, a
    <3> QED  BY <2>2, <3>1, <3>2 DEF AreaOk
  <2>4. \A x \in e.start..e.end :
            \E g \in 1..Len(list) : Holds(list[g], x) /\ list[g].type = e.type
    <3>1. \A x \in l.start..l.end :
            \E g \in 1..Len(list) : Holds(list[g], x) /\ list[g].type = a.type
      BY <1>2, <1>3, <1>6
    <3>2. e.start..e.end = (l.start..l.end) \union (a.start..a.end)
      <4>1. l.end + 1 = a.start /\ l.start <= l.end /\ l.start \in Int /\ l.end \in Int
        BY <1>1, <1>3
      <4>2. a.start \in Int /\ a.end \in Int /\ a.start <= a.end
        BY <1>1
      <4>3. e.start = l.start /\ e.end = a.end
        BY <2>2
      <4> HIDE DEF l, e, a
      <4> QED  BY <4>1, <4>2, <4>3, SpansJoin
    <3> HIDE DEF l, e, a
    <3> QED  BY <1>4, <2>2, <3>1, <3>2
  <2>5. e.start \in {list[g].start : g \in 1..Len(list)}
    BY <1>2, <1>3, <2>2
  <2> HIDE DEF e, l, a, b, r
  <2>6. /\ r \in Seq(Areas) /\ r # <<>> /\ Len(r) = n /\ r[n] = e /\ DOMAIN r = 1..n
        /\ \A h \in 1..n : h # n => r[h] = s[h]
    <3> HIDE DEF n
    <3>1. s \in Seq(Areas) /\ Len(s) = n /\ n \in Nat \ {0}
      BY <1>2, <1>3 DEF n
    <3> QED  BY <2>1, <2>2, <3>1
  <2>7. /\ r[1].start = Org /\ r[n].end = a.end
        /\ \A h \in 1..n : r[h].start <= r[h].end
        /\ \A h \in 1..n : r[h].start = s[h].start
        /\ \A h \in 1..n : h # n => r[h].end = s[h].end
    <3>1. r[n].start = s[n].start /\ s[n].start <= s[n].end /\ s[n].end + 1 = a.start
          /\ r[n].end = a.end
      BY <1>1, <1>3, <2>2, <2>6 DEF l
    <3>2. s[n].start \in Int /\ s[n].end \in Int /\ 1 \in 1..n
      BY <1>3
    <3>3. r[n].start <= r[n].end
      <4>1. a.start \in Int /\ a.end \in Int /\ a.start <= a.end
        BY <1>1
      <4> QED  BY <3>1, <3>2, <4>1
    <3> HIDE DEF n
    <3>4. \A h \in 1..n : r[h].start = s[h].start
      BY <2>6, <3>1
    <3>5. \A h \in 1..n : r[h].start <= r[h].end
      BY <1>3, <2>6, <3>3
    <3> QED  BY <1>3, <2>6, <3>1, <3>2, <3>4, <3>5
  <2>8. ASSUME NEW h \in 2..n PROVE r[h].start = r[h - 1].end + 1
    <3>1. h \in 1..n /\ h - 1 \in 1..n /\ h - 1 # n
      BY <1>3
    <3> HIDE DEF n
    <3> QED  BY <1>3, <2>7, <3>1
  <2>9. Partition(r, Org, a.end)
    <3> HIDE DEF n
    <3>1. \A h \in DOMAIN r \ {1} : h \in 2..n
      BY <1>3, <2>6
    <3> QED  BY <2>6, <2>7, <2>8, <3>1 DEF Partition, ValidAreas
  <2>10. VoidsApart(r)
    <3>1. \A h \in 1..n : r[h].type = s[h].type
      BY <1>6, <2>2, <2>6 DEF l
    <3>2. \A h \in 2..n : h \in 1..n /\ h - 1 \in 1..n
      BY <1>3
    <3> QED  BY <1>2, <2>6, <3>1, <3>2 DEF VoidsApart
  <2>11. \A h \in 1..n :
            /\ AreaOk(m, r[h])
            /\ r[h].start \in {list[g].start : g \in 1..Len(list)}
            /\ \A x \in (r[h].start)..(r[h].end) :
                  \E g \in 1..Len(list) : Holds(list[g], x) /\ list[g].type = r[h].type
    <3>1. ASSUME NEW h \in 1..n, h # n
          PROVE  /\ AreaOk(m, r[h])
                 /\ r[h].start \in {list[g].start : g \in 1..Len(list)}
                 /\ \A x \in (r[h].start)..(r[h].end) :
                       \E g \in 1..Len(list) : Holds(list[g], x) /\ list[g].type = r[h].type
      BY <1>2, <2>6, <3>1
    <3>2. /\ AreaOk(m, r[n])
          /\ r[n].start \in {list[g].start : g \in 1..Len(list)}
          /\ \A x \in (r[n].start)..(r[n].end) :
                \E g \in 1..Len(list) : Holds(list[g], x) /\ list[g].type = r[n].type
      BY <2>3, <2>4, <2>5, <2>6
    <3> HIDE DEF n
    <3> QED  BY <3>1, <3>2
  <2>12. r[Len(r)].type = a.type
    BY <2>2, <2>6
  <2> QED  BY <2>6, <2>9, <2>10, <2>11, <2>12 DEF JoinOf, a, r
<1>7. CASE l.type # a.type
  <2>1. r = Append(s, a)
    BY <1>2, <1>7 DEF Join
  <2> HIDE DEF a, b, r, l
  <2>2. /\ r \in Seq(Areas) /\ r # <<>> /\ Len(r) = n + 1 /\ r[n + 1] = a
        /\ DOMAIN r = 1..(n + 1)
        /\ \A h \in 1..n : r[h] = s[h]
    <3>1. a \in Areas /\ s \in Seq(Areas) /\ n = Len(s) /\ n \in Nat
      BY <1>1, <1>2 DEF n
    <3> HIDE DEF n
    <3>2. r \in Seq(Areas) /\ Len(r) = n + 1 /\ r[n + 1] = a
      BY <2>1, <3>1
    <3>3. \A h \in 1..n : r[h] = s[h]
      BY <2>1, <3>1
    <3> QED  BY <3>1, <3>2, <3>3
  <2> HIDE DEF n
  <2>3. 1 \in 1..n /\ \A h \in 1..(n + 1) : h \in 1..n \/ h = n + 1
    BY <1>3
  <2>4. \A h \in 1..(n + 1) : r[h].start <= r[h].end
    BY <1>1, <1>3, <2>2, <2>3
  <2>5. ASSUME NEW h \in 2..(n + 1) PROVE r[h].start = r[h - 1].end + 1
    <3>1. CASE h = n + 1
      BY <1>1, <1>3, <2>2, <3>1
    <3>2. CASE h # n + 1
      <4>1. h \in 2..n /\ h \in 1..n /\ h - 1 \in 1..n
        BY <1>3, <3>2
      <4> QED  BY <1>3, <2>2, <4>1
    <3> QED  BY <3>1, <3>2
  <2>6. Partition(r, Org, a.end)
    <3>1. \A h \in DOMAIN r \ {1} : h \in 2..(n + 1)
      BY <1>3, <2>2
    <3>2. r[1].start = Org
      BY <1>3, <2>2, <2>3
    <3> QED  BY <2>2, <2>4, <2>5, <3>1, <3>2 DEF Partition, ValidAreas
  <2>7. VoidsApart(r)
    <3>1. ASSUME NEW h \in 2..(n + 1) PROVE r[h - 1].type # "vacuum" \/ r[h].type # "vacuum"
      <4>1. CASE h = n + 1
        <5>1. h - 1 = n /\ r[h - 1] = s[n] /\ r[h] = a
          BY <1>3, <2>2, <4>1
        <5> QED  BY <1>7, <5>1 DEF l
      <4>2. CASE h # n + 1
        <5>1. h \in 2..n /\ h \in 1..n /\ h - 1 \in 1..n
          BY <1>3, <4>2
        <5> QED  BY <1>2, <2>2, <5>1 DEF VoidsApart, n
      <4> QED  BY <4>1, <4>2
    <3> QED  BY <2>2, <3>1 DEF VoidsApart
  <2>8. r[Len(r)].type = a.type
    BY <2>2
  <2>9. \A h \in 1..(n + 1) :
            /\ AreaOk(m, r[h])
            /\ r[h].start \in {list[g].start : g \in 1..Len(list)}
            /\ \A x \in (r[h].start)..(r[h].end) :
                  \E g \in 1..Len(list) : Holds(list[g], x) /\ list[g].type = r[h].type
    <3>1. ASSUME NEW h \in 1..n
          PROVE  /\ AreaOk(m, r[h])
                 /\ r[h].start \in {list[g].start : g \in 1..Len(list)}
                 /\ \A x \in (r[h].start)..(r[h].end) :
                       \E g \in 1..Len(list) : Holds(list[g], x) /\ list[g].type = r[h].type
      <4>1. r[h] = s[h]
        BY <2>2
      <4>2. h \in 1..Len(s)
        BY DEF n
      <4> QED  BY <1>2, <4>1, <4>2 DEF n
    <3>2. /\ AreaOk(m, r[n + 1])
          /\ r[n + 1].start \in {list[g].start : g \in 1..Len(list)}
          /\ \A x \in (r[n + 1].start)..(r[n + 1].end) :
                \E g \in 1..Len(list) : Holds(list[g], x) /\ list[g].type = r[n + 1].type
      BY <1>1, <1>4, <1>5, <2>2
    <3> QED  BY <2>3, <3>1, <3>2
  <2> QED  BY <2>2, <2>6, <2>7, <2>8, <2>9 DEF JoinOf, a, r
<1> QED  BY <1>6, <1>7
\* JoinAreas leaves what is known of each address as it was, and makes areas only
\* longer.
LEMMA JoinKeeps ==
    ASSUME NEW m, NEW list, Settled(m, list)
    PROVE  LET s == JoinAreas(list) IN
           /\ Settled(m, s)
           /\ \A x \in Code : SearchArea(s, x) = SearchArea(list, x)
           /\ \A k \in 1..Len(s) : \E h \in 1..Len(list) : s[k].start = list[h].start
<1>1. /\ list \in Seq(Areas) /\ Partition(list, Org, gEndOfCode) /\ ValidAreas(list)
      /\ Len(list) \in Nat \ {0} /\ list[Len(list)].end = gEndOfCode
  <2>1. list \in Seq(Areas) /\ Partition(list, Org, gEndOfCode)
    BY DEF Settled
  <2> QED  BY <2>1, InOrder2
<1>2. PICK u : JoinedUpto(list, u) /\ JoinAreas(list) = u[Len(list)]
  BY <1>1, JoinExists
<1>3. /\ u[0] = <<>>
      /\ \A k \in 1..Len(list) : u[k] = Join(u[k - 1], list[k])
  <2>1. u = [k \in 0..Len(list) |-> IF k = 0 THEN <<>> ELSE Join(u[k - 1], list[k])]
    BY <1>2 DEF JoinedUpto
  <2>2. 0 \in 0..Len(list) /\ \A k \in 1..Len(list) : k \in 0..Len(list) /\ k # 0
    BY <1>1
  <2> QED  BY <2>1, <2>2
<1> DEFINE T == {k \in 0..Len(list) : k = 0 \/ JoinOf(m, list, k, u[k])}
<1>4. 0 \in T
  BY <1>1
<1>5. ASSUME NEW k \in 1..Len(list), k - 1 \in T PROVE k \in T
  <2>1. CASE k = 1
    <3>1. u[1] = Join(<<>>, list[1])
      <4>1. 1 \in 1..Len(list) /\ 1 - 1 = 0
        BY <2>1
      <4> QED  BY <1>3, <4>1
    <3> QED  BY <2>1, <3>1, JoinFirst
  <2>2. CASE k # 1
    <3>1. k \in 2..Len(list) /\ k - 1 # 0
      BY <2>2
    <3>2. JoinOf(m, list, k - 1, u[k - 1])
      BY <1>5, <3>1
    <3>3. JoinOf(m, list, k, Join(u[k - 1], list[k]))
      BY <3>1, <3>2, JoinNext
    <3> QED  BY <1>3, <3>3
  <2> QED  BY <2>1, <2>2
<1>6. 0..Len(list) \subseteq T
  <2> HIDE DEF T
  <2> QED  BY <1>1, <1>4, <1>5, Upwards
<1> DEFINE s == u[Len(list)]
<1>7. JoinOf(m, list, Len(list), s)
  BY <1>1, <1>6
<1> HIDE DEF s, T
<1>8. /\ s \in Seq(Areas) /\ Partition(s, Org, gEndOfCode) /\ ValidAreas(s) /\ VoidsApart(s)
      /\ \A h \in 1..Len(s) :
            /\ AreaOk(m, s[h])
            /\ s[h].start \in {list[g].start : g \in 1..Len(list)}
            /\ \A x \in (s[h].start)..(s[h].end) :
                  \E g \in 1..Len(list) : Holds(list[g], x) /\ list[g].type = s[h].type
  BY <1>1, <1>7 DEF JoinOf, Partition
<1>9. ASSUME NEW x \in Code PROVE SearchArea(s, x) = SearchArea(list, x)
  <2>1. x \in Int /\ x \in Org..gEndOfCode /\ Org \in Int /\ gEndOfCode \in Int
    BY CodeLimits DEF Limits
  <2>2. PICK h \in 1..Len(s) : Holds(s[h], x)
    BY <1>8, <2>1, Covered
  <2>3. s[h].start \in Int /\ s[h].end \in Int
    BY <1>8, AreaFields
  <2>4. x \in (s[h].start)..(s[h].end)
    BY <2>1, <2>2, <2>3 DEF Holds
  <2>5. PICK g \in 1..Len(list) : Holds(list[g], x) /\ list[g].type = s[h].type
    BY <1>8, <2>4
  <2>6. SearchArea(s, x) = s[h].type
    BY <1>8, <2>1, <2>2, Found
  <2>7. SearchArea(list, x) = list[g].type
    BY <1>1, <2>1, <2>5, Found
  <2> QED  BY <2>5, <2>6, <2>7
<1>10. \A k \in 1..Len(s) : \E h \in 1..Len(list) : s[k].start = list[h].start
  BY <1>8
<1> QED  BY <1>2, <1>8, <1>9, <1>10 DEF Settled, s

----------------------------------------------------------------------------
(* GetAreas *)

InsertedUpto(list, u) ==
    u = [k \in 0..Len(list) |->
            IF k = 0 THEN <<>>
            ELSE IF k = 1 THEN <<list[1]>>
            ELSE InsertArea(u[k - 1], list[k].start, list[k].end, list[k].type)]

\* An area that starts behind all others becomes the last one.
LEMMA InsertedLast ==
    ASSUME NEW list \in Seq(Areas), ValidAreas(list), NEW k \in 2..Len(list)
    PROVE  InsertArea(SubSeq(list, 1, k - 1), list[k].start, list[k].end, list[k].type) =
               SubSeq(list, 1, k)
<1> DEFINE s == SubSeq(list, 1, k - 1)
<1>1. /\ s \in Seq(Areas) /\ Len(s) = k - 1
      /\ \A h \in 1..(k - 1) : s[h] = list[h]
  <2>1. 1 \in Nat \ {0} /\ k - 1 \in Nat /\ 1 <= (k - 1) + 1 /\ k - 1 <= Len(list)
        /\ (k - 1) - 1 + 1 = k - 1 /\ \A h \in Int : 1 - 1 + h = h
    OBVIOUS
  <2> QED  BY <2>1, Part
<1>2. /\ SubSeq(list, 1, k) \in Seq(Areas) /\ Len(SubSeq(list, 1, k)) = k
      /\ \A h \in 1..k : SubSeq(list, 1, k)[h] = list[h]
  <2>1. 1 \in Nat \ {0} /\ k \in Nat /\ 1 <= k + 1 /\ k <= Len(list)
        /\ k - 1 + 1 = k /\ \A h \in Int : 1 - 1 + h = h
    OBVIOUS
  <2> QED  BY <2>1, Part
<1> HIDE DEF s
<1>3. Reached(s, list[k].start) = {}
  <2>1. ASSUME NEW h \in DOMAIN s, list[k].start <= s[h].end PROVE FALSE
    <3>1. h \in 1..(k - 1) /\ h \in 1..Len(list) /\ h < k /\ k \in 1..Len(list)
      BY <1>1
    <3>2. list[h].end < list[k].start /\ s[h] = list[h]
      BY <1>1, <3>1, Ordered
    <3>3. list[h].end \in Int /\ list[k].start \in Int
      BY <3>1, AreaFields
    <3> QED  BY <2>1, <3>2, <3>3
  <2> QED  BY <2>1 DEF Reached
<1>4. Area(list[k].start, list[k].end, list[k].type) = list[k] /\ list[k] \in Areas
  <2>1. list[k] \in Areas
    OBVIOUS
  <2> QED  BY <2>1 DEF Areas, Area
<1>5. InsertArea(s, list[k].start, list[k].end, list[k].type) = Append(s, list[k])
  BY <1>3, <1>4 DEF InsertArea
<1> DEFINE a == list[k]
           t == SubSeq(list, 1, k)
<1>6. Append(s, a) = t
  <2>1. a \in Areas /\ t[k] = a /\ \A h \in 1..(k - 1) : t[h] = s[h]
    BY <1>1, <1>2, <1>4
  <2>2. t \in Seq(Areas) /\ Len(t) = k
    BY <1>2
  <2> HIDE DEF a, t
  <2>3. /\ Append(s, a) \in Seq(Areas) /\ Len(Append(s, a)) = k
        /\ Append(s, a)[k] = a /\ \A h \in 1..(k - 1) : Append(s, a)[h] = s[h]
    BY <1>1, <2>1
  <2>4. \A h \in 1..k : Append(s, a)[h] = t[h]
    BY <2>1, <2>3
  <2> QED  BY <2>2, <2>3, <2>4
<1> QED  BY <1>5, <1>6 DEF s

LEMMA FirstPart ==
    ASSUME NEW list \in Seq(Areas), Len(list) # 0
    PROVE  SubSeq(list, 1, 1) = <<list[1]>>
<1>1. /\ SubSeq(list, 1, 1) \in Seq(Areas) /\ Len(SubSeq(list, 1, 1)) = 1
      /\ SubSeq(list, 1, 1)[1] = list[1]
  <2>1. 1 \in Nat \ {0} /\ 1 \in Nat /\ 1 <= 1 + 1 /\ 1 <= Len(list) /\ 1 - 1 + 1 = 1
    OBVIOUS
  <2> QED  BY <2>1, Part
<1> DEFINE s == SubSeq(list, 1, 1)
           t == <<list[1]>>
<1>2. t \in Seq(Areas) /\ Len(t) = 1 /\ t[1] = list[1]
  OBVIOUS
<1>3. s \in Seq(Areas) /\ Len(s) = 1 /\ s[1] = list[1]
  BY <1>1
<1> HIDE DEF s, t
<1>4. \A k \in 1..1 : s[k] = t[k]
  BY <1>2, <1>3
<1>5. s = t
  BY <1>2, <1>3, <1>4
<1> QED  BY <1>5 DEF s, t

\* What is read is what was written.
LEMMA InsertedSame ==
    ASSUME NEW list \in Seq(Areas), ValidAreas(list)
    PROVE  Inserted(list) = list
<1> DEFINE n == Len(list)
           Value(f, k) == IF k = 0 THEN <<>>
                          ELSE IF k = 1 THEN <<list[1]>>
                          ELSE InsertArea(f[k - 1], list[k].start, list[k].end, list[k].type)
           w == [k \in 0..n |-> SubSeq(list, 1, k)]
<1>1. n \in Nat /\ SubSeq(list, 1, 0) = <<>> /\ (n # 0 => SubSeq(list, 1, 1) = <<list[1]>>)
      /\ SubSeq(list, 1, n) = list
  BY FirstPart
<1>2. \A k \in 2..n : InsertArea(SubSeq(list, 1, k - 1), list[k].start, list[k].end, list[k].type) =
                          SubSeq(list, 1, k)
  BY InsertedLast
<1>3. InsertedUpto(list, w)
  <2>1. \A k \in 0..n : w[k] = SubSeq(list, 1, k)
    OBVIOUS
  <2> HIDE DEF w, n
  <2>2. ASSUME NEW k \in 0..n PROVE SubSeq(list, 1, k) = Value(w, k)
    <3>1. CASE k = 0  BY <1>1, <3>1
    <3>2. CASE k = 1
      <4>1. n # 0
        BY <1>1, <3>2
      <4> QED  BY <1>1, <3>2, <4>1
    <3>3. CASE k # 0 /\ k # 1
      <4>1. k \in 2..n /\ k - 1 \in 0..n
        BY <1>1, <3>3
      <4>2. w[k - 1] = SubSeq(list, 1, k - 1)
        BY <2>1, <4>1
      <4>3. InsertArea(SubSeq(list, 1, k - 1), list[k].start, list[k].end, list[k].type) =
                SubSeq(list, 1, k)
        BY <1>2, <4>1
      <4>4. Value(w, k) = InsertArea(w[k - 1], list[k].start, list[k].end, list[k].type)
        BY <3>3
      <4> QED  BY <4>2, <4>3, <4>4
    <3> QED  BY <3>1, <3>2, <3>3
  <2> HIDE DEF Value
  <2>3. w = [k \in 0..n |-> Value(w, k)]
    <3>1. w = [k \in 0..n |-> SubSeq(list, 1, k)]
      BY DEF w
    <3> QED  BY <2>2, <3>1
  <2> QED  BY <2>3 DEF InsertedUpto, Value, n
<1>4. ASSUME NEW u, InsertedUpto(list, u) PROVE u[n] = list
  <2>1. \A k \in 0..n : u[k] = Value(u, k)
    BY <1>4 DEF InsertedUpto
  <2> DEFINE T == {k \in 0..n : u[k] = SubSeq(list, 1, k)}
  <2> HIDE DEF n, w
  <2>2. 0 \in T
    <3>1. 0 \in 0..n
      BY <1>1
    <3>2. u[0] = <<>>
      BY <2>1, <3>1
    <3> QED  BY <1>1, <3>1, <3>2
  <2>3. ASSUME NEW k \in 1..n, k - 1 \in T PROVE k \in T
    <3>0. k \in 0..n /\ k # 0
      BY <1>1
    <3>1. CASE k = 1
      <4>1. n # 0 /\ u[k] = <<list[1]>>
        BY <1>1, <2>1, <3>0, <3>1
      <4> QED  BY <1>1, <3>0, <3>1, <4>1
    <3>2. CASE k # 1
      <4>1. k \in 2..n
        BY <1>1, <3>2
      <4>2. u[k] = InsertArea(u[k - 1], list[k].start, list[k].end, list[k].type)
        BY <2>1, <3>0, <3>2
      <4>3. u[k - 1] = SubSeq(list, 1, k - 1)
        BY <2>3
      <4> QED  BY <1>2, <3>0, <4>1, <4>2, <4>3
    <3> QED  BY <3>1, <3>2
  <2>4. 0..n \subseteq T
    <3> HIDE DEF T
    <3> QED  BY <1>1, <2>2, <2>3, Upwards
  <2>5. n \in T
    <3>1. n \in 0..n
      BY <1>1
    <3> QED  BY <2>4, <3>1
  <2> QED  BY <1>1, <2>5
<1>5. Inserted(list) = (CHOOSE u : InsertedUpto(list, u))[n]
  BY DEF Inserted, InsertedUpto
<1> HIDE DEF w, n
<1>6. InsertedUpto(list, CHOOSE u : InsertedUpto(list, u))
  BY <1>3
<1> QED  BY <1>4, <1>5, <1>6
----------------------------------------------------------------------------
(* The induction hypothesis *)

LabelsOk(table) ==
    \A a \in DOMAIN table :
        a \in 0..(MAXCODESIZE - 1) /\ table[a] \in Label /\ (table[a].local <=> ~Extern(a))

RemarksOk(table) == \A a \in DOMAIN table : a \in Code /\ table[a] \in {"<", ">"}

\* Addresses pass 1 may be told to go to.
StackOk == \A a \in Elements(stack) : a \in Begins(mem) \/ Extern(a)

\* A table of pointers that is on its way: it is still no part of another area,
\* and pass 1 has read k of its pointers.
PointersRead ==
    /\ job.start <= job.end /\ Free(mem, job.start, job.end) /\ Whole(areas, job.start, job.end)
    /\ UserPointers(job.start, job.end)
    /\ \E k \in 0..Codesize : job.at = job.start + 2 * k

\* A table of JP instructions, of which k have been read.
VectorsRead ==
    /\ UserVectors(job.start)
    /\ \E k \in 0..Codesize :
          /\ job.at = job.start + 3 * k
          /\ \A n \in 0..(k - 1) : GetByte(mem, job.start + 3 * n) = 195

JobOk ==
    /\ job \in Jobs \union {Idle, Down}
    /\ job.pc = "entry" => job.cmd # "pp"
    /\ job.pc = "parse" => /\ Walked(mem, job.area, job.next)
                           /\ job.found = SearchArea(areas, job.area)
    /\ job \in Jobs /\ job.cmd = "pl" => PointersRead
    /\ job \in Jobs /\ job.cmd = "pv" => VectorsRead

FileOk ==
    available => /\ Settled(mem, file.areas) /\ LabelsOk(file.labels)
                 /\ Kept(file.labels) = file.labels
                 /\ RemarksOk(file.remarks) /\ file.parsed \subseteq Code

\* What the file holds of the work.
InFile ==
    /\ \A a \in Code : SearchArea(areas, a) = SearchArea(file.areas, a)
    /\ Kept(labels) = file.labels /\ remarks = file.remarks
    /\ DOMAIN exprs = DOMAIN file.exprs /\ DOMAIN consts = DOMAIN file.consts

Saved == job # Down /\ available /\ ~changed => InFile

SettledInv ==
    /\ Settled(mem, areas) /\ LabelsOk(labels) /\ RemarksOk(remarks)
    /\ parsed \subseteq Code /\ changed \in BOOLEAN
    /\ StackOk /\ JobOk /\ FileOk /\ Saved
----------------------------------------------------------------------------
(* Addresses *)

Addresses == 0..(MAXCODESIZE - 1)

LEMMA WordsAreAddresses ==
    ASSUME NEW S, NEW m \in [S -> Byte], NEW pc
    PROVE  Word(m, pc) \in Addresses
<1> DEFINE x == GetByte(m, pc)
           y == GetByte(m, pc + 1)
<1>1. x \in 0..255 /\ y \in 0..255
  BY BytesAreBytes DEF Byte
<1>2. Word(m, pc) = x + 256 * y
  BY DEF Word
<1>3. MAXCODESIZE \in Int /\ MAXCODESIZE >= 65536
  BY DEF MAXCODESIZE
<1> HIDE DEF x, y
<1>4. x + 256 * y \in Int /\ 0 <= x + 256 * y /\ x + 256 * y < 65536
  BY <1>1
<1>5. 0 <= x + 256 * y /\ x + 256 * y <= MAXCODESIZE - 1
  BY <1>3, <1>4
<1> QED  BY <1>2, <1>3, <1>4, <1>5 DEF Addresses

\* The address operand of an instruction is a word.
LEMMA DataAreAddresses ==
    ASSUME NEW S, NEW m \in [S -> Byte], NEW pc
    PROVE  Instr(m, pc).data \subseteq Addresses
<1>1. \A p : Word(m, p) \in Addresses
  BY WordsAreAddresses
<1>2. /\ \A n : Plain(n).data = {} /\ Ends(n).data = {} /\ Calls(m, n).data = {}
      /\ \A n : LoadsWord(m, n).data \subseteq Addresses
  BY <1>1 DEF Plain, Ends, Calls, LoadsWord
<1>3. ASSUME NEW p PROVE EdInstr(m, p).data \subseteq Addresses
  <2> DEFINE o == GetByte(m, p)
  <2>1. CASE o \in {77, 69}
    BY <1>2, <2>1 DEF EdInstr
  <2>2. CASE o \in {75, 91, 107, 123, 115, 67, 83, 99}
    <3>1. EdInstr(m, p) = LoadsWord(m, p + 1)
      BY <2>2 DEF EdInstr
    <3> QED  BY <1>2, <3>1
  <2>3. CASE o \notin {77, 69, 75, 91, 107, 123, 115, 67, 83, 99}
    <3>1. EdInstr(m, p) = IF edlookup[o] = Unknown THEN Ends(p - 1) ELSE Plain(p + 1 + edlookup[o])
      BY <2>3 DEF EdInstr
    <3> QED  BY <1>2, <3>1
  <2> QED  BY <2>1, <2>2, <2>3
<1>4. ASSUME NEW p PROVE IndexInstr(m, p).data \subseteq Addresses
  <2> DEFINE o == GetByte(m, p)
             bit == cbindexlookup[GetByte(m, p + 2)]
  <2>1. CASE o = 203
    <3>1. IndexInstr(m, p) = IF bit = Unknown THEN Ends(p - 1) ELSE Plain(p + 3)
      BY <2>1 DEF IndexInstr
    <3> QED  BY <1>2, <3>1
  <2>2. CASE o = 233
    <3>1. IndexInstr(m, p) = Ends(p)
      BY <2>2 DEF IndexInstr
    <3> QED  BY <1>2, <3>1
  <2>3. CASE o \in {33, 42, 34}
    <3>1. IndexInstr(m, p) = LoadsWord(m, p + 1)
      BY <2>3 DEF IndexInstr
    <3> QED  BY <1>2, <3>1
  <2>4. CASE o \notin {203, 233, 33, 42, 34}
    <3>1. IndexInstr(m, p) = IF indexlookup[o] = Unknown THEN Ends(p - 1)
                             ELSE Plain(p + 1 + (indexlookup[o] % 16))
      BY <2>4 DEF IndexInstr
    <3> QED  BY <1>2, <3>1
  <2> QED  BY <2>1, <2>2, <2>3, <2>4
<1>5. ASSUME NEW p PROVE OzInstr(m, p).data \subseteq Addresses
  <2> DEFINE o == GetByte(m, p)
             k == GetByte(m, p + 1)
             entry(table, n) == IF n \in DOMAIN table THEN {table[n]} ELSE {}
             code(next, end, files) ==
                 [IF end THEN Ends(next - 1) ELSE Plain(next) EXCEPT !.includes = files]
  <2>1. ASSUME NEW next, NEW end, NEW files PROVE code(next, end, files).data = {}
    BY <1>2 DEF Plain, Ends
  <2> HIDE DEF code, entry
  <2>2. CASE o = 6
    <3>1. OzInstr(m, p) = code(p + 2, FALSE, entry(os2, (k \div 2) - 101))
      BY <2>2 DEF OzInstr, code, entry
    <3> QED  BY <2>1, <3>1
  <2>3. CASE o = 9
    <3>1. OzInstr(m, p) = code(p + 2, FALSE, entry(gn, (k \div 2) - 3))
      BY <2>3 DEF OzInstr, code, entry
    <3> QED  BY <2>1, <3>1
  <2>4. CASE o = 12
    <3>1. OzInstr(m, p) = code(p + 2, k \in {8, 10}, entry(dc, (k \div 2) - 3))
      BY <2>4 DEF OzInstr, code, entry
    <3> QED  BY <2>1, <3>1
  <2>5. CASE o \notin {6, 9, 12}
    <3>1. OzInstr(m, p) = code(p + 1, o = 33, entry(os1, (o \div 3) - 11))
      BY <2>5 DEF OzInstr, code, entry
    <3> QED  BY <2>1, <3>1
  <2> QED  BY <2>2, <2>3, <2>4, <2>5
<1>6. ASSUME NEW p PROVE MainInstr(m, p).data \subseteq Addresses
  <2> DEFINE o == GetByte(m, p)
             jr == [Plain(p + 2) EXCEPT !.targets = {RelativeTarget(m, p + 1)}]
             short == {24, 40, 32, 56, 48, 16}
             jumps == {194, 202, 210, 218, 242, 250, 234, 226}
                      \union {196, 204, 212, 220, 244, 252, 236, 205, 228}
             loads == {1, 17, 33, 49, 42, 34, 58, 50}
  <2>1. CASE o \in {201, 233}
    <3>1. MainInstr(m, p) = Ends(p)  BY <2>1 DEF MainInstr
    <3> QED  BY <1>2, <3>1
  <2>2. CASE o \in short
    <3>1. MainInstr(m, p) = jr \/ MainInstr(m, p) = [jr EXCEPT !.ends = {p + 1}]
      BY <2>2 DEF MainInstr
    <3>2. jr.data = {} /\ [jr EXCEPT !.ends = {p + 1}].data = {}
      BY DEF Plain
    <3> HIDE DEF jr
    <3> QED  BY <3>1, <3>2
  <2>3. CASE o = 195
    <3>1. MainInstr(m, p) = [Calls(m, p + 1) EXCEPT !.ends = {p + 2}]
      BY <2>3 DEF MainInstr
    <3>2. [Calls(m, p + 1) EXCEPT !.ends = {p + 2}].data = {}
      BY DEF Calls, Plain
    <3> QED  BY <3>1, <3>2
  <2>4. CASE o \in jumps
    <3>1. MainInstr(m, p) = Calls(m, p + 1)  BY <2>4 DEF MainInstr
    <3> QED  BY <1>2, <3>1
  <2>5. CASE o \in loads
    <3>1. MainInstr(m, p) = LoadsWord(m, p + 1)  BY <2>5 DEF MainInstr
    <3> QED  BY <1>2, <3>1
  <2>6. CASE o \notin {201, 233, 195} \union short \union jumps \union loads
    <3>1. MainInstr(m, p) = Plain(p + 1 + mainlookup[o])  BY <2>6 DEF MainInstr
    <3> QED  BY <1>2, <3>1
  <2> QED  BY <2>1, <2>2, <2>3, <2>4, <2>5, <2>6
<1> DEFINE b == GetByte(m, pc)
<1>7. CASE b \in {203, 223}
  BY <1>7 DEF Instr, Plain
<1>8. CASE b = 237
  <2>1. Instr(m, pc) = EdInstr(m, pc + 1)  BY <1>8 DEF Instr
  <2> QED  BY <1>3, <2>1
<1>9. CASE b \in {221, 253}
  <2>1. Instr(m, pc) = IndexInstr(m, pc + 1)  BY <1>9 DEF Instr
  <2> QED  BY <1>4, <2>1
<1>10. CASE b = 231
  <2>1. Instr(m, pc) = OzInstr(m, pc + 1)  BY <1>10 DEF Instr
  <2> QED  BY <1>5, <2>1
<1>11. CASE b \notin {203, 237, 221, 253, 223, 231}
  <2>1. Instr(m, pc) = MainInstr(m, pc)  BY <1>11 DEF Instr
  <2> QED  BY <1>6, <2>1
<1> QED  BY <1>7, <1>8, <1>9, <1>10, <1>11

LEMMA CodeAreAddresses ==
    /\ Code \subseteq Addresses
    /\ \A a : Extern(a) => a \in Addresses
<1>1. /\ Org \in Nat /\ gEndOfCode \in Int /\ Org <= gEndOfCode
      /\ gEndOfCode < MAXCODESIZE /\ Code = Org..gEndOfCode
  BY CodeLimits DEF Limits
<1>2. MAXCODESIZE \in Int
  BY DEF MAXCODESIZE
<1>3. Code \subseteq Addresses
  BY <1>1, <1>2 DEF Addresses
<1>4. ASSUME NEW a, Extern(a) PROVE a \in Addresses
  BY <1>1, <1>2, <1>4 DEF Addresses, Extern
<1> QED  BY <1>3, <1>4

----------------------------------------------------------------------------
(* Labels *)

LEMMA StoreOk ==
    ASSUME NEW table, LabelsOk(table), NEW S, S \subseteq Addresses, NEW addrref \in BOOLEAN
    PROVE  LET t == StoreRefs(table, S, addrref) IN
           /\ LabelsOk(t) /\ DOMAIN t = DOMAIN table \union S
           /\ \A a \in DOMAIN table : t[a] = table[a]
<1> DEFINE t == StoreRefs(table, S, addrref)
<1>1. DOMAIN t = DOMAIN table \union S
  BY DEF StoreRefs
<1>2. \A a \in DOMAIN table : t[a] = table[a]
  BY DEF StoreRefs
<1>3. ASSUME NEW a \in DOMAIN t
      PROVE  a \in Addresses /\ t[a] \in Label /\ (t[a].local <=> ~Extern(a))
  <2>1. CASE a \in DOMAIN table
    BY <1>2, <2>1 DEF LabelsOk, Addresses
  <2>2. CASE a \notin DOMAIN table
    <3>1. t[a] = NewLabel(a, addrref) /\ a \in Addresses
      BY <1>1, <2>2 DEF StoreRefs
    <3>2. ASSUME NEW e \in BOOLEAN
          PROVE  LET l == [addrref |-> addrref, local |-> e, name |-> NoName,
                           xref |-> FALSE, xdef |-> FALSE]
                 IN  l \in Label /\ l.local = e
      BY DEF Label
    <3>3. (~Extern(a)) \in BOOLEAN  BY DEF Extern
    <3> QED  BY <3>1, <3>2, <3>3, Zenon DEF NewLabel
  <2> QED  BY <2>1, <2>2
<1> QED  BY <1>1, <1>2, <1>3 DEF LabelsOk, Addresses

LEMMA NameOk ==
    ASSUME NEW table, LabelsOk(table), NEW a, NEW name \in Names
    PROVE  LabelsOk([table EXCEPT ![a].name = name])
  BY DEF LabelsOk, Label

LEMMA ScopeOk ==
    ASSUME NEW table, LabelsOk(table), NEW a, NEW xref \in BOOLEAN, NEW xdef \in BOOLEAN
    PROVE  LabelsOk([table EXCEPT ![a].xref = xref, ![a].xdef = xdef])
  BY DEF LabelsOk, Label

\* What is kept of a label.
KeptOf(l) == [l EXCEPT !.xref = FALSE, !.xdef = @ /\ l.local]

LEMMA KeptIs ==
    ASSUME NEW table, LabelsOk(table)
    PROVE  Kept(table) = [b \in DOMAIN table |-> KeptOf(table[b])]
<1> DEFINE addresses == {a % MAXCODESIZE : a \in DOMAIN table}
           of(b) == table[CHOOSE a \in DOMAIN table : a % MAXCODESIZE = b]
<1>1. \A a \in DOMAIN table : a % MAXCODESIZE = a
  <2>1. \A n \in Nat : \A a \in 0..(n - 1) : a % n = a
    OBVIOUS
  <2>2. MAXCODESIZE \in Nat
    BY DEF MAXCODESIZE
  <2>3. \A a \in DOMAIN table : a \in 0..(MAXCODESIZE - 1)
    BY DEF LabelsOk
  <2> QED  BY <2>1, <2>2, <2>3
<1>2. addresses = DOMAIN table
  BY <1>1
<1>3. \A b \in DOMAIN table : of(b) = table[b]
  <2> SUFFICES ASSUME NEW b \in DOMAIN table PROVE of(b) = table[b]
    OBVIOUS
  <2>1. \E a \in DOMAIN table : a % MAXCODESIZE = b
    BY <1>1
  <2>2. \A a \in DOMAIN table : a % MAXCODESIZE = b => a = b
    BY <1>1
  <2> QED  BY <2>1, <2>2
<1>4. Kept(table) = [b \in addresses |-> KeptOf(of(b))]
  BY DEF Kept, KeptOf
<1> HIDE DEF of, addresses
<1> QED  BY <1>2, <1>3, <1>4

LEMMA KeptOk ==
    ASSUME NEW table, LabelsOk(table)
    PROVE  LabelsOk(Kept(table)) /\ Kept(Kept(table)) = Kept(table)
<1> DEFINE t == Kept(table)
<1>1. DOMAIN t = DOMAIN table /\ \A b \in DOMAIN table : t[b] = KeptOf(table[b])
  BY KeptIs
<1>2. \A l \in Label : /\ KeptOf(l) \in Label /\ KeptOf(l).local = l.local
                       /\ KeptOf(KeptOf(l)) = KeptOf(l)
  BY DEF Label, KeptOf
<1>3. t = [b \in DOMAIN table |-> KeptOf(table[b])]
  BY KeptIs
<1> HIDE DEF t
<1>4. LabelsOk(t)
  BY <1>1, <1>2 DEF LabelsOk
<1>5. Kept(t) = [b \in DOMAIN t |-> KeptOf(t[b])]
  BY <1>4, KeptIs
<1>6. \A b \in DOMAIN table : KeptOf(t[b]) = t[b]
  BY <1>1, <1>2 DEF LabelsOk
<1>7. [b \in DOMAIN table |-> KeptOf(t[b])] = [b \in DOMAIN table |-> t[b]]
  BY <1>6
<1>8. [b \in DOMAIN table |-> t[b]] = t
  BY <1>3
<1> QED  BY <1>1, <1>4, <1>5, <1>7, <1>8 DEF t

\* The file does not tell tables apart that have the same labels.
LEMMA KeptSame ==
    ASSUME NEW table, LabelsOk(table), NEW t, LabelsOk(t), DOMAIN t = DOMAIN table,
           \A a \in DOMAIN table : t[a] = table[a]
    PROVE  Kept(t) = Kept(table)
<1>1. Kept(t) = [b \in DOMAIN t |-> KeptOf(t[b])]
  BY KeptIs
<1>2. Kept(table) = [b \in DOMAIN table |-> KeptOf(table[b])]
  BY KeptIs
<1> QED  BY <1>1, <1>2
\* t has the labels of table, and perhaps more.
Extends(table, t) ==
    LabelsOk(t) /\ DOMAIN table \subseteq DOMAIN t /\ \A a \in DOMAIN table : t[a] = table[a]

LEMMA StoreExtends ==
    ASSUME NEW table, LabelsOk(table), NEW S, S \subseteq Addresses, NEW addrref \in BOOLEAN
    PROVE  Extends(table, StoreRefs(table, S, addrref))
  BY StoreOk DEF Extends

LEMMA ExtendsTwice ==
    ASSUME NEW table, NEW t, Extends(table, t), NEW u, Extends(t, u)
    PROVE  Extends(table, u)
  BY DEF Extends

LEMMA ExtendsSame ==
    ASSUME NEW table, LabelsOk(table), NEW t, Extends(table, t), DOMAIN t = DOMAIN table
    PROVE  Kept(t) = Kept(table)
  BY KeptSame DEF Extends

----------------------------------------------------------------------------
(* What steps leave alone *)

\* What the collect file would hold is the same as before.
SameWork ==
    /\ \A a \in Code : SearchArea(areas, a)' = SearchArea(areas, a)
    /\ Kept(labels)' = Kept(labels) /\ remarks' = remarks
    /\ (DOMAIN exprs)' = DOMAIN exprs /\ (DOMAIN consts)' = DOMAIN consts

LEMMA FileStays ==
    ASSUME FileOk, file' = file, mem' = mem
    PROVE  FileOk'
  BY DEF FileOk, available

\* Work that is new is flagged.
LEMMA SavedStays ==
    ASSUME Saved, file' = file, job # Down, ~changed' /\ job' # Down => ~changed /\ SameWork
    PROVE  Saved'
<1> SUFFICES ASSUME job' # Down, available', ~changed' PROVE InFile'
  BY DEF Saved
<1>1. ~changed /\ SameWork /\ available
  BY DEF available
<1>2. InFile
  BY <1>1 DEF Saved
<1> QED  BY <1>1, <1>2 DEF InFile, SameWork

LEMMA StackStays ==
    ASSUME StackOk, stack' = stack, mem' = mem
    PROVE  StackOk'
  BY DEF StackOk

LEMMA JobEnds ==
    ASSUME job' \in {Idle, Down}
    PROVE  JobOk'
<1>1. job'.pc \in {"idle", "down"} /\ job' \notin Jobs
  BY DEF Idle, Down, Jobs
<1> QED  BY <1>1 DEF JobOk

LEMMA NotInJob ==
    ASSUME job = Idle
    PROVE  job # Down /\ job \notin Jobs /\ job.pc = "idle"
  BY DEF Idle, Down, Jobs

\* Commands that pass 1 has no part in.
LEMMA QuietOk ==
    ASSUME SettledInv, job = Idle, mem' = mem, file' = file, stack' = stack, parsed' = parsed,
           job' \in {Idle, Down}, Settled(mem, areas'), LabelsOk(labels'), RemarksOk(remarks'),
           changed' \in BOOLEAN, ~changed' => ~changed /\ SameWork
    PROVE  SettledInv'
<1>1. JobOk' /\ FileOk' /\ StackOk'
  BY JobEnds, FileStays, StackStays DEF SettledInv
<1>2. Saved'
  BY NotInJob, SavedStays DEF SettledInv
<1> QED  BY <1>1, <1>2 DEF SettledInv

LEMMA DefineOk ==
    ASSUME Tidy, mem \in Images, Settled(mem, areas), NEW start \in Code, NEW end \in Code,
           start <= end, Fits(areas, start, end), Free(mem, start, end),
           NEW type \in Types \ {"vacuum"}, NEW otherwise, Define(start, end, type, otherwise)
    PROVE  job' = otherwise /\ changed' = TRUE /\ Grown(mem, areas, areas', start, end)
<1>1. /\ ~InsertCrashes(areas, start, end)
      /\ Grown(mem, areas, InsertArea(areas, start, end, type), start, end)
  BY UserInserts
<1> QED  BY <1>1 DEF Define

LEMMA RangeIsFree ==
    ASSUME Tidy, NEW start, NEW end, UserRange(start, end)
    PROVE  start <= end /\ Fits(areas, start, end) /\ Free(mem, start, end)
  BY DEF UserRange, Free

LEMMA KnownStays ==
    ASSUME NEW list
    PROVE  StillKnown(list, list)
  BY DEF StillKnown

----------------------------------------------------------------------------
(* The commands *)

LEMMA DefiningOk ==
    ASSUME Tidy, mem \in Images, SettledInv, NEW start \in Code, NEW end \in Code, NEW type,
           ParsePointerTable(start, end) \/ (type \in DataTypes /\ DefineMemory(type, start, end))
    PROVE  SettledInv' /\ StillKnown(areas, areas')
<1>1. /\ job = Idle /\ mem' = mem /\ parsed' = parsed /\ file' = file
      /\ stack' = stack /\ remarks' = remarks /\ UserRange(start, end)
  BY DEF ParsePointerTable, DefineMemory, Command, UserTable
<1>2. Settled(mem, areas) /\ LabelsOk(labels) /\ RemarksOk(remarks)
  BY DEF SettledInv
<1>3. \A p : Word(mem, p) \in Addresses
  BY SessionAssumption, WordsAreAddresses
<1>4. {start} \subseteq Addresses
  BY CodeAreAddresses
<1>5. LabelsOk(labels')
  <2>1. CASE ParsePointerTable(start, end)
    <3> DEFINE pointers == {Word(mem, start + 3 * k) :
                               k \in {n \in 0..Codesize : start + 3 * n < end}}
               entry == StoreRefs(labels, {start}, FALSE)
    <3>1. labels' = StoreRefs(entry, pointers, TRUE)
      BY <2>1 DEF ParsePointerTable
    <3>2. pointers \subseteq Addresses
      BY <1>3
    <3>3. LabelsOk(entry)
      BY <1>2, <1>4, StoreOk
    <3> HIDE DEF pointers, entry
    <3> QED  BY <3>1, <3>2, <3>3, StoreOk
  <2>2. CASE DefineMemory(type, start, end)
    <3> DEFINE words == {start + 2 * k : k \in {n \in 0..Codesize : start + 2 * n < end}}
               pointers == {Word(mem, a) : a \in words}
               entry == StoreRefs(labels, {start}, type = "program")
    <3>1. labels' \in {StoreRefs(entry, pointers, FALSE), entry, labels}
      BY <2>2 DEF DefineMemory
    <3>2. pointers \subseteq Addresses
      BY <1>3
    <3>3. LabelsOk(entry)
      <4>1. (type = "program") \in BOOLEAN
        OBVIOUS
      <4> QED  BY <1>2, <1>4, <4>1, StoreOk
    <3> HIDE DEF pointers, entry
    <3>4. LabelsOk(StoreRefs(entry, pointers, FALSE))
      BY <3>2, <3>3, StoreOk
    <3> QED  BY <1>2, <3>1, <3>3, <3>4
  <2> QED  BY <2>1, <2>2
<1>6. PICK t \in Types \ {"vacuum"} : Define(start, end, t, Idle)
  <2>1. "addrtable" \in Types \ {"vacuum"} /\ DataTypes \subseteq Types \ {"vacuum"}
    BY SessionAssumption DEF Types
  <2> QED  BY <2>1 DEF ParsePointerTable, DefineMemory
<1>7. job' = Idle /\ changed' = TRUE /\ Grown(mem, areas, areas', start, end)
  BY <1>1, <1>2, <1>6, RangeIsFree, DefineOk
<1> QED  BY <1>1, <1>2, <1>5, <1>7, QuietOk DEF Grown

LEMMA NotingOk ==
    ASSUME mem \in Images, SettledInv,
           \/ \E a \in Known, name \in Names : DefineLabel(a, name)
           \/ \E a \in Code, scope \in {"xref", "xdef"} : DefineScope(a, scope)
           \/ \E a \in Known, position \in Positions : RemarkOutput(a, position)
           \/ \E a \in Known, text \in Texts : DefineExpression(a, text)
           \/ \E a \in Known, text \in Texts : DefineConstant(a, text)
    PROVE  SettledInv' /\ areas' = areas
<1>1. /\ job = Idle /\ mem' = mem /\ parsed' = parsed /\ file' = file
      /\ stack' = stack /\ job' = job /\ areas' = areas
  BY DEF DefineLabel, DefineScope, RemarkOutput, DefineExpression, DefineConstant, Command, Same
<1>2. Settled(mem, areas) /\ LabelsOk(labels) /\ RemarksOk(remarks) /\ changed \in BOOLEAN
  BY DEF SettledInv
<1>3. LabelsOk(labels')
  <2>1. CASE \E a \in Known, name \in Names : DefineLabel(a, name)
    <3>1. PICK a \in Known, name \in Names : DefineLabel(a, name)
      BY <2>1
    <3>2. labels' = [StoreRefs(labels, {a}, TRUE) EXCEPT ![a].name = name]
      BY <3>1 DEF DefineLabel
    <3>3. {a} \subseteq Addresses
      BY SessionAssumption, CodeAreAddresses
    <3>4. LabelsOk(StoreRefs(labels, {a}, TRUE))
      BY <1>2, <3>3, StoreOk
    <3> QED  BY <3>2, <3>4, NameOk
  <2>2. CASE \E a \in Code, scope \in {"xref", "xdef"} : DefineScope(a, scope)
    <3>1. PICK a \in Code, scope \in {"xref", "xdef"} : DefineScope(a, scope)
      BY <2>2
    <3>2. labels' = [labels EXCEPT ![a].xref = (scope = "xref"), ![a].xdef = (scope = "xdef")]
      BY <3>1 DEF DefineScope
    <3>3. (scope = "xref") \in BOOLEAN /\ (scope = "xdef") \in BOOLEAN
      OBVIOUS
    <3> QED  BY <1>2, <3>2, <3>3, ScopeOk
  <2>3. CASE \/ \E a \in Known, position \in Positions : RemarkOutput(a, position)
             \/ \E a \in Known, text \in Texts : DefineExpression(a, text)
             \/ \E a \in Known, text \in Texts : DefineConstant(a, text)
    <3>1. labels' = labels
      BY <2>3 DEF RemarkOutput, DefineExpression, DefineConstant
    <3> QED  BY <1>2, <3>1
  <2> QED  BY <2>1, <2>2, <2>3
<1>4. RemarksOk(remarks')
  <2>1. CASE \E a \in Known, position \in Positions : RemarkOutput(a, position)
    <3>1. PICK a \in Known, position \in Positions : RemarkOutput(a, position)
      BY <2>1
    <3>2. remarks' = remarks \/ remarks' = Set(remarks, a, position)
      BY <3>1 DEF RemarkOutput
    <3>3. RemarksOk(Set(remarks, a, position))
      BY <1>2, SessionAssumption DEF RemarksOk, Set
    <3> QED  BY <1>2, <3>2, <3>3
  <2>2. CASE remarks' = remarks
    BY <1>2, <2>2
  <2> QED  BY <2>1, <2>2 DEF DefineLabel, DefineScope, DefineExpression, DefineConstant
<1>5. changed' \in BOOLEAN /\ (~changed' => ~changed /\ SameWork)
  <2>1. CASE changed' = TRUE
    BY <2>1
  <2>2. CASE \E a \in Known, text \in Texts : DefineExpression(a, text)
    BY <1>1, <1>2, <2>2 DEF DefineExpression, FlagNew, SameWork
  <2>3. CASE \E a \in Known, text \in Texts : DefineConstant(a, text)
    BY <1>1, <1>2, <2>3 DEF DefineConstant, FlagNew, SameWork
  <2> QED  BY <2>1, <2>2, <2>3 DEF DefineLabel, DefineScope, RemarkOutput
<1> QED  BY <1>1, <1>2, <1>3, <1>4, <1>5, QuietOk
----------------------------------------------------------------------------
(* The collect file *)

LEMMA WrittenOk ==
    ASSUME SettledInv, mem' = mem, GenCollectFile
    PROVE  FileOk'
<1>1. /\ file'.areas = areas /\ file'.labels = Kept(labels) /\ file'.remarks = remarks
      /\ file'.parsed = parsed
  BY DEF GenCollectFile, Collected
<1>2. LabelsOk(Kept(labels)) /\ Kept(Kept(labels)) = Kept(labels)
  BY KeptOk DEF SettledInv
<1> QED  BY <1>1, <1>2 DEF SettledInv, FileOk

LEMMA ReadOk ==
    ASSUME FileOk, available, NEW kept, ReadCollectFile(kept), mem' = mem, file' = file,
           job' = Idle, StackOk'
    PROVE  SettledInv'
<1>1. /\ Settled(mem, file.areas) /\ LabelsOk(file.labels) /\ Kept(file.labels) = file.labels
      /\ RemarksOk(file.remarks) /\ file.parsed \subseteq Code
  BY DEF FileOk
<1>2. file.areas \in Seq(Areas) /\ ValidAreas(file.areas)
  BY <1>1 DEF Settled, Partition
<1>3. areas' = file.areas
  BY <1>2, InsertedSame DEF ReadCollectFile
<1>4. /\ labels' = file.labels /\ remarks' = file.remarks /\ parsed' = file.parsed
      /\ exprs' = file.exprs /\ consts' = file.consts /\ changed' = FALSE
  BY DEF ReadCollectFile
<1>5. FileOk' /\ JobOk'
  BY FileStays, JobEnds
<1>6. InFile'
  BY <1>1, <1>3, <1>4 DEF InFile
<1> QED  BY <1>1, <1>3, <1>4, <1>5, <1>6 DEF SettledInv, Saved

LEMMA FileCommandsOk ==
    ASSUME SettledInv, CreateCollectFile \/ ReloadCollectFile \/ (\E yes \in BOOLEAN : Quit(yes))
    PROVE  SettledInv' /\ (~ReloadCollectFile => areas' = areas)
<1>1. job = Idle /\ mem' = mem /\ stack' = stack
  BY DEF CreateCollectFile, ReloadCollectFile, Quit, Command
<1>2. /\ Settled(mem, areas) /\ LabelsOk(labels) /\ RemarksOk(remarks) /\ parsed \subseteq Code
      /\ changed \in BOOLEAN /\ StackOk /\ FileOk /\ StackOk'
  BY <1>1, StackStays DEF SettledInv
<1>3. CASE CreateCollectFile
  <2>1. /\ areas' = areas /\ labels' = labels /\ remarks' = remarks /\ exprs' = exprs
        /\ consts' = consts /\ parsed' = parsed /\ job' = job /\ GenCollectFile
    BY <1>3 DEF CreateCollectFile, work
  <2>2. FileOk' /\ JobOk'
    BY <1>1, <2>1, WrittenOk, JobEnds
  <2>3. file' = Collected /\ changed' = FALSE
    BY <2>1 DEF GenCollectFile
  <2>4. InFile'
    BY <2>1, <2>3 DEF InFile, Collected
  <2> QED  BY <1>1, <1>2, <2>1, <2>2, <2>3, <2>4 DEF SettledInv, Saved
<1>4. CASE ReloadCollectFile /\ available
  <2>1. ReadCollectFile(includes \intersect {"handle"}) /\ job' = Idle /\ file' = file
    BY <1>4 DEF ReloadCollectFile
  <2> QED  BY <1>1, <1>2, <1>4, <2>1, ReadOk
<1>5. CASE ReloadCollectFile /\ ~available
  <2>1. /\ areas' = areas /\ labels' = labels /\ remarks' = remarks /\ exprs' = exprs
        /\ consts' = consts /\ parsed' = parsed /\ changed' = changed /\ file' = file
        /\ job' = Down
    BY <1>5 DEF ReloadCollectFile, work
  <2>2. FileOk' /\ JobOk' /\ Saved'
    BY <1>1, <1>2, <2>1, FileStays, JobEnds DEF Saved
  <2> QED  BY <1>1, <1>2, <1>5, <2>1, <2>2 DEF SettledInv
<1>6. CASE \E yes \in BOOLEAN : Quit(yes)
  <2>1. /\ areas' = areas /\ labels' = labels /\ remarks' = remarks /\ exprs' = exprs
        /\ consts' = consts /\ parsed' = parsed /\ job' = Down
        /\ GenCollectFile \/ (file' = file /\ changed' = changed)
    BY <1>6 DEF Quit, work
  <2>2. JobOk' /\ Saved'
    BY <2>1, JobEnds DEF Saved
  <2>3. FileOk' /\ changed' \in BOOLEAN
    <3>1. CASE GenCollectFile
      BY <1>1, <3>1, WrittenOk DEF GenCollectFile
    <3>2. CASE file' = file /\ changed' = changed
      BY <1>1, <1>2, <3>2, FileStays
    <3> QED  BY <2>1, <3>1, <3>2
  <2> QED  BY <1>1, <1>2, <2>1, <2>2, <2>3 DEF SettledInv
<1> QED  BY <1>3, <1>4, <1>5, <1>6

LEMMA AllVoidSettled ==
    ASSUME Tidy, NEW m \in Images
    PROVE  Settled(m, AllVoid)
<1> DEFINE a == Area(Org, gEndOfCode, "vacuum")
<1>1. Org \in Nat /\ gEndOfCode \in Int /\ Org <= gEndOfCode /\ Code = Org..gEndOfCode
  BY CodeLimits DEF Limits
<1>2. a \in Areas /\ a.start = Org /\ a.end = gEndOfCode /\ a.type = "vacuum"
  BY <1>1 DEF Area, Areas, Types
<1>3. \A b \in Begins(m) : b \in Int /\ Org <= b
  BY <1>1, Instructions
<1>4. AreaOk(m, a)
  <2>1. Boundary(m, Org)
    BY <1>1, <1>3 DEF Boundary
  <2> QED  BY <1>2, <2>1 DEF AreaOk
<1> HIDE DEF a
<1>5. <<a>> \in Seq(Areas) /\ Len(<<a>>) = 1 /\ <<a>>[1] = a /\ <<a>> # <<>>
  BY <1>2
<1> DEFINE s == <<a>>
<1> HIDE DEF s
<1>6. s \in Seq(Areas) /\ Len(s) = 1 /\ s[1] = a /\ s # <<>> /\ DOMAIN s = {1}
  BY <1>5 DEF s
<1>7. Partition(s, Org, gEndOfCode)
  BY <1>1, <1>2, <1>6 DEF Partition, ValidAreas
<1>8. VoidsApart(s)
  BY <1>6 DEF VoidsApart
<1>9. \A k \in 1..Len(s) : AreaOk(m, s[k])
  BY <1>4, <1>6
<1> QED  BY <1>6, <1>7, <1>8, <1>9 DEF Settled, AllVoid, s, a

LEMMA NoTable ==
    /\ DOMAIN <<>> = {} /\ LabelsOk(<<>>) /\ RemarksOk(<<>>) /\ Elements(<<>>) = {}
<1>1. DOMAIN <<>> = {} /\ Elements(<<>>) = {}
  BY DEF Elements
<1> QED  BY <1>1 DEF LabelsOk, RemarksOk

LEMMA InitOk ==
    ASSUME Tidy, Init
    PROVE  SettledInv
<1>1. /\ mem \in Images /\ areas = AllVoid /\ labels = <<>> /\ remarks = <<>>
      /\ changed = FALSE /\ file = <<>> /\ stack = <<>> /\ job = Idle /\ parsed = {}
  BY DEF Init
<1>2. ~available
  BY <1>1 DEF available
<1>3. JobOk
  BY <1>1, NotInJob DEF JobOk, Idle
<1>4. StackOk /\ FileOk /\ Saved
  BY <1>1, <1>2, NoTable DEF StackOk, FileOk, Saved
<1>5. Settled(mem, areas)
  BY <1>1, AllVoidSettled
<1> QED  BY <1>1, <1>3, <1>4, <1>5, NoTable DEF SettledInv

LEMMA StartOk ==
    ASSUME Tidy, mem \in Images, SettledInv, Start
    PROVE  SettledInv'
<1>1. mem' = mem /\ file' = file /\ job' = Idle /\ stack' = <<>> /\ FileOk
  BY DEF Start, SettledInv
<1>2. StackOk'
  BY <1>1, NoTable DEF StackOk
<1>3. CASE available
  BY <1>1, <1>2, <1>3, ReadOk DEF Start
<1>4. CASE ~available
  <2>1. areas' = AllVoid /\ labels' = <<>> /\ remarks' = <<>> /\ changed' = FALSE /\ parsed' = {}
    BY <1>4 DEF Start
  <2>2. Settled(mem, areas') /\ LabelsOk(labels') /\ RemarksOk(remarks')
    BY <2>1, AllVoidSettled, NoTable
  <2>3. FileOk' /\ JobOk'
    BY <1>1, FileStays, JobEnds
  <2>4. Saved'
    BY <1>1, <1>4 DEF Saved, available
  <2> QED  BY <1>1, <1>2, <2>1, <2>2, <2>3, <2>4 DEF SettledInv
<1> QED  BY <1>3, <1>4
----------------------------------------------------------------------------
(* Commands that start a parse *)

LEMMA StartsWithTable ==
    ASSUME NEW cmd \in {"pp", "pl", "pv"}, NEW start \in Code, NEW end \in Code
    PROVE  LET j == Pass(cmd, start, end) IN
           /\ j \in Jobs /\ j.cmd = cmd /\ j.start = start /\ j.end = end /\ j.at = start
           /\ j.pc # "parse" /\ (j.pc = "entry" => cmd # "pp") /\ j # Down
<1>1. start \in Nat /\ start \in Int
  BY CodeLimits DEF Limits
<1> QED  BY <1>1 DEF Pass, Jobs, Down

LEMMA ParsingOk ==
    ASSUME Tidy, mem \in Images, SettledInv, NEW start \in Code, NEW end \in Code,
           ParseDZ(start) \/ ParseLookupTable(start, end) \/ ParseVectorTable(start)
    PROVE  SettledInv' /\ areas' = areas
<1>1. /\ job = Idle /\ mem' = mem /\ parsed' = parsed /\ file' = file /\ areas' = areas
      /\ remarks' = remarks /\ exprs' = exprs /\ consts' = consts
  BY DEF ParseDZ, ParseLookupTable, ParseVectorTable, Command
<1>2. /\ Settled(mem, areas) /\ LabelsOk(labels) /\ RemarksOk(remarks) /\ parsed \subseteq Code
      /\ changed \in BOOLEAN /\ StackOk /\ FileOk /\ Saved
  BY DEF SettledInv
<1>3. PICK addrref \in BOOLEAN : labels' = StoreRefs(labels, {start}, addrref)
  BY DEF ParseDZ, ParseLookupTable, ParseVectorTable
<1>4. Extends(labels, labels') /\ LabelsOk(labels')
  <2>1. {start} \subseteq Addresses
    BY CodeAreAddresses
  <2>2. Extends(labels, labels')
    BY <1>2, <1>3, <2>1, StoreExtends
  <2> QED  BY <2>2 DEF Extends
<1>5. changed' \in BOOLEAN /\ (~changed' => ~changed /\ SameWork)
  <2>1. changed' = (changed \/ DOMAIN labels' # DOMAIN labels)
    BY DEF ParseDZ, ParseLookupTable, ParseVectorTable, FlagNew
  <2>2. ~changed' => Kept(labels') = Kept(labels)
    BY <1>2, <1>4, <2>1, ExtendsSame
  <2> QED  BY <1>1, <1>2, <2>1, <2>2 DEF SameWork
<1>6. gEndOfCode \in Code /\ 0 \in 0..Codesize
  BY CodeLimits, SessionAssumption DEF Limits
<1>7. StackOk'
  <2>1. CASE ParseDZ(start)
    <3>1. stack' = <<start>> /\ start \in Begins(mem)
      BY <2>1 DEF ParseDZ, UserEntry
    <3>2. Elements(<<start>>) = {start}
      BY DEF Elements
    <3> QED  BY <1>1, <3>1, <3>2 DEF StackOk
  <2>2. CASE stack' = stack
    BY <1>1, <1>2, <2>2, StackStays
  <2> QED  BY <2>1, <2>2 DEF ParseLookupTable, ParseVectorTable
<1>8. JobOk'
  <2>1. CASE ParseDZ(start)
    <3>1. job' = Pass("pp", start, start)
      BY <2>1 DEF ParseDZ
    <3>2. /\ job' \in Jobs /\ job'.cmd = "pp" /\ job'.pc # "parse"
          /\ (job'.pc = "entry" => "pp" # "pp")
      BY <3>1, StartsWithTable
    <3> QED  BY <3>2 DEF JobOk
  <2>2. CASE ParseLookupTable(start, end)
    <3>1. job' = Pass("pl", start, end) /\ UserRange(start, end) /\ UserPointers(start, end)
      BY <2>2 DEF ParseLookupTable, UserTable
    <3>2. /\ job' \in Jobs /\ job'.cmd = "pl" /\ job'.start = start /\ job'.end = end
          /\ job'.at = start /\ job'.pc # "parse"
      BY <3>1, StartsWithTable
    <3>3. start <= end /\ Fits(areas, start, end) /\ Free(mem, start, end)
      BY <3>1, RangeIsFree
    <3>4. Whole(areas, start, end)
      <4>1. start \in Int /\ end \in Int
        BY CodeLimits
      <4>2. areas \in Seq(Areas) /\ Partition(areas, Org, gEndOfCode)
        BY <1>2 DEF Settled
      <4> QED  BY <3>3, <4>1, <4>2, FitsWhole
    <3>5. start = start + 2 * 0
      BY CodeLimits
    <3>6. UserPointers(start, end)'
      BY <1>1, <3>1 DEF UserPointers
    <3>7. \E k \in 0..Codesize : job'.at = job'.start + 2 * k
      BY <1>6, <3>2, <3>5
    <3>8. PointersRead'
      BY <1>1, <3>2, <3>3, <3>4, <3>6, <3>7 DEF PointersRead
    <3> QED  BY <3>2, <3>8 DEF JobOk
  <2>3. CASE ParseVectorTable(start)
    <3>1. job' = Pass("pv", start, gEndOfCode) /\ UserVectors(start)
      BY <2>3 DEF ParseVectorTable
    <3>2. /\ job' \in Jobs /\ job'.cmd = "pv" /\ job'.start = start
          /\ job'.at = start /\ job'.pc # "parse"
      BY <1>6, <3>1, StartsWithTable
    <3>3. start = start + 3 * 0
      BY CodeLimits
    <3>4. UserVectors(start)'
      BY <1>1, <3>1 DEF UserVectors
    <3>5. 0..(0 - 1) = {}
      OBVIOUS
    <3>6. \E k \in 0..Codesize :
              /\ job'.at = job'.start + 3 * k
              /\ \A n \in 0..(k - 1) : GetByte(mem', job'.start + 3 * n) = 195
      BY <1>6, <3>2, <3>3, <3>5
    <3>7. VectorsRead'
      BY <3>2, <3>4, <3>6 DEF VectorsRead
    <3> QED  BY <3>2, <3>7 DEF JobOk
  <2> QED  BY <2>1, <2>2, <2>3
<1>9. FileOk' /\ Saved'
  BY <1>1, <1>2, <1>5, NotInJob, FileStays, SavedStays
<1> QED  BY <1>1, <1>2, <1>4, <1>5, <1>7, <1>8, <1>9 DEF SettledInv
----------------------------------------------------------------------------
(* Pass 1 *)

LEMMA InProgress ==
    ASSUME JobOk, job.pc \in {"entry", "pass", "parse"}
    PROVE  job \in Jobs /\ job # Down /\ job # Idle
  BY DEF JobOk, Idle, Down

\* A table that is on its way stays so while pass 1 follows one of its entries.
LEMMA TableStays ==
    ASSUME JobOk, job \in Jobs, job' \in Jobs, mem' = mem, job'.cmd = job.cmd,
           job'.start = job.start, job'.end = job.end, job'.at = job.at,
           job.cmd = "pl" => Whole(areas', job.start, job.end)
    PROVE  /\ job'.cmd = "pl" => PointersRead'
           /\ job'.cmd = "pv" => VectorsRead'
<1>1. ASSUME job'.cmd = "pl" PROVE PointersRead'
  <2>1. PointersRead /\ Whole(areas', job.start, job.end)
    BY <1>1 DEF JobOk
  <2> QED  BY <2>1 DEF PointersRead, UserPointers
<1>2. ASSUME job'.cmd = "pv" PROVE VectorsRead'
  <2>1. VectorsRead
    BY <1>2 DEF JobOk
  <2> QED  BY <2>1 DEF VectorsRead, UserVectors
<1> QED  BY <1>1, <1>2

\* Areas that pass 1 puts in do not cut a table on its way in two: a run starts and
\* ends with an instruction.
LEMMA RunLeavesWhole ==
    ASSUME Tidy, NEW m \in Images, NEW area, NEW end, Run(m, area, end),
           NEW list, NEW s, StartsAmong(list, s, area, end),
           NEW first \in Code, NEW last \in Code, Free(m, first, last), Whole(list, first, last)
    PROVE  Whole(s, first, last)
<1>1. area \in Begins(m) /\ end \in Int /\ area <= end
  BY DEF Run
<1>2. \A b \in Begins(m) : b \in Int /\ Instr(m, b).next \in Int /\ b < Instr(m, b).next
  BY Instructions
<1>3. first \in Int /\ last \in Int
  BY CodeLimits
<1>4. area \notin first..last
  <2>1. area \in area..(Instr(m, area).next - 1)
    BY <1>1, <1>2
  <2> QED  BY <1>1, <2>1 DEF Free
<1>5. end \notin first..last
  <2>1. end \in area..end
    BY <1>1, <1>2
  <2>2. PICK b \in Begins(m) : b <= end /\ end < Instr(m, b).next
    BY <2>1 DEF Run
  <2>3. end \in b..(Instr(m, b).next - 1)
    BY <1>1, <1>2, <2>2
  <2> QED  BY <2>3 DEF Free
<1>6. area \notin (first + 1)..last /\ end + 1 \notin (first + 1)..last
  BY <1>1, <1>2, <1>3, <1>4, <1>5
<1>7. ASSUME NEW k \in 1..Len(s) PROVE s[k].start \notin (first + 1)..last
  <2>1. s[k].start \in {area, end + 1} \union {list[h].start : h \in 1..Len(list)}
    BY DEF StartsAmong
  <2>2. CASE s[k].start \in {area, end + 1}
    BY <1>6, <2>2
  <2>3. CASE s[k].start \in {list[h].start : h \in 1..Len(list)}
    BY <2>3 DEF Whole
  <2> QED  BY <2>1, <2>2, <2>3
<1> QED  BY <1>7 DEF Whole

LEMMA AreaParsedOk ==
    ASSUME Tidy, mem \in Images, mem' = mem, Settled(mem, areas), JobOk, changed \in BOOLEAN,
           job.pc = "parse", NEW end, Run(mem, job.area, end),
           NEW flag \in BOOLEAN, AreaParsed(end, flag)
    PROVE  /\ Settled(mem, areas') /\ StillKnown(areas, areas') /\ JobOk'
           /\ changed' \in BOOLEAN
           /\ ~changed' /\ job' # Down => ~flag /\ areas' = areas
<1> DEFINE again == [job EXCEPT !.pc = "pass", !.area = job.start, !.next = job.start,
                                !.found = "notfound"]
<1>1. job \in Jobs /\ job.found = SearchArea(areas, job.area)
  BY InProgress DEF JobOk
<1>2. /\ again \in Jobs /\ again.pc = "pass" /\ again.cmd = job.cmd /\ again.start = job.start
      /\ again.end = job.end /\ again.at = job.at
  <2>1. job.start \in Int
    BY <1>1, CodeLimits DEF Jobs
  <2> QED  BY <1>1, <2>1 DEF Jobs
<1> HIDE DEF again
<1>3. ASSUME job' = again, job.cmd = "pl" => Whole(areas', job.start, job.end)
      PROVE  JobOk'
  <2>1. (job'.cmd = "pl" => PointersRead') /\ (job'.cmd = "pv" => VectorsRead')
    BY <1>1, <1>2, <1>3, TableStays
  <2> QED  BY <1>2, <1>3, <2>1 DEF JobOk
<1>4. job.cmd = "pl" => /\ Whole(areas, job.start, job.end) /\ Free(mem, job.start, job.end)
                        /\ job.start \in Code /\ job.end \in Code
  BY <1>1 DEF JobOk, PointersRead, Jobs
<1>5. CASE job.found \notin {"vacuum", "notfound"}
  <2>1. job' = again /\ changed' = flag /\ areas' = areas
    BY <1>5 DEF AreaParsed, again
  <2> QED  BY <1>3, <1>4, <2>1, KnownStays
<1>6. CASE job.found \in {"vacuum", "notfound"}
  <2>1. Define(job.area, end, "program", again)
    BY <1>6 DEF AreaParsed, again
  <2>2. CASE InsertCrashes(areas, job.area, end)
    <3>1. job' = Down /\ areas' = areas /\ changed' = changed
      BY <2>1, <2>2 DEF Define
    <3> QED  BY <3>1, JobEnds, KnownStays
  <2>3. CASE ~InsertCrashes(areas, job.area, end)
    <3>1. job' = again /\ changed' = TRUE /\ areas' = InsertArea(areas, job.area, end, "program")
      BY <2>1, <2>3 DEF Define
    <3>2. SearchArea(areas, job.area) = "vacuum"
      <4>1. areas \in Seq(Areas) /\ Partition(areas, Org, gEndOfCode) /\ ValidAreas(areas)
        BY DEF Settled, Partition
      <4>2. /\ job.area \in Int /\ job.area \in Org..gEndOfCode
            /\ Org \in Int /\ gEndOfCode \in Int
        <5>1. job.area \in Begins(mem)
          BY DEF Run
        <5> QED  BY <5>1, Instructions, CodeLimits DEF Limits
      <4>3. PICK i \in 1..Len(areas) : Holds(areas[i], job.area)
        BY <4>1, <4>2, Covered
      <4>4. SearchArea(areas, job.area) = areas[i].type
        BY <4>1, <4>2, <4>3, Found
      <4>5. areas[i] \in Areas
        BY <4>1
      <4>6. areas[i].type \in Types
        BY <4>5 DEF Areas
      <4> QED  BY <1>1, <1>6, <4>4, <4>6 DEF Types
    <3>3. Grown(mem, areas, areas', job.area, end)
      BY <2>3, <3>1, <3>2, PassInserts
    <3>4. job.cmd = "pl" => Whole(areas', job.start, job.end)
      BY <1>4, <3>3, RunLeavesWhole DEF Grown
    <3> QED  BY <1>3, <3>1, <3>3, <3>4 DEF Grown
  <2> QED  BY <2>2, <2>3
<1> QED  BY <1>5, <1>6

LEMMA NextToParse ==
    ASSUME Tidy, mem \in Images, JobOk, job.pc = "parse"
    PROVE  /\ Walked(mem, job.area, job.next) /\ job.next \in Int
           /\ job.next <= gEndOfCode => job.next \in Begins(mem) /\ job.next \in Code
<1>1. job \in Jobs /\ Walked(mem, job.area, job.next)
  BY InProgress DEF JobOk
<1>2. job.next \in Int /\ job.next \in Begins(mem) \union {gEndOfCode + 1}
  BY <1>1 DEF Jobs, Walked
<1>3. gEndOfCode \in Int
  BY CodeLimits DEF Limits
<1>4. job.next <= gEndOfCode => job.next \in Begins(mem)
  BY <1>2, <1>3
<1> QED  BY <1>1, <1>2, <1>4, Instructions

LEMMA MeetOk ==
    ASSUME Tidy, TraceInv, SettledInv, Parsing, mem' = mem, Meet(Instr(mem, job.next))
    PROVE  /\ StackOk' /\ Extends(labels, labels') /\ LabelsOk(labels') /\ parsed' \subseteq Code
<1> DEFINE i == Instr(mem, job.next)
           new == i.targets \ visited
<1>1. mem \in Images /\ stack \in Seq(Int) /\ LabelsOk(labels) /\ parsed \subseteq Code
      /\ StackOk /\ JobOk /\ job.pc = "parse" /\ job.next <= gEndOfCode
  BY DEF TraceInv, SettledInv, Parsing
<1>2. job.next \in Begins(mem) /\ job.next \in Code /\ job.next \in Int
  BY <1>1, NextToParse
<1>3. i.targets = {} \/ \E x \in Int : i.targets = {x}
  BY SMTT(30), <1>2, BytesLoaded, InstrForward DEF Turn
<1>4. \A t \in i.targets : t \in Begins(mem) \/ Extern(t)
  BY <1>1, <1>2, Instructions
<1>5. i.data \subseteq Addresses
  BY BytesLoaded, DataAreAddresses
<1>6. /\ labels' = StoreRefs(StoreRefs(labels, i.targets, TRUE), i.data, FALSE)
      /\ stack' = stack \o SetToSeq(new)
      /\ parsed' = parsed \union {job.next}
  BY DEF Meet
<1> HIDE DEF i
<1>7. SetToSeq(new) \in Seq(Int) /\ Elements(SetToSeq(new)) = new
  <2>1. new = {} \/ \E x \in Int : new = {x}
    BY <1>3
  <2> QED  BY <2>1, AtMostOne
<1>8. StackOk'
  <2>1. Elements(stack') = Elements(stack) \union new
    BY <1>1, <1>6, <1>7, Pushed
  <2> QED  BY <1>1, <1>4, <2>1 DEF StackOk
<1>9. i.targets \subseteq Addresses
  BY <1>1, <1>4, Instructions, CodeAreAddresses
<1>10. Extends(labels, labels')
  <2> DEFINE t == StoreRefs(labels, i.targets, TRUE)
  <2>1. Extends(labels, t)
    BY <1>1, <1>9, StoreExtends
  <2> HIDE DEF t
  <2>2. Extends(t, StoreRefs(t, i.data, FALSE))
    BY <1>5, <2>1, StoreExtends DEF Extends
  <2> DEFINE u == StoreRefs(t, i.data, FALSE)
  <2>3. labels' = u
    BY <1>6 DEF t
  <2> HIDE DEF u
  <2>4. Extends(t, u)
    BY <2>2 DEF u
  <2> QED  BY <2>1, <2>3, <2>4, ExtendsTwice
<1> QED  BY <1>1, <1>2, <1>6, <1>8, <1>10 DEF Extends

LEMMA ParseOk ==
    ASSUME Tidy, TraceInv, SettledInv, ParseInstruction
    PROVE  SettledInv' /\ areas' = areas
<1> DEFINE i == Instr(mem, job.next)
<1>1. /\ Parsing /\ i.ends = {} /\ Meet(i) /\ job' = [job EXCEPT !.next = i.next]
      /\ changed' = (changed \/ DOMAIN labels' # DOMAIN labels)
      /\ mem' = mem /\ areas' = areas /\ remarks' = remarks /\ exprs' = exprs
      /\ consts' = consts /\ file' = file
  BY DEF ParseInstruction, FlagNew
<1>2. /\ mem \in Images /\ Settled(mem, areas) /\ LabelsOk(labels) /\ RemarksOk(remarks)
      /\ changed \in BOOLEAN /\ JobOk /\ FileOk /\ Saved
      /\ job.pc = "parse" /\ job.next <= gEndOfCode
  BY <1>1 DEF TraceInv, SettledInv, Parsing
<1>3. Walked(mem, job.area, job.next) /\ job.next \in Begins(mem) /\ job.next \in Code
  BY <1>2, NextToParse
<1>4. i.next \in Int
  BY <1>2, <1>3, Instructions
<1>5. Walked(mem, job.area, i.next)
  BY <1>1, <1>2, <1>3, WalkGoesOn
<1>6. StackOk' /\ Extends(labels, labels') /\ LabelsOk(labels') /\ parsed' \subseteq Code
  BY <1>1, MeetOk
<1>7. job \in Jobs /\ job # Down /\ job.found = SearchArea(areas, job.area)
  BY <1>2, InProgress DEF JobOk
<1> HIDE DEF i
<1>8. /\ job' \in Jobs /\ job'.pc = "parse" /\ job'.cmd = job.cmd /\ job'.start = job.start
      /\ job'.end = job.end /\ job'.at = job.at /\ job'.area = job.area
      /\ job'.next = i.next /\ job'.found = job.found
  BY <1>1, <1>2, <1>4, <1>7 DEF Jobs
<1>9. job.cmd = "pl" => Whole(areas', job.start, job.end)
  BY <1>1, <1>2, <1>7 DEF JobOk, PointersRead
<1>10. (job'.cmd = "pl" => PointersRead') /\ (job'.cmd = "pv" => VectorsRead')
  BY <1>1, <1>2, <1>7, <1>8, <1>9, TableStays
<1>11. JobOk'
  BY <1>1, <1>5, <1>7, <1>8, <1>10 DEF JobOk
<1>12. changed' \in BOOLEAN /\ (~changed' => ~changed /\ SameWork)
  <2>1. ~changed' => Kept(labels') = Kept(labels)
    BY <1>1, <1>2, <1>6, ExtendsSame
  <2> QED  BY <1>1, <1>2, <2>1 DEF SameWork
<1>13. FileOk' /\ Saved'
  BY <1>1, <1>2, <1>7, <1>12, FileStays, SavedStays
<1> QED  BY <1>1, <1>2, <1>6, <1>11, <1>12, <1>13 DEF SettledInv

LEMMA EndOfAreaOk ==
    ASSUME Tidy, TraceInv, SettledInv, EndOfArea
    PROVE  SettledInv' /\ StillKnown(areas, areas')
<1> DEFINE i == Instr(mem, job.next)
           flag == changed \/ DOMAIN labels' # DOMAIN labels
<1>1. /\ Parsing /\ Meet(i) /\ \E end \in i.ends : AreaParsed(end, flag)
      /\ mem' = mem /\ remarks' = remarks /\ exprs' = exprs
      /\ consts' = consts /\ file' = file
  BY DEF EndOfArea
<1>2. /\ mem \in Images /\ Settled(mem, areas) /\ LabelsOk(labels) /\ RemarksOk(remarks)
      /\ changed \in BOOLEAN /\ JobOk /\ FileOk /\ Saved
      /\ job.pc = "parse" /\ job.next <= gEndOfCode
  BY <1>1 DEF TraceInv, SettledInv, Parsing
<1>3. Walked(mem, job.area, job.next) /\ job.next \in Code /\ job # Down
  BY <1>2, NextToParse, InProgress
<1>4. StackOk' /\ Extends(labels, labels') /\ LabelsOk(labels') /\ parsed' \subseteq Code
  BY <1>1, MeetOk
<1>5. PICK end \in i.ends : AreaParsed(end, flag)
  BY <1>1
<1>6. Run(mem, job.area, end)
  BY <1>2, <1>3, WalkEnds
<1>7. flag \in BOOLEAN
  BY <1>2
<1>8. /\ Settled(mem, areas') /\ StillKnown(areas, areas') /\ JobOk' /\ changed' \in BOOLEAN
      /\ ~changed' /\ job' # Down => ~flag /\ areas' = areas
  <2> HIDE DEF flag
  <2> QED  BY <1>1, <1>2, <1>5, <1>6, <1>7, AreaParsedOk
<1>9. ~changed' /\ job' # Down => ~changed /\ SameWork
  <2>1. ~changed' /\ job' # Down => Kept(labels') = Kept(labels)
    BY <1>2, <1>4, <1>8, ExtendsSame
  <2> QED  BY <1>1, <1>8, <2>1 DEF SameWork
<1>10. FileOk' /\ Saved'
  BY <1>1, <1>2, <1>3, <1>9, FileStays, SavedStays
<1> QED  BY <1>1, <1>2, <1>4, <1>8, <1>10 DEF SettledInv

LEMMA EndOfCodeOk ==
    ASSUME Tidy, mem \in Images, SettledInv, EndOfCode
    PROVE  SettledInv' /\ StillKnown(areas, areas')
<1>1. /\ job.pc = "parse" /\ job.next > gEndOfCode /\ AreaParsed(gEndOfCode, changed)
      /\ mem' = mem /\ labels' = labels /\ remarks' = remarks /\ exprs' = exprs
      /\ consts' = consts /\ file' = file /\ stack' = stack /\ parsed' = parsed
  BY DEF EndOfCode
<1>2. /\ Settled(mem, areas) /\ LabelsOk(labels) /\ RemarksOk(remarks) /\ parsed \subseteq Code
      /\ changed \in BOOLEAN /\ StackOk /\ JobOk /\ FileOk /\ Saved
  BY DEF SettledInv
<1>3. Run(mem, job.area, gEndOfCode)
  BY <1>1, <1>2, NextToParse, WalkEndsWithCode
<1>4. /\ Settled(mem, areas') /\ StillKnown(areas, areas') /\ JobOk' /\ changed' \in BOOLEAN
      /\ ~changed' /\ job' # Down => ~changed /\ areas' = areas
  BY <1>1, <1>2, <1>3, AreaParsedOk
<1>5. ~changed' /\ job' # Down => ~changed /\ SameWork
  BY <1>1, <1>4 DEF SameWork
<1>6. FileOk' /\ Saved' /\ StackOk'
  BY <1>1, <1>2, <1>5, InProgress, FileStays, SavedStays, StackStays
<1> QED  BY <1>1, <1>2, <1>4, <1>6 DEF SettledInv
LEMMA PopOk ==
    ASSUME Tidy, TraceInv, SettledInv, PopItem
    PROVE  SettledInv' /\ areas' = areas
<1> DEFINE pc == Last(stack)
<1>1. /\ job.pc = "pass" /\ stack # <<>> /\ stack' = Front(stack)
      /\ mem' = mem /\ areas' = areas /\ labels' = labels /\ remarks' = remarks
      /\ exprs' = exprs /\ consts' = consts /\ changed' = changed /\ file' = file
      /\ parsed' = parsed
  BY DEF PopItem, work
<1>2. /\ mem \in Images /\ stack \in Seq(Int) /\ Settled(mem, areas) /\ LabelsOk(labels)
      /\ RemarksOk(remarks) /\ parsed \subseteq Code
      /\ changed \in BOOLEAN /\ StackOk /\ JobOk /\ FileOk /\ Saved
  BY DEF TraceInv, SettledInv
<1>3. pc \in Int /\ Elements(stack) = Elements(stack') \union {pc}
  BY <1>1, <1>2, Popped
<1> HIDE DEF pc
<1>4. StackOk' /\ (pc \in Begins(mem) \/ Extern(pc))
  BY <1>1, <1>2, <1>3 DEF StackOk
<1>5. job \in Jobs /\ job # Down
  BY <1>1, <1>2, InProgress
<1>6. job.cmd = "pl" => Whole(areas', job.start, job.end)
  BY <1>1, <1>2, <1>5 DEF JobOk, PointersRead
<1>7. ASSUME LocalLabel(pc) PROVE JobOk'
  <2>1. job' = [job EXCEPT !.pc = "parse", !.area = pc, !.next = pc,
                           !.found = SearchArea(areas, pc)]
    BY <1>7 DEF PopItem, pc
  <2>2. pc \in Begins(mem)
    BY <1>2, <1>4, <1>7 DEF LocalLabel, LabelsOk
  <2>3. SearchArea(areas, pc) \in Types \union {"notfound"}
    <3>1. areas \in Seq(Areas) /\ Partition(areas, Org, gEndOfCode) /\ ValidAreas(areas)
      BY <1>2 DEF Settled, Partition
    <3>2. pc \in Org..gEndOfCode /\ Org \in Int /\ gEndOfCode \in Int
      BY <1>2, <2>2, Instructions, CodeLimits DEF Limits
    <3>3. PICK i \in 1..Len(areas) : Holds(areas[i], pc)
      BY <1>3, <3>1, <3>2, Covered
    <3>4. SearchArea(areas, pc) = areas[i].type
      BY <1>3, <3>1, <3>2, <3>3, Found
    <3>5. areas[i] \in Areas
      BY <3>1
    <3>6. areas[i].type \in Types
      BY <3>5 DEF Areas
    <3> QED  BY <3>4, <3>6
  <2>4. /\ job' \in Jobs /\ job'.pc = "parse" /\ job'.cmd = job.cmd /\ job'.start = job.start
        /\ job'.end = job.end /\ job'.at = job.at /\ job'.area = pc
        /\ job'.next = pc /\ job'.found = SearchArea(areas, pc)
    BY <1>3, <1>5, <2>1, <2>3 DEF Jobs
  <2>5. Walked(mem, pc, pc)
    <3>1. pc..(pc - 1) = {} /\ pc <= pc
      BY <1>3
    <3> QED  BY <2>2, <3>1 DEF Walked
  <2>6. (job'.cmd = "pl" => PointersRead') /\ (job'.cmd = "pv" => VectorsRead')
    BY <1>1, <1>2, <1>5, <1>6, <2>4, TableStays
  <2> QED  BY <1>1, <2>4, <2>5, <2>6 DEF JobOk
<1>8. ASSUME ~LocalLabel(pc) PROVE JobOk'
  <2>1. job' = job
    BY <1>8 DEF PopItem, pc
  <2>2. (job'.cmd = "pl" => PointersRead') /\ (job'.cmd = "pv" => VectorsRead')
    BY <1>1, <1>2, <1>5, <1>6, <2>1, TableStays
  <2> QED  BY <1>1, <1>2, <1>5, <2>1, <2>2 DEF JobOk
<1>9. JobOk'
  BY <1>7, <1>8
<1>10. FileOk' /\ Saved'
  BY <1>1, <1>2, <1>5, FileStays, SavedStays DEF SameWork
<1> QED  BY <1>1, <1>2, <1>4, <1>9, <1>10 DEF SettledInv

\* s says of each address what list says, and its areas start where some of list do.
SameAreas(list, s) ==
    /\ \A x \in Code : SearchArea(s, x) = SearchArea(list, x)
    /\ \A k \in 1..Len(s) : \E h \in 1..Len(list) : s[k].start = list[h].start

LEMMA JoinSame ==
    ASSUME NEW m, NEW list, Settled(m, list), NEW s, s = JoinAreas(list)
    PROVE  Settled(m, s) /\ SameAreas(list, s)
  BY JoinKeeps DEF SameAreas

LEMMA PassDoneOk ==
    ASSUME mem \in Images, SettledInv, PassDone
    PROVE  SettledInv' /\ StillKnown(areas, areas')
<1>1. /\ job.pc = "pass" /\ areas' = JoinAreas(areas)
      /\ job' = IF job.cmd = "pp" THEN Idle ELSE [job EXCEPT !.pc = "entry"]
      /\ mem' = mem /\ labels' = labels /\ remarks' = remarks
      /\ exprs' = exprs /\ consts' = consts /\ changed' = changed /\ file' = file
      /\ stack' = stack /\ parsed' = parsed
  BY DEF PassDone
<1>2. /\ Settled(mem, areas) /\ LabelsOk(labels) /\ RemarksOk(remarks) /\ parsed \subseteq Code
      /\ changed \in BOOLEAN /\ StackOk /\ JobOk /\ FileOk /\ Saved
  BY DEF SettledInv
<1>3. Settled(mem, areas') /\ SameAreas(areas, areas')
  BY <1>1, <1>2, JoinSame
<1>4. job \in Jobs /\ job # Down
  BY <1>1, <1>2, InProgress
<1>5. JobOk'
  <2>1. CASE job.cmd = "pp"
    BY <1>1, <2>1, JobEnds
  <2>2. CASE job.cmd # "pp"
    <3>1. /\ job' \in Jobs /\ job'.pc = "entry" /\ job'.cmd = job.cmd /\ job'.start = job.start
          /\ job'.end = job.end /\ job'.at = job.at
      BY <1>1, <1>4, <2>2 DEF Jobs
    <3>2. ASSUME job.cmd = "pl" PROVE Whole(areas', job.start, job.end)
      <4>1. Whole(areas, job.start, job.end)
        BY <1>2, <1>4, <3>2 DEF JobOk, PointersRead
      <4> QED  BY <1>3, <4>1 DEF Whole, SameAreas
    <3>3. (job'.cmd = "pl" => PointersRead') /\ (job'.cmd = "pv" => VectorsRead')
      BY <1>1, <1>2, <1>4, <3>1, <3>2, TableStays
    <3> QED  BY <2>2, <3>1, <3>3 DEF JobOk
  <2> QED  BY <2>1, <2>2
<1>6. SameWork
  BY <1>1, <1>3 DEF SameWork, SameAreas
<1>7. FileOk' /\ Saved' /\ StackOk'
  BY <1>1, <1>2, <1>4, <1>6, FileStays, SavedStays, StackStays
<1> QED  BY <1>1, <1>2, <1>3, <1>5, <1>7 DEF SettledInv, StillKnown, SameAreas

LEMMA NextEntryOk ==
    ASSUME Tidy, TraceInv, SettledInv, NextEntry
    PROVE  SettledInv' /\ StillKnown(areas, areas')
<1> DEFINE pointer == IF job.cmd = "pl" THEN Word(mem, job.at) ELSE job.at
           more == IF job.cmd = "pl" THEN job.at < job.end ELSE GetByte(mem, job.at) = 195
<1>1. /\ job.pc = "entry" /\ mem' = mem /\ file' = file /\ parsed' = parsed
      /\ remarks' = remarks /\ exprs' = exprs /\ consts' = consts
  BY DEF NextEntry
<1>2. /\ mem \in Images /\ Settled(mem, areas) /\ LabelsOk(labels) /\ RemarksOk(remarks)
      /\ parsed \subseteq Code /\ changed \in BOOLEAN /\ StackOk /\ JobOk /\ FileOk /\ Saved
  BY DEF TraceInv, SettledInv
<1>3. job \in Jobs /\ job # Down /\ job.cmd \in {"pl", "pv"}
  <2>1. job \in Jobs /\ job # Down
    BY <1>1, <1>2, InProgress
  <2> QED  BY <1>1, <1>2, <2>1 DEF JobOk, Jobs
<1>4. job.cmd = "pl" => PointersRead
  BY <1>2, <1>3 DEF JobOk
<1>5. job.cmd = "pv" => VectorsRead
  BY <1>2, <1>3 DEF JobOk
<1>6. CASE ~more
  <2>1. labels' = labels /\ stack' = stack
    BY <1>6 DEF NextEntry
  <2>2. CASE job.cmd = "pl"
    <3>1. Define(job.start, job.end, "addrtable", Idle)
      BY <1>6, <2>2 DEF NextEntry
    <3>2. /\ job.start \in Code /\ job.end \in Code /\ job.start <= job.end
          /\ Free(mem, job.start, job.end) /\ Whole(areas, job.start, job.end)
      BY <1>3, <1>4, <2>2 DEF PointersRead, Jobs
    <3>3. Fits(areas, job.start, job.end)
      BY <1>2, <3>2, WholeFits DEF Settled
    <3>4. "addrtable" \in Types \ {"vacuum"}
      BY DEF Types
    <3>5. job' = Idle /\ changed' = TRUE /\ Grown(mem, areas, areas', job.start, job.end)
      BY <1>2, <3>1, <3>2, <3>3, <3>4, DefineOk
    <3>6. JobOk' /\ FileOk' /\ Saved' /\ StackOk'
      BY <1>1, <1>2, <1>3, <2>1, <3>5, JobEnds, FileStays, SavedStays, StackStays
    <3> QED  BY <1>1, <1>2, <2>1, <3>5, <3>6 DEF SettledInv, Grown
  <2>3. CASE job.cmd # "pl"
    <3>1. job' = Idle /\ areas' = areas /\ changed' = changed
      BY <1>6, <2>3 DEF NextEntry
    <3>2. SameWork
      BY <1>1, <2>1, <3>1 DEF SameWork
    <3>3. JobOk' /\ FileOk' /\ Saved' /\ StackOk'
      BY <1>1, <1>2, <1>3, <2>1, <3>1, <3>2, JobEnds, FileStays, SavedStays, StackStays
    <3> QED  BY <1>1, <1>2, <2>1, <3>1, <3>3, KnownStays DEF SettledInv
  <2> QED  BY <2>2, <2>3
<1>7. CASE more
  <2>1. /\ stack' = <<pointer>> /\ areas' = areas
        /\ labels' = IF job.cmd = "pl" THEN StoreRefs(labels, {pointer}, TRUE) ELSE labels
        /\ changed' = (changed \/ DOMAIN labels' # DOMAIN labels)
        /\ job' = [job EXCEPT !.pc = "pass",
                              !.at = @ + (IF job.cmd = "pl" THEN 2 ELSE 3)]
    BY <1>7 DEF NextEntry, FlagNew
  <2>2. /\ job' \in Jobs /\ job'.pc = "pass" /\ job'.cmd = job.cmd /\ job'.start = job.start
        /\ job'.end = job.end /\ job'.at = job.at + (IF job.cmd = "pl" THEN 2 ELSE 3)
    <3> DEFINE at == job.at + (IF job.cmd = "pl" THEN 2 ELSE 3)
    <3>1. at \in Nat
      <4>1. job.at \in Nat
        BY <1>3 DEF Jobs
      <4> QED  BY <4>1
    <3>2. job' = [job EXCEPT !.pc = "pass", !.at = at]
      BY <2>1
    <3> HIDE DEF at
    <3>3. /\ job' \in Jobs /\ job'.pc = "pass" /\ job'.cmd = job.cmd /\ job'.start = job.start
          /\ job'.end = job.end /\ job'.at = at
      BY <1>3, <3>1, <3>2 DEF Jobs
    <3> QED  BY <3>3 DEF at
  <2>3. job.at \in Int /\ job.start \in Int /\ job.end \in Int /\ job.start \in Code
        /\ job.end \in Code /\ Codesize \in Int
    <3>1. job.at \in Nat /\ job.start \in Code /\ job.end \in Code
      BY <1>3 DEF Jobs
    <3>2. Codesize \in Int
      BY SessionAssumption
    <3>3. Code \subseteq Int
      BY CodeLimits
    <3>4. job.start \in Int /\ job.end \in Int
      BY <3>1, <3>3
    <3>5. job.at \in Int
      BY <3>1
    <3> QED  BY <3>1, <3>2, <3>4, <3>5
  <2>4. \A x \in Code, y \in Code : y < x + Codesize
    BY SessionAssumption DEF Code, gEndOfCode
  <2>5. ASSUME job.cmd = "pl"
        PROVE  (pointer \in Begins(mem) \/ Extern(pointer)) /\ PointersRead'
    <3>1. PICK k \in 0..Codesize : job.at = job.start + 2 * k
      BY <1>4, <2>5 DEF PointersRead
    <3>2. job.at < job.end /\ pointer = Word(mem, job.start + 2 * k)
      BY <1>7, <2>5, <3>1
    <3>3. pointer \in Begins(mem) \/ Extern(pointer)
      BY <1>4, <2>5, <3>1, <3>2 DEF PointersRead, UserPointers
    <3>4. k + 1 \in 0..Codesize /\ job'.at = job'.start + 2 * (k + 1)
      <4>1. job.end < job.start + Codesize
        BY <2>3, <2>4
      <4>2. job.start + 2 * k < job.end
        BY <3>1, <3>2
      <4>3. k \in Int /\ 0 <= k
        OBVIOUS
      <4>4. k + 1 <= Codesize
        BY <2>3, <4>1, <4>2, <4>3
      <4>5. job.at + 2 = job.start + 2 * (k + 1)
        BY <2>3, <3>1, <4>3
      <4> QED  BY <2>2, <2>5, <4>3, <4>4, <4>5
    <3>5. PointersRead'
      BY <1>1, <1>4, <2>1, <2>2, <2>5, <3>4 DEF PointersRead, UserPointers
    <3> QED  BY <3>3, <3>5
  <2>6. ASSUME job.cmd = "pv"
        PROVE  pointer \in Begins(mem) /\ VectorsRead'
    <3>1. PICK k \in 0..Codesize :
              /\ job.at = job.start + 3 * k
              /\ \A n \in 0..(k - 1) : GetByte(mem, job.start + 3 * n) = 195
      BY <1>5, <2>6 DEF VectorsRead
    <3>2. GetByte(mem, job.at) = 195 /\ pointer = job.at
      BY <1>7, <2>6
    <3>3. ASSUME NEW n \in 0..k PROVE GetByte(mem, job.start + 3 * n) = 195
      <4>1. n = k \/ n \in 0..(k - 1)
        OBVIOUS
      <4> QED  BY <3>1, <3>2, <4>1
    <3>4. pointer \in Begins(mem)
      BY <1>5, <2>6, <3>1, <3>2, <3>3 DEF VectorsRead, UserVectors
    <3>5. k + 1 \in 0..Codesize /\ job'.at = job'.start + 3 * (k + 1)
      <4>1. job.at \in Code
        BY <1>2, <3>2, <3>4, Instructions
      <4>2. job.at < job.start + Codesize
        BY <2>3, <2>4, <4>1
      <4>3. k \in Int /\ 0 <= k
        OBVIOUS
      <4>4. k + 1 <= Codesize
        BY <2>3, <3>1, <4>2, <4>3
      <4>5. job.at + 3 = job.start + 3 * (k + 1)
        BY <2>3, <3>1, <4>3
      <4> QED  BY <2>2, <2>6, <4>3, <4>4, <4>5
    <3>6. \A n \in 0..((k + 1) - 1) : GetByte(mem, job.start + 3 * n) = 195
      BY <3>3
    <3>7. \E h \in 0..Codesize :
              /\ job'.at = job'.start + 3 * h
              /\ \A n \in 0..(h - 1) : GetByte(mem', job'.start + 3 * n) = 195
      <4>1. job'.start = job.start
        BY <2>2
      <4> QED  BY <1>1, <3>5, <3>6, <4>1
    <3>8. UserVectors(job.start)'
      BY <1>1, <1>5, <2>2, <2>6 DEF VectorsRead, UserVectors
    <3>9. VectorsRead'
      BY <3>7, <3>8 DEF VectorsRead
    <3> QED  BY <3>4, <3>9
  <2>7. /\ pointer \in Begins(mem) \/ Extern(pointer)
        /\ job'.cmd = "pl" => PointersRead'
        /\ job'.cmd = "pv" => VectorsRead'
    BY <1>3, <2>2, <2>5, <2>6
  <2>8. JobOk'
    BY <2>2, <2>7 DEF JobOk
  <2> HIDE DEF pointer, more
  <2>9. StackOk'
    <3>1. Elements(<<pointer>>) = {pointer}
      BY DEF Elements
    <3> QED  BY <1>1, <2>1, <2>7, <3>1 DEF StackOk
  <2>10. LabelsOk(labels') /\ Extends(labels, labels')
    <3>1. {pointer} \subseteq Addresses
      BY <1>2, <2>7, Instructions, CodeAreAddresses
    <3>2. Extends(labels, StoreRefs(labels, {pointer}, TRUE))
      BY <1>2, <3>1, StoreExtends
    <3>3. Extends(labels, labels)
      BY <1>2 DEF Extends
    <3> QED  BY <2>1, <3>2, <3>3 DEF Extends
  <2>11. changed' \in BOOLEAN /\ (~changed' => ~changed /\ SameWork)
    <3>1. ~changed' => Kept(labels') = Kept(labels)
      BY <1>2, <2>1, <2>10, ExtendsSame
    <3> QED  BY <1>1, <1>2, <2>1, <3>1 DEF SameWork
  <2>12. FileOk' /\ Saved'
    BY <1>1, <1>2, <1>3, <2>11, FileStays, SavedStays
  <2> QED  BY <1>1, <1>2, <2>1, <2>8, <2>9, <2>10, <2>11, <2>12, KnownStays DEF SettledInv
<1> QED  BY <1>6, <1>7
----------------------------------------------------------------------------
(* The theorems *)

LEMMA StutterOk ==
    ASSUME SettledInv, UNCHANGED vars
    PROVE  SettledInv' /\ areas' = areas
<1>1. /\ mem' = mem /\ areas' = areas /\ labels' = labels /\ remarks' = remarks
      /\ exprs' = exprs /\ consts' = consts /\ changed' = changed /\ file' = file
      /\ stack' = stack /\ parsed' = parsed /\ job' = job
  BY DEF vars, work
<1>2. /\ Settled(mem, areas) /\ LabelsOk(labels) /\ RemarksOk(remarks) /\ parsed \subseteq Code
      /\ changed \in BOOLEAN /\ StackOk /\ JobOk /\ FileOk /\ Saved
  BY DEF SettledInv
<1>3. StackOk' /\ FileOk'
  BY <1>1, <1>2, StackStays, FileStays
<1>4. Saved'
  BY <1>1, <1>2 DEF Saved, InFile, available
<1>5. JobOk'
  <2>1. PointersRead' <=> PointersRead
    BY <1>1 DEF PointersRead, UserPointers
  <2>2. VectorsRead' <=> VectorsRead
    BY <1>1 DEF VectorsRead, UserVectors
  <2> QED  BY <1>1, <1>2, <2>1, <2>2 DEF JobOk
<1> QED  BY <1>1, <1>2, <1>3, <1>4, <1>5 DEF SettledInv

\* Every step keeps the hypothesis, and makes nothing unknown that was known, unless
\* the program starts or reads the collect file again.
LEMMA SettledNext ==
    ASSUME Tidy, TraceInv, SettledInv, [Next]_vars
    PROVE  SettledInv' /\ (Start \/ ReloadCollectFile \/ StillKnown(areas, areas'))
<1>0. mem \in Images
  BY DEF TraceInv
<1>1. CASE \/ \E a \in Code : ParseDZ(a)
           \/ \E start, end \in Code : ParseLookupTable(start, end)
           \/ \E a \in Code : ParseVectorTable(a)
  BY <1>0, <1>1, ParsingOk, KnownStays
<1>2. CASE \E start, end \in Code : ParsePointerTable(start, end)
  <2>1. PICK start \in Code, end \in Code : ParsePointerTable(start, end)
    BY <1>2
  <2>2. SettledInv' /\ StillKnown(areas, areas')
    BY <1>0, <2>1, DefiningOk
  <2> QED  BY <2>2
<1>3. CASE \E type \in DataTypes, start, end \in Code : DefineMemory(type, start, end)
  <2>1. PICK type \in DataTypes, start \in Code, end \in Code : DefineMemory(type, start, end)
    BY <1>3
  <2>2. SettledInv' /\ StillKnown(areas, areas')
    BY <1>0, <2>1, DefiningOk
  <2> QED  BY <2>2
<1>4. CASE \/ \E a \in Known, name \in Names : DefineLabel(a, name)
           \/ \E a \in Code, scope \in {"xref", "xdef"} : DefineScope(a, scope)
           \/ \E a \in Known, position \in Positions : RemarkOutput(a, position)
           \/ \E a \in Known, text \in Texts : DefineExpression(a, text)
           \/ \E a \in Known, text \in Texts : DefineConstant(a, text)
  BY <1>0, <1>4, NotingOk, KnownStays
<1>5. CASE CreateCollectFile \/ ReloadCollectFile \/ \E yes \in BOOLEAN : Quit(yes)
  BY <1>5, FileCommandsOk, KnownStays
<1>6. CASE Start  BY <1>0, <1>6, StartOk
<1>7. CASE NextEntry  BY <1>7, NextEntryOk
<1>8. CASE PopItem  BY <1>8, PopOk, KnownStays
<1>9. CASE PassDone  BY <1>0, <1>9, PassDoneOk
<1>10. CASE ParseInstruction  BY <1>10, ParseOk, KnownStays
<1>11. CASE EndOfArea  BY <1>11, EndOfAreaOk
<1>12. CASE EndOfCode  BY <1>0, <1>12, EndOfCodeOk
<1>13. CASE UNCHANGED vars  BY <1>13, StutterOk, KnownStays
<1> QED
  BY <1>1, <1>2, <1>3, <1>4, <1>5, <1>6, <1>7, <1>8, <1>9, <1>10, <1>11, <1>12, <1>13 DEF Next

\* The induction hypothesis is an invariant of every session of a tidy user.
THEOREM SettledInvariant ==
    ASSUME Tidy
    PROVE  Spec => []SettledInv
<1>1. Init => SettledInv
  BY InitOk
<1>2. TraceInv /\ SettledInv /\ [Next]_vars => SettledInv'
  BY SettledNext
<1> QED  BY <1>1, <1>2, TraceInvariant, PTL DEF Spec

\* Whatever a tidy user does, in whatever order, the list of areas covers the code
\* from its first to its last address, in order and without a gap, also between the
\* steps of pass 1 and after the work went through the collect file.
THEOREM SessionIsOrderly ==
    ASSUME Tidy
    PROVE  Spec => []SessionInv
<1>1. TraceInv /\ SettledInv => SessionInv
  <2> SUFFICES ASSUME TraceInv, SettledInv PROVE SessionInv
    OBVIOUS
  <2>1. /\ mem \in Images /\ stack \in Seq(Int)
        /\ Settled(mem, areas) /\ LabelsOk(labels) /\ RemarksOk(remarks)
        /\ parsed \subseteq Code /\ changed \in BOOLEAN /\ JobOk
    BY DEF TraceInv, SettledInv
  <2>2. areas \in Seq([start : Int, end : Int, type : Types]) /\ AreasPartition
    BY <2>1 DEF Settled, Areas, AreasPartition
  <2>3. \A a \in DOMAIN labels : a \in Int /\ labels[a] \in Label
    <3>1. MAXCODESIZE \in Int
      BY DEF MAXCODESIZE
    <3> QED  BY <2>1, <3>1 DEF LabelsOk
  <2>4. \A a \in DOMAIN remarks : a \in Code /\ remarks[a] \in {"<", ">"}
    BY <2>1 DEF RemarksOk
  <2>5. job \in Jobs \union {Idle, Down}
    BY <2>1 DEF JobOk
  <2> QED  BY <2>1, <2>2, <2>3, <2>4, <2>5 DEF SessionInv, TypeOK
<1> QED  BY <1>1, TraceInvariant, SettledInvariant, PTL

\* A tidy user loses no work for want of a warning: when DZasm takes the collect file
\* for up to date, the file holds what each address is, the labels, the remarks, and
\* which addresses and values have an expression or a name.
THEOREM WorkIsFlagged ==
    ASSUME Tidy
    PROVE  Spec => []UnsavedIsFlagged
<1>1. SettledInv => UnsavedIsFlagged
  <2> SUFFICES ASSUME SettledInv, AtPrompt, available, ~changed PROVE InFile
    BY DEF UnsavedIsFlagged, InFile
  <2>1. job # Down
    BY NotInJob DEF AtPrompt
  <2> QED  BY <2>1 DEF SettledInv, Saved
<1> QED  BY <1>1, SettledInvariant, PTL

\* What is known stays known: no command of a tidy user and no step of pass 1 makes
\* an address unknown again, except where the work is replaced by that of the file.
THEOREM KnownStaysKnown ==
    ASSUME Tidy
    PROVE  Spec => StaysResolved
<1>1. TraceInv /\ SettledInv /\ [Next]_vars =>
          [Start \/ ReloadCollectFile \/ Unknowns' \subseteq Unknowns]_vars
  BY SettledNext DEF Unknowns, StillKnown
<1> QED  BY <1>1, TraceInvariant, SettledInvariant, PTL DEF Spec, StaysResolved

----------------------------------------------------------------------------
(* What an insertion makes of the types *)

\* The range gets its type, and no other address does.
Retyped(list, s, start, end, type) ==
    \A x \in Code :
        SearchArea(s, x) = IF x \in start..end THEN type ELSE SearchArea(list, x)

\* Areas of s are areas of list, the range, or the rest of an area with such a type.
Reshaped(list, s, start, end, type, rest) ==
    \A k \in 1..Len(s) :
        \/ \E h \in 1..Len(list) : s[k] = list[h]
        \/ s[k] = Area(start, end, type)
        \/ s[k].type \in rest

LEMMA PutInTypes ==
    ASSUME NEW m, NEW list, Settled(m, list), NEW i, NEW j, NEW start, NEW end, NEW type,
           PutsIn(m, list, i, j, start, end, type)
    PROVE  LET s == InsertArea(list, start, end, type) IN
           /\ Retyped(list, s, start, end, type)
           /\ Reshaped(list, s, start, end, type, {list[i].type, list[j].type})
<1> DEFINE c == list[i]
           n == list[j]
           new == Pieces(c, n, start, end, type)
           s == InsertArea(list, start, end, type)
<1>1. /\ list \in Seq(Areas) /\ Partition(list, Org, gEndOfCode)
      /\ ValidAreas(list) /\ \A k \in 1..Len(list) : AreaOk(m, list[k])
  BY DEF Settled, Partition
<1>2. /\ i \in 1..Len(list) /\ j \in i..Len(list) /\ start \in Int /\ end \in Int
      /\ Insertable(m, c, start, end, type) /\ type \in Types
      /\ start <= end /\ c.start <= start /\ start <= c.end /\ n.start <= end /\ end <= n.end
      /\ s = Splice(list, i, j, new)
  BY DEF PutsIn, Insertable
<1>3. Grown(m, list, s, start, end)
  BY <1>2, PutIn
<1>4. s \in Seq(Areas) /\ Partition(s, Org, gEndOfCode) /\ ValidAreas(s)
  BY <1>3 DEF Grown, Settled, Partition
<1>5. /\ j \in 1..Len(list) /\ c \in Areas /\ n \in Areas
      /\ c.start \in Int /\ c.end \in Int /\ n.start \in Int /\ n.end \in Int
  BY <1>1, <1>2, AreaFields
<1> HIDE DEF c, n
<1>6. /\ new \in Seq(Areas) /\ Partition(new, c.start, n.end)
      /\ \A k \in 1..Len(new) :
            \/ new[k] = Area(start, end, type)
            \/ new[k] = Lower(c, start) /\ start # c.start
            \/ new[k] = Upper(n, end) /\ end # n.end
  BY <1>2, <1>5, PiecesCover
<1>7. /\ Lower(c, start).start = c.start /\ Lower(c, start).end = start - 1
      /\ Lower(c, start).type = c.type
      /\ Upper(n, end).start = end + 1 /\ Upper(n, end).end = n.end
      /\ Upper(n, end).type = n.type
      /\ Area(start, end, type).start = start /\ Area(start, end, type).end = end
      /\ Area(start, end, type).type = type
  BY <1>5 DEF Lower, Upper, Area, Areas
<1> HIDE DEF new
<1>8. \A k \in 1..Len(s) :
          \/ \E h \in 1..Len(new) : s[k] = new[h]
          \/ \E h \in 1..Len(list) : s[k] = list[h]
  <2>1. \A k \in 1..Len(Splice(list, i, j, new)) :
          \/ k \in 1..(i - 1) /\ k \in 1..Len(list) /\ Splice(list, i, j, new)[k] = list[k]
          \/ \E h \in 1..Len(new) : k = i - 1 + h /\ Splice(list, i, j, new)[k] = new[h]
          \/ \E h \in (j + 1)..Len(list) : /\ k = h - j + (i - 1 + Len(new))
                                           /\ Splice(list, i, j, new)[k] = list[h]
    BY <1>1, <1>2, <1>6, SplicedMember
  <2>2. (j + 1)..Len(list) \subseteq 1..Len(list)
    BY <1>5
  <2> QED  BY <1>2, <2>1, <2>2
<1>9. \E k \in 1..Len(s) : s[k] = Area(start, end, type)
  <2>1. PICK h \in 1..Len(new) : new[h] = Area(start, end, type)
    <3>1. Len(new) \in Nat \ {0} /\ new[1].start = c.start /\ new[Len(new)].end = n.end
          /\ \A k \in 2..Len(new) : new[k].start = new[k - 1].end + 1
      BY <1>6, InOrder2
    <3>2. PICK k \in 1..Len(new) : Holds(new[k], start)
      <4>1. start \in c.start..n.end
        BY <1>2, <1>5
      <4> QED  BY <1>5, <1>6, <4>1, Covered
    <3>3. new[k] # Lower(c, start) /\ new[k] # Upper(n, end)
      BY <1>2, <1>5, <1>7, <3>2 DEF Holds
    <3> QED  BY <1>6, <3>3
  <2>2. /\ Len(s) = i - 1 + Len(new) + (Len(list) - j)
        /\ \A k \in 1..Len(new) : s[i - 1 + k] = new[k]
    <3>1. /\ Len(Splice(list, i, j, new)) = i - 1 + Len(new) + (Len(list) - j)
          /\ \A k \in 1..Len(new) : Splice(list, i, j, new)[i - 1 + k] = new[k]
      BY <1>1, <1>2, <1>6, Spliced
    <3> QED  BY <1>2, <3>1
  <2>3. i - 1 + h \in 1..Len(s)
    <3>1. Len(new) \in Nat /\ Len(list) \in Nat /\ i \in Int /\ j \in Int /\ 1 <= i /\ j <= Len(list)
      BY <1>1, <1>2, <1>5, <1>6
    <3>2. h \in Int /\ 1 <= h /\ h <= Len(new)
      BY <2>1, <3>1
    <3> HIDE DEF s
    <3> QED  BY <2>2, <3>1, <3>2
  <2> QED  BY <2>1, <2>2, <2>3
<1> HIDE DEF s
<1>10. ASSUME NEW x \in Code
       PROVE  SearchArea(s, x) = IF x \in start..end THEN type ELSE SearchArea(list, x)
  <2>1. x \in Int /\ x \in Org..gEndOfCode /\ Org \in Int /\ gEndOfCode \in Int
    BY CodeLimits DEF Limits
  <2>2. CASE x \in start..end
    <3>1. PICK k \in 1..Len(s) : s[k] = Area(start, end, type)
      BY <1>9
    <3>2. Holds(s[k], x)
      BY <1>7, <2>2, <3>1 DEF Holds
    <3> QED  BY <1>4, <1>7, <2>1, <2>2, <3>1, <3>2, Found
  <2>3. CASE x \notin start..end
    <3>1. PICK k \in 1..Len(s) : Holds(s[k], x)
      BY <1>4, <2>1, Covered
    <3>2. SearchArea(s, x) = s[k].type
      BY <1>4, <2>1, <3>1, Found
    <3>3. ASSUME NEW h \in 1..Len(list), Holds(list[h], x), list[h].type = s[k].type
          PROVE  SearchArea(list, x) = SearchArea(s, x)
      <4>1. SearchArea(list, x) = list[h].type
        BY <1>1, <2>1, <3>3, Found
      <4> QED  BY <3>2, <3>3, <4>1
    <3>4. CASE \E h \in 1..Len(list) : s[k] = list[h]
      BY <2>3, <3>1, <3>3, <3>4
    <3>5. CASE \E h \in 1..Len(new) : s[k] = new[h]
      <4>1. \/ s[k] = Area(start, end, type)
            \/ s[k] = Lower(c, start)
            \/ s[k] = Upper(n, end)
        BY <1>6, <3>5
      <4>2. s[k] # Area(start, end, type)
        BY <1>2, <1>7, <2>1, <2>3, <3>1 DEF Holds
      <4>3. CASE s[k] = Lower(c, start)
        <5>1. c.type = s[k].type /\ Holds(c, x)
          BY <1>2, <1>5, <1>7, <2>1, <3>1, <4>3 DEF Holds
        <5> QED  BY <1>2, <2>3, <3>3, <5>1 DEF c
      <4>4. CASE s[k] = Upper(n, end)
        <5>1. n.type = s[k].type /\ Holds(n, x)
          BY <1>2, <1>5, <1>7, <2>1, <3>1, <4>4 DEF Holds
        <5> QED  BY <1>5, <2>3, <3>3, <5>1 DEF n
      <4> QED  BY <4>1, <4>2, <4>3, <4>4
    <3> QED  BY <1>8, <3>1, <3>4, <3>5
  <2> QED  BY <2>2, <2>3
<1>11. Reshaped(list, s, start, end, type, {c.type, n.type})
  <2> SUFFICES ASSUME NEW k \in 1..Len(s)
               PROVE  \/ \E h \in 1..Len(list) : s[k] = list[h]
                      \/ s[k] = Area(start, end, type)
                      \/ s[k].type \in {c.type, n.type}
    BY DEF Reshaped
  <2>1. CASE \E h \in 1..Len(new) : s[k] = new[h]
    BY <1>6, <1>7, <2>1
  <2> QED  BY <1>8, <2>1
<1> QED  BY <1>10, <1>11 DEF Retyped, s, c, n

----------------------------------------------------------------------------
(* Tables of words have an even number of bytes *)

Tables == {"defw", "addrtable"}

EvenTables(list) ==
    \A k \in 1..Len(list) :
        list[k].type \in Tables => (list[k].end - list[k].start) % 2 = 1

LEMMA EvenStays ==
    ASSUME NEW m, NEW list, Settled(m, list), EvenTables(list),
           NEW i, NEW j, NEW start, NEW end, NEW type, PutsIn(m, list, i, j, start, end, type),
           list[i].type \notin Tables, list[j].type \notin Tables,
           type \in Tables => (end - start) % 2 = 1
    PROVE  EvenTables(InsertArea(list, start, end, type))
<1> DEFINE s == InsertArea(list, start, end, type)
<1>1. \A k \in 1..Len(s) : \/ \E h \in 1..Len(list) : s[k] = list[h]
                           \/ s[k] = Area(start, end, type)
                           \/ s[k].type \in {list[i].type, list[j].type}
  BY PutInTypes DEF Reshaped
<1> HIDE DEF s
<1>2. \A k \in 1..Len(s) : s[k].type \in Tables => (s[k].end - s[k].start) % 2 = 1
  BY <1>1 DEF EvenTables, Area
<1> QED  BY <1>2 DEF EvenTables, s

LEMMA EvenTogether ==
    ASSUME NEW x \in Int, NEW y \in Int, NEW z \in Int,
           (y - x) % 2 = 1, (z - (y + 1)) % 2 = 1
    PROVE  (z - x) % 2 = 1
  OBVIOUS

LEMMA EvenJoined ==
    ASSUME NEW m, NEW list, Settled(m, list), EvenTables(list), NEW k \in 2..Len(list), NEW s,
           JoinOf(m, list, k - 1, s), EvenTables(s)
    PROVE  EvenTables(Join(s, list[k]))
<1> DEFINE a == list[k]
           b == list[k - 1]
           n == Len(s)
           l == s[n]
           r == Join(s, a)
<1>1. /\ list \in Seq(Areas) /\ k \in 1..Len(list) /\ k - 1 \in 1..Len(list)
      /\ a.start = b.end + 1 /\ a.start \in Int /\ a.end \in Int /\ b.end \in Int
      /\ (a.type \in Tables => (a.end - a.start) % 2 = 1)
  <2>1. list \in Seq(Areas) /\ Partition(list, Org, gEndOfCode)
    BY DEF Settled
  <2>2. \A h \in 2..Len(list) : list[h].start = list[h - 1].end + 1
    BY <2>1, InOrder2
  <2>3. k \in 1..Len(list) /\ k - 1 \in 1..Len(list)
    OBVIOUS
  <2> QED  BY <2>1, <2>2, <2>3, AreaFields DEF EvenTables
<1>2. /\ s \in Seq(Areas) /\ s # <<>> /\ Partition(s, Org, b.end) /\ l.type = b.type
  BY DEF JoinOf
<1>3. /\ n \in Nat \ {0} /\ n \in 1..n /\ l.end = b.end /\ l.start \in Int /\ l.end \in Int
      /\ (l.type \in Tables => (l.end - l.start) % 2 = 1) /\ l \in Areas
  <2>1. n \in Nat \ {0} /\ l.end = b.end
    BY <1>2, InOrder2
  <2>2. n \in 1..n
    BY <2>1
  <2> QED  BY <1>2, <2>1, <2>2, AreaFields DEF EvenTables
<1> HIDE DEF a, b
<1>4. CASE l.type = a.type
  <2>1. r = [s EXCEPT ![n].end = a.end]
    BY <1>2, <1>4 DEF Join
  <2>2. /\ Len(r) = n /\ r[n].start = l.start /\ r[n].end = a.end /\ r[n].type = a.type
        /\ \A h \in 1..n : h # n => r[h] = s[h]
    BY <1>2, <1>3, <1>4, <2>1 DEF Areas
  <2> HIDE DEF r, l, n
  <2>3. r[n].type \in Tables => (r[n].end - r[n].start) % 2 = 1
    <3> SUFFICES ASSUME l.type \in Tables PROVE (a.end - l.start) % 2 = 1
      BY <1>4, <2>2
    <3>1. (l.end - l.start) % 2 = 1
      BY <1>3
    <3>2. a.start = l.end + 1 /\ (a.end - a.start) % 2 = 1
      BY <1>1, <1>3, <1>4
    <3> QED  BY <1>1, <1>3, <3>1, <3>2, EvenTogether
  <2>4. \A h \in 1..n : s[h].type \in Tables => (s[h].end - s[h].start) % 2 = 1
    BY DEF EvenTables, n
  <2>5. \A h \in 1..Len(r) : r[h].type \in Tables => (r[h].end - r[h].start) % 2 = 1
    BY <2>2, <2>3, <2>4
  <2> QED  BY <2>5 DEF EvenTables, r, a
<1>5. CASE l.type # a.type
  <2>1. r = Append(s, a)
    BY <1>2, <1>5 DEF Join
  <2>2. Len(r) = n + 1 /\ r[n + 1] = a /\ \A h \in 1..n : r[h] = s[h]
    BY <1>2, <2>1
  <2> HIDE DEF r, l
  <2>3. \A h \in 1..n : s[h].type \in Tables => (s[h].end - s[h].start) % 2 = 1
    BY DEF EvenTables
  <2>4. ASSUME NEW h \in 1..Len(r), r[h].type \in Tables
        PROVE  (r[h].end - r[h].start) % 2 = 1
    <3>1. h = n + 1 \/ h \in 1..n
      BY <1>3, <2>2
    <3> QED  BY <1>1, <2>2, <2>3, <2>4, <3>1
  <2> QED  BY <2>4 DEF EvenTables, r, a
<1> QED  BY <1>4, <1>5

LEMMA JoinEven ==
    ASSUME NEW m, NEW list, Settled(m, list), EvenTables(list)
    PROVE  EvenTables(JoinAreas(list))
<1>1. list \in Seq(Areas) /\ Len(list) \in Nat \ {0}
  <2>1. list \in Seq(Areas) /\ Partition(list, Org, gEndOfCode)
    BY DEF Settled
  <2> QED  BY <2>1, InOrder2
<1>2. PICK u : JoinedUpto(list, u) /\ JoinAreas(list) = u[Len(list)]
  BY <1>1, JoinExists
<1>3. /\ u[0] = <<>>
      /\ \A k \in 1..Len(list) : u[k] = Join(u[k - 1], list[k])
  <2>1. u = [k \in 0..Len(list) |-> IF k = 0 THEN <<>> ELSE Join(u[k - 1], list[k])]
    BY <1>2 DEF JoinedUpto
  <2>2. 0 \in 0..Len(list) /\ \A k \in 1..Len(list) : k \in 0..Len(list) /\ k # 0
    BY <1>1
  <2> QED  BY <2>1, <2>2
<1> DEFINE T == {k \in 0..Len(list) : k = 0 \/ (JoinOf(m, list, k, u[k]) /\ EvenTables(u[k]))}
<1>4. 0 \in T
  BY <1>1
<1>5. ASSUME NEW k \in 1..Len(list), k - 1 \in T PROVE k \in T
  <2>1. CASE k = 1
    <3>1. 1 \in 1..Len(list) /\ 1 - 1 = 0
      BY <2>1
    <3>2. u[1] = Join(<<>>, list[1])
      BY <1>3, <3>1
    <3>3. JoinOf(m, list, 1, u[1])
      BY <3>2, JoinFirst
    <3>4. u[1] = <<list[1]>>
      BY <3>2 DEF Join
    <3>5. EvenTables(<<list[1]>>)
      BY <3>1 DEF EvenTables
    <3> QED  BY <2>1, <3>3, <3>4, <3>5
  <2>2. CASE k # 1
    <3>1. k \in 2..Len(list) /\ k - 1 # 0
      BY <2>2
    <3>2. JoinOf(m, list, k - 1, u[k - 1]) /\ EvenTables(u[k - 1])
      BY <1>5, <3>1
    <3>3. JoinOf(m, list, k, Join(u[k - 1], list[k])) /\ EvenTables(Join(u[k - 1], list[k]))
      BY <3>1, <3>2, JoinNext, EvenJoined
    <3> QED  BY <1>3, <3>3
  <2> QED  BY <2>1, <2>2
<1>6. 0..Len(list) \subseteq T
  <2> HIDE DEF T
  <2> QED  BY <1>1, <1>4, <1>5, Upwards
<1>7. Len(list) \in 0..Len(list) /\ Len(list) # 0
  BY <1>1
<1> QED  BY <1>2, <1>6, <1>7

----------------------------------------------------------------------------
(* What pass 1 has met *)

\* Met instructions, and those alone, are code: in the areas, or in the run.
CodeMet(m, list, p, run) ==
    /\ p \subseteq Begins(m)
    /\ \A b \in p : \A x \in b..(Instr(m, b).next - 1) :
          SearchArea(list, x) = "program" \/ x \in run
    /\ \A x \in Code : SearchArea(list, x) = "program" \/ x \in run
          => \E b \in p : b <= x /\ x < Instr(m, b).next

\* What pass 1 has followed, and not yet put into the list.
InRun == IF job.pc = "parse" THEN job.area..(job.next - 1) ELSE {}

\* A table that is on its way can become an area of words.
TableWaits ==
    job \in Jobs /\ job.cmd = "pl" =>
        (job.end - job.start) % 2 = 1 /\ SearchArea(areas, job.start) \notin Tables

Noted(table) == \A a \in DOMAIN table : table[a] \in Positions

FileMet ==
    available => /\ CodeMet(mem, file.areas, file.parsed, {})
                 /\ EvenTables(file.areas) /\ Noted(file.remarks)

MetInv ==
    /\ job # Down => CodeMet(mem, areas, parsed, InRun) /\ EvenTables(areas) /\ Noted(remarks)
    /\ TableWaits
    /\ FileMet

LEMMA BytesInCode ==
    ASSUME Tidy, NEW m \in Images, NEW b \in Begins(m), NEW x \in b..(Instr(m, b).next - 1)
    PROVE  x \in Code
<1>1. /\ b \in Int /\ b \in Code /\ Instr(m, b).next \in Int
      /\ Instr(m, b).next <= gEndOfCode + 1
  BY Instructions
<1>2. Org \in Int /\ gEndOfCode \in Int /\ Code = Org..gEndOfCode
  BY CodeLimits DEF Limits, Code
<1> QED  BY <1>1, <1>2

LEMMA MetSame ==
    ASSUME Tidy, NEW m \in Images, NEW list, NEW s, NEW p, NEW run, NEW new,
           CodeMet(m, list, p, run),
           \A x \in Code : SearchArea(s, x) = "program" \/ x \in new
                               <=> SearchArea(list, x) = "program" \/ x \in run
    PROVE  CodeMet(m, s, p, new)
<1>1. \A b \in p : \A x \in b..(Instr(m, b).next - 1) : x \in Code
  BY BytesInCode DEF CodeMet
<1> QED  BY <1>1 DEF CodeMet

LEMMA MetMore ==
    ASSUME Tidy, NEW m \in Images, NEW list, NEW p, NEW run, CodeMet(m, list, p, run),
           NEW b \in Begins(m)
    PROVE  CodeMet(m, list, p \union {b}, run \union (b..(Instr(m, b).next - 1)))
<1> DEFINE bytes == b..(Instr(m, b).next - 1)
<1>1. b \in Int /\ Instr(m, b).next \in Int
  BY Instructions
<1>2. ASSUME NEW x \in Code, SearchArea(list, x) = "program" \/ x \in run \union bytes
      PROVE  \E d \in p \union {b} : d <= x /\ x < Instr(m, d).next
  <2>1. CASE x \in bytes
    <3>1. b <= x /\ x < Instr(m, b).next
      BY <1>1, <2>1
    <3> QED  BY <3>1
  <2>2. CASE x \notin bytes
    BY <1>2, <2>2 DEF CodeMet
  <2> QED  BY <2>1, <2>2
<1>3. \A d \in p \union {b} : \A x \in d..(Instr(m, d).next - 1) :
          SearchArea(list, x) = "program" \/ x \in run \union bytes
  BY DEF CodeMet
<1> QED  BY <1>2, <1>3 DEF CodeMet

\* A range of the user holds no code.
LEMMA DefineKinds ==
    ASSUME Tidy, mem \in Images, Settled(mem, areas), EvenTables(areas),
           NEW start \in Code, NEW end \in Code, start <= end,
           Fits(areas, start, end), Free(mem, start, end),
           SearchArea(areas, start) \notin Tables,
           NEW type \in Types \ {"vacuum", "program"},
           type \in Tables => (end - start) % 2 = 1,
           NEW otherwise, Define(start, end, type, otherwise),
           CodeMet(mem, areas, parsed, {})
    PROVE  /\ job' = otherwise /\ EvenTables(areas')
           /\ CodeMet(mem, areas', parsed, {})
<1>1. ~InsertCrashes(areas, start, end) /\ \E i : PutsIn(mem, areas, i, i, start, end, type)
  BY UserPuts
<1>2. job' = otherwise /\ areas' = InsertArea(areas, start, end, type)
  BY <1>1 DEF Define
<1>3. PICK i : PutsIn(mem, areas, i, i, start, end, type)
  BY <1>1
<1>4. areas[i].type \notin Tables
  <2>1. areas \in Seq(Areas) /\ ValidAreas(areas)
    BY DEF Settled, Partition
  <2>2. i \in 1..Len(areas) /\ start \in Int /\ Holds(areas[i], start)
    BY <1>3 DEF PutsIn, Holds
  <2> QED  BY <2>1, <2>2, Found
<1>5. EvenTables(areas')
  BY <1>2, <1>3, <1>4, EvenStays
<1>6. Retyped(areas, areas', start, end, type)
  BY <1>2, <1>3, PutInTypes
<1>7. CodeMet(mem, areas', parsed, {})
  <2>1. \A b \in parsed : \A x \in b..(Instr(mem, b).next - 1) :
            x \in Code /\ x \notin start..end /\ SearchArea(areas, x) = "program"
    BY BytesInCode DEF CodeMet, Free
  <2>2. \A x \in Code : SearchArea(areas', x) = "program"
            => SearchArea(areas, x) = "program"
    BY <1>6 DEF Retyped
  <2>3. \A b \in parsed : \A x \in b..(Instr(mem, b).next - 1) :
            SearchArea(areas', x) = "program"
    BY <1>6, <2>1 DEF Retyped
  <2> QED  BY <2>2, <2>3 DEF CodeMet
<1> QED  BY <1>2, <1>5, <1>7

----------------------------------------------------------------------------
(* What the commands and pass 1 do to it *)

NoCodeDefined == "program" \notin DataTypes

LEMMA FileMetStays ==
    ASSUME FileMet, file' = file, mem' = mem
    PROVE  FileMet'
  BY DEF FileMet, available

\* Steps that leave the areas alone, while nothing is being followed.
LEMMA MetStays ==
    ASSUME MetInv, job # Down, InRun' = InRun, mem' = mem, areas' = areas, parsed' = parsed,
           file' = file, Noted(remarks'), TableWaits'
    PROVE  MetInv'
<1>1. FileMet'
  BY FileMetStays DEF MetInv
<1> QED  BY <1>1 DEF MetInv

LEMMA NoRun ==
    /\ job \in {Idle, Down} => job.pc # "parse" /\ job \notin Jobs /\ InRun = {}
    /\ job' \in {Idle, Down} => job'.pc # "parse" /\ job' \notin Jobs /\ InRun' = {} /\ TableWaits'
<1>1. ASSUME NEW j \in {Idle, Down} PROVE j.pc # "parse" /\ j \notin Jobs
  BY DEF Idle, Down, Jobs
<1> QED  BY <1>1 DEF InRun, TableWaits

LEMMA ParsingMet ==
    ASSUME MetInv, NEW start \in Code, NEW end \in Code, Tidy,
           ParseDZ(start) \/ ParseLookupTable(start, end) \/ ParseVectorTable(start)
    PROVE  MetInv'
<1>1. /\ job = Idle /\ mem' = mem /\ areas' = areas /\ parsed' = parsed /\ file' = file
      /\ remarks' = remarks
      /\ \/ job' = Pass("pp", start, start)
         \/ job' = Pass("pl", start, end) /\ UserTable(start, end, 2)
         \/ job' = Pass("pv", start, gEndOfCode)
  BY DEF ParseDZ, ParseLookupTable, ParseVectorTable, Command
<1>2. job # Down /\ InRun = {} /\ Noted(remarks)
  BY <1>1, NoRun, NotInJob DEF MetInv
<1>3. InRun' = {}
  BY <1>1 DEF InRun, Pass
<1>4. TableWaits'
  <2>1. CASE job' = Pass("pl", start, end) /\ UserTable(start, end, 2)
    <3>1. job'.start = start /\ job'.end = end
      BY <2>1 DEF Pass
    <3>2. (end - start) % 2 = 1 /\ SearchArea(areas, start) \notin {"defw", "addrtable"}
      BY <2>1 DEF UserTable, UserRange
    <3> QED  BY <1>1, <3>1, <3>2 DEF TableWaits, Tables
  <2>2. CASE job' = Pass("pp", start, start) \/ job' = Pass("pv", start, gEndOfCode)
    <3>1. job'.cmd # "pl"
      BY <2>2 DEF Pass
    <3> QED  BY <3>1 DEF TableWaits
  <2> QED  BY <1>1, <2>1, <2>2
<1> QED  BY <1>1, <1>2, <1>3, <1>4, MetStays

LEMMA DefiningMet ==
    ASSUME Tidy, NoCodeDefined, mem \in Images, SettledInv, MetInv,
           NEW start \in Code, NEW end \in Code, NEW type,
           ParsePointerTable(start, end) \/ (type \in DataTypes /\ DefineMemory(type, start, end))
    PROVE  MetInv'
<1>1. /\ job = Idle /\ mem' = mem /\ parsed' = parsed /\ file' = file
      /\ remarks' = remarks /\ UserRange(start, end)
  BY DEF ParsePointerTable, DefineMemory, Command, UserTable
<1>2. /\ job # Down /\ InRun = {} /\ Noted(remarks) /\ Settled(mem, areas)
      /\ EvenTables(areas) /\ CodeMet(mem, areas, parsed, {})
  BY <1>1, NoRun, NotInJob DEF MetInv, SettledInv
<1>3. /\ start <= end /\ Fits(areas, start, end) /\ Free(mem, start, end)
      /\ SearchArea(areas, start) \notin Tables
  BY <1>1, RangeIsFree DEF UserRange, Tables
<1>4. start \in Int /\ end \in Int
  BY CodeLimits
<1>5. PICK t \in Types \ {"vacuum", "program"} :
          Define(start, end, t, Idle) /\ (t \in Tables => (end - start) % 2 = 1)
  <2>1. CASE ParsePointerTable(start, end)
    <3>1. Define(start, end, "addrtable", Idle) /\ (end - start) % 2 = 1
      BY <2>1 DEF ParsePointerTable, UserTable
    <3> QED  BY <3>1 DEF Types
  <2>2. CASE type \in DataTypes /\ DefineMemory(type, start, end)
    <3>1. type \in Types \ {"vacuum", "program"} /\ type # "addrtable"
      BY <2>2, SessionAssumption DEF Types, NoCodeDefined
    <3>2. Define(start, end, type, Idle) /\ (type = "defw" => (end - start + 1) % 2 = 0)
      BY <2>2 DEF DefineMemory
    <3>3. (end - start + 1) % 2 = 0 => (end - start) % 2 = 1
      BY <1>4
    <3> QED  BY <3>1, <3>2, <3>3 DEF Tables
  <2> QED  BY <2>1, <2>2
<1>6. job' = Idle /\ EvenTables(areas') /\ CodeMet(mem, areas', parsed, {})
  BY <1>2, <1>3, <1>5, DefineKinds
<1>7. FileMet' /\ InRun' = {} /\ TableWaits'
  BY <1>1, <1>6, NoRun, FileMetStays DEF MetInv
<1> QED  BY <1>1, <1>2, <1>6, <1>7 DEF MetInv

LEMMA NotingMet ==
    ASSUME MetInv,
           \/ \E a \in Known, name \in Names : DefineLabel(a, name)
           \/ \E a \in Code, scope \in {"xref", "xdef"} : DefineScope(a, scope)
           \/ \E a \in Known, position \in Positions : RemarkOutput(a, position)
           \/ \E a \in Known, text \in Texts : DefineExpression(a, text)
           \/ \E a \in Known, text \in Texts : DefineConstant(a, text)
    PROVE  MetInv'
<1>1. /\ job = Idle /\ job' = job /\ mem' = mem /\ areas' = areas /\ parsed' = parsed
      /\ file' = file
  BY DEF DefineLabel, DefineScope, RemarkOutput, DefineExpression, DefineConstant, Same, Command
<1>2. job # Down /\ Noted(remarks) /\ InRun' = InRun /\ TableWaits'
  BY <1>1, NotInJob, NoRun DEF MetInv, InRun
<1>3. Noted(remarks')
  <2>1. CASE \E a \in Known, position \in Positions : RemarkOutput(a, position)
    <3>1. PICK a \in Known, position \in Positions :
              remarks' = IF a \in DOMAIN remarks THEN remarks ELSE Set(remarks, a, position)
      BY <2>1 DEF RemarkOutput
    <3> QED  BY <1>2, <3>1 DEF Noted, Set
  <2>2. CASE remarks' = remarks
    BY <1>2, <2>2
  <2>3. remarks' = remarks \/ \E a \in Known, position \in Positions : RemarkOutput(a, position)
    BY DEF DefineLabel, DefineScope, DefineExpression, DefineConstant
  <2> QED  BY <2>1, <2>2, <2>3
<1> QED  BY <1>1, <1>2, <1>3, MetStays

LEMMA NothingMet ==
    ASSUME Tidy, NEW m \in Images
    PROVE  CodeMet(m, AllVoid, {}, {}) /\ EvenTables(AllVoid) /\ Noted(<<>>)
<1>1. Settled(m, AllVoid)
  BY AllVoidSettled
<1>2. Len(AllVoid) = 1 /\ AllVoid[1].type = "vacuum"
  BY DEF AllVoid, Area
<1>3. AllVoid \in Seq(Areas) /\ ValidAreas(AllVoid) /\ Partition(AllVoid, Org, gEndOfCode)
  BY <1>1 DEF Settled, Partition
<1>4. ASSUME NEW x \in Code PROVE SearchArea(AllVoid, x) # "program"
  <2>1. x \in Int /\ x \in Org..gEndOfCode /\ Org \in Int /\ gEndOfCode \in Int
    BY CodeLimits DEF Limits
  <2>2. PICK k \in 1..Len(AllVoid) : Holds(AllVoid[k], x)
    BY <1>3, <2>1, Covered
  <2>3. k = 1
    BY <1>2
  <2>4. SearchArea(AllVoid, x) = AllVoid[k].type
    BY <1>3, <2>1, <2>2, Found
  <2> QED  BY <1>2, <2>3, <2>4
<1>5. EvenTables(AllVoid)
  BY <1>2 DEF EvenTables, Tables
<1> QED  BY <1>4, <1>5, NoTable DEF CodeMet, Noted

LEMMA InitMet ==
    ASSUME Tidy, Init
    PROVE  MetInv
<1>1. /\ mem \in Images /\ areas = AllVoid /\ remarks = <<>> /\ file = <<>> /\ job = Idle
      /\ parsed = {}
  BY DEF Init
<1>2. InRun = {} /\ job \notin Jobs
  BY <1>1, NoRun
<1>3. FileMet
  BY <1>1 DEF FileMet, available
<1>4. CodeMet(mem, AllVoid, {}, {}) /\ EvenTables(AllVoid) /\ Noted(<<>>)
  BY <1>1, NothingMet
<1> QED  BY <1>1, <1>2, <1>3, <1>4 DEF MetInv, TableWaits

LEMMA ReadMet ==
    ASSUME FileOk, FileMet, available, NEW kept, ReadCollectFile(kept), mem' = mem,
           file' = file, job' = Idle
    PROVE  MetInv'
<1>1. /\ Settled(mem, file.areas) /\ CodeMet(mem, file.areas, file.parsed, {})
      /\ EvenTables(file.areas) /\ Noted(file.remarks)
  BY DEF FileOk, FileMet
<1>2. file.areas \in Seq(Areas) /\ ValidAreas(file.areas)
  BY <1>1 DEF Settled, Partition
<1>3. areas' = file.areas
  BY <1>2, InsertedSame DEF ReadCollectFile
<1>4. remarks' = file.remarks /\ parsed' = file.parsed
  BY DEF ReadCollectFile
<1>5. FileMet' /\ InRun' = {} /\ TableWaits'
  BY NoRun, FileMetStays
<1> QED  BY <1>1, <1>3, <1>4, <1>5 DEF MetInv

LEMMA StartMet ==
    ASSUME Tidy, mem \in Images, SettledInv, MetInv, Start
    PROVE  MetInv'
<1>1. mem' = mem /\ file' = file /\ job' = Idle /\ FileOk /\ FileMet
  BY DEF Start, SettledInv, MetInv
<1>2. CASE available
  BY <1>1, <1>2, ReadMet DEF Start
<1>3. CASE ~available
  <2>1. areas' = AllVoid /\ remarks' = <<>> /\ parsed' = {}
    BY <1>3 DEF Start
  <2>2. CodeMet(mem, areas', parsed', {}) /\ EvenTables(areas') /\ Noted(remarks')
    BY <2>1, NothingMet
  <2>3. FileMet' /\ InRun' = {} /\ TableWaits'
    BY <1>1, NoRun, FileMetStays
  <2> QED  BY <1>1, <2>2, <2>3 DEF MetInv
<1> QED  BY <1>2, <1>3

LEMMA FileCommandsMet ==
    ASSUME SettledInv, MetInv,
           CreateCollectFile \/ ReloadCollectFile \/ (\E yes \in BOOLEAN : Quit(yes))
    PROVE  MetInv'
<1>1. job = Idle /\ mem' = mem
  BY DEF CreateCollectFile, ReloadCollectFile, Quit, Command
<1>2. /\ job # Down /\ InRun = {} /\ CodeMet(mem, areas, parsed, {}) /\ EvenTables(areas)
      /\ Noted(remarks) /\ FileMet /\ FileOk
  BY <1>1, NoRun, NotInJob DEF MetInv, SettledInv
<1>3. GenCollectFile => FileMet'
  <2>1. GenCollectFile => /\ file'.areas = areas /\ file'.remarks = remarks
                          /\ file'.parsed = parsed
    BY DEF GenCollectFile, Collected
  <2> QED  BY <1>1, <1>2, <2>1 DEF FileMet
<1>4. CASE ReloadCollectFile /\ available
  <2>1. ReadCollectFile(includes \intersect {"handle"}) /\ job' = Idle /\ file' = file
    BY <1>4 DEF ReloadCollectFile
  <2> QED  BY <1>1, <1>2, <1>4, <2>1, ReadMet
<1>5. CASE ~(ReloadCollectFile /\ available)
  <2>1. /\ areas' = areas /\ remarks' = remarks /\ parsed' = parsed /\ job' \in {Idle, Down}
        /\ GenCollectFile \/ file' = file
    BY <1>1, <1>5 DEF CreateCollectFile, ReloadCollectFile, Quit, work
  <2>2. FileMet' /\ InRun' = {} /\ TableWaits'
    BY <1>1, <1>2, <1>3, <2>1, NoRun, FileMetStays
  <2> QED  BY <1>1, <1>2, <2>1, <2>2 DEF MetInv
<1> QED  BY <1>4, <1>5

LEMMA PassDoneMet ==
    ASSUME mem \in Images, Tidy, SettledInv, MetInv, PassDone
    PROVE  MetInv'
<1>1. /\ job.pc = "pass" /\ areas' = JoinAreas(areas)
      /\ job' = IF job.cmd = "pp" THEN Idle ELSE [job EXCEPT !.pc = "entry"]
      /\ mem' = mem /\ remarks' = remarks /\ file' = file /\ parsed' = parsed
  BY DEF PassDone
<1>2. Settled(mem, areas) /\ job \in Jobs /\ job # Down
  BY <1>1, InProgress DEF SettledInv
<1>3. /\ CodeMet(mem, areas, parsed, {}) /\ EvenTables(areas) /\ Noted(remarks) /\ FileMet
      /\ TableWaits
  BY <1>1, <1>2 DEF MetInv, InRun
<1>4. SameAreas(areas, areas') /\ EvenTables(areas')
  BY <1>1, <1>2, <1>3, JoinSame, JoinEven
<1>5. CodeMet(mem, areas', parsed, {})
  BY <1>3, <1>4, MetSame DEF SameAreas
<1>6. InRun' = {} /\ TableWaits'
  <2>1. CASE job.cmd = "pp"
    BY <1>1, <2>1, NoRun
  <2>2. CASE job.cmd # "pp"
    <3>1. /\ job'.pc = "entry" /\ job'.cmd = job.cmd /\ job'.start = job.start
          /\ job'.end = job.end /\ job.start \in Code
      BY <1>1, <1>2, <2>2 DEF Jobs
    <3>2. SearchArea(areas', job.start) = SearchArea(areas, job.start)
      BY <1>4, <3>1 DEF SameAreas
    <3>3. TableWaits'
      BY <1>2, <1>3, <3>1, <3>2 DEF TableWaits
    <3> QED  BY <3>1, <3>3 DEF InRun
  <2> QED  BY <2>1, <2>2
<1>7. FileMet'
  BY <1>1, <1>3, FileMetStays
<1> QED  BY <1>1, <1>3, <1>4, <1>5, <1>6, <1>7 DEF MetInv

LEMMA NextEntryMet ==
    ASSUME Tidy, TraceInv, SettledInv, MetInv, NextEntry
    PROVE  MetInv'
<1> DEFINE more == IF job.cmd = "pl" THEN job.at < job.end ELSE GetByte(mem, job.at) = 195
<1>1. /\ job.pc = "entry" /\ mem' = mem /\ file' = file /\ parsed' = parsed
      /\ remarks' = remarks
  BY DEF NextEntry
<1>2. mem \in Images /\ Settled(mem, areas) /\ JobOk /\ job \in Jobs /\ job # Down
  BY <1>1, InProgress DEF TraceInv, SettledInv
<1>3. /\ CodeMet(mem, areas, parsed, {}) /\ EvenTables(areas) /\ Noted(remarks) /\ FileMet
      /\ TableWaits /\ InRun = {}
  BY <1>1, <1>2 DEF MetInv, InRun
<1>4. FileMet'
  BY <1>1, <1>3, FileMetStays
<1>5. CASE more
  <2>1. /\ areas' = areas
        /\ job' = [job EXCEPT !.pc = "pass", !.at = @ + (IF job.cmd = "pl" THEN 2 ELSE 3)]
    BY <1>5 DEF NextEntry
  <2>2. /\ job'.pc = "pass" /\ job'.cmd = job.cmd /\ job'.start = job.start
        /\ job'.end = job.end
    <3> DEFINE at == job.at + (IF job.cmd = "pl" THEN 2 ELSE 3)
    <3>1. job' = [job EXCEPT !.pc = "pass", !.at = at]
      BY <2>1
    <3> HIDE DEF at
    <3> QED  BY <1>2, <3>1 DEF Jobs
  <2>3. InRun' = {} /\ TableWaits'
    BY <1>2, <1>3, <2>1, <2>2 DEF InRun, TableWaits
  <2> QED  BY <1>1, <1>2, <1>3, <2>1, <2>3, MetStays
<1>6. CASE ~more /\ job.cmd # "pl"
  <2>1. job' = Idle /\ areas' = areas
    BY <1>6 DEF NextEntry
  <2>2. InRun' = {} /\ TableWaits'
    BY <2>1, NoRun
  <2> QED  BY <1>1, <1>2, <1>3, <2>1, <2>2, MetStays
<1>7. CASE ~more /\ job.cmd = "pl"
  <2>1. Define(job.start, job.end, "addrtable", Idle)
    BY <1>7 DEF NextEntry
  <2>2. /\ job.start \in Code /\ job.end \in Code /\ job.start <= job.end
        /\ Free(mem, job.start, job.end) /\ Whole(areas, job.start, job.end)
    BY <1>2, <1>7 DEF JobOk, PointersRead, Jobs
  <2>3. Fits(areas, job.start, job.end)
    BY <1>2, <2>2, WholeFits DEF Settled
  <2>4. (job.end - job.start) % 2 = 1 /\ SearchArea(areas, job.start) \notin Tables
    BY <1>2, <1>3, <1>7 DEF TableWaits
  <2>5. "addrtable" \in Types \ {"vacuum", "program"}
    BY DEF Types
  <2>6. job' = Idle /\ EvenTables(areas') /\ CodeMet(mem, areas', parsed, {})
    BY <1>2, <1>3, <2>1, <2>2, <2>3, <2>4, <2>5, DefineKinds
  <2>7. InRun' = {} /\ TableWaits'
    BY <2>6, NoRun
  <2> QED  BY <1>1, <1>3, <1>4, <2>6, <2>7 DEF MetInv
<1> QED  BY <1>5, <1>6, <1>7

LEMMA PopMet ==
    ASSUME Tidy, TraceInv, SettledInv, MetInv, PopItem
    PROVE  MetInv'
<1> DEFINE pc == Last(stack)
<1>1. /\ job.pc = "pass" /\ stack # <<>> /\ mem' = mem /\ areas' = areas
      /\ remarks' = remarks /\ file' = file /\ parsed' = parsed
  BY DEF PopItem, work
<1>2. stack \in Seq(Int) /\ JobOk /\ job \in Jobs /\ job # Down
  BY <1>1, InProgress DEF TraceInv, SettledInv
<1>3. pc \in Int
  BY <1>1, <1>2, Popped
<1> HIDE DEF pc
<1>4. InRun = {} /\ TableWaits /\ Noted(remarks)
  BY <1>1, <1>2 DEF MetInv, InRun
<1>5. InRun' = {} /\ TableWaits'
  <2>1. CASE job' = job
    BY <1>1, <1>4, <2>1 DEF InRun, TableWaits
  <2>2. CASE job' = [job EXCEPT !.pc = "parse", !.area = pc, !.next = pc,
                                !.found = SearchArea(areas, pc)]
    <3>1. /\ job'.pc = "parse" /\ job'.cmd = job.cmd /\ job'.start = job.start
          /\ job'.end = job.end /\ job'.area = pc /\ job'.next = pc
      BY <1>2, <2>2 DEF Jobs
    <3>2. pc..(pc - 1) = {}
      BY <1>3
    <3>3. TableWaits'
      BY <1>1, <1>2, <1>4, <3>1 DEF TableWaits
    <3> QED  BY <3>1, <3>2, <3>3 DEF InRun
  <2> QED  BY <2>1, <2>2 DEF PopItem, pc
<1> QED  BY <1>1, <1>2, <1>4, <1>5, MetStays

\* An instruction that is met is the next one of the run.
LEMMA MetNextOne ==
    ASSUME Tidy, TraceInv, SettledInv, MetInv, Parsing
    PROVE  CodeMet(mem, areas, parsed \union {job.next},
                   job.area..(Instr(mem, job.next).next - 1))
<1> DEFINE next == Instr(mem, job.next).next
<1>1. mem \in Images /\ JobOk /\ job.pc = "parse" /\ job.next <= gEndOfCode
  BY DEF TraceInv, SettledInv, Parsing
<1>2. /\ Walked(mem, job.area, job.next) /\ job.next \in Begins(mem) /\ job.next \in Int
      /\ job # Down
  BY <1>1, NextToParse, InProgress
<1>3. job.area \in Begins(mem) /\ job.area <= job.next
  BY <1>2 DEF Walked
<1>4. job.area \in Int /\ next \in Int /\ job.next < next
  BY <1>1, <1>2, <1>3, Instructions
<1>5. CodeMet(mem, areas, parsed, job.area..(job.next - 1))
  BY <1>1, <1>2 DEF MetInv, InRun
<1>6. CodeMet(mem, areas, parsed \union {job.next},
              (job.area..(job.next - 1)) \union (job.next..(next - 1)))
  BY <1>1, <1>2, <1>5, MetMore
<1> HIDE DEF next
<1>7. (job.area..(job.next - 1)) \union (job.next..(next - 1)) = job.area..(next - 1)
  BY <1>2, <1>3, <1>4
<1> QED  BY <1>6, <1>7 DEF next

LEMMA ParseMet ==
    ASSUME Tidy, TraceInv, SettledInv, MetInv, ParseInstruction
    PROVE  MetInv'
<1> DEFINE next == Instr(mem, job.next).next
<1>1. /\ Parsing /\ job' = [job EXCEPT !.next = next] /\ parsed' = parsed \union {job.next}
      /\ mem' = mem /\ areas' = areas /\ remarks' = remarks /\ file' = file
  BY DEF ParseInstruction, Meet
<1>2. JobOk /\ job.pc = "parse" /\ job \in Jobs /\ job # Down
  BY <1>1, InProgress DEF SettledInv, Parsing
<1>3. CodeMet(mem, areas, parsed \union {job.next}, job.area..(next - 1))
  BY <1>1, MetNextOne
<1> HIDE DEF next
<1>4. /\ job'.pc = "parse" /\ job'.cmd = job.cmd /\ job'.start = job.start
      /\ job'.end = job.end /\ job'.area = job.area /\ job'.next = next
  BY <1>1, <1>2 DEF Jobs
<1>5. TableWaits /\ EvenTables(areas) /\ Noted(remarks) /\ FileMet'
  BY <1>1, <1>2, FileMetStays DEF MetInv
<1>6. TableWaits'
  BY <1>1, <1>2, <1>4, <1>5 DEF TableWaits
<1>7. InRun' = job.area..(next - 1)
  BY <1>4 DEF InRun
<1> QED  BY <1>1, <1>3, <1>5, <1>6, <1>7 DEF MetInv

\* The run becomes code in the list, or is code there.
LEMMA AreaParsedMet ==
    ASSUME Tidy, mem \in Images, mem' = mem, Settled(mem, areas), JobOk, job.pc = "parse",
           NEW end, Run(mem, job.area, end), NEW flag, AreaParsed(end, flag),
           TableWaits, EvenTables(areas), CodeMet(mem, areas, parsed', job.area..end)
    PROVE  \/ job' = Down
           \/ EvenTables(areas') /\ CodeMet(mem, areas', parsed', {}) /\ InRun' = {} /\ TableWaits'
<1> DEFINE again == [job EXCEPT !.pc = "pass", !.area = job.start, !.next = job.start,
                                !.found = "notfound"]
<1>1. job \in Jobs /\ job.found = SearchArea(areas, job.area)
  BY InProgress DEF JobOk
<1>2. /\ again.pc = "pass" /\ again.cmd = job.cmd /\ again.start = job.start
      /\ again.end = job.end /\ job.start \in Code
  BY <1>1 DEF Jobs
<1> HIDE DEF again
<1>3. /\ areas \in Seq(Areas) /\ Partition(areas, Org, gEndOfCode) /\ ValidAreas(areas)
      /\ \A k \in 1..Len(areas) : AreaOk(mem, areas[k])
  BY DEF Settled, Partition
<1>4. /\ job.area \in Begins(mem) /\ job.area \in Int /\ job.area \in Org..gEndOfCode
      /\ Org \in Int /\ gEndOfCode \in Int /\ end \in Int /\ job.area <= end
  <2>1. job.area \in Begins(mem) /\ end \in Int /\ job.area <= end
    BY DEF Run
  <2> QED  BY <2>1, Instructions, CodeLimits DEF Limits
<1>5. PICK i \in 1..Len(areas) : Holds(areas[i], job.area)
  BY <1>3, <1>4, Covered
<1>6. SearchArea(areas, job.area) = areas[i].type
  BY <1>3, <1>4, <1>5, Found
<1>7. /\ areas[i].type \in Types /\ areas[i].start \in Int /\ areas[i].end \in Int
      /\ areas[i].start <= job.area /\ job.area <= areas[i].end
  <2>1. areas[i] \in Areas
    BY <1>3
  <2>2. areas[i].type \in Types
    BY <2>1 DEF Areas
  <2> QED  BY <1>3, <1>5, <2>2, AreaFields DEF Holds
<1>8. areas[i].type \in {"vacuum", "program"}
  <2>1. job.area \in areas[i].start..areas[i].end
    BY <1>4, <1>7
  <2> QED  BY <1>3, <1>4, <2>1 DEF AreaOk
<1>9. ASSUME job' = again, EvenTables(areas'),
             \A x \in Code : SearchArea(areas', x) =
                 IF x \in job.area..end THEN "program" ELSE SearchArea(areas, x)
      PROVE  EvenTables(areas') /\ CodeMet(mem, areas', parsed', {}) /\ InRun' = {} /\ TableWaits'
  <2>1. CodeMet(mem, areas', parsed', {})
    <3>1. \A x \in Code : SearchArea(areas', x) = "program" \/ x \in {}
              <=> SearchArea(areas, x) = "program" \/ x \in job.area..end
      BY <1>9
    <3> QED  BY <3>1, MetSame
  <2>2. TableWaits'
    <3>1. SearchArea(areas', job.start) \in {"program", SearchArea(areas, job.start)}
      BY <1>2, <1>9
    <3> QED  BY <1>1, <1>2, <1>9, <3>1 DEF TableWaits, Tables
  <2>3. InRun' = {}
    BY <1>2, <1>9 DEF InRun
  <2> QED  BY <1>9, <2>1, <2>2, <2>3
<1>10. CASE areas[i].type = "program"
  <2>1. job' = again /\ areas' = areas
    BY <1>1, <1>6, <1>10 DEF AreaParsed, again
  <2>2. end <= areas[i].end
    <3>1. areas[i].start <= end
      BY <1>4, <1>7
    <3> QED  BY <1>7, <1>10, <3>1, RunStaysInArea
  <2>3. ASSUME NEW x \in Code, x \in job.area..end PROVE SearchArea(areas, x) = "program"
    <3>1. x \in Int /\ Holds(areas[i], x)
      BY <1>4, <1>7, <2>2, <2>3 DEF Holds
    <3> QED  BY <1>3, <1>10, <3>1, Found
  <2> QED  BY <1>9, <2>1, <2>3
<1>11. CASE areas[i].type = "vacuum" /\ InsertCrashes(areas, job.area, end)
  BY <1>1, <1>6, <1>11 DEF AreaParsed, Define
<1>12. CASE areas[i].type = "vacuum" /\ ~InsertCrashes(areas, job.area, end)
  <2>1. job' = again /\ areas' = InsertArea(areas, job.area, end, "program")
    BY <1>1, <1>6, <1>12 DEF AreaParsed, Define, again
  <2>2. PICK k, j : /\ PutsIn(mem, areas, k, j, job.area, end, "program")
                    /\ areas[k].type = "vacuum" /\ areas[j].type \in {"vacuum", "program"}
    BY <1>6, <1>12, PassPuts
  <2>3. Retyped(areas, areas', job.area, end, "program")
    BY <2>1, <2>2, PutInTypes
  <2>4. EvenTables(areas')
    <3>1. /\ areas[k].type \notin Tables /\ areas[j].type \notin Tables
          /\ "program" \notin Tables
      BY <2>2 DEF Tables
    <3> QED  BY <2>1, <2>2, <3>1, EvenStays
  <2> QED  BY <1>9, <2>1, <2>3, <2>4 DEF Retyped
<1> QED  BY <1>8, <1>10, <1>11, <1>12

LEMMA EndOfAreaMet ==
    ASSUME Tidy, TraceInv, SettledInv, MetInv, EndOfArea
    PROVE  MetInv'
<1> DEFINE i == Instr(mem, job.next)
           flag == changed \/ DOMAIN labels' # DOMAIN labels
<1>1. /\ Parsing /\ parsed' = parsed \union {job.next}
      /\ \E end \in i.ends : AreaParsed(end, flag)
      /\ mem' = mem /\ remarks' = remarks /\ file' = file
  BY DEF EndOfArea, Meet
<1>2. /\ mem \in Images /\ Settled(mem, areas) /\ JobOk /\ job.pc = "parse"
      /\ job.next <= gEndOfCode
  BY <1>1 DEF TraceInv, SettledInv, Parsing
<1>3. /\ Walked(mem, job.area, job.next) /\ job.next \in Code /\ job # Down
      /\ job.next \in Begins(mem)
  BY <1>2, NextToParse, InProgress
<1>4. PICK end \in i.ends : AreaParsed(end, flag)
  BY <1>1
<1>5. Run(mem, job.area, end)
  BY <1>2, <1>3, WalkEnds
<1>6. end = i.next - 1
  BY <1>2, <1>3, Instructions
<1>7. CodeMet(mem, areas, parsed', job.area..end)
  BY <1>1, <1>6, MetNextOne
<1>8. TableWaits /\ EvenTables(areas) /\ Noted(remarks) /\ FileMet'
  BY <1>1, <1>3, FileMetStays DEF MetInv
<1> HIDE DEF i, flag
<1>9. \/ job' = Down
      \/ EvenTables(areas') /\ CodeMet(mem, areas', parsed', {}) /\ InRun' = {} /\ TableWaits'
  BY <1>1, <1>2, <1>4, <1>5, <1>7, <1>8, AreaParsedMet
<1> QED  BY <1>1, <1>8, <1>9, NoRun DEF MetInv

LEMMA EndOfCodeMet ==
    ASSUME Tidy, mem \in Images, SettledInv, MetInv, EndOfCode
    PROVE  MetInv'
<1>1. /\ job.pc = "parse" /\ job.next > gEndOfCode /\ AreaParsed(gEndOfCode, changed)
      /\ mem' = mem /\ remarks' = remarks /\ file' = file /\ parsed' = parsed
  BY DEF EndOfCode
<1>2. Settled(mem, areas) /\ JobOk
  BY DEF SettledInv
<1>3. Walked(mem, job.area, job.next) /\ job # Down
  BY <1>1, <1>2, NextToParse, InProgress
<1>4. Run(mem, job.area, gEndOfCode)
  BY <1>1, <1>3, WalkEndsWithCode
<1>5. job.next - 1 = gEndOfCode
  <2>1. job.next \in Begins(mem) \union {gEndOfCode + 1} /\ gEndOfCode \in Int
    BY <1>3, CodeLimits DEF Walked, Limits
  <2>2. job.next \in Begins(mem) => job.next \in Code
    BY Instructions
  <2> QED  BY <1>1, <2>1, <2>2, CodeLimits DEF Limits
<1>6. /\ CodeMet(mem, areas, parsed', job.area..gEndOfCode)
      /\ TableWaits /\ EvenTables(areas) /\ Noted(remarks) /\ FileMet'
  BY <1>1, <1>3, <1>5, FileMetStays DEF MetInv, InRun
<1>7. \/ job' = Down
      \/ EvenTables(areas') /\ CodeMet(mem, areas', parsed', {}) /\ InRun' = {} /\ TableWaits'
  BY <1>1, <1>2, <1>4, <1>6, AreaParsedMet
<1> QED  BY <1>1, <1>6, <1>7, NoRun DEF MetInv

LEMMA StutterMet ==
    ASSUME MetInv, UNCHANGED vars
    PROVE  MetInv'
<1>1. /\ mem' = mem /\ areas' = areas /\ remarks' = remarks /\ file' = file
      /\ parsed' = parsed /\ job' = job
  BY DEF vars, work
<1>2. FileMet'
  BY <1>1, FileMetStays DEF MetInv
<1> QED  BY <1>1, <1>2 DEF MetInv, InRun, TableWaits

LEMMA MetNext ==
    ASSUME Tidy, NoCodeDefined, TraceInv, SettledInv, MetInv, [Next]_vars
    PROVE  MetInv'
<1>0. mem \in Images
  BY DEF TraceInv
<1>1. CASE \/ \E a \in Code : ParseDZ(a)
           \/ \E start, end \in Code : ParseLookupTable(start, end)
           \/ \E a \in Code : ParseVectorTable(a)
  BY <1>1, ParsingMet
<1>2. CASE \E start, end \in Code : ParsePointerTable(start, end)
  BY <1>0, <1>2, DefiningMet
<1>3. CASE \E type \in DataTypes, start, end \in Code : DefineMemory(type, start, end)
  <2>1. PICK type \in DataTypes, start \in Code, end \in Code : DefineMemory(type, start, end)
    BY <1>3
  <2> QED  BY <1>0, <2>1, DefiningMet
<1>4. CASE \/ \E a \in Known, name \in Names : DefineLabel(a, name)
           \/ \E a \in Code, scope \in {"xref", "xdef"} : DefineScope(a, scope)
           \/ \E a \in Known, position \in Positions : RemarkOutput(a, position)
           \/ \E a \in Known, text \in Texts : DefineExpression(a, text)
           \/ \E a \in Known, text \in Texts : DefineConstant(a, text)
  BY <1>4, NotingMet
<1>5. CASE CreateCollectFile \/ ReloadCollectFile \/ \E yes \in BOOLEAN : Quit(yes)
  BY <1>5, FileCommandsMet
<1>6. CASE Start  BY <1>0, <1>6, StartMet
<1>7. CASE NextEntry  BY <1>7, NextEntryMet
<1>8. CASE PopItem  BY <1>8, PopMet
<1>9. CASE PassDone  BY <1>0, <1>9, PassDoneMet
<1>10. CASE ParseInstruction  BY <1>10, ParseMet
<1>11. CASE EndOfArea  BY <1>11, EndOfAreaMet
<1>12. CASE EndOfCode  BY <1>0, <1>12, EndOfCodeMet
<1>13. CASE UNCHANGED vars  BY <1>13, StutterMet
<1> QED
  BY <1>1, <1>2, <1>3, <1>4, <1>5, <1>6, <1>7, <1>8, <1>9, <1>10, <1>11, <1>12, <1>13 DEF Next

\* In every session of a tidy user the areas that are code hold the instructions that
\* pass 1 has met, whole, and nothing else; tables have whole lines.
THEOREM MetInvariant ==
    ASSUME Tidy, NoCodeDefined
    PROVE  Spec => []MetInv
<1>1. Init => MetInv
  BY InitMet
<1>2. TraceInv /\ SettledInv /\ MetInv /\ [Next]_vars => MetInv'
  BY MetNext
<1> QED  BY <1>1, <1>2, TraceInvariant, SettledInvariant, PTL DEF Spec

----------------------------------------------------------------------------
(* Pass 2, a line at a time *)

\* The disassembler goes forward, by four bytes at most.
LEMMA PrintedForward ==
    ASSUME NEW S, NEW m \in [S -> Byte], NEW pc \in Int
    PROVE  LET n == Disassemble(m, pc).next IN n \in Int /\ pc < n /\ n <= pc + 4
<1> DEFINE o == GetByte(m, pc)
           k == GetByte(m, pc + 1)
           d == Disassemble(m, pc)
<1>0. o \in Byte /\ k \in Byte
  BY BytesAreBytes
<1>1. ASSUME NEW args, OperandBytes(args) \in 0..2, NEW at \in (pc + 1)..(pc + 2)
      PROVE  /\ Printed(args, at).next \in Int /\ pc < Printed(args, at).next
             /\ Printed(args, at).next <= pc + 4
  BY <1>1 DEF Printed
<1>2. OperandBytes(Unknown) = 0
  BY DEF OperandBytes, Relative, Bit, OffsetAndByte, Offset, Unknown
<1>3. CASE o = 203
  <2>1. d = Printed(cb[k], pc + 2)  BY <1>3 DEF Disassemble
  <2>2. cb[k] = 0  BY <1>0 DEF cb, cbLow, cbHigh, Halves, Byte
  <2> QED  BY <1>1, <2>1, <2>2, OperandSizes
<1>4. CASE o = 237
  <2>1. d = Printed(edArgs[k], pc + 2)  BY <1>4 DEF Disassemble
  <2>2. edArgs[k] \in {0, 2, Unknown}  BY <1>0, EdTables
  <2>3. OperandBytes(edArgs[k]) \in 0..2  BY <1>2, <2>2, OperandSizes
  <2> QED  BY <1>1, <2>1, <2>3
<1>5. CASE o \in {221, 253}
  <2> DEFINE i == GetByte(m, pc + 2)
             b == GetByte(m, pc + 1 + 2)
  <2>1. d = IndexPrinted(m, pc + 1, dd, ddcb)
    BY <1>5, IndexTurn DEF Disassemble
  <2>2. d = IF k = 203 THEN Printed(ddcb[b], pc + 2) ELSE Printed(dd[k], pc + 2)
    <3>1. pc + 1 + 1 = pc + 2
      OBVIOUS
    <3> QED  BY <2>1, <3>1 DEF IndexPrinted
  <2>3. OperandBytes(ddcb[b]) \in 0..2
    <3>1. b \in Byte  BY BytesAreBytes
    <3>2. ddcb[b] \in {Bit, Unknown}  BY <3>1, BitTables
    <3> QED  BY <1>2, <3>2, OperandSizes
  <2>4. OperandBytes(dd[k]) \in 0..2
    <3>1. k < 128 => dd[k] = ddLow[k] /\ k \in 0..127
      BY <1>0 DEF dd, Halves, Byte
    <3>2. ~(k < 128) => dd[k] = ddHigh[k] /\ k \in 128..255
      BY <1>0 DEF dd, Halves, Byte
    <3>3. \A x \in 0..127 : ddLow[x] \in {0, 1, 2, Offset, OffsetAndByte, Unknown}
      BY DEF ddLow
    <3>4. \A x \in 128..255 : ddHigh[x] \in {0, Offset, Unknown}
      BY DEF ddHigh
    <3>5. dd[k] \in {0, 1, 2, Offset, OffsetAndByte, Unknown}
      BY <3>1, <3>2, <3>3, <3>4
    <3> QED  BY <1>2, <3>5, OperandSizes
  <2> QED  BY <1>1, <2>2, <2>3, <2>4
<1>6. CASE o = 223
  <2>1. d = [Printed(0, pc + 2) EXCEPT !.include = fpp[CallIndex(k, 3, 33, 162, 11, 44)]]
    BY <1>6 DEF Disassemble
  <2>2. d.next = pc + 2
    BY <2>1, OperandSizes DEF Printed
  <2> QED  BY <2>2
<1>7. CASE o = 231
  <2>1. d = OzCall(m, pc + 1)  BY <1>7 DEF Disassemble
  <2>2. OzCall(m, pc + 1).next \in {pc + 1 + 1, pc + 1 + 2}
    BY OperandSizes DEF OzCall, Printed
  <2> QED  BY <2>1, <2>2
<1>8. CASE o \notin {203, 237, 221, 253, 223, 231}
  <2>1. d = Printed(mn[o], pc + 1)  BY <1>8 DEF Disassemble
  <2>2. OperandBytes(mn[o]) \in 0..2
    BY <1>0, MainTables
  <2> QED  BY <1>1, <2>1, <2>2
<1> QED  BY <1>3, <1>4, <1>5, <1>6, <1>7, <1>8

\* f says what is printed from an address on: its line, and what is printed from the
\* next one on.
Printing(start, end, behind, line, next, f) ==
    f = [pc \in start..(end + behind) |->
            IF pc > end THEN Text ELSE Then(line[pc], f[next[pc]])]

LEMMA PrintingExists ==
    ASSUME NEW start \in Int, NEW end \in Int, NEW behind \in Nat, NEW line,
           NEW next \in [start..end -> Int],
           start <= end + 1, \A pc \in start..end : pc < next[pc] /\ next[pc] <= end + behind
    PROVE  \E f : Printing(start, end, behind, line, next, f)
<1> DEFINE n == end + 1 - start
           Upto(k, f) == f = [pc \in (end + 1 - k)..(end + behind) |->
                                 IF pc > end THEN Text ELSE Then(line[pc], f[next[pc]])]
           T == {k \in 0..n : \E f : Upto(k, f)}
<1>1. n \in Nat
  OBVIOUS
<1>2. 0 \in T
  <2> DEFINE f == [pc \in (end + 1)..(end + behind) |-> Text]
  <2>1. Upto(0, f)
    <3>1. end + 1 - 0 = end + 1
      OBVIOUS
    <3>2. \A pc \in (end + 1)..(end + behind) : pc > end
      OBVIOUS
    <3> QED  BY <3>1, <3>2
  <2>2. \E g : Upto(0, g)
    <3> HIDE DEF f, Upto
    <3> QED  BY <2>1
  <2> QED  BY <1>1, <2>2
<1>3. ASSUME NEW k \in 1..n, k - 1 \in T PROVE k \in T
  <2>1. PICK f : Upto(k - 1, f)
    BY <1>3
  <2> DEFINE at == end + 1 - k
             D == at..(end + behind)
             E == (at + 1)..(end + behind)
             g == [pc \in D |-> IF pc = at THEN Then(line[at], f[next[at]]) ELSE f[pc]]
  <2>2. /\ at \in Int /\ at \in start..end /\ end + 1 - (k - 1) = at + 1 /\ k \in 0..n
    OBVIOUS
  <2>3. f = [pc \in E |-> IF pc > end THEN Text ELSE Then(line[pc], f[next[pc]])]
    BY <2>1, <2>2
  <2>4. \A pc \in E : pc \in D /\ pc # at /\ g[pc] = f[pc]
    BY <2>2
  <2>5. \A pc \in D : pc <= end => pc \in start..end /\ next[pc] \in E
    BY <2>2
  <2>6. at \in D /\ ~(at > end)
    BY <2>2
  <2> HIDE DEF at, D, E
  <2>7. g[at] = Then(line[at], g[next[at]])
    <3>1. next[at] \in E
      BY <2>2, <2>5, <2>6 DEF at
    <3> QED  BY <2>4, <2>6, <3>1
  <2>8. ASSUME NEW pc \in E
        PROVE  g[pc] = IF pc > end THEN Text ELSE Then(line[pc], g[next[pc]])
    <3>1. pc > end \/ next[pc] \in E
      BY <2>2, <2>4, <2>5 DEF E
    <3>2. pc > end \/ g[next[pc]] = f[next[pc]]
      BY <2>4, <3>1
    <3> QED  BY <2>3, <2>4, <3>2
  <2>9. \A pc \in D : pc = at \/ pc \in E
    BY <2>2 DEF D, E
  <2>10. \A pc \in D : g[pc] = IF pc > end THEN Text ELSE Then(line[pc], g[next[pc]])
    BY <2>6, <2>7, <2>8, <2>9
  <2>11. Upto(k, g)
    <3>1. g = [pc \in D |-> g[pc]]
      OBVIOUS
    <3> HIDE DEF g
    <3>2. g = [pc \in D |-> IF pc > end THEN Text ELSE Then(line[pc], g[next[pc]])]
      BY <2>10, <3>1
    <3> QED  BY <3>2 DEF D, at
  <2>12. \E h : Upto(k, h)
    <3> HIDE DEF g, Upto
    <3> QED  BY <2>11
  <2> QED  BY <2>2, <2>12
<1>4. 0..n \subseteq T
  <2> HIDE DEF T, n
  <2> QED  BY <1>1, <1>2, <1>3, Upwards
<1>5. n \in T /\ end + 1 - n = start
  <2>1. n \in 0..n /\ end + 1 - n = start
    BY <1>1
  <2> HIDE DEF T
  <2> QED  BY <1>4, <2>1
<1>6. PICK f : Upto(n, f)
  BY <1>5
<1>7. Printing(start, end, behind, line, next, f)
  <2> HIDE DEF n
  <2> QED  BY <1>5, <1>6 DEF Printing
<1> QED  BY <1>7

----------------------------------------------------------------------------
(* Addresses in order *)

LEMMA Range1Is ==
    ASSUME NEW first \in Int, NEW last \in Int
    PROVE  LET n == IF last < first THEN 0 ELSE last - first + 1 IN
           /\ n \in Nat /\ Range1(first, last) \in Seq(Int)
           /\ Len(Range1(first, last)) = n
           /\ \A k \in 1..n : Range1(first, last)[k] = first + k - 1
<1> DEFINE n == IF last < first THEN 0 ELSE last - first + 1
<1>1. n \in Nat
  OBVIOUS
<1>2. Range1(first, last) = [k \in 1..n |-> first + k - 1]
  BY DEF Range1
<1> HIDE DEF n
<1>3. \A k \in 1..n : first + k - 1 \in Int
  BY <1>1
<1> QED  BY <1>1, <1>2, <1>3 DEF n

LEMMA RangesJoin ==
    ASSUME NEW a \in Int, NEW b \in Int, NEW c \in Int, a <= b + 1, b <= c
    PROVE  Range1(a, b) \o Range1(b + 1, c) = Range1(a, c)
<1> DEFINE r == Range1(a, b)
           s == Range1(b + 1, c)
           t == Range1(a, c)
<1>1. /\ r \in Seq(Int) /\ Len(r) = b - a + 1
      /\ \A k \in 1..(b - a + 1) : r[k] = a + k - 1
  <2>1. LET n == IF b < a THEN 0 ELSE b - a + 1 IN
        r \in Seq(Int) /\ Len(r) = n /\ \A k \in 1..n : r[k] = a + k - 1
    BY Range1Is
  <2>2. b - a + 1 = IF b < a THEN 0 ELSE b - a + 1
    OBVIOUS
  <2> HIDE DEF r
  <2> QED  BY <2>1, <2>2
<1>2. /\ s \in Seq(Int) /\ Len(s) = c - b
      /\ \A k \in 1..(c - b) : s[k] = b + k
  <2>1. LET n == IF c < b + 1 THEN 0 ELSE c - (b + 1) + 1 IN
        s \in Seq(Int) /\ Len(s) = n /\ \A k \in 1..n : s[k] = (b + 1) + k - 1
    <3>1. b + 1 \in Int
      OBVIOUS
    <3> HIDE DEF s
    <3>2. ASSUME NEW d \in Int
          PROVE  LET n == IF c < d THEN 0 ELSE c - d + 1 IN
                 /\ n \in Nat /\ Range1(d, c) \in Seq(Int) /\ Len(Range1(d, c)) = n
                 /\ \A k \in 1..n : Range1(d, c)[k] = d + k - 1
      BY Range1Is
    <3> QED  BY <3>1, <3>2 DEF s
  <2>2. c - b = IF c < b + 1 THEN 0 ELSE c - (b + 1) + 1
    OBVIOUS
  <2> HIDE DEF s
  <2>3. \A k \in 1..(c - b) : (b + 1) + k - 1 = b + k
    OBVIOUS
  <2> QED  BY <2>1, <2>2, <2>3
<1>3. /\ t \in Seq(Int) /\ Len(t) = c - a + 1
      /\ \A k \in 1..(c - a + 1) : t[k] = a + k - 1
  <2>1. LET n == IF c < a THEN 0 ELSE c - a + 1 IN
        t \in Seq(Int) /\ Len(t) = n /\ \A k \in 1..n : t[k] = a + k - 1
    BY Range1Is
  <2>2. c - a + 1 = IF c < a THEN 0 ELSE c - a + 1
    OBVIOUS
  <2> HIDE DEF t
  <2> QED  BY <2>1, <2>2
<1> HIDE DEF r, s, t
<1>4. /\ r \o s \in Seq(Int) /\ Len(r \o s) = Len(r) + Len(s)
      /\ \A k \in 1..(Len(r) + Len(s)) : (r \o s)[k] = IF k <= Len(r) THEN r[k] ELSE s[k - Len(r)]
  BY <1>1, <1>2, ConcatProperties
<1>5. Len(r) + Len(s) = Len(t) /\ Len(t) = c - a + 1
  BY <1>1, <1>2, <1>3
<1>6. ASSUME NEW k \in 1..Len(t) PROVE (r \o s)[k] = t[k]
  <2>1. (r \o s)[k] = IF k <= b - a + 1 THEN r[k] ELSE s[k - (b - a + 1)]
    BY <1>1, <1>4, <1>5
  <2>2. k \in Int /\ 1 <= k /\ k <= c - a + 1 /\ t[k] = a + k - 1
    BY <1>3, <1>5
  <2>3. CASE k <= b - a + 1
    <3>1. k \in 1..(b - a + 1)
      BY <2>2, <2>3
    <3> QED  BY <1>1, <2>1, <2>2, <2>3, <3>1
  <2>4. CASE ~(k <= b - a + 1)
    <3>1. k - (b - a + 1) \in 1..(c - b) /\ b + (k - (b - a + 1)) = a + k - 1
      BY <2>2, <2>4
    <3> QED  BY <1>2, <2>1, <2>2, <2>4, <3>1
  <2> QED  BY <2>3, <2>4
<1>7. r \o s = t
  BY <1>3, <1>4, <1>5, <1>6, SeqEqual
<1> QED  BY <1>7 DEF r, s, t

LEMMA NoRange ==
    ASSUME NEW a \in Int, NEW b \in Int, b < a
    PROVE  Range1(a, b) = <<>>
<1>1. Range1(a, b) \in Seq(Int) /\ Len(Range1(a, b)) = 0
  BY Range1Is
<1> QED  BY <1>1

\* Text that stands for the bytes from first to last, and is wrong at Misprints only.
StandsFor(t, first, last) == t.bytes = Range1(first, last) /\ t.rubbish \subseteq Misprints

\* Instructions of t are those of p.
SplitsAs(t, p, first, last) == t.starts = p \intersect (first..last)

LEMMA StandTogether ==
    ASSUME NEW a \in Int, NEW b \in Int, NEW c \in Int, a <= b + 1, b <= c,
           NEW s, NEW t, StandsFor(s, a, b), StandsFor(t, b + 1, c)
    PROVE  StandsFor(Then(s, t), a, c)
<1>1. s.bytes \o t.bytes = Range1(a, c)
  <2>1. s.bytes = Range1(a, b) /\ t.bytes = Range1(b + 1, c)
    BY DEF StandsFor
  <2>2. Range1(a, b) \o Range1(b + 1, c) = Range1(a, c)
    BY RangesJoin
  <2> QED  BY <2>1, <2>2
<1>2. Then(s, t).bytes = s.bytes \o t.bytes /\ Then(s, t).rubbish \subseteq Misprints
  BY DEF StandsFor, Then
<1> QED  BY <1>1, <1>2 DEF StandsFor

LEMMA SplitTogether ==
    ASSUME NEW a \in Int, NEW b \in Int, NEW c \in Int, a <= b + 1, b <= c,
           NEW p, NEW s, NEW t, SplitsAs(s, p, a, b), SplitsAs(t, p, b + 1, c)
    PROVE  SplitsAs(Then(s, t), p, a, c)
<1>1. a..c = (a..b) \union ((b + 1)..c)
  OBVIOUS
<1> QED  BY <1>1 DEF SplitsAs, Then

LEMMA NothingPrinted ==
    ASSUME NEW a \in Int, NEW b \in Int, b < a, NEW p
    PROVE  StandsFor(Text, a, b) /\ SplitsAs(Text, p, a, b)
<1>1. a..b = {}
  OBVIOUS
<1> QED  BY <1>1, NoRange DEF StandsFor, SplitsAs, Text

\* From the addresses Q, a line stands for its bytes and the next one follows it.
Lined(line, next, p, Q, end) ==
    \A pc \in Q : \E last \in pc..end :
        /\ StandsFor(line[pc], pc, last) /\ SplitsAs(line[pc], p, pc, last)
        /\ \/ next[pc] = last + 1 /\ next[pc] \in Q
           \/ last = end /\ end < next[pc]

\* Lines that stand for their bytes, one behind the other, stand for all bytes.
LEMMA LinesStand ==
    ASSUME NEW start \in Int, NEW end \in Int, NEW behind \in Nat, NEW line,
           NEW next \in [start..end -> Int], NEW f,
           Printing(start, end, behind, line, next, f),
           start <= end + 1, \A pc \in start..end : pc < next[pc] /\ next[pc] <= end + behind,
           NEW p, NEW Q \in SUBSET (start..end), Lined(line, next, p, Q, end)
    PROVE  \A pc \in Q : StandsFor(f[pc], pc, end) /\ SplitsAs(f[pc], p, pc, end)
<1> DEFINE Good(pc) == pc \in Q => StandsFor(f[pc], pc, end) /\ SplitsAs(f[pc], p, pc, end)
           n == end + 1 - start
           T == {k \in 0..n : \A pc \in (end + 1 - k)..end : Good(pc)}
<1>1. n \in Nat
  OBVIOUS
<1>2. 0 \in T
  <2>1. (end + 1 - 0)..end = {}
    OBVIOUS
  <2> HIDE DEF Good
  <2> QED  BY <1>1, <2>1
<1>3. \A pc \in start..(end + behind) :
          f[pc] = IF pc > end THEN Text ELSE Then(line[pc], f[next[pc]])
  BY DEF Printing
<1>4. ASSUME NEW k \in 1..n, k - 1 \in T PROVE k \in T
  <2> DEFINE at == end + 1 - k
  <2>1. /\ at \in Int /\ at \in start..end /\ end + 1 - (k - 1) = at + 1 /\ k \in 0..n
        /\ at \in start..(end + behind) /\ ~(at > end)
    OBVIOUS
  <2>2. \A pc \in (at + 1)..end : Good(pc)
    BY <1>4, <2>1
  <2>3. ASSUME at \in Q PROVE StandsFor(f[at], at, end) /\ SplitsAs(f[at], p, at, end)
    <3>1. PICK last \in at..end :
               /\ StandsFor(line[at], at, last) /\ SplitsAs(line[at], p, at, last)
               /\ \/ next[at] = last + 1 /\ next[at] \in Q
                  \/ last = end /\ end < next[at]
      BY <2>3 DEF Lined
    <3>2. f[at] = Then(line[at], f[next[at]])
      BY <1>3, <2>1
    <3>3. next[at] \in Int /\ at < next[at] /\ next[at] <= end + behind
      BY <2>1
    <3> HIDE DEF at
    <3>4. last \in Int /\ at <= last + 1 /\ last <= end
      BY <2>1
    <3>5. StandsFor(f[next[at]], last + 1, end) /\ SplitsAs(f[next[at]], p, last + 1, end)
      <4>1. CASE next[at] = last + 1 /\ next[at] \in Q
        <5>1. next[at] \in (at + 1)..end
          BY <2>1, <3>3, <4>1
        <5> QED  BY <2>2, <4>1, <5>1
      <4>2. CASE last = end /\ end < next[at]
        <5>1. next[at] \in start..(end + behind) /\ next[at] > end
          BY <2>1, <3>3, <4>2
        <5>2. f[next[at]] = Text
          BY <1>3, <5>1
        <5>3. end < last + 1
          BY <4>2
        <5> QED  BY <3>4, <5>2, <5>3, NothingPrinted
      <4> QED  BY <3>1, <4>1, <4>2
    <3> QED  BY <2>1, <3>1, <3>2, <3>4, <3>5, StandTogether, SplitTogether
  <2>4. ASSUME NEW pc \in at..end PROVE Good(pc)
    <3>1. pc = at \/ pc \in (at + 1)..end
      BY <2>1
    <3> HIDE DEF at
    <3> QED  BY <2>2, <2>3, <3>1
  <2> HIDE DEF Good
  <2> QED  BY <2>1, <2>4
<1>5. 0..n \subseteq T
  <2> HIDE DEF T, n
  <2> QED  BY <1>1, <1>2, <1>4, Upwards
<1>6. ASSUME NEW pc \in Q PROVE Good(pc)
  <2>1. n \in 0..n /\ end + 1 - n = start
    BY <1>1
  <2>2. \A x \in start..end : Good(x)
    <3> HIDE DEF Good
    <3>1. n \in T
      <4> HIDE DEF T
      <4> QED  BY <1>5, <2>1
    <3> QED  BY <2>1, <3>1
  <2> QED  BY <2>2
<1> QED  BY <1>6

\* No line has an instruction.
NoStarts(line, S) == \A pc \in S : line[pc].starts = {}

\* Lines without instructions make text without.
LEMMA LinesOfData ==
    ASSUME NEW start \in Int, NEW end \in Int, NEW behind \in Nat, NEW line,
           NEW next \in [start..end -> Int], NEW f,
           Printing(start, end, behind, line, next, f),
           start <= end + 1, \A pc \in start..end : pc < next[pc] /\ next[pc] <= end + behind,
             NoStarts(line, start..end)
    PROVE  NoStarts(f, start..(end + behind))
<1> DEFINE n == end + 1 - start
           T == {k \in 0..n : \A pc \in (end + 1 - k)..(end + behind) : f[pc].starts = {}}
<1>1. n \in Nat
  OBVIOUS
<1>2. \A pc \in start..(end + behind) :
          f[pc] = IF pc > end THEN Text ELSE Then(line[pc], f[next[pc]])
  BY DEF Printing
<1>3. 0 \in T
  <2>1. \A pc \in (end + 1 - 0)..(end + behind) : pc \in start..(end + behind) /\ pc > end
    OBVIOUS
  <2>2. \A pc \in (end + 1 - 0)..(end + behind) : f[pc].starts = {}
    BY <1>2, <2>1 DEF Text
  <2> QED  BY <1>1, <2>2
<1>4. ASSUME NEW k \in 1..n, k - 1 \in T PROVE k \in T
  <2> DEFINE at == end + 1 - k
  <2>1. /\ at \in Int /\ at \in start..end /\ end + 1 - (k - 1) = at + 1 /\ k \in 0..n
        /\ at \in start..(end + behind) /\ ~(at > end)
    OBVIOUS
  <2>2. \A pc \in (at + 1)..(end + behind) : f[pc].starts = {}
    BY <1>4, <2>1
  <2>3. f[at] = Then(line[at], f[next[at]]) /\ line[at].starts = {}
    BY <1>2, <2>1 DEF NoStarts
  <2>4. next[at] \in (at + 1)..(end + behind)
    <3>1. next[at] \in Int /\ at < next[at] /\ next[at] <= end + behind
      BY <2>1
    <3> QED  BY <2>1, <3>1
  <2> HIDE DEF at
  <2>5. f[at].starts = {}
    BY <2>2, <2>3, <2>4 DEF Then
  <2>6. ASSUME NEW pc \in at..(end + behind) PROVE f[pc].starts = {}
    <3>1. pc = at \/ pc \in (at + 1)..(end + behind)
      BY <2>1
    <3> QED  BY <2>2, <2>5, <3>1
  <2> QED  BY <2>1, <2>6 DEF at
<1>5. 0..n \subseteq T
  <2> HIDE DEF T, n
  <2> QED  BY <1>1, <1>3, <1>4, Upwards
<1>6. n \in 0..n /\ end + 1 - n = start
  BY <1>1
<1>7. n \in T
  <2> HIDE DEF T
  <2> QED  BY <1>5, <1>6
<1> QED  BY <1>6, <1>7 DEF NoStarts

----------------------------------------------------------------------------
(* The source of an area *)

\* No byte a tidy user takes for an instruction is an opcode without a mnemonic.
HaveMnemonics == \A m \in Images : \A a \in Begins(m) : Disassemble(m, a).printed

\* The end of an area of code is the end of an instruction.
LEMMA AreaEnds ==
    ASSUME NEW m, NEW list, Settled(m, list), NEW i \in 1..Len(list)
    PROVE  list[i].end = gEndOfCode \/ Boundary(m, list[i].end + 1)
<1>1. /\ list \in Seq(Areas) /\ Partition(list, Org, gEndOfCode)
      /\ \A k \in 1..Len(list) : AreaOk(m, list[k])
  BY DEF Settled
<1>2. /\ Len(list) \in Nat \ {0} /\ list[Len(list)].end = gEndOfCode
      /\ \A k \in 2..Len(list) : list[k].start = list[k - 1].end + 1
  BY <1>1, InOrder2
<1>3. CASE i = Len(list)
  BY <1>2, <1>3
<1>4. CASE i # Len(list)
  <2>1. i + 1 \in 1..Len(list) /\ i + 1 \in 2..Len(list) /\ (i + 1) - 1 = i
    BY <1>2, <1>4
  <2>2. list[i + 1].start = list[i].end + 1 /\ AreaOk(m, list[i + 1])
    BY <1>1, <1>2, <2>1
  <2> QED  BY <2>2 DEF AreaOk
<1> QED  BY <1>3, <1>4

\* Where an address of an area is.
LEMMA AreaHolds ==
    ASSUME NEW m, NEW list, Settled(m, list), NEW i \in 1..Len(list)
    PROVE  /\ list[i].start \in Code /\ list[i].end \in Code /\ list[i].start <= list[i].end
           /\ list[i].start \in Int /\ list[i].end \in Int /\ list[i].type \in Types
           /\ \A x \in list[i].start..list[i].end :
                 x \in Code /\ SearchArea(list, x) = list[i].type
<1>1. /\ list \in Seq(Areas) /\ Partition(list, Org, gEndOfCode) /\ ValidAreas(list)
  BY DEF Settled, Partition
<1>2. /\ list[i].start \in Int /\ list[i].end \in Int /\ list[i].start <= list[i].end
      /\ Org <= list[i].start /\ list[i].end <= gEndOfCode
  BY <1>1, InOrder2, AreasInCode, AreaFields
<1>3. Code = Org..gEndOfCode /\ Org \in Int /\ gEndOfCode \in Int
  BY CodeLimits DEF Limits
<1>4. list[i].type \in Types
  <2>1. list[i] \in Areas
    BY <1>1
  <2> QED  BY <2>1 DEF Areas
<1>5. ASSUME NEW x \in list[i].start..list[i].end
      PROVE  x \in Code /\ SearchArea(list, x) = list[i].type
  <2>1. x \in Int /\ Holds(list[i], x) /\ x \in Code
    BY <1>2, <1>3, <1>5 DEF Holds
  <2> QED  BY <1>1, <2>1, Found
<1> QED  BY <1>2, <1>3, <1>4, <1>5

\* In an area of code each byte is part of an instruction that has been met, and
\* none of those reaches out of it.
LEMMA CodeOfArea ==
    ASSUME Tidy, NEW m \in Images, NEW list, Settled(m, list), NEW p, CodeMet(m, list, p, {}),
           NEW i \in 1..Len(list), list[i].type = "program"
    PROVE  /\ list[i].start \in p
           /\ \A b \in p \intersect (list[i].start..list[i].end) :
                 LET n == Instr(m, b).next IN
                 /\ b < n /\ n <= list[i].end + 1 /\ (n <= list[i].end => n \in p)
                 /\ \A d \in p : d <= b \/ n <= d
<1> DEFINE first == list[i].start
           last == list[i].end
<1>1. /\ first \in Code /\ first <= last /\ first \in Int /\ last \in Int /\ last <= gEndOfCode
      /\ gEndOfCode \in Int
      /\ \A x \in first..last : x \in Code /\ SearchArea(list, x) = "program"
  <2>1. Code = Org..gEndOfCode /\ Org \in Int /\ gEndOfCode \in Int
    BY CodeLimits DEF Limits
  <2> QED  BY <2>1, AreaHolds
<1>2. Boundary(m, first) /\ (last = gEndOfCode \/ Boundary(m, last + 1))
  <2>1. AreaOk(m, list[i])
    BY DEF Settled
  <2> QED  BY <2>1, AreaEnds DEF AreaOk
<1> HIDE DEF first, last
<1>3. /\ p \subseteq Begins(m)
      /\ \A x \in first..last : \E b \in p : b <= x /\ x < Instr(m, b).next
  BY <1>1 DEF CodeMet
<1>4. ASSUME NEW x \in first..last, Boundary(m, x) PROVE x \in p
  <2>1. PICK b \in p : b <= x /\ x < Instr(m, b).next
    BY <1>3
  <2>2. b \in Int /\ Instr(m, b).next \in Int /\ x \in Int /\ b \in Begins(m)
    BY <1>1, <1>3, Instructions
  <2>3. ~(b < x)
    BY <1>4, <2>1, <2>2 DEF Boundary
  <2>4. b = x
    BY <2>1, <2>2, <2>3
  <2> QED  BY <2>4
<1>5. first \in p
  BY <1>1, <1>2, <1>4
<1>6. ASSUME NEW b \in p \intersect (first..last)
      PROVE  LET n == Instr(m, b).next IN
             /\ b < n /\ n <= last + 1 /\ (n <= last => n \in p)
             /\ \A d \in p : d <= b \/ n <= d
  <2> DEFINE n == Instr(m, b).next
  <2>1. /\ b \in Begins(m) /\ b \in Int /\ n \in Int /\ b < n /\ n <= gEndOfCode + 1
        /\ \A d \in Begins(m) : d <= b \/ n <= d
    BY <1>3, Instructions
  <2>2. Boundary(m, n)
    BY <2>1, BeginsAreBoundaries
  <2>3. n <= last + 1
    <3>1. b < last + 1
      BY <1>1, <2>1
    <3>2. Boundary(m, last + 1) => n <= last + 1
      BY <2>1, <3>1 DEF Boundary
    <3> QED  BY <1>2, <2>1, <3>2
  <2> HIDE DEF n
  <2>4. n <= last => n \in p
    <3>1. n <= last => n \in first..last
      BY <1>1, <2>1
    <3> QED  BY <1>4, <2>2, <3>1
  <2> QED  BY <1>3, <2>1, <2>3, <2>4 DEF n
<1> QED  BY <1>5, <1>6 DEF first, last

\* Z80Asm prints the instructions that have been met, one behind the other.
LEMMA CodePrinted ==
    ASSUME Tidy, HaveMnemonics, mem \in Images, Settled(mem, areas),
           CodeMet(mem, areas, parsed, {}),
           NEW i \in 1..Len(areas), areas[i].type = "program"
    PROVE  LET first == areas[i].start
               last == areas[i].end
               t == Z80Asm(first, last)
           IN  StandsFor(t, first, last) /\ SplitsAs(t, parsed, first, last)
<1> DEFINE first == areas[i].start
           last == areas[i].end
           line == [pc \in first..last |-> Line(pc)]
           next == [pc \in first..last |-> Disassemble(mem, pc).next]
           Q == parsed \intersect (first..last)
           From(f) == f = [pc \in first..(last + 4) |->
                             IF pc > last THEN Text
                             ELSE Then(Line(pc), f[Disassemble(mem, pc).next])]
<1>1. first \in Int /\ last \in Int /\ first <= last
  BY AreaHolds
<1>2. /\ first \in parsed
      /\ \A b \in Q : LET n == Instr(mem, b).next IN
            /\ b < n /\ n <= last + 1 /\ (n <= last => n \in parsed)
            /\ \A d \in parsed : d <= b \/ n <= d
  BY CodeOfArea
<1>3. mem \in [Code -> Byte] /\ parsed \subseteq Begins(mem)
  BY SessionAssumption DEF CodeMet
<1> HIDE DEF first, last
<1>4. \A pc \in first..last : /\ Disassemble(mem, pc).next \in Int
                              /\ pc < Disassemble(mem, pc).next
                              /\ Disassemble(mem, pc).next <= last + 4
  <2> SUFFICES ASSUME NEW pc \in first..last
               PROVE  /\ Disassemble(mem, pc).next \in Int
                      /\ pc < Disassemble(mem, pc).next
                      /\ Disassemble(mem, pc).next <= last + 4
    OBVIOUS
  <2>1. pc \in Int /\ pc <= last
    BY <1>1
  <2>2. LET n == Disassemble(mem, pc).next IN n \in Int /\ pc < n /\ n <= pc + 4
    BY <1>3, <2>1, PrintedForward
  <2> HIDE DEF first
  <2> QED  BY <1>1, <2>1, <2>2
<1>5. next \in [first..last -> Int] /\ \A pc \in first..last : pc < next[pc] /\ next[pc] <= last + 4
  BY <1>4
<1>6. \A pc \in first..last : line[pc] = Line(pc) /\ next[pc] = Disassemble(mem, pc).next
  OBVIOUS
<1> HIDE DEF line, next
<1>7. PICK f : Printing(first, last, 4, line, next, f)
  <2>1. first <= last + 1 /\ 4 \in Nat
    BY <1>1
  <2> QED  BY <1>1, <1>5, <2>1, PrintingExists
<1>8. \A g : Printing(first, last, 4, line, next, g) <=> From(g)
  <2> SUFFICES ASSUME NEW g
               PROVE  Printing(first, last, 4, line, next, g) <=> From(g)
    OBVIOUS
  <2>1. \A pc \in first..(last + 4) : ~(pc > last) => pc \in first..last
    BY <1>1
  <2>2. [pc \in first..(last + 4) |-> IF pc > last THEN Text ELSE Then(line[pc], g[next[pc]])]
        = [pc \in first..(last + 4) |-> IF pc > last THEN Text
                                       ELSE Then(Line(pc), g[Disassemble(mem, pc).next])]
    BY <1>6, <2>1
  <2> QED  BY <2>2 DEF Printing
<1>9. From(CHOOSE g : From(g))
  <2>1. From(f)
    <3> HIDE DEF From
    <3> QED  BY <1>7, <1>8
  <2> HIDE DEF From
  <2> QED  BY <2>1
<1>10. Z80Asm(first, last) = (CHOOSE g : From(g))[first]
  BY DEF Z80Asm
<1> DEFINE h == CHOOSE g : From(g)
<1> HIDE DEF h
<1>11. Printing(first, last, 4, line, next, h) /\ Z80Asm(first, last) = h[first]
  <2> HIDE DEF From
  <2> QED  BY <1>8, <1>9, <1>10 DEF h
<1> HIDE DEF From
<1>12. ASSUME NEW pc \in Q
       PROVE  \E end \in pc..last :
               /\ StandsFor(line[pc], pc, end) /\ SplitsAs(line[pc], parsed, pc, end)
               /\ \/ next[pc] = end + 1 /\ next[pc] \in Q
                  \/ end = last /\ last < next[pc]
  <2> DEFINE n == Instr(mem, pc).next
             d == Disassemble(mem, pc)
  <2>1. /\ pc < n /\ n <= last + 1 /\ (n <= last => n \in parsed) /\ pc \in parsed
        /\ \A b \in parsed : b <= pc \/ n <= b
    BY <1>2
  <2>2. pc \in Int /\ first <= pc /\ pc <= last /\ pc \in first..last
    BY <1>1
  <2>3. d.printed /\ n \in Int
    BY <1>3, <2>1, Instructions DEF HaveMnemonics
  <2>4. d.next = n
    BY <1>3, <2>2, <2>3, DecodersAgree
  <2>5. /\ Line(pc).bytes = Range1(pc, n - 1) /\ Line(pc).starts = {pc}
        /\ Line(pc).rubbish = {}
    BY <2>3, <2>4 DEF Line
  <2>6. line[pc] = Line(pc) /\ next[pc] = n
    BY <1>6, <2>2, <2>4
  <2> HIDE DEF n, d
  <2>7. n - 1 \in pc..last /\ n = (n - 1) + 1
    BY <1>1, <2>1, <2>2, <2>3
  <2>8. {pc} = parsed \intersect (pc..(n - 1))
    <3>1. \A b \in parsed : b \in pc..(n - 1) => b = pc
      BY <2>1, <2>2, <2>3
    <3>2. pc \in pc..(n - 1)
      BY <2>1, <2>2, <2>3
    <3> QED  BY <2>1, <3>1, <3>2
  <2>9. StandsFor(line[pc], pc, n - 1) /\ SplitsAs(line[pc], parsed, pc, n - 1)
    BY <2>5, <2>6, <2>8 DEF StandsFor, SplitsAs
  <2>10. CASE n <= last
    <3>1. n \in Q
      BY <1>1, <2>1, <2>2, <2>3, <2>10
    <3> QED  BY <2>6, <2>7, <2>9, <3>1
  <2>11. CASE ~(n <= last)
    <3>1. n - 1 = last /\ last < n
      BY <1>1, <2>1, <2>3, <2>11
    <3> QED  BY <2>6, <2>7, <2>9, <3>1
  <2> QED  BY <2>10, <2>11
<1>13. \A pc \in Q : StandsFor(h[pc], pc, last) /\ SplitsAs(h[pc], parsed, pc, last)
  <2>1. Q \in SUBSET (first..last) /\ first <= last + 1 /\ 4 \in Nat
    BY <1>1
  <2>2. Lined(line, next, parsed, Q, last)
    BY <1>12 DEF Lined
  <2> HIDE DEF Q
  <2> QED  BY <1>1, <1>5, <1>11, <2>1, <2>2, LinesStand
<1>14. first \in Q
  BY <1>1, <1>2
<1> QED  BY <1>11, <1>13, <1>14 DEF first, last

----------------------------------------------------------------------------
(* The source of data *)

\* The remarks behind lines that end a row of bytes.
Stops(end, pc) == {o \in pc..(pc + 7) : o <= end /\ o \in DOMAIN remarks /\ remarks[o] = ">"}

Stopped(end, pc) == CHOOSE x \in Stops(end, pc) : \A y \in Stops(end, pc) : x <= y

RowEnd(end, pc) == IF pc + 7 < end THEN pc + 7 ELSE end

\* A remark breaks the row in front of o, and no label begins a new line.
Broken(first, o) ==
    \E r \in (first + 1)..o : r \in DOMAIN remarks /\ remarks[r] = "<" /\ Labelled(r..o) = {}

Row(first, last) ==
    [Text EXCEPT !.bytes = Range1(first, last), !.sets = Labelled(first..last),
                 !.rubbish = {o \in first..last : Broken(first, o)}]

DefbFrom(start, end, f) ==
    f = [pc \in start..(end + 9) |->
            IF pc > end THEN Text
            ELSE IF Stops(end, pc) # {}
                 THEN LET o == Stopped(end, pc) IN Then(Row(pc, o), f[o + 1 + (o - pc)])
                 ELSE Then(Row(pc, RowEnd(end, pc)), f[pc + 8])]

LEMMA StopIsFound ==
    ASSUME NEW pc \in Nat, NEW end, Stops(end, pc) # {}
    PROVE  Stopped(end, pc) \in pc..(pc + 7) /\ Stopped(end, pc) <= end
<1>1. Stops(end, pc) \subseteq Nat
  BY DEF Stops
<1>2. \E x \in Stops(end, pc) : \A y \in Stops(end, pc) : x <= y
  <2> DEFINE S == Stops(end, pc)
  <2> HIDE DEF S
  <2>1. S \subseteq Nat /\ S # {}
    BY <1>1 DEF S
  <2>2. \E x \in S : \A y \in S : x <= y
    BY <2>1, LeastNumber
  <2> QED  BY <2>2 DEF S
<1>3. Stopped(end, pc) \in Stops(end, pc)
  BY <1>2 DEF Stopped
<1> QED  BY <1>3 DEF Stops

LEMMA BytesPrinted ==
    ASSUME NEW start \in Nat, NEW end \in Int, start <= end,
           {a \in start..end : InBrokenRow(start, a)} \subseteq Misprints
    PROVE  /\ DefbOutput(start, end).starts = {}
           /\ (\A a \in DOMAIN remarks : remarks[a] # ">")
                  => StandsFor(DefbOutput(start, end), start, end)
<1> DEFINE line == [pc \in start..end |->
                       IF Stops(end, pc) # {} THEN Row(pc, Stopped(end, pc))
                       ELSE Row(pc, RowEnd(end, pc))]
           next == [pc \in start..end |->
                       IF Stops(end, pc) # {}
                       THEN Stopped(end, pc) + 1 + (Stopped(end, pc) - pc)
                       ELSE pc + 8]
<1>1. start \in Int /\ start <= end + 1 /\ 9 \in Nat /\ start \in start..(end + 9)
      /\ start \in start..end
  OBVIOUS
<1>2. ASSUME NEW pc \in start..end
      PROVE  next[pc] \in Int /\ pc < next[pc] /\ next[pc] <= end + 9
  <2>1. pc \in Nat /\ pc <= end
    OBVIOUS
  <2>2. CASE Stops(end, pc) # {}
    <3> DEFINE o == Stopped(end, pc)
    <3>1. o \in pc..(pc + 7) /\ o <= end
      BY <2>1, <2>2, StopIsFound
    <3>2. next[pc] = o + 1 + (o - pc)
      BY <2>2
    <3> HIDE DEF o, next
    <3> QED  BY <2>1, <3>1, <3>2
  <2>3. CASE Stops(end, pc) = {}
    <3>1. next[pc] = pc + 8
      BY <2>3
    <3> QED  BY <2>1, <3>1
  <2> QED  BY <2>2, <2>3
<1>3. next \in [start..end -> Int]
  BY <1>2
<1>4. \A pc \in start..end :
          /\ Stops(end, pc) # {} => /\ line[pc] = Row(pc, Stopped(end, pc))
                                    /\ next[pc] = Stopped(end, pc) + 1 + (Stopped(end, pc) - pc)
          /\ Stops(end, pc) = {} => line[pc] = Row(pc, RowEnd(end, pc)) /\ next[pc] = pc + 8
  OBVIOUS
<1>5. NoStarts(line, start..end)
  BY DEF Row, Text, NoStarts
<1> HIDE DEF line, next
<1>6. PICK f : Printing(start, end, 9, line, next, f)
  BY <1>1, <1>2, <1>3, PrintingExists
<1>7. \A g : Printing(start, end, 9, line, next, g) <=> DefbFrom(start, end, g)
  <2> SUFFICES ASSUME NEW g
               PROVE  Printing(start, end, 9, line, next, g) <=> DefbFrom(start, end, g)
    OBVIOUS
  <2> DEFINE Left(pc) == IF pc > end THEN Text ELSE Then(line[pc], g[next[pc]])
             Right(pc) == IF pc > end THEN Text
                          ELSE IF Stops(end, pc) # {}
                               THEN LET o == Stopped(end, pc) IN
                                    Then(Row(pc, o), g[o + 1 + (o - pc)])
                               ELSE Then(Row(pc, RowEnd(end, pc)), g[pc + 8])
  <2>1. ASSUME NEW pc \in start..(end + 9) PROVE Left(pc) = Right(pc)
    <3>1. CASE pc > end
      BY <3>1
    <3>2. CASE ~(pc > end)
      <4>1. pc \in start..end
        BY <3>2
      <4> QED  BY <1>4, <3>2, <4>1
    <3> QED  BY <3>1, <3>2
  <2>2. [pc \in start..(end + 9) |-> Left(pc)] = [pc \in start..(end + 9) |-> Right(pc)]
    <3> HIDE DEF Left, Right
    <3> QED  BY <2>1
  <2> QED  BY <2>2 DEF Printing, DefbFrom
<1>8. DefbFrom(start, end, CHOOSE g : DefbFrom(start, end, g))
  BY <1>6, <1>7
<1>9. DefbOutput(start, end) = (CHOOSE g : DefbFrom(start, end, g))[start]
  BY DEF DefbOutput, DefbFrom, Stops, Stopped, Broken, Row, RowEnd
<1> DEFINE h == CHOOSE g : DefbFrom(start, end, g)
<1> HIDE DEF h
<1>10. Printing(start, end, 9, line, next, h) /\ DefbOutput(start, end) = h[start]
  BY <1>7, <1>8, <1>9 DEF h
<1>11. DefbOutput(start, end).starts = {}
  <2>1. NoStarts(h, start..(end + 9))
    <3>1. \A pc \in start..end : pc < next[pc] /\ next[pc] <= end + 9
      BY <1>2
    <3>2. start \in Int /\ end \in Int /\ start <= end + 1 /\ 9 \in Nat
      BY <1>1
    <3>3. Printing(start, end, 9, line, next, h)
      BY <1>10
    <3> QED  BY <1>3, <1>5, <3>1, <3>2, <3>3, LinesOfData
  <2> QED  BY <1>1, <1>10, <2>1 DEF NoStarts
<1>12. ASSUME \A a \in DOMAIN remarks : remarks[a] # ">"
       PROVE  StandsFor(DefbOutput(start, end), start, end)
  <2>1. ASSUME NEW pc \in start..end
        PROVE  \E last \in pc..end :
                  /\ StandsFor(line[pc], pc, last) /\ SplitsAs(line[pc], {}, pc, last)
                  /\ \/ next[pc] = last + 1 /\ next[pc] \in start..end
                     \/ last = end /\ end < next[pc]
    <3>1. Stops(end, pc) = {}
      BY <1>12 DEF Stops
    <3>2. line[pc] = Row(pc, RowEnd(end, pc)) /\ next[pc] = pc + 8
      BY <1>4, <3>1
    <3>3. ASSUME NEW last \in pc..end, last <= pc + 7
          PROVE  StandsFor(Row(pc, last), pc, last) /\ SplitsAs(Row(pc, last), {}, pc, last)
      <4>1. \A o \in pc..last : Broken(pc, o) => InBrokenRow(start, o)
        <5> SUFFICES ASSUME NEW o \in pc..last, NEW r \in (pc + 1)..o,
                            r \in DOMAIN remarks, remarks[r] = "<", Labelled(r..o) = {}
                     PROVE  InBrokenRow(start, o)
          BY DEF Broken
        <5>1. r \in (start + 1)..o /\ o - r < 7
          BY <3>3
        <5> QED  BY <5>1 DEF InBrokenRow
      <4>2. pc..last \subseteq start..end
        OBVIOUS
      <4>3. {o \in pc..last : Broken(pc, o)} \subseteq Misprints
        BY <4>1, <4>2
      <4> QED  BY <4>3 DEF Row, Text, StandsFor, SplitsAs
    <3>4. CASE pc + 7 < end
      <4>1. RowEnd(end, pc) = pc + 7
        BY <3>4 DEF RowEnd
      <4>2. /\ pc + 7 \in pc..end /\ pc + 8 = (pc + 7) + 1 /\ pc + 8 \in start..end
            /\ pc + 7 <= pc + 7
        BY <3>4
      <4> QED  BY <3>2, <3>3, <4>1, <4>2
    <3>5. CASE ~(pc + 7 < end)
      <4>1. RowEnd(end, pc) = end
        BY <3>5 DEF RowEnd
      <4>2. end \in pc..end /\ end < pc + 8 /\ end <= pc + 7
        BY <3>5
      <4> QED  BY <3>2, <3>3, <4>1, <4>2
    <3> QED  BY <3>4, <3>5
  <2>2. Lined(line, next, {}, start..end, end)
    BY <2>1 DEF Lined
  <2>3. start..end \in SUBSET (start..end)
    OBVIOUS
  <2>4. \A pc \in start..end : StandsFor(h[pc], pc, end) /\ SplitsAs(h[pc], {}, pc, end)
    BY <1>1, <1>2, <1>3, <1>10, <2>2, <2>3, LinesStand
  <2> QED  BY <1>1, <1>10, <2>4
<1> QED  BY <1>11, <1>12

\* An even number of bytes is words.
LEMMA WordsPrinted ==
    ASSUME NEW start \in Code, NEW end \in Code, start <= end, (end - start) % 2 = 1
    PROVE  StandsFor(DefwOutput(start, end), start, end) /\ DefwOutput(start, end).starts = {}
<1> DEFINE lines == {start + 2 * k : k \in {n \in 0..Codesize : start + 2 * n < end}}
<1>1. /\ start \in Int /\ end \in Int /\ Codesize \in Nat /\ end < start + Codesize
  <2>1. Codesize \in Nat /\ Org \in Nat
    BY SessionAssumption
  <2> QED  BY <2>1 DEF Code, gEndOfCode
<1>2. PICK q \in Nat : end - start = 2 * q + 1
  <2>1. end - start \in Nat
    BY <1>1
  <2>2. \A d \in Nat : d % 2 = 1 => \E q \in Nat : d = 2 * q + 1
    <3> SUFFICES ASSUME NEW d \in Nat, d % 2 = 1 PROVE \E q \in Nat : d = 2 * q + 1
      OBVIOUS
    <3>1. d = 2 * (d \div 2) + 1 /\ d \div 2 \in Nat
      OBVIOUS
    <3> QED  BY <3>1
  <2> QED  BY <2>1, <2>2
<1>3. Cardinality(lines) = q + 1
  <2> DEFINE f == [k \in 0..q |-> start + 2 * k]
  <2>1. {n \in 0..Codesize : start + 2 * n < end} = 0..q
    <3>1. \A n \in Int : start + 2 * n < end <=> n <= q
      BY <1>1, <1>2
    <3>2. q <= Codesize
      BY <1>1, <1>2
    <3> QED  BY <1>1, <3>1, <3>2
  <2>2. lines = {start + 2 * k : k \in 0..q}
    BY <2>1
  <2>3. f \in [0..q -> lines]
    BY <2>2
  <2>4. \A x, y \in 0..q : f[x] = f[y] => x = y
    BY <1>1
  <2>5. \A t \in lines : \E s \in 0..q : f[s] = t
    BY <2>2
  <2> HIDE DEF lines, f
  <2>6. f \in Bijection(0..q, lines)
    BY <2>3, <2>4, <2>5 DEF Bijection, Injection, Surjection, IsInjective
  <2>7. ExistsBijection(0..q, lines)
    BY <2>6 DEF ExistsBijection
  <2>8. IsFiniteSet(0..q) /\ Cardinality(0..q) = q + 1
    <3>1. IsFiniteSet(0..q) /\ Cardinality(0..q) = IF 0 > q THEN 0 ELSE q - 0 + 1
      BY FS_Interval
    <3> QED  BY <3>1
  <2> QED  BY <2>7, <2>8, FS_Bijection
<1>4. start + 2 * (q + 1) - 1 = end
  BY <1>1, <1>2
<1>5. /\ DefwOutput(start, end).bytes = Range1(start, start + 2 * Cardinality(lines) - 1)
      /\ DefwOutput(start, end).rubbish = {} /\ DefwOutput(start, end).starts = {}
  BY DEF DefwOutput, Text
<1> HIDE DEF lines
<1> QED  BY <1>3, <1>4, <1>5 DEF StandsFor

\* A string is printed wrong where it begins with a quotation mark, and nowhere else.
LEMMA StringPrinted ==
    ASSUME NEW start \in Int, NEW end \in Int,
           {a \in start..end : InQuotedString(start, a)} \subseteq Misprints
    PROVE  StandsFor(DefmOutput(start, end), start, end) /\ DefmOutput(start, end).starts = {}
<1> DEFINE t == DefmOutput(start, end)
<1>1. t.bytes = Range1(start, end) /\ t.starts = {}
  BY DEF DefmOutput, Text
<1>2. ASSUME NEW a \in t.rubbish PROVE a \in start..end /\ InQuotedString(start, a)
  <2>1. PICK q \in start..a :
             /\ a \in start..end /\ GetByte(mem, q) = Quote
             /\ q = start \/ q \in DOMAIN labels \/ GetByte(mem, q - 1) = 0
             /\ \A x \in (q + 1)..a : x \notin DOMAIN labels /\ GetByte(mem, x - 1) # 0
    BY <1>2 DEF DefmOutput, Text
  <2>2. Labelled((q + 1)..a) = {}
    BY <2>1 DEF Labelled
  <2>3. ASSUME NEW x \in q..(a - 1) PROVE GetByte(mem, x) # 0
    <3>1. x + 1 \in (q + 1)..a /\ (x + 1) - 1 = x
      BY <2>1
    <3> QED  BY <2>1, <3>1
  <2> QED  BY <2>1, <2>2, <2>3 DEF InQuotedString
<1>3. t.rubbish \subseteq Misprints
  BY <1>2
<1> QED  BY <1>1, <1>3 DEF StandsFor

\* What is printed for an area of data has no instructions.
LEMMA DataPrinted ==
    ASSUME SettledInv, EvenTables(areas), NEW i \in 1..Len(areas), areas[i].type # "program"
    PROVE  LET t == AreaSource(areas[i]) IN
           /\ t.starts = {}
           /\ (\A a \in DOMAIN remarks : remarks[a] # ">")
                  => StandsFor(t, areas[i].start, areas[i].end)
<1> DEFINE a == areas[i]
           t == AreaSource(a)
<1>1. Settled(mem, areas)
  BY DEF SettledInv
<1>2. /\ a.start \in Code /\ a.end \in Code /\ a.start <= a.end /\ a.type \in Types
      /\ a.start \in Nat /\ a.end \in Int
  <2>1. /\ a.start \in Code /\ a.end \in Code /\ a.start <= a.end /\ a.type \in Types
        /\ a.end \in Int
    BY <1>1, AreaHolds
  <2>2. Code = Org..gEndOfCode /\ Org \in Nat /\ gEndOfCode \in Int
    BY CodeLimits DEF Limits
  <2> HIDE DEF a
  <2> QED  BY <2>1, <2>2
<1>3. a.type \in Tables => (a.end - a.start) % 2 = 1
  BY DEF EvenTables
<1>4. a.type # "program"
  OBVIOUS
<1>10. i \in DOMAIN areas /\ areas[i].start..areas[i].end \subseteq Code
  <2>1. areas \in Seq(Areas)
    BY <1>1 DEF Settled
  <2>2. Code = Org..gEndOfCode /\ Org \in Int /\ gEndOfCode \in Int
    BY CodeLimits DEF Limits
  <2> DEFINE b == areas[i].start
             c == areas[i].end
  <2>3. b \in Code /\ c \in Code
    BY <1>2
  <2> HIDE DEF a, b, c
  <2>4. b..c \subseteq Code
    BY <2>2, <2>3
  <2> QED  BY <2>1, <2>4 DEF b, c
<1> HIDE DEF a
<1>5. CASE a.type = "vacuum"
  <2>1. t = VoidOutput(a.start, a.end)
    BY <1>5 DEF AreaSource
  <2> QED  BY <2>1 DEF VoidOutput, Text, StandsFor, a
<1>6. CASE a.type = "defb"
  <2>1. t = DefbOutput(a.start, a.end)
    BY <1>6 DEF AreaSource
  <2>2. {x \in a.start..a.end : InBrokenRow(a.start, x)} \subseteq Misprints
    BY <1>6, <1>10 DEF Misprints, a
  <2> QED  BY <1>2, <2>1, <2>2, BytesPrinted DEF a
<1>7. CASE a.type = "defs"
  <2>1. t = DefStorageOutput(a.start, a.end)
    BY <1>7 DEF AreaSource
  <2> QED  BY <2>1 DEF DefStorageOutput, Text, StandsFor, a
<1>8. CASE a.type \in Tables
  <2>1. t = DefwOutput(a.start, a.end)
    BY <1>8 DEF AreaSource, Tables
  <2> QED  BY <1>2, <1>3, <1>8, <2>1, WordsPrinted DEF a
<1>9. CASE a.type = "string"
  <2>1. t = DefmOutput(a.start, a.end)
    BY <1>9 DEF AreaSource
  <2>2. {x \in a.start..a.end : InQuotedString(a.start, x)} \subseteq Misprints
    BY <1>9, <1>10 DEF Misprints, a
  <2>3. t.starts = {} /\ StandsFor(t, a.start, a.end)
    BY <1>2, <2>1, <2>2, StringPrinted
  <2> QED  BY <2>3 DEF a
<1> QED  BY <1>2, <1>4, <1>5, <1>6, <1>7, <1>8, <1>9 DEF Types, Tables

\* What is printed for any area.
LEMMA AreaPrinted ==
    ASSUME Tidy, HaveMnemonics, mem \in Images, SettledInv, EvenTables(areas),
           CodeMet(mem, areas, parsed, {}),
           NEW i \in 1..Len(areas)
    PROVE  LET t == AreaSource(areas[i]) IN
           /\ SplitsAs(t, parsed, areas[i].start, areas[i].end)
           /\ (\A a \in DOMAIN remarks : remarks[a] # ">")
                  => StandsFor(t, areas[i].start, areas[i].end)
<1> DEFINE a == areas[i]
           t == AreaSource(a)
<1>1. Settled(mem, areas)
  BY DEF SettledInv
<1>2. CASE a.type = "program"
  <2>1. t = Z80Asm(a.start, a.end)
    BY <1>2 DEF AreaSource
  <2>2. LET first == a.start
            last == a.end
            u == Z80Asm(first, last)
        IN  StandsFor(u, first, last) /\ SplitsAs(u, parsed, first, last)
    BY <1>1, <1>2, CodePrinted
  <2> QED  BY <2>1, <2>2
<1>3. CASE a.type # "program"
  <2>1. t.starts = {} /\ ((\A x \in DOMAIN remarks : remarks[x] # ">")
                              => StandsFor(t, a.start, a.end))
    BY <1>3, DataPrinted
  <2>2. ASSUME NEW b \in parsed, b \in a.start..a.end PROVE FALSE
    <3>1. SearchArea(areas, b) = a.type
      BY <1>1, <2>2, AreaHolds
    <3>2. b \in Begins(mem) /\ b \in Int /\ Instr(mem, b).next \in Int /\ b < Instr(mem, b).next
      BY Instructions DEF CodeMet
    <3>3. b \in b..(Instr(mem, b).next - 1)
      BY <3>2
    <3>4. SearchArea(areas, b) = "program"
      BY <3>3 DEF CodeMet
    <3> QED  BY <1>3, <3>1, <3>4
  <2>3. parsed \intersect (a.start..a.end) = {}
    BY <2>2
  <2> QED  BY <2>1, <2>3 DEF SplitsAs
<1> QED  BY <1>2, <1>3

----------------------------------------------------------------------------
(* The source of all areas *)

\* u says what has been printed when an area is done.
SourceUpto(n, u) ==
    u = [k \in 0..n |-> IF k = 0 THEN Text ELSE Then(u[k - 1], AreaSource(areas[k]))]

LEMMA SourceExists ==
    ASSUME Len(areas) \in Nat
    PROVE  \E u : SourceUpto(Len(areas), u) /\ Source = u[Len(areas)]
<1> DEFINE n == Len(areas)
           T == {k \in 0..n : \E u : SourceUpto(k, u)}
<1>1. n \in Nat
  OBVIOUS
<1> HIDE DEF n
<1>2. 0 \in T
  <2> DEFINE u == [k \in 0..0 |-> Text]
  <2>1. SourceUpto(0, u)
    <3>1. \A k \in 0..0 : k = 0
      OBVIOUS
    <3>2. u = [k \in 0..0 |-> IF k = 0 THEN Text ELSE Then(u[k - 1], AreaSource(areas[k]))]
      BY <3>1
    <3> QED  BY <3>2 DEF SourceUpto
  <2>2. \E v : SourceUpto(0, v)
    <3> HIDE DEF u
    <3> QED  BY <2>1
  <2> QED  BY <1>1, <2>2
<1>3. ASSUME NEW k \in 1..n, k - 1 \in T PROVE k \in T
  <2>1. PICK u : SourceUpto(k - 1, u)
    BY <1>3
  <2> DEFINE a == AreaSource(areas[k])
             v == [i \in 0..k |-> IF i = k THEN Then(u[k - 1], a) ELSE u[i]]
             Turn1(i) == IF i = 0 THEN Text ELSE Then(v[i - 1], AreaSource(areas[i]))
  <2>2. k \in Int /\ 0 < k /\ k \in 0..n
    BY <1>1
  <2>3. \A i \in 0..(k - 1) : v[i] = u[i]
    BY <2>2
  <2>4. v[k] = Then(u[k - 1], a) /\ v = [i \in 0..k |-> v[i]]
    BY <2>2
  <2> HIDE DEF v
  <2>5. ASSUME NEW i \in 0..k PROVE v[i] = Turn1(i)
    <3>1. CASE i = k
      <4>1. k - 1 \in 0..(k - 1) /\ k # 0
        BY <2>2
      <4>2. v[k - 1] = u[k - 1]
        BY <2>3, <4>1
      <4>3. Turn1(k) = Then(v[k - 1], a)
        BY <4>1
      <4> QED  BY <2>4, <3>1, <4>2, <4>3
    <3>2. CASE i = 0
      <4>1. 0 \in 0..(k - 1)
        BY <2>2
      <4>2. u[0] = Text
        BY <2>1, <4>1 DEF SourceUpto
      <4> QED  BY <2>3, <3>2, <4>1, <4>2
    <3>3. CASE i # k /\ i # 0
      <4>1. i \in 0..(k - 1) /\ i - 1 \in 0..(k - 1)
        BY <2>2, <3>3
      <4>2. u[i] = Then(u[i - 1], AreaSource(areas[i]))
        BY <2>1, <3>3, <4>1 DEF SourceUpto
      <4>3. v[i] = u[i] /\ v[i - 1] = u[i - 1]
        BY <2>3, <4>1
      <4> QED  BY <3>3, <4>2, <4>3
    <3> QED  BY <3>1, <3>2, <3>3
  <2>6. v = [i \in 0..k |-> Turn1(i)]
    <3> HIDE DEF Turn1
    <3> QED  BY <2>4, <2>5
  <2>7. SourceUpto(k, v)
    BY <2>6 DEF SourceUpto
  <2> QED  BY <2>2, <2>7
<1>4. 0..n \subseteq T
  <2> HIDE DEF T
  <2> QED  BY <1>1, <1>2, <1>3, Upwards
<1>5. n \in T
  <2>1. n \in 0..n
    BY <1>1
  <2> HIDE DEF T
  <2> QED  BY <1>4, <2>1
<1>6. SourceUpto(n, CHOOSE u : SourceUpto(n, u))
  BY <1>5
<1>7. Source = (CHOOSE u : SourceUpto(n, u))[n]
  BY DEF Source, SourceUpto, n
<1> QED  BY <1>6, <1>7 DEF n

\* Nobody asked for a remark behind a line.
NoBehind == \A a \in DOMAIN remarks : remarks[a] # ">"

LEMMA SourcePrinted ==
    ASSUME Tidy, HaveMnemonics, mem \in Images, SettledInv, EvenTables(areas),
           CodeMet(mem, areas, parsed, {})
    PROVE  /\ SplitsAs(Source, parsed, Org, gEndOfCode)
           /\ NoBehind => StandsFor(Source, Org, gEndOfCode)
<1>1. /\ areas \in Seq(Areas) /\ Partition(areas, Org, gEndOfCode) /\ Settled(mem, areas)
  BY DEF SettledInv, Settled
<1>2. /\ Len(areas) \in Nat \ {0}
      /\ areas[1].start = Org /\ areas[Len(areas)].end = gEndOfCode
      /\ \A k \in 2..Len(areas) : areas[k].start = areas[k - 1].end + 1
  BY <1>1, InOrder2
<1>3. PICK u : SourceUpto(Len(areas), u) /\ Source = u[Len(areas)]
  <2>1. Len(areas) \in Nat
    BY <1>2
  <2> QED  BY <2>1, SourceExists
<1> DEFINE n == Len(areas)
           end(k) == IF k = 0 THEN Org - 1 ELSE areas[k].end
           Good(k) == /\ SplitsAs(u[k], parsed, Org, end(k))
                      /\ NoBehind => StandsFor(u[k], Org, end(k))
           T == {k \in 0..n : Org <= end(k) + 1 /\ Good(k)}
<1>4. Org \in Int
  BY CodeLimits DEF Limits
<1>5. 0 \in T
  <2>1. u[0] = Text
    BY <1>2, <1>3 DEF SourceUpto
  <2>2. Org - 1 \in Int /\ Org - 1 < Org /\ Org <= (Org - 1) + 1
    BY <1>4
  <2>3. StandsFor(Text, Org, Org - 1) /\ SplitsAs(Text, parsed, Org, Org - 1)
    BY <1>4, <2>2, NothingPrinted
  <2>4. 0 \in 0..n /\ end(0) = Org - 1
    BY <1>2
  <2> HIDE DEF end
  <2> QED  BY <2>1, <2>2, <2>3, <2>4
<1>6. ASSUME NEW k \in 1..n, k - 1 \in T PROVE k \in T
  <2> DEFINE t == AreaSource(areas[k])
             b == end(k - 1)
  <2>1. k \in 1..Len(areas) /\ k \in 0..n /\ k # 0 /\ k - 1 \in 0..n
    BY <1>2
  <2>2. /\ areas[k].start \in Int /\ areas[k].end \in Int /\ areas[k].start <= areas[k].end
    BY <1>1, <2>1, AreaHolds
  <2>3. b \in Int /\ areas[k].start = b + 1
    <3>1. CASE k = 1
      <4>1. b = Org - 1 /\ areas[k].start = Org
        BY <1>2, <3>1
      <4> QED  BY <1>4, <4>1
    <3>2. CASE k # 1
      <4>1. k \in 2..Len(areas) /\ k - 1 \in 1..Len(areas) /\ k - 1 # 0
        BY <2>1, <3>2
      <4>2. b = areas[k - 1].end
        BY <4>1
      <4>3. areas[k - 1].end \in Int
        BY <1>1, <4>1, AreaHolds
      <4>4. areas[k].start = areas[k - 1].end + 1
        BY <1>2, <4>1
      <4> QED  BY <4>2, <4>3, <4>4
    <3> QED  BY <3>1, <3>2
  <2>4. /\ SplitsAs(t, parsed, areas[k].start, areas[k].end)
        /\ NoBehind => StandsFor(t, areas[k].start, areas[k].end)
    BY <2>1, AreaPrinted DEF NoBehind
  <2>5. u[k] = Then(u[k - 1], t)
    BY <1>3, <2>1 DEF SourceUpto
  <2>6. end(k) = areas[k].end /\ Org <= b + 1 /\ Good(k - 1)
    BY <1>6, <2>1
  <2> DEFINE c == areas[k].end
  <2>7. b \in Int /\ c \in Int /\ Org <= b + 1 /\ b <= c /\ areas[k].start = b + 1
    <3>1. c \in Int /\ b + 1 <= c
      BY <2>2, <2>3
    <3> HIDE DEF b, c
    <3> QED  BY <2>3, <2>6, <3>1
  <2>8. SplitsAs(u[k - 1], parsed, Org, b) /\ (NoBehind => StandsFor(u[k - 1], Org, b))
    BY <2>6
  <2> HIDE DEF t, b, c, end
  <2>9. SplitsAs(u[k], parsed, Org, c)
    <3>1. SplitsAs(t, parsed, b + 1, c)
      BY <2>4, <2>7 DEF c
    <3> QED  BY <1>4, <2>5, <2>7, <2>8, <3>1, SplitTogether
  <2>10. ASSUME NoBehind PROVE StandsFor(u[k], Org, c)
    <3>1. StandsFor(t, b + 1, c)
      BY <2>4, <2>7, <2>10 DEF c
    <3> QED  BY <1>4, <2>5, <2>7, <2>8, <2>10, <3>1, StandTogether
  <2>11. end(k) = c /\ Org <= c + 1
    <3>1. end(k) = c
      BY <2>6 DEF c
    <3> QED  BY <1>4, <2>7, <3>1
  <2> QED  BY <2>1, <2>9, <2>10, <2>11
<1>7. n \in T
  <2>1. n \in Nat /\ n \in 0..n
    BY <1>2
  <2> HIDE DEF T, n
  <2> QED  BY <1>5, <1>6, <2>1, Upwards
<1>8. end(n) = gEndOfCode /\ u[n] = Source
  BY <1>2, <1>3
<1> HIDE DEF end
<1> QED  BY <1>7, <1>8

\* Remarks are asked for in front of a line only.
InFront == Positions \subseteq {"<"}

LEMMA PromptPrints ==
    ASSUME Tidy, HaveMnemonics, TraceInv, SettledInv, MetInv
    PROVE  /\ PassesAgree
           /\ InFront => SourceComplete
<1>1. ASSUME AtPrompt
      PROVE  /\ Source.starts = parsed
             /\ InFront => /\ Source.bytes = Range1(Org, gEndOfCode)
                           /\ Source.rubbish \subseteq Misprints
  <2>1. job = Idle /\ job # Down /\ job.pc = "idle"
    BY <1>1, NotInJob DEF AtPrompt
  <2>2. InRun = {}
    BY <2>1 DEF InRun
  <2>3. CodeMet(mem, areas, parsed, {}) /\ EvenTables(areas) /\ Noted(remarks)
    BY <2>1, <2>2 DEF MetInv
  <2>4. SplitsAs(Source, parsed, Org, gEndOfCode)
        /\ (NoBehind => StandsFor(Source, Org, gEndOfCode))
    BY <2>3, SourcePrinted DEF TraceInv
  <2>5. parsed \intersect (Org..gEndOfCode) = parsed
    BY CodeLimits DEF SettledInv, Limits
  <2>6. InFront => NoBehind
    BY <2>3 DEF InFront, NoBehind, Noted
  <2> QED  BY <2>4, <2>5, <2>6 DEF SplitsAs, StandsFor
<1> QED  BY <1>1 DEF PassesAgree, SourceComplete

\* In every session of a tidy user, pass 2 splits the areas that are code into the
\* instructions that pass 1 met.
THEOREM PassesSplitAlike ==
    ASSUME Tidy, HaveMnemonics, NoCodeDefined
    PROVE  Spec => []PassesAgree
<1>1. TraceInv /\ SettledInv /\ MetInv => PassesAgree
  BY PromptPrints
<1> QED  BY <1>1, TraceInvariant, SettledInvariant, MetInvariant, PTL

\* In every session of a tidy user without remarks behind lines, the source has a place
\* for every byte of the code, in order and once, and what DZpass2 prints there can be
\* assembled but for Misprints: rows of bytes that DefbOutput breaks at a remark, and
\* strings that DefmOutput begins with a quotation mark.
THEOREM SourceIsComplete ==
    ASSUME Tidy, HaveMnemonics, NoCodeDefined, InFront
    PROVE  Spec => []SourceComplete
<1>1. TraceInv /\ SettledInv /\ MetInv => SourceComplete
  BY PromptPrints
<1> QED  BY <1>1, TraceInvariant, SettledInvariant, MetInvariant, PTL
============================================================================
