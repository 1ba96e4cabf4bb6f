------------------------------ MODULE Dzasm ------------------------------
(***************************************************************************)
(* A session of DZasm: the user types commands, pass 1 follows the program  *)
(* from the addresses they give, an instruction at a time, and the collect  *)
(* file keeps the work between sessions.                                    *)
(*                                                                          *)
(* parsed is a history variable: the addresses of the instructions pass 1   *)
(* has met for this work; the collect file remembers it.  No action reads   *)
(* it otherwise.                                                            *)
(***************************************************************************)
EXTENDS Z80Code, AreaList, Functions

CONSTANTS
    Org,         \* origin of the code
    Codesize,    \* bytes of the code file
    Images,      \* code files
    Commands,    \* the commands the user knows
    Known,       \* addresses the user knows something about
    Names,       \* label names he gives
    Texts,       \* expressions and names of constants
    Positions,   \* of remarks: "<" before, ">" behind the line
    DataTypes,   \* types he defines memory as
    Tidy,        \* does he know where the code is: see UserRange and UserEntry
    Begins(_),   \* code file -> addresses of its instructions
    Budget,      \* commands he gives
    NoName

gEndOfCode == Org + Codesize - 1
Code == Org..gEndOfCode

CommandNames == {"pp", "pl", "ppt", "pv", "dm", "dl", "dx", "de", "dc", "rem", "cc", "rc", "q"}

ASSUME SessionAssumption ==
    /\ Org \in Nat /\ Codesize \in Nat \ {0} /\ Org + Codesize <= MAXCODESIZE
    /\ Images \subseteq [Code -> Byte]
    /\ Commands \subseteq CommandNames
    /\ Known \subseteq Code /\ NoName \notin Names /\ Positions \subseteq {"<", ">"}
    /\ DataTypes \subseteq {"program", "defw", "defb", "string", "defs"}
    /\ Tidy \in BOOLEAN /\ Budget \in Nat

VARIABLES
    mem,        \* the code file
    areas,      \* gAreas
    labels,     \* gLabelRef: address -> label
    includes,   \* gIncludeList: the include files that are needed
    remarks,    \* gRemarks: address -> position of the remark
    exprs,      \* gExpressions: address -> text
    consts,     \* gGlobalConstants: value -> text
    changed,    \* collectfile_changed
    file,       \* the collect file, <<>> when there is none
    stack,      \* gParseAddress
    visited,    \* VisitedAddresses
    job,        \* what the program is doing
    used,       \* commands given
    parsed      \* history: see above

work == <<areas, labels, includes, remarks, exprs, consts>>
vars == <<mem, work, changed, file, stack, visited, job, used, parsed>>

\* collectfile_available: there is a file, this session or an earlier one wrote it.
available == file # <<>>

Idle == [pc |-> "idle"]
Down == [pc |-> "down"]     \* the program has ended, or crashed
Jobs == [pc : {"entry", "pass", "parse"}, cmd : {"pp", "pl", "pv"},
         start : Code, end : Code, at : Nat,          \* a table, and where it is read
         area : Int, next : Int, found : Types \union {"notfound"}]   \* what is parsed
Pass(cmd, start, end) ==
    [pc |-> IF cmd = "pp" THEN "pass" ELSE "entry", cmd |-> cmd,
     start |-> start, end |-> end, at |-> start,
     area |-> start, next |-> start, found |-> "notfound"]

Label == [addrref : BOOLEAN, local : BOOLEAN, name : Names \union {NoName},
          xref : BOOLEAN, xdef : BOOLEAN]

\* The code is surrounded by extern areas; the one behind it is left out when
\* it would be a single byte.
Extern(a) ==
    \/ a \in 0..(Org - 1)
    \/ a \in (gEndOfCode + 1)..(MAXCODESIZE - 1) /\ gEndOfCode + 1 < MAXCODESIZE - 1

\* What a tidy user knows of a code file: its instructions are complete and do not
\* overlap, and one goes on to others, and calls others, or leaves the code.
WellCut(m) ==
    \A a \in Begins(m) :
        LET i == Instr(m, a) IN
        /\ a \in Code /\ i.next <= gEndOfCode + 1
        /\ i.ends = {} => i.next \in Begins(m) \union {gEndOfCode + 1}
        /\ \A t \in i.targets : t \in Begins(m) \/ Extern(t)
        /\ \A b \in Begins(m) : b <= a \/ i.next <= b

ASSUME TidyAssumption == Tidy => \A m \in Images : WellCut(m)

NewLabel(a, addrref) ==
    [addrref |-> addrref, local |-> ~Extern(a), name |-> NoName, xref |-> FALSE, xdef |-> FALSE]

\* StoreAddrRef and StoreDataRef: a label that is there stays what it is.
StoreRefs(table, addresses, addrref) ==
    [a \in DOMAIN table \union addresses |->
        IF a \in DOMAIN table THEN table[a] ELSE NewLabel(a, addrref)]

LocalLabel(a) == a \in DOMAIN labels /\ labels[a].local

Set(table, k, v) == [x \in DOMAIN table \union {k} |-> IF x = k THEN v ELSE table[x]]

\* A bug: new labels do not count as work.
FlagNewNot(old, new) == changed' = changed

\* A command that stores new things says so.
FlagNew(old, new) == changed' = (changed \/ DOMAIN new # DOMAIN old)

----------------------------------------------------------------------------
\* Collect file.

\* What the file has no room for: XREF declarations, XDEF of extern labels, the
\* last of the include files.  Label addresses are read as 16 bits.
Kept(table) ==
    LET addresses == {a % MAXCODESIZE : a \in DOMAIN table}
        of(b) == table[CHOOSE a \in DOMAIN table : a % MAXCODESIZE = b]
    IN  [b \in addresses |-> [of(b) EXCEPT !.xref = FALSE, !.xdef = @ /\ of(b).local]]

Collected ==
    [areas |-> areas, labels |-> Kept(labels), includes |-> includes \ {"handle"},
     remarks |-> remarks, exprs |-> exprs, consts |-> consts, parsed |-> parsed]

GenCollectFile ==
    /\ file' = Collected
    /\ changed' = FALSE

\* GetAreas: the areas are inserted one by one.
Inserted(list) ==
    LET upto[k \in 0..Len(list)] ==
            IF k = 0 THEN <<>>
            ELSE IF k = 1 THEN <<list[1]>>
            ELSE InsertArea(upto[k - 1], list[k].start, list[k].end, list[k].type)
    IN  upto[Len(list)]

\* The include list is not cleared, and the last of its files is not read.
ReadCollectFile(kept) ==
    /\ areas' = Inserted(file.areas)
    /\ labels' = file.labels
    /\ includes' = file.includes \union kept
    /\ remarks' = file.remarks
    /\ exprs' = file.exprs
    /\ consts' = file.consts
    /\ parsed' = file.parsed
    /\ changed' = FALSE

AllVoid == <<Area(Org, gEndOfCode, "vacuum")>>

\* The program starts: the origin is asked for, or it is in the collect file.
Start ==
    /\ job = Down
    /\ job' = Idle
    /\ IF available
       THEN ReadCollectFile({})
       ELSE /\ areas' = AllVoid /\ labels' = <<>> /\ includes' = {} /\ remarks' = <<>>
            /\ exprs' = <<>> /\ consts' = <<>> /\ changed' = FALSE
            /\ parsed' = {}
    /\ stack' = <<>> /\ visited' = {}
    /\ UNCHANGED <<mem, file, used>>

Init ==
    /\ mem \in Images
    /\ areas = AllVoid /\ labels = <<>> /\ includes = {} /\ remarks = <<>>
    /\ exprs = <<>> /\ consts = <<>> /\ changed = FALSE
    /\ file = <<>>
    /\ stack = <<>> /\ visited = {}
    /\ job = Idle /\ used = 0
    /\ parsed = {}

----------------------------------------------------------------------------
\* Commands.  Addresses outside of the code are refused, or used as they are: the
\* user gives addresses of the code.
Command(cmd) ==
    /\ job = Idle /\ cmd \in Commands /\ used < Budget
    /\ used' = used + 1
    /\ UNCHANGED mem

\* A user who knows the code parses at instructions, and defines ranges that lie
\* inside one area, which is no table yet, and have no instructions in them.
UserEntry(a) == Tidy => a \in Begins(mem)

UserRange(start, end) ==
    /\ start <= end
    /\ Tidy => /\ Fits(areas, start, end)
               /\ SearchArea(areas, start) \notin {"defw", "addrtable"}
               /\ \A a \in Begins(mem) :
                     (a..(Instr(mem, a).next - 1)) \intersect (start..end) = {}

\* A range gets its type, or the program crashes over it.
Define(start, end, type, otherwise) ==
    IF InsertCrashes(areas, start, end)
    THEN job' = Down /\ UNCHANGED <<areas, changed>>
    ELSE job' = otherwise /\ areas' = InsertArea(areas, start, end, type) /\ changed' = TRUE

\* Tables are defined from their first to their last byte, in full lines of DEFW.
UserTable(start, end, size) ==
    UserRange(start, end) /\ (Tidy => (end - start + 1) % size = 0 /\ (end - start) % 2 = 1)

\* A table that is parsed holds addresses of instructions, or of other code.
UserPointers(start, end) ==
    Tidy => \A k \in 0..Codesize : start + 2 * k < end =>
                \/ Word(mem, start + 2 * k) \in Begins(mem)
                \/ Extern(Word(mem, start + 2 * k))

\* What goes on with JP behind a JP of a vector table is its next entry.
UserVectors(a) ==
    Tidy => \A k \in 0..Codesize :
                (\A n \in 0..k : GetByte(mem, a + 3 * n) = 195) => a + 3 * k \in Begins(mem)

\* ParseDZ: DZpass1 forgets what has been visited, this address too.
ParseDZ(a) ==
    /\ Command("pp") /\ UserEntry(a)
    /\ stack' = <<a>> /\ visited' = {}
    /\ labels' = StoreRefs(labels, {a}, TRUE)
    /\ FlagNew(labels, labels')
    /\ job' = Pass("pp", a, a)
    /\ UNCHANGED <<areas, includes, remarks, exprs, consts, file, parsed>>

\* A table of subroutines, and a table of JP instructions: see NextEntry.
ParseLookupTable(start, end) ==
    /\ Command("pl") /\ UserTable(start, end, 2) /\ UserPointers(start, end)
    /\ labels' = StoreRefs(labels, {start}, FALSE)
    /\ FlagNew(labels, labels')
    /\ job' = Pass("pl", start, end)
    /\ UNCHANGED <<areas, includes, remarks, exprs, consts, file, stack, visited, parsed>>

ParseVectorTable(a) ==
    /\ Command("pv") /\ UserEntry(a) /\ UserVectors(a)
    /\ labels' = StoreRefs(labels, {a}, TRUE)
    /\ FlagNew(labels, labels')
    /\ job' = Pass("pv", a, gEndOfCode)
    /\ UNCHANGED <<areas, includes, remarks, exprs, consts, file, stack, visited, parsed>>

\* Pointers of three bytes; the bank is skipped.
ParsePointerTable(start, end) ==
    LET pointers == {Word(mem, start + 3 * k) : k \in {n \in 0..Codesize : start + 3 * n < end}}
    IN
    /\ Command("ppt") /\ UserTable(start, end, 3)
    /\ labels' = StoreRefs(StoreRefs(labels, {start}, FALSE), pointers, TRUE)
    /\ Define(start, end, "addrtable", Idle)
    /\ UNCHANGED <<includes, remarks, exprs, consts, file, stack, visited, parsed>>

\* dm: words have an even length, and their pointers get labels.
DefineMemory(type, start, end) ==
    LET words == {start + 2 * k : k \in {n \in 0..Codesize : start + 2 * n < end}}
        entry == StoreRefs(labels, {start}, type = "program")
    IN
    /\ Command("dm") /\ UserRange(start, end)
    /\ type = "defw" => (end - start + 1) % 2 = 0
    /\ labels' = CASE type = "defw" -> StoreRefs(entry, {Word(mem, a) : a \in words}, FALSE)
                   [] type \in {"program", "string"} -> entry
                   [] OTHER -> labels
    /\ Define(start, end, type, Idle)
    /\ UNCHANGED <<includes, remarks, exprs, consts, file, stack, visited, parsed>>

Same == UNCHANGED <<areas, includes, file, stack, visited, job, parsed>>

\* dl: a label that is there gets the name.
DefineLabel(a, name) ==
    /\ Command("dl")
    /\ labels' = [StoreRefs(labels, {a}, TRUE) EXCEPT ![a].name = name]
    /\ changed' = TRUE
    /\ Same /\ UNCHANGED <<remarks, exprs, consts>>

DefineScope(a, scope) ==
    /\ Command("dx") /\ a \in DOMAIN labels
    /\ labels' = [labels EXCEPT ![a].xref = (scope = "xref"), ![a].xdef = (scope = "xdef")]
    /\ changed' = TRUE
    /\ Same /\ UNCHANGED <<remarks, exprs, consts>>

\* rem: the position of a remark stays when lines are added to it.
RemarkOutput(a, position) ==
    /\ Command("rem")
    /\ remarks' = IF a \in DOMAIN remarks THEN remarks ELSE Set(remarks, a, position)
    /\ changed' = TRUE
    /\ Same /\ UNCHANGED <<labels, exprs, consts>>

\* de and dc: only what is new counts as a change.
DefineExpression(a, text) ==
    /\ Command("de")
    /\ exprs' = Set(exprs, a, text)
    /\ FlagNew(exprs, exprs')
    /\ Same /\ UNCHANGED <<labels, remarks, consts>>

DefineConstant(a, text) ==
    /\ Command("dc")
    /\ consts' = Set(consts, a, text)
    /\ FlagNew(consts, consts')
    /\ Same /\ UNCHANGED <<labels, remarks, exprs>>

CreateCollectFile ==
    /\ Command("cc")
    /\ GenCollectFile
    /\ UNCHANGED <<work, stack, visited, job, parsed>>

\* rc: without a file the session is gone all the same, and what it leaves is
\* released memory.
ReloadCollectFile ==
    /\ Command("rc")
    /\ IF available
       THEN ReadCollectFile(includes \intersect {"handle"}) /\ job' = Idle
       ELSE job' = Down /\ UNCHANGED <<work, parsed, changed>>
    /\ UNCHANGED <<file, stack, visited>>

\* q: the user is asked when there is a file and it is out of date.
Quit(yes) ==
    /\ Command("q")
    /\ IF available /\ changed /\ yes THEN GenCollectFile ELSE UNCHANGED <<file, changed>>
    /\ job' = Down
    /\ UNCHANGED <<work, stack, visited, parsed>>

----------------------------------------------------------------------------
\* Pass 1.

\* The next entry of a table goes on the stack; behind the last one the table
\* gets its type.
NextEntry ==
    LET pointer == IF job.cmd = "pl" THEN Word(mem, job.at) ELSE job.at
        more == IF job.cmd = "pl" THEN job.at < job.end ELSE GetByte(mem, job.at) = 195
    IN
    /\ job.pc = "entry"
    /\ IF more
       THEN /\ stack' = <<pointer>> /\ visited' = {}
            /\ labels' = IF job.cmd = "pl" THEN StoreRefs(labels, {pointer}, TRUE) ELSE labels
            /\ FlagNew(labels, labels')
            /\ job' = [job EXCEPT !.pc = "pass", !.at = @ + (IF job.cmd = "pl" THEN 2 ELSE 3)]
            /\ UNCHANGED areas
       ELSE /\ IF job.cmd = "pl" THEN Define(job.start, job.end, "addrtable", Idle)
               ELSE job' = Idle /\ UNCHANGED <<areas, changed>>
            /\ UNCHANGED <<labels, stack, visited>>
    /\ UNCHANGED <<mem, includes, remarks, exprs, consts, file, used, parsed>>

\* The top of the stack is the last element.  A label outside of the code is
\* dropped.
PopItem ==
    LET pc == Last(stack) IN
    /\ job.pc = "pass" /\ stack # <<>>
    /\ stack' = Front(stack)
    /\ job' = IF LocalLabel(pc)
              THEN [job EXCEPT !.pc = "parse", !.area = pc, !.next = pc,
                                !.found = SearchArea(areas, pc)]
              ELSE job
    /\ UNCHANGED <<mem, work, changed, file, visited, used, parsed>>

PassDone ==
    /\ job.pc = "pass" /\ stack = <<>>
    /\ areas' = JoinAreas(areas)
    /\ visited' = {}
    /\ job' = IF job.cmd = "pp" THEN Idle ELSE [job EXCEPT !.pc = "entry"]
    /\ UNCHANGED <<mem, labels, includes, remarks, exprs, consts, changed, file, stack, used, parsed>>

\* A bug: an address that has a label is taken for one that has been parsed.
MeetUnlabelled(i) ==
    /\ labels' = StoreRefs(StoreRefs(labels, i.targets, TRUE), i.data, FALSE)
    /\ stack' = stack \o SetToSeq(i.targets \ DOMAIN labels)
    /\ visited' = visited \union i.targets
    /\ includes' = includes \union i.includes
    /\ parsed' = parsed \union {job.next}

\* A bug: addresses that have been visited are put on the stack again.
MeetAgain(i) ==
    /\ labels' = StoreRefs(StoreRefs(labels, i.targets, TRUE), i.data, FALSE)
    /\ stack' = stack \o SetToSeq(i.targets)
    /\ visited' = visited \union i.targets
    /\ includes' = includes \union i.includes
    /\ parsed' = parsed \union {job.next}

\* What an instruction leaves behind: its jump address on the stack, unless it
\* has been there, and labels.
Meet(i) ==
    /\ labels' = StoreRefs(StoreRefs(labels, i.targets, TRUE), i.data, FALSE)
    /\ stack' = stack \o SetToSeq(i.targets \ visited)
    /\ visited' = visited \union i.targets
    /\ includes' = includes \union i.includes
    /\ parsed' = parsed \union {job.next}

\* A bug: one address too far.
ParsingBehind == job.pc = "parse" /\ job.next <= gEndOfCode + 1

Parsing == job.pc = "parse" /\ job.next <= gEndOfCode

ParseInstruction ==
    LET i == Instr(mem, job.next) IN
    /\ Parsing /\ i.ends = {}
    /\ Meet(i)
    /\ FlagNew(labels, labels')
    /\ job' = [job EXCEPT !.next = i.next]
    /\ UNCHANGED <<mem, areas, remarks, exprs, consts, file, used>>

\* The area found is put into the list when it starts in unknown land.
AreaParsed(end, flag) ==
    LET again == [job EXCEPT !.pc = "pass", !.area = job.start, !.next = job.start,
                             !.found = "notfound"]
    IN  IF job.found \in {"vacuum", "notfound"}
        THEN Define(job.area, end, "program", again)
        ELSE job' = again /\ changed' = flag /\ UNCHANGED areas

EndOfArea ==
    LET i == Instr(mem, job.next) IN
    /\ Parsing
    /\ Meet(i)
    /\ \E end \in i.ends : AreaParsed(end, changed \/ DOMAIN labels' # DOMAIN labels)
    /\ UNCHANGED <<mem, remarks, exprs, consts, file, used>>

\* Code that runs to the end of what is loaded.
EndOfCode ==
    /\ job.pc = "parse" /\ job.next > gEndOfCode
    /\ AreaParsed(gEndOfCode, changed)
    /\ UNCHANGED <<mem, labels, includes, remarks, exprs, consts, file, stack, visited, used, parsed>>

----------------------------------------------------------------------------
PassStep == NextEntry \/ PopItem \/ PassDone \/ ParseInstruction \/ EndOfArea \/ EndOfCode

Next ==
    \/ \E a \in Code : ParseDZ(a)
    \/ \E start, end \in Code : ParseLookupTable(start, end)
    \/ \E start, end \in Code : ParsePointerTable(start, end)
    \/ \E a \in Code : ParseVectorTable(a)
    \/ \E type \in DataTypes, start, end \in Code : DefineMemory(type, start, end)
    \/ \E a \in Known, name \in Names : DefineLabel(a, name)
    \/ \E a \in Code, scope \in {"xref", "xdef"} : DefineScope(a, scope)
    \/ \E a \in Known, position \in Positions : RemarkOutput(a, position)
    \/ \E a \in Known, text \in Texts : DefineExpression(a, text)
    \/ \E a \in Known, text \in Texts : DefineConstant(a, text)
    \/ CreateCollectFile
    \/ ReloadCollectFile
    \/ \E yes \in BOOLEAN : Quit(yes)
    \/ Start
    \/ NextEntry
    \/ PopItem
    \/ PassDone
    \/ ParseInstruction
    \/ EndOfArea
    \/ EndOfCode

Spec == Init /\ [][Next]_vars /\ WF_vars(PassStep)
============================================================================
