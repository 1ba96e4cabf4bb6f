----------------------------- MODULE AreaList -----------------------------
(***************************************************************************)
(* The list of areas of DZasm (areas.c): who has found out what about which *)
(* addresses of the code file.  The doubly linked list is a sequence.       *)
(* InsertArea follows the links of one or two areas only, and what it makes *)
(* of a list depends on how the new range lies across them.                 *)
(***************************************************************************)
EXTENDS Integers, SequencesExt

Types == {"vacuum", "program", "addrtable", "defw", "defb", "defs", "string"}

Area(start, end, type) == [start |-> start, end |-> end, type |-> type]

Holds(a, pc) == a.start <= pc /\ pc <= a.end

\* SearchArea: the first area with the address in it.
SearchArea(list, pc) ==
    LET hits == {i \in DOMAIN list : Holds(list[i], pc)} IN
    IF hits = {} THEN "notfound"
    ELSE list[CHOOSE i \in hits : \A k \in hits : i <= k].type

----------------------------------------------------------------------------
\* The area the search for a place stops at: the first that does not end before
\* the new one starts.
Reached(list, start) == {i \in DOMAIN list : start <= list[i].end}

Place(list, start) ==
    CHOOSE i \in Reached(list, start) : \A k \in Reached(list, start) : i <= k

Splice(list, first, last, areas) ==
    SubSeq(list, 1, first - 1) \o areas \o SubSeq(list, last + 1, Len(list))

\* The new range is longer than the area it starts in: the next one is looked at,
\* which is not there behind the last area.  A new range that is exactly an area
\* and the next one is put into the next one, and the area in hand, which has
\* been released by then, is read again.
InsertCrashes(list, start, end) ==
    LET i == Place(list, start) IN
    /\ Reached(list, start) # {}
    /\ start >= list[i].start /\ end > list[i].end
    /\ \/ i = Len(list)
       \/ start = list[i].start /\ end = list[i + 1].end

\* A bug: the rest behind a range in the middle keeps the start of the area.
InsertInsideWhole(list, i, start, end, type) ==
    Splice(list, i, i, <<[list[i] EXCEPT !.end = start - 1], Area(start, end, type), list[i]>>)

\* The new range starts inside the area: what is before it stays.  When it ends
\* with the next area, that one is extended, and keeps its type.
InsertInside(list, i, start, end, type) ==
    LET c == list[i]
        lower == [c EXCEPT !.end = start - 1]
        new == Area(start, end, type)
        n == list[i + 1]
    IN
    CASE end < c.end -> Splice(list, i, i, <<lower, new, [c EXCEPT !.start = end + 1]>>)
      [] end = c.end -> Splice(list, i, i, <<lower, new>>)
      [] end > c.end /\ end = n.end ->
             Splice(list, i, i + 1, <<lower, [n EXCEPT !.start = start]>>)
      [] end > c.end /\ end # n.end ->
             Splice(list, i, i + 1, <<lower, new, [n EXCEPT !.start = end + 1]>>)

\* A bug: what is left of the area is unknown again.
InsertAtStartVoid(list, i, start, end, type) ==
    Splice(list, i, i, IF end < list[i].end
                       THEN <<Area(start, end, type), Area(end + 1, list[i].end, "vacuum")>>
                       ELSE <<Area(start, end, type)>>)

\* The new range starts where the area does.
InsertAtStart(list, i, start, end, type) ==
    LET c == list[i]
        n == list[i + 1]
    IN
    CASE end = c.end -> Splice(list, i, i, <<[c EXCEPT !.type = type]>>)
      [] end < c.end ->
             Splice(list, i, i, <<Area(start, end, type), [c EXCEPT !.start = end + 1]>>)
      [] end > c.end ->
             Splice(list, i, i + 1, <<Area(start, end, type), [n EXCEPT !.start = end + 1]>>)

\* The new range starts before the area.
InsertBefore(list, i, start, end, type) ==
    LET c == list[i] IN
    Splice(list, i, i, <<Area(start, end, type),
                         IF end > c.start THEN [c EXCEPT !.start = end + 1] ELSE c>>)

InsertArea(list, start, end, type) ==
    LET i == Place(list, start) IN
    CASE Reached(list, start) = {} -> Append(list, Area(start, end, type))
      [] Reached(list, start) # {} /\ start > list[i].start ->
             InsertInside(list, i, start, end, type)
      [] Reached(list, start) # {} /\ start = list[i].start ->
             InsertAtStart(list, i, start, end, type)
      [] Reached(list, start) # {} /\ start < list[i].start ->
             InsertBefore(list, i, start, end, type)

\* JoinAreas: neighbours of one type become one area.
Join(joined, a) ==
    IF joined # <<>> /\ joined[Len(joined)].type = a.type
    THEN [joined EXCEPT ![Len(joined)].end = a.end]
    ELSE Append(joined, a)

JoinAreas(list) ==
    LET upto[k \in 0..Len(list)] == IF k = 0 THEN <<>> ELSE Join(upto[k - 1], list[k])
    IN  upto[Len(list)]

----------------------------------------------------------------------------
\* What ValidateAreas looks for: ranges in order, none of them empty, no gap.
ValidAreas(list) ==
    /\ \A i \in DOMAIN list : list[i].start <= list[i].end
    /\ \A i \in DOMAIN list \ {1} : list[i].start = list[i - 1].end + 1

\* The list covers the addresses low..high.
Partition(list, low, high) ==
    /\ list # <<>> /\ list[1].start = low /\ list[Len(list)].end = high
    /\ ValidAreas(list)

\* The new range lies in one area.
Fits(list, start, end) ==
    \E i \in DOMAIN list : list[i].start <= start /\ end <= list[i].end
============================================================================
