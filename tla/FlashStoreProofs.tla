-------------------------- MODULE FlashStoreProofs --------------------------
(***************************************************************************)
(* Proofs about FlashStore, for any number of slots, names, contents and    *)
(* entries, and with every kind of fault.                                   *)
(***************************************************************************)
EXTENDS FlashStore, WellFoundedInduction, TLAPS

----------------------------------------------------------------------------
(* Least elements and the search by name *)

Less == {ss \in Nat \X Nat : ss[1] < ss[2]}

LEMMA LessWellFounded == IsWellFoundedOn(Less, Nat)
  BY NatLessThanWellFounded DEF OpToRel, Less

LEMMA LeastElement ==
    ASSUME NEW T, T \subseteq Nat, T # {}
    PROVE  \E x \in T : \A y \in T : x <= y
<1>1. PICK x \in T : \A y \in T : ~ (<<y, x>> \in Less)
  BY LessWellFounded, WFMin
<1>2. \A y \in T : y < x => <<y, x>> \in Less
  BY DEF Less
<1>3. \A y \in T : ~ (y < x)
  BY <1>1, <1>2
<1> QED  BY <1>3

\* FileEprFindFile returns 0, or the place of an active entry of the name.
LEMMA FindIsHit ==
    ASSUME NEW entries \in Seq(Entry), NEW n, Find(entries, n) # 0
    PROVE  /\ Find(entries, n) \in 1..Len(entries)
           /\ entries[Find(entries, n)].name = n
           /\ entries[Find(entries, n)].live
<1> DEFINE H == Hits(entries, n)
<1>1. H # {}
  BY DEF Find
<1>2. H \subseteq Nat /\ H \subseteq 1..Len(entries)
  BY DEF Hits
<1>3. \E i \in H : \A k \in H : i <= k
  BY <1>1, <1>2, LeastElement
<1>4. Find(entries, n) \in H
  BY <1>1, <1>3 DEF Find
<1> QED  BY <1>2, <1>4 DEF Hits

----------------------------------------------------------------------------
(* What the three ways to change a card do to its entries *)

\* Marking an entry as deleted leaves everything but its flag.
LEMMA EraseEntry ==
    ASSUME log \in [Slots -> Seq(Entry)], NEW s \in Slots, NEW i \in 1..Len(log[s]), Erase(s, i)
    PROVE  /\ log' \in [Slots -> Seq(Entry)]
           /\ \A t \in Slots :
                /\ Len(log'[t]) = Len(log[t])
                /\ \A k \in 1..Len(log[t]) :
                     /\ log'[t][k].name = log[t][k].name
                     /\ log'[t][k].data = log[t][k].data
                     /\ log'[t][k].done = log[t][k].done
                     /\ t # s \/ k # i => log'[t][k] = log[t][k]
                     /\ t = s /\ k = i => ~log'[t][k].live
<1> DEFINE e == [log[s][i] EXCEPT !.live = FALSE]
<1> DEFINE q == [log[s] EXCEPT ![i] = e]
<1>1. log[s] \in Seq(Entry) /\ log[s][i] \in Entry
  OBVIOUS
<1>2. /\ e \in Entry /\ e.name = log[s][i].name /\ e.data = log[s][i].data
      /\ e.done = log[s][i].done /\ ~e.live
  BY <1>1 DEF Entry
<1>3. q \in Seq(Entry) /\ Len(q) = Len(log[s])
  BY <1>1, <1>2
<1>4. \A k \in 1..Len(log[s]) : q[k] = IF k = i THEN e ELSE log[s][k]
  BY <1>1
<1>5. log' = [log EXCEPT ![s] = q]
  BY DEF Erase
<1>6. log' \in [Slots -> Seq(Entry)] /\ log'[s] = q /\ \A t \in Slots \ {s} : log'[t] = log[t]
  BY <1>3, <1>5
<1> HIDE DEF e, q
<1> QED  BY <1>2, <1>3, <1>4, <1>6

\* A new entry leaves the others alone.
LEMMA AppendKeeps ==
    ASSUME log \in [Slots -> Seq(Entry)], NEW s \in Slots, NEW e \in Entry,
           log' = [log EXCEPT ![s] = Append(@, e)]
    PROVE  /\ log' \in [Slots -> Seq(Entry)]
           /\ \A t \in Slots \ {s} : log'[t] = log[t]
           /\ Len(log'[s]) = Len(log[s]) + 1
           /\ log'[s][Len(log[s]) + 1] = e
           /\ \A k \in 1..Len(log[s]) : log'[s][k] = log[s][k]
<1>1. /\ Append(log[s], e) \in Seq(Entry)
      /\ Len(Append(log[s], e)) = Len(log[s]) + 1
      /\ Append(log[s], e)[Len(log[s]) + 1] = e
      /\ \A k \in 1..Len(log[s]) : Append(log[s], e)[k] = log[s][k]
  OBVIOUS
<1> QED  BY <1>1

\* The end of an image leaves everything but the last entry.
LEMMA FinishEntry ==
    ASSUME log \in [Slots -> Seq(Entry)], NEW s \in Slots, NEW i \in 1..Len(log[s]),
           log' = [log EXCEPT ![s][i].done = TRUE]
    PROVE  /\ log' \in [Slots -> Seq(Entry)]
           /\ \A t \in Slots :
                /\ Len(log'[t]) = Len(log[t])
                /\ \A k \in 1..Len(log[t]) :
                     /\ log'[t][k].name = log[t][k].name
                     /\ log'[t][k].data = log[t][k].data
                     /\ log'[t][k].live = log[t][k].live
                     /\ t # s \/ k # i => log'[t][k] = log[t][k]
                     /\ t = s /\ k = i => log'[t][k].done
<1> DEFINE e == [log[s][i] EXCEPT !.done = TRUE]
<1> DEFINE q == [log[s] EXCEPT ![i] = e]
<1>1. log[s] \in Seq(Entry) /\ log[s][i] \in Entry
  OBVIOUS
<1>2. /\ e \in Entry /\ e.name = log[s][i].name /\ e.data = log[s][i].data
      /\ e.live = log[s][i].live /\ e.done
  BY <1>1 DEF Entry
<1>3. q \in Seq(Entry) /\ Len(q) = Len(log[s])
  BY <1>1, <1>2
<1>4. \A k \in 1..Len(log[s]) : q[k] = IF k = i THEN e ELSE log[s][k]
  BY <1>1
<1>5. log' = [log EXCEPT ![s] = q]
  OBVIOUS
<1>6. log' \in [Slots -> Seq(Entry)] /\ log'[s] = q /\ \A t \in Slots \ {s} : log'[t] = log[t]
  BY <1>3, <1>5
<1> HIDE DEF e, q
<1> QED  BY ZenonT(30), <1>2, <1>3, <1>4, <1>6

----------------------------------------------------------------------------
(* Type correctness *)

\* What TypeOK does not say of the running command, and its steps rely on: a
\* file is at hand after the loop, the names still to save are RAM files, at is
\* an entry of the card that is walked, flentry is an entry of the card that is
\* written to, and that card is not empty while an entry is being written.
JobInv ==
    job.pc # "idle" =>
        /\ job.pc # "next" => job.file \in Names \X Images
        /\ job.cmd = "save" => \A n \in job.todo : ram[n] \in Images
        /\ job.cmd \in {"copy", "quickcopy"} => job.at >= 1
        /\ job.cmd = "quickcopy" =>
               job.pc # "next" /\ job.from # job.slot /\ job.at <= Len(log[job.from])
        /\ job.cmd = "restore" => job.pc = "next" /\ job.at <= Len(log[job.slot])
        /\ job.pc \in {"image", "mark", "replace"} => Len(log[job.slot]) >= 1
        /\ job.pc \in {"prompt", "write", "image", "replace"} /\ job.flentry # None =>
               job.flentry.slot = job.slot /\ job.flentry.at <= Len(log[job.slot])

TypeInv == TypeOK /\ JobInv

LEMMA TypeInit == Init => TypeInv
  BY StoreAssumption DEF Init, TypeInv, TypeOK, JobInv, NoJob

\* The command that runs is a record of Jobs, one that is started or has ended
\* is well formed whatever the rest of the state is.
LEMMA BusyJob == TypeOK /\ job.pc # "idle" => job \in Jobs
  BY DEF TypeOK, NoJob

LEMMA DoneInv == Done => job' \in Jobs \union {NoJob} /\ JobInv'
  BY DEF Done, JobInv, NoJob

\* Going on to the next file keeps the command well formed, as long as no card
\* has lost entries and the RAM files are those of before.
LEMMA NextFileInv ==
    ASSUME TypeInv, job.pc # "idle", NextFile,
           job.cmd = "restore" => job.at > 0,
           UNCHANGED ram \/ job.cmd = "restore",
           \A t \in Slots : Len(log'[t]) = Len(log[t])
    PROVE  job' \in Jobs \union {NoJob} /\ JobInv'
<1>1. job \in Jobs
  BY BusyJob DEF TypeInv
<1>2. CASE job.cmd = "save"
  <2>1. job' = [job EXCEPT !.pc = "next", !.file = <<>>]
    BY <1>2 DEF NextFile
  <2>2. job.at \in Nat /\ job.todo \subseteq Names
    BY <1>1 DEF Jobs
  <2>3. job' \in Jobs
    BY <1>1, <2>1, <2>2 DEF Jobs
  <2>4. job'.cmd = job.cmd /\ job'.pc = "next" /\ job'.todo = job.todo /\ job'.at = job.at
    BY <1>1, <2>1 DEF Jobs
  <2> QED  BY <1>2, <2>2, <2>3, <2>4 DEF TypeInv, JobInv
<1>3. CASE job.cmd = "copy"
  <2> DEFINE at == job.at + 1
  <2>1. job' = [job EXCEPT !.pc = "next", !.file = <<>>, !.at = at]
    BY <1>3 DEF NextFile
  <2>2. job.at \in Nat /\ job.todo \subseteq Names /\ at \in Nat
    BY <1>1 DEF Jobs
  <2> HIDE DEF at
  <2>3. job' \in Jobs
    BY <1>1, <2>1, <2>2 DEF Jobs
  <2>4. job'.cmd = job.cmd /\ job'.pc = "next" /\ job'.todo = job.todo /\ job'.at = at
    BY <1>1, <2>1 DEF Jobs
  <2> QED  BY <1>3, <2>2, <2>3, <2>4 DEF TypeInv, JobInv, at
<1>4. CASE job.cmd = "restore"
  <2>1. job' = [job EXCEPT !.at = @ - 1]
    BY <1>4 DEF NextFile
  <2>2. job.at \in Nat /\ job.at > 0 /\ job.slot \in Slots
    BY <1>1, <1>4 DEF Jobs
  <2>3. job' \in Jobs
    BY <1>1, <2>1, <2>2 DEF Jobs
  <2>4. job'.cmd = job.cmd /\ job'.pc = job.pc /\ job'.slot = job.slot /\ job'.at = job.at - 1
    BY <1>1, <2>1 DEF Jobs
  <2>5. Len(log[job.slot]) \in Nat
    BY <2>2 DEF TypeInv, TypeOK
  <2> QED  BY <1>4, <2>2, <2>3, <2>4, <2>5 DEF TypeInv, JobInv
<1>5. CASE job.cmd = "quickcopy"
  BY <1>1, <1>5, DoneInv DEF NextFile
<1> QED  BY <1>1, <1>2, <1>3, <1>4, <1>5 DEF Jobs

\* Going to another place of the command changes nothing else in it.
LEMMA GotoFields ==
    ASSUME TypeOK, job.pc # "idle", Goto("lost") \/ Goto("write") \/ Goto("image")
           \/ Goto("mark") \/ Goto("failed") \/ Goto("find") \/ Goto("replace")
    PROVE  /\ job' \in Jobs
           /\ job'.cmd = job.cmd /\ job'.slot = job.slot /\ job'.from = job.from
           /\ job'.at = job.at /\ job'.todo = job.todo /\ job'.file = job.file
           /\ job'.flentry = job.flentry
           /\ \A pc \in {"lost", "write", "image", "mark", "failed", "find", "replace"} :
                Goto(pc) => job'.pc = pc
  BY BusyJob DEF Goto, Jobs

\* A command that is started is at its loop, or has the file to copy at hand.
LEMMA StartInv ==
    ASSUME TypeOK, NEW cmd \in {"save", "copy", "restore"}, NEW s \in Slots, NEW t \in Slots,
           NEW at \in Nat, NEW names \in SUBSET Names, NEW o \in BOOLEAN,
           Start(cmd, s, t, at, names, o),
           cmd = "save" => \A n \in names : ram[n] \in Images,
           cmd = "copy" => at >= 1,
           cmd = "restore" => at <= Len(log[t])
    PROVE  TypeInv'
<1>1. /\ job' \in Jobs
      /\ job'.cmd = cmd /\ job'.pc = "next" /\ job'.at = at /\ job'.todo = names
      /\ job'.slot = t
  BY DEF Start, Jobs, Pointer
<1>2. UNCHANGED <<log, free, kept, ram>>
  BY DEF Start, Card
<1> QED  BY <1>1, <1>2 DEF TypeInv, TypeOK, JobInv

LEMMA TypeStep == TypeInv /\ [Next]_vars => TypeInv'
<1> SUFFICES ASSUME TypeInv, [Next]_vars PROVE TypeInv'
  OBVIOUS
<1> USE StoreAssumption
<1>a. TypeOK /\ JobInv
  BY DEF TypeInv
<1>b. job.pc # "idle" => job \in Jobs
  BY <1>a, BusyJob
<1>1. CASE SaveNext
  <2>1. job \in Jobs /\ job.pc = "next" /\ job.cmd = "save"
    BY <1>1, <1>b DEF SaveNext, At
  <2>2. UNCHANGED <<log, free, kept, ram>>
    BY <1>1 DEF SaveNext, Card
  <2>3. CASE Done
    BY <1>a, <2>2, <2>3, DoneInv DEF TypeInv, TypeOK
  <2>4. ASSUME NEW n \in job.todo,
               job' = [job EXCEPT !.pc = "find", !.todo = @ \ {n}, !.file = <<n, ram[n]>>]
        PROVE  TypeInv'
    <3>1. n \in Names /\ ram[n] \in Images /\ job.todo \ {n} \in SUBSET Names
      BY <1>a, <2>1 DEF JobInv, Jobs
    <3>2. <<n, ram[n]>> \in Names \X Images
      BY <3>1
    <3>3. /\ job'.pc = "find" /\ job'.cmd = "save" /\ job'.todo = job.todo \ {n}
          /\ job'.file \in Names \X Images
      BY <2>1, <2>4, <3>2 DEF Jobs
    <3>4. job' \in Jobs
      BY <2>1, <2>4, <3>1, <3>2 DEF Jobs
    <3> QED  BY <1>a, <2>1, <2>2, <3>3, <3>4 DEF TypeInv, TypeOK, JobInv
  <2> QED  BY <1>1, <2>3, <2>4 DEF SaveNext
<1>2. CASE CopyNext
  <2>1. job \in Jobs /\ job.pc = "next" /\ job.cmd = "copy" /\ job.from \in Slots /\ job.at >= 1
    BY <1>2, <1>a, <1>b DEF CopyNext, At, Jobs, JobInv
  <2>2. UNCHANGED <<log, free, kept, ram>>
    BY <1>2 DEF CopyNext, Card
  <2>3. CASE Done
    BY <1>a, <2>2, <2>3, DoneInv DEF TypeInv, TypeOK
  <2>4. CASE NextFile
    BY <1>a, <2>1, <2>2, <2>4, NextFileInv DEF TypeInv, TypeOK
  <2>5. ASSUME NEW e \in Entry, job' = [job EXCEPT !.pc = "find", !.file = <<e.name, Image(e)>>]
        PROVE  TypeInv'
    <3>1. <<e.name, Image(e)>> \in Names \X Images
      BY DEF Entry, Image, Images
    <3>2. job' \in Jobs /\ job'.pc = "find" /\ job'.cmd = "copy" /\ job'.at = job.at
          /\ job'.file \in Names \X Images
      BY <2>1, <2>5, <3>1 DEF Jobs
    <3> QED  BY <1>a, <2>1, <2>2, <3>2 DEF TypeInv, TypeOK, JobInv
  <2>6. job.at <= Len(log[job.from]) => log[job.from][job.at] \in Entry
    <3>1. log[job.from] \in Seq(Entry) /\ job.at \in Nat
      BY <1>a, <2>1 DEF TypeOK, Jobs
    <3> QED  BY <2>1, <3>1
  <2>7. job.at \in Nat /\ Len(log[job.from]) \in Nat
    BY <1>a, <2>1 DEF TypeOK, Jobs
  <2>8. CASE job.at > Len(log[job.from])
    BY <1>2, <2>3, <2>8 DEF CopyNext
  <2>9. CASE ~ (job.at > Len(log[job.from]))
    <3> DEFINE e == log[job.from][job.at]
    <3>1. e \in Entry
      BY <2>6, <2>7, <2>9
    <3>2. \/ job' = [job EXCEPT !.pc = "find", !.file = <<e.name, Image(e)>>]
          \/ NextFile
      BY <1>2, <2>9 DEF CopyNext
    <3> HIDE DEF e
    <3> QED  BY <2>4, <2>5, <3>1, <3>2
  <2> QED  BY <2>8, <2>9
<1>3. CASE FindFile
  <2> DEFINE i == Find(log[job.slot], Name)
             ptr == IF i = 0 THEN None ELSE PointerTo(job.slot, i)
             pc == IF i = 0 \/ job.overwrite THEN "write" ELSE "prompt"
  <2>1. job \in Jobs /\ job.pc = "find" /\ job.slot \in Slots
    BY <1>3, <1>b DEF FindFile, Jobs
  <2>2. UNCHANGED <<log, free, kept, ram>>
    BY <1>3 DEF FindFile, Card
  <2>3. log[job.slot] \in Seq(Entry)
    BY <1>a, <2>1 DEF TypeOK
  <2>4. i # 0 => i \in 1..Len(log[job.slot])
    BY <2>3, FindIsHit
  <2>5. /\ ptr \in Pointer
        /\ ptr # None => ptr.slot = job.slot /\ ptr.at <= Len(log[job.slot])
    BY <2>1, <2>3, <2>4 DEF PointerTo, Pointer, None
  <2>6. job' = [job EXCEPT !.flentry = ptr, !.pc = pc]
    BY <1>3 DEF FindFile
  <2>7. pc \in {"write", "prompt"}
    OBVIOUS
  <2> HIDE DEF i, ptr, pc
  <2>8. /\ job' \in Jobs
        /\ job'.pc = pc /\ job'.flentry = ptr /\ job'.cmd = job.cmd /\ job'.slot = job.slot
        /\ job'.from = job.from /\ job'.at = job.at /\ job'.todo = job.todo
        /\ job'.file = job.file
    BY <2>1, <2>5, <2>6, <2>7 DEF Jobs
  <2> QED  BY <1>a, <2>1, <2>2, <2>5, <2>7, <2>8 DEF TypeInv, TypeOK, JobInv
<1>4. CASE Prompt
  <2>1. job \in Jobs /\ job.pc = "prompt"
    BY <1>4, <1>b DEF Prompt
  <2>2. UNCHANGED <<log, free, kept, ram>>
    BY <1>4 DEF Prompt, Card
  <2>3. CASE NextFile
    BY <1>a, <2>1, <2>2, <2>3, NextFileInv DEF TypeInv, TypeOK, JobInv
  <2>4. CASE Goto("lost") \/ Goto("write")
    BY <1>a, <2>1, <2>2, <2>4, GotoFields DEF TypeInv, TypeOK, JobInv
  <2> QED  BY <1>4, <2>3, <2>4 DEF Prompt
<1>5. CASE WriteHeader
  <2>1. job \in Jobs /\ job.pc = "write" /\ job.slot \in Slots
    BY <1>5, <1>b DEF WriteHeader, Jobs
  <2>2. UNCHANGED <<ram, kept>>
    BY <1>5 DEF WriteHeader
  <2>3. CASE Done /\ UNCHANGED <<log, free>>
    BY <1>a, <2>2, <2>3, DoneInv DEF TypeInv, TypeOK
  <2>4. CASE Size <= free[job.slot] /\ AppendEntry
    <3> DEFINE e == [name |-> Name, data |-> job.file[2], done |-> FALSE,
                     live |-> job.cmd = "quickcopy" => log[job.from][job.at].live]
    <3>1. job.file \in Names \X Images
      BY <1>a, <2>1 DEF JobInv
    <3>2. e \in Entry
      BY <1>a, <2>1, <3>1 DEF Entry, Name
    <3>3. log' = [log EXCEPT ![job.slot] = Append(@, e)]
      BY <2>4 DEF AppendEntry
    <3> HIDE DEF e
    <3>4. /\ log' \in [Slots -> Seq(Entry)]
          /\ Len(log'[job.slot]) = Len(log[job.slot]) + 1
          /\ \A t \in Slots \ {job.slot} : log'[t] = log[t]
      BY <1>a, <2>1, <3>2, <3>3, AppendKeeps DEF TypeOK
    <3>5. \A t \in Slots : Len(log[t]) \in Nat /\ Len(log'[t]) >= Len(log[t])
      <4>1. \A t \in Slots : Len(log[t]) \in Nat
        BY <1>a DEF TypeOK
      <4>2. Len(log'[job.slot]) >= Len(log[job.slot])
        BY <2>1, <3>4, <4>1
      <4>3. \A t \in Slots \ {job.slot} : Len(log'[t]) = Len(log[t])
        BY <3>4
      <4> QED  BY <4>1, <4>2, <4>3
    <3>6. free' \in [Slots -> Nat]
      <4>1. Size \in Nat
        BY <3>1 DEF Size, Name
      <4>2. free[job.slot] - Size \in Nat
        BY <1>a, <2>1, <2>4, <4>1 DEF TypeOK
      <4> QED  BY <1>a, <2>1, <2>4, <4>2 DEF TypeOK, AppendEntry
    <3>7. Goto("image")
      BY <2>4 DEF AppendEntry
    <3>8. /\ job' \in Jobs /\ job'.pc = "image"
          /\ job'.cmd = job.cmd /\ job'.slot = job.slot /\ job'.from = job.from
          /\ job'.at = job.at /\ job'.todo = job.todo /\ job'.file = job.file
          /\ job'.flentry = job.flentry
      BY <1>a, <2>1, <3>7, GotoFields
    <3>9. job.at \in Nat /\ job.from \in Slots /\ (job.flentry # None => job.flentry.at \in Nat)
      BY <2>1 DEF Jobs, Pointer
    <3>10. Len(log'[job.slot]) >= 1
      BY <2>1, <3>4, <3>5
    <3>11. job.cmd # "restore" /\ (job.cmd = "quickcopy" => job.at <= Len(log'[job.from]))
      BY <1>a, <2>1, <3>5, <3>9 DEF JobInv
    <3>12. job.flentry # None =>
               job.flentry.slot = job.slot /\ job.flentry.at <= Len(log'[job.slot])
      BY <1>a, <2>1, <3>5, <3>9 DEF JobInv
    <3>13. TypeOK'
      BY <1>a, <2>2, <3>4, <3>6, <3>8 DEF TypeOK
    <3> QED
      BY <1>a, <2>1, <2>2, <3>8, <3>10, <3>11, <3>12, <3>13 DEF TypeInv, JobInv
  <2>5. Size > free[job.slot] \/ Size <= free[job.slot]
    <3>1. job.file \in Names \X Images
      BY <1>a, <2>1 DEF JobInv
    <3> QED  BY <1>a, <2>1, <3>1 DEF TypeOK, Size, Name
  <2> QED  BY <1>5, <2>3, <2>4, <2>5 DEF WriteHeader
<1>6. ASSUME GiveUp, job.pc \in {"write", "mark"}, UNCHANGED <<free, ram, kept>>,
             log' \in [Slots -> Seq(Entry)], \A t \in Slots : Len(log'[t]) = Len(log[t])
      PROVE  TypeInv'
  <2>1. job \in Jobs
    BY <1>6, <1>b
  <2>2. CASE Done
    BY <1>a, <1>6, <2>2, DoneInv DEF TypeInv, TypeOK
  <2>3. CASE job.cmd = "save" /\ Goto("failed")
    BY <1>a, <1>6, <2>1, <2>3, GotoFields DEF TypeInv, TypeOK, JobInv
  <2> QED  BY <1>6, <2>2, <2>3 DEF GiveUp
<1>7. CASE HeaderError
  BY <1>a, <1>6, <1>7 DEF HeaderError, Card, TypeOK
<1>8. CASE WriteImage
  <2>1. job \in Jobs /\ job.pc = "image" /\ job.slot \in Slots /\ job.from \in Slots
    BY <1>8, <1>b DEF WriteImage, Jobs
  <2>2. UNCHANGED <<free, ram>> /\ Goto("replace")
    BY <1>8 DEF WriteImage
  <2>3. Len(log[job.slot]) \in Nat /\ Len(log[job.slot]) \in 1..Len(log[job.slot])
    BY <1>a, <2>1 DEF TypeOK, JobInv
  <2>4. log' = [log EXCEPT ![job.slot][Len(log[job.slot])].done = TRUE]
    BY <1>8 DEF WriteImage
  <2>5. log' \in [Slots -> Seq(Entry)] /\ \A t \in Slots : Len(log'[t]) = Len(log[t])
    BY <1>a, <2>1, <2>3, <2>4, FinishEntry DEF TypeOK
  <2>6. kept' \in [Slots -> [Names -> Nat]]
    BY <1>8, <1>a, <2>1, <2>3 DEF WriteImage, TypeOK
  <2>7. TypeOK'
    BY <1>a, <2>1, <2>2, <2>5, <2>6, GotoFields DEF TypeOK
  <2> QED  BY <1>a, <2>1, <2>2, <2>5, <2>7, GotoFields DEF TypeInv, JobInv
<1>9. CASE ImageError
  <2>1. job \in Jobs /\ job.pc = "image" /\ Goto("mark") /\ UNCHANGED <<log, free, kept, ram>>
    BY <1>9, <1>b DEF ImageError, Card
  <2> QED  BY <1>a, <2>1, GotoFields DEF TypeInv, TypeOK, JobInv
<1>10. CASE MarkDeleted
  <2>1. job \in Jobs /\ job.pc = "mark" /\ job.slot \in Slots
    BY <1>10, <1>b DEF MarkDeleted, Jobs
  <2>2. Len(log[job.slot]) \in 1..Len(log[job.slot])
    BY <1>a, <2>1 DEF TypeOK, JobInv
  <2>3. log' \in [Slots -> Seq(Entry)] /\ \A t \in Slots : Len(log'[t]) = Len(log[t])
    BY <1>10, <1>a, <2>1, <2>2, EraseEntry DEF MarkDeleted, DeletesEntry, TypeOK
  <2> QED  BY <1>6, <1>10, <2>1, <2>3 DEF MarkDeleted
<1>11. CASE Retry
  <2>1. job \in Jobs /\ job.pc = "failed" /\ Goto("find") /\ UNCHANGED <<log, free, kept, ram>>
    BY <1>11, <1>b DEF Retry, At, Card
  <2> QED  BY <1>a, <2>1, GotoFields DEF TypeInv, TypeOK, JobInv
<1>12. CASE DeleteOldFile
  <2>1. job \in Jobs /\ job.pc = "replace" /\ job.slot \in Slots
    BY <1>12, <1>b DEF DeleteOldFile, Jobs
  <2>2. UNCHANGED <<free, ram, kept>> /\ (NextFile \/ Done)
    BY <1>12 DEF DeleteOldFile
  <2>3. CASE UNCHANGED log
    BY <1>a, <2>1, <2>2, <2>3, DoneInv, NextFileInv DEF TypeInv, TypeOK, JobInv
  <2>4. CASE job.flentry # None /\ Erase(job.flentry.slot, job.flentry.at)
    <3>1. job.flentry.slot = job.slot /\ job.flentry.at \in 1..Len(log[job.slot])
      BY <1>a, <2>1, <2>4 DEF TypeOK, JobInv, Jobs, Pointer
    <3>2. log' \in [Slots -> Seq(Entry)] /\ \A t \in Slots : Len(log'[t]) = Len(log[t])
      BY <1>a, <2>1, <2>4, <3>1, EraseEntry DEF TypeOK
    <3> QED  BY <1>a, <2>1, <2>2, <3>2, DoneInv, NextFileInv DEF TypeInv, TypeOK, JobInv
  <2> QED  BY <1>12, <2>3, <2>4 DEF DeleteOldFile
<1>13. CASE RestoreNext
  <2>1. job \in Jobs /\ job.pc = "next" /\ job.cmd = "restore" /\ job.slot \in Slots
    BY <1>13, <1>b DEF RestoreNext, At, Jobs
  <2>2. UNCHANGED <<log, free, kept>>
    BY <1>13 DEF RestoreNext, Card
  <2>3. job.at \in Nat /\ job.at <= Len(log[job.slot]) /\ log[job.slot] \in Seq(Entry)
    BY <1>a, <2>1 DEF TypeOK, JobInv, Jobs
  <2>4. job.at > 0 => log[job.slot][job.at] \in Entry
    BY <2>3
  <2>5. ram' \in [Names -> Images \union {NoFile}]
    <3>1. \A e \in Entry : e.name \in Names /\ Image(e) \in Images
      BY DEF Entry, Image, Images
    <3> QED  BY ZenonT(30), <1>13, <1>a, <2>4, <3>1 DEF RestoreNext, TypeOK
  <2>6. Done \/ (NextFile /\ job.at > 0)
    BY <1>13 DEF RestoreNext
  <2> QED  BY <1>a, <2>1, <2>2, <2>5, <2>6, DoneInv, NextFileInv DEF TypeInv, TypeOK
<1>14. ASSUME NEW n \in Names, NEW d \in Contents \union {NoFile}, EditRam(n, d)
       PROVE  TypeInv'
  <2>1. job.pc = "idle" /\ UNCHANGED <<log, free, kept, job>>
    BY <1>14 DEF EditRam, Idle, Card
  <2>2. ram' \in [Names -> Images \union {NoFile}]
    BY <1>14, <1>a DEF EditRam, TypeOK, Images
  <2> QED  BY <1>a, <2>1, <2>2 DEF TypeInv, TypeOK, JobInv
<1>15. ASSUME NEW s \in Slots, NEW names \in SUBSET Names, NEW o \in BOOLEAN,
              StartSave(s, names, o)
       PROVE  TypeInv'
  <2>1. \A n \in names : ram[n] \in Images
    BY <1>15, <1>a DEF StartSave, TypeOK
  <2> QED  BY <1>15, <1>a, <2>1, StartInv DEF StartSave
<1>16. ASSUME NEW s \in Slots, NEW t \in Slots, NEW o \in BOOLEAN, StartCopy(s, t, o)
       PROVE  TypeInv'
  BY <1>16, <1>a, StartInv DEF StartCopy
<1>17. ASSUME NEW s \in Slots, NEW o \in BOOLEAN, StartRestore(s, o)
       PROVE  TypeInv'
  <2>1. Len(log[s]) \in Nat
    BY <1>a DEF TypeOK
  <2> QED  BY <1>17, <1>a, <2>1, StartInv DEF StartRestore
<1>18. ASSUME NEW s \in Slots, NEW t \in Slots, NEW i \in DOMAIN log[s], QuickCopyFile(s, t, i)
       PROVE  TypeInv'
  <2> DEFINE e == log[s][i]
  <2>1. log[s] \in Seq(Entry) /\ i \in 1..Len(log[s])
    BY <1>a DEF TypeOK
  <2>2. e \in Entry
    BY <2>1
  <2>3. <<e.name, Image(e)>> \in Names \X Images
    BY <2>2 DEF Entry, Image, Images
  <2>4. UNCHANGED <<log, free, kept, ram>> /\ s # t
    BY <1>18 DEF QuickCopyFile, Card
  <2>5. job' = [cmd |-> "quickcopy", pc |-> "find", slot |-> t, from |-> s, at |-> i,
                todo |-> {}, file |-> <<e.name, Image(e)>>, flentry |-> None,
                overwrite |-> FALSE]
    BY <1>18 DEF QuickCopyFile
  <2> HIDE DEF e
  <2>6. job' \in Jobs
    BY <2>1, <2>3, <2>5 DEF Jobs, Pointer
  <2> QED  BY <1>a, <2>1, <2>3, <2>4, <2>5, <2>6 DEF TypeInv, TypeOK, JobInv
<1>19. ASSUME NEW s \in Slots, NEW n \in Names, NEW i \in DOMAIN log[s], FetchFile(s, i, n)
       PROVE  TypeInv'
  <2>1. job.pc = "idle" /\ UNCHANGED <<log, free, kept, job>>
    BY <1>19 DEF FetchFile, Idle, Card
  <2>2. log[s][i] \in Entry
    BY <1>a DEF TypeOK
  <2>3. ram' \in [Names -> Images \union {NoFile}]
    BY <1>19, <1>a, <2>2 DEF FetchFile, TypeOK, Entry, Image, Images
  <2> QED  BY <1>a, <2>1, <2>3 DEF TypeInv, TypeOK, JobInv
<1>20. ASSUME NEW s \in Slots, NEW i \in DOMAIN log[s], DeleteFile(s, i)
       PROVE  TypeInv'
  <2>1. job.pc = "idle" /\ UNCHANGED <<free, ram, job>>
    BY <1>20 DEF DeleteFile, Idle
  <2>2. i \in 1..Len(log[s])
    BY <1>a DEF TypeOK
  <2>3. log' \in [Slots -> Seq(Entry)]
    BY <1>20, <1>a, <2>2, EraseEntry DEF DeleteFile, TypeOK
  <2>4. kept' \in [Slots -> [Names -> Nat]]
    <3> DEFINE k == [n \in Names |-> IF kept[s][n] = i THEN 0 ELSE kept[s][n]]
    <3>1. k \in [Names -> Nat]
      BY <1>a DEF TypeOK
    <3>2. kept' = kept \/ kept' = [kept EXCEPT ![s] = k]
      BY <1>20 DEF DeleteFile
    <3> HIDE DEF k
    <3> QED  BY <1>a, <3>1, <3>2 DEF TypeOK
  <2> QED  BY <1>a, <2>1, <2>3, <2>4 DEF TypeInv, TypeOK, JobInv
<1>21. CASE Abort
  BY <1>21, <1>a, DoneInv DEF Abort, Card, TypeInv, TypeOK
<1>22. CASE Reset
  BY <1>22, <1>a, DoneInv DEF Reset, Card, TypeInv, TypeOK
<1>23. CASE UNCHANGED vars
  BY <1>23, <1>a DEF vars, TypeInv, TypeOK, JobInv
<1>24. CASE Step
  BY <1>1, <1>2, <1>3, <1>4, <1>5, <1>7, <1>8, <1>9, <1>10, <1>11, <1>12, <1>13, <1>24 DEF Step
<1>25. CASE User
  BY <1>14, <1>15, <1>16, <1>17, <1>18, <1>19, <1>20, <1>21, <1>22, <1>25 DEF User
<1> QED  BY <1>23, <1>24, <1>25 DEF Next

\* The running command and the cards always have the shape the code relies on;
\* in particular no step walks beyond the entries of a card, and free space is
\* never negative.
THEOREM TypeCorrect == Spec => []TypeOK
<1>1. TypeInv => TypeOK
  BY DEF TypeInv
<1> QED  BY <1>1, TypeInit, TypeStep, PTL DEF Spec

----------------------------------------------------------------------------
(* The newest complete file survives everything but the user's deletion *)

Last(s) == log[s][Len(log[s])]

\* The entry that flentry points to has the name of the file at hand, and is not
\* the new entry.  The new entry is incomplete until its image is written, and
\* the newest one of its name from then on.
WriterInv ==
    job.pc # "idle" =>
        /\ job.pc \in {"prompt", "write", "image", "replace"} /\ job.flentry # None =>
               log[job.slot][job.flentry.at].name = Name
        /\ job.cmd = "quickcopy" /\ job.pc \in {"find", "prompt", "write"} =>
               log[job.from][job.at].live
        /\ job.pc \in {"image", "mark", "replace"} =>
               Last(job.slot).name = Name /\ Last(job.slot).live
        /\ job.pc \in {"image", "mark"} => ~Last(job.slot).done
        /\ job.pc = "replace" => kept[job.slot][Name] = Len(log[job.slot])
        /\ job.pc \in {"image", "replace"} /\ job.flentry # None =>
               job.flentry.at < Len(log[job.slot])

KeptInv == LatestKept /\ WriterInv

LEMMA KeptInit == Init => KeptInv
  BY DEF Init, KeptInv, LatestKept, WriterInv, NoJob

LEMMA LoopInv ==
    ASSUME TypeOK, job.pc # "idle", job.pc = "next" \/ job.cmd # "restore", NextFile \/ Done
    PROVE  WriterInv'
<1>1. job \in Jobs
  BY BusyJob
<1>2. CASE Done
  BY <1>2 DEF Done, NoJob, WriterInv
<1>3. CASE NextFile
  <2>1. Done \/ job'.pc = "next"
    BY <1>1, <1>3 DEF NextFile, Jobs
  <2> QED  BY <1>2, <2>1 DEF WriterInv
<1> QED  BY <1>2, <1>3

LEMMA KeptStep == TypeInv /\ KeptInv /\ ~ViewDeleted /\ [Next]_vars => KeptInv'
<1> SUFFICES ASSUME TypeInv, KeptInv, ~ViewDeleted, [Next]_vars PROVE KeptInv'
  OBVIOUS
<1>a. TypeOK /\ JobInv /\ LatestKept /\ WriterInv
  BY DEF TypeInv, KeptInv
<1>b. job.pc # "idle" => job \in Jobs
  BY <1>a, BusyJob
\* Steps that neither change a card nor write to one.
<1>c. ASSUME UNCHANGED <<log, kept>> PROVE LatestKept'
  BY <1>a, <1>c DEF LatestKept
<1>d. ASSUME UNCHANGED <<log, kept>>, job'.pc \in {"idle", "next"} \/ job' = job PROVE KeptInv'
  BY <1>a, <1>c, <1>d DEF KeptInv, WriterInv, Last, Name
<1>1. CASE SaveNext
  <2>1. job \in Jobs /\ job.pc = "next" /\ job.cmd = "save" /\ UNCHANGED <<log, kept>>
    BY <1>1, <1>b DEF SaveNext, At, Card
  <2>2. Done \/ (job'.pc = "find" /\ job'.cmd = "save")
    BY <1>1, <2>1 DEF SaveNext, Jobs
  <2>3. CASE Done
    BY <1>d, <2>1, <2>3 DEF Done, NoJob
  <2> QED  BY <1>c, <2>1, <2>2, <2>3 DEF KeptInv, WriterInv
<1>2. CASE CopyNext
  <2>1. job \in Jobs /\ job.pc = "next" /\ job.cmd = "copy" /\ UNCHANGED <<log, kept>>
    BY <1>2, <1>b DEF CopyNext, At, Card
  <2>2. Done \/ NextFile \/ (job'.pc = "find" /\ job'.cmd = "copy")
    BY <1>2, <2>1 DEF CopyNext, Jobs
  <2>3. CASE Done \/ NextFile
    BY <1>a, <1>c, <2>1, <2>3, LoopInv DEF KeptInv
  <2> QED  BY <1>c, <2>1, <2>2, <2>3 DEF KeptInv, WriterInv
<1>3. CASE FindFile
  <2> DEFINE i == Find(log[job.slot], Name)
             ptr == IF i = 0 THEN None ELSE PointerTo(job.slot, i)
             pc == IF i = 0 \/ job.overwrite THEN "write" ELSE "prompt"
  <2>1. job \in Jobs /\ job.pc = "find" /\ job.slot \in Slots /\ UNCHANGED <<log, kept>>
    BY <1>3, <1>b DEF FindFile, Jobs, Card
  <2>2. log[job.slot] \in Seq(Entry)
    BY <1>a, <2>1 DEF TypeOK
  <2>3. i # 0 => log[job.slot][i].name = Name
    BY <2>2, FindIsHit
  <2>4. ptr # None => ptr.at = i /\ i # 0
    BY DEF PointerTo, None
  <2>5. job' = [job EXCEPT !.flentry = ptr, !.pc = pc]
    BY <1>3 DEF FindFile
  <2>6. pc \in {"write", "prompt"}
    OBVIOUS
  <2> HIDE DEF i, ptr, pc
  <2>7. /\ job'.pc = pc /\ job'.flentry = ptr /\ job'.cmd = job.cmd /\ job'.slot = job.slot
        /\ job'.from = job.from /\ job'.at = job.at /\ job'.file = job.file
    BY <2>1, <2>5 DEF Jobs
  <2> QED
    BY <1>a, <1>c, <2>1, <2>3, <2>4, <2>6, <2>7 DEF KeptInv, WriterInv, Name, Last
<1>4. CASE Prompt
  <2>1. job \in Jobs /\ job.pc = "prompt" /\ UNCHANGED <<log, kept>>
    BY <1>4, <1>b DEF Prompt, Card
  <2>2. CASE NextFile
    BY <1>a, <1>c, <2>1, <2>2, LoopInv DEF KeptInv, JobInv
  <2>3. CASE Goto("lost") \/ Goto("write")
    BY <1>a, <1>c, <2>1, <2>3, GotoFields DEF KeptInv, WriterInv, Name, Last
  <2> QED  BY <1>4, <2>2, <2>3 DEF Prompt
<1>5. CASE WriteHeader
  <2>1. job \in Jobs /\ job.pc = "write" /\ job.slot \in Slots /\ job.from \in Slots
    BY <1>5, <1>b DEF WriteHeader, Jobs
  <2>2. UNCHANGED kept
    BY <1>5 DEF WriteHeader
  <2>3. CASE Done /\ UNCHANGED log
    BY <1>d, <2>2, <2>3 DEF Done, NoJob
  <2>4. CASE AppendEntry
    <3> DEFINE e == [name |-> Name, data |-> job.file[2], done |-> FALSE,
                     live |-> job.cmd = "quickcopy" => log[job.from][job.at].live]
    <3>1. job.file \in Names \X Images
      BY <1>a, <2>1 DEF JobInv
    <3>2. e \in Entry
      BY <1>a, <2>1, <3>1 DEF Entry, Name
    <3>3. e.name = Name /\ ~e.done /\ e.live
      BY <1>a, <2>1 DEF WriterInv
    <3>4. log' = [log EXCEPT ![job.slot] = Append(@, e)]
      BY <2>4 DEF AppendEntry
    <3> HIDE DEF e
    <3>5. /\ Len(log'[job.slot]) = Len(log[job.slot]) + 1
          /\ log'[job.slot][Len(log[job.slot]) + 1] = e
          /\ \A t \in Slots \ {job.slot} : log'[t] = log[t]
          /\ \A k \in 1..Len(log[job.slot]) : log'[job.slot][k] = log[job.slot][k]
          /\ log' \in [Slots -> Seq(Entry)]
      BY <1>a, <2>1, <3>2, <3>4, AppendKeeps DEF TypeOK
    <3>6. /\ job'.pc = "image" /\ job'.cmd = job.cmd /\ job'.slot = job.slot
          /\ job'.file = job.file /\ job'.flentry = job.flentry
      BY <1>a, <2>1, <2>4, GotoFields DEF AppendEntry
    <3>7. LatestKept'
      <4> SUFFICES ASSUME NEW s \in Slots, NEW n \in Names, kept[s][n] # 0
                   PROVE  /\ kept[s][n] \in DOMAIN log'[s]
                          /\ log'[s][kept[s][n]].name = n
                          /\ log'[s][kept[s][n]].done /\ log'[s][kept[s][n]].live
        BY <2>2 DEF LatestKept
      <4>1. /\ kept[s][n] \in 1..Len(log[s]) /\ log[s][kept[s][n]].name = n
            /\ log[s][kept[s][n]].done /\ log[s][kept[s][n]].live
        BY <1>a DEF LatestKept, TypeOK
      <4>2. log'[s][kept[s][n]] = log[s][kept[s][n]]
        BY <2>1, <3>5, <4>1
      <4>3. kept[s][n] \in DOMAIN log'[s]
        <5>1. log[s] \in Seq(Entry) /\ log'[s] \in Seq(Entry)
          BY <1>a, <3>5 DEF TypeOK
        <5>2. Len(log'[s]) >= Len(log[s])
          BY <3>5, <5>1
        <5> QED  BY <4>1, <5>1, <5>2
      <4> QED  BY <4>1, <4>2, <4>3
    <3>8. Len(log[job.slot]) \in Nat
      BY <1>a, <2>1 DEF TypeOK
    <3>9. job.flentry # None =>
            /\ job.flentry.at \in 1..Len(log[job.slot])
            /\ log[job.slot][job.flentry.at].name = Name
      BY <1>a, <2>1 DEF JobInv, WriterInv, Jobs, Pointer
    <3>10. log'[job.slot][Len(log'[job.slot])] = e
      BY <3>5
    <3>11. job.flentry # None =>
             /\ job.flentry.at < Len(log'[job.slot])
             /\ log'[job.slot][job.flentry.at].name = Name
      BY <3>5, <3>8, <3>9
    <3> QED
      BY <3>3, <3>6, <3>7, <3>10, <3>11 DEF KeptInv, WriterInv, Name, Last
  <2> QED  BY <1>5, <2>3, <2>4 DEF WriteHeader
<1>6. ASSUME GiveUp, job.pc \in {"write", "mark"}, LatestKept' PROVE KeptInv'
  <2>1. CASE Done
    BY <1>6, <2>1 DEF Done, NoJob, KeptInv, WriterInv
  <2>2. CASE job.cmd = "save" /\ Goto("failed")
    BY <1>a, <1>6, <2>2, GotoFields DEF KeptInv, WriterInv
  <2> QED  BY <1>6, <2>1, <2>2 DEF GiveUp
<1>7. CASE HeaderError
  BY <1>c, <1>6, <1>7 DEF HeaderError, Card
<1>8. CASE WriteImage
  <2>1. job \in Jobs /\ job.pc = "image" /\ job.slot \in Slots /\ job.file \in Names \X Images
    BY <1>8, <1>a, <1>b DEF WriteImage, Jobs, JobInv
  <2> DEFINE m == Len(log[job.slot])
  <2>2. m \in 1..Len(log[job.slot]) /\ m \in Nat /\ m # 0 /\ Len(log[job.slot]) = m
    BY <1>a, <2>1 DEF TypeOK, JobInv
  <2>3. log' = [log EXCEPT ![job.slot][m].done = TRUE]
    BY <1>8 DEF WriteImage
  <2>4. log[job.slot][m].name = Name /\ log[job.slot][m].live
    BY <1>a, <2>1 DEF WriterInv, Last
  <2>5. Name \in Names
    BY <2>1 DEF Name
  <2>6. kept' = [kept EXCEPT ![job.slot][Name] = m]
    BY <1>8, <2>4 DEF WriteImage
  <2>7. job.flentry # None =>
            /\ job.flentry.at \in 1..Len(log[job.slot]) /\ job.flentry.at < m
            /\ log[job.slot][job.flentry.at].name = Name
    BY <1>a, <2>1 DEF JobInv, WriterInv, Jobs, Pointer
  <2> HIDE DEF m
  <2>8. /\ \A t \in Slots :
             /\ Len(log'[t]) = Len(log[t])
             /\ \A k \in 1..Len(log[t]) :
                  /\ log'[t][k].name = log[t][k].name
                  /\ log'[t][k].live = log[t][k].live
                  /\ t # job.slot \/ k # m => log'[t][k] = log[t][k]
                  /\ t = job.slot /\ k = m => log'[t][k].done
        /\ log' \in [Slots -> Seq(Entry)]
    <3>1. log \in [Slots -> Seq(Entry)]
      BY <1>a DEF TypeOK
    <3>2. m \in 1..Len(log[job.slot]) /\ job.slot \in Slots
      BY <2>1, <2>2
    <3>3. /\ log' \in [Slots -> Seq(Entry)]
          /\ \A t \in Slots :
               /\ Len(log'[t]) = Len(log[t])
               /\ \A k \in 1..Len(log[t]) :
                    /\ log'[t][k].name = log[t][k].name
                    /\ log'[t][k].data = log[t][k].data
                    /\ log'[t][k].live = log[t][k].live
                    /\ t # job.slot \/ k # m => log'[t][k] = log[t][k]
                    /\ t = job.slot /\ k = m => log'[t][k].done
      BY ZenonT(30), <2>3, <3>1, <3>2, FinishEntry
    <3> QED  BY <3>3
  <2>9. \A s \in Slots, n \in Names :
            kept'[s][n] = IF s = job.slot /\ n = Name THEN m ELSE kept[s][n]
    BY <1>a, <2>1, <2>5, <2>6 DEF TypeOK
  <2>10. LatestKept'
    <3> SUFFICES ASSUME NEW s \in Slots, NEW n \in Names, kept'[s][n] # 0
                 PROVE  /\ kept'[s][n] \in DOMAIN log'[s]
                        /\ log'[s][kept'[s][n]].name = n
                        /\ log'[s][kept'[s][n]].done /\ log'[s][kept'[s][n]].live
      BY DEF LatestKept
    <3>1. DOMAIN log'[s] = 1..Len(log[s]) /\ DOMAIN log[s] = 1..Len(log[s])
      BY <1>a, <2>8 DEF TypeOK
    <3>2. CASE s = job.slot /\ n = Name
      BY <2>2, <2>8, <2>4, <2>9, <3>1, <3>2
    <3>3. CASE ~ (s = job.slot /\ n = Name)
      <4>1. /\ kept[s][n] \in 1..Len(log[s]) /\ log[s][kept[s][n]].name = n
            /\ log[s][kept[s][n]].done /\ log[s][kept[s][n]].live
        BY <1>a, <2>9, <3>1, <3>3 DEF LatestKept
      <4>2. log'[s][kept[s][n]].done
        BY <2>8, <4>1
      <4> QED  BY <2>8, <2>9, <3>1, <3>3, <4>1, <4>2
    <3> QED  BY <3>2, <3>3
  <2>11. /\ job'.pc = "replace" /\ job'.cmd = job.cmd /\ job'.slot = job.slot
        /\ job'.file = job.file /\ job'.flentry = job.flentry
    BY <1>8, <1>a, <2>1, GotoFields DEF WriteImage
  <2>12. Len(log'[job.slot]) = m /\ log'[job.slot][m].name = Name /\ log'[job.slot][m].live
    BY <2>1, <2>2, <2>8, <2>4
  <2>13. job.flentry # None => log'[job.slot][job.flentry.at].name = Name
    BY <2>1, <2>8, <2>7
  <2>14. kept'[job.slot][Name] = m
    BY <2>1, <2>5, <2>9
  <2> QED
    BY <2>10, <2>11, <2>7, <2>12, <2>13, <2>14 DEF KeptInv, WriterInv, Name, Last
<1>9. CASE ImageError
  <2>1. job.pc = "image" /\ Goto("mark") /\ UNCHANGED <<log, kept>>
    BY <1>9 DEF ImageError, Card
  <2> QED  BY <1>a, <1>c, <2>1, GotoFields DEF KeptInv, WriterInv, Name, Last
\* Erasing any entry that is not the newest of its name.
<1>e. ASSUME NEW s \in Slots, NEW i \in 1..Len(log[s]), Erase(s, i), UNCHANGED kept,
             \A n \in Names : kept[s][n] # i
      PROVE  LatestKept'
  <2>1. \A t \in Slots : \A k \in 1..Len(log[t]) :
            Len(log'[t]) = Len(log[t]) /\ (t # s \/ k # i => log'[t][k] = log[t][k])
    BY <1>a, <1>e, EraseEntry DEF TypeOK
  <2>2. log' \in [Slots -> Seq(Entry)]
    BY <1>a, <1>e, EraseEntry DEF TypeOK
  <2>3. \A t \in Slots : DOMAIN log[t] = 1..Len(log[t]) /\ DOMAIN log'[t] = 1..Len(log'[t])
    BY <1>a, <2>2 DEF TypeOK
  <2> QED  BY SMTT(30), <1>a, <1>e, <2>1, <2>3 DEF LatestKept
<1>10. CASE MarkDeleted
  <2>1. job \in Jobs /\ job.pc = "mark" /\ job.slot \in Slots
    BY <1>10, <1>b DEF MarkDeleted, Jobs
  <2>2. Len(log[job.slot]) \in 1..Len(log[job.slot])
    BY <1>a, <2>1 DEF TypeOK, JobInv
  <2>3. ~log[job.slot][Len(log[job.slot])].done
    BY <1>a, <2>1 DEF WriterInv, Last
  <2>4. \A n \in Names : kept[job.slot][n] # Len(log[job.slot])
    BY <1>a, <2>1, <2>2, <2>3 DEF LatestKept
  <2>5. UNCHANGED kept /\ GiveUp
    BY <1>10 DEF MarkDeleted
  <2>6. LatestKept'
    <3>1. CASE Erase(job.slot, Len(log[job.slot]))
      BY <1>e, <2>1, <2>2, <2>4, <2>5, <3>1
    <3>2. CASE UNCHANGED log
      BY <1>c, <2>5, <3>2
    <3> QED  BY <1>10, <3>1, <3>2 DEF MarkDeleted, DeletesEntry
  <2> QED  BY <1>6, <2>1, <2>5, <2>6
<1>11. CASE Retry
  <2>1. job \in Jobs /\ job.pc = "failed" /\ Goto("find") /\ UNCHANGED <<log, kept>>
    BY <1>11, <1>b DEF Retry, At, Card
  <2>2. job'.pc = "find" /\ job'.cmd = job.cmd
    BY <1>a, <2>1, GotoFields
  <2>3. job.cmd = "save"
    BY <1>11 DEF Retry, At
  <2> QED  BY <1>c, <2>1, <2>2, <2>3 DEF KeptInv, WriterInv
<1>12. CASE DeleteOldFile
  <2>1. job \in Jobs /\ job.pc = "replace" /\ job.slot \in Slots /\ job.file \in Names \X Images
    BY <1>12, <1>a, <1>b DEF DeleteOldFile, Jobs, JobInv
  <2>2. UNCHANGED kept /\ (NextFile \/ Done)
    BY <1>12 DEF DeleteOldFile
  <2>3. LatestKept'
    <3>1. CASE UNCHANGED log
      BY <1>c, <2>2, <3>1
    <3>2. CASE job.flentry # None /\ Erase(job.flentry.slot, job.flentry.at)
      <4>1. /\ job.flentry.slot = job.slot /\ job.flentry.at \in 1..Len(log[job.slot])
            /\ log[job.slot][job.flentry.at].name = Name
            /\ job.flentry.at < Len(log[job.slot])
            /\ kept[job.slot][Name] = Len(log[job.slot])
        BY <1>a, <2>1, <3>2 DEF JobInv, WriterInv, Jobs, Pointer
      <4>2. kept[job.slot][Name] # job.flentry.at
        BY <1>a, <2>1, <4>1 DEF TypeOK
      <4>3. ASSUME NEW n \in Names, kept[job.slot][n] = job.flentry.at PROVE FALSE
        <5>1. n = Name
          BY <1>a, <2>1, <4>1, <4>3 DEF LatestKept
        <5> QED  BY <4>2, <4>3, <5>1
      <4> QED  BY <1>e, <2>1, <2>2, <3>2, <4>1, <4>3
    <3> QED  BY <1>12, <3>1, <3>2 DEF DeleteOldFile
  <2>4. job.cmd # "restore"
    BY <1>a, <2>1 DEF JobInv
  <2> QED  BY <1>a, <2>1, <2>2, <2>3, <2>4, LoopInv DEF KeptInv
<1>13. CASE RestoreNext
  <2>1. job.pc = "next" /\ UNCHANGED <<log, kept>> /\ (NextFile \/ Done)
    BY <1>13 DEF RestoreNext, At, Card
  <2> QED  BY <1>a, <1>c, <2>1, LoopInv DEF KeptInv
<1>14. ASSUME NEW cmd, NEW s, NEW t, NEW at, NEW names, NEW o, Start(cmd, s, t, at, names, o)
       PROVE  KeptInv'
  <2>1. job'.pc = "next" /\ UNCHANGED <<log, kept>>
    BY <1>14 DEF Start, Card
  <2> QED  BY <1>d, <2>1
<1>15. ASSUME NEW s \in Slots, NEW t \in Slots, NEW i \in DOMAIN log[s], QuickCopyFile(s, t, i)
       PROVE  KeptInv'
  <2>1. /\ job'.pc = "find" /\ job'.from = s /\ job'.at = i
        /\ log[s][i].live /\ UNCHANGED <<log, kept>>
    BY <1>15 DEF QuickCopyFile, Card
  <2> QED  BY <1>c, <2>1 DEF KeptInv, WriterInv
<1>16. ASSUME NEW s \in Slots, NEW i \in DOMAIN log[s], DeleteFile(s, i)
       PROVE  KeptInv'
  <2>1. job.pc = "idle" /\ UNCHANGED job
    BY <1>16 DEF DeleteFile, Idle
  <2>2. i \in 1..Len(log[s])
    BY <1>a DEF TypeOK
  <2>3. LatestKept'
    <3>1. CASE UNCHANGED <<log, kept>>
      BY <1>c, <3>1
    <3>2. CASE /\ Erase(s, i)
               /\ kept' = [kept EXCEPT ![s] = [n \in Names |-> IF @[n] = i THEN 0 ELSE @[n]]]
      <4>1. \A t \in Slots : \A k \in 1..Len(log[t]) :
                Len(log'[t]) = Len(log[t]) /\ (t # s \/ k # i => log'[t][k] = log[t][k])
        BY <1>a, <2>2, <3>2, EraseEntry DEF TypeOK
      <4>2. log' \in [Slots -> Seq(Entry)]
        BY <1>a, <2>2, <3>2, EraseEntry DEF TypeOK
      <4>3. \A t \in Slots : DOMAIN log[t] = 1..Len(log[t]) /\ DOMAIN log'[t] = 1..Len(log'[t])
        BY <1>a, <4>2 DEF TypeOK
      <4>4. \A t \in Slots, n \in Names :
                kept'[t][n] # 0 => kept'[t][n] = kept[t][n] /\ (t # s \/ kept'[t][n] # i)
        BY <1>a, <3>2 DEF TypeOK
      <4> QED  BY <1>a, <4>1, <4>3, <4>4 DEF LatestKept
    <3> QED  BY <1>16, <3>1, <3>2 DEF DeleteFile
  <2> QED  BY <2>1, <2>3 DEF KeptInv, WriterInv
<1>17. CASE Abort \/ Reset
  BY <1>d, <1>17 DEF Abort, Reset, Done, NoJob, Card
<1>18. ASSUME UNCHANGED <<log, kept, job>> PROVE KeptInv'
  BY <1>d, <1>18
<1>19. CASE Step
  BY <1>1, <1>2, <1>3, <1>4, <1>5, <1>7, <1>8, <1>9, <1>10, <1>11, <1>12, <1>13, <1>19 DEF Step
<1>20. CASE User
  <2>1. ASSUME NEW n \in Names, NEW d \in Contents \union {NoFile}, EditRam(n, d)
        PROVE  KeptInv'
    BY <1>18, <2>1 DEF EditRam, Card
  <2>2. ASSUME NEW s \in Slots, NEW n \in Names, NEW i \in DOMAIN log[s], FetchFile(s, i, n)
        PROVE  KeptInv'
    BY <1>18, <2>2 DEF FetchFile, Card
  <2>3. ASSUME NEW s \in Slots, NEW names \in SUBSET Names, NEW o \in BOOLEAN,
               StartSave(s, names, o)
        PROVE  KeptInv'
    BY <1>14, <2>3 DEF StartSave
  <2>4. ASSUME NEW s \in Slots, NEW t \in Slots, NEW o \in BOOLEAN, StartCopy(s, t, o)
        PROVE  KeptInv'
    BY <1>14, <2>4 DEF StartCopy
  <2>5. ASSUME NEW s \in Slots, NEW o \in BOOLEAN, StartRestore(s, o)
        PROVE  KeptInv'
    BY <1>14, <2>5 DEF StartRestore
  <2> QED  BY <1>15, <1>16, <1>17, <1>20, <2>1, <2>2, <2>3, <2>4, <2>5 DEF User
<1>21. CASE UNCHANGED vars
  BY <1>18, <1>21 DEF vars
<1> QED  BY <1>19, <1>20, <1>21 DEF Next

\* Whatever fails, and wherever a command is cut off, the newest complete file of
\* each name stays on its card, active, until the user deletes it - unless deleted
\* files are copied.  A command may do no more than leave old files active beside it.
THEOREM LatestIsKept ==
    ASSUME ~ViewDeleted
    PROVE  Spec => []LatestKept
<1>1. Init => TypeInv /\ KeptInv
  BY TypeInit, KeptInit
<1>2. (TypeInv /\ KeptInv) /\ [Next]_vars => (TypeInv /\ KeptInv)'
  BY TypeStep, KeptStep
<1>3. TypeInv /\ KeptInv => LatestKept
  BY DEF KeptInv
<1> QED  BY <1>1, <1>2, <1>3, PTL DEF Spec

----------------------------------------------------------------------------
(* Every card is a file log *)

Write(s) == job.pc = "image" /\ job.slot = s
LogStep(s) == Slot(s)!Next \/ UNCHANGED Slot(s)!vars

LEMMA CardInit ==
    ASSUME Init, NEW s \in Slots
    PROVE  Slot(s)!Init
<1>1. /\ log[s] = <<>> /\ free[s] = Capacity[s] /\ Capacity[s] \in Nat
      /\ ~(job.pc = "image" /\ job.slot = s)
  BY StoreAssumption DEF Init, NoJob
<1> QED  BY <1>1 DEF Slot!Init

\* A step that leaves the entries and the free space of a card alone at most closes
\* the entry that is being written there.
LEMMA IdleCard ==
    ASSUME NEW s, log'[s] = log[s], free'[s] = free[s], ~Write(s)' \/ (Write(s)' <=> Write(s))
    PROVE  LogStep(s)
<1>1. CASE Write(s)' <=> Write(s)
  <2>1. UNCHANGED Slot(s)!vars
    BY <1>1 DEF Slot!vars, Write
  <2> QED  BY <2>1 DEF LogStep
<1>2. CASE Write(s) /\ ~Write(s)'
  <2>1. Slot(s)!Close
    BY <1>2 DEF Slot!Close, Write
  <2> QED  BY <2>1 DEF LogStep, Slot!Next
<1> QED  BY <1>1, <1>2

\* Marking an entry as deleted is a step of its card and of no other.
LEMMA EraseIsMark ==
    ASSUME TypeOK, NEW s \in Slots, NEW i \in 1..Len(log[s]), Erase(s, i), UNCHANGED free,
           job.pc # "image", job'.pc # "image", NEW t \in Slots
    PROVE  LogStep(t)
<1>1. ~Write(t) /\ ~Write(t)'
  BY DEF Write
<1>2. CASE t = s
  <2>1. log'[s] = [log[s] EXCEPT ![i].live = FALSE] /\ i \in DOMAIN log[s]
    BY DEF Erase, TypeOK
  <2>2. UNCHANGED (job.pc = "image" /\ job.slot = s)
    BY <1>1, <1>2 DEF Write
  <2>3. Slot(s)!MarkDeleted(i)
    BY <1>1, <1>2, <2>1, <2>2 DEF Slot!MarkDeleted, Write
  <2> QED  BY <1>2, <2>1, <2>3 DEF LogStep, Slot!Next
<1>3. CASE t # s
  <2>1. log'[t] = log[t] /\ free'[t] = free[t]
    BY <1>3 DEF Erase, TypeOK
  <2> QED  BY <1>1, <2>1, IdleCard
<1> QED  BY <1>2, <1>3

LEMMA CardStep ==
    ASSUME TypeInv, KeptInv, ~ViewDeleted, Next, NEW s \in Slots
    PROVE  LogStep(s)
<1>a. TypeOK /\ JobInv /\ WriterInv
  BY DEF TypeInv, KeptInv
<1>b. job.pc # "idle" => job \in Jobs
  BY <1>a, BusyJob
<1>c. ASSUME UNCHANGED <<log, free>>, job'.pc # "image" PROVE LogStep(s)
  BY <1>c, IdleCard DEF Write
<1>d. ASSUME UNCHANGED <<log, free>>, UNCHANGED job PROVE LogStep(s)
  BY <1>d, IdleCard DEF Write
<1>e. Done => job'.pc # "image"
  BY DEF Done, NoJob
<1>f. ASSUME job.pc \notin {"idle", "image"}, NextFile PROVE job'.pc # "image"
  <2>1. Done \/ job'.pc = "next" \/ job'.pc = job.pc
    BY <1>b, <1>f DEF NextFile, Jobs
  <2> QED  BY <1>e, <1>f, <2>1
<1>g. job.pc # "idle" /\ GiveUp => job'.pc # "image"
  BY <1>a, <1>e, GotoFields DEF GiveUp
<1>1. CASE SaveNext \/ CopyNext \/ RestoreNext
  <2>1. job \in Jobs /\ job.pc = "next" /\ UNCHANGED <<log, free>>
    BY <1>1, <1>b DEF SaveNext, CopyNext, RestoreNext, At, Card
  <2>2. Done \/ NextFile \/ job'.pc = "find"
    <3>1. CASE SaveNext
      BY <2>1, <3>1 DEF SaveNext, Jobs
    <3>2. CASE CopyNext
      BY <2>1, <3>2 DEF CopyNext, Jobs
    <3>3. CASE RestoreNext
      BY <3>3 DEF RestoreNext
    <3> QED  BY <1>1, <3>1, <3>2, <3>3
  <2>3. job'.pc # "image"
    BY <1>e, <1>f, <2>1, <2>2
  <2> QED  BY <1>c, <2>1, <2>3
<1>2. CASE FindFile
  <2>1. job \in Jobs /\ UNCHANGED <<log, free>>
    BY <1>2, <1>b DEF FindFile, Card
  <2>2. job'.pc \in {"write", "prompt"}
    BY <1>2, <2>1 DEF FindFile, Jobs
  <2> QED  BY <1>c, <2>1, <2>2
<1>3. CASE Prompt
  <2>1. job.pc = "prompt" /\ UNCHANGED <<log, free>>
        /\ (NextFile \/ Goto("lost") \/ Goto("write"))
    BY <1>3 DEF Prompt, Card
  <2>2. job'.pc # "image"
    BY <1>a, <1>f, <2>1, GotoFields
  <2> QED  BY <1>c, <2>1, <2>2
<1>4. CASE WriteHeader
  <2>1. /\ job \in Jobs /\ job.pc = "write" /\ job.slot \in Slots /\ job.from \in Slots
        /\ job.file \in Names \X Images
    BY <1>4, <1>a, <1>b DEF WriteHeader, Jobs, JobInv
  <2>2. CASE Done /\ UNCHANGED <<log, free>>
    BY <1>c, <1>e, <2>2
  <2>3. CASE Size <= free[job.slot] /\ AppendEntry
    <3> DEFINE e == [name |-> Name, data |-> job.file[2], done |-> FALSE, live |-> TRUE]
    <3>1. Name \in Names /\ job.file[2] \in Images
      BY <2>1 DEF Name
    <3>2. job.cmd = "quickcopy" => log[job.from][job.at].live
      BY <1>a, <2>1 DEF WriterInv
    <3>3. log[job.from][job.at].live \in BOOLEAN \/ job.cmd # "quickcopy"
      <4> SUFFICES ASSUME job.cmd = "quickcopy" PROVE log[job.from][job.at].live \in BOOLEAN
        OBVIOUS
      <4>1. log[job.from] \in Seq(Entry) /\ job.at \in 1..Len(log[job.from])
        BY <1>a, <2>1 DEF TypeOK, JobInv, Jobs
      <4>2. log[job.from][job.at] \in Entry
        BY <4>1
      <4> QED  BY <4>2 DEF Entry
    <3>4. (job.cmd = "quickcopy" => log[job.from][job.at].live) = TRUE
      BY <3>2, <3>3
    <3>5. log' = [log EXCEPT ![job.slot] = Append(@, e)] /\ free' = [free EXCEPT ![job.slot] = @ - Size]
      BY <2>3, <3>4 DEF AppendEntry
    <3> HIDE DEF e
    <3>6. job'.pc = "image" /\ job'.slot = job.slot
      BY <1>a, <2>1, <2>3, GotoFields DEF AppendEntry
    <3>7. CASE s = job.slot
      <4>1. log'[s] = Append(log[s], e) /\ free'[s] = free[s] - Size /\ Size <= free[s]
        BY <1>a, <2>3, <3>5, <3>7 DEF TypeOK
      <4>2. ~Write(s) /\ Write(s)'
        BY <2>1, <3>6, <3>7 DEF Write
      <4>3. Slot(s)!Create(Name, job.file[2])
        BY <4>1, <4>2 DEF Slot!Create, Write, Size, e
      <4> QED  BY <3>1, <4>3 DEF LogStep, Slot!Next
    <3>8. CASE s # job.slot
      <4>1. log'[s] = log[s] /\ free'[s] = free[s]
        BY <1>a, <3>5, <3>8 DEF TypeOK
      <4>2. ~Write(s)'
        BY <3>6, <3>8 DEF Write
      <4> QED  BY <4>1, <4>2, IdleCard
    <3> QED  BY <3>7, <3>8
  <2>4. free[job.slot] \in Nat /\ Size \in Nat
    BY <1>a, <2>1, StoreAssumption DEF TypeOK, Size, Name
  <2> QED  BY <1>4, <2>2, <2>3, <2>4 DEF WriteHeader
<1>5. CASE HeaderError \/ ImageError \/ Retry
  <2>1. UNCHANGED <<log, free>> /\ job.pc # "idle" /\ (GiveUp \/ Goto("mark") \/ Goto("find"))
    BY <1>5 DEF HeaderError, ImageError, Retry, At, Card
  <2>2. job'.pc # "image"
    BY <1>a, <1>g, <2>1, GotoFields
  <2> QED  BY <1>c, <2>1, <2>2
<1>6. CASE WriteImage
  <2> DEFINE m == Len(log[job.slot])
  <2>1. /\ job.slot \in Slots /\ job.pc = "image" /\ UNCHANGED free
        /\ m >= 1 /\ log' = [log EXCEPT ![job.slot][m].done = TRUE]
    BY <1>6, <1>a, <1>b DEF WriteImage, Jobs, JobInv
  <2>2. job'.pc = "replace"
    BY <1>6, <1>a, <2>1, GotoFields DEF WriteImage
  <2>3. CASE s = job.slot
    <3>1. log'[s] = [log[s] EXCEPT ![Len(log[s])].done = TRUE] /\ log[s] # <<>>
      <4>1. log \in [Slots -> Seq(Entry)] /\ s \in Slots /\ Len(log[s]) >= 1
        BY <1>a, <2>1, <2>3 DEF TypeOK
      <4>2. log' = [log EXCEPT ![s] = [log[s] EXCEPT ![Len(log[s])].done = TRUE]]
        BY <2>1, <2>3
      <4> QED  BY <4>1, <4>2
    <3>2. Slot(s)!Complete
      BY <2>1, <2>2, <2>3, <3>1 DEF Slot!Complete
    <3> QED  BY <3>2 DEF LogStep, Slot!Next
  <2>4. CASE s # job.slot
    <3>1. log'[s] = log[s] /\ free'[s] = free[s]
      BY <1>a, <2>1, <2>4 DEF TypeOK
    <3>2. ~Write(s)'
      BY <2>2 DEF Write
    <3> QED  BY <3>1, <3>2, IdleCard
  <2> QED  BY <2>3, <2>4
<1>7. CASE MarkDeleted
  <2> DEFINE m == Len(log[job.slot])
  <2>1. /\ job.slot \in Slots /\ job.pc = "mark" /\ m \in 1..Len(log[job.slot])
    BY <1>7, <1>a, <1>b DEF MarkDeleted, Jobs, JobInv, TypeOK
  <2>2. job'.pc # "image" /\ UNCHANGED free /\ (Erase(job.slot, m) \/ UNCHANGED log)
    BY <1>7, <1>g, <2>1 DEF MarkDeleted, DeletesEntry
  <2> HIDE DEF m
  <2> QED  BY <1>a, <1>c, <2>1, <2>2, EraseIsMark
<1>8. CASE DeleteOldFile
  <2>1. job \in Jobs /\ job.pc = "replace" /\ UNCHANGED free /\ (NextFile \/ Done)
    BY <1>8, <1>b DEF DeleteOldFile
  <2>2. job'.pc # "image"
    BY <1>e, <1>f, <2>1
  <2>3. CASE UNCHANGED log
    BY <1>c, <2>1, <2>2, <2>3
  <2>4. CASE job.flentry # None /\ Erase(job.flentry.slot, job.flentry.at)
    <3>1. job.flentry.slot \in Slots /\ job.flentry.at \in 1..Len(log[job.flentry.slot])
      BY <1>a, <2>1, <2>4 DEF JobInv, Jobs, Pointer, TypeOK
    <3> QED  BY <1>a, <2>1, <2>2, <2>4, <3>1, EraseIsMark
  <2> QED  BY <1>8, <2>3, <2>4 DEF DeleteOldFile
<1>9. ASSUME NEW cmd, NEW f, NEW t, NEW at, NEW names, NEW o, Start(cmd, f, t, at, names, o)
      PROVE  LogStep(s)
  BY <1>c, <1>9 DEF Start, Card
<1>10. ASSUME NEW f \in Slots, NEW t \in Slots, NEW i \in DOMAIN log[f], QuickCopyFile(f, t, i)
       PROVE  LogStep(s)
  BY <1>c, <1>10 DEF QuickCopyFile, Card
<1>11. ASSUME NEW t \in Slots, NEW i \in DOMAIN log[t], DeleteFile(t, i)
       PROVE  LogStep(s)
  <2>1. i \in 1..Len(log[t])
    BY <1>a DEF TypeOK
  <2>2. /\ job.pc = "idle" /\ UNCHANGED <<job, free>>
        /\ Erase(t, i) \/ UNCHANGED log
    BY <1>11 DEF DeleteFile, Idle
  <2> QED  BY <1>a, <1>d, <2>1, <2>2, EraseIsMark
<1>12. CASE Abort \/ Reset
  BY <1>c, <1>e, <1>12 DEF Abort, Reset, Card
<1>13. CASE Step
  BY <1>1, <1>2, <1>3, <1>4, <1>5, <1>6, <1>7, <1>8, <1>13 DEF Step
<1>14. CASE User
  <2>1. ASSUME NEW n \in Names, NEW d \in Contents \union {NoFile}, EditRam(n, d)
        PROVE  LogStep(s)
    BY <1>d, <2>1 DEF EditRam, Card
  <2>2. ASSUME NEW t \in Slots, NEW n \in Names, NEW i \in DOMAIN log[t], FetchFile(t, i, n)
        PROVE  LogStep(s)
    BY <1>d, <2>2 DEF FetchFile, Card
  <2>3. ASSUME NEW t \in Slots, NEW names \in SUBSET Names, NEW o \in BOOLEAN,
               StartSave(t, names, o)
        PROVE  LogStep(s)
    BY <1>9, <2>3 DEF StartSave
  <2>4. ASSUME NEW f \in Slots, NEW t \in Slots, NEW o \in BOOLEAN, StartCopy(f, t, o)
        PROVE  LogStep(s)
    BY <1>9, <2>4 DEF StartCopy
  <2>5. ASSUME NEW t \in Slots, NEW o \in BOOLEAN, StartRestore(t, o)
        PROVE  LogStep(s)
    BY <1>9, <2>5 DEF StartRestore
  <2> QED  BY <1>10, <1>11, <1>12, <1>14, <2>1, <2>2, <2>3, <2>4, <2>5 DEF User
<1> QED  BY <1>13, <1>14 DEF Next

\* Every card only goes through steps that a file area allows, whatever command runs, fails
\* or is cut off, as long as deleted files are not copied.
THEOREM StoreImplementsLogs ==
    ASSUME ~ViewDeleted
    PROVE  Spec => ImplementsLogs
<1>1. Init => TypeInv /\ KeptInv
  BY TypeInit, KeptInit
<1>2. (TypeInv /\ KeptInv) /\ [Next]_vars => (TypeInv /\ KeptInv)'
  BY TypeStep, KeptStep
<1>3. Init => \A s \in Slots : Slot(s)!Init
  BY CardInit
<1>4. TypeInv /\ KeptInv /\ [Next]_vars =>
          [\A s \in Slots : Slot(s)!Next \/ UNCHANGED Slot(s)!vars]_vars
  BY CardStep DEF LogStep
<1> QED  BY <1>1, <1>2, <1>3, <1>4, PTL DEF Spec, ImplementsLogs

\* The same, card by card, as the specification of FileLog states it.
THEOREM CardImplementsLog ==
    ASSUME NEW s \in Slots, ~ViewDeleted
    PROVE  Spec => Slot(s)!Spec
<1>1. Init => TypeInv /\ KeptInv
  BY TypeInit, KeptInit
<1>2. (TypeInv /\ KeptInv) /\ [Next]_vars => (TypeInv /\ KeptInv)'
  BY TypeStep, KeptStep
<1>3. Init => Slot(s)!Init
  BY CardInit
<1>4. TypeInv /\ KeptInv /\ [Next]_vars => [Slot(s)!Next]_(Slot(s)!vars)
  <2> SUFFICES ASSUME TypeInv, KeptInv, [Next]_vars
               PROVE  Slot(s)!Next \/ UNCHANGED Slot(s)!vars
    OBVIOUS
  <2>1. CASE UNCHANGED vars
    BY <2>1 DEF vars, Slot!vars
  <2> QED  BY <2>1, CardStep DEF LogStep
<1> QED  BY <1>1, <1>2, <1>3, <1>4, PTL DEF Spec, Slot!Spec

\* What entry i of a card may become: completed if it is the last, or deleted.
Changes(l, i, e, w) ==
    /\ e.name = l[i].name /\ e.data = l[i].data
    /\ l[i].done => e.done
    /\ e.live => l[i].live
    /\ ~l[i].done /\ e.done => w /\ i = Len(l)

LEMMA EntryChanged ==
    ASSUME NEW l \in Seq(Entry), NEW k, NEW w \in BOOLEAN,
           NEW i \in DOMAIN l, NEW e \in Entry, k = [l EXCEPT ![i] = e], Changes(l, i, e, w)
    PROVE  Len(k) >= Len(l) /\ \A j \in DOMAIN l : Changes(l, j, k[j], w)
<1>1. Len(k) = Len(l) /\ Len(l) \in Nat
  OBVIOUS
<1>2. k[i] = e /\ \A j \in DOMAIN l : j # i => k[j] = l[j]
  OBVIOUS
<1> QED  BY <1>1, <1>2 DEF Changes

\* The two action properties of FileLog, of one step and one card.
CardKept(s) ==
    /\ Len(log'[s]) >= Len(log[s])
    /\ \A j \in DOMAIN log[s] :
           Changes(log[s], j, log'[s][j], job.pc = "image" /\ job.slot = s)

LEMMA CardKeeps ==
    ASSUME TypeOK, NEW s \in Slots, LogStep(s)
    PROVE  CardKept(s)
<1> PICK l : l = log[s]
  OBVIOUS
<1> PICK k : k = log'[s]
  OBVIOUS
<1> PICK w \in BOOLEAN : w = (job.pc = "image" /\ job.slot = s)
  OBVIOUS
<1> DEFINE Goal == Len(k) >= Len(l) /\ \A j \in DOMAIN l : Changes(l, j, k[j], w)
<1> SUFFICES Goal
  BY DEF CardKept
<1>1. l \in Seq(Entry) /\ Len(l) \in Nat
  BY DEF TypeOK
<1>2. ASSUME k = l PROVE Goal
  BY ONLY <1>1, <1>2 DEF Changes
<1>3. CASE UNCHANGED Slot(s)!vars
  BY <1>2, <1>3 DEF Slot!vars
<1>4. ASSUME NEW n \in Names, NEW d \in Images, Slot(s)!Create(n, d) PROVE Goal
  <2>1. PICK done \in BOOLEAN :
            k = Append(l, [name |-> n, data |-> d, done |-> done, live |-> TRUE])
    BY <1>4 DEF Slot!Create
  <2>2. Len(k) = Len(l) + 1 /\ \A j \in DOMAIN l : k[j] = l[j]
    BY ONLY <1>1, <2>1
  <2> QED  BY ONLY <1>1, <2>2 DEF Changes
<1>5. CASE Slot(s)!Complete
  <2> PICK m : m = Len(l)
    OBVIOUS
  <2> PICK e : e = [l[m] EXCEPT !.done = TRUE]
    OBVIOUS
  <2>1. w /\ l # <<>> /\ k = [l EXCEPT ![m] = e]
    BY <1>5 DEF Slot!Complete
  <2>2. m \in DOMAIN l /\ l[m] \in Entry
    BY ONLY <1>1, <2>1, m = Len(l)
  <2>3. e \in Entry /\ Changes(l, m, e, w)
    BY ONLY <2>1, <2>2, m = Len(l), e = [l[m] EXCEPT !.done = TRUE] DEF Changes, Entry
  <2> QED  BY ONLY <1>1, <2>1, <2>2, <2>3, EntryChanged, w \in BOOLEAN
<1>6. CASE Slot(s)!Close
  BY <1>2, <1>6 DEF Slot!Close
<1>7. ASSUME NEW i \in DOMAIN log[s], Slot(s)!MarkDeleted(i) PROVE Goal
  <2> PICK e : e = [l[i] EXCEPT !.live = FALSE]
    OBVIOUS
  <2>1. k = [l EXCEPT ![i] = e] /\ i \in DOMAIN l
    BY <1>7 DEF Slot!MarkDeleted
  <2>2. l[i] \in Entry
    BY ONLY <1>1, <2>1
  <2>3. e \in Entry /\ Changes(l, i, e, w)
    BY ONLY <2>2, e = [l[i] EXCEPT !.live = FALSE] DEF Changes, Entry
  <2> QED  BY ONLY <1>1, <2>1, <2>3, EntryChanged, w \in BOOLEAN
<1> QED  BY <1>3, <1>4, <1>5, <1>6, <1>7 DEF LogStep, Slot!Next

\* Whatever command runs, fails or is cut off, the entries of every card keep their places,
\* names and images, do not become incomplete, and do not come back once deleted.
THEOREM CardKeepsEntries ==
    ASSUME NEW s \in Slots, ~ViewDeleted
    PROVE  Spec => Slot(s)!EntriesKept
<1>1. TypeInv /\ [Slot(s)!Next]_(Slot(s)!vars) =>
          [ /\ Len(log[s]') >= Len(log[s])
            /\ \A i \in DOMAIN log[s] : Slot(s)!Kept(log[s][i], log[s]'[i]) ]_(Slot(s)!vars)
  BY CardKeeps DEF CardKept, Changes, LogStep, Slot!Kept, TypeInv
<1>2. Spec => []TypeInv
  <2>1. TypeInv /\ [Next]_vars => TypeInv'
    BY TypeStep
  <2> QED  BY <2>1, TypeInit, PTL DEF Spec
<1> QED  BY <1>1, <1>2, CardImplementsLog, PTL DEF Slot!Spec, Slot!EntriesKept

\* No command goes back to an image that was left incomplete on any card.
THEOREM CardLeavesTornImages ==
    ASSUME NEW s \in Slots, ~ViewDeleted
    PROVE  Spec => Slot(s)!TornStaysTorn
<1>1. TypeInv /\ [Slot(s)!Next]_(Slot(s)!vars) =>
          [ \A i \in DOMAIN log[s] :
                ~log[s][i].done /\ log[s]'[i].done =>
                    (job.pc = "image" /\ job.slot = s) /\ i = Len(log[s]) ]_(Slot(s)!vars)
  BY CardKeeps DEF CardKept, Changes, LogStep, TypeInv
<1>2. Spec => []TypeInv
  <2>1. TypeInv /\ [Next]_vars => TypeInv'
    BY TypeStep
  <2> QED  BY <2>1, TypeInit, PTL DEF Spec
<1> QED  BY <1>1, <1>2, CardImplementsLog, PTL DEF Slot!Spec, Slot!TornStaysTorn

\* The free space of a card is never negative nor more than its area: a copy, a restore or
\* a save only starts an entry that fits.
THEOREM CardSpaceTyped ==
    ASSUME NEW s \in Slots, ~ViewDeleted
    PROVE  Spec => [](free[s] \in 0..Capacity[s])
<1>1. Slot(s)!Init => free[s] \in 0..Capacity[s]
  BY DEF Slot!Init
<1>2. free[s] \in 0..Capacity[s] /\ [Slot(s)!Next]_(Slot(s)!vars) =>
          (free[s] \in 0..Capacity[s])'
  <2> SUFFICES ASSUME free[s] \in 0..Capacity[s], LogStep(s)
               PROVE  free'[s] \in 0..Capacity[s]
    BY DEF LogStep
  <2>1. Capacity[s] \in Nat
    BY StoreAssumption
  <2>2. ASSUME free'[s] = free[s] PROVE free'[s] \in 0..Capacity[s]
    BY <2>2
  <2>3. ASSUME NEW n \in Names, NEW d \in Images, Slot(s)!Create(n, d)
        PROVE  free'[s] \in 0..Capacity[s]
    <3>1. EntrySize(n, d) \in Nat
      BY StoreAssumption
    <3>2. EntrySize(n, d) <= free[s] /\ free'[s] = free[s] - EntrySize(n, d)
      BY <2>3 DEF Slot!Create
    <3> PICK z : z = EntrySize(n, d)
      OBVIOUS
    <3> QED  BY <2>1, <3>1, <3>2
  <2> QED  BY <2>2, <2>3 DEF LogStep, Slot!vars, Slot!Next, Slot!Complete, Slot!Close,
                             Slot!MarkDeleted
<1> QED  BY <1>1, <1>2, CardImplementsLog, PTL DEF Slot!Spec

----------------------------------------------------------------------------
(* The search finds the newest file *)

\* What the theorems of this part assume of the machine: deletion marks can be
\* blown, no command is cut off, no area starts at bank 0, offset 0, and the user
\* does not work on deleted files.  Headers, images and RAM files may fail.
Reliable ==
    /\ "delete" \notin Faults /\ "reset" \notin Faults
    /\ ZeroSlots = {} /\ ~ViewDeleted

\* Between its header and the deletion of the old entry a file is on its card twice.
Writing(s, n) == job.pc \in {"image", "mark", "replace"} /\ job.slot = s /\ Name = n

Newest(s, n) == {kept[s][n]} \ {0}
Old == IF job.flentry = None THEN {} ELSE {job.flentry.at}

\* A name has one active entry, the newest, or none; flentry is that entry while the
\* next one is written, and then there are two.
HitsInv ==
    /\ \A s \in Slots, n \in Names : ~Writing(s, n) => Hits(log[s], n) = Newest(s, n)
    /\ job.pc \in {"prompt", "write", "image", "mark"} => Old = Newest(job.slot, Name)
    /\ job.pc \in {"image", "mark", "replace"} =>
           Hits(log[job.slot], Name) = Old \union {Len(log[job.slot])}

LEMMA FindInHits ==
    ASSUME NEW entries \in Seq(Entry), NEW n
    PROVE  IF Hits(entries, n) = {} THEN Find(entries, n) = 0
           ELSE Find(entries, n) \in Hits(entries, n) /\ Find(entries, n) # 0
<1>1. CASE Hits(entries, n) = {}
  BY <1>1 DEF Find
<1>2. CASE Hits(entries, n) # {}
  <2>1. Hits(entries, n) \subseteq 1..Len(entries)
    BY DEF Hits
  <2>2. \E i \in Hits(entries, n) : \A k \in Hits(entries, n) : i <= k
    BY <1>2, <2>1, LeastElement
  <2>3. Find(entries, n) \in Hits(entries, n)
    BY <1>2, <2>2 DEF Find
  <2> QED  BY <1>2, <2>1, <2>3
<1> QED  BY <1>1, <1>2

LEMMA HitsErased ==
    ASSUME log \in [Slots -> Seq(Entry)], NEW s \in Slots, NEW i \in 1..Len(log[s]), Erase(s, i)
    PROVE  \A t \in Slots, n \in Names :
              Hits(log'[t], n) = Hits(log[t], n) \ (IF t = s THEN {i} ELSE {})
<1> SUFFICES ASSUME NEW t \in Slots, NEW n \in Names
             PROVE  Hits(log'[t], n) = Hits(log[t], n) \ (IF t = s THEN {i} ELSE {})
  OBVIOUS
<1>1. /\ log' \in [Slots -> Seq(Entry)] /\ Len(log'[t]) = Len(log[t])
      /\ \A k \in 1..Len(log[t]) :
            /\ log'[t][k].name = log[t][k].name
            /\ t # s \/ k # i => log'[t][k] = log[t][k]
            /\ t = s /\ k = i => ~log'[t][k].live
  BY EraseEntry
<1>2. DOMAIN log[t] = 1..Len(log[t]) /\ DOMAIN log'[t] = 1..Len(log[t])
  BY <1>1
<1>3. \A k : k \in Hits(log'[t], n) <=> k \in Hits(log[t], n) /\ (t = s => k # i)
  BY <1>1, <1>2 DEF Hits
<1> QED  BY <1>3

LEMMA HitsAppended ==
    ASSUME log \in [Slots -> Seq(Entry)], NEW s \in Slots, NEW e \in Entry,
           log' = [log EXCEPT ![s] = Append(@, e)], e.live = TRUE
    PROVE  \A t \in Slots, n \in Names :
             /\ t = s /\ n = e.name => Hits(log'[t], n) = Hits(log[t], n) \union {Len(log[s]) + 1}
             /\ t # s \/ n # e.name => Hits(log'[t], n) = Hits(log[t], n)
<1> SUFFICES ASSUME NEW t \in Slots, NEW n \in Names
             PROVE  /\ t = s /\ n = e.name =>
                           Hits(log'[t], n) = Hits(log[t], n) \union {Len(log[s]) + 1}
                    /\ t # s \/ n # e.name => Hits(log'[t], n) = Hits(log[t], n)
  OBVIOUS
<1>1. /\ log' \in [Slots -> Seq(Entry)]
      /\ t # s => log'[t] = log[t]
      /\ Len(log'[s]) = Len(log[s]) + 1
      /\ log'[s][Len(log[s]) + 1] = e
      /\ \A k \in 1..Len(log[s]) : log'[s][k] = log[s][k]
  BY AppendKeeps
<1>2. CASE t # s
  BY <1>1, <1>2
<1>3. CASE t = s
  <2>1. DOMAIN log[s] = 1..Len(log[s]) /\ DOMAIN log'[s] = 1..(Len(log[s]) + 1) /\ Len(log[s]) \in Nat
    BY <1>1
  <2>2. \A k : k \in DOMAIN log'[s] <=> k \in DOMAIN log[s] \/ k = Len(log[s]) + 1
    BY <2>1
  <2>3. \A k : k \in Hits(log'[s], n) <=>
            k \in Hits(log[s], n) \/ (k = Len(log[s]) + 1 /\ n = e.name)
    BY <1>1, <2>1, <2>2 DEF Hits
  <2>4. n = e.name => Hits(log'[s], n) = Hits(log[s], n) \union {Len(log[s]) + 1}
    BY <2>3
  <2>5. n # e.name => Hits(log'[s], n) = Hits(log[s], n)
    BY <2>3
  <2> QED  BY <1>3, <2>4, <2>5
<1> QED  BY <1>2, <1>3

LEMMA HitsFinished ==
    ASSUME log \in [Slots -> Seq(Entry)], NEW s \in Slots, NEW i \in 1..Len(log[s]),
           log' = [log EXCEPT ![s][i].done = TRUE]
    PROVE  \A t \in Slots, n \in Names : Hits(log'[t], n) = Hits(log[t], n)
<1> SUFFICES ASSUME NEW t \in Slots, NEW n \in Names
             PROVE  Hits(log'[t], n) = Hits(log[t], n)
  OBVIOUS
<1>1. /\ log' \in [Slots -> Seq(Entry)]
      /\ \A u \in Slots :
           /\ Len(log'[u]) = Len(log[u])
           /\ \A k \in 1..Len(log[u]) :
                /\ log'[u][k].name = log[u][k].name
                /\ log'[u][k].data = log[u][k].data
                /\ log'[u][k].live = log[u][k].live
                /\ u # s \/ k # i => log'[u][k] = log[u][k]
                /\ u = s /\ k = i => log'[u][k].done
  BY ZenonT(30), FinishEntry
<1>2. DOMAIN log[t] = 1..Len(log[t]) /\ DOMAIN log'[t] = 1..Len(log[t])
  BY <1>1
<1>3. \A k : k \in Hits(log'[t], n) <=> k \in Hits(log[t], n)
  BY <1>1, <1>2 DEF Hits
<1> QED  BY <1>3

LEMMA HitsInit == Init => HitsInv
  BY DEF Init, HitsInv, Writing, Newest, Hits, NoJob

LEMMA HitsStep == TypeInv /\ KeptInv /\ HitsInv /\ Reliable /\ [Next]_vars => HitsInv'
<1> SUFFICES ASSUME TypeInv, KeptInv, HitsInv, Reliable, [Next]_vars PROVE HitsInv'
  OBVIOUS
<1> DEFINE Busy == {"image", "mark", "replace"}
<1>a. TypeOK /\ JobInv /\ LatestKept /\ WriterInv
  BY DEF TypeInv, KeptInv
<1>b. job.pc # "idle" => job \in Jobs
  BY <1>a, BusyJob
\* Steps outside of the writing of a file.
<1>c. ASSUME UNCHANGED <<log, kept>>, job.pc \notin Busy,
             job'.pc \in {"idle", "next", "find", "failed", "lost"} PROVE HitsInv'
  BY <1>c DEF HitsInv, Writing, Newest
<1>d. ASSUME UNCHANGED <<log, kept>>, UNCHANGED job PROVE HitsInv'
  BY <1>d DEF HitsInv, Writing, Newest, Old, Name
<1>e. ASSUME UNCHANGED <<log, kept>>, job.pc \notin Busy, Done PROVE HitsInv'
  BY <1>c, <1>e DEF Done, NoJob
<1>f. ASSUME UNCHANGED <<log, kept>>, job.pc \notin Busy, job.pc # "idle", NextFile,
             job.pc = "next" \/ job.cmd # "restore"
      PROVE  HitsInv'
  <2>1. job \in Jobs
    BY <1>b, <1>f
  <2>2. Done \/ job'.pc = "next"
    BY <1>f, <2>1 DEF NextFile, Jobs
  <2> QED  BY <1>c, <1>e, <1>f, <2>2
<1>1. CASE SaveNext
  <2>1. job \in Jobs /\ job.pc = "next" /\ UNCHANGED <<log, kept>>
    BY <1>1, <1>b DEF SaveNext, At, Card
  <2>2. Done \/ job'.pc = "find"
    BY <1>1, <2>1 DEF SaveNext, Jobs
  <2> QED  BY <1>c, <1>e, <2>1, <2>2
<1>2. CASE CopyNext
  <2>1. job \in Jobs /\ job.pc = "next" /\ UNCHANGED <<log, kept>>
    BY <1>2, <1>b DEF CopyNext, At, Card
  <2>2. Done \/ NextFile \/ job'.pc = "find"
    BY <1>2, <2>1 DEF CopyNext, Jobs
  <2> QED  BY <1>c, <1>e, <1>f, <2>1, <2>2
<1>3. CASE FindFile
  <2> DEFINE i == Find(log[job.slot], Name)
             ptr == IF i = 0 THEN None ELSE PointerTo(job.slot, i)
             pc == IF i = 0 \/ job.overwrite THEN "write" ELSE "prompt"
  <2>1. job \in Jobs /\ job.pc = "find" /\ job.slot \in Slots /\ UNCHANGED <<log, kept>>
        /\ job.file \in Names \X Images
    BY <1>3, <1>a, <1>b DEF FindFile, Jobs, Card, JobInv
  <2>2. Name \in Names /\ log[job.slot] \in Seq(Entry)
    BY <1>a, <2>1 DEF TypeOK, Name
  <2>3. Hits(log[job.slot], Name) = Newest(job.slot, Name)
    BY <2>1, <2>2 DEF HitsInv, Writing
  <2>4. IF i = 0 THEN Newest(job.slot, Name) = {} ELSE Newest(job.slot, Name) = {i}
    BY <2>2, <2>3, FindInHits DEF Newest
  <2>5. ptr = IF i = 0 THEN None ELSE [slot |-> job.slot, at |-> i]
    BY DEF PointerTo, Reliable
  <2>6. job' = [job EXCEPT !.flentry = ptr, !.pc = pc]
    BY <1>3 DEF FindFile
  <2>7. pc \in {"write", "prompt"}
    OBVIOUS
  <2>8. IF ptr = None THEN Newest(job.slot, Name) = {} ELSE Newest(job.slot, Name) = {ptr.at}
    BY <2>4, <2>5 DEF None
  <2> HIDE DEF i, ptr, pc
  <2>9. /\ job'.pc = pc /\ job'.flentry = ptr /\ job'.slot = job.slot /\ job'.file = job.file
    BY <2>1, <2>6 DEF Jobs
  <2> QED
    BY <2>1, <2>7, <2>8, <2>9 DEF HitsInv, Writing, Newest, Old, Name
<1>4. CASE Prompt
  <2>1. job \in Jobs /\ job.pc = "prompt" /\ job.cmd # "restore" /\ UNCHANGED <<log, kept>>
    BY <1>4, <1>a, <1>b DEF Prompt, Card, JobInv
  <2>2. CASE NextFile
    BY <1>f, <2>1, <2>2
  <2>3. CASE Goto("lost")
    BY <1>a, <1>c, <2>1, <2>3, GotoFields
  <2>4. CASE Goto("write")
    <3>1. /\ job'.pc = "write" /\ job'.flentry = job.flentry
          /\ job'.slot = job.slot /\ job'.file = job.file
      BY <1>a, <2>1, <2>4, GotoFields
    <3> QED  BY <2>1, <3>1 DEF HitsInv, Writing, Newest, Old, Name
  <2> QED  BY <1>4, <2>2, <2>3, <2>4 DEF Prompt
<1>5. CASE WriteHeader
  <2>1. job \in Jobs /\ job.pc = "write" /\ job.slot \in Slots /\ job.from \in Slots
        /\ job.file \in Names \X Images
    BY <1>5, <1>a, <1>b DEF WriteHeader, Jobs, JobInv
  <2>2. UNCHANGED kept
    BY <1>5 DEF WriteHeader
  <2>3. CASE Done /\ UNCHANGED log
    BY <1>e, <2>1, <2>2, <2>3
  <2>4. CASE AppendEntry
    <3> DEFINE e == [name |-> Name, data |-> job.file[2], done |-> FALSE,
                     live |-> job.cmd = "quickcopy" => log[job.from][job.at].live]
    <3>1. e \in Entry /\ e.name = Name /\ e.live = TRUE /\ Name \in Names
      BY <1>a, <2>1 DEF Entry, Name, WriterInv
    <3>2. log' = [log EXCEPT ![job.slot] = Append(@, e)]
      BY <2>4 DEF AppendEntry
    <3> HIDE DEF e
    <3>3. \A t \in Slots, n \in Names :
             /\ t = job.slot /\ n = e.name =>
                    Hits(log'[t], n) = Hits(log[t], n) \union {Len(log[job.slot]) + 1}
             /\ t # job.slot \/ n # e.name => Hits(log'[t], n) = Hits(log[t], n)
      <4>1. log \in [Slots -> Seq(Entry)] /\ job.slot \in Slots
        BY <1>a, <2>1 DEF TypeOK
      <4> QED  BY ZenonT(30), <3>1, <3>2, <4>1, HitsAppended
    <3>4. Len(log'[job.slot]) = Len(log[job.slot]) + 1
      BY <1>a, <2>1, <3>1, <3>2, AppendKeeps DEF TypeOK
    <3>5. /\ job'.pc = "image" /\ job'.flentry = job.flentry
          /\ job'.slot = job.slot /\ job'.file = job.file
      BY <1>a, <2>1, <2>4, GotoFields DEF AppendEntry
    <3>6. Name' = Name /\ Old' = Old
      BY <3>5 DEF Name, Old
    <3>7. \A s, n : Writing(s, n)' <=> s = job.slot /\ n = Name
      BY <3>5, <3>6 DEF Writing
    <3>8. \A s \in Slots, n \in Names :
              ~Writing(s, n)' => Hits(log'[s], n) = Hits(log[s], n)
      <4> SUFFICES ASSUME NEW s \in Slots, NEW n \in Names, ~Writing(s, n)'
                   PROVE  Hits(log'[s], n) = Hits(log[s], n)
        OBVIOUS
      <4>1. s # job.slot \/ n # e.name
        BY <3>1, <3>7
      <4> QED  BY <3>3, <4>1
    <3>9. \A s \in Slots, n \in Names :
              Hits(log[s], n) = Newest(s, n) /\ Newest(s, n)' = Newest(s, n)
      BY <2>1, <2>2 DEF HitsInv, Writing, Newest
    <3>10. Hits(log'[job.slot], Name) = Old \union {Len(log'[job.slot])}
      <4>1. Hits(log[job.slot], Name) = Old
        BY <2>1, <3>1, <3>9 DEF HitsInv
      <4>2. Hits(log'[job.slot], Name) = Hits(log[job.slot], Name) \union {Len(log[job.slot]) + 1}
        BY <2>1, <3>1, <3>3
      <4> QED  BY <3>4, <4>1, <4>2
    <3>11. Old = Newest(job.slot, Name)
      BY <2>1 DEF HitsInv
    <3> QED  BY <2>1, <3>1, <3>5, <3>6, <3>8, <3>9, <3>10, <3>11 DEF HitsInv
  <2> QED  BY <1>5, <2>3, <2>4 DEF WriteHeader
<1>6. CASE HeaderError
  <2>1. job.pc = "write" /\ GiveUp /\ UNCHANGED <<log, kept>>
    BY <1>6 DEF HeaderError, Card
  <2>2. Done \/ job'.pc = "failed"
    BY <1>a, <2>1, GotoFields DEF GiveUp
  <2> QED  BY <1>c, <1>e, <2>1, <2>2
<1>7. CASE WriteImage
  <2> DEFINE m == Len(log[job.slot])
  <2>1. job \in Jobs /\ job.pc = "image" /\ job.slot \in Slots /\ job.file \in Names \X Images
    BY <1>7, <1>a, <1>b DEF WriteImage, Jobs, JobInv
  <2>2. m \in 1..Len(log[job.slot]) /\ m # 0 /\ log[job.slot][m].live /\ Name \in Names
    BY <1>a, <2>1 DEF TypeOK, JobInv, WriterInv, Last, Name
  <2>3. log' = [log EXCEPT ![job.slot][m].done = TRUE]
    BY <1>7 DEF WriteImage
  <2>4. kept' = [kept EXCEPT ![job.slot][Name] = m]
    BY <1>7, <2>2 DEF WriteImage
  <2>5. \A t \in Slots, n \in Names : Hits(log'[t], n) = Hits(log[t], n)
    <3> HIDE DEF m
    <3> QED  BY ZenonT(30), <1>a, <2>1, <2>2, <2>3, HitsFinished DEF TypeOK
  <2>6. Len(log'[job.slot]) = m
    BY <1>a, <2>1, <2>2, <2>3 DEF TypeOK
  <2>7. \A s \in Slots, n \in Names :
            ~(s = job.slot /\ n = Name) => kept'[s][n] = kept[s][n]
    BY <1>a, <2>1, <2>2, <2>4 DEF TypeOK
  <2>8. /\ job'.pc = "replace" /\ job'.flentry = job.flentry
        /\ job'.slot = job.slot /\ job'.file = job.file
    BY <1>7, <1>a, <2>1, GotoFields DEF WriteImage
  <2>9. Name' = Name /\ Old' = Old
    BY <2>8 DEF Name, Old
  <2>10. \A s, n : (Writing(s, n)' <=> s = job.slot /\ n = Name)
                   /\ (Writing(s, n) <=> s = job.slot /\ n = Name)
    BY <2>1, <2>8, <2>9 DEF Writing
  <2> HIDE DEF m
  <2> QED
    <3>1. ASSUME NEW s \in Slots, NEW n \in Names, ~Writing(s, n)'
          PROVE  Hits(log'[s], n) = Newest(s, n)'
      <4>1. ~(s = job.slot /\ n = Name) /\ ~Writing(s, n)
        BY <2>10, <3>1
      <4>2. Hits(log[s], n) = Newest(s, n) /\ kept'[s][n] = kept[s][n]
        BY <2>7, <4>1 DEF HitsInv
      <4> QED  BY <2>5, <4>2 DEF Newest
    <3>2. Hits(log'[job.slot], Name) = Old \union {m}
      BY <2>1, <2>2, <2>5 DEF HitsInv, m
    <3> QED  BY <2>6, <2>8, <2>9, <3>1, <3>2 DEF HitsInv
<1>8. CASE ImageError
  <2>1. job.pc = "image" /\ Goto("mark") /\ UNCHANGED <<log, kept>>
    BY <1>8 DEF ImageError, Card
  <2>2. /\ job'.pc = "mark" /\ job'.flentry = job.flentry
        /\ job'.slot = job.slot /\ job'.file = job.file
    BY <1>a, <2>1, GotoFields
  <2> QED  BY ZenonT(30), <2>1, <2>2 DEF HitsInv, Writing, Newest, Old, Name
<1>9. CASE MarkDeleted
  <2> DEFINE m == Len(log[job.slot])
  <2>1. job \in Jobs /\ job.pc = "mark" /\ job.slot \in Slots /\ job.file \in Names \X Images
    BY <1>9, <1>a, <1>b DEF MarkDeleted, Jobs, JobInv
  <2>2. /\ m \in 1..Len(log[job.slot])
        /\ ~log[job.slot][m].done /\ log[job.slot][m].name = Name /\ Name \in Names
    BY <1>a, <2>1 DEF TypeOK, JobInv, WriterInv, Last, Name
  <2>3. Erase(job.slot, m) /\ UNCHANGED kept /\ GiveUp
    BY <1>9 DEF MarkDeleted, DeletesEntry, Reliable
  <2>4. \A t \in Slots, n \in Names :
            Hits(log'[t], n) = Hits(log[t], n) \ (IF t = job.slot THEN {m} ELSE {})
    <3> HIDE DEF m
    <3> QED  BY <1>a, <2>1, <2>2, <2>3, HitsErased DEF TypeOK
  <2>5. \A n \in Names : n # Name => m \notin Hits(log[job.slot], n)
    BY <2>2 DEF Hits
  <2>6. m \notin Newest(job.slot, Name)
    BY <1>a, <2>1, <2>2 DEF Newest, LatestKept
  <2>7. \A s \in Slots, n \in Names : Hits(log'[s], n) = Newest(s, n)
    <3> SUFFICES ASSUME NEW s \in Slots, NEW n \in Names PROVE Hits(log'[s], n) = Newest(s, n)
      OBVIOUS
    <3>1. CASE s = job.slot /\ n = Name
      <4>1. Hits(log[s], n) = Newest(s, n) \union {m}
        BY <2>1, <3>1 DEF HitsInv
      <4>2. Hits(log'[s], n) = Hits(log[s], n) \ {m}
        BY <2>4, <3>1
      <4>3. m \notin Newest(s, n)
        BY <2>6, <3>1
      <4> HIDE DEF m
      <4> QED  BY <4>1, <4>2, <4>3
    <3>2. CASE ~(s = job.slot /\ n = Name)
      <4>1. Hits(log[s], n) = Newest(s, n)
        BY <3>2 DEF HitsInv, Writing
      <4>2. Hits(log'[s], n) = Hits(log[s], n) \ (IF s = job.slot THEN {m} ELSE {})
        BY <2>4
      <4> QED  BY <2>5, <3>2, <4>1, <4>2
    <3> QED  BY <3>1, <3>2
  <2>8. job'.pc \in {"idle", "failed"}
    BY <1>a, <2>1, <2>3, GotoFields DEF GiveUp, Done, NoJob
  <2> QED  BY <2>3, <2>7, <2>8 DEF HitsInv, Newest
<1>10. CASE Retry
  <2>1. job.pc = "failed" /\ Goto("find") /\ UNCHANGED <<log, kept>>
    BY <1>10 DEF Retry, At, Card
  <2> QED  BY <1>a, <1>c, <2>1, GotoFields
<1>11. CASE DeleteOldFile
  <2> DEFINE m == Len(log[job.slot])
  <2>1. /\ job \in Jobs /\ job.pc = "replace" /\ job.slot \in Slots
        /\ job.file \in Names \X Images /\ job.cmd # "restore"
    BY <1>11, <1>a, <1>b DEF DeleteOldFile, Jobs, JobInv
  <2>2. UNCHANGED kept /\ NextFile /\ Name \in Names
    BY <1>11, <2>1 DEF DeleteOldFile, Reliable, Name
  <2>3. m # 0 /\ kept[job.slot][Name] = m
    BY <1>a, <2>1 DEF JobInv, WriterInv
  <2>4. job'.pc \in {"idle", "next"}
    <3>1. Done \/ job'.pc = "next"
      BY <2>1, <2>2 DEF NextFile, Jobs
    <3> QED  BY <3>1 DEF Done, NoJob
  <2>5. \A s \in Slots, n \in Names : Hits(log'[s], n) = Newest(s, n)
    <3> SUFFICES ASSUME NEW s \in Slots, NEW n \in Names PROVE Hits(log'[s], n) = Newest(s, n)
      OBVIOUS
    <3>1. s = job.slot /\ n = Name => Hits(log[s], n) = Old \union {m}
      BY <2>1 DEF HitsInv
    <3>2. ~(s = job.slot /\ n = Name) => Hits(log[s], n) = Newest(s, n)
      BY DEF HitsInv, Writing
    <3>3. Newest(job.slot, Name) = {m}
      BY <2>3 DEF Newest
    <3>4. CASE job.flentry = None
      BY <1>11, <2>1, <2>3, <3>1, <3>2, <3>3, <3>4 DEF DeleteOldFile, Old
    <3>5. CASE job.flentry # None
      <4> DEFINE i == job.flentry.at
      <4>1. /\ job.flentry.slot = job.slot /\ i \in 1..Len(log[job.slot])
            /\ i # m /\ log[job.slot][i].name = Name /\ Old = {i}
        BY SMTT(30), <1>a, <2>1, <3>5 DEF TypeOK, JobInv, WriterInv, Jobs, Pointer, Old
      <4>2. Erase(job.slot, i)
        BY <1>11, <3>5, <4>1 DEF DeleteOldFile, Reliable
      <4> HIDE DEF i, m
      <4>3. Hits(log'[s], n) = Hits(log[s], n) \ (IF s = job.slot THEN {i} ELSE {})
        BY <1>a, <2>1, <4>1, <4>2, HitsErased DEF TypeOK
      <4>4. n # Name => i \notin Hits(log[job.slot], n)
        BY <4>1 DEF Hits
      <4> QED  BY <3>1, <3>2, <3>3, <4>1, <4>3, <4>4
    <3> QED  BY <3>4, <3>5
  <2> QED  BY <2>2, <2>4, <2>5 DEF HitsInv, Newest
<1>12. CASE RestoreNext
  <2>1. job.pc = "next" /\ UNCHANGED <<log, kept>> /\ (NextFile \/ Done)
    BY <1>12 DEF RestoreNext, At, Card
  <2> QED  BY <1>e, <1>f, <2>1
<1>13. ASSUME NEW cmd, NEW s, NEW t, NEW at, NEW names, NEW o, Start(cmd, s, t, at, names, o)
       PROVE  HitsInv'
  BY <1>c, <1>13 DEF Start, Card, Idle
<1>14. ASSUME NEW s \in Slots, NEW t \in Slots, NEW i \in DOMAIN log[s], QuickCopyFile(s, t, i)
       PROVE  HitsInv'
  BY <1>c, <1>14 DEF QuickCopyFile, Card, Idle
<1>15. ASSUME NEW s \in Slots, NEW i \in DOMAIN log[s], DeleteFile(s, i)
       PROVE  HitsInv'
  <2>1. /\ job.pc = "idle" /\ UNCHANGED job /\ log[s][i].live /\ Erase(s, i)
        /\ kept' = [kept EXCEPT ![s] = [n \in Names |-> IF @[n] = i THEN 0 ELSE @[n]]]
    BY <1>15 DEF DeleteFile, Idle, Reliable
  <2>2. i \in 1..Len(log[s]) /\ i # 0
    BY <1>a DEF TypeOK
  <2>3. \A t \in Slots, n \in Names :
            Hits(log'[t], n) = Hits(log[t], n) \ (IF t = s THEN {i} ELSE {})
    BY <1>a, <2>1, <2>2, HitsErased DEF TypeOK
  <2>4. \A t \in Slots, n \in Names :
            kept'[t][n] = IF t = s /\ kept[t][n] = i THEN 0 ELSE kept[t][n]
    BY <1>a, <2>1 DEF TypeOK
  <2>5. \A t \in Slots, n \in Names : Hits(log[t], n) = Newest(t, n)
    BY <2>1 DEF HitsInv, Writing
  <2>6. \A t \in Slots, n \in Names : Hits(log'[t], n) = {kept'[t][n]} \ {0}
    <3> SUFFICES ASSUME NEW t \in Slots, NEW n \in Names
                 PROVE  Hits(log'[t], n) = {kept'[t][n]} \ {0}
      OBVIOUS
    <3> DEFINE H == Hits(log[t], n)
               k == kept[t][n]
               new == kept'[t][n]
    <3>1. /\ H = {k} \ {0}
          /\ Hits(log'[t], n) = H \ (IF t = s THEN {i} ELSE {})
          /\ new = IF t = s /\ k = i THEN 0 ELSE k
      BY <2>3, <2>4, <2>5 DEF Newest
    <3> HIDE DEF H, k, new
    <3>2. \A x : x \in Hits(log'[t], n) <=> x \in {new} \ {0}
      BY <2>2, <3>1
    <3> QED  BY <3>2 DEF new
  <2> QED  BY <2>1, <2>6 DEF HitsInv, Newest
<1>16. CASE Abort \/ Reset
  BY <1>e, <1>16 DEF Abort, Reset, Card, Reliable
<1>17. CASE Step
  BY <1>1, <1>2, <1>3, <1>4, <1>5, <1>6, <1>7, <1>8, <1>9, <1>10, <1>11, <1>12, <1>17 DEF Step
<1>18. CASE User
  <2>1. ASSUME NEW n \in Names, NEW d \in Contents \union {NoFile}, EditRam(n, d)
        PROVE  HitsInv'
    BY <1>d, <2>1 DEF EditRam, Card
  <2>2. ASSUME NEW s \in Slots, NEW n \in Names, NEW i \in DOMAIN log[s], FetchFile(s, i, n)
        PROVE  HitsInv'
    BY <1>d, <2>2 DEF FetchFile, Card
  <2>3. ASSUME NEW s \in Slots, NEW names \in SUBSET Names, NEW o \in BOOLEAN,
               StartSave(s, names, o)
        PROVE  HitsInv'
    BY <1>13, <2>3 DEF StartSave
  <2>4. ASSUME NEW s \in Slots, NEW t \in Slots, NEW o \in BOOLEAN, StartCopy(s, t, o)
        PROVE  HitsInv'
    BY <1>13, <2>4 DEF StartCopy
  <2>5. ASSUME NEW s \in Slots, NEW o \in BOOLEAN, StartRestore(s, o)
        PROVE  HitsInv'
    BY <1>13, <2>5 DEF StartRestore
  <2> QED  BY <1>14, <1>15, <1>16, <1>18, <2>1, <2>2, <2>3, <2>4, <2>5 DEF User
<1>19. CASE UNCHANGED vars
  BY <1>d, <1>19 DEF vars
<1> QED  BY <1>17, <1>18, <1>19 DEF Next

\* On a machine that works, except that headers, images and RAM files fail as they like,
\* a search by name between two commands finds the file that was last written
\* completely under that name.
THEOREM NewestIsFound ==
    ASSUME Reliable
    PROVE  Spec => []FindsNewest
<1> DEFINE I == TypeInv /\ KeptInv /\ HitsInv
<1>1. Init => I
  BY TypeInit, KeptInit, HitsInit
<1>2. I /\ [Next]_vars => I'
  BY TypeStep, KeptStep, HitsStep DEF Reliable
<1>3. I => FindsNewest
  <2> SUFFICES ASSUME I, Idle, NEW s \in Slots, NEW n \in Names
               PROVE  Find(log[s], n) = kept[s][n]
    BY DEF FindsNewest
  <2>1. Hits(log[s], n) = Newest(s, n)
    BY DEF HitsInv, Writing, Idle
  <2>2. log[s] \in Seq(Entry)
    BY DEF TypeInv, TypeOK
  <2> QED  BY <2>1, <2>2, FindInHits DEF Newest
<1> QED  BY <1>1, <1>2, <1>3, PTL DEF Spec
----------------------------------------------------------------------------
(* Whole-card commands *)

\* A command stays what it is until it ends.
SameCommand ==
    /\ job'.cmd = job.cmd /\ job'.slot = job.slot /\ job'.from = job.from
    /\ job'.overwrite = job.overwrite

LEMMA StepOfCommand == TypeOK /\ job.pc # "idle" /\ Next => Done \/ SameCommand
<1> SUFFICES ASSUME TypeOK, job.pc # "idle", Next PROVE Done \/ SameCommand
  OBVIOUS
<1>a. job \in Jobs
  BY BusyJob
<1>1. CASE NextFile
  BY <1>a, <1>1 DEF NextFile, Jobs, SameCommand
<1>2. ASSUME NEW pc, Goto(pc) PROVE SameCommand
  BY <1>a, <1>2 DEF Goto, Jobs, SameCommand
<1>3. CASE GiveUp
  BY <1>2, <1>3 DEF GiveUp
<1>4. CASE SaveNext \/ CopyNext \/ RestoreNext
  <2>1. CASE SaveNext
    BY <1>a, <2>1 DEF SaveNext, Jobs, SameCommand
  <2>2. CASE CopyNext
    BY <1>1, <1>a, <2>2 DEF CopyNext, Jobs, SameCommand
  <2>3. CASE RestoreNext
    BY <1>1, <2>3 DEF RestoreNext
  <2> QED  BY <1>4, <2>1, <2>2, <2>3
<1>5. CASE FindFile
  BY <1>a, <1>5 DEF FindFile, Jobs, SameCommand
<1>6. CASE Step
  <2>1. CASE Prompt
    BY <1>1, <1>2, <2>1 DEF Prompt
  <2>2. CASE WriteHeader
    BY <1>2, <2>2 DEF WriteHeader, AppendEntry
  <2>3. CASE HeaderError \/ MarkDeleted
    BY <1>3, <2>3 DEF HeaderError, MarkDeleted
  <2>4. CASE WriteImage \/ ImageError \/ Retry
    BY <1>2, <2>4 DEF WriteImage, ImageError, Retry
  <2>5. CASE DeleteOldFile
    BY <1>1, <2>5 DEF DeleteOldFile
  <2> QED  BY <1>4, <1>5, <1>6, <2>1, <2>2, <2>3, <2>4, <2>5 DEF Step
<1>7. CASE User
  BY <1>7 DEF User, EditRam, StartSave, StartCopy, StartRestore, Start, QuickCopyFile,
              FetchFile, DeleteFile, Abort, Reset, Idle
<1> QED  BY <1>6, <1>7 DEF Next

\* An active entry that is not being written is the newest one of its name, and complete.
LEMMA LiveIsNewest ==
    ASSUME TypeInv, KeptInv, HitsInv, NEW s \in Slots, NEW i \in 1..Len(log[s]),
           log[s][i].live, job.pc \in {"image", "mark", "replace"} => job.slot # s
    PROVE  kept[s][log[s][i].name] = i /\ log[s][i].done
<1> DEFINE n == log[s][i].name
<1>1. log[s] \in Seq(Entry) /\ n \in Names
  <2>1. log[s] \in Seq(Entry)
    BY DEF TypeInv, TypeOK
  <2>2. log[s][i] \in Entry
    BY <2>1
  <2> QED  BY <2>1, <2>2 DEF Entry
<1>2. i \in Hits(log[s], n)
  BY <1>1 DEF Hits
<1>3. Hits(log[s], n) = Newest(s, n)
  BY <1>1 DEF HitsInv, Writing
<1>4. kept[s][n] = i
  BY <1>2, <1>3 DEF Newest
<1> QED  BY <1>1, <1>4 DEF KeptInv, LatestKept

\* A restore that overwrites all files has already brought the newest file of a name
\* to RAM when its entry lies above the one at hand.
RestoreInv ==
    job.pc # "idle" /\ job.cmd = "restore" /\ job.overwrite =>
        \A n \in Names : kept[job.slot][n] > job.at =>
            ram[n] = log[job.slot][kept[job.slot][n]].data

LEMMA RestoreStep == TypeInv /\ KeptInv /\ HitsInv /\ RestoreInv /\ [Next]_vars => RestoreInv'
<1> SUFFICES ASSUME TypeInv, KeptInv, HitsInv, RestoreInv, [Next]_vars,
                    job'.pc # "idle", job'.cmd = "restore", job'.overwrite,
                    NEW n \in Names, kept'[job'.slot][n] > job'.at
             PROVE  ram'[n] = log'[job'.slot][kept'[job'.slot][n]].data
  BY DEF RestoreInv
<1>a. TypeOK /\ JobInv /\ LatestKept
  BY DEF TypeInv, KeptInv
<1>1. CASE UNCHANGED vars
  BY <1>1 DEF vars, RestoreInv
<1>2. CASE job.pc = "idle" /\ Next
  <2>1. ASSUME NEW s \in Slots, NEW o \in BOOLEAN, StartRestore(s, o) PROVE FALSE
    <3>1. job'.slot = s /\ job'.at = Len(log[s]) /\ UNCHANGED kept
      BY <2>1 DEF StartRestore, Start, Card
    <3>2. kept[s][n] # 0 => kept[s][n] <= Len(log[s])
      BY <1>a DEF LatestKept, TypeOK
    <3> QED  BY <1>a, <3>1, <3>2 DEF TypeOK
  <2>2. CASE UNCHANGED job
    BY <1>2, <2>2
  <2>3. CASE \/ \E s \in Slots, names \in SUBSET Names, o \in BOOLEAN : StartSave(s, names, o)
             \/ \E s, t \in Slots, o \in BOOLEAN : StartCopy(s, t, o)
             \/ \E s, t \in Slots : \E i \in DOMAIN log[s] : QuickCopyFile(s, t, i)
    BY <2>3 DEF StartSave, StartCopy, Start, QuickCopyFile
  <2>4. CASE Step \/ Abort \/ Reset
    BY <1>2, <2>4 DEF Step, At, SaveNext, CopyNext, FindFile, Prompt, WriteHeader, HeaderError,
       WriteImage, ImageError, MarkDeleted, Retry, DeleteOldFile, RestoreNext, Abort, Reset, Idle
  <2> QED  BY <1>2, <2>1, <2>2, <2>3, <2>4 DEF Next, User, EditRam, FetchFile, DeleteFile
<1>3. CASE job.pc # "idle" /\ Next
  <2>1. SameCommand
    BY <1>3, <1>a, StepOfCommand DEF Done, NoJob
  <2>2. job \in Jobs /\ job.cmd = "restore" /\ job.pc = "next" /\ job.overwrite
    BY <1>3, <1>a, <2>1, BusyJob DEF SameCommand, JobInv
  <2>3. RestoreNext /\ ~Done
    <3>1. ~Done
      BY DEF Done, NoJob
    <3> QED  BY <1>3, <2>2, <3>1 DEF Next, Step, User, At, SaveNext, CopyNext, FindFile, Prompt,
           WriteHeader, HeaderError, WriteImage, ImageError, MarkDeleted, Retry, DeleteOldFile,
           EditRam, StartSave, StartCopy, StartRestore, Start, QuickCopyFile, FetchFile, DeleteFile,
           Abort, Reset, Idle
  <2> DEFINE s == job.slot
             e == log[s][job.at]
  <2>4. /\ UNCHANGED <<log, kept>> /\ job.at > 0 /\ NextFile
        /\ \/ ~e.live /\ UNCHANGED ram
           \/ e.live /\ ram' = [ram EXCEPT ![e.name] = Image(e)]
    BY <2>2, <2>3 DEF RestoreNext, Card
  <2>5. job'.slot = s /\ job'.at = job.at - 1 /\ job.at \in 1..Len(log[s]) /\ s \in Slots
    BY <1>a, <2>2, <2>4 DEF NextFile, Jobs, JobInv, TypeOK
  <2>6. kept[s][n] \in Nat /\ kept[s][n] >= job.at
    BY <1>a, <2>4, <2>5 DEF TypeOK
  <2>7. log[s] \in Seq(Entry) /\ e \in Entry
    BY <1>a, <2>5 DEF TypeOK
  <2>8. e.live => kept[s][e.name] = job.at /\ e.done
    BY <2>2, <2>5, LiveIsNewest
  <2>9. CASE kept[s][n] = job.at
    <3>1. e.live /\ e.name = n /\ kept[s][n] # 0
      BY <1>a, <2>4, <2>5, <2>9 DEF LatestKept
    <3>2. ram' = [ram EXCEPT ![n] = e.data]
      BY <2>4, <2>8, <3>1 DEF Image
    <3> QED  BY <1>a, <2>4, <2>5, <2>9, <3>2 DEF TypeOK
  <2>10. CASE kept[s][n] > job.at
    <3>1. ram[n] = log[s][kept[s][n]].data
      BY <2>2, <2>10 DEF RestoreInv
    <3>2. e.live => e.name # n
      BY <2>5, <2>8, <2>10
    <3>3. ram'[n] = ram[n]
      BY <1>a, <2>4, <2>7, <3>2 DEF TypeOK
    <3> QED  BY <2>4, <2>5, <3>1, <3>3
  <2> QED  BY <2>5, <2>6, <2>9, <2>10
<1> QED  BY <1>1, <1>2, <1>3

\* On a machine that works, except that headers, images and RAM files fail as they like, a
\* restore that was told to overwrite all files and reached its end has brought back the
\* newest file of every name, though it visits entries from the newest to the oldest.
THEOREM RestoreIsFaithful ==
    ASSUME Reliable
    PROVE  Spec => []RestoreFaithful
<1> DEFINE I == TypeInv /\ KeptInv /\ HitsInv /\ RestoreInv
<1>1. Init => I
  BY TypeInit, KeptInit, HitsInit DEF Init, RestoreInv, NoJob
<1>2. I /\ [Next]_vars => I'
  BY TypeStep, KeptStep, HitsStep, RestoreStep DEF Reliable
<1>3. I => RestoreFaithful
  <2> SUFFICES ASSUME I, At("restore", "next"), job.at = 0, job.overwrite,
                      NEW n \in Names, kept[job.slot][n] # 0
               PROVE  ram[n] = log[job.slot][kept[job.slot][n]].data
    BY DEF RestoreFaithful
  <2>1. job \in Jobs /\ job.pc = "next" /\ job.cmd = "restore"
    BY BusyJob DEF At, TypeInv
  <2>2. kept[job.slot][n] > job.at
    BY <2>1 DEF Jobs, TypeInv, TypeOK
  <2> QED  BY <2>1, <2>2 DEF RestoreInv
<1> QED  BY <1>1, <1>2, <1>3, PTL DEF Spec

\* While a whole card is copied over another one: the file at hand is that of the entry
\* at hand, the new entry holds its data, and the newest file of each name among the
\* entries that were visited is the newest one of that name on the other card.
Copying == job.pc # "idle" /\ job.cmd = "copy" /\ job.overwrite

CopyInv ==
    Copying =>
        /\ job.pc \in {"next", "find", "write", "image", "mark", "replace"}
        /\ job.slot # job.from
        /\ job.pc # "next" =>
              /\ job.at <= Len(log[job.from])
              /\ log[job.from][job.at].live
              /\ log[job.from][job.at].name = Name
              /\ log[job.from][job.at].data = job.file[2]
        /\ job.pc \in {"image", "replace"} => Last(job.slot).data = job.file[2]
        /\ \A n \in Names : kept[job.from][n] # 0 /\ kept[job.from][n] < job.at =>
              /\ kept[job.slot][n] # 0
              /\ log[job.slot][kept[job.slot][n]].data = log[job.from][kept[job.from][n]].data

LEMMA CopyStep == TypeInv /\ KeptInv /\ HitsInv /\ CopyInv /\ Reliable /\ [Next]_vars => CopyInv'
<1> SUFFICES ASSUME TypeInv, KeptInv, HitsInv, CopyInv, Reliable, [Next]_vars, Copying'
             PROVE  CopyInv'
  BY DEF CopyInv
<1>a. TypeOK /\ JobInv /\ LatestKept /\ WriterInv
  BY DEF TypeInv, KeptInv
<1>b. ~Done
  BY DEF Copying, Done, NoJob
<1>1. CASE UNCHANGED vars
  BY <1>1 DEF vars, CopyInv, Copying, Last, Name
<1>2. CASE job.pc = "idle" /\ Next
  <2>1. ASSUME NEW s \in Slots, NEW t \in Slots, NEW o \in BOOLEAN, StartCopy(s, t, o)
        PROVE  CopyInv'
    <3>1. /\ job'.pc = "next" /\ job'.at = 1 /\ job'.from = s /\ job'.slot = t /\ s # t
          /\ UNCHANGED <<log, kept>>
      BY <2>1 DEF StartCopy, Start, Card
    <3>2. \A n \in Names : kept[s][n] \in Nat
      BY <1>a DEF TypeOK
    <3> QED  BY <3>1, <3>2 DEF CopyInv
  <2>2. CASE UNCHANGED job
    BY <1>2, <2>2 DEF Copying
  <2>3. CASE \/ \E s \in Slots, names \in SUBSET Names, o \in BOOLEAN : StartSave(s, names, o)
             \/ \E s \in Slots, o \in BOOLEAN : StartRestore(s, o)
             \/ \E s, t \in Slots : \E i \in DOMAIN log[s] : QuickCopyFile(s, t, i)
    BY <2>3 DEF StartSave, StartRestore, Start, QuickCopyFile, Copying
  <2>4. CASE Step \/ Abort \/ Reset
    BY <1>2, <2>4 DEF Step, At, SaveNext, CopyNext, FindFile, Prompt, WriteHeader, HeaderError,
       WriteImage, ImageError, MarkDeleted, Retry, DeleteOldFile, RestoreNext, Abort, Reset, Idle
  <2> QED  BY <1>2, <2>1, <2>2, <2>3, <2>4 DEF Next, User, EditRam, FetchFile, DeleteFile
<1>3. CASE job.pc # "idle" /\ Next
  <2> DEFINE from == job.from
             slot == job.slot
             at == job.at
  <2>1. job'.cmd = "copy" /\ job'.slot = slot /\ job'.from = from /\ job.cmd = "copy"
        /\ job.overwrite
    BY <1>3, <1>a, <1>b, StepOfCommand DEF SameCommand, Copying
  <2>2. /\ job \in Jobs /\ Copying
        /\ from \in Slots /\ slot \in Slots /\ from # slot /\ at \in Nat /\ at >= 1
        /\ log[from] \in Seq(Entry) /\ log[slot] \in Seq(Entry)
    BY <1>3, <1>a, <2>1, BusyJob DEF Copying, CopyInv, Jobs, JobInv, TypeOK
  <2>3. job.pc \in {"next", "find", "write", "image", "mark", "replace"}
    BY <2>2 DEF CopyInv
  <2>4. \A n \in Names : kept[from][n] \in Nat /\ kept[slot][n] \in Nat
    BY <1>a, <2>2 DEF TypeOK
  <2>5. \A n \in Names : kept[from][n] # 0 /\ kept[from][n] < at =>
            /\ kept[slot][n] # 0
            /\ log[slot][kept[slot][n]].data = log[from][kept[from][n]].data
    BY <2>2 DEF CopyInv
  \* What is at hand is the newest file of its name on the card that is copied.
  <2>6. at \in 1..Len(log[from]) /\ log[from][at].live =>
            /\ kept[from][log[from][at].name] = at
            /\ log[from][at].done
    BY <2>2, LiveIsNewest
  <2>7. job.pc # "next" =>
           /\ at \in 1..Len(log[from]) /\ log[from][at].live /\ log[from][at].name = Name
           /\ log[from][at].data = job.file[2]
           /\ Name \in Names /\ kept[from][Name] = at
    BY <1>3, <1>a, <2>2, <2>6 DEF CopyInv, JobInv, Name
  <2>8. \A n \in Names : kept[from][n] = at => at \in 1..Len(log[from]) /\ log[from][at].name = n
                                              /\ log[from][at].live
    BY <1>a, <2>2 DEF LatestKept
  <2>9. CASE CopyNext
    <3>1. UNCHANGED <<log, kept>> /\ job.pc = "next"
      BY <2>9 DEF CopyNext, At, Card
    <3>2. at \in 1..Len(log[from])
      BY <1>b, <2>2, <2>9 DEF CopyNext
    <3>3. CASE log[from][at].live
      <4> DEFINE e == log[from][at]
      <4>1. job' = [job EXCEPT !.pc = "find", !.file = <<e.name, Image(e)>>]
        BY <1>b, <2>2, <2>9, <3>2, <3>3 DEF CopyNext
      <4>2. Image(e) = e.data
        BY <2>6, <3>2, <3>3 DEF Image
      <4> HIDE DEF e
      <4>3. job'.pc = "find" /\ job'.at = at /\ job'.file = <<e.name, e.data>>
        BY <2>2, <4>1, <4>2 DEF Jobs
      <4>4. log[from][at].live /\ log[from][at].name = e.name /\ log[from][at].data = e.data
        BY <3>3 DEF e
      <4>5. /\ job'.pc = "find" /\ job'.at = at /\ job'.from = from /\ job'.slot = slot
            /\ job'.file[1] = e.name /\ job'.file[2] = e.data /\ slot # from
            /\ at <= Len(log[from]) /\ UNCHANGED <<log, kept>>
        BY <2>1, <2>2, <3>1, <3>2, <4>3
      <4> HIDE DEF from, slot, at
      <4>6. Name' = e.name
        BY <4>5 DEF Name
      <4>7. \A n \in Names : kept'[from][n] # 0 /\ kept'[from][n] < at =>
               /\ kept'[slot][n] # 0
               /\ log'[slot][kept'[slot][n]].data = log'[from][kept'[from][n]].data
        BY <2>5, <4>5
      <4> QED  BY <4>4, <4>5, <4>6, <4>7 DEF CopyInv
    <3>4. CASE ~log[from][at].live
      <4>1. NextFile
        BY <1>b, <2>2, <2>9, <3>2, <3>4 DEF CopyNext
      <4>2. job'.pc = "next" /\ job'.at = at + 1
        BY <2>1, <2>2, <4>1 DEF NextFile, Jobs
      <4>3. \A n \in Names : kept[from][n] < at + 1 => kept[from][n] < at
        BY <2>2, <2>4, <2>8, <3>4
      <4> QED  BY <2>1, <2>2, <2>5, <3>1, <4>2, <4>3 DEF CopyInv
    <3> QED  BY <3>3, <3>4
  <2>10. ASSUME UNCHANGED <<log, kept>>, job.pc # "next",
                job'.pc \in {"find", "write", "mark"}, job'.at = at, job'.file = job.file
         PROVE  CopyInv'
    BY <2>1, <2>2, <2>5, <2>7, <2>10 DEF CopyInv, Name
  <2>11. CASE FindFile
    <3>1. job.pc = "find" /\ UNCHANGED <<log, kept>>
      BY <2>11 DEF FindFile, Card
    <3>2. job'.pc = "write" /\ job'.at = at /\ job'.file = job.file
      BY <2>1, <2>2, <2>11 DEF FindFile, Jobs
    <3> QED  BY <2>10, <3>1, <3>2
  <2>12. CASE WriteHeader
    <3> DEFINE e == [name |-> Name, data |-> job.file[2], done |-> FALSE,
                     live |-> job.cmd = "quickcopy" => log[from][at].live]
    <3>1. job.pc = "write" /\ AppendEntry /\ UNCHANGED kept /\ job.file \in Names \X Images
      BY <1>a, <1>b, <2>12 DEF WriteHeader, JobInv
    <3>2. e \in Entry /\ e.data = job.file[2]
      BY <2>2, <3>1 DEF Entry, Name
    <3>3. log' = [log EXCEPT ![slot] = Append(@, e)]
      BY <3>1 DEF AppendEntry
    <3> HIDE DEF e
    <3>4. /\ log' \in [Slots -> Seq(Entry)] /\ log'[from] = log[from]
          /\ Len(log'[slot]) = Len(log[slot]) + 1 /\ log'[slot][Len(log[slot]) + 1] = e
          /\ \A k \in 1..Len(log[slot]) : log'[slot][k] = log[slot][k]
      BY <1>a, <2>2, <3>2, <3>3, AppendKeeps DEF TypeOK
    <3>5. job'.pc = "image" /\ job'.at = at /\ job'.file = job.file
      BY <1>3, <1>a, <3>1, GotoFields DEF AppendEntry
    <3>6. log'[slot][Len(log'[slot])].data = job.file[2]
      BY <3>2, <3>4
    <3>7. \A n \in Names : kept[slot][n] # 0 => kept[slot][n] \in 1..Len(log[slot])
      BY <1>a, <2>2 DEF LatestKept
    <3>8. \A n \in Names : kept[slot][n] # 0 => log'[slot][kept[slot][n]] = log[slot][kept[slot][n]]
      BY <3>4, <3>7
    <3> QED
      <4>1. /\ job'.pc \in {"next", "find", "write", "image", "mark", "replace"}
            /\ job'.slot # job'.from
        BY <2>1, <2>2, <3>5
      <4>2. /\ job'.at <= Len(log'[job'.from]) /\ log'[job'.from][job'.at].live
            /\ log'[job'.from][job'.at].name = Name'
            /\ log'[job'.from][job'.at].data = job'.file[2]
        BY <2>1, <2>2, <2>7, <3>1, <3>5, <3>4 DEF Name
      <4>3. Last(job.slot)'.data = job'.file[2]
        BY <2>1, <3>5, <3>6 DEF Last
      <4>4. \A n \in Names : kept'[job'.from][n] # 0 /\ kept'[job'.from][n] < job'.at =>
               /\ kept'[job'.slot][n] # 0
               /\ log'[job'.slot][kept'[job'.slot][n]].data
                     = log'[job'.from][kept'[job'.from][n]].data
        <5>1. \A n \in Names : kept[from][n] # 0 /\ kept[from][n] < at =>
                 /\ kept[slot][n] # 0
                 /\ log'[slot][kept[slot][n]].data = log[from][kept[from][n]].data
          BY <2>5, <3>8
        <5> QED  BY <2>1, <3>1, <3>4, <3>5, <5>1
      <4> QED  BY <4>1, <4>2, <4>3, <4>4 DEF CopyInv
  <2>13. CASE WriteImage
    <3> DEFINE m == Len(log[slot])
    <3>1. job.pc = "image" /\ m \in 1..Len(log[slot]) /\ m # 0 /\ log[slot][m].live
          /\ log[slot][m].data = job.file[2]
      BY SMTT(30), <1>a, <2>2, <2>13 DEF WriteImage, JobInv, WriterInv, Last, CopyInv
    <3>2. log' = [log EXCEPT ![slot][m].done = TRUE] /\ kept' = [kept EXCEPT ![slot][Name] = m]
      BY <2>13, <3>1 DEF WriteImage
    <3>3. job'.pc = "replace" /\ job'.at = at /\ job'.file = job.file
      BY <1>3, <1>a, <2>13, GotoFields DEF WriteImage
    <3> HIDE DEF m
    <3>4. /\ log' \in [Slots -> Seq(Entry)]
          /\ \A u \in Slots :
               /\ Len(log'[u]) = Len(log[u])
               /\ \A k \in 1..Len(log[u]) :
                    /\ log'[u][k].name = log[u][k].name
                    /\ log'[u][k].data = log[u][k].data
                    /\ log'[u][k].live = log[u][k].live
                    /\ u # slot \/ k # m => log'[u][k] = log[u][k]
                    /\ u = slot /\ k = m => log'[u][k].done
      <4>1. log \in [Slots -> Seq(Entry)] /\ slot \in Slots /\ m \in 1..Len(log[slot])
        BY <1>a, <2>2, <3>1 DEF TypeOK
      <4> QED  BY ZenonT(30), <3>2, <4>1, FinishEntry
    <3>5. log'[from] = log[from]
      BY <1>a, <2>2, <3>2 DEF TypeOK
    <3>6. kept'[from] = kept[from] /\ kept'[slot][Name] = m
          /\ \A n \in Names \ {Name} : kept'[slot][n] = kept[slot][n]
      BY <1>a, <2>2, <2>7, <3>1, <3>2 DEF TypeOK
    <3>7. \A n \in Names : kept[slot][n] # 0 => kept[slot][n] \in 1..Len(log[slot])
      BY <1>a, <2>2 DEF LatestKept
    <3>8. \A n \in Names : kept[from][n] # 0 /\ kept[from][n] < at =>
             /\ kept'[slot][n] # 0
             /\ log'[slot][kept'[slot][n]].data = log[from][kept[from][n]].data
      <4> SUFFICES ASSUME NEW n \in Names, kept[from][n] # 0, kept[from][n] < at
                   PROVE  /\ kept'[slot][n] # 0
                          /\ log'[slot][kept'[slot][n]].data = log[from][kept[from][n]].data
        OBVIOUS
      <4>1. n # Name
        BY <2>2, <2>7, <3>1
      <4>2. kept'[slot][n] = kept[slot][n]
        BY <3>6, <4>1
      <4>3. kept[slot][n] # 0 /\ log[slot][kept[slot][n]].data = log[from][kept[from][n]].data
        BY <2>5
      <4>4. log'[slot][kept[slot][n]].data = log[slot][kept[slot][n]].data
        BY <2>2, <3>4, <3>7, <4>3
      <4> QED  BY <4>2, <4>3, <4>4
    <3>9. log'[slot][Len(log'[slot])].data = job.file[2]
      <4>1. Len(log'[slot]) = m
        BY <2>2, <3>4 DEF m
      <4>2. log'[slot][m].data = log[slot][m].data
        BY <2>2, <3>1, <3>4
      <4> QED  BY <3>1, <4>1, <4>2
    <3> QED
      <4>1. /\ job'.pc \in {"next", "find", "write", "image", "mark", "replace"}
            /\ job'.slot # job'.from
        BY <2>1, <2>2, <3>3
      <4>2. /\ job'.at <= Len(log'[job'.from]) /\ log'[job'.from][job'.at].live
            /\ log'[job'.from][job'.at].name = Name'
            /\ log'[job'.from][job'.at].data = job'.file[2]
        BY <2>1, <2>2, <2>7, <3>1, <3>3, <3>5 DEF Name
      <4>3. Last(job.slot)'.data = job'.file[2]
        BY <2>1, <3>3, <3>9 DEF Last
      <4>4. \A n \in Names : kept'[job'.from][n] # 0 /\ kept'[job'.from][n] < job'.at =>
               /\ kept'[job'.slot][n] # 0
               /\ log'[job'.slot][kept'[job'.slot][n]].data
                     = log'[job'.from][kept'[job'.from][n]].data
        BY <2>1, <3>3, <3>5, <3>6, <3>8
      <4> QED  BY <4>1, <4>2, <4>3, <4>4 DEF CopyInv
  <2>14. CASE ImageError
    <3>1. job.pc = "image" /\ UNCHANGED <<log, kept>>
      BY <2>14 DEF ImageError, Card
    <3>2. job'.pc = "mark" /\ job'.at = at /\ job'.file = job.file
      BY <1>3, <1>a, <2>14, GotoFields DEF ImageError
    <3> QED  BY <2>10, <3>1, <3>2
  <2>15. CASE DeleteOldFile
    <3> DEFINE m == Len(log[slot])
    <3>1. /\ job.pc = "replace" /\ UNCHANGED kept /\ NextFile
          /\ UNCHANGED log \/ (job.flentry # None /\ Erase(job.flentry.slot, job.flentry.at))
      BY <2>15 DEF DeleteOldFile, Reliable
    <3>2. job'.pc = "next" /\ job'.at = at + 1
      BY <2>1, <2>2, <3>1 DEF NextFile, Jobs
    <3>3. kept[slot][Name] = m /\ m # 0 /\ log[slot][m].data = job.file[2]
      BY SMTT(30), <1>a, <2>2, <3>1 DEF JobInv, WriterInv, CopyInv, Last
    <3>4. /\ log'[from] = log[from]
          /\ \A k \in 1..Len(log[slot]) : log'[slot][k].data = log[slot][k].data
      <4>1. CASE UNCHANGED log
        BY <4>1
      <4>2. CASE job.flentry # None /\ Erase(job.flentry.slot, job.flentry.at)
        <5>1. job.flentry.slot = slot /\ job.flentry.at \in 1..Len(log[slot])
          BY <1>a, <2>2, <3>1, <4>2 DEF JobInv, Jobs, Pointer
        <5>2. Erase(slot, job.flentry.at)
          BY <4>2, <5>1
        <5>3. \A k \in 1..Len(log[slot]) : log'[slot][k].data = log[slot][k].data
          BY <1>a, <2>2, <5>1, <5>2, EraseEntry DEF TypeOK
        <5>4. log'[from] = log[from]
          BY <1>a, <2>2, <5>2 DEF Erase, TypeOK
        <5> QED  BY <5>3, <5>4
      <4> QED  BY <3>1, <4>1, <4>2
    <3>5. \A n \in Names : kept[slot][n] # 0 => kept[slot][n] \in 1..Len(log[slot])
      BY <1>a, <2>2 DEF LatestKept
    <3>6. \A n \in Names : kept[from][n] # 0 /\ kept[from][n] < at + 1 =>
             /\ kept[slot][n] # 0
             /\ log[slot][kept[slot][n]].data = log[from][kept[from][n]].data
      <4> SUFFICES ASSUME NEW n \in Names, kept[from][n] # 0, kept[from][n] < at + 1
                   PROVE  /\ kept[slot][n] # 0
                          /\ log[slot][kept[slot][n]].data = log[from][kept[from][n]].data
        OBVIOUS
      <4>1. CASE kept[from][n] = at
        <5>1. n = Name
          BY <2>7, <2>8, <3>1, <4>1
        <5> QED  BY <2>7, <3>1, <3>3, <4>1, <5>1
      <4>2. CASE kept[from][n] < at
        BY <2>5, <4>2
      <4> QED  BY <2>2, <2>4, <4>1, <4>2
    <3>7. \A n \in Names : kept[slot][n] # 0 =>
             log'[slot][kept[slot][n]].data = log[slot][kept[slot][n]].data
      BY <3>4, <3>5
    <3>8. ASSUME NEW n \in Names, kept'[from][n] # 0, kept'[from][n] < at + 1
          PROVE  /\ kept'[slot][n] # 0
                 /\ log'[slot][kept'[slot][n]].data = log'[from][kept'[from][n]].data
      <4>1. kept[slot][n] # 0 /\ log[slot][kept[slot][n]].data = log[from][kept[from][n]].data
        BY <3>1, <3>2, <3>4, <3>6, <3>8
      <4>2. kept' = kept /\ log'[from] = log[from]
        BY <3>1, <3>2, <3>4
      <4> QED  BY <3>7, <4>1, <4>2
    <3> HIDE DEF from, slot, at
    <3>9. job'.pc = "next" /\ job'.at = at + 1 /\ job'.slot = slot /\ job'.from = from /\ slot # from
      BY <2>1, <2>2, <3>1, <3>2
    <3> QED  BY <3>8, <3>9 DEF CopyInv
  <2>16. CASE HeaderError \/ MarkDeleted \/ Abort \/ Reset
    BY <1>b, <2>1, <2>16 DEF HeaderError, MarkDeleted, GiveUp, Abort, Reset
  <2> QED
    BY <1>3, <2>1, <2>3, <2>9, <2>11, <2>12, <2>13, <2>14, <2>15, <2>16
       DEF Next, Step, User, At, SaveNext, Prompt, Retry, RestoreNext, EditRam, StartSave,
           StartCopy, StartRestore, Start, QuickCopyFile, FetchFile, DeleteFile, Idle
<1> QED  BY <1>1, <1>2, <1>3

\* On a machine that works, except that headers, images and RAM files fail as they like, a
\* copy of a card that was told to overwrite all files and reached its end leaves the
\* newest file of each name to be found on the other card.
THEOREM CopyIsFaithful ==
    ASSUME Reliable
    PROVE  Spec => []CopyFaithful
<1> DEFINE I == TypeInv /\ KeptInv /\ HitsInv /\ CopyInv
<1>1. Init => I
  BY TypeInit, KeptInit, HitsInit DEF Init, CopyInv, Copying, NoJob
<1>2. I /\ [Next]_vars => I'
  BY TypeStep, KeptStep, HitsStep, CopyStep DEF Reliable
<1>3. I => CopyFaithful
  <2> SUFFICES ASSUME I, At("copy", "next"), job.at > Len(log[job.from]), job.overwrite,
                      NEW n \in Names, kept[job.from][n] # 0
               PROVE  /\ Find(log[job.slot], n) # 0
                      /\ log[job.slot][Find(log[job.slot], n)].data
                           = log[job.from][kept[job.from][n]].data
    BY DEF CopyFaithful
  <2>1. /\ job \in Jobs /\ job.pc = "next" /\ Copying
        /\ job.from \in Slots /\ job.slot \in Slots /\ job.at \in Nat
        /\ log[job.from] \in Seq(Entry) /\ log[job.slot] \in Seq(Entry)
    BY BusyJob DEF At, TypeInv, TypeOK, Copying, Jobs
  <2>2. kept[job.from][n] < job.at
    BY <2>1 DEF KeptInv, LatestKept
  <2>3. /\ kept[job.slot][n] # 0
        /\ log[job.slot][kept[job.slot][n]].data = log[job.from][kept[job.from][n]].data
    BY <2>1, <2>2 DEF CopyInv
  <2>4. Hits(log[job.slot], n) = {kept[job.slot][n]}
    <3>1. Hits(log[job.slot], n) = Newest(job.slot, n)
      BY <2>1 DEF HitsInv, Writing
    <3> QED  BY <2>3, <3>1 DEF Newest
  <2>5. Find(log[job.slot], n) = kept[job.slot][n]
    BY <2>1, <2>4, FindInHits
  <2> QED  BY <2>3, <2>5
<1> QED  BY <1>1, <1>2, <1>3, PTL DEF Spec
=============================================================================
