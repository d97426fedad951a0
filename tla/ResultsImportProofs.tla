------------------------- MODULE ResultsImportProofs -------------------------
(***************************************************************************)
(* ResultsImport, proved for any exports, any size of chunks and batches   *)
(* and any number of attempts and faults: a job that ends well leaves the table as *)
(* its file says, and stale caches have a cause.                           *)
(***************************************************************************)
EXTENDS ResultsImport, WellFoundedInduction, TLAPS

-------------------------------------------------------------------------------
(* Why a job that ends well leaves the table as its file says: the         *)
(* inductive invariant of ResultsImport.                                   *)

Merging == pc \in {"stage", "merge", "clean", "log"}

(* How far lines have been looked at: the lines of the chunk are compared  *)
(* with each other before any of them is merged.                           *)
Ahead == IF pc = "merge" THEN staged ELSE next - 1

(* No line up to k has the row of line n of ls after it. *)
IsLast(ls, n, k) == \A m \in n + 1 .. k : ls[m].row # ls[n].row

(* Where an attempt is: it runs as part of a job, inside its file, and a   *)
(* job that ended well has logged its whole file.                          *)
PlaceInv ==
    /\ pc # "idle" => job = "running"
    /\ job = "waiting" => tries > 0
    /\ log.count \in {0, Len(log.lines)}
    /\ job = "none" /\ outcome = "done" =>
           log.lines = Lines /\ log.count = Len(Lines)
    /\ pc = "stage" => skipped < next /\ next <= Len(Lines)
    /\ pc = "merge" => skipped < next /\ next <= staged /\ staged <= Len(Lines)
    /\ pc \in {"clean", "log"} => skipped < next /\ next = Len(Lines) + 1

(* A row without its players, now or when it was last merged, is not in    *)
(* the table.                                                              *)
UnknownInv == \A r \in Rows : r \notin known \/ r \in dropped => table[r] = Absent

(* A row that was merged had its players, or is remembered as dropped. *)
CoveredInv ==
    /\ \A n \in 1 .. log.count :
           IsLast(log.lines, n, log.count) => log.lines[n].row \in known \cup dropped
    /\ Merging => \A n \in 1 .. next - 1 :
           IsLast(Lines, n, Ahead) => Lines[n].row \in known \cup dropped

(* The table agrees with the last import, except for the rows that were    *)
(* dropped or changed by attempts that logged nothing.                     *)
LogInv ==
    \A n \in 1 .. log.count :
        /\ IsLast(log.lines, n, log.count)
        /\ log.lines[n].row \in known \ (dropped \cup unlogged)
        => table[log.lines[n].row] = log.lines[n].value

(* It agrees with the lines merged so far; the lines that append mode      *)
(* skips have the exception of the last import.                            *)
MergeInv ==
    Merging => \A n \in 1 .. next - 1 :
        /\ IsLast(Lines, n, Ahead)
        /\ Lines[n].row \in known \ dropped
        /\ n <= skipped => Lines[n].row \notin unlogged
        => table[Lines[n].row] = Lines[n].value

(* The caches show what the tables show, or the attempt knows of a change, *)
(* or there is a cause.                                                    *)
CacheInv ==
    uncleaned = {} =>
        \/ cached \subseteq {ShownNow}
        \/ pc \in {"stage", "merge", "clean"} /\ (changed \/ retyped)

IInv ==
    /\ TypeOK /\ PlaceInv
    /\ UnknownInv /\ CoveredInv /\ LogInv /\ MergeInv
    /\ CacheInv

-------------------------------------------------------------------------------
(* Every nonempty set of numbers up to k has a largest one. *)
LEMMA LargestExists ==
    ASSUME NEW k \in Nat, NEW S \in SUBSET (0 .. k), S # {}
    PROVE  \E x \in S : \A y \in S : y <= x
<1> DEFINE T == {k - x : x \in S}
<1>1. T \subseteq Nat /\ T # {}
  <2>1. \A x \in S : k - x \in Nat
    OBVIOUS
  <2>2. PICK x \in S : TRUE
    OBVIOUS
  <2>3. k - x \in T
    BY <2>2
  <2>4. QED  BY <2>1, <2>3
<1>2. IsWellFoundedOn(OpToRel(<, Nat), Nat)
  BY NatLessThanWellFounded
<1>3. PICK z \in T : \A y \in T : <<y, z>> \notin OpToRel(<, Nat)
  BY <1>1, <1>2, WFMin
<1>4. \A y \in T : ~ (y < z)
  BY <1>1, <1>3 DEF OpToRel
<1>5. PICK x \in S : z = k - x
  OBVIOUS
<1>6. \A y \in S : y <= x
  BY <1>4, <1>5
<1>7. QED  BY <1>6

(* Of the lines from one to another, each row has a last one. *)
HasLast(ls, n, from, to) ==
    \E m \in from .. to :
        ls[m].row = ls[n].row /\ \A k \in m + 1 .. to : ls[k].row # ls[n].row

LEMMA LastExists ==
    ASSUME NEW ls, NEW from \in Nat \ {0}, NEW to \in Nat, NEW n \in from .. to
    PROVE  HasLast(ls, n, from, to)
<1> DEFINE S == {m \in from .. to : ls[m].row = ls[n].row}
<1>1. S \in SUBSET (0 .. to) /\ S # {}
  OBVIOUS
<1>2. PICK m \in S : \A y \in S : y <= m
  BY <1>1, LargestExists
<1>3. \A k \in m + 1 .. to : ls[k].row # ls[n].row
  BY <1>2
<1>4. QED  BY <1>2, <1>3 DEF HasLast

(* A file has lines, and they are lines. *)
LEMMA FileLines ==
    ASSUME TypeOK
    PROVE  /\ Lines \in Seq(Line) /\ Date \in Nat
           /\ Len(Lines) \in Nat \ {0}
           /\ \A n \in 1 .. Len(Lines) : Lines[n] \in Line
           /\ \A n \in 1 .. Len(Lines) : Lines[n].row \in Rows /\ Lines[n].value \in Values
<1>1. Versions[file] \in Export
  BY VersionsAssumption DEF TypeOK
<1>2. Lines \in Seq(Line) /\ Date \in Nat /\ Lines # <<>>
  BY <1>1, VersionsAssumption DEF TypeOK, Export, Lines, Date
<1>3. Len(Lines) \in Nat \ {0} /\ \A n \in 1 .. Len(Lines) : Lines[n] \in Line
  BY <1>2
<1>4. QED  BY <1>2, <1>3 DEF Line

(* What a table of results and one of competitions show is typed. *)
LEMMA ShownTyped ==
    ASSUME TypeOK
    PROVE  ShownNow \in [Rows -> (Values \X (Types \cup {Absent})) \cup {Absent}]
<1>1. \A r \in Rows : table[r] # Absent => table[r] \in Values
  BY DEF TypeOK
<1>2. \A v \in Values : competitions[CompetitionOf[v]] \in Types \cup {Absent}
  BY CompetitionsAssumption DEF TypeOK
<1>3. QED  BY <1>1, <1>2 DEF ShownNow, Shown

(* A chunk lies inside the file. *)
LEMMA ChunkFacts ==
    ASSUME TypeOK, PlaceInv, pc = "stage"
    PROVE  /\ next \in Nat \ {0} /\ ChunkEnd \in next .. Len(Lines)
           /\ \A c \in Competitions : Naming(c) # {} =>
                  \E n \in Naming(c) : n \in 1 .. Len(Lines) /\ \A k \in Naming(c) : k <= n
<1>1. next \in Nat \ {0} /\ skipped \in Nat /\ next <= Len(Lines) /\ Len(Lines) \in Nat
  BY FileLines DEF TypeOK, PlaceInv
<1>2. ChunkEnd \in next .. Len(Lines)
  BY <1>1, BoundsAssumption DEF ChunkEnd
<1>3. ASSUME NEW c \in Competitions, Naming(c) # {}
      PROVE  \E n \in Naming(c) : n \in 1 .. Len(Lines) /\ \A k \in Naming(c) : k <= n
  <2>1. Naming(c) \in SUBSET (0 .. ChunkEnd) /\ ChunkEnd \in Nat
    BY <1>1, <1>2 DEF Naming
  <2>2. PICK n \in Naming(c) : \A k \in Naming(c) : k <= n
    BY <1>3, <2>1, LargestExists
  <2>3. n \in next .. ChunkEnd
    BY <2>2 DEF Naming
  <2>4. QED  BY <1>1, <1>2, <2>2, <2>3
<1>4. QED  BY <1>1, <1>2, <1>3

(* What the competitions of a chunk become. *)
LEMMA UpsertFacts ==
    ASSUME TypeOK, PlaceInv, UpsertCompetitions
    PROVE  /\ competitions' \in [Competitions -> Types \cup {Absent}]
           /\ retyped' = (retyped \/ ShownNow' # ShownNow)
           /\ staged' \in next .. Len(Lines) /\ pc = "stage" /\ pc' = "merge"
<1> DEFINE Type(c) == Lines[CHOOSE n \in Naming(c) : \A k \in Naming(c) : k <= n].type
           types == [c \in Competitions |-> IF Naming(c) = {} THEN competitions[c] ELSE Type(c)]
<1>1. pc = "stage" /\ pc' = "merge" /\ staged' = ChunkEnd
  BY DEF UpsertCompetitions
<1>2. ASSUME NEW c \in Competitions, Naming(c) # {}
      PROVE  Type(c) \in Types
  <2>1. PICK n \in Naming(c) : n \in 1 .. Len(Lines) /\ \A k \in Naming(c) : k <= n
    BY <1>1, <1>2, ChunkFacts
  <2>2. PICK m : m = CHOOSE o \in Naming(c) : \A k \in Naming(c) : k <= o
    OBVIOUS
  <2>3. m \in Naming(c) /\ \A k \in Naming(c) : k <= m
    BY <2>1, <2>2
  <2>4. m \in 1 .. Len(Lines)
    <3>1. m \in next .. ChunkEnd
      BY <2>3 DEF Naming
    <3>2. QED  BY <1>1, <3>1, ChunkFacts, FileLines
  <2>5. Lines[m].type \in Types
    BY <2>4, FileLines DEF Line
  <2>6. QED  BY <2>2, <2>5
<1>3. \A c \in Competitions : competitions[c] \in Types \cup {Absent}
  BY DEF TypeOK
<1>4. types \in [Competitions -> Types \cup {Absent}]
  <2> HIDE DEF Type
  <2>1. QED  BY <1>2, <1>3
<1>5. competitions' = types /\ retyped' = (retyped \/ Shown(table, types) # ShownNow) /\ table' = table
  BY DEF UpsertCompetitions
<1> HIDE DEF types
<1>6. ShownNow' = Shown(table, types)
  BY <1>5 DEF ShownNow, Shown
<1>7. staged' \in next .. Len(Lines)
  BY <1>1, ChunkFacts
<1>8. QED  BY <1>1, <1>4, <1>5, <1>6, <1>7

(* A batch lies inside the chunk, and the line kept of a row is the last   *)
(* one that the chunk has.                                                 *)
LEMMA BatchFacts ==
    ASSUME TypeOK, PlaceInv, pc = "merge"
    PROVE  /\ next \in Nat \ {0} /\ staged \in next .. Len(Lines) /\ BatchEnd \in next .. staged
           /\ BatchRows \subseteq Rows
           /\ \A r \in BatchRows :
                  /\ LineOf(r) \in next .. BatchEnd /\ Lines[LineOf(r)].row = r
                  /\ \A k \in LineOf(r) + 1 .. staged : Lines[k].row # r
<1>1. next \in Nat \ {0} /\ skipped \in Nat /\ staged \in next .. Len(Lines) /\ Len(Lines) \in Nat
  BY FileLines DEF TypeOK, PlaceInv
<1>2. BatchEnd \in next .. staged
  BY <1>1, BoundsAssumption DEF BatchEnd
<1>3. BatchRows \subseteq Rows
  BY <1>1, <1>2, FileLines DEF BatchRows, BatchLines
<1>4. ASSUME NEW r \in BatchRows
      PROVE  /\ LineOf(r) \in next .. BatchEnd /\ Lines[LineOf(r)].row = r
             /\ \A k \in LineOf(r) + 1 .. staged : Lines[k].row # r
  <2>1. \E n \in BatchLines : Lines[n].row = r
    BY <1>4 DEF BatchRows
  <2>2. LineOf(r) \in BatchLines /\ Lines[LineOf(r)].row = r
    BY <2>1 DEF LineOf
  <2>3. QED  BY <2>2 DEF BatchLines, Kept
<1>5. QED  BY <1>1, <1>2, <1>3, <1>4

(* What a batch does to the table. *)
LEMMA MergeFacts ==
    ASSUME TypeOK, PlaceInv, Merge
    PROVE  /\ table' \in [Rows -> Values \cup {Absent}]
           /\ \A r \in BatchRows \cap known :
                  table'[r] = Lines[LineOf(r)].value /\ table'[r] \in Values
           /\ \A r \in Rows \ (BatchRows \cap known) : table'[r] = table[r]
           /\ changed' = (changed \/ table' # table)
           /\ unlogged' = unlogged \cup {r \in Rows : table'[r] # table[r]}
           /\ dropped' = (dropped \ BatchRows) \cup (BatchRows \ known)
           /\ next' = BatchEnd + 1
           /\ BatchEnd = Len(Lines) => pc' = IF changed' THEN "clean" ELSE "log"
           /\ BatchEnd = Len(Lines) /\ retyped /\ ~ changed' => uncleaned' # {}
           /\ BatchEnd # Len(Lines) => pc' = IF BatchEnd = staged THEN "stage" ELSE "merge"
           /\ uncleaned \subseteq uncleaned' /\ uncleaned' \subseteq uncleaned \cup {"uncounted"}
<1> DEFINE Rewritten(r) == Lines[LineOf(r)].value
           rows == [r \in Rows |-> IF r \in BatchRows \cap known THEN Rewritten(r) ELSE table[r]]
<1>1. pc = "merge"
  BY DEF Merge
<1>2. \A r \in BatchRows : Rewritten(r) \in Values
  <2>1. \A r \in BatchRows : LineOf(r) \in 1 .. Len(Lines)
    BY <1>1, BatchFacts, FileLines
  <2>2. QED  BY <2>1, FileLines
<1>3. rows \in [Rows -> Values \cup {Absent}]
  <2>1. table \in [Rows -> Values \cup {Absent}]
    BY DEF TypeOK
  <2> HIDE DEF Rewritten
  <2>2. QED  BY <1>2, <2>1
<1>4. /\ table' = rows /\ changed' = (changed \/ rows # table)
      /\ unlogged' = unlogged \cup {r \in Rows : rows[r] # table[r]}
      /\ dropped' = (dropped \ BatchRows) \cup (BatchRows \ known)
      /\ next' = BatchEnd + 1
      /\ pc' = IF BatchEnd = Len(Lines) THEN AfterMerge(rows)
               ELSE IF BatchEnd = staged THEN "stage" ELSE "merge"
      /\ uncleaned' = IF BatchEnd = Len(Lines) /\ retyped /\ ~ (changed \/ rows # table)
                      THEN uncleaned \cup {"uncounted"} ELSE uncleaned
  BY DEF Merge
<1>5. AfterMerge(rows) = IF changed' THEN "clean" ELSE "log"
  BY <1>4 DEF AfterMerge
<1>6. \A r \in BatchRows \cap known : r \in Rows
  BY <1>1, BatchFacts
<1> HIDE DEF Rewritten
<1>7. /\ \A r \in BatchRows \cap known : rows[r] = Rewritten(r)
      /\ \A r \in Rows \ (BatchRows \cap known) : rows[r] = table[r]
  BY <1>6
<1> HIDE DEF rows
<1>8. \A r \in BatchRows \cap known : table'[r] = Rewritten(r) /\ table'[r] \in Values
  BY <1>2, <1>4, <1>7
<1>9. QED  BY <1>3, <1>4, <1>5, <1>7, <1>8 DEF Rewritten

(***************************************************************************)
(* Types, and where an attempt is.                                         *)
(***************************************************************************)
LEMMA TypeInit == Init => TypeOK /\ PlaceInv
<1> SUFFICES ASSUME Init PROVE TypeOK /\ PlaceInv
  OBVIOUS
<1>1. 1 \in DOMAIN Versions
  BY VersionsAssumption
<1>2. log \in Import
  BY DEF Init, Import
<1>3. table \in [Rows -> Values \cup {Absent}] /\ tries \in 0 .. Attempts /\ faults \in 0 .. MaxFaults
  BY BoundsAssumption DEF Init
<1>4. competitions \in [Competitions -> Types \cup {Absent}]
  BY DEF Init
<1>5. QED  BY <1>1, <1>2, <1>3, <1>4 DEF Init, TypeOK, PlaceInv, Places

LEMMA TypeStep ==
    ASSUME TypeOK, PlaceInv, [Next]_vars
    PROVE  TypeOK'
<1> USE DEF TypeOK
<1>1. CASE Serve
  <2>1. feed + 1 \in DOMAIN Versions
    BY <1>1, VersionsAssumption DEF Serve
  <2>2. QED  BY <1>1, <2>1 DEF Serve, tables, place, attempt, history
<1>2. ASSUME NEW r \in Rows, Join(r) PROVE TypeOK'
  BY <1>2 DEF Join, tables, place, attempt, history
<1>3. CASE Answer
  <2>1. cached' \in SUBSET [Rows -> (Values \X (Types \cup {Absent})) \cup {Absent}]
    BY <1>3, ShownTyped DEF Answer
  <2>2. QED  BY <1>3, <2>1 DEF Answer, world, tables, place, attempt, history
<1>4. CASE Expire
  BY <1>4 DEF Expire, world, tables, place, attempt, history
<1>5. CASE Enqueue
  BY <1>5, BoundsAssumption DEF Enqueue, world, tables, place, attempt, history
<1>6. CASE Start
  <2>1. tries' \in 0 .. Attempts
    BY <1>6, BoundsAssumption DEF Start, PlaceInv
  <2>2. QED  BY <1>6, <2>1 DEF Start, Places, world, tables, place, history
<1>7. CASE Download
  BY <1>7 DEF Download, Places, world, tables, history
<1>8. CASE Check
  <2>1. skipped' \in Nat /\ next' \in Nat /\ pc' \in Places
    BY <1>8 DEF Check, Places, Import
  <2>2. QED  BY <1>8, <2>1 DEF Check, world, tables, history
<1>9. CASE Merge
  <2>1. pc = "merge"
    BY <1>9 DEF Merge
  <2>2. next' \in Nat /\ BatchRows \subseteq Rows
    <3>1. next \in Nat /\ BatchEnd \in next .. staged /\ BatchRows \subseteq Rows
      BY <2>1, BatchFacts
    <3>2. QED  BY <1>9, <3>1, MergeFacts
  <2>3. table' \in [Rows -> Values \cup {Absent}] /\ changed' \in BOOLEAN
    BY <1>9, MergeFacts
  <2>4. unlogged' \in SUBSET Rows /\ dropped' \in SUBSET Rows
    BY <1>9, <2>2, MergeFacts
  <2>5. pc' \in Places
    BY <1>9, MergeFacts DEF Places
  <2>6. uncleaned' \in SUBSET {"interrupted", "swallowed", "uncounted"}
    BY <1>9, MergeFacts
  <2>7. QED  BY <1>9, <2>2, <2>3, <2>4, <2>5, <2>6 DEF Merge, world
<1>10. ASSUME NEW swallowed \in BOOLEAN, Clean(swallowed) PROVE TypeOK'
  <2>1. faults' \in 0 .. MaxFaults
    BY <1>10, BoundsAssumption DEF Clean
  <2>2. QED  BY <1>10, <2>1 DEF Clean, Places, world, tables, place
<1>11. ASSUME GiveBack PROVE /\ job' \in {"none", "waiting"} /\ pc' \in Places
                             /\ outcome' \in {"none", "done", "skipped", "failed"}
                             /\ faults' \in 0 .. MaxFaults
  BY <1>11, BoundsAssumption DEF GiveBack, Places
<1>12. ASSUME NEW lost \in BOOLEAN, StoreImport(lost) PROVE TypeOK'
  <2>1. log' \in Import
    BY <1>12, FileLines DEF StoreImport, Import
  <2>2. /\ job' \in {"none", "waiting", "running"} /\ pc' \in Places
        /\ outcome' \in {"none", "done", "skipped", "failed"}
        /\ faults' \in 0 .. MaxFaults
    BY <1>11, <1>12 DEF StoreImport, Places
  <2>3. unlogged' \in SUBSET Rows
    BY <1>12 DEF StoreImport
  <2>4. QED  BY <1>12, <2>1, <2>2, <2>3 DEF StoreImport, world, tables, place
<1>13. CASE Fail
  BY <1>11, <1>13 DEF Fail, world, tables, place
<1>14. CASE UNCHANGED vars
  BY <1>14 DEF vars, world, tables, place, attempt, history
<1>15. CASE UpsertCompetitions
  <2>1. competitions' \in [Competitions -> Types \cup {Absent}] /\ retyped' \in BOOLEAN
    BY <1>15, UpsertFacts DEF UpsertCompetitions
  <2>2. staged' \in Nat /\ pc' \in Places
    BY <1>15, UpsertFacts, FileLines DEF Places
  <2>3. QED  BY <1>15, <2>1, <2>2 DEF UpsertCompetitions, world, history
<1>16. QED
  BY <1>1, <1>2, <1>3, <1>4, <1>5, <1>6, <1>7, <1>8, <1>9, <1>10, <1>12, <1>13, <1>14, <1>15
  DEF Next, World, Attempt

LEMMA PlaceStep ==
    ASSUME TypeOK, PlaceInv, [Next]_vars
    PROVE  PlaceInv'
<1>1. CASE World \/ Enqueue \/ UNCHANGED vars
  BY <1>1, BoundsAssumption DEF World, Serve, Join, Answer, Expire, Enqueue, PlaceInv, Lines, vars, world, tables, place, attempt, history
<1>2. CASE Start \/ Download
  BY <1>2 DEF Start, Download, PlaceInv, Lines, world, tables, place, history
<1>3. CASE Check
  <2>1. Len(Lines) \in Nat \ {0} /\ log.count \in Nat
    BY FileLines DEF TypeOK, Import
  <2>2. Appended => log.count < Len(Lines)
    BY DEF Appended
  <2>3. pc' = "stage" => skipped' < next' /\ next' <= Len(Lines)
    BY <1>3, <2>1, <2>2 DEF Check
  <2>4. QED  BY <1>3, <2>3 DEF Check, PlaceInv, Lines, world, tables, history
<1>4. CASE Merge
  <2>1. pc = "merge" /\ UNCHANGED <<file, job, tries, outcome, log, skipped, staged>>
    BY <1>4 DEF Merge
  <2>2. /\ next \in Nat \ {0} /\ staged \in next .. Len(Lines) /\ BatchEnd \in next .. staged
        /\ skipped \in Nat /\ skipped < next
    BY <2>1, BatchFacts DEF PlaceInv, TypeOK
  <2>3. /\ next' = BatchEnd + 1
        /\ BatchEnd = Len(Lines) => pc' \in {"clean", "log"}
        /\ BatchEnd # Len(Lines) => pc' = IF BatchEnd = staged THEN "stage" ELSE "merge"
    BY <1>4, MergeFacts
  <2>4. Len(Lines) \in Nat
    BY FileLines
  <2>5. QED  BY <2>1, <2>2, <2>3, <2>4 DEF PlaceInv, Lines
<1>5. ASSUME NEW swallowed \in BOOLEAN, Clean(swallowed) PROVE PlaceInv'
  BY <1>5 DEF Clean, PlaceInv, Lines, world, tables, place
<1>6. ASSUME NEW lost \in BOOLEAN, StoreImport(lost) PROVE PlaceInv'
  <2>1. pc' = "idle" /\ UNCHANGED file
    BY <1>6 DEF StoreImport, GiveBack, place
  <2>2. job' = "none" /\ outcome' = "done" => ~lost /\ pc = "log"
    BY <1>6 DEF StoreImport, GiveBack
  <2>3. log'.lines = Lines /\ log'.count \in {0, Len(Lines)} /\ (pc = "log" => log'.count = Len(Lines))
    BY <1>6 DEF StoreImport
  <2>4. job' = "waiting" => tries' > 0
    BY <1>6 DEF StoreImport, GiveBack, TriesLeft
  <2>5. QED  BY <2>1, <2>2, <2>3, <2>4 DEF PlaceInv, Lines
<1>7. CASE Fail
  <2>1. job' = "none" => outcome' # "done"
    BY <1>7 DEF Fail, GiveBack
  <2>2. QED  BY <1>7, <2>1 DEF Fail, GiveBack, TriesLeft, PlaceInv, Lines, place
<1>8. CASE UpsertCompetitions
  <2>1. UNCHANGED <<file, job, tries, outcome, log, skipped, next>>
    BY <1>8 DEF UpsertCompetitions, history
  <2>2. pc = "stage" /\ pc' = "merge" /\ staged' \in next .. Len(Lines)
    BY <1>8, UpsertFacts
  <2>3. next \in Nat /\ Len(Lines) \in Nat /\ skipped < next
    BY <2>2, FileLines DEF PlaceInv, TypeOK
  <2>4. QED  BY <2>1, <2>2, <2>3 DEF PlaceInv, Lines
<1>9. QED
  BY <1>1, <1>2, <1>3, <1>4, <1>5, <1>6, <1>7, <1>8 DEF Next, Attempt

(***************************************************************************)
(* What the table holds.                                                   *)
(***************************************************************************)
DataInv == UnknownInv /\ CoveredInv /\ LogInv /\ MergeInv

(* A step that leaves the table, the log and their exceptions alone, and   *)
(* the progress of the merge too, keeps them in agreement.                 *)
LEMMA DataFrame ==
    ASSUME DataInv, UNCHANGED <<known, table, log, dropped, unlogged>>,
           Merging' => Merging /\ UNCHANGED <<file, next, skipped, Ahead>>
    PROVE  DataInv'
<1>1. UnknownInv'
  BY DEF DataInv, UnknownInv
<1>2. CoveredInv'
  BY DEF DataInv, CoveredInv, IsLast, Lines
<1>3. LogInv'
  BY DEF DataInv, LogInv, IsLast
<1>4. MergeInv'
  BY DEF DataInv, MergeInv, IsLast, Lines
<1>5. QED  BY <1>1, <1>2, <1>3, <1>4 DEF DataInv

(* A player joins: no row that was merged waits for him unremembered. *)
LEMMA DataJoin ==
    ASSUME TypeOK, DataInv, NEW r \in Rows, Join(r)
    PROVE  DataInv'
<1>1. r \notin known /\ known' = known \cup {r}
      /\ UNCHANGED <<table, log, dropped, unlogged, pc, file, next, staged, skipped>>
  BY DEF Join, tables, attempt, place, history
<1>2. UnknownInv'
  BY <1>1 DEF DataInv, UnknownInv
<1>3. CoveredInv'
  BY <1>1 DEF DataInv, CoveredInv, Merging, Ahead, IsLast, Lines
<1>4. LogInv'
  <2>1. \A n \in 1 .. log.count :
            IsLast(log.lines, n, log.count) /\ log.lines[n].row \in known' \ dropped
            => log.lines[n].row \in known
    BY <1>1 DEF DataInv, CoveredInv
  <2>2. QED  BY <1>1, <2>1 DEF DataInv, LogInv, IsLast
<1>5. MergeInv'
  <2>1. Merging => \A n \in 1 .. next - 1 :
            IsLast(Lines, n, Ahead) /\ Lines[n].row \in known' \ dropped => Lines[n].row \in known
    BY <1>1 DEF DataInv, CoveredInv
  <2>2. QED  BY <1>1, <2>1 DEF DataInv, MergeInv, IsLast, Merging, Ahead, Lines
<1>6. QED  BY <1>2, <1>3, <1>4, <1>5 DEF DataInv

(* The merge starts after the lines that the last import has merged. *)
LEMMA DataCheck ==
    ASSUME TypeOK, PlaceInv, DataInv, Check
    PROVE  DataInv'
<1>1. UNCHANGED <<known, table, log, dropped, unlogged, file>> /\ pc = "check"
  BY DEF Check, world, tables, history
<1>2. UnknownInv' /\ LogInv'
  BY <1>1 DEF DataInv, UnknownInv, LogInv, IsLast
<1>3. CASE ~ Merging'
  BY <1>1, <1>2, <1>3 DEF DataInv, CoveredInv, MergeInv, Merging
<1>4. CASE Merging'
  <2>1. next' = skipped' + 1 /\ skipped' = (IF Appended THEN log.count ELSE 0) /\ Ahead' = next' - 1
    BY <1>4 DEF Check, Merging, Ahead
  <2>2. log.count \in Nat /\ Lines \in Seq(Line)
    BY FileLines DEF TypeOK, Import
  <2>3. CASE ~ Appended
    <3>1. skipped' = 0 /\ next' - 1 = 0
      BY <2>1, <2>3
    <3>2. QED  BY <1>1, <1>2, <3>1 DEF DataInv, CoveredInv, MergeInv, Merging
  <2>4. CASE Appended
    <3>1. next' - 1 = log.count /\ skipped' = log.count
      BY <2>1, <2>2, <2>4
    <3>2. \A n \in 1 .. log.count : log.lines[n] = Lines[n]
      <4>1. log.lines = SubSeq(Lines, 1, log.count) /\ log.count < Len(Lines)
        BY <2>4 DEF Appended
      <4>2. QED  BY <2>2, <4>1
    <3>3. \A n \in 1 .. log.count : IsLast(Lines, n, log.count) => IsLast(log.lines, n, log.count)
      BY <2>2, <3>2 DEF IsLast
    <3>4. CoveredInv'
      <4>1. \A n \in 1 .. log.count : IsLast(Lines, n, log.count) => Lines[n].row \in known \cup dropped
        BY <3>2, <3>3 DEF DataInv, CoveredInv
      <4>2. \A n \in 1 .. log.count :
                IsLast(log.lines, n, log.count) => log.lines[n].row \in known \cup dropped
        BY DEF DataInv, CoveredInv
      <4>3. QED  BY <1>1, <2>1, <3>1, <4>1, <4>2 DEF CoveredInv, Lines, IsLast
    <3>5. MergeInv'
      <4>1. SUFFICES ASSUME NEW n \in 1 .. log.count, IsLast(Lines, n, log.count),
                            Lines[n].row \in known \ dropped, Lines[n].row \notin unlogged
                     PROVE  table[Lines[n].row] = Lines[n].value
        BY <1>1, <2>1, <2>2, <3>1 DEF MergeInv, Lines, IsLast
      <4>2. IsLast(log.lines, n, log.count) /\ log.lines[n] = Lines[n]
        BY <3>2, <3>3, <4>1
      <4>3. QED  BY <4>1, <4>2 DEF DataInv, LogInv
    <3>6. QED  BY <1>2, <3>4, <3>5 DEF DataInv
  <2>5. QED  BY <2>3, <2>4
<1>5. QED  BY <1>3, <1>4

(* A chunk is staged: fewer of the lines before it are the last of a row.  *)
LEMMA DataUpsert ==
    ASSUME TypeOK, PlaceInv, DataInv, UpsertCompetitions
    PROVE  DataInv'
<1>1. /\ pc = "stage" /\ pc' = "merge" /\ staged' \in next .. Len(Lines)
      /\ UNCHANGED <<known, table, log, dropped, unlogged, file, next, skipped>>
  BY UpsertFacts DEF UpsertCompetitions, world, history
<1>2. next \in Nat /\ Len(Lines) \in Nat /\ Merging /\ Ahead = next - 1 /\ Ahead' = staged'
  BY <1>1, FileLines DEF TypeOK, Merging, Ahead
<1>3. UnknownInv' /\ LogInv'
  BY <1>1 DEF DataInv, UnknownInv, LogInv, IsLast
<1>4. \A n \in 1 .. next - 1 : IsLast(Lines, n, Ahead)' => IsLast(Lines, n, Ahead)
  BY <1>1, <1>2 DEF IsLast, Lines
<1>5. CoveredInv' /\ MergeInv'
  BY <1>1, <1>2, <1>4 DEF DataInv, CoveredInv, MergeInv, IsLast, Lines
<1>6. QED  BY <1>3, <1>5 DEF DataInv

(* A batch: its rows are as its lines say, the others are as they were,    *)
(* and what it changed is remembered until an import is logged.            *)
LEMMA DataMerge ==
    ASSUME TypeOK, PlaceInv, DataInv, Merge
    PROVE  DataInv'
<1>1. pc = "merge" /\ Merging /\ UNCHANGED <<known, log, file, skipped, staged>>
  BY DEF Merge, Merging, world
<1>2. /\ next \in Nat \ {0} /\ staged \in next .. Len(Lines) /\ BatchEnd \in next .. staged
      /\ BatchRows \subseteq Rows /\ Len(Lines) \in Nat
      /\ next' = BatchEnd + 1 /\ next' - 1 = BatchEnd /\ Ahead = staged /\ Ahead' = staged
  <2>1. /\ next \in Nat \ {0} /\ staged \in next .. Len(Lines) /\ BatchEnd \in next .. staged
        /\ BatchRows \subseteq Rows /\ Len(Lines) \in Nat
        /\ next' = BatchEnd + 1 /\ next' - 1 = BatchEnd
    BY <1>1, BatchFacts, MergeFacts, FileLines
  <2>2. pc' # "merge" => BatchEnd = staged
    BY <2>1, MergeFacts
  <2>3. QED  BY <1>1, <2>1, <2>2 DEF Ahead
<1>3. /\ \A r \in BatchRows \cap known : table'[r] \in Values
      /\ \A r \in Rows \ (BatchRows \cap known) : table'[r] = table[r]
  BY MergeFacts
<1>4. /\ unlogged' = unlogged \cup {r \in Rows : table'[r] # table[r]}
      /\ dropped' = (dropped \ BatchRows) \cup (BatchRows \ known)
  BY MergeFacts
<1>5. \A n \in 1 .. Len(Lines) : Lines[n].row \in Rows
  BY FileLines
<1>6. UnknownInv'
  BY <1>1, <1>2, <1>3, <1>4 DEF DataInv, UnknownInv
<1>7. CoveredInv'
  <2>1. known \cup dropped \subseteq known \cup dropped' /\ BatchRows \subseteq known \cup dropped'
    BY <1>4
  <2>2. \A n \in next .. BatchEnd : IsLast(Lines, n, staged) => Lines[n].row \in BatchRows
    BY DEF BatchRows, BatchLines, IsLast, Kept
  <2>3. \A n \in 1 .. BatchEnd : IsLast(Lines, n, staged) => Lines[n].row \in known \cup dropped'
    BY <1>1, <1>2, <2>1, <2>2 DEF DataInv, CoveredInv
  <2>4. \A n \in 1 .. log.count :
            IsLast(log.lines, n, log.count) => log.lines[n].row \in known \cup dropped'
    BY <2>1 DEF DataInv, CoveredInv
  <2>5. QED  BY <1>1, <1>2, <2>3, <2>4 DEF CoveredInv, Lines, IsLast
<1>8. LogInv'
  <2>1. SUFFICES ASSUME NEW n \in 1 .. log.count, IsLast(log.lines, n, log.count),
                        log.lines[n].row \in known \ (dropped' \cup unlogged')
                 PROVE  table'[log.lines[n].row] = log.lines[n].value
    BY <1>1 DEF LogInv, IsLast
  <2>2. PICK r \in Rows : r = log.lines[n].row
    BY <2>1 DEF TypeOK
  <2>3. table'[r] = table[r] /\ r \notin unlogged
    BY <1>4, <2>1, <2>2
  <2>4. r \notin dropped
    <3>1. SUFFICES ASSUME r \in dropped PROVE FALSE
      OBVIOUS
    <3>2. table[r] = Absent /\ r \in BatchRows \cap known
      BY <1>4, <2>1, <2>2, <3>1 DEF DataInv, UnknownInv
    <3>3. QED  BY <1>3, <2>3, <3>2, AbsentAssumption
  <2>5. QED  BY <2>1, <2>2, <2>3, <2>4 DEF DataInv, LogInv
<1>9. MergeInv'
  <2>1. SUFFICES ASSUME NEW n \in 1 .. BatchEnd, IsLast(Lines, n, staged),
                        Lines[n].row \in known \ dropped',
                        n <= skipped => Lines[n].row \notin unlogged'
                 PROVE  table'[Lines[n].row] = Lines[n].value
    BY <1>1, <1>2 DEF MergeInv, IsLast, Lines
  <2>2. PICK r \in Rows : r = Lines[n].row
    BY <1>2, <1>5
  <2>3. CASE n >= next
    <3>1. r \in BatchRows \cap known
      <4>1. n \in BatchLines
        BY <1>2, <2>1, <2>3 DEF BatchLines, IsLast, Kept
      <4>2. QED  BY <1>4, <2>1, <2>2, <4>1 DEF BatchRows
    <3>2. PICK m : m = LineOf(r)
      OBVIOUS
    <3>3. /\ m \in next .. BatchEnd /\ Lines[m].row = r
          /\ \A k \in m + 1 .. staged : Lines[k].row # r
      BY <1>1, <3>1, <3>2, BatchFacts
    <3>4. m = n
      <4>1. m \in Nat /\ n \in Nat /\ m <= staged /\ n <= staged
        BY <1>2, <3>3
      <4>2. n < m => m \in n + 1 .. staged
        BY <1>2, <4>1
      <4>3. m < n => n \in m + 1 .. staged
        BY <1>2, <4>1
      <4>4. ~ (n < m)
        BY <2>1, <2>2, <3>3, <4>2 DEF IsLast
      <4>5. ~ (m < n)
        BY <2>2, <3>3, <4>3
      <4>6. QED  BY <4>1, <4>4, <4>5
    <3>5. QED  BY <2>2, <3>1, <3>2, <3>4, MergeFacts
  <2>4. CASE n < next
    <3>1. r \notin BatchRows
      BY <1>2, <2>1, <2>2, <2>4 DEF IsLast, BatchRows, BatchLines
    <3>2. table'[r] = table[r] /\ r \notin dropped
      BY <1>3, <1>4, <2>1, <2>2, <3>1
    <3>3. n \in 1 .. next - 1
      BY <1>2, <2>1, <2>4
    <3>4. n <= skipped => r \notin unlogged
      BY <1>4, <2>1, <2>2
    <3>5. table[r] = Lines[n].value
      BY <1>1, <1>2, <2>1, <2>2, <3>2, <3>3, <3>4 DEF DataInv, MergeInv
    <3>6. QED  BY <2>2, <3>2, <3>5
  <2>5. QED  BY <1>2, <2>3, <2>4
<1>10. QED  BY <1>6, <1>7, <1>8, <1>9 DEF DataInv

(* The import is logged: what was remembered for its lines is forgotten. *)
LEMMA DataStore ==
    ASSUME TypeOK, PlaceInv, DataInv, NEW lost \in BOOLEAN, StoreImport(lost)
    PROVE  DataInv'
<1>1. UNCHANGED <<known, table, dropped>> /\ pc' = "idle" /\ pc \in {"skip", "log"}
      /\ log' = [date |-> Date, lines |-> Lines, count |-> IF pc = "skip" THEN 0 ELSE Len(Lines)]
      /\ unlogged' = IF pc = "log" THEN unlogged \ MergedRows ELSE unlogged
  BY DEF StoreImport, GiveBack, world, tables
<1>2. UnknownInv' /\ MergeInv'
  BY <1>1 DEF DataInv, UnknownInv, MergeInv, Merging
<1>3. CASE pc = "skip"
  <2>1. log'.count = 0
    BY <1>1, <1>3
  <2>2. QED  BY <1>1, <1>2, <2>1 DEF DataInv, CoveredInv, LogInv, Merging
<1>4. CASE pc = "log"
  <2>1. log'.count = Len(Lines) /\ log'.lines = Lines /\ unlogged' = unlogged \ MergedRows
    BY <1>1, <1>4
  <2>2. /\ Merging /\ next - 1 = Len(Lines) /\ Ahead = Len(Lines)
        /\ skipped \in Nat /\ Len(Lines) \in Nat
    BY <1>4, FileLines DEF Merging, Ahead, PlaceInv, TypeOK
  <2>3. CoveredInv'
    BY <1>1, <2>1, <2>2 DEF DataInv, CoveredInv, Merging, IsLast
  <2>4. LogInv'
    <3>1. SUFFICES ASSUME NEW n \in 1 .. Len(Lines), IsLast(Lines, n, Len(Lines)),
                          Lines[n].row \in known \ (dropped \cup unlogged')
                   PROVE  table[Lines[n].row] = Lines[n].value
      BY <1>1, <2>1 DEF LogInv, IsLast
    <3>2. n <= skipped => Lines[n].row \notin MergedRows
      BY <2>2, <3>1 DEF IsLast, MergedRows
    <3>3. n <= skipped => Lines[n].row \notin unlogged
      BY <2>1, <3>1, <3>2
    <3>4. QED  BY <2>2, <3>1, <3>3 DEF DataInv, MergeInv
  <2>5. QED  BY <1>2, <2>3, <2>4 DEF DataInv
<1>5. QED  BY <1>1, <1>3, <1>4

LEMMA DataStep ==
    ASSUME TypeOK, PlaceInv, DataInv, [Next]_vars
    PROVE  DataInv'
<1>1. CASE Serve \/ Answer \/ Expire \/ Enqueue \/ UNCHANGED vars
  BY <1>1, DataFrame DEF Serve, Answer, Expire, Enqueue, Merging, Ahead, vars, world, tables, attempt, place, history
<1>2. CASE Start \/ Download \/ Fail
  BY <1>2, DataFrame DEF Start, Download, Fail, GiveBack, Merging, Ahead, world, tables, place, history
<1>3. ASSUME NEW swallowed \in BOOLEAN, Clean(swallowed) PROVE DataInv'
  BY <1>3, DataFrame DEF Clean, Merging, Ahead, world, tables, place
<1>4. QED
  BY <1>1, <1>2, <1>3, DataJoin, DataCheck, DataUpsert, DataMerge, DataStore DEF Next, World, Attempt

(***************************************************************************)
(* What the caches hold.                                                   *)
(***************************************************************************)
LEMMA CacheStep ==
    ASSUME TypeOK, PlaceInv, CacheInv, [Next]_vars
    PROVE  CacheInv'
<1>1. CASE Serve \/ (\E r \in Rows : Join(r)) \/ Expire \/ Enqueue \/ UNCHANGED vars
  BY <1>1 DEF CacheInv, ShownNow, Shown, Serve, Join, Expire, Enqueue, vars, world, tables, attempt, place, history
<1>2. CASE Answer
  <2>1. cached' = {ShownNow} /\ ShownNow' = ShownNow
    BY <1>2 DEF Answer, tables, ShownNow, Shown
  <2>2. QED  BY <2>1 DEF CacheInv
<1>3. CASE Start \/ Download \/ Check
  BY <1>3 DEF CacheInv, ShownNow, Shown, PlaceInv, Start, Download, Check, world, tables, place, history
<1>4. CASE UpsertCompetitions
  <2>1. /\ pc = "stage" /\ pc' = "merge" /\ UNCHANGED <<cached, uncleaned, changed>>
        /\ retyped' = (retyped \/ ShownNow' # ShownNow)
    BY <1>4, UpsertFacts DEF UpsertCompetitions, history
  <2>2. QED  BY <2>1 DEF CacheInv
<1>5. CASE Merge
  <2>1. pc = "merge" /\ UNCHANGED <<cached, competitions, retyped>>
    BY <1>5 DEF Merge
  <2>2. /\ changed' = (changed \/ table' # table)
        /\ uncleaned' = {} => uncleaned = {}
        /\ pc' \in {"stage", "merge", "clean"} \/ (~ changed' /\ (retyped => uncleaned' # {}))
    BY <1>5, MergeFacts
  <2>3. ~ changed' => ShownNow' = ShownNow /\ ~ changed
    BY <2>1, <2>2 DEF ShownNow, Shown
  <2>4. QED  BY <2>1, <2>2, <2>3 DEF CacheInv
<1>6. ASSUME NEW swallowed \in BOOLEAN, Clean(swallowed) PROVE CacheInv'
  BY <1>6 DEF CacheInv, ShownNow, Shown, Clean, world
<1>7. ASSUME NEW lost \in BOOLEAN, StoreImport(lost) PROVE CacheInv'
  BY <1>7 DEF CacheInv, ShownNow, Shown, StoreImport, GiveBack, world, tables
<1>8. CASE Fail
  BY <1>8 DEF CacheInv, ShownNow, Shown, Fail, GiveBack, world, tables
<1>9. QED
  BY <1>1, <1>2, <1>3, <1>4, <1>5, <1>6, <1>7, <1>8 DEF Next, World, Attempt

(***************************************************************************)
(* The theorems.                                                           *)
(***************************************************************************)

(* The inductive invariant holds in every state of process, for any        *)
(* exports, batches, attempts and faults.                                  *)
THEOREM ImportInvariant == Spec => []IInv
<1>1. Init => IInv
  <2>1. Init => CacheInv /\ UnknownInv /\ CoveredInv /\ LogInv /\ MergeInv
    BY DEF Init, CacheInv, UnknownInv, CoveredInv, LogInv, MergeInv, Merging
  <2>2. QED  BY <2>1, TypeInit DEF IInv
<1>2. IInv /\ [Next]_vars => IInv'
  <2>1. SUFFICES ASSUME IInv, [Next]_vars PROVE IInv'
    OBVIOUS
  <2>2. TypeOK /\ PlaceInv /\ DataInv /\ CacheInv
    BY <2>1 DEF IInv, DataInv
  <2>3. TypeOK' /\ PlaceInv' /\ DataInv' /\ CacheInv'
    BY <2>1, <2>2, TypeStep, PlaceStep, DataStep, CacheStep
  <2>4. QED  BY <2>3 DEF IInv, DataInv
<1>3. QED  BY <1>1, <1>2, PTL DEF Spec

(* The variables keep their types. *)
THEOREM ImportTyped == Spec => []TypeOK
<1>1. IInv => TypeOK
  BY DEF IInv
<1>2. QED  BY <1>1, ImportInvariant, PTL

(* A job that ends well (storeImport after a merge) leaves the table as    *)
(* its file says, whatever earlier attempts left half merged.              *)
THEOREM DoneIsCurrent == Spec => []Current
<1>1. IInv => Current
  <2>1. SUFFICES ASSUME IInv, job = "none", outcome = "done" PROVE Agrees(file)
    BY DEF Current
  <2>2. TypeOK /\ log.lines = Lines /\ log.count = Len(Lines)
    BY <2>1 DEF IInv, PlaceInv
  <2>3. Len(Lines) \in Nat \ {0} /\ DOMAIN Lines = 1 .. Len(Lines)
    BY <2>2, FileLines
  <2>4. SUFFICES ASSUME NEW n \in 1 .. Len(Lines), Lines[n].row \in known \ (dropped \cup unlogged)
                 PROVE  table[Lines[n].row] = Content(file, Lines[n].row)
    BY <2>3 DEF Agrees, Lines
  <2>5. PICK r : r = Lines[n].row
    OBVIOUS
  <2>6. PICK last : last = CHOOSE m \in DOMAIN Lines :
                        Lines[m].row = r /\ \A k \in m + 1 .. Len(Lines) : Lines[k].row # r
    OBVIOUS
  <2>7. /\ last \in 1 .. Len(Lines) /\ Lines[last].row = r
        /\ \A k \in last + 1 .. Len(Lines) : Lines[k].row # r
    <3>1. HasLast(Lines, n, 1, Len(Lines))
      BY <2>3, LastExists
    <3>2. \E m \in DOMAIN Lines :
              Lines[m].row = r /\ \A k \in m + 1 .. Len(Lines) : Lines[k].row # r
      BY <2>3, <2>5, <3>1 DEF HasLast
    <3>3. QED  BY <2>3, <2>6, <3>2
  <2>8. Content(file, r) = Lines[last].value
    BY <2>6 DEF Content, Lines
  <2>9. table[r] = Lines[last].value
    BY <2>1, <2>2, <2>4, <2>5, <2>7 DEF IInv, LogInv, IsLast
  <2>10. QED  BY <2>5, <2>8, <2>9
<1>2. QED  BY <1>1, ImportInvariant, PTL

(* Between attempts, caches that differ from the tables have a cause: an   *)
(* attempt ended before invalidateCaches, cleanKeys swallowed an error, or *)
(* a competition was written without any result that changed.              *)
THEOREM StaleCachesExplained == Spec => []StaleCachesHaveACause
<1>1. IInv => StaleCachesHaveACause
  BY DEF IInv, CacheInv, StaleCachesHaveACause
<1>2. QED  BY <1>1, ImportInvariant, PTL
===============================================================================
