------------------------- MODULE MoveDetectionProofs -------------------------
(***************************************************************************)
(* For any set of paths and contents and any number of changes and faults:  *)
(* type correctness, that an undisturbed full scan leaves the rows in step  *)
(* with the disk, that no step loses what users attached, and that files    *)
(* that only move are followed.                                             *)
(***************************************************************************)
EXTENDS MoveDetection, FiniteSetTheorems, FunctionTheorems, TLAPS

(* One row's updates stay rows, and none but Repointed and Flagged changes  *)
(* the missing flag.                                                        *)
LEMMA RowTypes ==
  ASSUME NEW bytes \in Bytes, NEW digest \in Bytes \union {None}
  PROVE  /\ Inserted(bytes, digest) \in Rows
         /\ \A r \in Rows : /\ Refreshed(r, bytes, digest) \in Rows
                            /\ Repointed(r) \in Rows
         /\ \A r \in Rows, m \in BOOLEAN : [r EXCEPT !.missing = m] \in Rows
<1>1. Inserted(bytes, digest) \in Rows
  BY DEF Inserted, Rows
<1>2. ASSUME NEW r \in Rows PROVE Refreshed(r, bytes, digest) \in Rows
  <2> DEFINE signed == [r EXCEPT !.stat = bytes, !.hash = IF digest = None THEN @ ELSE digest]
  <2>1. signed \in Rows
    BY DEF Rows
  <2>2. [signed EXCEPT !.state = "unread", !.searchable = FALSE] \in Rows
    BY <2>1 DEF Rows
  <2> QED BY <2>1, <2>2 DEF Refreshed
<1>3. ASSUME NEW r \in Rows PROVE Repointed(r) \in Rows
  BY DEF Repointed, Rows
<1>4. ASSUME NEW r \in Rows, NEW m \in BOOLEAN PROVE [r EXCEPT !.missing = m] \in Rows
  BY DEF Rows
<1> QED BY <1>1, <1>2, <1>3, <1>4

(* Detecting moves keeps the row of every file that is there, and what it   *)
(* keeps are rows.                                                          *)
LEMMA MovesKeepPresent ==
  ASSUME TypeOK, row' = AfterMoves
  PROVE  /\ Known' \subseteq Known
         /\ \A p \in Known : disk[p] # None => p \in Known'
         /\ \A p \in Known' : row'[p] \in Rows
<1> DEFINE sources == {m[1] : m \in Moves}
<1>1. Known' = Known \ sources
  BY DEF AfterMoves, Known
<1>2. ASSUME NEW m \in Moves PROVE m[1] \in Known /\ disk[m[1]] = None
  <2>1. m \in Gone \X Candidates
    BY DEF Moves
  <2>2. m[1] \in Gone
    BY <2>1
  <2> QED BY <2>2 DEF Gone, InScope
<1>3. \A p \in Known : disk[p] # None => p \notin sources
  BY <1>2
<1>4. ASSUME NEW p \in Known' PROVE row'[p] \in Rows
  <2>1. p \in Known
    BY <1>1
  <2>2. row[p] \in Rows
    BY <2>1 DEF TypeOK
  <2>3. CASE \E m \in Moves : m[2] = p
    <3> DEFINE m == CHOOSE m \in Moves : m[2] = p
    <3>1. m \in Moves
      BY <2>3
    <3>2. row[m[1]] \in Rows
      BY <3>1, <1>2 DEF TypeOK
    <3>3. Repointed(row[m[1]]) \in Rows
      BY <3>2 DEF Repointed, Rows
    <3>4. row'[p] = Repointed(row[m[1]])
      BY <1>1, <2>3 DEF AfterMoves, Known
    <3> QED BY <3>3, <3>4
  <2>4. CASE ~\E m \in Moves : m[2] = p
    BY <1>1, <2>2, <2>4 DEF AfterMoves, Known
  <2> QED BY <2>3, <2>4
<1> QED BY <1>1, <1>3, <1>4

LEMMA VisitingTypes ==
  ASSUME NEW p \in Paths
  PROVE  /\ {} \subseteq Paths /\ Cardinality({}) <= 1
         /\ {p} \subseteq Paths /\ Cardinality({p}) <= 1
<1>1. Cardinality({}) = 0
  BY FS_EmptySet
<1>2. Cardinality({p}) = 1
  BY FS_Singleton, Zenon
<1> QED BY <1>1, <1>2

LEMMA EmptyVisit == {} \subseteq Paths /\ Cardinality({}) <= 1
<1>1. Cardinality({}) = 0
  BY FS_EmptySet
<1> QED BY <1>1

(* The bounds hold the counters in their ranges.                            *)
LEMMA CounterTypes ==
  ASSUME TypeOK
  PROVE  /\ Fault => faults' \in 0..MaxFaults
         /\ \A p \in Paths : Changed(p) => changes' \in 0..MaxChanges
  BY MovesAssumption DEF TypeOK, Fault, Changed

(* Every variable keeps the values its declaration gives it.                *)
THEOREM TypeCorrect == Spec => []TypeOK
<1>1. Init => TypeOK
  <2> SUFFICES ASSUME Init PROVE TypeOK
    OBVIOUS
  <2>1. Known = {}
    BY DEF Init, Known
  <2>2. changes \in 0..MaxChanges /\ faults \in 0..MaxFaults
    BY MovesAssumption DEF Init
  <2>3. visiting \subseteq Paths /\ Cardinality(visiting) <= 1
    BY EmptyVisit DEF Init
  <2>4. tidy \in BOOLEAN
    BY DEF Init
  <2> QED BY <2>1, <2>2, <2>3, <2>4, MovesAssumption DEF Init, TypeOK, Phases
<1>2. TypeOK /\ [Next]_vars => TypeOK'
  <2> SUFFICES ASSUME TypeOK, [Next]_vars PROVE TypeOK'
    OBVIOUS
  <2> USE DEF vars, scan, bounds, history
  <2>0. \A p \in Known : row[p] \in Rows
    BY DEF TypeOK
  <2>1. ASSUME NEW subtree \in Scopes, StartScan(subtree) PROVE TypeOK'
    <3>1. subtree \subseteq Paths
      BY MovesAssumption
    <3> QED BY <2>1, <3>1, EmptyVisit DEF StartScan, TypeOK, Known, Phases
  <2>2. ASSUME NEW p \in Paths, Visit(p) PROVE TypeOK'
    BY <2>2, VisitingTypes DEF Visit, TypeOK, Known
  <2>3. ASSUME NEW p \in Paths, RegisterNothing(p) PROVE TypeOK'
    BY <2>3, VisitingTypes DEF RegisterNothing, TypeOK, Known
  <2>4. ASSUME NEW p \in Paths, Register(p) PROVE TypeOK'
    <3>1. PICK digest \in {disk[p]} \union (IF stop THEN {None} ELSE {}) :
            \/ /\ row' = [q \in Known \union {p} |->
                            IF q # p THEN row[q]
                            ELSE IF p \in Known THEN Refreshed(row[p], disk[p], digest)
                            ELSE Inserted(disk[p], digest)]
               /\ inserted' = InsertedAfter(p, TRUE)
               /\ UNCHANGED <<faults, clean>>
            \/ /\ Fault
               /\ inserted' = InsertedAfter(p, FALSE)
               /\ clean' = FALSE
               /\ UNCHANGED row
      BY <2>4 DEF Register
    <3>2. disk[p] \in Bytes /\ digest \in Bytes \union {None}
      BY <2>4, <3>1 DEF Register, TypeOK
    <3>3. CASE /\ row' = [q \in Known \union {p} |->
                            IF q # p THEN row[q]
                            ELSE IF p \in Known THEN Refreshed(row[p], disk[p], digest)
                            ELSE Inserted(disk[p], digest)]
               /\ inserted' = InsertedAfter(p, TRUE)
               /\ UNCHANGED <<faults, clean>>
      <4>1. Known' = Known \union {p}
        BY <3>3 DEF Known
      <4>2. \A q \in Known' : row'[q] \in Rows
        BY <2>0, <3>2, <3>3, <4>1, RowTypes
      <4> QED BY <2>4, <3>3, <4>1, <4>2, VisitingTypes
              DEF Register, InsertedAfter, TypeOK
    <3>4. CASE /\ Fault
               /\ inserted' = InsertedAfter(p, FALSE)
               /\ clean' = FALSE
               /\ UNCHANGED row
      BY <2>4, <3>4, VisitingTypes, CounterTypes
         DEF Register, InsertedAfter, TypeOK, Known
    <3> QED BY <3>1, <3>3, <3>4
  <2>5. ASSUME EndWalk PROVE TypeOK'
    BY <2>5 DEF EndWalk, CutOff, TypeOK, Known, Phases
  <2>6. ASSUME DetectMoves PROVE TypeOK'
    <3>1. CASE row' = AfterMoves /\ UNCHANGED <<faults, clean>>
                /\ tidy' = (tidy /\ (scope = Paths \/ inserted = {}))
      <4>1. Known' \subseteq Paths /\ \A p \in Known' : row'[p] \in Rows
        BY <3>1, MovesKeepPresent DEF TypeOK
      <4> QED BY <2>6, <3>1, <4>1 DEF DetectMoves, TypeOK, Phases
    <3>2. CASE Fault /\ CutOff /\ UNCHANGED row
      BY <2>6, <3>2, CounterTypes DEF DetectMoves, CutOff, TypeOK, Known, Phases
    <3> QED BY <2>6, <3>1, <3>2 DEF DetectMoves
  <2>7. ASSUME FlagMissing PROVE TypeOK'
    <3>1. CASE row' = [p \in Known |-> Flagged(p)] /\ UNCHANGED <<faults, clean>>
      <4>1. Known' = Known
        BY <3>1 DEF Known
      <4>2. ASSUME NEW p \in Known PROVE Flagged(p) \in Rows
        <5>1. CASE p \in scope
          <6>1. [row[p] EXCEPT !.missing = (disk[p] = None)] \in Rows
            BY <2>0 DEF Rows
          <6> QED BY <5>1, <6>1 DEF Flagged
        <5>2. CASE p \notin scope
          BY <2>0, <5>2 DEF Flagged, Rows
        <5> QED BY <5>1, <5>2
      <4> QED BY <2>7, <3>1, <4>1, <4>2 DEF FlagMissing, TypeOK, Phases
    <3>2. CASE Fault /\ clean' = FALSE /\ UNCHANGED row
      BY <2>7, <3>2, CounterTypes DEF FlagMissing, TypeOK, Known, Phases
    <3> QED BY <2>7, <3>1, <3>2 DEF FlagMissing
  <2>8. ASSUME NEW p \in Paths, Index(p) PROVE TypeOK'
    <3>1. Known' = Known /\ p \in Known
      BY <2>8 DEF Index, Unread, Known
    <3>2. ASSUME NEW state \in {"read", "failed"}, NEW searchable \in BOOLEAN
          PROVE  [row[p] EXCEPT !.state = state, !.searchable = searchable] \in Rows
      BY <2>0, <3>1 DEF Rows
    <3>3. row'[p] \in Rows
      <4> DEFINE state == IF disk[p] = None THEN "failed" ELSE "read"
                 searchable == disk[p] # None
      <4>1. row'[p] = [row[p] EXCEPT !.state = state, !.searchable = searchable]
        BY <2>8, <3>1 DEF Index, Known
      <4>2. state \in {"read", "failed"} /\ searchable \in BOOLEAN
        OBVIOUS
      <4> HIDE DEF state, searchable
      <4> QED BY <3>2, <4>1, <4>2
    <3>4. \A q \in Known \ {p} : row'[q] = row[q]
      BY <2>8, <3>1 DEF Index, Known
    <3>5. \A q \in Known' : row'[q] \in Rows
      BY <2>0, <3>1, <3>3, <3>4
    <3> QED BY <2>8, <3>1, <3>5 DEF Index, TypeOK
  <2>9. ASSUME EndScan PROVE TypeOK'
    BY <2>9 DEF EndScan, TypeOK, Known, Phases
  <2>10. ASSUME Cancel \/ Crash PROVE TypeOK'
    BY <2>10, EmptyVisit, CounterTypes DEF Cancel, Crash, CutOff, TypeOK, Known, Phases
  <2>11. ASSUME NEW p \in Paths, Attach(p) PROVE TypeOK'
    <3>1. Known' = Known /\ p \in Known
      BY <2>11 DEF Attach, Known
    <3>2. \A q \in Known' : row'[q] \in Rows
      BY <2>0, <2>11, <3>1 DEF Attach, Known, Rows
    <3> QED BY <2>11, <3>1, <3>2 DEF Attach, TypeOK
  <2>12. ASSUME NEW p \in Paths, NEW bytes \in Bytes \union {None}, WriteFile(p, bytes)
         PROVE  TypeOK'
    <3>1. changes' \in 0..MaxChanges
      BY <2>12, CounterTypes DEF WriteFile
    <3>2. tidy' \in BOOLEAN
      BY <2>12 DEF WriteFile, TypeOK
    <3> QED BY <2>12, <3>1, <3>2 DEF WriteFile, TypeOK, Known
  <2>13. ASSUME NEW p \in Paths, NEW q \in Paths, MoveFile(p, q) PROVE TypeOK'
    <3>1. changes' \in 0..MaxChanges
      BY <2>13, CounterTypes DEF MoveFile
    <3> QED BY <2>13, <3>1 DEF MoveFile, TypeOK, Known
  <2>14. CASE UNCHANGED vars
    BY <2>14 DEF TypeOK, Known
  <2> QED BY <2>1, <2>2, <2>3, <2>4, <2>5, <2>6, <2>7, <2>8, <2>9, <2>10, <2>11, <2>12,
             <2>13, <2>14 DEF Next
<1> QED BY <1>1, <1>2, PTL DEF Spec

-----------------------------------------------------------------------------
(* Why an undisturbed scan is enough: the walk leaves no file it has passed *)
(* without a row, moves and flags drop no row whose file is there, and the  *)
(* flags are those of the disk until something disturbs it.                 *)
Covered ==
  /\ visiting # {} => phase = "walk"
  /\ clean =>
       /\ scope = Paths
       /\ phase = "walk" =>
            \A p \in Paths : disk[p] # None => p \in Known \union todo \union visiting
       /\ phase # "walk" => \A p \in Paths : disk[p] # None => p \in Known
       /\ phase \in {"index", "idle"} =>
            \A p \in Known : row[p].missing <=> disk[p] = None

LEMMA CoveredStep == TypeOK /\ Covered /\ [Next]_vars => Covered'
<1> SUFFICES ASSUME TypeOK, Covered, [Next]_vars PROVE Covered'
  OBVIOUS
<1> USE DEF vars, scan, bounds, history
<1>1. ASSUME NEW subtree \in Scopes, StartScan(subtree) PROVE Covered'
  BY <1>1 DEF StartScan, Covered, Known
<1>2. ASSUME NEW p \in Paths, Visit(p) PROVE Covered'
  BY <1>2 DEF Visit, Covered, Known
<1>3. ASSUME NEW p \in Paths, RegisterNothing(p) PROVE Covered'
  BY <1>3 DEF RegisterNothing, SignatureMatches, Covered, Known
<1>4. ASSUME NEW p \in Paths, Register(p) PROVE Covered'
  <2>1. CASE clean' = FALSE
    BY <1>4, <2>1 DEF Register, Covered
  <2>2. CASE clean' # FALSE
    <3>1. Known' = Known \union {p} /\ UNCHANGED clean
      BY <1>4, <2>2 DEF Register, Known
    <3> QED BY <1>4, <3>1 DEF Register, Covered
  <2> QED BY <2>1, <2>2
<1>5. ASSUME EndWalk PROVE Covered'
  BY <1>5 DEF EndWalk, CutOff, Covered, Known
<1>6. ASSUME DetectMoves PROVE Covered'
  <2>1. CASE row' = AfterMoves /\ UNCHANGED clean
    BY <1>6, <2>1, MovesKeepPresent DEF DetectMoves, Covered
  <2>2. CASE CutOff
    BY <1>6, <2>2 DEF DetectMoves, CutOff, Covered
  <2> QED BY <1>6, <2>1, <2>2 DEF DetectMoves
<1>7. ASSUME FlagMissing PROVE Covered'
  <2>1. CASE row' = [p \in Known |-> Flagged(p)] /\ UNCHANGED clean
    <3>1. Known' = Known
      BY <2>1 DEF Known
    <3>2. ASSUME clean, NEW p \in Known PROVE row'[p].missing <=> disk[p] = None
      <4>1. p \in scope /\ row[p] \in Rows
        BY <3>2 DEF Covered, TypeOK
      <4> QED BY <2>1, <4>1 DEF Flagged, Rows
    <3> QED BY <1>7, <2>1, <3>1, <3>2 DEF FlagMissing, Covered
  <2>2. CASE clean' = FALSE
    BY <1>7, <2>2 DEF FlagMissing, Covered
  <2> QED BY <1>7, <2>1, <2>2 DEF FlagMissing
<1>8. ASSUME NEW p \in Paths, Index(p) \/ Attach(p) PROVE Covered'
  <2>1. Known' = Known
    BY <1>8 DEF Index, Attach, Known
  <2>2. \A q \in Known : row'[q].missing = row[q].missing
    BY <1>8 DEF Index, Attach, TypeOK, Known, Rows
  <2> QED BY <1>8, <2>1, <2>2 DEF Index, Attach, Covered
<1>9. ASSUME EndScan \/ Cancel PROVE Covered'
  BY <1>9 DEF EndScan, Cancel, Covered, Known
<1>10. ASSUME Crash PROVE Covered'
  BY <1>10 DEF Crash, CutOff, Covered
<1>11. ASSUME NEW p \in Paths, NEW bytes \in Bytes \union {None}, WriteFile(p, bytes)
       PROVE  Covered'
  BY <1>11 DEF WriteFile, Covered
<1>12. ASSUME NEW p \in Paths, NEW q \in Paths, MoveFile(p, q) PROVE Covered'
  BY <1>12 DEF MoveFile, Covered
<1>13. CASE UNCHANGED vars
  BY <1>13 DEF Covered, Known
<1> QED BY <1>1, <1>2, <1>3, <1>4, <1>5, <1>6, <1>7, <1>8, <1>9, <1>10, <1>11, <1>12,
           <1>13 DEF Next

(* After a full scan that nothing disturbed, the rows that are not missing  *)
(* are those of the files on disk, no matter what earlier scans were cut    *)
(* off, lost a commit or found the files halfway through a move.            *)
THEOREM ScanFollowsDisk == Spec => []ScanReflectsDisk
<1>1. Init => Covered
  BY DEF Init, Covered
<1>2. TypeOK /\ Covered => ScanReflectsDisk
  BY DEF TypeOK, Covered, ScanReflectsDisk, Reconciled
<1> QED BY <1>1, <1>2, CoveredStep, TypeCorrect, PTL DEF Spec

-----------------------------------------------------------------------------
(* Moves pair rows one to one                                               *)

LEMMA MovePairs ==
  ASSUME NEW m \in Moves
  PROVE  /\ m = <<m[1], m[2]>>
         /\ m[1] \in Known /\ disk[m[1]] = None /\ row[m[1]].hash # None
         /\ m[2] \in Known /\ disk[m[2]] # None /\ m[2] \in inserted
         /\ Key(m[2]) = Key(m[1])
         /\ \A n \in Moves : n[1] = m[1] \/ n[2] = m[2] => n = m
<1>1. \A n \in Moves : n \in Gone \X Candidates
  BY DEF Moves
<1>2. \A n \in Moves : n = <<n[1], n[2]>> /\ n[1] \in Gone /\ n[2] \in Candidates
  BY <1>1
<1>3. \A n \in Moves : /\ {p \in Gone : Key(p) = Key(n[1])} = {n[1]}
                       /\ {q \in Candidates : Key(q) = Key(n[1])} = {n[2]}
                       /\ row[n[1]].hash # None
  BY DEF Moves
<1>4. \A n \in Moves : Key(n[2]) = Key(n[1])
  BY <1>2, <1>3
<1>5. ASSUME NEW n \in Moves, n[1] = m[1] PROVE n = m
  BY <1>2, <1>3, <1>5
<1>6. ASSUME NEW n \in Moves, n[2] = m[2] PROVE n = m
  <2>1. n[1] \in {p \in Gone : Key(p) = Key(m[1])}
    BY <1>2, <1>4, <1>6
  <2> QED BY <1>3, <1>5, <2>1
<1> QED BY <1>2, <1>3, <1>4, <1>5, <1>6 DEF Gone, Candidates, InScope

(* The rows after the moves are those that are not the first of a pair; the *)
(* second of a pair has become the first.                                   *)
LEMMA MovedRows ==
  ASSUME row' = AfterMoves
  PROVE  /\ Known' = {p \in Known : \A m \in Moves : m[1] # p}
         /\ \A m \in Moves : m[2] \in Known' /\ row'[m[2]] = Repointed(row[m[1]])
         /\ \A p \in Known' : (\A m \in Moves : m[2] # p) => row'[p] = row[p]
<1>1. Known' = Known \ {m[1] : m \in Moves}
  BY DEF AfterMoves, Known
<1>2. Known' = {p \in Known : \A m \in Moves : m[1] # p}
  BY <1>1
<1>3. \A p \in Known' : row'[p] = IF \E m \in Moves : m[2] = p
                                  THEN Repointed(row[(CHOOSE m \in Moves : m[2] = p)[1]])
                                  ELSE row[p]
  BY <1>1 DEF AfterMoves, Known
<1>4. ASSUME NEW m \in Moves PROVE m[2] \in Known' /\ row'[m[2]] = Repointed(row[m[1]])
  <2>1. m[2] \in Known'
    BY <1>2, MovePairs
  <2> DEFINE n == CHOOSE n \in Moves : n[2] = m[2]
  <2>2. n \in Moves /\ n[2] = m[2]
    OBVIOUS
  <2>3. n = m
    BY <2>2, MovePairs
  <2> QED BY <1>3, <2>1, <2>3
<1> QED BY <1>2, <1>3, <1>4

-----------------------------------------------------------------------------
(* User data outlives every scan                                            *)

FiniteRows == IsFiniteSet(Known)

LEMMA RowsStayFinite == TypeOK /\ FiniteRows /\ [Next]_vars => FiniteRows'
<1> SUFFICES ASSUME TypeOK, FiniteRows, [Next]_vars PROVE FiniteRows'
  OBVIOUS
<1> USE DEF vars, scan, bounds, history
<1>1. \/ Known' \subseteq Known
      \/ \E p \in Paths : Known' = Known \union {p}
  <2>1. ASSUME NEW p \in Paths, Register(p)
        PROVE  Known' = Known \/ Known' = Known \union {p}
    BY <2>1 DEF Register, Known
  <2>2. ASSUME DetectMoves PROVE Known' \subseteq Known
    BY <2>2, MovedRows DEF DetectMoves, Known
  <2>3. ASSUME NEW p \in Paths, Index(p) \/ Attach(p) PROVE Known' = Known
    BY <2>3 DEF Index, Attach, Known
  <2>4. ASSUME FlagMissing PROVE Known' = Known
    BY <2>4 DEF FlagMissing, Known
  <2>5. CASE UNCHANGED row
    BY <2>5 DEF Known
  <2> QED BY <2>1, <2>2, <2>3, <2>4, <2>5
          DEF Next, StartScan, Visit, RegisterNothing, EndWalk, EndScan, Cancel, Crash,
              WriteFile, MoveFile
<1> QED BY <1>1, FS_Subset, FS_AddElement DEF FiniteRows

(* A step that deletes no row, keeps the data on each and counts none as    *)
(* newly inserted that was there keeps what was carried.                    *)
LEMMA KeepsCarrying ==
  ASSUME FiniteRows', NEW bytes,
         \A p \in Known \ inserted : row[p].data = bytes =>
           p \in Known' \ inserted' /\ row'[p].data = bytes
  PROVE  Cardinality(Carrying(bytes)') >= Cardinality(Carrying(bytes))
<1>1. Carrying(bytes) \in SUBSET (Carrying(bytes)')
  BY DEF Carrying
<1>2. IsFiniteSet(Carrying(bytes)')
  BY FS_Subset DEF Carrying, FiniteRows
<1>3. /\ Cardinality(Carrying(bytes)) <= Cardinality(Carrying(bytes)')
      /\ IsFiniteSet(Carrying(bytes))
  BY <1>1, <1>2, FS_Subset
<1>4. Cardinality(Carrying(bytes)) \in Nat /\ Cardinality(Carrying(bytes)') \in Nat
  BY <1>2, <1>3, FS_CardinalityType
<1> QED BY <1>3, <1>4

(* Detecting moves takes the row that carries the data to another path.     *)
LEMMA MovesKeepCarrying ==
  ASSUME TypeOK, FiniteRows', NEW bytes, row' = AfterMoves, inserted' = {}
  PROVE  Cardinality(Carrying(bytes)') >= Cardinality(Carrying(bytes))
<1> DEFINE from == {m[1] : m \in Moves}
           to(p) == CHOOSE m \in Moves : m[1] = p
           f == [p \in Carrying(bytes) |-> IF p \in from THEN to(p)[2] ELSE p]
<1>1. \A p \in from : to(p) \in Moves /\ to(p)[1] = p
  OBVIOUS
<1>2. \A p \in Carrying(bytes) : p \in Known /\ p \notin inserted /\ row[p].data = bytes
  BY DEF Carrying
<1>3. \A p \in Known' : row'[p].data = bytes => p \in Carrying(bytes)'
  BY DEF Carrying
<1>4. ASSUME NEW p \in Carrying(bytes), p \in from
      PROVE  f[p] \in Carrying(bytes)' /\ f[p] \in inserted
  <2> DEFINE m == to(p)
  <2>1. m \in Moves /\ m[1] = p
    BY <1>1, <1>4
  <2>2. m[2] \in Known' /\ row'[m[2]] = Repointed(row[p]) /\ m[2] \in inserted
    BY <2>1, MovedRows, MovePairs
  <2>3. row[p] \in Rows
    BY <1>2 DEF TypeOK
  <2>4. row'[m[2]].data = bytes
    BY <1>2, <2>2, <2>3 DEF Repointed, Rows
  <2> QED BY <1>3, <1>4, <2>2, <2>4
<1>5. ASSUME NEW p \in Carrying(bytes), p \notin from
      PROVE  f[p] = p /\ p \in Carrying(bytes)' /\ p \notin inserted
  <2>1. p \in Known' /\ \A m \in Moves : m[2] # p
    BY <1>2, <1>5, MovedRows, MovePairs
  <2> QED BY <1>2, <1>3, <1>5, <2>1, MovedRows
<1>6. f \in [Carrying(bytes) -> Carrying(bytes)']
  BY <1>4, <1>5
<1>7. ASSUME NEW p \in Carrying(bytes), NEW q \in Carrying(bytes), f[p] = f[q]
      PROVE  p = q
  <2>1. CASE p \in from /\ q \in from
    <3>1. to(p)[2] = to(q)[2]
      BY <1>7, <2>1
    <3>2. to(p) = to(q)
      BY <1>1, <2>1, <3>1, MovePairs
    <3> QED BY <1>1, <2>1, <3>2
  <2>2. CASE p \notin from \/ q \notin from
    BY <1>4, <1>5, <1>7, <2>2
  <2> QED BY <2>1, <2>2
<1>8. f \in Injection(Carrying(bytes), Carrying(bytes)')
  <2> HIDE DEF f
  <2> QED BY <1>6, <1>7, Fun_IsInj
<1>9. IsFiniteSet(Carrying(bytes)')
  BY FS_Subset DEF Carrying, FiniteRows
<1> HIDE DEF f
<1>10. /\ IsFiniteSet(Carrying(bytes))
       /\ Cardinality(Carrying(bytes)) <= Cardinality(Carrying(bytes)')
  BY <1>8, <1>9, FS_Injection
<1>11. Cardinality(Carrying(bytes)) \in Nat /\ Cardinality(Carrying(bytes)') \in Nat
  BY <1>9, <1>10, FS_CardinalityType
<1> QED BY <1>10, <1>11

(* No scan, whatever it is cut off by and whatever it takes for a move,     *)
(* loses what users attached to the books: as many rows as before carry     *)
(* each book's data after every step.                                       *)
THEOREM DataOutlivesScans == Spec => DataKept
<1> DEFINE Kept == \A bytes \in Bytes :
                     Cardinality(Carrying(bytes)') >= Cardinality(Carrying(bytes))
<1>1. Init => FiniteRows
  <2> SUFFICES ASSUME Init PROVE IsFiniteSet(Known)
    BY DEF FiniteRows
  <2>1. Known = {}
    BY DEF Init, Known
  <2> QED BY <2>1, FS_EmptySet
<1>2. TypeOK /\ FiniteRows /\ FiniteRows' /\ [Next]_vars => [Kept]_vars
  <2> SUFFICES ASSUME TypeOK, FiniteRows', Next, NEW bytes \in Bytes
               PROVE  Cardinality(Carrying(bytes)') >= Cardinality(Carrying(bytes))
    OBVIOUS
  <2> USE DEF scan, bounds, history
  <2>1. CASE UNCHANGED <<row, inserted>>
    BY <2>1, KeepsCarrying DEF Known
  <2>2. CASE UNCHANGED row /\ inserted' = {}
    BY <2>2, KeepsCarrying DEF Known
  <2>3. ASSUME NEW p \in Paths, Register(p)
        PROVE  Cardinality(Carrying(bytes)') >= Cardinality(Carrying(bytes))
    <3>1. \/ UNCHANGED row /\ inserted' = inserted
          \/ \E digest :
               /\ row' = [q \in Known \union {p} |->
                            IF q # p THEN row[q]
                            ELSE IF p \in Known THEN Refreshed(row[p], disk[p], digest)
                            ELSE Inserted(disk[p], digest)]
               /\ inserted' = InsertedAfter(p, TRUE)
      BY <2>3 DEF Register, InsertedAfter
    <3>2. ASSUME NEW digest,
                 row' = [q \in Known \union {p} |->
                           IF q # p THEN row[q]
                           ELSE IF p \in Known THEN Refreshed(row[p], disk[p], digest)
                           ELSE Inserted(disk[p], digest)],
                 inserted' = InsertedAfter(p, TRUE)
          PROVE  Cardinality(Carrying(bytes)') >= Cardinality(Carrying(bytes))
      <4>1. Known' = Known \union {p} /\ inserted' \subseteq inserted \union ({p} \ Known)
        BY <3>2 DEF Known, InsertedAfter
      <4>2. \A q \in Known : row'[q] = row[q] \/ q = p
        BY <3>2
      <4>3. p \in Known => row'[p].data = row[p].data
        <5> SUFFICES ASSUME p \in Known PROVE row'[p].data = row[p].data
          OBVIOUS
        <5>1. row[p] \in Rows
          BY DEF TypeOK
        <5>2. row'[p] = Refreshed(row[p], disk[p], digest)
          BY <3>2
        <5> QED BY <5>1, <5>2 DEF Refreshed, Rows
      <4> QED BY <4>1, <4>2, <4>3, KeepsCarrying
    <3> QED BY <2>1, <3>1, <3>2
  <2>4. ASSUME DetectMoves
        PROVE  Cardinality(Carrying(bytes)') >= Cardinality(Carrying(bytes))
    BY <2>2, <2>4, MovesKeepCarrying DEF DetectMoves
  <2>5. ASSUME FlagMissing
        PROVE  Cardinality(Carrying(bytes)') >= Cardinality(Carrying(bytes))
    <3>1. CASE row' = [p \in Known |-> Flagged(p)]
      <4>1. Known' = Known
        BY <3>1 DEF Known
      <4>2. \A p \in Known : row'[p].data = row[p].data
        BY <3>1 DEF Flagged, TypeOK, Rows
      <4> QED BY <2>5, <4>1, <4>2, KeepsCarrying DEF FlagMissing
    <3>2. CASE UNCHANGED row
      BY <2>1, <2>5, <3>2 DEF FlagMissing
    <3> QED BY <2>5, <3>1, <3>2 DEF FlagMissing
  <2>6. ASSUME NEW p \in Paths, Index(p) \/ Attach(p)
        PROVE  Cardinality(Carrying(bytes)') >= Cardinality(Carrying(bytes))
    <3>1. Known' = Known /\ inserted' = inserted /\ p \in Known
      BY <2>6 DEF Index, Attach, Unread, Known
    <3>2. bytes # None
      BY MovesAssumption
    <3>3. \A q \in Known : row[q].data = bytes => row'[q].data = bytes
      BY <2>6, <3>1, <3>2 DEF Index, Attach, Known, TypeOK, Rows
    <3> QED BY <3>1, <3>3, KeepsCarrying
  <2> QED BY <2>1, <2>2, <2>3, <2>4, <2>5, <2>6
          DEF Next, StartScan, Visit, RegisterNothing, EndWalk, EndScan, Cancel, Crash,
              WriteFile, MoveFile
<1> QED BY <1>1, <1>2, RowsStayFinite, TypeCorrect, PTL DEF Spec, DataKept

-----------------------------------------------------------------------------
(* Files that only move                                                     *)

(* The stored signature of a row. Only a registration while a stop is       *)
(* requested leaves out the digest, and that scan never detects its moves.  *)
Signed(p) ==
  /\ disk[p] # None => row[p].stat = disk[p]
  /\ \/ row[p].hash = row[p].stat
     \/ row[p].hash = None /\ p \in inserted /\ stop /\ phase = "walk"

(* While the history is tidy the contents on disk are distinct, each row's  *)
(* contents are still somewhere, and two rows with the same contents are an *)
(* older one, whose file is gone, and the one this scan inserted for it.    *)
Followed ==
  tidy =>
    /\ \A p, q \in Paths : disk[p] = disk[q] /\ disk[p] # None => p = q
    /\ \A p \in Known : Signed(p) /\ \E q \in Paths : disk[q] = row[p].stat
    /\ \A p, q \in Known \ inserted : row[p].stat = row[q].stat => p = q
    /\ \A q \in inserted : disk[q] # None
    /\ phase \in {"walk", "moves"} \/ inserted = {}

(* A step that leaves the files and the signatures alone.                   *)
LEMMA FollowedFrame ==
  ASSUME TypeOK, Followed, disk' = disk, Known' = Known,
         \A p \in Known : row'[p].stat = row[p].stat /\ row'[p].hash = row[p].hash,
         tidy' => /\ tidy /\ inserted' = inserted
                  /\ inserted = {} \/ phase' \in {"walk", "moves"}
                  /\ inserted = {} \/ ~stop \/ (phase' = phase /\ stop')
  PROVE  Followed'
<1> SUFFICES ASSUME tidy' PROVE Followed'
  BY DEF Followed
<1>1. tidy /\ inserted' = inserted
  OBVIOUS
<1>2. ASSUME NEW p \in Known
      PROVE  Signed(p)' /\ \E q \in Paths : disk'[q] = row'[p].stat
  BY <1>1, <1>2 DEF Followed, Signed
<1>3. \A p, q \in Known' \ inserted' : row'[p].stat = row'[q].stat => p = q
  <2>1. \A p, q \in Known \ inserted : row[p].stat = row[q].stat => p = q
    BY <1>1 DEF Followed
  <2> QED BY <1>1, <2>1
<1>4. /\ \A p, q \in Paths : disk'[p] = disk'[q] /\ disk'[p] # None => p = q
      /\ \A q \in inserted' : disk'[q] # None
  BY <1>1 DEF Followed
<1>5. phase' \in {"walk", "moves"} \/ inserted' = {}
  BY <1>1
<1>6. \A p \in Known' : Signed(p)' /\ \E q \in Paths : disk'[q] = row'[p].stat
  BY <1>2
<1> QED BY <1>3, <1>4, <1>5, <1>6 DEF Followed

(* Registering a file adds a row the moves will look at, or completes the   *)
(* one there is.                                                            *)
LEMMA RegisterFollows ==
  ASSUME TypeOK, Covered, Followed, NEW p \in Paths, Register(p)
  PROVE  Followed'
<1> SUFFICES ASSUME tidy' PROVE Followed'
  BY DEF Followed
<1>1. /\ tidy /\ disk[p] \in Bytes /\ visiting # {} /\ phase = "walk" /\ disk[p] # None
      /\ disk' = disk /\ phase' = phase /\ stop' = stop
  BY DEF Register, Covered, TypeOK
<1>2. CASE UNCHANGED row /\ inserted' = inserted
  BY <1>1, <1>2, FollowedFrame DEF Known
<1>3. ASSUME NEW digest \in {disk[p]} \union (IF stop THEN {None} ELSE {}),
             row' = [q \in Known \union {p} |->
                       IF q # p THEN row[q]
                       ELSE IF p \in Known THEN Refreshed(row[p], disk[p], digest)
                       ELSE Inserted(disk[p], digest)],
             inserted' = InsertedAfter(p, TRUE)
      PROVE  Followed'
  <2>1. /\ Known' = Known \union {p} /\ inserted \subseteq inserted'
        /\ inserted' \ inserted = {p} \ Known
    BY <1>3 DEF Known, InsertedAfter, TypeOK
  <2>2. \A q \in Known \ {p} : row'[q] = row[q]
    BY <1>3
  <2>3. row'[p].stat = disk[p] /\ Signed(p)'
    <3>1. CASE p \in Known
      <4>1. row'[p] = Refreshed(row[p], disk[p], digest)
        BY <1>3, <3>1
      <4>2. row[p] \in Rows /\ row[p].hash = None /\ p \in inserted /\ stop
        BY <1>1, <3>1 DEF Followed, Signed, Register, SignatureMatches, TypeOK
      <4>3. row'[p].stat = disk[p] /\ row'[p].hash \in {disk[p], None}
        BY <4>1, <4>2, <1>3 DEF Refreshed, Rows
      <4> QED BY <1>1, <2>1, <4>2, <4>3 DEF Signed
    <3>2. CASE p \notin Known
      <4>1. row'[p] = Inserted(disk[p], digest)
        BY <1>3, <3>2
      <4>2. row'[p].stat = disk[p] /\ row'[p].hash = digest /\ p \in inserted'
        BY <2>1, <3>2, <4>1 DEF Inserted
      <4> QED BY <1>1, <1>3, <4>2 DEF Signed
    <3> QED BY <3>1, <3>2
  <2>4. ASSUME NEW q \in Known'
        PROVE  Signed(q)' /\ \E s \in Paths : disk'[s] = row'[q].stat
    <3>1. CASE q = p
      BY <1>1, <2>3, <3>1
    <3>2. CASE q # p
      BY <1>1, <2>1, <2>2, <3>2 DEF Followed, Signed
    <3> QED BY <3>1, <3>2
  <2>5. ASSUME NEW q \in Known' \ inserted' PROVE q \in Known \ inserted /\ row'[q].stat = row[q].stat
    <3>1. q \in Known \ inserted
      BY <2>1
    <3>2. CASE q = p
      BY <1>1, <2>3, <3>1, <3>2 DEF Followed, Signed
    <3> QED BY <2>2, <3>1, <3>2
  <2>6. \A q \in inserted' : disk'[q] # None
    BY <1>1, <2>1 DEF Followed
  <2> QED BY <1>1, <2>4, <2>5, <2>6 DEF Followed
<1> QED BY <1>2, <1>3 DEF Register, InsertedAfter

(* Two rows with the same contents are a pair the moves find.               *)
LEMMA MovesFollow ==
  ASSUME TypeOK, Followed, DetectMoves, row' = AfterMoves, tidy', tidy,
         scope = Paths \/ inserted = {}
  PROVE  Followed'
<1>1. /\ disk' = disk /\ inserted' = {} /\ phase = "moves"
  BY DEF DetectMoves
<1>2. \A p \in Known : /\ row[p] \in Rows /\ row[p].hash = row[p].stat
                       /\ disk[p] # None => row[p].stat = disk[p]
                       /\ \E q \in Paths : disk[q] = row[p].stat
  BY <1>1 DEF Followed, Signed, TypeOK
<1>3. \A p \in Known' : p \in Known /\ row'[p].stat = row[p].stat /\ row'[p].hash = row[p].hash
  <2> SUFFICES ASSUME NEW p \in Known'
               PROVE  p \in Known /\ row'[p].stat = row[p].stat /\ row'[p].hash = row[p].hash
    OBVIOUS
  <2>1. p \in Known
    BY MovedRows
  <2>2. ASSUME NEW m \in Moves, m[2] = p
        PROVE  row'[p].stat = row[p].stat /\ row'[p].hash = row[p].hash
    <3>1. row'[p] = Repointed(row[m[1]]) /\ m[1] \in Known /\ Key(p) = Key(m[1])
      BY <2>2, MovedRows, MovePairs
    <3>2. row'[p].stat = row[m[1]].stat /\ row'[p].hash = row[m[1]].hash
      BY <1>2, <3>1 DEF Repointed, Rows
    <3> QED BY <3>1, <3>2 DEF Key
  <2>3. CASE \A m \in Moves : m[2] # p
    BY <2>3, MovedRows
  <2> QED BY <2>1, <2>2, <2>3
<1>4. ASSUME NEW p \in Known, NEW q \in Known, p \notin inserted, q \in inserted,
             row[p].stat = row[q].stat
      PROVE  \E m \in Moves : m[1] = p
  <2>1. disk[q] # None /\ p # q
    BY <1>4 DEF Followed
  <2>2. disk[p] = None
    BY <1>2, <1>4, <2>1 DEF Followed, TypeOK
  <2>3. p \in Gone /\ q \in Candidates /\ Key(q) = Key(p) /\ row[p].hash # None
    <3>1. Known \subseteq scope
      BY <1>4 DEF TypeOK
    <3>2. row[p].hash \in Bytes
      BY <1>2 DEF Rows
    <3> QED BY <1>2, <1>4, <2>1, <2>2, <3>1, <3>2, MovesAssumption
            DEF Gone, Candidates, InScope, Key
  <2>4. ASSUME NEW s \in Gone, Key(s) = Key(p) PROVE s = p
    <3>1. s \in Known /\ disk[s] = None /\ row[s].stat = row[p].stat
      BY <2>4 DEF Gone, InScope, Key
    <3>2. s \notin inserted
      BY <3>1 DEF Followed
    <3> QED BY <1>4, <3>1, <3>2 DEF Followed
  <2>5. ASSUME NEW s \in Candidates, Key(s) = Key(p) PROVE s = q
    <3>1. s \in Known /\ disk[s] # None /\ row[s].stat = row[p].stat
      BY <2>5 DEF Candidates, InScope, Key
    <3>2. disk[s] = disk[q] /\ s \in Paths /\ q \in Paths
      BY <1>2, <1>4, <2>1, <3>1 DEF TypeOK
    <3> QED BY <3>1, <3>2 DEF Followed
  <2>6. {s \in Gone : Key(s) = Key(p)} = {p} /\ {s \in Candidates : Key(s) = Key(p)} = {q}
    BY <2>3, <2>4, <2>5
  <2>7. <<p, q>> \in Gone \X Candidates
    BY <2>3
  <2>8. <<p, q>> \in Moves
    BY <2>3, <2>6, <2>7 DEF Moves
  <2> QED BY <2>8
<1>5. ASSUME NEW p \in Known', NEW q \in Known', row'[p].stat = row'[q].stat PROVE p = q
  <2>1. /\ p \in Known /\ q \in Known /\ row[p].stat = row[q].stat
        /\ \A m \in Moves : m[1] # p /\ m[1] # q
    BY <1>3, <1>5, MovedRows
  <2>2. p \in inserted <=> q \in inserted
    BY <1>4, <2>1
  <2>3. CASE p \notin inserted
    BY <2>1, <2>2, <2>3 DEF Followed
  <2>4. CASE p \in inserted
    BY <1>2, <2>1, <2>2, <2>4 DEF Followed, TypeOK
  <2> QED BY <2>3, <2>4
<1>6. \A p \in Known' : Signed(p)' /\ \E q \in Paths : disk'[q] = row'[p].stat
  BY <1>1, <1>2, <1>3 DEF Signed
<1> QED BY <1>1, <1>5, <1>6 DEF Followed

(* A file that appears is a new book, and one that moves keeps its contents *)
(* where some row can follow them.                                          *)
LEMMA FilesMove ==
  ASSUME TypeOK, Followed, NEW p \in Paths,
         \/ \E bytes \in Bytes \union {None} : WriteFile(p, bytes)
         \/ \E q \in Paths : MoveFile(p, q)
  PROVE  Followed'
<1> SUFFICES ASSUME tidy' PROVE Followed'
  BY DEF Followed
<1> USE DEF scan
<1>1. /\ tidy /\ row' = row /\ Known' = Known /\ inserted' = inserted
      /\ phase' = phase /\ stop' = stop
  BY DEF WriteFile, MoveFile, Known
<1>2. ASSUME NEW bytes \in Bytes \union {None}, WriteFile(p, bytes) PROVE Followed'
  <2>1. /\ disk' = [disk EXCEPT ![p] = bytes] /\ disk[p] = None /\ p \notin Known
        /\ New(bytes) /\ bytes # None
    BY <1>2 DEF WriteFile
  <2>2. disk'[p] = bytes /\ \A q \in Paths \ {p} : disk'[q] = disk[q]
    BY <2>1 DEF TypeOK
  <2>3. \A q, s \in Paths : disk'[q] = disk'[s] /\ disk'[q] # None => q = s
    BY <1>1, <2>1, <2>2 DEF New, Followed
  <2>4. ASSUME NEW q \in Known
        PROVE  Signed(q)' /\ \E s \in Paths : disk'[s] = row'[q].stat
    <3>1. q # p /\ q \in Paths /\ disk'[q] = disk[q]
      BY <2>1, <2>2 DEF TypeOK
    <3>2. row[q].stat \in Bytes
      BY DEF TypeOK, Rows
    <3>3. PICK s \in Paths : disk[s] = row[q].stat
      BY <1>1 DEF Followed
    <3>4. s # p
      BY <2>1, <3>2, <3>3, MovesAssumption
    <3> QED BY <1>1, <2>2, <3>1, <3>3, <3>4 DEF Followed, Signed
  <2>5. \A q \in inserted : disk'[q] # None
    BY <1>1, <2>1, <2>2 DEF Followed, TypeOK
  <2> QED BY <1>1, <2>3, <2>4, <2>5 DEF Followed
<1>3. ASSUME NEW q \in Paths, MoveFile(p, q) PROVE Followed'
  <2>1. /\ disk' = [disk EXCEPT ![q] = disk[p], ![p] = None]
        /\ disk[p] # None /\ disk[q] = None /\ q \notin Known /\ p \notin inserted
        /\ p # q
    BY <1>3 DEF MoveFile
  <2>2. /\ disk'[p] = None /\ disk'[q] = disk[p]
        /\ \A s \in Paths \ {p, q} : disk'[s] = disk[s]
    <3>1. disk \in [Paths -> Bytes \union {None}]
      BY DEF TypeOK
    <3>2. disk' = [s \in Paths |-> IF s = p THEN None ELSE IF s = q THEN disk[p] ELSE disk[s]]
      BY <2>1, <3>1
    <3>3. p # q /\ p \in Paths /\ q \in Paths
      BY <2>1
    <3> QED BY ONLY <3>2, <3>3
  <2>3. ASSUME NEW s \in Paths, NEW t \in Paths, disk'[s] = disk'[t], disk'[s] # None
        PROVE  s = t
    <3> DEFINE old(r) == IF r = q THEN p ELSE r
    <3>1. s # p /\ t # p
      BY <2>2, <2>3
    <3>2. disk'[s] = disk[old(s)] /\ disk'[t] = disk[old(t)]
      BY <2>2, <3>1
    <3>3. old(s) \in Paths /\ old(t) \in Paths
      OBVIOUS
    <3>4. old(s) = old(t)
      <4> HIDE DEF old
      <4> QED BY <1>1, <2>3, <3>2, <3>3 DEF Followed
    <3> QED BY <3>1, <3>4
  <2>4. ASSUME NEW s \in Known
        PROVE  Signed(s)' /\ \E t \in Paths : disk'[t] = row'[s].stat
    <3>1. s # q /\ s \in Paths /\ (disk'[s] # None => disk'[s] = disk[s])
      BY <2>1, <2>2 DEF TypeOK
    <3>2. Signed(s)'
      BY <1>1, <3>1 DEF Followed, Signed
    <3>3. row[s].stat \in Bytes
      BY DEF TypeOK, Rows
    <3>4. PICK t \in Paths : disk[t] = row[s].stat
      BY <1>1 DEF Followed
    <3>5. disk'[IF t = p THEN q ELSE t] = row'[s].stat
      BY <1>1, <2>1, <2>2, <3>3, <3>4, MovesAssumption
    <3> QED BY <3>2, <3>5
  <2>5. \A s \in inserted : disk'[s] # None
    BY <1>1, <2>1, <2>2 DEF Followed, TypeOK
  <2> QED BY <1>1, <2>3, <2>4, <2>5 DEF Followed
<1> QED BY <1>2, <1>3

LEMMA FollowedStep == TypeOK /\ Covered /\ Followed /\ [Next]_vars => Followed'
<1> SUFFICES ASSUME TypeOK, Covered, Followed, [Next]_vars PROVE Followed'
  OBVIOUS
<1> USE DEF vars, scan, bounds, history
<1>1. ASSUME NEW subtree \in Scopes, StartScan(subtree) PROVE Followed'
  <2>1. tidy => inserted = {}
    BY <1>1 DEF StartScan, Followed
  <2> QED BY <1>1, <2>1, FollowedFrame DEF StartScan, Known
<1>2. ASSUME NEW p \in Paths, Visit(p) \/ RegisterNothing(p) PROVE Followed'
  <2>1. /\ UNCHANGED <<disk, row, phase, inserted, stop, tidy>>
    BY <1>2 DEF Visit, RegisterNothing
  <2> QED BY <2>1, FollowedFrame DEF Followed, Known
<1>3. ASSUME NEW p \in Paths, Register(p) PROVE Followed'
  BY <1>3, RegisterFollows
<1>4. ASSUME EndWalk PROVE Followed'
  BY <1>4, FollowedFrame DEF EndWalk, CutOff, Known
<1>5. ASSUME DetectMoves PROVE Followed'
  <2>1. CASE row' = AfterMoves /\ tidy' = (tidy /\ (scope = Paths \/ inserted = {}))
    <3>1. CASE tidy'
      BY <1>5, <2>1, <3>1, MovesFollow
    <3>2. CASE ~tidy'
      BY <3>2 DEF Followed
    <3> QED BY <3>1, <3>2
  <2>2. CASE CutOff /\ UNCHANGED row
    BY <1>5, <2>2, FollowedFrame DEF DetectMoves, CutOff, Known
  <2> QED BY <1>5, <2>1, <2>2 DEF DetectMoves
<1>6. ASSUME FlagMissing PROVE Followed'
  <2>1. Known' = Known
    BY <1>6 DEF FlagMissing, Known
  <2>2. \A p \in Known : row'[p].stat = row[p].stat /\ row'[p].hash = row[p].hash
    BY <1>6 DEF FlagMissing, Flagged, TypeOK, Rows
  <2>3. tidy => inserted = {}
    BY <1>6 DEF FlagMissing, Followed
  <2> QED BY <1>6, <2>1, <2>2, <2>3, FollowedFrame DEF FlagMissing
<1>7. ASSUME NEW p \in Paths, Index(p) \/ Attach(p) PROVE Followed'
  <2>1. Known' = Known /\ UNCHANGED <<disk, phase, inserted, stop, tidy>>
    BY <1>7 DEF Index, Attach, Known
  <2>2. \A q \in Known : row'[q].stat = row[q].stat /\ row'[q].hash = row[q].hash
    BY <1>7 DEF Index, Attach, Known, TypeOK, Rows
  <2> QED BY <2>1, <2>2, FollowedFrame DEF Followed
<1>8. ASSUME EndScan PROVE Followed'
  <2>1. tidy => inserted = {}
    BY <1>8 DEF EndScan, Followed
  <2> QED BY <1>8, <2>1, FollowedFrame DEF EndScan, Known
<1>9. ASSUME Cancel PROVE Followed'
  BY <1>9, FollowedFrame DEF Cancel, Followed, Known
<1>10. ASSUME Crash PROVE Followed'
  BY <1>10, FollowedFrame DEF Crash, CutOff, Known
<1>11. ASSUME NEW p \in Paths,
              \/ \E bytes \in Bytes \union {None} : WriteFile(p, bytes)
              \/ \E q \in Paths : MoveFile(p, q)
       PROVE  Followed'
  BY <1>11, FilesMove
<1>12. CASE UNCHANGED vars
  BY <1>12, FollowedFrame DEF Followed, Known
<1> QED BY <1>1, <1>2, <1>3, <1>4, <1>5, <1>6, <1>7, <1>8, <1>9, <1>10, <1>11, <1>12 DEF Next

(* While files only move, by any route, during any scan and across scans    *)
(* that were cut off before they inserted a row, each row has followed its  *)
(* file once a full scan runs undisturbed.                                  *)
THEOREM MovesAreRecognised == Spec => []MovesRecognised
<1>1. Init => Covered /\ Followed
  BY DEF Init, Covered, Followed, Known
<1>2. TypeOK /\ Covered /\ Followed => MovesRecognised
  <2> SUFFICES ASSUME TypeOK, Covered, Followed, Reconciled, tidy,
                      NEW p \in Known, row[p].missing
               PROVE  FALSE
    BY DEF MovesRecognised
  <2>1. disk[p] = None /\ inserted = {} /\ p \in Paths
    BY DEF Covered, Followed, Reconciled, TypeOK
  <2>2. PICK q \in Paths : disk[q] = row[p].stat
    BY DEF Followed
  <2>3. disk[q] # None
    BY <2>2, MovesAssumption DEF TypeOK, Rows
  <2>4. q \in Known /\ row[q].stat = disk[q]
    BY <2>3 DEF Covered, Reconciled, Followed, Signed
  <2> QED BY <2>1, <2>2, <2>3, <2>4 DEF Followed
<1> QED BY <1>1, <1>2, CoveredStep, FollowedStep, TypeCorrect, PTL DEF Spec
=============================================================================
