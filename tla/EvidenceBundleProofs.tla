---- MODULE EvidenceBundleProofs ----
(***************************************************************************)
(* Evidence bundles, for every number of jobs, bundles and rotten files.     *)
(*                                                                          *)
(* A bundle can only be made from files that belong together (Pure), and     *)
(* what is staged, moved and exported again is such files.  An import that   *)
(* is cut short leaves nothing or everything, because of what is on the disk *)
(* and in the database when each of its steps comes next (UnderWay).         *)
(***************************************************************************)
EXTENDS EvidenceBundle, SequenceTheorems, TLAPS

Programs ==
    {<<"stage", "move", "row", "mirror">>, <<"move", "row", "mirror">>, <<"row", "mirror">>,
     <<"mirror">>, <<"remove", "delete">>, <<"delete">>}

Follows(step, next) ==
    \/ step = "stage" /\ next = "move"
    \/ step = "move" /\ next = "row"
    \/ step = "row" /\ next = "mirror"
    \/ step = "remove" /\ next = "delete"

LEMMA ProgramsRun ==
  ASSUME NEW todo \in Programs
  PROVE  /\ todo \in Seq(StepNames) /\ Head(todo) \in StepNames
         /\ Len(todo) = 1 <=> Head(todo) \in {"mirror", "delete"}
         /\ Len(todo) # 1 => /\ Tail(todo) \in Programs
                             /\ Follows(Head(todo), Head(Tail(todo)))
<1>1. CASE todo = <<"stage", "move", "row", "mirror">>
  <2>1. Tail(todo) = <<"move", "row", "mirror">>
    BY <1>1
  <2> QED
    BY <1>1, <2>1 DEF Programs, Follows, StepNames
<1>2. CASE todo = <<"move", "row", "mirror">>
  <2>1. Tail(todo) = <<"row", "mirror">>
    BY <1>2
  <2> QED
    BY <1>2, <2>1 DEF Programs, Follows, StepNames
<1>3. CASE todo = <<"row", "mirror">>
  <2>1. Tail(todo) = <<"mirror">>
    BY <1>3
  <2> QED
    BY <1>3, <2>1 DEF Programs, Follows, StepNames
<1>4. CASE todo = <<"remove", "delete">>
  <2>1. Tail(todo) = <<"delete">>
    BY <1>4
  <2> QED
    BY <1>4, <2>1 DEF Programs, Follows, StepNames
<1>5. CASE todo = <<"mirror">>
  BY <1>5 DEF StepNames
<1>6. CASE todo = <<"delete">>
  BY <1>6 DEF StepNames
<1> QED
  BY <1>1, <1>2, <1>3, <1>4, <1>5, <1>6 DEF Programs

LEMMA ProgramsStart ==
  /\ Steps \in Programs /\ Head(Steps) = "stage"
  /\ <<"remove", "delete">> \in Programs /\ Head(<<"remove", "delete">>) = "remove"
  BY DEF Steps, Programs

TypeInv ==
    /\ TypeOK
    /\ op # Nothing => op.todo \in Programs /\ up

LEMMA OpIsTyped ==
  ASSUME TypeInv, op # Nothing
  PROVE  /\ op \in Operations /\ op.todo \in Programs
         /\ op.job \in Imports /\ op.job \in Jobs /\ op.files \in [Files -> Contents]
  BY DEF TypeInv, TypeOK, Operations, Jobs

LEMMA AdvanceIsTyped ==
  ASSUME TypeInv, op # Nothing, Advance
  PROVE  /\ op' \in Operations \cup {Nothing}
         /\ op' # Nothing =>
              /\ op'.todo \in Programs
              /\ op'.job = op.job /\ op'.files = op.files
              /\ Follows(Head(op.todo), Head(op'.todo))
         /\ Head(op.todo) \in {"mirror", "delete"} => op' = Nothing
<1>1. op \in Operations /\ op.todo \in Programs
  BY OpIsTyped
<1>2. CASE Len(op.todo) = 1
  BY <1>2 DEF Advance
<1>3. CASE Len(op.todo) # 1
  <2>1. op' = [op EXCEPT !.todo = Tail(op.todo)]
    BY <1>3 DEF Advance
  <2>2. Tail(op.todo) \in Programs /\ Follows(Head(op.todo), Head(Tail(op.todo)))
    BY <1>1, <1>3, ProgramsRun
  <2>3. Tail(op.todo) \in Seq(StepNames) /\ Head(op.todo) \notin {"mirror", "delete"}
    BY <1>1, <1>3, <2>2, ProgramsRun
  <2> QED
    BY <1>1, <2>1, <2>2, <2>3 DEF Operations
<1> QED
  BY <1>2, <1>3

-----------------------------------------------------------------------------
(* Types *)

LEMMA ExportableIsWhole ==
  ASSUME NEW d \in Directory, Exportable(d)
  PROVE  d \in [Files -> Contents]
  BY DEF Directory, Exportable

LEMMA TypeIsInductive == TypeInv /\ [Next]_vars => TypeInv'
<1> SUFFICES ASSUME TypeInv, [Next]_vars
             PROVE  TypeInv'
  OBVIOUS
<1> USE DEF TypeInv, TypeOK
<1>1. CASE UNCHANGED vars
  BY <1>1 DEF vars
<1>2. ASSUME NEW j \in Jobs, Export(j)
      PROVE  TypeInv'
  <2>1. [inventory |-> dir[j], files |-> dir[j]] \in Bundle
    BY <1>2, ExportableIsWhole DEF Export, Bundle
  <2> QED
    BY <1>2, <2>1 DEF Export
<1>3. ASSUME NEW j \in Jobs, NEW i \in Imports, Import(i, j)
      PROVE  TypeInv'
  <2>1. archive[j].files \in [Files -> Contents]
    BY <1>3 DEF Import, Bundle
  <2>2. op' \in Operations /\ op'.todo \in Programs
    BY <1>3, <2>1, ProgramsStart, ProgramsRun DEF Import, Operations
  <2> QED
    BY <1>3, <2>2 DEF Import, Operations
<1>4. CASE Stage \/ Move \/ InsertRow \/ Mirror \/ Remove \/ Delete
  <2>1. op # Nothing /\ Advance /\ up /\ UNCHANGED <<archive, up, rotten>>
    BY <1>4 DEF Stage, Move, InsertRow, Mirror, Remove, Delete, At
  <2>2. op.job \in Imports /\ op.job \in Jobs /\ op.files \in [Files -> Contents]
    BY <2>1, OpIsTyped
  <2>3. op' \in Operations \cup {Nothing} /\ (op' # Nothing => op'.todo \in Programs)
    BY <2>1, AdvanceIsTyped
  <2>4. staging' \in Directory
    BY <1>4, <2>2 DEF Stage, Move, InsertRow, Mirror, Remove, Delete, Staged, Directory, Empty, Files
  <2>5. rows' \subseteq Jobs
    BY <1>4, <2>2 DEF Stage, Move, InsertRow, Mirror, Remove, Delete
  <2>6. spoilt' \subseteq Imports
    BY <1>4, <2>2 DEF Stage, Move, InsertRow, Mirror, Remove, Delete
  <2>7. dir' \in [Jobs -> Directory]
    <3>1. CASE Move
      BY <2>2, <3>1 DEF Move
    <3>2. CASE Remove
      <4>1. PICK left \in Remains(op.job) : dir' = [dir EXCEPT ![op.job] = left]
        BY <3>2 DEF Remove
      <4>2. left \in Directory
        BY <2>2, <4>1 DEF Remains, Directory
      <4> QED
        BY <2>2, <4>1, <4>2
    <3> QED
      BY <1>4, <3>1, <3>2 DEF Stage, InsertRow, Mirror, Delete
  <2> QED
    BY <2>1, <2>3, <2>4, <2>5, <2>6, <2>7 DEF Operations
<1>5. CASE Raise
  <2>1. op # Nothing /\ op \in Operations /\ op.job \in Imports /\ up
    BY <1>5, OpIsTyped DEF Raise, At
  <2>2. /\ op' \in Operations \cup {Nothing} /\ (op' # Nothing => op'.todo \in Programs)
    <3>1. [op EXCEPT !.todo = <<"remove", "delete">>] \in Operations
      BY <2>1, ProgramsStart, ProgramsRun DEF Operations
    <3> QED
      BY <1>5, <2>1, <3>1, ProgramsStart DEF Raise, Operations
  <2> QED
    BY <1>5, <2>1, <2>2 DEF Raise, Operations, Directory, Empty
<1>6. CASE Crash
  <2>1. At("remove") \/ At("delete") => op.job \in Imports
    BY OpIsTyped DEF At
  <2> QED
    BY <1>6, <2>1 DEF Crash, Directory, Empty
<1>7. CASE Restart
  BY <1>7 DEF Restart
<1>8. ASSUME NEW j \in Jobs, LookUp(j)
      PROVE  TypeInv'
  BY <1>8 DEF LookUp
<1>9. ASSUME NEW j \in Jobs, NEW f \in Files, RotFile(j, f)
      PROVE  TypeInv'
  <2>1. dir' \in [Jobs -> Directory]
    BY <1>9 DEF RotFile, Directory, Contents
  <2> QED
    BY <1>9, <2>1 DEF RotFile
<1>10. ASSUME NEW j \in Jobs, NEW f \in Files, GarbleBundle(j, f)
       PROVE  TypeInv'
  <2>1. archive[j] \in Bundle
    BY <1>10 DEF GarbleBundle
  <2>2. [archive[j] EXCEPT !.files[f] = Garbled] \in Bundle
    BY <2>1 DEF Bundle, Contents
  <2>3. archive' = [archive EXCEPT ![j] = [archive[j] EXCEPT !.files[f] = Garbled]]
    BY <1>10, <2>1 DEF GarbleBundle
  <2> QED
    BY <1>10, <2>2, <2>3 DEF GarbleBundle
<1> QED
  BY <1>1, <1>2, <1>3, <1>4, <1>5, <1>6, <1>7, <1>8, <1>9, <1>10 DEF Next

LEMMA TypesHold == Spec => []TypeInv
<1>1. ASSUME Init
      PROVE  TypeInv
  <2>1. dir \in [Jobs -> Directory]
    BY <1>1 DEF Init, Directory, Empty, Contents
  <2> QED
    BY <1>1, <2>1 DEF Init, TypeInv, TypeOK, Directory, Empty, Jobs
<1> QED
  BY <1>1, TypeIsInductive, PTL DEF Spec

\* Every variable keeps its type; in particular no import is under way while the
\* server is down, and an import has its files complete from the beginning.
THEOREM TypeCorrect == Spec => []TypeOK
  BY TypesHold, PTL DEF TypeInv

-----------------------------------------------------------------------------
(* What travels *)

\* Files of one original; what the server writes anew or never compares aside.
Pure(files) == \E o \in Originals : \A f \in {"input", "output", "manifest"} : files[f] = o

Ungarbled(files) == \A f \in Files : files[f] # Garbled

TravelInv ==
    /\ \A j \in Jobs : archive[j] # Nothing =>
         Pure(archive[j].inventory) /\ Ungarbled(archive[j].inventory)
    /\ \A j \in Jobs : Ungarbled(dir[j])
    /\ Ungarbled(staging)
    /\ op # Nothing => Pure(op.files) /\ Ungarbled(op.files)

LEMMA ExportsArePure ==
  ASSUME NEW d \in Directory, Exportable(d), Ungarbled(d)
  PROVE  Pure(d)
<1>1. d["manifest"] \in Originals
  BY DEF Exportable, Ungarbled, Directory, Contents, Files
<1> QED
  BY <1>1 DEF Exportable, MatchesManifest, Hashed, Pure

LEMMA TravelStep == TypeInv /\ TravelInv /\ [Next]_vars => TravelInv'
<1> SUFFICES ASSUME TypeInv, TravelInv, [Next]_vars
             PROVE  TravelInv'
  OBVIOUS
<1> USE DEF TravelInv
<1>1. CASE UNCHANGED vars
  BY <1>1 DEF vars
<1>2. ASSUME NEW j \in Jobs, Export(j)
      PROVE  TravelInv'
  <2>1. Pure(dir[j]) /\ Ungarbled(dir[j])
    BY <1>2, ExportsArePure DEF Export, TypeInv, TypeOK
  <2>2. archive' = [archive EXCEPT ![j] = [inventory |-> dir[j], files |-> dir[j]]]
    BY <1>2 DEF Export
  <2>3. \A k \in Jobs : archive'[k] = IF k = j THEN [inventory |-> dir[j], files |-> dir[j]] ELSE archive[k]
    BY <2>2 DEF TypeInv, TypeOK
  <2>4. UNCHANGED <<dir, staging, op>>
    BY <1>2 DEF Export
  <2> QED
    BY <2>1, <2>3, <2>4
<1>3. ASSUME NEW j \in Jobs, NEW i \in Imports, Import(i, j)
      PROVE  TravelInv'
  <2>1. op' = [job |-> i, files |-> archive[j].files, todo |-> Steps]
    BY <1>3 DEF Import
  <2>2. archive[j].files = archive[j].inventory /\ archive[j] # Nothing
    BY <1>3 DEF Import, Acceptable
  <2>3. UNCHANGED <<dir, staging, archive>>
    BY <1>3 DEF Import
  <2> QED
    BY <2>1, <2>2, <2>3
<1>4. CASE Stage \/ Move \/ InsertRow \/ Mirror \/ Remove \/ Delete
  <2>1. op # Nothing /\ Advance /\ UNCHANGED archive
    BY <1>4 DEF Stage, Move, InsertRow, Mirror, Remove, Delete, At
  <2>2. op' # Nothing => op'.files = op.files
    BY <2>1, AdvanceIsTyped
  <2>3. Ungarbled(staging')
    <3>1. CASE Stage
      <4>1. staging' = [op.files EXCEPT !["job"] = op.files["manifest"]]
        BY <3>1 DEF Stage, Staged
      <4>2. op.files \in [Files -> Contents]
        BY <2>1, OpIsTyped
      <4> QED
        BY <2>1, <4>1, <4>2 DEF Ungarbled, Files
    <3>2. CASE Move
      BY <3>2, EvidenceAssumption DEF Move, Ungarbled, Empty
    <3> QED
      BY <1>4, <3>1, <3>2 DEF InsertRow, Mirror, Remove, Delete
  <2>4. \A j \in Jobs : Ungarbled(dir'[j])
    <3>1. op.job \in Jobs /\ dir \in [Jobs -> Directory]
      BY <2>1, OpIsTyped DEF TypeInv, TypeOK
    <3>2. CASE Move
      BY <3>1, <3>2 DEF Move
    <3>3. CASE Remove
      <4>1. PICK left \in Remains(op.job) : dir' = [dir EXCEPT ![op.job] = left]
        BY <3>3 DEF Remove
      <4>2. Ungarbled(left)
        BY <3>1, <4>1, EvidenceAssumption DEF Remains, Ungarbled
      <4> QED
        BY <3>1, <4>1, <4>2
    <3> QED
      BY <1>4, <3>2, <3>3 DEF Stage, InsertRow, Mirror, Delete
  <2> QED
    BY <2>1, <2>2, <2>3, <2>4
<1>5. CASE Raise
  <2>1. op # Nothing /\ op \in Operations
    BY <1>5, OpIsTyped DEF Raise, At
  <2>2. op' # Nothing => op'.files = op.files
    BY <1>5, <2>1 DEF Raise, Operations
  <2>3. Ungarbled(staging')
    BY <1>5, EvidenceAssumption DEF Raise, Ungarbled, Empty
  <2> QED
    BY <1>5, <2>1, <2>2, <2>3 DEF Raise
<1>6. CASE Crash
  <2>1. Ungarbled(staging')
    BY <1>6, EvidenceAssumption DEF Crash, Ungarbled, Empty
  <2> QED
    BY <1>6, <2>1 DEF Crash
<1>7. CASE Restart \/ \E j \in Jobs : LookUp(j)
  BY <1>7 DEF Restart, LookUp
<1>8. ASSUME NEW j \in Jobs, NEW f \in Files, RotFile(j, f)
      PROVE  TravelInv'
  <2>1. \A k \in Jobs, g \in Files : dir'[k][g] \in {dir[k][g], Rotten}
    BY <1>8 DEF RotFile, TypeInv, TypeOK, Directory
  <2>2. \A k \in Jobs : Ungarbled(dir'[k])
    BY <2>1, EvidenceAssumption DEF Ungarbled
  <2> QED
    BY <1>8, <2>2 DEF RotFile
<1>9. ASSUME NEW j \in Jobs, NEW f \in Files, GarbleBundle(j, f)
      PROVE  TravelInv'
  <2>1. archive[j] \in Bundle
    BY <1>9 DEF GarbleBundle, TypeInv, TypeOK
  <2>2. archive' = [archive EXCEPT ![j] = [archive[j] EXCEPT !.files =
                                             [archive[j].files EXCEPT ![f] = Garbled]]]
    BY <1>9 DEF GarbleBundle
  <2>3. archive'[j].inventory = archive[j].inventory
    BY <2>1, <2>2 DEF Bundle, TypeInv, TypeOK
  <2>4. \A k \in Jobs : k # j => archive'[k] = archive[k]
    BY <2>2 DEF TypeInv, TypeOK
  <2>5. archive[j] # Nothing /\ UNCHANGED <<dir, staging, op>>
    BY <1>9 DEF GarbleBundle
  <2> QED
    BY <2>3, <2>4, <2>5
<1> QED
  BY <1>1, <1>2, <1>3, <1>4, <1>5, <1>6, <1>7, <1>8, <1>9 DEF Next

LEMMA TravelHolds == Spec => []TravelInv
<1>1. Init => TravelInv
  BY EvidenceAssumption DEF Init, TravelInv, Ungarbled, Empty, Jobs
<1> QED
  BY <1>1, TypesHold, TravelStep, PTL DEF Spec

\* Through any chain of exports and imports, a bundle is the evidence of one
\* original job and nothing garbled reaches the disk.
THEOREM EvidenceStaysPure == Spec => []OnlyEvidenceTravels
<1>1. TravelInv => OnlyEvidenceTravels
  BY DEF TravelInv, OnlyEvidenceTravels, Pure, Ungarbled, Files, Hashed
<1> QED
  BY <1>1, TravelHolds, PTL

-----------------------------------------------------------------------------
(* Entirely or not at all *)

Complete(d) == Exportable(d) /\ d["job"] # Rotten

\* Imports whose files are as the server left them.
Sound == Imports \ (spoilt \cup rotten)

Known(i) == i \in rows /\ Complete(dir[i])
Unknown(i) == i \notin rows /\ dir[i] = Empty

\* What is on the disk and in the database when this step comes next.
UnderWay(i) ==
    /\ Head(op.todo) \in {"stage", "move"} => Unknown(i)
    /\ Head(op.todo) = "row" => i \notin rows /\ Complete(dir[i])
    /\ Head(op.todo) = "mirror" => Known(i)
    /\ Head(op.todo) = "remove" => Complete(dir[i])
    /\ Head(op.todo) = "delete" => dir[i] = Empty

\* A server that is down may have lost the row of a directory, never a directory.
Recoverable(i) ==
    /\ dir[i] = Empty \/ Complete(dir[i])
    /\ i \in rows => Complete(dir[i])

ImportInv ==
    /\ At("move") => Complete(staging)
    /\ op # Nothing => Pure(op.files)
    /\ \A i \in Sound :
        IF op # Nothing /\ op.job = i THEN UnderWay(i)
        ELSE IF up THEN Known(i) \/ Unknown(i)
        ELSE Recoverable(i)

LEMMA EmptyIsIncomplete ==
  ~Complete(Empty)
  BY DEF Complete, Exportable, Empty, Files

LEMMA StagedIsComplete ==
  ASSUME NEW files \in [Files -> Contents], Pure(files)
  PROVE  Complete(Staged(files))
<1>1. PICK o \in Originals : \A f \in {"input", "output", "manifest"} : files[f] = o
  BY DEF Pure
<1>2. \A f \in Files : files[f] # Missing
  BY EvidenceAssumption DEF Contents, Jobs
<1>3. /\ Staged(files)["job"] = o
      /\ \A f \in Files \ {"job"} : Staged(files)[f] = files[f]
  BY <1>1 DEF Staged, Files
<1>4. o # Rotten /\ o # Missing
  BY EvidenceAssumption DEF Jobs
<1> QED
  BY <1>1, <1>2, <1>3, <1>4 DEF Complete, Exportable, MatchesManifest, Hashed, Files

LEMMA ImportStep == TypeInv /\ TravelInv /\ ImportInv /\ [Next]_vars => ImportInv'
<1> SUFFICES ASSUME TypeInv, TravelInv, ImportInv, [Next]_vars
             PROVE  ImportInv'
  OBVIOUS
<1>0. op' # Nothing => Pure(op'.files)
  BY TypeIsInductive, TravelStep DEF TravelInv
<1> USE DEF ImportInv, Sound, Known, Unknown
<1>1. CASE UNCHANGED vars
  BY <1>1 DEF vars, At, UnderWay, Recoverable
<1>2. ASSUME NEW j \in Jobs, Export(j)
      PROVE  ImportInv'
  BY <1>2 DEF Export, At, UnderWay, Recoverable
<1>3. ASSUME NEW j \in Jobs, NEW k \in Imports, Import(k, j)
      PROVE  ImportInv'
  <2>1. /\ op = Nothing /\ up /\ k \notin rows /\ dir[k] = Empty
        /\ op' = [job |-> k, files |-> archive[j].files, todo |-> Steps]
        /\ UNCHANGED <<rows, dir, staging, up, spoilt, rotten>>
    BY <1>3 DEF Import
  <2>2. Head(op'.todo) = "stage" /\ op'.job = k
    BY <2>1, ProgramsStart
  <2> QED
    BY <1>0, <2>1, <2>2 DEF At, UnderWay, Recoverable
<1>4. ASSUME op # Nothing, Advance, UNCHANGED <<up, rotten>>
      PROVE  /\ op' # Nothing => op'.job = op.job /\ Follows(Head(op.todo), Head(op'.todo))
             /\ Head(op.todo) \in {"mirror", "delete"} => op' = Nothing
             /\ Head(op.todo) \notin {"mirror", "delete"} => op' # Nothing
             /\ up /\ up'
  <2>1. Head(op.todo) \notin {"mirror", "delete"} => Len(op.todo) # 1
    BY <1>4, OpIsTyped, ProgramsRun
  <2>2. [op EXCEPT !.todo = Tail(op.todo)] \in Operations \/ Len(op.todo) = 1
    <3>1. op.todo \in Programs /\ op \in Operations
      BY <1>4, OpIsTyped
    <3>2. Len(op.todo) # 1 => Tail(op.todo) \in Programs
      BY <3>1, ProgramsRun
    <3>3. Len(op.todo) # 1 => Tail(op.todo) \in Seq(StepNames)
      BY <3>2, ProgramsRun
    <3> QED
      BY <3>1, <3>3 DEF Operations
  <2>3. Head(op.todo) \notin {"mirror", "delete"} => op' # Nothing
    BY <1>4, <2>1, <2>2, EvidenceAssumption DEF Advance
  <2> QED
    BY <1>4, <2>3, AdvanceIsTyped DEF TypeInv
<1>5. ASSUME op # Nothing
      PROVE  /\ op.job \in Imports /\ op.job \in Jobs /\ dir \in [Jobs -> Directory]
             /\ op.files \in [Files -> Contents] /\ Pure(op.files)
             /\ op.job \in Sound => UnderWay(op.job)
             /\ \A i \in Sound : i # op.job => Known(i) \/ Unknown(i)
  BY <1>5, OpIsTyped DEF TypeInv, TypeOK
<1>6. CASE Stage
  <2>1. /\ op # Nothing /\ Head(op.todo) = "stage" /\ Advance
        /\ staging' = Staged(op.files)
        /\ UNCHANGED <<rows, dir, up, spoilt, rotten>>
    BY <1>6 DEF Stage, At
  <2>2. op' # Nothing /\ op'.job = op.job /\ Head(op'.todo) = "move" /\ up
    BY <1>4, <2>1 DEF Follows
  <2>3. Complete(staging')
    BY <1>5, <2>1, StagedIsComplete
  <2> QED
    BY <1>0, <1>5, <2>1, <2>2, <2>3 DEF UnderWay
<1>7. CASE Move
  <2>1. /\ op # Nothing /\ Head(op.todo) = "move" /\ Advance /\ At("move")
        /\ dir' = [dir EXCEPT ![op.job] = staging]
        /\ UNCHANGED <<rows, up, spoilt, rotten>>
    BY <1>7 DEF Move, At
  <2>2. op' # Nothing /\ op'.job = op.job /\ Head(op'.todo) = "row" /\ up
    BY <1>4, <2>1 DEF Follows
  <2>3. Complete(dir'[op.job])
    BY <1>5, <2>1
  <2>4. \A i \in Sound : i # op.job => dir'[i] = dir[i]
    BY <1>5, <2>1 DEF Jobs
  <2> QED
    BY <1>0, <1>5, <2>1, <2>2, <2>3, <2>4 DEF UnderWay, At
<1>8. CASE InsertRow
  <2>1. /\ op # Nothing /\ Head(op.todo) = "row" /\ Advance
        /\ rows' = rows \cup {op.job}
        /\ UNCHANGED <<dir, staging, up, spoilt, rotten>>
    BY <1>8 DEF InsertRow, At
  <2>2. op' # Nothing /\ op'.job = op.job /\ Head(op'.todo) = "mirror" /\ up
    BY <1>4, <2>1 DEF Follows
  <2> QED
    BY <1>0, <1>5, <2>1, <2>2 DEF UnderWay, At
<1>9. CASE Mirror
  <2>1. /\ op # Nothing /\ Head(op.todo) = "mirror" /\ Advance
        /\ UNCHANGED <<rows, dir, staging, up, spoilt, rotten>>
    BY <1>9 DEF Mirror, At
  <2>2. op' = Nothing /\ up
    BY <1>4, <2>1
  <2> QED
    BY <1>5, <2>1, <2>2 DEF UnderWay, At
<1>10. CASE Remove
  <2>1. /\ op # Nothing /\ Head(op.todo) = "remove" /\ Advance
        /\ UNCHANGED <<rows, staging, up, rotten>>
    BY <1>10 DEF Remove, At
  <2>2. PICK left \in Remains(op.job) :
          /\ dir' = [dir EXCEPT ![op.job] = left]
          /\ spoilt' = IF left = Empty THEN spoilt ELSE spoilt \cup {op.job}
    BY <1>10 DEF Remove
  <2>3. op' # Nothing /\ op'.job = op.job /\ Head(op'.todo) = "delete" /\ up
    BY <1>4, <2>1 DEF Follows
  <2>4. \A i \in Sound : i # op.job => dir'[i] = dir[i]
    BY <1>5, <2>1, <2>2 DEF Jobs
  <2>5. op.job \in Sound' => dir'[op.job] = Empty
    BY <1>5, <2>1, <2>2
  <2>6. Sound' \subseteq Sound
    BY <2>1, <2>2
  <2> QED
    BY <1>0, <1>5, <2>1, <2>3, <2>4, <2>5, <2>6 DEF UnderWay, At
<1>11. CASE Delete
  <2>1. /\ op # Nothing /\ Head(op.todo) = "delete" /\ Advance
        /\ rows' = rows \ {op.job}
        /\ UNCHANGED <<dir, staging, up, spoilt, rotten>>
    BY <1>11 DEF Delete, At
  <2>2. op' = Nothing /\ up
    BY <1>4, <2>1
  <2> QED
    BY <1>5, <2>1, <2>2 DEF UnderWay, At
<1>12. CASE Raise
  <2>1. op # Nothing /\ up /\ op \in Operations /\ UNCHANGED <<rows, dir, up, rotten>>
    BY <1>12, OpIsTyped DEF Raise, At, TypeInv
  <2>2. CASE /\ At("stage") \/ At("move")
             /\ op' = Nothing /\ UNCHANGED spoilt
    BY <1>5, <2>1, <2>2 DEF UnderWay, At
  <2>3. CASE /\ At("row") \/ At("mirror")
             /\ op' = [op EXCEPT !.todo = <<"remove", "delete">>] /\ UNCHANGED <<staging, spoilt>>
    <3>1. op'.job = op.job /\ op'.todo = <<"remove", "delete">>
      BY <2>1, <2>3 DEF Operations
    <3>2. Head(op'.todo) = "remove"
      BY <3>1, ProgramsStart
    <3>3. op' # Nothing
      <4>1. op' \in Operations
        BY <2>1, <2>3, ProgramsStart, ProgramsRun DEF Operations
      <4> QED
        BY <4>1, EvidenceAssumption
    <3> QED
      BY <1>0, <1>5, <2>1, <2>3, <3>1, <3>2, <3>3 DEF UnderWay, At
  <2>4. CASE At("delete") /\ op' = Nothing /\ spoilt' = spoilt \cup {op.job}
    BY <1>5, <2>1, <2>4 DEF UnderWay, At
  <2> QED
    BY <1>12, <2>2, <2>3, <2>4 DEF Raise
<1>13. CASE Crash
  <2>1. /\ op' = Nothing /\ ~up' /\ up
        /\ UNCHANGED <<rows, dir, rotten>>
        /\ spoilt' = IF At("remove") \/ At("delete") THEN spoilt \cup {op.job} ELSE spoilt
    BY <1>13 DEF Crash
  <2>2. ASSUME NEW i \in Sound'
        PROVE  Recoverable(i)
    <3>1. i \in Sound
      BY <2>1
    <3>2. CASE op # Nothing /\ op.job = i
      <4>1. UnderWay(i) /\ Head(op.todo) \in {"stage", "move", "row", "mirror"}
        <5>1. Head(op.todo) \in StepNames
          BY <3>2, OpIsTyped, ProgramsRun
        <5> QED
          BY <2>1, <2>2, <3>1, <3>2, <5>1 DEF At, StepNames
      <4> QED
        BY <4>1, EmptyIsIncomplete DEF UnderWay, Recoverable
    <3>3. CASE ~(op # Nothing /\ op.job = i)
      BY <2>1, <3>1, <3>3 DEF Recoverable
    <3> QED
      BY <3>2, <3>3
  <2> QED
    BY <2>1, <2>2 DEF At, Recoverable
<1>14. CASE Restart
  <2>1. /\ ~up /\ op = Nothing /\ up'
        /\ UNCHANGED <<dir, staging, op, spoilt, rotten>>
    BY <1>14 DEF Restart, TypeInv
  <2>2. PICK unread \in SUBSET {j \in Jobs : dir[j]["job"] = Rotten} :
          rows' = rows \cup {j \in Jobs \ unread : Found(j)}
    BY <1>14 DEF Restart
  <2>3. ASSUME NEW i \in Sound'
        PROVE  Known(i)' \/ Unknown(i)'
    <3>1. i \in Sound /\ Recoverable(i) /\ i \in Jobs
      BY <2>1 DEF Jobs
    <3>2. CASE Complete(dir[i])
      <4>1. i \notin unread /\ Found(i)
        BY <2>2, <3>2 DEF Complete, Exportable, Found, Files
      <4> QED
        BY <2>1, <2>2, <3>1, <3>2, <4>1
    <3>3. CASE dir[i] = Empty
      <4>1. ~Found(i) /\ i \notin rows
        BY <3>1, <3>3, EmptyIsIncomplete DEF Found, Empty, Files, Recoverable
      <4> QED
        BY <2>1, <2>2, <3>3, <4>1
    <3> QED
      BY <3>1, <3>2, <3>3 DEF Recoverable
  <2> QED
    BY <2>1, <2>3 DEF At
<1>15. ASSUME NEW j \in Jobs, LookUp(j)
       PROVE  ImportInv'
  <2>1. /\ up /\ op = Nothing /\ Found(j) /\ rows' = rows \cup {j}
        /\ UNCHANGED <<dir, staging, op, up, spoilt, rotten>>
    BY <1>15 DEF LookUp
  <2>2. ASSUME NEW i \in Sound
        PROVE  Known(i)' \/ Unknown(i)'
    <3>1. CASE i = j
      <4>1. dir[i] # Empty
        BY <2>1, <3>1 DEF Found, Empty, Files
      <4> QED
        BY <2>1, <3>1, <4>1
    <3>2. CASE i # j
      BY <2>1, <3>2
    <3> QED
      BY <3>1, <3>2
  <2> QED
    BY <2>1, <2>2 DEF At
<1>16. ASSUME NEW j \in Jobs, NEW f \in Files, RotFile(j, f)
       PROVE  ImportInv'
  <2>1. /\ dir' = [dir EXCEPT ![j] = [dir[j] EXCEPT ![f] = Rotten]]
        /\ rotten' = rotten \cup {j}
        /\ UNCHANGED <<rows, staging, op, up, spoilt>>
    BY <1>16 DEF RotFile
  <2>2. \A i \in Sound' : i \in Sound /\ dir'[i] = dir[i]
    BY <2>1 DEF TypeInv, TypeOK, Jobs
  <2> QED
    BY <1>0, <2>1, <2>2 DEF At, UnderWay, Recoverable
<1>17. ASSUME NEW j \in Jobs, NEW f \in Files, GarbleBundle(j, f)
       PROVE  ImportInv'
  BY <1>17 DEF GarbleBundle, At, UnderWay, Recoverable
<1> QED
  BY <1>1, <1>2, <1>3, <1>6, <1>7, <1>8, <1>9, <1>10, <1>11, <1>12, <1>13, <1>14, <1>15,
     <1>16, <1>17 DEF Next

LEMMA ImportsHold == Spec => []ImportInv
<1>1. ASSUME Init
      PROVE  ImportInv
  <2>1. op = Nothing /\ up
    BY <1>1 DEF Init
  <2>2. \A i \in Imports : i \in Jobs /\ i \notin Originals
    BY EvidenceAssumption DEF Jobs
  <2>3. \A i \in Sound : Unknown(i)
    BY <1>1, <2>2 DEF Init, Sound, Unknown
  <2> QED
    BY <2>1, <2>3 DEF ImportInv, At
<1> QED
  BY <1>1, TypesHold, TravelHolds, ImportStep, PTL DEF Spec

\* An import that is not under way is complete and known, or there is nothing of
\* it, whatever raised and whenever the server died.
THEOREM ImportsAreAlwaysWhole == Spec => []ImportsAreWhole
<1>1. ImportInv => ImportsAreWhole
  BY DEF ImportInv, ImportsAreWhole, Sound, Known, Unknown, Complete, Exportable
<1> QED
  BY <1>1, ImportsHold, PTL

\* What an import has put on the disk passes the checks of an export.
THEOREM ImportsCanAlwaysBeExported == Spec => []ImportsCanBeExported
<1>1. ASSUME TypeInv, ImportInv
      PROVE  ImportsCanBeExported
  <2>1. SUFFICES ASSUME NEW i \in Sound, dir[i] # Empty
                 PROVE  Exportable(dir[i])
    BY DEF ImportsCanBeExported, Sound
  <2>2. CASE op # Nothing /\ op.job = i
    <3>1. Head(op.todo) \in StepNames /\ UnderWay(i)
      BY <1>1, <2>2, OpIsTyped, ProgramsRun DEF ImportInv
    <3> QED
      BY <2>1, <3>1 DEF UnderWay, Known, Unknown, Complete, StepNames
  <2>3. CASE ~(op # Nothing /\ op.job = i)
    BY <1>1, <2>1, <2>3 DEF ImportInv, Known, Unknown, Recoverable, Complete
  <2> QED
    BY <2>2, <2>3
<1> QED
  BY <1>1, TypesHold, ImportsHold, PTL
====
