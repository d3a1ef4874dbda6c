---- MODULE StrategyRepositoryProofs ----
(***************************************************************************)
(* The version history of the strategy files, for every set of strategies,  *)
(* texts, clients and imports.  A step of an operation is safe because of    *)
(* what the steps before it have written, so the invariant says what is on  *)
(* the disk whenever a step comes next (OpOK).                              *)
(***************************************************************************)
EXTENDS StrategyRepository, SequenceTheorems, TLAPS

\* What can be left to do of an operation.
Programs ==
    {<<"replace", "snapshot", "index", "reply">>, <<"snapshot", "index", "reply">>,
     <<"index", "reply">>, <<"reply">>, <<"snapshot", "index">>, <<"index">>,
     <<"replace", "snapshot", "index", "reply", "report">>,
     <<"snapshot", "index", "reply", "report">>, <<"index", "reply", "report">>,
     <<"reply", "report">>, <<"report">>}

\* Only a listing reads an example.
Listing == {<<"snapshot", "index">>, <<"index">>}

Follows(step, next) ==
    \/ step = "replace" /\ next = "snapshot"
    \/ step = "snapshot" /\ next = "index"
    \/ step = "index" /\ next = "reply"
    \/ step = "reply" /\ next = "report"

LEMMA ProgramsRun ==
  ASSUME NEW todo \in Programs
  PROVE  /\ todo \in Seq(StepNames) /\ Head(todo) \in StepNames
         /\ Len(todo) # 1 => /\ Tail(todo) \in Programs
                             /\ Follows(Head(todo), Head(Tail(todo)))
<1>1. CASE todo = <<"replace", "snapshot", "index", "reply">>
  <2>1. Tail(todo) = <<"snapshot", "index", "reply">>
    BY <1>1
  <2> QED
    BY <1>1, <2>1 DEF Programs, Follows, StepNames
<1>2. CASE todo = <<"snapshot", "index", "reply">>
  <2>1. Tail(todo) = <<"index", "reply">>
    BY <1>2
  <2> QED
    BY <1>2, <2>1 DEF Programs, Follows, StepNames
<1>3. CASE todo = <<"index", "reply">>
  <2>1. Tail(todo) = <<"reply">>
    BY <1>3
  <2> QED
    BY <1>3, <2>1 DEF Programs, Follows, StepNames
<1>4. CASE todo = <<"reply">>
  BY <1>4 DEF StepNames
<1>5. CASE todo = <<"snapshot", "index">>
  <2>1. Tail(todo) = <<"index">>
    BY <1>5
  <2> QED
    BY <1>5, <2>1 DEF Programs, Follows, StepNames
<1>6. CASE todo = <<"index">>
  BY <1>6 DEF StepNames
<1>7. CASE todo = <<"replace", "snapshot", "index", "reply", "report">>
  <2>1. Tail(todo) = <<"snapshot", "index", "reply", "report">>
    BY <1>7
  <2> QED
    BY <1>7, <2>1 DEF Programs, Follows, StepNames
<1>8. CASE todo = <<"snapshot", "index", "reply", "report">>
  <2>1. Tail(todo) = <<"index", "reply", "report">>
    BY <1>8
  <2> QED
    BY <1>8, <2>1 DEF Programs, Follows, StepNames
<1>9. CASE todo = <<"index", "reply", "report">>
  <2>1. Tail(todo) = <<"reply", "report">>
    BY <1>9
  <2> QED
    BY <1>9, <2>1 DEF Programs, Follows, StepNames
<1>10. CASE todo = <<"reply", "report">>
  <2>1. Tail(todo) = <<"report">>
    BY <1>10
  <2> QED
    BY <1>10, <2>1 DEF Programs, Follows, StepNames
<1>11. CASE todo = <<"report">>
  BY <1>11 DEF StepNames
<1> QED
  BY <1>1, <1>2, <1>3, <1>4, <1>5, <1>6, <1>7, <1>8, <1>9, <1>10, <1>11 DEF Programs

LEMMA ListingsRun ==
  ASSUME NEW todo \in Listing
  PROVE  Head(todo) \notin {"reply", "report"} /\ (Len(todo) # 1 => Tail(todo) \in Listing)
<1>1. CASE todo = <<"snapshot", "index">>
  <2>1. Tail(todo) = <<"index">>
    BY <1>1
  <2> QED
    BY <1>1, <2>1 DEF Listing
<1>2. CASE todo = <<"index">>
  BY <1>2
<1> QED
  BY <1>1, <1>2 DEF Listing

LEMMA ProgramsStart ==
  ASSUME NEW kind \in Kinds
  PROVE  /\ Steps(kind) \in Programs
         /\ kind = "list" => Steps(kind) \in Listing
         /\ Head(Steps(kind)) = IF kind = "list" THEN "snapshot" ELSE "replace"
  BY DEF Steps, Kinds, Programs, Listing

Operations ==
    [path : Paths, source : Sources, client : Clients \cup {Nothing},
     expected : Revisions \cup {Unchecked}, todo : Seq(StepNames)]

-----------------------------------------------------------------------------
(* Types *)

TypeInv ==
    /\ TypeOK
    /\ op # Nothing => op.todo \in Programs /\ (op.path \in Strategies \/ op.todo \in Listing)

LEMMA BeginIsTyped ==
  ASSUME NEW kind \in Kinds, NEW p \in Paths, NEW s \in Sources,
         NEW c \in Clients \cup {Nothing}, NEW e \in Revisions \cup {Unchecked},
         Begin(kind, p, s, c, e)
  PROVE  /\ op' \in Operations /\ op'.todo \in Programs /\ touched' \in BOOLEAN
         /\ op'.path = p /\ op'.source = s /\ op'.expected = e
         /\ kind = "list" => op'.todo \in Listing
         /\ Head(op'.todo) = IF kind = "list" THEN "snapshot" ELSE "replace"
  BY ProgramsStart, ProgramsRun DEF Begin, Operations

LEMMA AdvanceIsTyped ==
  ASSUME TypeInv, op # Nothing, Advance
  PROVE  /\ op' \in Operations \cup {Nothing}
         /\ op' # Nothing =>
              /\ op'.todo \in Programs /\ (op'.path \in Strategies \/ op'.todo \in Listing)
              /\ op'.path = op.path /\ op'.source = op.source /\ op'.expected = op.expected
              /\ Follows(Head(op.todo), Head(op'.todo))
<1>1. op \in Operations /\ op.todo \in Programs
  BY DEF TypeInv, TypeOK, Operations
<1>2. Len(op.todo) # 1 =>
        /\ Tail(op.todo) \in Programs /\ Tail(op.todo) \in Seq(StepNames)
        /\ Follows(Head(op.todo), Head(Tail(op.todo)))
  <2>1. Len(op.todo) # 1 => Tail(op.todo) \in Programs /\ Follows(Head(op.todo), Head(Tail(op.todo)))
    BY <1>1, ProgramsRun
  <2> QED
    BY <2>1, ProgramsRun
<1>3. op.path \in Strategies \/ (op.todo \in Listing /\ (Len(op.todo) # 1 => Tail(op.todo) \in Listing))
  BY ListingsRun DEF TypeInv
<1>4. CASE Len(op.todo) = 1
  BY <1>4 DEF Advance
<1>5. CASE Len(op.todo) # 1
  <2>1. op' = [op EXCEPT !.todo = Tail(op.todo)]
    BY <1>5 DEF Advance
  <2> QED
    BY <1>1, <1>2, <1>3, <1>5, <2>1 DEF Operations
<1> QED
  BY <1>4, <1>5

\* The steps that begin an operation.
Requested(kind, p, s, c, e) ==
    /\ kind \in Kinds /\ p \in Paths /\ s \in Sources
    /\ c \in Clients \cup {Nothing} /\ e \in Revisions \cup {Unchecked}
    /\ IF kind = "list" THEN s = file[p] ELSE p \in Strategies /\ e \in {Unchecked, file[p]}
    /\ Begin(kind, p, s, c, e)
    /\ UNCHANGED <<disk, seen, held, confirmed>>
    /\ imports' \in [Importers -> Requests \cup {Nothing}]

Beginning ==
    \E kind \in Kinds, p \in Paths, s \in Sources, c \in Clients \cup {Nothing},
       e \in Revisions \cup {Unchecked} : Requested(kind, p, s, c, e)

LEMMA RequestsBegin ==
  ASSUME TypeInv,
         \/ \E c \in Clients, p \in Strategies, s \in Sources :
              Create(c, p, s) \/ Save(c, p, s) \/ Restore(c, p, s)
         \/ \E p \in Paths : ListVersions(p)
         \/ \E i \in Importers : PassFixture(i)
  PROVE  Beginning
<1> USE RepositoryAssumption DEF TypeInv, TypeOK, Requested, Ready, Kinds, Revisions, Paths
<1>1. ASSUME NEW c \in Clients, NEW p \in Strategies, NEW s \in Sources, Create(c, p, s)
      PROVE  Beginning
  <2>1. Requested("create", p, s, c, NoFile)
    BY <1>1 DEF Create, Vacant
  <2> QED
    BY <2>1 DEF Beginning
<1>2. ASSUME NEW c \in Clients, NEW p \in Strategies, NEW s \in Sources, Save(c, p, s)
      PROVE  Beginning
  <2>1. PICK e \in {Unchecked} \cup ({seen[c][p]} \ {NoFile}) :
          Current(p, e) /\ Begin("save", p, s, c, e)
    BY <1>2 DEF Save
  <2>2. e \in Revisions \cup {Unchecked}
    BY <2>1
  <2>3. Requested("save", p, s, c, e)
    BY <1>2, <2>1, <2>2 DEF Save, Current
  <2> QED
    BY <2>2, <2>3 DEF Beginning
<1>3. ASSUME NEW c \in Clients, NEW p \in Strategies, NEW s \in Sources, Restore(c, p, s)
      PROVE  Beginning
  <2>1. PICK text \in VersionSource(p, s) : Begin("restore", p, text, c, seen[c][p])
    BY <1>3 DEF Restore
  <2>2. text \in Sources
    BY <2>1 DEF VersionSource
  <2>3. seen[c][p] \in Revisions
    OBVIOUS
  <2>4. Requested("restore", p, text, c, seen[c][p])
    BY <1>3, <2>1, <2>2, <2>3 DEF Restore, Current
  <2> QED
    BY <2>2, <2>3, <2>4 DEF Beginning
<1>4. ASSUME NEW p \in Paths, ListVersions(p)
      PROVE  Beginning
  <2>1. file[p] \in Sources
    BY <1>4 DEF ListVersions
  <2>2. Requested("list", p, file[p], Nothing, Unchecked)
    BY <1>4, <2>1 DEF ListVersions
  <2> QED
    BY <2>1, <2>2 DEF Beginning
<1>5. ASSUME NEW i \in Importers, PassFixture(i)
      PROVE  Beginning
  <2>1. imports[i].path \in Strategies /\ imports[i].source \in Sources
    BY <1>5 DEF PassFixture, Requests
  <2>2. imports' \in [Importers -> Requests \cup {Nothing}]
    BY <1>5 DEF PassFixture
  <2>3. Requested("import", imports[i].path, imports[i].source, Nothing, NoFile)
    BY <1>5, <2>1, <2>2 DEF PassFixture, Vacant
  <2> QED
    BY <2>1, <2>3 DEF Beginning
<1> QED
  BY <1>1, <1>2, <1>3, <1>4, <1>5

\* What a step can be, the operations taken together.
LEMMA NextCases ==
  ASSUME TypeInv, Next
  PROVE  \/ \E c \in Clients, p \in Strategies : Load(c, p)
         \/ Beginning
         \/ \E i \in Importers : RefuseImport(i) \/ \E p \in Strategies, s \in Sources : StartImport(i, p, s)
         \/ Replace \/ KeepSnapshot \/ AppendEntry \/ Reply \/ Report
         \/ Fail \/ Crash
         \/ \E p \in Strategies, s \in Revisions : Edit(p, s)
         \/ \E p \in Paths : DamageIndex(p) \/ \E s \in Sources : DamageSnapshot(p, s)
  BY RequestsBegin DEF Next, Server

LEMMA OpIsTyped == ASSUME TypeInv, op # Nothing
                   PROVE  /\ op \in Operations /\ op.path \in Paths /\ op.source \in Sources
                          /\ op.client \in Clients \cup {Nothing} /\ op.todo \in Programs
                          /\ Head(op.todo) \in {"reply", "report"} => op.path \in Strategies
  BY ListingsRun DEF TypeInv, TypeOK, Operations

LEMMA AppendIsTyped ==
  ASSUME TypeInv, AppendEntry
  PROVE  index' \in [Paths -> Seq(Sources)] /\ readable' \in [Paths -> BOOLEAN]
<1>1. op.path \in Paths /\ op.source \in Sources
  BY OpIsTyped DEF AppendEntry, At
<1>2. CASE UNCHANGED <<index, readable>>
  BY <1>2 DEF TypeInv, TypeOK
<1>3. CASE ~UNCHANGED <<index, readable>>
  <2>1. PICK entries \in ReadIndex(op.path) :
          /\ index' = [index EXCEPT ![op.path] = Append(entries, op.source)]
          /\ readable' = [readable EXCEPT ![op.path] = TRUE]
    BY <1>3 DEF AppendEntry
  <2>2. entries \in Seq(Sources)
    BY <1>1 DEF ReadIndex, TypeInv, TypeOK
  <2> QED
    BY <1>1, <2>1, <2>2, AppendProperties DEF TypeInv, TypeOK
<1> QED
  BY <1>2, <1>3

LEMMA TypeIsInductive == TypeInv /\ [Next]_vars => TypeInv'
<1> SUFFICES ASSUME TypeInv, [Next]_vars
             PROVE  TypeInv'
  OBVIOUS
<1> USE DEF TypeInv, TypeOK
<1>1. CASE UNCHANGED vars
  BY <1>1 DEF vars, disk
<1>2. ASSUME NEW c \in Clients, NEW p \in Strategies, Load(c, p)
      PROVE  TypeInv'
  <2>1. file[p] \in Revisions /\ seen' \in [Clients -> [Strategies -> Revisions]]
    BY <1>2 DEF Load, Paths
  <2> QED
    BY <1>2, <2>1 DEF Load, disk
<1>3. CASE Beginning
  <2>1. PICK kind \in Kinds, p \in Paths, s \in Sources, c \in Clients \cup {Nothing},
             e \in Revisions \cup {Unchecked} : Requested(kind, p, s, c, e)
    BY <1>3 DEF Beginning
  <2>2. /\ op' \in Operations /\ op'.todo \in Programs /\ touched' \in BOOLEAN
        /\ op'.path \in Strategies \/ op'.todo \in Listing
    BY <2>1, BeginIsTyped DEF Requested
  <2> QED
    BY <2>1, <2>2 DEF Requested, Operations, disk
<1>4. ASSUME NEW i \in Importers,
             RefuseImport(i) \/ \E p \in Strategies, s \in Sources : StartImport(i, p, s)
      PROVE  TypeInv'
  <2>1. imports' \in [Importers -> Requests \cup {Nothing}]
    BY <1>4 DEF RefuseImport, StartImport, Requests
  <2> QED
    BY <1>4, <2>1 DEF RefuseImport, StartImport, disk
<1>5. CASE Replace
  <2>1. op # Nothing /\ op.path \in Paths /\ op.source \in Sources
    BY <1>5, OpIsTyped DEF Replace, At
  <2>2. op' \in Operations \cup {Nothing} /\ (op' # Nothing => op'.todo \in Programs /\ (op'.path \in Strategies \/ op'.todo \in Listing))
    BY <1>5, <2>1, AdvanceIsTyped DEF Replace
  <2> QED
    BY <1>5, <2>1, <2>2 DEF Replace, Operations, Revisions
<1>6. CASE KeepSnapshot
  <2>1. op # Nothing /\ op.path \in Paths /\ op.source \in Sources
    BY <1>6, OpIsTyped DEF KeepSnapshot, At
  <2>2. op' \in Operations \cup {Nothing} /\ (op' # Nothing => op'.todo \in Programs /\ (op'.path \in Strategies \/ op'.todo \in Listing))
    BY <1>6, <2>1, AdvanceIsTyped DEF KeepSnapshot
  <2>3. snapshot' \in [Paths -> [Sources -> Revisions \cup {Damaged}]]
    BY <1>6, <2>1 DEF KeepSnapshot, Revisions
  <2> QED
    BY <1>6, <2>2, <2>3 DEF KeepSnapshot, Operations
<1>7. CASE AppendEntry
  <2>1. op' \in Operations \cup {Nothing} /\ (op' # Nothing => op'.todo \in Programs /\ (op'.path \in Strategies \/ op'.todo \in Listing))
    BY <1>7, AdvanceIsTyped DEF AppendEntry, Abandon, At
  <2>2. index' \in [Paths -> Seq(Sources)] /\ readable' \in [Paths -> BOOLEAN]
    BY <1>7, AppendIsTyped
  <2> QED
    BY <1>7, <2>1, <2>2 DEF AppendEntry, Operations
<1>8. CASE Reply
  <2>1. op # Nothing /\ op.path \in Strategies /\ op.path \in Paths /\ op.client \in Clients \cup {Nothing}
    BY <1>8, OpIsTyped DEF Reply, At
  <2>2. op' \in Operations \cup {Nothing} /\ (op' # Nothing => op'.todo \in Programs /\ (op'.path \in Strategies \/ op'.todo \in Listing))
    BY <1>8, <2>1, AdvanceIsTyped DEF Reply, Abandon
  <2>3. confirmed' \in [Paths -> BOOLEAN]
    BY <1>8, <2>1 DEF Reply
  <2>4. seen' \in [Clients -> [Strategies -> Revisions]]
    <3>1. file[op.path] \in Revisions
      BY <2>1
    <3>2. CASE seen' = seen
      BY <3>2
    <3>3. CASE seen' # seen
      <4>1. op.client \in Clients /\ seen' = [seen EXCEPT ![op.client][op.path] = file[op.path]]
        BY <1>8, <2>1, <3>3 DEF Reply
      <4> QED
        BY <2>1, <3>1, <4>1
    <3> QED
      BY <3>2, <3>3
  <2> QED
    BY <1>8, <2>2, <2>3, <2>4 DEF Reply, Operations, disk
<1>9. CASE Report
  <2>1. op # Nothing /\ op.path \in Strategies /\ op.source \in Sources
    BY <1>9, OpIsTyped DEF Report, At
  <2>2. op' \in Operations \cup {Nothing} /\ (op' # Nothing => op'.todo \in Programs /\ (op'.path \in Strategies \/ op'.todo \in Listing))
    BY <1>9, <2>1, AdvanceIsTyped DEF Report
  <2>3. reports' \subseteq Requests
    BY <1>9, <2>1 DEF Report, Requests
  <2> QED
    BY <1>9, <2>2, <2>3 DEF Report, Operations
<1>10. CASE Fail \/ Crash
  BY <1>10 DEF Fail, Crash, Abandon, disk
<1>11. ASSUME NEW p \in Strategies, NEW s \in Revisions, Edit(p, s)
       PROVE  TypeInv'
  BY <1>11 DEF Edit, Revisions, Paths
<1>12. ASSUME NEW p \in Paths, DamageIndex(p) \/ \E s \in Sources : DamageSnapshot(p, s)
       PROVE  TypeInv'
  <2>1. CASE DamageIndex(p)
    BY <2>1 DEF DamageIndex
  <2>2. ASSUME NEW s \in Sources, DamageSnapshot(p, s)
        PROVE  TypeInv'
    <3>1. snapshot' \in [Paths -> [Sources -> Revisions \cup {Damaged}]]
      BY <2>2 DEF DamageSnapshot
    <3> QED
      BY <2>2, <3>1 DEF DamageSnapshot
  <2> QED
    BY <1>12, <2>1, <2>2
<1> QED
  BY <1>1, <1>2, <1>3, <1>4, <1>5, <1>6, <1>7, <1>8, <1>9, <1>10, <1>11, <1>12, NextCases

LEMMA TypesHold == Spec => []TypeInv
<1>1. ASSUME Init
      PROVE  TypeInv
  <2>1. file \in [Paths -> Revisions] /\ held \in [Paths -> SUBSET Sources]
    BY <1>1, RepositoryAssumption DEF Init, Revisions
  <2>2. index \in [Paths -> Seq(Sources)]
    BY <1>1, EmptySeq DEF Init
  <2>3. /\ snapshot \in [Paths -> [Sources -> Revisions \cup {Damaged}]]
        /\ seen \in [Clients -> [Strategies -> Revisions]]
    BY <1>1 DEF Init, Revisions
  <2> QED
    BY <1>1, <2>1, <2>2, <2>3 DEF Init, TypeInv, TypeOK
<1> QED
  BY <1>1, TypeIsInductive, PTL DEF Spec

\* Every variable keeps its type; in particular what an operation leaves behind,
\* wherever it stops, is a file, a history and snapshots of texts.
THEOREM TypeCorrect == Spec => []TypeOK
  BY TypesHold, PTL DEF TypeInv

-----------------------------------------------------------------------------
(* The history *)

SnapshotsOK == \A p \in Paths, s \in Sources : snapshot[p][s] \in {s, Damaged, NoFile}

FilesHeld == \A p \in Paths : file[p] # NoFile => file[p] \in held[p]

\* What is known when the next step of the operation is this one.
Recording ==
    Head(op.todo) \in {"snapshot", "index"} =>
        /\ op.source \in held[op.path]
        /\ confirmed[op.path] => op.source = file[op.path]
Restorable ==
    Head(op.todo) = "index" => snapshot[op.path][op.source] \in {op.source, Damaged}
Recorded ==
    Head(op.todo) = "reply" => index[op.path] # <<>> /\ Last(index[op.path]) = op.source
Checked ==
    Head(op.todo) = "replace" => touched \/ op.expected \in {Unchecked, file[op.path]}

OpOK == op # Nothing => Recording /\ Restorable /\ Recorded /\ Checked

HistoryInv ==
    /\ TypeInv
    /\ SnapshotsOK /\ FilesHeld /\ OpOK
    /\ VersionsAreRestorable /\ VersionsWereHeld /\ ConfirmedIsNewest

LEMMA AppendedHistory ==
  ASSUME NEW S, NEW s \in Seq(S), NEW x \in S
  PROVE  /\ Append(s, x) # <<>> /\ Last(Append(s, x)) = x
         /\ ToSet(Append(s, x)) = ToSet(s) \cup {x}
         /\ IsPrefix(s, Append(s, x))
<1>1. /\ Append(s, x) \in Seq(S) /\ Len(Append(s, x)) = Len(s) + 1
      /\ Append(s, x)[Len(s) + 1] = x
      /\ \A i \in 1..Len(s) : Append(s, x)[i] = s[i]
  BY AppendProperties
<1>2. Append(s, x) # <<>> /\ Last(Append(s, x)) = x
  BY <1>1 DEF Last
<1>3. ToSet(Append(s, x)) = ToSet(s) \cup {x}
  BY <1>1 DEF ToSet
<1>4. SubSeq(Append(s, x), 1, Len(s)) = SubSeq(s, 1, Len(s))
  BY <1>1
<1>5. IsPrefix(s, Append(s, x))
  BY <1>1, <1>4 DEF IsPrefix
<1> QED
  BY <1>2, <1>3, <1>5

\* An index that is written is the one that was there and, perhaps, one entry more.
LEMMA AppendStep ==
  ASSUME TypeInv, AppendEntry
  PROVE  /\ op # Nothing /\ op.path \in Paths /\ op.source \in Sources
         /\ Head(op.todo) = "index"
         /\ \/ op' = Nothing /\ index' = index
            \/ Advance /\ index' = index /\ ListedLast(index[op.path], op.source)
            \/ Advance /\ index' = [index EXCEPT ![op.path] = Append(index[op.path], op.source)]
<1>1. op # Nothing /\ op.path \in Paths /\ op.source \in Sources /\ Head(op.todo) = "index"
  BY OpIsTyped DEF AppendEntry, At
<1>2. \A entries \in ReadIndex(op.path) : entries = index[op.path]
  BY DEF ReadIndex
<1> QED
  BY <1>1, <1>2 DEF AppendEntry, Abandon

LEMMA HistoryStep == HistoryInv /\ [Next]_vars => HistoryInv'
<1> SUFFICES ASSUME HistoryInv, [Next]_vars
             PROVE  HistoryInv'
  OBVIOUS
<1>0. TypeInv /\ TypeInv'
  BY TypeIsInductive DEF HistoryInv
<1> DEFINE Kept == /\ SnapshotsOK' /\ FilesHeld' /\ OpOK'
                   /\ VersionsAreRestorable' /\ VersionsWereHeld' /\ ConfirmedIsNewest'
<1> SUFFICES Kept
  BY <1>0 DEF HistoryInv
<1> USE DEF HistoryInv, SnapshotsOK, FilesHeld, OpOK, Recording, Restorable, Recorded, Checked,
            VersionsAreRestorable, VersionsWereHeld, ConfirmedIsNewest
\* A step that leaves the disk and the observations alone, and begins nothing.
<1>1. ASSUME UNCHANGED <<file, index, snapshot, held, confirmed>>,
             op' = Nothing \/ UNCHANGED <<op, touched>>
      PROVE  Kept
  BY <1>1
<1>2. CASE UNCHANGED vars
  BY <1>1, <1>2 DEF vars, disk
<1>3. ASSUME NEW c \in Clients, NEW p \in Strategies, Load(c, p)
      PROVE  Kept
  BY <1>1, <1>3 DEF Load, disk
<1>4. ASSUME NEW i \in Importers,
             RefuseImport(i) \/ \E p \in Strategies, s \in Sources : StartImport(i, p, s)
      PROVE  Kept
  BY <1>1, <1>4 DEF RefuseImport, StartImport, disk
<1>5. CASE Fail \/ Crash
  BY <1>1, <1>5 DEF Fail, Crash, Abandon, disk
<1>6. CASE Beginning
  <2>1. PICK kind \in Kinds, p \in Paths, s \in Sources, c \in Clients \cup {Nothing},
             e \in Revisions \cup {Unchecked} : Requested(kind, p, s, c, e)
    BY <1>6 DEF Beginning
  <2>2. UNCHANGED <<file, index, snapshot, held, confirmed>>
    BY <2>1 DEF Requested, disk
  <2>3. /\ op'.path = p /\ op'.source = s /\ op'.expected = e
        /\ Head(op'.todo) = IF kind = "list" THEN "snapshot" ELSE "replace"
    BY <2>1, BeginIsTyped DEF Requested
  <2>4. CASE kind = "list"
    <3>1. s = file[p] /\ s \in held[p]
      BY <2>1, <2>4, RepositoryAssumption DEF Requested
    <3> QED
      BY <2>2, <2>3, <2>4, <3>1
  <2>5. CASE kind # "list"
    <3>1. e \in {Unchecked, file[p]}
      BY <2>1, <2>5 DEF Requested
    <3> QED
      BY <2>2, <2>3, <2>5, <3>1
  <2> QED
    BY <2>4, <2>5
<1>7. CASE Replace
  <2>1. op # Nothing /\ op.path \in Paths /\ op.source \in Sources /\ Head(op.todo) = "replace"
    BY <1>0, <1>7, OpIsTyped DEF Replace, At
  <2>2. op' # Nothing => op'.path = op.path /\ op'.source = op.source /\ Head(op'.todo) = "snapshot"
    BY <1>0, <1>7, <2>1, AdvanceIsTyped DEF Replace, Follows
  <2>3. /\ file' = [file EXCEPT ![op.path] = op.source]
        /\ held' = [held EXCEPT ![op.path] = @ \cup {op.source}]
        /\ confirmed' = [confirmed EXCEPT ![op.path] = FALSE]
        /\ UNCHANGED <<index, snapshot>>
    BY <1>7 DEF Replace
  <2>4. \A p \in Paths : held[p] \subseteq held'[p]
    BY <1>0, <2>3 DEF TypeInv, TypeOK
  <2>5. FilesHeld'
    BY <1>0, <2>1, <2>3, <2>4 DEF TypeInv, TypeOK
  <2>6. OpOK'
    BY <1>0, <2>1, <2>2, <2>3 DEF TypeInv, TypeOK
  <2>7. VersionsWereHeld'
    BY <2>3, <2>4
  <2>8. ConfirmedIsNewest'
    BY <1>0, <2>1, <2>3 DEF TypeInv, TypeOK
  <2> QED
    BY <2>3, <2>5, <2>6, <2>7, <2>8
<1>8. CASE KeepSnapshot
  <2>1. op # Nothing /\ op.path \in Paths /\ op.source \in Sources /\ Head(op.todo) = "snapshot"
    BY <1>0, <1>8, OpIsTyped DEF KeepSnapshot, At
  <2>2. op' # Nothing => op'.path = op.path /\ op'.source = op.source /\ Head(op'.todo) = "index"
    BY <1>0, <1>8, <2>1, AdvanceIsTyped DEF KeepSnapshot, Follows
  <2>3. UNCHANGED <<file, index, held, confirmed>>
    BY <1>8 DEF KeepSnapshot
  <2>4. /\ snapshot'[op.path][op.source] \in {op.source, Damaged}
        /\ \A p \in Paths, s \in Sources : snapshot'[p][s] # snapshot[p][s] => snapshot'[p][s] = s
    BY <1>0, <1>8, <2>1, RepositoryAssumption DEF KeepSnapshot, TypeInv, TypeOK
  <2>5. \A p \in Paths : ToSet(index[p]) \subseteq Sources
    BY <1>0 DEF TypeInv, TypeOK, ToSet
  <2>6. SnapshotsOK' /\ VersionsAreRestorable'
    BY <2>3, <2>4, <2>5
  <2>7. OpOK'
    BY <2>1, <2>2, <2>3, <2>4
  <2> QED
    BY <2>3, <2>6, <2>7
<1>9. CASE AppendEntry
  <2>1. /\ op # Nothing /\ op.path \in Paths /\ op.source \in Sources
        /\ Head(op.todo) = "index"
        /\ UNCHANGED <<file, snapshot, held, confirmed, touched>>
    BY <1>0, <1>9, AppendStep DEF AppendEntry
  <2>2. CASE op' = Nothing /\ index' = index
    BY <1>1, <2>1, <2>2
  <2>3. ASSUME Advance
        PROVE  op' # Nothing =>
                 op'.path = op.path /\ op'.source = op.source /\ Head(op'.todo) = "reply"
    BY <1>0, <2>1, <2>3, AdvanceIsTyped DEF Follows
  <2>4. CASE Advance /\ index' = index /\ ListedLast(index[op.path], op.source)
    BY <2>1, <2>3, <2>4 DEF ListedLast
  <2>5. CASE Advance /\ index' = [index EXCEPT ![op.path] = Append(index[op.path], op.source)]
    <3>1. index[op.path] \in Seq(Sources) /\ index'[op.path] = Append(index[op.path], op.source)
      BY <1>0, <2>1, <2>5 DEF TypeInv, TypeOK
    <3>2. /\ index'[op.path] # <<>> /\ Last(index'[op.path]) = op.source
          /\ ToSet(index'[op.path]) = ToSet(index[op.path]) \cup {op.source}
      BY <2>1, <3>1, AppendedHistory
    <3>3. \A p \in Paths : p # op.path => index'[p] = index[p]
      BY <1>0, <2>5 DEF TypeInv, TypeOK
    <3>4. /\ op.source \in held[op.path]
          /\ confirmed[op.path] => op.source = file[op.path]
          /\ snapshot[op.path][op.source] \in {op.source, Damaged}
      BY <2>1
    <3>5. VersionsAreRestorable' /\ VersionsWereHeld'
      BY <2>1, <3>2, <3>3, <3>4
    <3>6. ConfirmedIsNewest'
      BY <2>1, <3>2, <3>3, <3>4
    <3>7. OpOK'
      BY <2>1, <2>3, <2>5, <3>2
    <3> QED
      BY <2>1, <3>5, <3>6, <3>7
  <2> QED
    BY <1>0, <1>9, <2>2, <2>4, <2>5, AppendStep
<1>10. CASE Reply
  <2>1. op # Nothing /\ op.path \in Paths /\ Head(op.todo) = "reply"
    BY <1>0, <1>10, OpIsTyped DEF Reply, At
  <2>2. op' # Nothing => Head(op'.todo) = "report"
    BY <1>0, <1>10, <2>1, AdvanceIsTyped DEF Reply, Abandon, Follows
  <2>3. UNCHANGED <<file, index, snapshot, held>>
    BY <1>10 DEF Reply, disk
  <2>4. confirmed' \in {confirmed, [confirmed EXCEPT ![op.path] = file[op.path] = op.source]}
    BY <1>10 DEF Reply
  <2>5. ConfirmedIsNewest'
    BY <1>0, <2>1, <2>3, <2>4 DEF TypeInv, TypeOK
  <2> QED
    BY <2>2, <2>3, <2>5
<1>11. CASE Report
  <2>1. op' = Nothing
    BY <1>0, <1>11, AdvanceIsTyped DEF Report, At, Follows
  <2> QED
    BY <1>1, <1>11, <2>1 DEF Report
<1>12. ASSUME NEW q \in Strategies, NEW s \in Revisions, Edit(q, s)
       PROVE  Kept
  <2>1. /\ q \in Paths
        /\ file' = [file EXCEPT ![q] = s]
        /\ held' = [held EXCEPT ![q] = @ \cup ({s} \ {NoFile})]
        /\ confirmed' = [confirmed EXCEPT ![q] = FALSE]
        /\ touched' = (touched \/ (op # Nothing /\ op.path = q))
        /\ UNCHANGED <<index, snapshot, op>>
    BY <1>12 DEF Edit, Paths
  <2>2. \A p \in Paths : held[p] \subseteq held'[p]
    BY <1>0, <2>1 DEF TypeInv, TypeOK
  <2>3. FilesHeld'
    BY <1>0, <2>1, <2>2 DEF TypeInv, TypeOK
  <2>4. op # Nothing => op.path \in Paths
    BY <1>0, OpIsTyped
  <2>5. OpOK'
    BY <1>0, <2>1, <2>2, <2>4 DEF TypeInv, TypeOK
  <2>6. VersionsWereHeld' /\ ConfirmedIsNewest'
    BY <1>0, <2>1, <2>2 DEF TypeInv, TypeOK
  <2> QED
    BY <2>1, <2>3, <2>5, <2>6
<1>13. ASSUME NEW q \in Paths, DamageIndex(q)
       PROVE  Kept
  BY <1>1, <1>13 DEF DamageIndex
<1>14. ASSUME NEW q \in Paths, NEW r \in Sources, DamageSnapshot(q, r)
       PROVE  Kept
  <2>1. /\ \A p \in Paths, s \in Sources : snapshot'[p][s] \in {snapshot[p][s], Damaged}
        /\ UNCHANGED <<file, index, op, held, confirmed, touched>>
    BY <1>0, <1>14 DEF DamageSnapshot, TypeInv, TypeOK
  <2>2. \A p \in Paths : ToSet(index[p]) \subseteq Sources
    BY <1>0 DEF TypeInv, TypeOK, ToSet
  <2>3. SnapshotsOK' /\ VersionsAreRestorable'
    BY <2>1, <2>2
  <2>4. op # Nothing => op.path \in Paths /\ op.source \in Sources
    BY <1>0, OpIsTyped
  <2>5. OpOK'
    BY <2>1, <2>4
  <2> QED
    BY <2>1, <2>3, <2>5
<1> QED
  BY <1>0, <1>2, <1>3, <1>4, <1>5, <1>6, <1>7, <1>8, <1>9, <1>10, <1>11, <1>12, <1>13, <1>14, NextCases

LEMMA HistoryHolds == Spec => []HistoryInv
<1>1. ASSUME Init, TypeInv
      PROVE  HistoryInv
  <2>1. \A p \in Paths : ToSet(index[p]) = {}
    BY <1>1 DEF Init, ToSet
  <2>2. FilesHeld
    BY <1>1 DEF Init, FilesHeld
  <2>3. SnapshotsOK /\ OpOK /\ ConfirmedIsNewest
    BY <1>1 DEF Init, SnapshotsOK, OpOK, ConfirmedIsNewest
  <2> QED
    BY <1>1, <2>1, <2>2, <2>3 DEF HistoryInv, VersionsAreRestorable, VersionsWereHeld
<1>2. Init /\ TypeInv => HistoryInv
  BY <1>1
<1> QED
  BY <1>2, HistoryStep, TypesHold, PTL DEF Spec

\* Whatever fails or is edited in between, the snapshot of every listed version
\* was written before its entry, and only damage takes it away.
THEOREM VersionsStayRestorable == Spec => []VersionsAreRestorable
  BY HistoryHolds, PTL DEF HistoryInv

\* No operation lists a text that its strategy never was.
THEOREM VersionsWereAllHeld == Spec => []VersionsWereHeld
  BY HistoryHolds, PTL DEF HistoryInv

\* The newest version is the one a client was told is in force.
THEOREM ConfirmedIsAlwaysNewest == Spec => []ConfirmedIsNewest
  BY HistoryHolds, PTL DEF HistoryInv

-----------------------------------------------------------------------------
(* Steps *)

\* Only AppendEntry writes an index, and it keeps what it has read.
THEOREM HistoryNeverShrinks == Spec => HistoryOnlyGrows
<1>1. ASSUME TypeInv, [Next]_vars
      PROVE  [\A p \in Paths : IsPrefix(index[p], index'[p])]_vars
  <2>1. \A p \in Paths : index[p] \in Seq(Sources)
    BY <1>1 DEF TypeInv, TypeOK
  <2>2. \A p \in Paths : IsPrefix(index[p], index[p])
    BY <2>1 DEF IsPrefix
  <2>3. CASE AppendEntry
    <3>1. op.path \in Paths /\ op.source \in Sources
      BY <1>1, <2>3, AppendStep
    <3>2. IsPrefix(index[op.path], Append(index[op.path], op.source))
      BY <2>1, <3>1, AppendedHistory
    <3>3. index' = index \/ index' = [index EXCEPT ![op.path] = Append(index[op.path], op.source)]
      BY <1>1, <2>3, AppendStep
    <3>4. index \in [Paths -> Seq(Sources)]
      BY <1>1 DEF TypeInv, TypeOK
    <3> QED
      BY <2>2, <3>1, <3>2, <3>3, <3>4
  <2>4. CASE ~AppendEntry
    <3>1. index' = index
      BY <1>1, <2>4, NextCases DEF vars, disk, Load, Beginning, Requested, RefuseImport,
         StartImport, Replace, KeepSnapshot, Reply, Report, Fail, Crash, Edit, DamageIndex,
         DamageSnapshot
    <3> QED
      BY <2>2, <3>1
  <2> QED
    BY <2>3, <2>4
<1> QED
  BY <1>1, TypesHold, PTL DEF Spec, HistoryOnlyGrows

\* A text that is replaced is one the request has named, or an editor was faster
\* than the step after the check.
THEOREM NothingIsEverOverwrittenUnseen == Spec => NothingIsOverwrittenUnseen
<1>1. ASSUME HistoryInv
      PROVE  [At("replace") /\ file' # file =>
                \/ op.expected \in {Unchecked, file[op.path]}
                \/ touched
                \/ UNCHANGED op]_vars
  BY <1>1 DEF HistoryInv, OpOK, Checked, At
<1> QED
  BY <1>1, HistoryHolds, PTL DEF NothingIsOverwrittenUnseen
====
