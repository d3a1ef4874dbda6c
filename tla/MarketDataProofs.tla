---- MODULE MarketDataProofs ----
(***************************************************************************)
(* Theorems about the bars of the history and what is made of them.  First   *)
(* MarketData, for every set of jobs, every length of the history, any       *)
(* number of its versions and of server crashes.  Then Timeframes and        *)
(* Indicators, for every set of bar types and periods, any number of driver  *)
(* bars with any gaps and prices, and whatever order the series are asked    *)
(* for in: every answer is the one the driver bars so far give.              *)
(***************************************************************************)
EXTENDS MarketData, Indicators, SumTheorems, SequenceTheorems, TLAPS

(***************************************************************************)
(* Files.                                                                   *)
(***************************************************************************)
LEMMA LengthOf ==
    ASSUME NEW S, NEW n \in Nat, NEW s \in [1..n -> S]
    PROVE  s \in Seq(S) /\ Len(s) = n
<1>1. s \in Seq(S)
  BY SeqDef
<1>2. Len(s) \in Nat /\ 1..Len(s) = 1..n
  BY <1>1, LenProperties
<1>3. ~(Len(s) > n)
  <2>1. Len(s) \in 1..Len(s) => Len(s) \in 1..n
    BY <1>2
  <2> QED
    BY <1>2, <2>1
<1>4. ~(n > Len(s))
  <2>1. n \in 1..n => n \in 1..Len(s)
    BY <1>2
  <2> QED
    BY <1>2, <2>1
<1> QED
  BY <1>1, <1>2, <1>3, <1>4

\* A file is a sequence of at most Rows rows.
LEMMA FileType ==
    ASSUME NEW rows
    PROVE  rows \in Contents <=> rows \in Seq(0..MaxVersions) /\ Len(rows) \in 0..Rows
<1>1. Rows \in Nat
  BY MarketDataAssumption
<1>2. ASSUME rows \in Contents
      PROVE  rows \in Seq(0..MaxVersions) /\ Len(rows) \in 0..Rows
  <2>1. PICK n \in 0..Rows : rows \in [1..n -> 0..MaxVersions]
    BY <1>2 DEF Contents, BoundedSeq, SeqOf
  <2>2. n \in Nat /\ n <= Rows
    BY <1>1, <2>1
  <2>3. rows \in Seq(0..MaxVersions) /\ Len(rows) = n
    BY <2>1, <2>2, LengthOf
  <2> QED
    BY <1>1, <2>2, <2>3
<1>3. ASSUME rows \in Seq(0..MaxVersions), Len(rows) \in 0..Rows
      PROVE  rows \in Contents
  <2>1. rows \in [1..Len(rows) -> 0..MaxVersions]
    BY <1>3, LenProperties
  <2> QED
    BY <2>1, <1>3 DEF Contents, BoundedSeq, SeqOf
<1> QED
  BY <1>2, <1>3

\* What the paging loop has collected so far.
InPages(rows) ==
    /\ \A i \in 1..Len(rows) : rows[i] \in 1..opend
    /\ \A i \in 1..(Len(rows) - 1) :
          /\ rows[i] <= rows[i + 1]
          /\ rows[i] # rows[i + 1] => \E k \in 1..Rows : i = k * PageSize

\* The loop stands behind a page, and there are more.
MorePages(rows) == Len(rows) < Rows /\ \E k \in 0..Len(rows) : Len(rows) = k * PageSize

Reached(rows) == IF Len(rows) + PageSize < Rows THEN Len(rows) + PageSize ELSE Rows

LEMMA NextPageType ==
    ASSUME NEW rows \in Contents, opend \in 1..MaxVersions
    PROVE  /\ WithNextPage(rows) \in Contents
           /\ Len(WithNextPage(rows)) = Reached(rows)
           /\ Reached(rows) \in 1..Rows
           /\ \A i \in 1..Reached(rows) :
                 WithNextPage(rows)[i] = IF i <= Len(rows) THEN rows[i] ELSE opend
<1> DEFINE n == Reached(rows)
           new == WithNextPage(rows)
<1>1. /\ Rows \in Nat \ {0} /\ PageSize \in Nat \ {0} /\ MaxVersions \in Nat
      /\ rows \in Seq(0..MaxVersions) /\ Len(rows) \in 0..Rows
  BY FileType, MarketDataAssumption
<1>2. n \in 1..Rows
  BY <1>1 DEF Reached
<1>3. new = [i \in 1..n |-> IF i <= Len(rows) THEN rows[i] ELSE opend]
  BY DEF WithNextPage, Reached
<1>4. ASSUME NEW i \in 1..n, i <= Len(rows) PROVE rows[i] \in 0..MaxVersions
  <2>1. i \in 1..Len(rows)
    BY <1>1, <1>2, <1>4
  <2> QED
    BY <1>1, <2>1, ElementOfSeq
<1> HIDE DEF n, new
<1>5. new \in [1..n -> 0..MaxVersions]
  BY <1>1, <1>3, <1>4
<1>6. new \in Seq(0..MaxVersions) /\ Len(new) = n
  BY <1>1, <1>2, <1>5, LengthOf
<1>7. new \in Contents
  BY <1>1, <1>2, <1>6, FileType
<1> QED
  BY <1>2, <1>3, <1>6, <1>7 DEF n, new

\* A round of the loop adds a page behind a page.
LEMMA NextPageInPages ==
    ASSUME NEW rows \in Contents, opend \in 1..MaxVersions, InPages(rows), MorePages(rows)
    PROVE  /\ InPages(WithNextPage(rows))
           /\ Len(WithNextPage(rows)) # Rows => MorePages(WithNextPage(rows))
<1> DEFINE n == Reached(rows)
           new == WithNextPage(rows)
           m == Len(rows)
<1>1. /\ Rows \in Nat \ {0} /\ PageSize \in Nat \ {0} /\ MaxVersions \in Nat
      /\ m \in 0..Rows /\ m < Rows
  BY FileType, MarketDataAssumption DEF MorePages
<1>2. /\ Len(new) = n /\ n \in 1..Rows
      /\ \A i \in 1..n : new[i] = IF i <= m THEN rows[i] ELSE opend
  BY NextPageType
<1>3. PICK k \in 0..m : m = k * PageSize
  BY DEF MorePages
<1>4. m < n /\ (n # Rows => n = m + PageSize)
  BY <1>1 DEF Reached
<1>5. \A i \in 1..m : rows[i] \in 1..opend
  BY DEF InPages
<1>6. \A i \in 1..(m - 1) : /\ rows[i] <= rows[i + 1]
                            /\ rows[i] # rows[i + 1] => \E l \in 1..Rows : i = l * PageSize
  BY DEF InPages
<1>7. opend \in Nat /\ opend \in 1..opend
  BY <1>1
<1> HIDE DEF n, new, m
<1>8. \A i \in 1..n : new[i] \in 1..opend
  BY <1>1, <1>2, <1>5, <1>7
<1>9. ASSUME NEW i \in 1..(n - 1)
      PROVE  /\ new[i] <= new[i + 1]
             /\ new[i] # new[i + 1] => \E l \in 1..Rows : i = l * PageSize
  <2>1. /\ i \in Nat /\ i >= 1 /\ i \in 1..n /\ i + 1 \in 1..n
        /\ new[i] = (IF i <= m THEN rows[i] ELSE opend)
        /\ new[i + 1] = (IF i + 1 <= m THEN rows[i + 1] ELSE opend)
    BY <1>1, <1>2
  <2>2. CASE i < m
    <3>1. i \in 1..(m - 1) /\ i <= m /\ i + 1 <= m
      BY <1>1, <2>1, <2>2
    <3> QED
      BY <1>6, <2>1, <3>1
  <2>3. CASE i = m
    <3>1. new[i] = rows[i] /\ new[i + 1] = opend /\ rows[i] \in 1..opend
      BY <1>1, <1>5, <2>1, <2>3
    <3>2. k \in 1..Rows
      <4>1. k # 0
        BY <1>1, <1>3, <2>1, <2>3
      <4> QED
        BY <1>1, <4>1
    <3> QED
      BY <1>3, <1>7, <2>3, <3>1, <3>2
  <2>4. CASE i > m
    BY <1>1, <1>7, <2>1, <2>4
  <2> QED
    BY <1>1, <2>1, <2>2, <2>3, <2>4
<1>10. InPages(new)
  BY <1>2, <1>8, <1>9 DEF InPages
<1>11. ASSUME n # Rows PROVE MorePages(new)
  <2>1. n = m + PageSize /\ n < Rows
    BY <1>1, <1>2, <1>4, <1>11
  <2>2. n = (k + 1) * PageSize
    BY <1>1, <1>3, <2>1
  <2>3. k + 1 \in 0..n
    BY <1>1, <2>1
  <2> QED
    BY <1>2, <2>1, <2>2, <2>3 DEF MorePages
<1> QED
  BY <1>2, <1>10, <1>11 DEF new

\* The last page completes the fetch.
LEMMA LastPage ==
    ASSUME NEW rows \in Contents, InPages(rows), Len(rows) = Rows
    PROVE  Fetched(rows)
<1>1. \A i \in 1..Rows : rows[i] # HOLE
  BY DEF InPages, HOLE
<1> QED
  BY <1>1 DEF InPages, Fetched

\* Writing a row extends a file to that row, or keeps its length, and changes no
\* other row of it.
LEMMA OverwrittenType ==
    ASSUME NEW rows \in Contents, NEW at \in 1..Rows, NEW row \in 0..MaxVersions
    PROVE  /\ Overwritten(rows, at, row) \in Contents
           /\ Len(rows) < at => Len(Overwritten(rows, at, row)) = at
           /\ Overwritten(rows, at, row)[at] = row
           /\ \A i \in 1..Len(rows) : i # at => Overwritten(rows, at, row)[i] = rows[i]
<1> DEFINE n == IF at > Len(rows) THEN at ELSE Len(rows)
           new == Overwritten(rows, at, row)
<1>1. Rows \in Nat /\ MaxVersions \in Nat /\ HOLE \in 0..MaxVersions
  BY MarketDataAssumption DEF HOLE
<1>2. rows \in Seq(0..MaxVersions) /\ Len(rows) \in 0..Rows
  BY FileType
<1>3. n \in 0..Rows /\ at \in 1..n
  BY <1>1, <1>2
<1>4. new = [i \in 1..n |-> IF i = at THEN row ELSE IF i <= Len(rows) THEN rows[i] ELSE HOLE]
  BY DEF Overwritten
<1>5. ASSUME NEW i \in 1..n, i <= Len(rows)
      PROVE  rows[i] \in 0..MaxVersions
  <2>1. i \in 1..Len(rows)
    BY <1>2, <1>3, <1>5
  <2> QED
    BY <1>2, <2>1, ElementOfSeq
<1> HIDE DEF n
<1>6. new \in [1..n -> 0..MaxVersions]
  BY <1>1, <1>4, <1>5
<1>7. new \in Seq(0..MaxVersions) /\ Len(new) = n
  BY <1>1, <1>3, <1>6, LengthOf
<1>8. new \in Contents
  BY <1>3, <1>7, FileType
<1>9. ASSUME Len(rows) < at
      PROVE  Len(new) = at
  BY <1>7, <1>9 DEF n
<1>10. new[at] = row
  BY <1>3, <1>4
<1>11. ASSUME NEW i \in 1..Len(rows), i # at
       PROVE  new[i] = rows[i]
  <2>1. i \in 1..n /\ i <= Len(rows)
    BY <1>2, <1>3, <1>11 DEF n
  <2> QED
    BY <1>4, <1>11, <2>1
<1> QED
  BY <1>8, <1>9, <1>10, <1>11

\* A writer that has written its first n rows.
Holds(rows, of, n) ==
    Len(rows) = n /\ \A i \in 1..n : rows[i] = of[i]

\* The next row of a writer goes to the end of its file.
LEMMA OneMoreRow ==
    ASSUME NEW rows \in Contents, NEW of \in Contents, NEW n \in 0..(Rows - 1),
           Len(of) = Rows, Holds(rows, of, n)
    PROVE  Holds(Overwritten(rows, n + 1, of[n + 1]), of, n + 1)
<1>1. Rows \in Nat /\ n + 1 \in 1..Rows /\ n \in Nat
  BY MarketDataAssumption
<1>2. of[n + 1] \in 0..MaxVersions
  BY <1>1, FileType, ElementOfSeq
<1>3. Len(rows) = n /\ n < n + 1
  BY <1>1 DEF Holds
<1> DEFINE new == Overwritten(rows, n + 1, of[n + 1])
<1>4. /\ Len(new) = n + 1
      /\ new[n + 1] = of[n + 1]
      /\ \A i \in 1..n : i # n + 1 => new[i] = rows[i]
  <2> DEFINE at == n + 1
             row == of[at]
  <2>1. at \in 1..Rows /\ row \in 0..MaxVersions
    BY <1>1, <1>2
  <2> HIDE DEF at, row
  <2>2. /\ Len(rows) < at => Len(Overwritten(rows, at, row)) = at
        /\ Overwritten(rows, at, row)[at] = row
        /\ \A i \in 1..Len(rows) : i # at => Overwritten(rows, at, row)[i] = rows[i]
    BY <2>1, OverwrittenType
  <2> QED
    BY <1>3, <2>2 DEF at, row
<1> HIDE DEF new
<1>5. \A i \in 1..(n + 1) : new[i] = of[i]
  <2> TAKE i \in 1..(n + 1)
  <2>1. CASE i = n + 1
    BY <1>4, <2>1
  <2>2. CASE i # n + 1
    <3>1. i \in 1..n
      BY <1>1, <2>2
    <3> QED
      BY <1>4, <2>2, <3>1 DEF Holds
  <2> QED
    BY <2>1, <2>2
<1> QED
  BY <1>4, <1>5 DEF Holds, new

\* A file with all the rows of a history is that history.
LEMMA AllRows ==
    ASSUME NEW rows \in Contents, NEW of \in Contents, Len(of) = Rows, Holds(rows, of, Rows)
    PROVE  rows = of
<1>1. /\ rows \in Seq(0..MaxVersions) /\ of \in Seq(0..MaxVersions)
      /\ Len(rows) = Len(of)
      /\ \A i \in 1..Len(of) : rows[i] = of[i]
  BY FileType DEF Holds
<1> QED
  BY <1>1, SeqEqual

(***************************************************************************)
(* Who is alive, and what a process has done so far.                        *)
(***************************************************************************)
ServerInv ==
    /\ current \in Jobs <=> server \in {"await", "copy"}
    /\ current \in Jobs => verdict[current] = "open"
    /\ server = "copy" => proc[current] \in {"exited", "failed"}
    /\ \A j \in Jobs : verdict[j] = "succeeded" => proc[j] = "exited"

DoneSoFar(p) ==
    /\ proc[p] \in {"none", "started", "hit", "fetch", "open"} =>
          written[p] = 0 /\ handle[p] = NoFile
    /\ proc[p] \in {"none", "started", "hit"} => held[p] = NoRows
    /\ proc[p] = "fetch" => InPages(held[p]) /\ MorePages(held[p])
    /\ proc[p] \in {"open", "writing"} => Fetched(held[p])
    /\ proc[p] = "writing" => handle[p] \in Jobs /\ written[p] \in 0..(Rows - 1)

ProcessInv == \A p \in Jobs : DoneSoFar(p)

\* An orphan that shares the file with a job has been observed.
AloneInv ==
    /\ current \in Jobs \ shared => \A p \in Jobs \ {current} : proc[p] \notin Alive
    /\ shared = {} => \A p, q \in Jobs : {proc[p], proc[q]} \subseteq Alive => p = q

IInv == TypeOK /\ ServerInv /\ ProcessInv /\ AloneInv

LEMMA NoRowsType == NoRows \in Contents
<1>1. NoRows \in Seq(0..MaxVersions) /\ Len(NoRows) = 0
  BY EmptySeq DEF NoRows
<1>2. Len(NoRows) \in 0..Rows
  BY <1>1, MarketDataAssumption
<1> QED
  BY <1>1, <1>2, FileType

LEMMA InitInv == Init => IInv
<1> SUFFICES ASSUME Init
             PROVE  IInv
  OBVIOUS
<1>2. TypeOK
  BY NoRowsType, MarketDataAssumption DEF Init, TypeOK
<1>3. ServerInv
  BY MarketDataAssumption DEF Init, ServerInv
<1>4. ProcessInv
  BY DEF Init, ProcessInv, DoneSoFar
<1>5. AloneInv
  BY MarketDataAssumption DEF Init, AloneInv, Alive
<1> QED
  BY <1>2, <1>3, <1>4, <1>5 DEF IInv

\* The steps of a process and its launch keep the types.
LEMMA ProcessTyped ==
    ASSUME TypeOK, NEW p \in Jobs
    PROVE  /\ CheckCache(p) => TypeOK'
           /\ ReadCache(p) => TypeOK'
           /\ FetchPage(p) => TypeOK'
           /\ OpenCache(p) => TypeOK'
           /\ ProcessInv /\ WriteRow(p) => TypeOK'
           /\ Exit(p) => TypeOK'
           /\ Fail(p) => TypeOK'
           /\ Launch(p) => TypeOK'
<1> USE DEF Alive, disk, memory, loop, watch, Goes
<1>1. ASSUME CheckCache(p) PROVE TypeOK'
  BY <1>1 DEF TypeOK, CheckCache
<1>2. ASSUME ReadCache(p) PROVE TypeOK'
  BY <1>2 DEF TypeOK, ReadCache
<1>3. ASSUME FetchPage(p) PROVE TypeOK'
  <2>1. WithNextPage(held[p]) \in Contents
    BY NextPageType DEF TypeOK
  <2> QED
    BY <1>3, <2>1 DEF TypeOK, FetchPage
<1>4. ASSUME OpenCache(p) PROVE TypeOK'
  BY <1>4, NoRowsType DEF TypeOK, OpenCache
<1>5. ASSUME ProcessInv, WriteRow(p) PROVE TypeOK'
  <2> DEFINE at == written[p] + 1
             file == handle[p]
             new == Overwritten(content[file], at, held[p][at])
  <2>1. proc[p] = "writing" /\ file \in Jobs /\ written[p] \in 0..(Rows - 1) /\ Fetched(held[p])
    BY <1>5 DEF ProcessInv, DoneSoFar, WriteRow
  <2>2. at \in 1..Rows /\ held[p] \in Contents /\ Len(held[p]) = Rows
    BY <2>1, MarketDataAssumption DEF TypeOK, Fetched
  <2>3. held[p][at] \in 0..MaxVersions
    BY <2>2, FileType, ElementOfSeq
  <2>4. new \in Contents
    BY <2>1, <2>2, <2>3, OverwrittenType DEF TypeOK
  <2>5. at \in 0..Rows
    BY <2>2
  <2> HIDE DEF new, at
  <2>6. /\ content' = [content EXCEPT ![file] = new]
        /\ written' = [written EXCEPT ![p] = at]
    BY <1>5 DEF WriteRow, new, at
  <2>7. content' \in [Jobs -> Contents] /\ written' \in [Jobs -> 0..Rows]
    BY <2>4, <2>5, <2>6 DEF TypeOK
  <2>8. proc' \in [Jobs -> Alive \cup {"none", "exited", "failed", "killed"}]
    BY <1>5 DEF TypeOK, WriteRow
  <2> QED
    BY <1>5, <2>7, <2>8 DEF TypeOK, WriteRow
<1>6. ASSUME Exit(p) PROVE TypeOK'
  BY <1>6 DEF TypeOK, Exit
<1>7. ASSUME Fail(p) PROVE TypeOK'
  BY <1>7 DEF TypeOK, Fail
<1>8. ASSUME Launch(p) PROVE TypeOK'
  BY <1>8 DEF TypeOK, Launch
<1> QED
  BY <1>1, <1>2, <1>3, <1>4, <1>5, <1>6, <1>7, <1>8

\* So do the steps of the server and of the world.
LEMMA ServerTyped ==
    ASSUME TypeOK, ServerInv
    PROVE  /\ Kill => TypeOK'
           /\ GiveUp => TypeOK'
           /\ Record => TypeOK'
           /\ Freeze => TypeOK'
           /\ DeleteCache => TypeOK'
           /\ Adjust => TypeOK'
           /\ Crash => TypeOK'
           /\ Restart => TypeOK'
<1> USE DEF Alive, disk, memory, loop, watch
<1>1. ASSUME Kill PROVE TypeOK'
  BY <1>1 DEF TypeOK, Kill, Goes
<1>2. ASSUME GiveUp PROVE TypeOK'
  BY <1>2 DEF TypeOK, GiveUp, Close
<1>3. ASSUME Record PROVE TypeOK'
  BY <1>3 DEF TypeOK, Record, Close
<1>4. ASSUME Freeze PROVE TypeOK'
  BY <1>4 DEF TypeOK, Freeze, Close, Outcome, Unchanged
<1>5. ASSUME DeleteCache PROVE TypeOK'
  BY <1>5 DEF TypeOK, DeleteCache
<1>6. ASSUME Adjust PROVE TypeOK'
  BY <1>6, MarketDataAssumption DEF TypeOK, Adjust
<1>7. ASSUME Crash PROVE TypeOK'
  BY <1>7, NoRowsType, MarketDataAssumption DEF TypeOK, Crash
<1>8. ASSUME Restart PROVE TypeOK'
  BY <1>8 DEF TypeOK, Restart, Reconciled
<1> QED
  BY <1>1, <1>2, <1>3, <1>4, <1>5, <1>6, <1>7, <1>8

LEMMA TypeStep == TypeOK /\ ServerInv /\ ProcessInv /\ [Next]_vars => TypeOK'
<1> SUFFICES ASSUME TypeOK, ServerInv, ProcessInv, [Next]_vars
             PROVE  TypeOK'
  OBVIOUS
<1>1. ASSUME UNCHANGED vars PROVE TypeOK'
  BY <1>1 DEF TypeOK, vars
<1> QED
  BY <1>1, ProcessTyped, ServerTyped DEF Next, Process

LEMMA ServerStep == TypeOK /\ ServerInv /\ [Next]_vars => ServerInv'
<1> SUFFICES ASSUME TypeOK, ServerInv, [Next]_vars
             PROVE  ServerInv'
  OBVIOUS
<1> USE DEF Alive, disk, memory, loop, watch, Goes
<1>1. ASSUME NEW p \in Jobs, Process(p) PROVE ServerInv'
  <2>1. /\ UNCHANGED loop
        /\ \E from \in Alive, to \in Alive \cup {"exited", "failed"} : Goes(p, from, to)
           \/ UNCHANGED proc
    BY <1>1 DEF Process, CheckCache, ReadCache, FetchPage, OpenCache, WriteRow, Exit, Fail, TypeOK
  <2> QED
    BY <2>1 DEF ServerInv, TypeOK
<1>2. ASSUME NEW j \in Jobs, Launch(j) PROVE ServerInv'
  BY <1>2 DEF ServerInv, TypeOK, Launch
<1>3. ASSUME Kill PROVE ServerInv'
  BY <1>3 DEF ServerInv, TypeOK, Kill
<1>4. ASSUME GiveUp PROVE ServerInv'
  BY <1>4, MarketDataAssumption DEF ServerInv, TypeOK, GiveUp, Close
<1>5. ASSUME Record PROVE ServerInv'
  BY <1>5, MarketDataAssumption DEF ServerInv, TypeOK, Record, Close
<1>6. ASSUME Freeze PROVE ServerInv'
  BY <1>6, MarketDataAssumption DEF ServerInv, TypeOK, Freeze, Close, Outcome
<1>7. ASSUME DeleteCache \/ Adjust \/ UNCHANGED vars PROVE ServerInv'
  BY <1>7 DEF ServerInv, DeleteCache, Adjust, vars
<1>8. ASSUME Crash PROVE ServerInv'
  BY <1>8, MarketDataAssumption DEF ServerInv, TypeOK, Crash
<1>9. ASSUME Restart PROVE ServerInv'
  BY <1>9 DEF ServerInv, TypeOK, Restart, Reconciled
<1> QED
  BY <1>1, <1>2, <1>3, <1>4, <1>5, <1>6, <1>7, <1>8, <1>9 DEF Next

LEMMA ProcessStep == TypeOK /\ ServerInv /\ ProcessInv /\ [Next]_vars => ProcessInv'
<1> SUFFICES ASSUME TypeOK, ServerInv, ProcessInv, [Next]_vars
             PROVE  ProcessInv'
  OBVIOUS
<1> USE DEF Alive, disk, memory, loop, watch, Goes
<1>0. InPages(NoRows) /\ MorePages(NoRows)
  <2>1. Len(NoRows) = 0
    BY EmptySeq DEF NoRows
  <2>2. 0 \in 0..0 /\ 0 = 0 * PageSize /\ 0 < Rows
    BY MarketDataAssumption
  <2> QED
    BY <2>1, <2>2 DEF InPages, MorePages
<1>a. ASSUME NEW p \in Jobs, NEW rows, held'[p] = rows, UNCHANGED opend
      PROVE  /\ InPages(rows) => InPages(held[p])'
             /\ MorePages(rows) => MorePages(held[p])'
             /\ Fetched(rows) => Fetched(held[p])'
  BY <1>a DEF InPages, MorePages, Fetched
<1>b. ASSUME NEW p \in Jobs, UNCHANGED opend,
             proc'[p] = proc[p], held'[p] = held[p], handle'[p] = handle[p],
             written'[p] = written[p]
      PROVE  DoneSoFar(p)'
  <2> DEFINE rows == held[p]
  <2>1. DoneSoFar(p) /\ held'[p] = rows
    BY <1>b DEF ProcessInv
  <2>2. /\ InPages(rows) => InPages(held[p])'
        /\ MorePages(rows) => MorePages(held[p])'
        /\ Fetched(rows) => Fetched(held[p])'
    BY <1>a, <1>b, <2>1
  <2> QED
    BY <1>b, <2>1, <2>2 DEF DoneSoFar
\* Only the process of p has moved.
<1>c. ASSUME NEW p \in Jobs, DoneSoFar(p)', UNCHANGED opend,
             \A q \in Jobs \ {p} : /\ proc'[q] = proc[q] /\ held'[q] = held[q]
                                   /\ handle'[q] = handle[q] /\ written'[q] = written[q]
      PROVE  ProcessInv'
  BY <1>b, <1>c DEF ProcessInv
<1>1. ASSUME NEW p \in Jobs, CheckCache(p) PROVE ProcessInv'
  <2>1. /\ proc'[p] \in {"hit", "fetch"} /\ proc[p] = "started" /\ UNCHANGED <<opend, memory>>
        /\ \A q \in Jobs \ {p} : proc'[q] = proc[q]
    BY <1>1 DEF CheckCache, TypeOK
  <2>2. /\ held[p] = NoRows /\ written[p] = 0 /\ handle[p] = NoFile
        /\ InPages(held[p]) /\ MorePages(held[p])
    BY <1>0, <2>1 DEF ProcessInv, DoneSoFar
  <2>3. InPages(held[p])' /\ MorePages(held[p])'
    BY <1>a, <2>1, <2>2
  <2>4. DoneSoFar(p)'
    BY <2>1, <2>2, <2>3 DEF DoneSoFar
  <2> QED
    BY <1>c, <2>1, <2>4
<1>2. ASSUME NEW p \in Jobs, ReadCache(p) PROVE ProcessInv'
  <2>1. /\ proc'[p] \in {"trading", "failed"}
        /\ \A q \in Jobs \ {p} : proc'[q] = proc[q] /\ held'[q] = held[q]
        /\ UNCHANGED <<opend, handle, written>>
    BY <1>2 DEF ReadCache, TypeOK
  <2>2. DoneSoFar(p)'
    BY <2>1 DEF DoneSoFar
  <2> QED
    BY <1>c, <2>1, <2>2
<1>3. ASSUME NEW p \in Jobs, FetchPage(p) PROVE ProcessInv'
  <2> DEFINE rows == WithNextPage(held[p])
  <2>1. /\ proc[p] = "fetch" /\ held[p] \in Contents /\ opend \in 1..MaxVersions
        /\ InPages(held[p]) /\ MorePages(held[p])
        /\ written[p] = 0 /\ handle[p] = NoFile
    BY <1>3 DEF ProcessInv, DoneSoFar, TypeOK, FetchPage
  <2>2. /\ rows \in Contents /\ InPages(rows)
        /\ Len(rows) # Rows => MorePages(rows)
        /\ Len(rows) = Rows => Fetched(rows)
    BY <2>1, NextPageType, NextPageInPages, LastPage
  <2> HIDE DEF rows
  <2>3. /\ proc' = [proc EXCEPT ![p] = IF Len(rows) = Rows THEN "open" ELSE "fetch"]
        /\ held' = [held EXCEPT ![p] = rows]
        /\ UNCHANGED <<opend, handle, written>>
    BY <1>3 DEF FetchPage, rows
  <2>4. /\ proc'[p] = IF Len(rows) = Rows THEN "open" ELSE "fetch"
        /\ held'[p] = rows
        /\ \A q \in Jobs \ {p} : proc'[q] = proc[q] /\ held'[q] = held[q]
    BY <2>3 DEF TypeOK
  <2>5. /\ InPages(held[p])'
        /\ Len(rows) # Rows => MorePages(held[p])'
        /\ Len(rows) = Rows => Fetched(held[p])'
    BY <1>a, <2>2, <2>3, <2>4
  <2>6. DoneSoFar(p)'
    BY <2>1, <2>3, <2>4, <2>5 DEF DoneSoFar
  <2> QED
    BY <1>c, <2>3, <2>4, <2>6
<1>4. ASSUME NEW p \in Jobs, OpenCache(p) PROVE ProcessInv'
  <2>1. /\ proc[p] = "open" /\ proc'[p] = "writing" /\ handle'[p] \in Jobs
        /\ \A q \in Jobs \ {p} : proc'[q] = proc[q] /\ handle'[q] = handle[q]
        /\ UNCHANGED <<opend, held, written>>
    BY <1>4 DEF OpenCache, TypeOK
  <2>2. Fetched(held[p]) /\ written[p] = 0 /\ 0 \in 0..(Rows - 1)
    BY <2>1, MarketDataAssumption DEF ProcessInv, DoneSoFar
  <2>3. Fetched(held[p])'
    BY <1>a, <2>1, <2>2
  <2>4. DoneSoFar(p)'
    BY <2>1, <2>2, <2>3 DEF DoneSoFar
  <2> QED
    BY <1>c, <2>1, <2>4
<1>5. ASSUME NEW p \in Jobs, WriteRow(p) PROVE ProcessInv'
  <2>1. /\ proc[p] = "writing" /\ Fetched(held[p]) /\ Len(held[p]) = Rows
        /\ handle[p] \in Jobs /\ written[p] \in 0..(Rows - 1) /\ Rows \in Nat
    BY <1>5, MarketDataAssumption DEF ProcessInv, DoneSoFar, WriteRow, Fetched
  <2>2. /\ proc'[p] = IF written[p] + 1 = Rows THEN "trading" ELSE "writing"
        /\ written'[p] = written[p] + 1
        /\ \A q \in Jobs \ {p} : proc'[q] = proc[q] /\ written'[q] = written[q]
        /\ UNCHANGED <<opend, held, handle>>
    BY <1>5, <2>1 DEF WriteRow, TypeOK
  <2>3. written[p] + 1 # Rows => written[p] + 1 \in 0..(Rows - 1)
    BY <2>1
  <2>4. Fetched(held[p])'
    BY <1>a, <2>1, <2>2
  <2>5. DoneSoFar(p)'
    BY <2>1, <2>2, <2>3, <2>4 DEF DoneSoFar
  <2> QED
    BY <1>c, <2>2, <2>5
<1>6. ASSUME NEW p \in Jobs, proc'[p] \in {"exited", "failed", "killed"},
             \A q \in Jobs \ {p} : proc'[q] = proc[q], UNCHANGED <<opend, memory>>
      PROVE  ProcessInv'
  <2>1. DoneSoFar(p)'
    BY <1>6 DEF DoneSoFar
  <2> QED
    BY <1>c, <1>6, <2>1
<1>7. ASSUME NEW p \in Jobs, Exit(p) \/ Fail(p) PROVE ProcessInv'
  BY <1>6, <1>7 DEF TypeOK, Exit, Fail
<1>8. ASSUME Kill PROVE ProcessInv'
  BY <1>6, <1>8 DEF ServerInv, TypeOK, Kill
<1>9. ASSUME NEW j \in Jobs, Launch(j) PROVE ProcessInv'
  <2>1. /\ proc[j] = "none" /\ proc'[j] = "started"
        /\ \A q \in Jobs \ {j} : proc'[q] = proc[q]
        /\ UNCHANGED <<opend, memory>>
    BY <1>9 DEF TypeOK, Launch
  <2>2. held[j] = NoRows /\ written[j] = 0 /\ handle[j] = NoFile
    BY <2>1 DEF ProcessInv, DoneSoFar
  <2>3. DoneSoFar(j)'
    BY <2>1, <2>2 DEF DoneSoFar, NoRows
  <2> QED
    BY <1>c, <2>1, <2>3
<1>10. ASSUME GiveUp \/ Record \/ Freeze \/ DeleteCache \/ Crash \/ Restart \/ UNCHANGED vars
       PROVE  ProcessInv'
  <2>1. UNCHANGED <<opend, proc, memory>>
    BY <1>10 DEF GiveUp, Record, Freeze, DeleteCache, Crash, Restart, vars
  <2> QED
    BY <1>b, <2>1 DEF ProcessInv
<1>11. ASSUME Adjust PROVE ProcessInv'
  <2>1. UNCHANGED <<proc, memory>> /\ opend' = opend + 1 /\ opend \in Nat
    BY <1>11, MarketDataAssumption DEF Adjust, TypeOK
  <2>2. 1..opend \subseteq 1..opend'
    BY <2>1
  <2>3. ASSUME NEW p \in Jobs PROVE DoneSoFar(p)'
    <3>1. /\ InPages(held[p]) => InPages(held[p])'
          /\ MorePages(held[p]) => MorePages(held[p])'
          /\ Fetched(held[p]) => Fetched(held[p])'
      BY <2>1, <2>2 DEF InPages, MorePages, Fetched
    <3> QED
      BY <2>1, <3>1 DEF ProcessInv, DoneSoFar
  <2> QED
    BY <2>3 DEF ProcessInv
<1> QED
  BY <1>1, <1>2, <1>3, <1>4, <1>5, <1>7, <1>8, <1>9, <1>10, <1>11 DEF Next, Process

LEMMA AloneStep == TypeOK /\ ServerInv /\ AloneInv /\ [Next]_vars => AloneInv'
<1> SUFFICES ASSUME TypeOK, ServerInv, AloneInv, [Next]_vars
             PROVE  AloneInv'
  OBVIOUS
<1> USE DEF disk, memory, loop, watch, Goes
<1>1. ASSUME NEW p \in Jobs, Process(p) PROVE AloneInv'
  <2>1. /\ UNCHANGED <<current, shared>>
        /\ \A q \in Jobs : proc'[q] \in Alive => proc[q] \in Alive
    BY <1>1 DEF Process, CheckCache, ReadCache, FetchPage, OpenCache, WriteRow, Exit, Fail, TypeOK, Alive
  <2> QED
    BY <2>1 DEF AloneInv
<1>2. ASSUME NEW j \in Jobs, Launch(j) PROVE AloneInv'
  <2>1. /\ current \notin Jobs /\ current' = j
        /\ shared' = IF Orphans = {} THEN shared ELSE shared \cup {j}
        /\ \A q \in Jobs \ {j} : proc'[q] = proc[q]
    BY <1>2 DEF Launch, ServerInv, TypeOK
  <2>2. CASE Orphans = {}
    <3>1. \A q \in Jobs \ {j} : proc'[q] \notin Alive
      BY <2>1, <2>2 DEF Orphans
    <3> QED
      BY <2>1, <3>1 DEF AloneInv
  <2>3. CASE Orphans # {}
    BY <2>1, <2>3 DEF AloneInv
  <2> QED
    BY <2>2, <2>3
<1>3. ASSUME Kill PROVE AloneInv'
  <2>1. /\ UNCHANGED <<current, shared>>
        /\ \A q \in Jobs : proc'[q] \in Alive => proc[q] \in Alive
    BY <1>3 DEF Kill, TypeOK, Alive
  <2> QED
    BY <2>1 DEF AloneInv
<1>4. ASSUME GiveUp \/ Record \/ Freeze PROVE AloneInv'
  <2>1. UNCHANGED <<proc, shared>> /\ current' \in {current, NoFile}
    BY <1>4 DEF GiveUp, Record, Freeze, Close
  <2> QED
    BY <2>1, MarketDataAssumption DEF AloneInv
<1>5. ASSUME DeleteCache \/ Adjust \/ Restart \/ UNCHANGED vars PROVE AloneInv'
  BY <1>5 DEF AloneInv, DeleteCache, Adjust, Restart, vars
<1>6. ASSUME Crash PROVE AloneInv'
  BY <1>6, MarketDataAssumption DEF AloneInv, Crash
<1> QED
  BY <1>1, <1>2, <1>3, <1>4, <1>5, <1>6 DEF Next

LEMMA InvStep == IInv /\ [Next]_vars => IInv'
BY TypeStep, ServerStep, ProcessStep, AloneStep DEF IInv

LEMMA InvAlways == Spec => []IInv
BY InitInv, InvStep, PTL DEF Spec

\* Every reachable state is typed: files and processes never hold more rows than
\* the history has, however writers of one file are interleaved.
THEOREM TypeCorrect == Spec => []TypeOK
<1>1. IInv => TypeOK
  BY DEF IInv
<1> QED
  BY InvAlways, <1>1, PTL

(***************************************************************************)
(* The evidence.                                                            *)
(***************************************************************************)
\* Only Freeze makes a job succeed, and only with what it has just checked.
LEMMA Verdicts ==
    ASSUME TypeOK, ServerInv, [Next]_vars, NEW j \in Jobs
    PROVE  \/ verdict'[j] # "succeeded"
           \/ /\ verdict[j] = "succeeded"
              /\ frozen'[j] = frozen[j] /\ audited'[j] = audited[j] /\ held'[j] = held[j]
           \/ /\ Freeze /\ j = current /\ proc[j] = "exited" /\ Unchanged
              /\ frozen'[j] = content[path] /\ audited'[j] = entry /\ held'[j] = held[j]
<1> USE DEF Alive, disk, memory, loop, watch, Goes
<1>1. ASSUME NEW p \in Jobs, Process(p)
      PROVE  /\ UNCHANGED <<verdict, frozen, audited>>
             /\ verdict[j] = "succeeded" => held'[j] = held[j]
  BY <1>1 DEF Process, CheckCache, ReadCache, FetchPage, OpenCache, WriteRow, Exit, Fail,
              TypeOK, ServerInv
<1>2. ASSUME NEW p \in Jobs, Launch(p)
      PROVE  UNCHANGED <<frozen, audited, held>> /\ verdict'[j] \in {verdict[j], "open"}
  BY <1>2 DEF Launch, TypeOK
<1>3. ASSUME Kill \/ DeleteCache \/ Adjust \/ Crash \/ UNCHANGED vars
      PROVE  UNCHANGED <<verdict, frozen, audited, held>>
  BY <1>3 DEF Kill, DeleteCache, Adjust, Crash, vars
<1>4. ASSUME GiveUp \/ Record \/ Restart
      PROVE  UNCHANGED <<frozen, audited, held>> /\ verdict'[j] \in {verdict[j], "failed"}
  BY <1>4 DEF GiveUp, Record, Restart, Reconciled, Close, TypeOK
<1>5. CASE Freeze
  <2>1. j # current => /\ verdict'[j] = verdict[j]
                       /\ frozen'[j] = frozen[j] /\ audited'[j] = audited[j]
    BY <1>5 DEF Freeze, Close, TypeOK
  <2>2. j = current => /\ verdict'[j] = Outcome
                       /\ Unchanged => frozen'[j] = content[path] /\ audited'[j] = entry
    BY <1>5 DEF Freeze, Close, TypeOK
  <2>3. UNCHANGED held
    BY <1>5 DEF Freeze
  <2> QED
    BY <1>5, <2>1, <2>2, <2>3 DEF Outcome
<1> QED
  BY <1>1, <1>2, <1>3, <1>4, <1>5 DEF Next

\* The evidence of a succeeded job has the hash its manifest states: between the
\* hash of record() and the copy nothing can pass unnoticed.
THEOREM EvidenceAlwaysMatches == Spec => []EvidenceMatchesManifest
<1>1. Init => EvidenceMatchesManifest
  BY DEF Init, EvidenceMatchesManifest, Succeeded
<1>2. IInv /\ EvidenceMatchesManifest /\ [Next]_vars => EvidenceMatchesManifest'
  <2> SUFFICES ASSUME IInv, EvidenceMatchesManifest, [Next]_vars,
                      NEW j \in Jobs, verdict'[j] = "succeeded"
               PROVE  frozen'[j] = audited'[j]
    BY DEF EvidenceMatchesManifest, Succeeded
  <2> QED
    BY Verdicts DEF IInv, EvidenceMatchesManifest, Succeeded, Unchanged
<1> QED
  BY InvAlways, <1>1, <1>2, PTL DEF Spec

\* What the process of a job that no orphan disturbs knows of the shared file.
TradedInv ==
    current \in Jobs \ shared /\ path # NoFile =>
        /\ proc[current] \in {"trading", "exited"} => content[path] = held[current]
        /\ proc[current] = "writing" =>
              path = handle[current] /\ Holds(content[path], held[current], written[current])

\* The step of a writer whose file still is the shared file.
LEMMA WriterAtItsFile ==
    ASSUME IInv, NEW p \in Jobs, WriteRow(p), path = handle[p],
           Holds(content[path], held[p], written[p])
    PROVE  /\ UNCHANGED <<path, held, handle>>
           /\ Holds(content'[path], held[p], written'[p])
           /\ \/ proc'[p] = "writing"
              \/ proc'[p] = "trading" /\ written'[p] = Rows /\ content'[path] = held[p]
<1> DEFINE n == written[p]
           new == Overwritten(content[path], n + 1, held[p][n + 1])
<1>1. /\ proc[p] = "writing" /\ path \in Jobs /\ n \in 0..(Rows - 1)
      /\ held[p] \in Contents /\ Len(held[p]) = Rows /\ content[path] \in Contents
  <2>1. proc[p] = "writing"
    BY DEF WriteRow, Goes
  <2>2. path \in Jobs /\ n \in 0..(Rows - 1) /\ Fetched(held[p])
    BY <2>1 DEF IInv, ProcessInv, DoneSoFar
  <2> QED
    BY <2>1, <2>2 DEF IInv, TypeOK, Fetched
<1>2. Holds(new, held[p], n + 1)
  BY <1>1, OneMoreRow
<1> HIDE DEF new
<1>3. /\ content' = [content EXCEPT ![path] = new]
      /\ written' = [written EXCEPT ![p] = n + 1]
      /\ proc' = [proc EXCEPT ![p] = IF n + 1 = Rows THEN "trading" ELSE "writing"]
      /\ UNCHANGED <<path, held, handle>>
  BY <1>1 DEF WriteRow, Goes, memory, new
<1>4. content'[path] = new /\ written'[p] = n + 1
  BY <1>1, <1>3 DEF IInv, TypeOK
<1>5. CASE n + 1 = Rows
  <2>1. new \in Contents
    <3>1. content' \in [Jobs -> Contents]
      BY ProcessTyped DEF IInv, TypeOK
    <3> QED
      BY <1>1, <1>4, <3>1
  <2>2. new = held[p]
    BY <1>1, <1>2, <1>5, <2>1, AllRows
  <2> QED
    BY <1>2, <1>3, <1>4, <1>5, <2>2 DEF IInv, TypeOK
<1>6. CASE n + 1 # Rows
  BY <1>2, <1>3, <1>4, <1>6 DEF IInv, TypeOK
<1> QED
  BY <1>5, <1>6

LEMMA TradedStep == IInv /\ TradedInv /\ [Next]_vars => TradedInv'
<1> SUFFICES ASSUME IInv, TradedInv, [Next]_vars, current' \in Jobs \ shared', path' # NoFile
             PROVE  /\ proc'[current'] \in {"trading", "exited"} =>
                          content'[path'] = held'[current']
                    /\ proc'[current'] = "writing" =>
                          /\ path' = handle'[current']
                          /\ Holds(content'[path'], held'[current'], written'[current'])
  BY DEF TradedInv
<1> USE DEF IInv
<1> DEFINE c == current
<1> USE DEF Goes, disk, memory, loop, watch
<1>1. ASSUME NEW p \in Jobs, Process(p)
      PROVE  p = c /\ current' = c /\ c \in Jobs \ shared
  <2>1. proc[p] \in Alive /\ UNCHANGED <<current, shared>>
    BY <1>1 DEF Process, CheckCache, ReadCache, FetchPage, OpenCache, WriteRow, Exit, Fail, Alive
  <2> QED
    BY <2>1 DEF AloneInv
<1>2. ASSUME NEW p \in Jobs, CheckCache(p) \/ FetchPage(p) \/ Fail(p)
      PROVE  proc'[current'] \notin {"trading", "exited", "writing"}
  BY <1>1, <1>2 DEF Process, CheckCache, FetchPage, Fail, TypeOK
<1>3. ASSUME NEW p \in Jobs, ReadCache(p)
      PROVE  proc'[c] # "writing" /\ (proc'[c] \in {"trading", "exited"} => content'[path'] = held'[c])
  BY <1>1, <1>3 DEF Process, ReadCache, TypeOK
<1>4. ASSUME NEW p \in Jobs, OpenCache(p)
      PROVE  proc'[c] = "writing" /\ path' = handle'[c] /\ Holds(content'[path'], held'[c], written'[c])
  <2>1. written[c] = 0 /\ proc[c] = "open" /\ p = c
    BY <1>1, <1>4 DEF Process, OpenCache, ProcessInv, DoneSoFar
  <2>2. content'[path'] = NoRows /\ path' = handle'[c] /\ written' = written /\ proc'[c] = "writing"
    BY <1>1, <1>4, <2>1 DEF OpenCache, TypeOK, Process
  <2>3. Len(NoRows) = 0
    BY EmptySeq DEF NoRows
  <2> QED
    BY <2>1, <2>2, <2>3 DEF Holds
<1>5. ASSUME NEW p \in Jobs, WriteRow(p)
      PROVE  /\ proc'[c] \in {"trading", "exited"} => content'[path'] = held'[c]
             /\ proc'[c] = "writing" =>
                   path' = handle'[c] /\ Holds(content'[path'], held'[c], written'[c])
  <2>1. p = c /\ c \in Jobs \ shared /\ path # NoFile /\ proc[c] = "writing"
    BY <1>1, <1>5 DEF Process, WriteRow
  <2> QED
    BY <1>5, <2>1, WriterAtItsFile DEF TradedInv
<1>6. ASSUME NEW p \in Jobs, Exit(p)
      PROVE  proc'[c] = "exited" /\ content'[path'] = held'[c]
  BY <1>1, <1>6 DEF Process, Exit, TypeOK, TradedInv
<1>7. ASSUME NEW j \in Jobs, Launch(j)
      PROVE  proc'[current'] = "started"
  BY <1>7 DEF Launch, TypeOK
<1>8. ASSUME Kill
      PROVE  proc'[current'] = "killed"
  BY <1>8 DEF Kill, TypeOK, ServerInv
<1>9. ASSUME DeleteCache \/ GiveUp \/ Record \/ Freeze \/ Crash
      PROVE  current' = c /\ path' = path /\ UNCHANGED <<content, proc, memory, shared>>
  BY <1>9, MarketDataAssumption DEF DeleteCache, GiveUp, Record, Freeze, Close, Crash
<1>10. ASSUME Adjust \/ Restart \/ UNCHANGED vars
       PROVE  current' = c /\ path' = path /\ UNCHANGED <<content, proc, memory, shared>>
  BY <1>10 DEF Adjust, Restart, vars
<1>11. ASSUME current' = c, path' = path, UNCHANGED <<content, proc, memory, shared>>
       PROVE  /\ proc'[current'] \in {"trading", "exited"} => content'[path'] = held'[current']
              /\ proc'[current'] = "writing" =>
                    /\ path' = handle'[current']
                    /\ Holds(content'[path'], held'[current'], written'[current'])
  BY <1>11 DEF TradedInv
<1> QED
  BY <1>1, <1>2, <1>3, <1>4, <1>5, <1>6, <1>7, <1>8, <1>9, <1>10, <1>11 DEF Next, Process

LEMMA TradedAlways == Spec => []TradedInv
<1>1. Init => TradedInv
  BY MarketDataAssumption DEF Init, TradedInv
<1> QED
  BY InvAlways, <1>1, TradedStep, PTL DEF Spec

\* A succeeded job whose process shared the file with no orphan has frozen the
\* very rows it traded on, whoever deletes the file and whenever.
THEOREM FrozenAlwaysTraded == Spec => []FrozenIsTraded
<1>1. Init => FrozenIsTraded
  BY DEF Init, FrozenIsTraded, Succeeded
<1>2. IInv /\ TradedInv /\ FrozenIsTraded /\ [Next]_vars => FrozenIsTraded'
  <2> SUFFICES ASSUME IInv, TradedInv, FrozenIsTraded, [Next]_vars,
                      NEW j \in Jobs, verdict'[j] = "succeeded", j \notin shared'
               PROVE  frozen'[j] = held'[j]
    BY DEF FrozenIsTraded, Succeeded
  <2>1. j \notin shared
    BY DEF Next, Process, CheckCache, ReadCache, FetchPage, OpenCache, WriteRow, Exit, Fail, Launch,
           Kill, GiveUp, Record, Freeze, DeleteCache, Adjust, Crash, Restart, vars, watch
  <2> QED
    BY <2>1, Verdicts DEF IInv, TradedInv, FrozenIsTraded, Succeeded, Unchanged
<1> QED
  BY InvAlways, TradedAlways, <1>1, <1>2, PTL DEF Spec

(***************************************************************************)
(* Who writes the shared file, and what is in it.                           *)
(***************************************************************************)
\* A process that fetches although nobody asked for it has seen no file, and no
\* other process is there to make one.
FetchInv ==
    shared = {} => \A p \in Jobs \ Refreshing :
        proc[p] \in {"fetch", "open"} => path = NoFile

LEMMA FetchStep == IInv /\ FetchInv /\ [Next]_vars => FetchInv'
<1> SUFFICES ASSUME IInv, FetchInv, [Next]_vars, shared' = {},
                    NEW p \in Jobs \ Refreshing, proc'[p] \in {"fetch", "open"}
             PROVE  path' = NoFile
  BY DEF FetchInv
<1> USE DEF IInv, Goes, disk, memory, loop, watch
<1>1. shared = {}
  BY DEF Next, Process, CheckCache, ReadCache, FetchPage, OpenCache, WriteRow, Exit, Fail, Launch,
         Kill, GiveUp, Record, Freeze, DeleteCache, Adjust, Crash, Restart, vars
<1>2. ASSUME NEW q \in Jobs, Process(q)
      PROVE  q = p
  <2>1. proc[q] \in Alive /\ \A r \in Jobs \ {q} : proc'[r] = proc[r]
    BY <1>2 DEF Process, CheckCache, ReadCache, FetchPage, OpenCache, WriteRow, Exit, Fail, Alive, TypeOK
  <2>2. q # p => proc[p] \in Alive
    BY <2>1 DEF Alive
  <2> QED
    BY <1>1, <2>1, <2>2 DEF AloneInv
<1>3. ASSUME NEW q \in Jobs, CheckCache(q)
      PROVE  path' = NoFile
  BY <1>2, <1>3 DEF Process, CheckCache, Hits, TypeOK
<1>4. ASSUME NEW q \in Jobs, FetchPage(q)
      PROVE  path' = NoFile
  BY <1>1, <1>2, <1>4 DEF Process, FetchPage, FetchInv
<1>5. ASSUME NEW q \in Jobs, ReadCache(q) \/ OpenCache(q) \/ WriteRow(q) \/ Exit(q) \/ Fail(q)
      PROVE  proc'[q] \notin {"fetch", "open"}
  BY <1>5 DEF ReadCache, OpenCache, WriteRow, Exit, Fail, TypeOK
<1>6. ASSUME NEW q \in Jobs, Launch(q) \/ Kill
      PROVE  proc[p] \in {"fetch", "open"} /\ path' = path
  BY <1>6 DEF Launch, Kill, TypeOK
<1>7. ASSUME GiveUp \/ Record \/ Freeze \/ Adjust \/ Crash \/ Restart \/ UNCHANGED vars
      PROVE  proc[p] \in {"fetch", "open"} /\ path' = path
  BY <1>7 DEF GiveUp, Record, Freeze, Adjust, Crash, Restart, vars
<1>8. ASSUME DeleteCache
      PROVE  path' = NoFile
  BY <1>8 DEF DeleteCache
<1>9. proc[p] \in {"fetch", "open"} => path = NoFile
  BY <1>1 DEF FetchInv
<1> QED
  BY <1>2, <1>3, <1>4, <1>5, <1>6, <1>7, <1>8, <1>9 DEF Next, Process

LEMMA FetchAlways == Spec => []FetchInv
<1>1. Init => FetchInv
  BY DEF Init, FetchInv
<1> QED
  BY InvAlways, <1>1, FetchStep, PTL DEF Spec

\* As long as no job has shared the file with an orphan, a file that is there is
\* rewritten only by a job that was asked to refresh it.
THEOREM RewritesAreAskedFor == Spec => OnlyRefreshRewrites
<1>1. IInv /\ FetchInv /\ [Next]_vars =>
        [\A p \in Jobs :
            /\ proc[p] = "open" /\ proc'[p] = "writing" /\ path # NoFile /\ shared = {}
            => p \in Refreshing]_vars
  BY DEF FetchInv
<1> QED
  BY InvAlways, FetchAlways, <1>1, PTL DEF Spec, OnlyRefreshRewrites

\* A writer that is through with its file, at its last row or before.
Over(w) == Fetched(held[w]) /\ (written[w] = Rows \/ w \in Interrupted)

\* The rows that a writer who is through has left.
Left(rows) == \E w \in Jobs : Over(w) /\ Holds(rows, held[w], written[w])

\* What nobody writes to was left by its last writer, what somebody writes to is
\* the first part of the history he holds.
SourceInv ==
    shared = {} =>
        /\ path # NoFile /\ (\A p \in Jobs : proc[p] = "writing" => handle[p] # path) =>
              Left(content[path])
        /\ \A p \in Jobs : proc[p] = "writing" /\ handle[p] = path =>
              Holds(content[path], held[p], written[p])
        /\ \A p \in Jobs : proc[p] \in {"trading", "exited"} => Left(held[p])

\* A writer that is through stays so.
LEMMA OverStays ==
    ASSUME IInv, [Next]_vars, NEW w \in Jobs, Over(w)
    PROVE  Over(w)' /\ held'[w] = held[w] /\ written'[w] = written[w]
<1> USE DEF IInv, Goes, disk, memory, loop, watch
<1>1. /\ proc[w] \in {"trading", "exited", "failed", "killed"}
      /\ written[w] = Rows \/ (/\ proc[w] \in {"failed", "killed"}
                               /\ handle[w] # NoFile /\ written[w] < Rows)
  <2>1. Rows \in Nat \ {0}
    BY MarketDataAssumption
  <2>2. ASSUME written[w] = Rows
        PROVE  proc[w] \in {"trading", "exited", "failed", "killed"}
    <3>1. proc[w] \notin {"none", "started", "hit", "fetch", "open", "writing"}
      BY <2>1, <2>2 DEF ProcessInv, DoneSoFar
    <3> QED
      BY <3>1 DEF TypeOK, Alive
  <2> QED
    BY <2>2 DEF Over, Interrupted
<1>2. /\ held'[w] = held[w] /\ written'[w] = written[w] /\ handle'[w] = handle[w]
      /\ proc[w] \in {"failed", "killed"} => proc'[w] = proc[w]
  <2>1. ASSUME NEW q \in Jobs, Process(q)
        PROVE  /\ held'[w] = held[w] /\ written'[w] = written[w] /\ handle'[w] = handle[w]
               /\ proc[w] \in {"failed", "killed"} => proc'[w] = proc[w]
    BY <1>1, <2>1
       DEF Process, CheckCache, ReadCache, FetchPage, OpenCache, WriteRow, Exit, Fail, TypeOK
  <2>2. ASSUME NEW q \in Jobs, Launch(q)
        PROVE  UNCHANGED memory /\ proc'[w] = proc[w]
    BY <1>1, <2>2 DEF Launch, TypeOK
  <2>3. ASSUME Kill
        PROVE  UNCHANGED memory /\ (proc[w] \in {"failed", "killed"} => proc'[w] = proc[w])
    BY <2>3 DEF Kill, TypeOK, Alive
  <2>4. ASSUME GiveUp \/ Record \/ Freeze \/ DeleteCache \/ Adjust \/ Crash \/ Restart \/ UNCHANGED vars
        PROVE  UNCHANGED <<proc, memory>>
    BY <2>4 DEF GiveUp, Record, Freeze, DeleteCache, Adjust, Crash, Restart, vars
  <2> QED
    BY <2>1, <2>2, <2>3, <2>4 DEF Next
<1> QED
  BY <1>1, <1>2 DEF Over, Fetched, Interrupted

LEMMA SourceStep == IInv /\ SourceInv /\ [Next]_vars => SourceInv'
<1> DEFINE Unwritten == \A p \in Jobs : proc[p] = "writing" => handle[p] # path
           Parts ==
              /\ path # NoFile /\ Unwritten => Left(content[path])
              /\ \A p \in Jobs : proc[p] = "writing" /\ handle[p] = path =>
                    Holds(content[path], held[p], written[p])
              /\ \A p \in Jobs : proc[p] \in {"trading", "exited"} => Left(held[p])
           LeftNext(rows) == \E w \in Jobs : Over(w)' /\ Holds(rows, held'[w], written'[w])
<1> SUFFICES ASSUME IInv, SourceInv, [Next]_vars, shared' = {}
             PROVE  Parts'
  BY DEF SourceInv
<1> USE DEF IInv, Goes, disk, memory, loop, watch
<1>1. shared = {} /\ Parts
  <2>1. shared \subseteq shared'
    BY DEF Next, Process, CheckCache, ReadCache, FetchPage, OpenCache, WriteRow, Exit, Fail,
           Launch, Kill, GiveUp, Record, Freeze, DeleteCache, Adjust, Crash, Restart, vars
  <2> QED
    BY <2>1 DEF SourceInv
<1>a. ASSUME NEW rows, Left(rows)
      PROVE  \E w \in Jobs : Over(w)' /\ Holds(rows, held'[w], written'[w])
  BY <1>a, OverStays DEF Left
<1>b. \A rows : Left(rows) => LeftNext(rows)
  BY <1>a
<1>c. SUFFICES /\ path' # NoFile /\ Unwritten' => LeftNext(content'[path'])
               /\ \A p \in Jobs : proc'[p] = "writing" /\ handle'[p] = path' =>
                     Holds(content'[path'], held'[p], written'[p])
               /\ \A p \in Jobs : proc'[p] \in {"trading", "exited"} => LeftNext(held'[p])
  BY DEF Left
<1> DEFINE Goal ==
              /\ path' # NoFile /\ Unwritten' => LeftNext(content'[path'])
              /\ \A p \in Jobs : proc'[p] = "writing" /\ handle'[p] = path' =>
                    Holds(content'[path'], held'[p], written'[p])
              /\ \A p \in Jobs : proc'[p] \in {"trading", "exited"} => LeftNext(held'[p])
<1>d. SUFFICES Goal
  OBVIOUS
<1> HIDE DEF LeftNext
<1>2. ASSUME NEW p \in Jobs, Process(p)
      PROVE  \A q \in Jobs \ {p} : /\ proc[q] \notin Alive /\ proc[q] # "writing"
                                   /\ proc'[q] = proc[q] /\ held'[q] = held[q]
  <2>1. proc[p] \in Alive /\ \A q \in Jobs \ {p} : proc'[q] = proc[q] /\ held'[q] = held[q]
    BY <1>2 DEF Process, CheckCache, ReadCache, FetchPage, OpenCache, WriteRow, Exit, Fail, Alive, TypeOK
  <2> QED
    BY <1>1, <2>1 DEF AloneInv, Alive
<1>3. ASSUME NEW p \in Jobs, CheckCache(p) \/ FetchPage(p)
      PROVE  Goal
  <2>1. proc[p] # "writing" /\ proc'[p] \notin {"writing", "trading", "exited"} /\ UNCHANGED disk
    BY <1>3 DEF CheckCache, FetchPage, TypeOK
  <2>2. Unwritten
    BY <1>2, <1>3, <2>1 DEF Process
  <2> QED
    BY <1>1, <1>2, <1>3, <1>b, <2>1, <2>2 DEF Process
<1>4. ASSUME NEW p \in Jobs, ReadCache(p)
      PROVE  Goal
  <2>1. proc[p] # "writing" /\ proc'[p] \notin {"writing", "exited"} /\ UNCHANGED disk
    BY <1>4 DEF ReadCache, TypeOK
  <2>2. Unwritten
    BY <1>2, <1>4, <2>1 DEF Process
  <2>3. proc'[p] = "trading" => path # NoFile /\ held'[p] = content[path]
    BY <1>4 DEF ReadCache, TypeOK
  <2> QED
    BY <1>1, <1>2, <1>4, <1>b, <2>1, <2>2, <2>3 DEF Process
<1>5. ASSUME NEW p \in Jobs, OpenCache(p)
      PROVE  Goal
  <2>1. written[p] = 0
    BY <1>5 DEF OpenCache, ProcessInv, DoneSoFar
  <2>2. /\ content'[path'] = NoRows /\ handle'[p] = path'
        /\ proc'[p] = "writing" /\ written'[p] = 0
    BY <1>5, <2>1 DEF OpenCache, TypeOK
  <2>3. Holds(content'[path'], held'[p], written'[p])
    BY <2>2, EmptySeq DEF NoRows, Holds
  <2> QED
    BY <1>1, <1>2, <1>5, <1>b, <2>2, <2>3 DEF Process
<1>6. ASSUME NEW p \in Jobs, WriteRow(p)
      PROVE  Goal
  <2>1. /\ proc[p] = "writing" /\ proc'[p] \in {"writing", "trading"}
        /\ UNCHANGED <<path, held, handle>>
        /\ Fetched(held[p]) /\ held[p] \in Contents
        /\ written[p] \in 0..(Rows - 1) /\ written'[p] = written[p] + 1
        /\ proc'[p] = "trading" => written[p] + 1 = Len(held[p])
    BY <1>6 DEF WriteRow, ProcessInv, DoneSoFar, TypeOK
  <2>2. proc'[p] = "trading" => Over(p)' /\ written'[p] = Rows
    BY <2>1 DEF Over, Fetched
  <2>3. Holds(held[p], held[p], Rows)
    BY <2>1 DEF Holds, Fetched
  <2>4. proc'[p] = "trading" => LeftNext(held'[p])
    BY <2>1, <2>2, <2>3 DEF LeftNext
  <2>5. CASE handle[p] = path
    <3>1. Holds(content[path], held[p], written[p])
      BY <1>1, <2>1, <2>5
    <3>2. Holds(content'[path], held[p], written'[p])
      BY <1>6, <2>5, <3>1, WriterAtItsFile
    <3>3. proc'[p] = "trading" => LeftNext(content'[path'])
      BY <2>1, <2>2, <3>2 DEF LeftNext
    <3> QED
      BY <1>1, <1>2, <1>6, <1>b, <2>1, <2>4, <2>5, <3>2, <3>3 DEF Process
  <2>6. CASE handle[p] # path
    <3>1. path # NoFile => content'[path] = content[path]
      BY <1>6, <2>6 DEF WriteRow, TypeOK
    <3>2. Unwritten
      BY <1>2, <1>6, <2>6 DEF Process
    <3> QED
      BY <1>1, <1>2, <1>6, <1>b, <2>1, <2>4, <2>6, <3>1, <3>2 DEF Process
  <2> QED
    BY <2>5, <2>6
<1>7. ASSUME NEW p \in Jobs, Exit(p)
      PROVE  Goal
  <2>1. proc[p] = "trading" /\ proc'[p] = "exited" /\ UNCHANGED <<disk, memory>>
    BY <1>7 DEF Exit, TypeOK
  <2> QED
    BY <1>1, <1>2, <1>7, <1>b, <2>1 DEF Process
<1>8. ASSUME NEW p \in Jobs, proc[p] \in Alive, proc'[p] \in {"failed", "killed"},
             \A q \in Jobs \ {p} : proc'[q] = proc[q], UNCHANGED <<disk, memory>>
      PROVE  Goal
  <2>1. \A q \in Jobs \ {p} : proc[q] # "writing"
    BY <1>1, <1>8 DEF AloneInv, Alive
  <2>2. CASE proc[p] = "writing" /\ handle[p] = path
    <3>1. /\ Fetched(held[p]) /\ written[p] \in 0..(Rows - 1) /\ handle[p] # NoFile
          /\ Holds(content[path], held[p], written[p])
      BY <1>1, <2>2, MarketDataAssumption DEF ProcessInv, DoneSoFar
    <3>2. Fetched(held[p])'
      BY <1>8, <3>1 DEF Fetched
    <3>4. p \in Interrupted'
      BY <1>8, <3>1, MarketDataAssumption DEF Interrupted
    <3>5. Over(p)'
      BY <3>2, <3>4 DEF Over
    <3>3. LeftNext(content'[path'])
      BY <1>8, <3>1, <3>5 DEF LeftNext
    <3> QED
      BY <1>1, <1>8, <1>b, <2>1, <3>3
  <2>3. CASE ~(proc[p] = "writing" /\ handle[p] = path)
    <3>1. Unwritten
      BY <2>1, <2>3
    <3> QED
      BY <1>1, <1>8, <1>b, <2>1, <3>1
  <2> QED
    BY <2>2, <2>3
<1>9. ASSUME NEW p \in Jobs, Fail(p)
      PROVE  Goal
  BY <1>8, <1>9 DEF Fail, TypeOK, Alive
<1>10. ASSUME Kill
       PROVE  Goal
  BY <1>8, <1>10 DEF Kill, ServerInv, TypeOK
<1>11. ASSUME NEW j \in Jobs, Launch(j)
       PROVE  Goal
  <2>1. /\ proc[j] = "none" /\ proc'[j] = "started"
        /\ \A q \in Jobs \ {j} : proc'[q] = proc[q]
        /\ UNCHANGED <<disk, memory>>
    BY <1>11 DEF Launch, TypeOK
  <2> QED
    BY <1>1, <1>b, <2>1
<1>12. ASSUME GiveUp \/ Record \/ Freeze \/ Adjust \/ Crash \/ Restart \/ UNCHANGED vars
       PROVE  Goal
  <2>1. UNCHANGED <<proc, disk, memory>>
    BY <1>12 DEF GiveUp, Record, Freeze, Adjust, Crash, Restart, vars
  <2> QED
    BY <1>1, <1>b, <2>1
<1>13. ASSUME DeleteCache
       PROVE  Goal
  <2>1. path' = NoFile /\ UNCHANGED <<proc, content, memory>>
    BY <1>13 DEF DeleteCache
  <2>2. \A p \in Jobs : proc[p] = "writing" => handle[p] # NoFile
    BY MarketDataAssumption DEF ProcessInv, DoneSoFar
  <2> QED
    BY <1>1, <1>b, <2>1, <2>2
<1> QED
  BY <1>3, <1>4, <1>5, <1>6, <1>7, <1>9, <1>10, <1>11, <1>12, <1>13 DEF Next, Process

\* Without orphans every succeeded job has traded on the rows of one complete
\* fetch, or on those that a writer who was stopped had written of one: no cache
\* hit sees a hole, the rest of an older file, or rows of two fetches, however the
\* history is adjusted between two pages.
THEOREM HistoriesAlwaysOfOneFetch == Spec => []HistoriesAreOfOneFetch
<1>1. Init => SourceInv
  BY DEF Init, SourceInv
<1>2. ASSUME IInv, SourceInv PROVE HistoriesAreOfOneFetch
  <2> DEFINE Source(j, p) == /\ Fetched(held[p])
                             /\ held[j] = SubSeq(held[p], 1, written[p])
                             /\ written[p] = Rows \/ p \in Interrupted
  <2> SUFFICES ASSUME shared = {}, NEW j \in Succeeded
               PROVE  \E p \in Jobs : Source(j, p)
    BY DEF HistoriesAreOfOneFetch
  <2>1. proc[j] = "exited"
    BY <1>2 DEF IInv, ServerInv, Succeeded
  <2>2. PICK w \in Jobs : Over(w) /\ Holds(held[j], held[w], written[w])
    BY <1>2, <2>1 DEF SourceInv, Left, Succeeded
  <2>3. /\ held[j] \in Seq(0..MaxVersions) /\ held[w] \in Seq(0..MaxVersions)
        /\ Len(held[w]) = Rows /\ written[w] \in 0..Rows /\ Rows \in Nat
    BY <1>2, <2>2, FileType, MarketDataAssumption DEF Succeeded, IInv, TypeOK, Over, Fetched
  <2> DEFINE part == SubSeq(held[w], 1, written[w])
  <2>4. /\ part \in Seq(0..MaxVersions) /\ Len(part) = written[w]
        /\ \A i \in 1..written[w] : part[i] = held[w][i]
    <3> DEFINE rows == held[w]
               n == written[w]
    <3>1. n \in Nat /\ 1 \in Int /\ n \in Int /\ n <= Len(rows) /\ rows \in Seq(0..MaxVersions)
      BY <2>3
    <3> HIDE DEF rows, n
    <3>2. ASSUME NEW i \in 1..n PROVE rows[i] \in 0..MaxVersions
      <4>1. i \in 1..Len(rows)
        BY <3>1, LenProperties
      <4> QED
        BY <3>1, <4>1, ElementOfSeq
    <3>3. /\ SubSeq(rows, 1, n) \in Seq(0..MaxVersions)
          /\ Len(SubSeq(rows, 1, n)) = IF 1 <= n THEN n - 1 + 1 ELSE 0
          /\ \A i \in 1..(n - 1 + 1) : SubSeq(rows, 1, n)[i] = rows[1 + i - 1]
      BY <3>1, <3>2, SubSeqProperties
    <3> QED
      BY <3>1, <3>3 DEF rows, n
  <2> HIDE DEF part
  <2>5. held[j] = part
    BY <2>2, <2>3, <2>4, SeqEqual DEF Holds
  <2> QED
    BY <2>2, <2>5 DEF Over, part
<1> QED
  BY InvAlways, <1>1, <1>2, SourceStep, PTL DEF Spec

-----------------------------------------------------------------------------
(* Numbers in order *)

Below(S, i) == {j \in S : j <= i}

\* The later of two members has more members up to it.
LEMMA RankGrows ==
    ASSUME NEW S \in SUBSET Int, IsFiniteSet(S), NEW i \in S, NEW j \in S, i < j
    PROVE  Cardinality(Below(S, i)) < Cardinality(Below(S, j))
<1>0. \A l \in S : l \in Int
  OBVIOUS
<1>a. \A l \in S : l <= i => l <= j
  BY <1>0
<1>1. Below(S, j) \in SUBSET S /\ Below(S, i) \in SUBSET Below(S, j)
  BY <1>a, Zenon DEF Below
<1>2. j \in Below(S, j) /\ j \notin Below(S, i)
  BY <1>0 DEF Below
<1>3. IsFiniteSet(Below(S, j))
  BY <1>1, FS_Subset
<1>4. Cardinality(Below(S, i)) <= Cardinality(Below(S, j)) /\ Cardinality(Below(S, i)) # Cardinality(Below(S, j))
  BY <1>1, <1>2, <1>3, FS_Subset
<1>5. Cardinality(Below(S, i)) \in Nat /\ Cardinality(Below(S, j)) \in Nat
  BY <1>1, <1>3, FS_Subset, FS_CardinalityType
<1> QED
  BY <1>4, <1>5

\* The members up to one of them are one at least and all at most.
LEMMA RankInRange ==
    ASSUME NEW S \in SUBSET Int, IsFiniteSet(S), NEW i \in S
    PROVE  Cardinality(Below(S, i)) \in 1..Cardinality(S)
<1>1. Below(S, i) \in SUBSET S /\ i \in Below(S, i)
  BY DEF Below
<1>2. IsFiniteSet(Below(S, i)) /\ Cardinality(Below(S, i)) <= Cardinality(S)
  BY <1>1, FS_Subset
<1>3. Cardinality(Below(S, i)) \in Nat /\ Cardinality(Below(S, i)) # 0 /\ Cardinality(S) \in Nat
  BY <1>1, <1>2, FS_CardinalityType, FS_EmptySet
<1> QED
  BY <1>2, <1>3

\* A member comes at the place that the number of members up to it says.
LEMMA NthIs ==
    ASSUME NEW S \in SUBSET Int, IsFiniteSet(S), NEW i \in S
    PROVE  Nth(S, Cardinality(Below(S, i))) = i
<1> DEFINE k == Cardinality(Below(S, i))
<1>1. ASSUME NEW j \in S, Cardinality(Below(S, j)) = k PROVE j = i
  <2>1. ~(i < j) /\ ~(j < i)
    BY <1>1, RankGrows, RankInRange
  <2> QED
    BY <2>1
<1>2. Nth(S, k) = CHOOSE j \in S : Cardinality(Below(S, j)) = k
  BY DEF Nth, Below
<1> QED
  BY <1>1, <1>2

\* The k-th of a finite set is the member with k members up to it.
LEMMA NthMeans ==
    ASSUME NEW S \in SUBSET Int, IsFiniteSet(S), NEW k \in 1..Cardinality(S)
    PROVE  Nth(S, k) \in S /\ Cardinality(Below(S, Nth(S, k))) = k
<1> DEFINE rank == [i \in S |-> Cardinality(Below(S, i))]
           T == 1..Cardinality(S)
<1>1. Cardinality(S) \in Nat
  BY FS_CardinalityType
<1>2. IsFiniteSet(T) /\ Cardinality(T) = Cardinality(S)
  BY <1>1, FS_Interval
<1>3. rank \in [S -> T]
  BY RankInRange
<1>4. \A i, j \in S : rank[i] = rank[j] => i = j
  <2> SUFFICES ASSUME NEW i \in S, NEW j \in S, rank[i] = rank[j] PROVE i = j
    OBVIOUS
  <2>1. ~(i < j) /\ ~(j < i)
    BY RankGrows, RankInRange
  <2> QED
    BY <2>1
<1> HIDE DEF rank, T
<1>5. rank \in Injection(S, T)
  BY <1>3, <1>4 DEF Injection, IsInjective
<1>6. rank \in Surjection(S, T)
  BY <1>2, <1>5, FS_Injection
<1>7. PICK i \in S : rank[i] = k
  BY <1>6 DEF Surjection, T
<1>8. Nth(S, k) = i
  BY <1>7, NthIs DEF rank
<1> QED
  BY <1>7, <1>8 DEF rank

\* In order.
LEMMA NthGrows ==
    ASSUME NEW S \in SUBSET Int, IsFiniteSet(S), NEW k \in 1..Cardinality(S),
           NEW l \in 1..Cardinality(S), k < l
    PROVE  Nth(S, k) < Nth(S, l)
<1>1. Nth(S, k) \in S /\ Nth(S, l) \in S
  BY NthMeans
<1>2. Cardinality(Below(S, Nth(S, k))) = k /\ Cardinality(Below(S, Nth(S, l))) = l
  BY NthMeans
<1>3. Cardinality(S) \in Nat
  BY FS_CardinalityType
<1> DEFINE a == Nth(S, k)
           b == Nth(S, l)
<1>4. a \in S /\ b \in S /\ a \in Int /\ b \in Int
  BY <1>1
<1>5. Cardinality(Below(S, a)) = k /\ Cardinality(Below(S, b)) = l /\ k \in Int /\ l \in Int
  BY <1>2, <1>3
<1> HIDE DEF a, b
<1>6. ~(b < a) /\ a # b
  BY <1>4, <1>5, RankGrows
<1>7. a < b
  BY ONLY <1>4, <1>6
<1> QED
  BY <1>7 DEF a, b

\* A number above all others comes last, and moves none of them.
LEMMA NthAppended ==
    ASSUME NEW S \in SUBSET Int, IsFiniteSet(S), NEW m \in Int, \A i \in S : i < m
    PROVE  /\ IsFiniteSet(S \cup {m}) /\ Cardinality(S \cup {m}) = Cardinality(S) + 1
           /\ \A k \in 1..Cardinality(S) : Nth(S \cup {m}, k) = Nth(S, k)
           /\ Nth(S \cup {m}, Cardinality(S) + 1) = m
<1> DEFINE T == S \cup {m}
<1>1. IsFiniteSet(T) /\ Cardinality(T) = Cardinality(S) + 1 /\ T \in SUBSET Int
  <2>1. m \notin S
    OBVIOUS
  <2>2. IsFiniteSet(T) /\ Cardinality(T) = Cardinality(S) + 1
    BY ONLY IsFiniteSet(S), <2>1, FS_AddElement
  <2>3. T \in SUBSET Int
    OBVIOUS
  <2> QED
    BY ONLY <2>2, <2>3
<1>2. \A k \in 1..Cardinality(S) : Nth(T, k) = Nth(S, k)
  <2> SUFFICES ASSUME NEW k \in 1..Cardinality(S) PROVE Nth(T, k) = Nth(S, k)
    OBVIOUS
  <2>1. Nth(S, k) \in S /\ Cardinality(Below(S, Nth(S, k))) = k
    BY NthMeans
  <2>a. \A i \in S : i \in Int
    OBVIOUS
  <2>2. Below(T, Nth(S, k)) = Below(S, Nth(S, k))
    <3> DEFINE i == Nth(S, k)
    <3>1. i \in S /\ i \in Int /\ i < m
      BY <2>1, <2>a
    <3> HIDE DEF i
    <3>2. \A j \in T : j <= i => j \in S
      BY <3>1, <2>a
    <3>3. Below(T, i) = Below(S, i)
      BY <3>2 DEF Below
    <3> QED
      BY <3>3 DEF i
  <2> HIDE DEF T
  <2>3. Nth(S, k) \in T
    BY <2>1 DEF T
  <2> QED
    BY <1>1, <2>1, <2>2, <2>3, NthIs
<1>a. \A i \in S : i \in Int /\ i < m
  OBVIOUS
<1>b. \A j \in T : j <= m
  BY <1>a
<1>3. Below(T, m) = T /\ m \in T
  BY <1>b, Zenon DEF Below
<1> HIDE DEF T
<1>4. Nth(T, Cardinality(S) + 1) = m
  BY <1>1, <1>3, NthIs
<1> QED
  BY <1>1, <1>2, <1>4 DEF T

\* The greatest of a set comes last.
LEMMA NthLast ==
    ASSUME NEW S \in SUBSET Int, IsFiniteSet(S), NEW m \in S, \A i \in S : i <= m
    PROVE  Nth(S, Cardinality(S)) = m
<1>1. Below(S, m) = S
  BY DEF Below
<1> QED
  BY <1>1, NthIs

\* The initial part of a set.
LEMMA NthOfPart ==
    ASSUME NEW S \in SUBSET Int, IsFiniteSet(S), NEW T \in SUBSET S,
           \A i \in T, j \in S \ T : i < j
    PROVE  \A k \in 1..Cardinality(T) : k \in 1..Cardinality(S) /\ Nth(T, k) = Nth(S, k)
<1> SUFFICES ASSUME NEW k \in 1..Cardinality(T)
             PROVE  k \in 1..Cardinality(S) /\ Nth(T, k) = Nth(S, k)
  OBVIOUS
<1>1. IsFiniteSet(T) /\ Cardinality(T) <= Cardinality(S) /\ Cardinality(T) \in Nat /\ Cardinality(S) \in Nat
  BY FS_Subset, FS_CardinalityType
<1>2. Nth(T, k) \in T /\ Cardinality(Below(T, Nth(T, k))) = k
  BY <1>1, NthMeans
<1> DEFINE a == Nth(T, k)
<1>a. a \in T /\ \A j \in S : j \in Int
  BY <1>2
<1>b. a \in Int /\ a \in S
  BY <1>a
<1> HIDE DEF a
<1>c. \A j \in S : j <= a => j \in T
  BY <1>a, <1>b
<1>3. Below(T, a) = Below(S, a)
  BY <1>c DEF Below
<1>4. Nth(S, k) = Nth(T, k)
  BY <1>2, <1>3, NthIs DEF a
<1> QED
  BY <1>1, <1>4

\* The greatest and the least of a finite set.
LEMMA MaxMeans ==
    ASSUME NEW S \in SUBSET Int, IsFiniteSet(S), S # {}
    PROVE  Max(S) \in S /\ \A i \in S : i <= Max(S)
<1>1. Cardinality(S) \in Nat /\ Cardinality(S) # 0
  BY FS_CardinalityType, FS_EmptySet
<1> DEFINE m == Nth(S, Cardinality(S))
<1>2. m \in S /\ Cardinality(Below(S, m)) = Cardinality(S)
  BY <1>1, NthMeans
<1>3. \A i \in S : i <= m
  <2>a. m \in Int /\ \A i \in S : i \in Int
    BY <1>2
  <2> SUFFICES ASSUME NEW i \in S, m < i PROVE FALSE
    <3> HIDE DEF m
    <3> QED
      BY <2>a
  <2>1. Cardinality(S) < Cardinality(Below(S, i))
    BY <1>2, RankGrows
  <2> QED
    BY <1>1, <2>1, RankInRange
<1> HIDE DEF m
<1>4. \E x \in S : \A y \in S : x >= y
  BY <1>2, <1>3
<1> QED
  BY <1>4 DEF Max

\* A member no other exceeds is the greatest.
LEMMA MaxIs ==
    ASSUME NEW S \in SUBSET Int, NEW m \in S, \A i \in S : i <= m
    PROVE  Max(S) = m
<1>1. \A i \in S : i \in Int
  OBVIOUS
<1>2. Max(S) = CHOOSE x \in S : \A y \in S : x >= y
  BY DEF Max
<1>3. \A y \in S : m >= y
  BY <1>1
<1>4. \A x \in S : (\A y \in S : x >= y) => x = m
  <2> SUFFICES ASSUME NEW x \in S, \A y \in S : x >= y PROVE x = m
    OBVIOUS
  <2>1. x >= m /\ x <= m /\ x \in Int /\ m \in Int
    BY <1>1
  <2> QED
    BY ONLY <2>1
<1> QED
  BY <1>2, <1>3, <1>4

\* A member that exceeds no other is the least.
LEMMA MinIs ==
    ASSUME NEW S \in SUBSET Int, NEW m \in S, \A i \in S : m <= i
    PROVE  Min(S) = m
<1>1. \A i \in S : i \in Int
  OBVIOUS
<1>2. Min(S) = CHOOSE x \in S : \A y \in S : x <= y
  BY DEF Min
<1>3. \A y \in S : m <= y
  BY <1>1
<1>4. \A x \in S : (\A y \in S : x <= y) => x = m
  <2> SUFFICES ASSUME NEW x \in S, \A y \in S : x <= y PROVE x = m
    OBVIOUS
  <2>1. x <= m /\ m <= x /\ x \in Int /\ m \in Int
    BY <1>1
  <2> QED
    BY ONLY <2>1
<1> QED
  BY <1>2, <1>3, <1>4

\* The least of a finite set is a member that exceeds no other.
LEMMA MinMeans ==
    ASSUME NEW S \in SUBSET Int, IsFiniteSet(S), S # {}
    PROVE  Min(S) \in S /\ \A i \in S : Min(S) <= i
<1>1. Cardinality(S) \in Nat /\ Cardinality(S) # 0
  BY FS_CardinalityType, FS_EmptySet
<1> DEFINE m == Nth(S, 1)
<1>2. m \in S /\ Cardinality(Below(S, m)) = 1
  BY <1>1, NthMeans
<1>3. \A i \in S : m <= i
  <2>a. m \in Int /\ \A i \in S : i \in Int
    BY <1>2
  <2> SUFFICES ASSUME NEW i \in S, i < m PROVE FALSE
    <3> HIDE DEF m
    <3> QED
      BY <2>a
  <2>1. Cardinality(Below(S, i)) < 1
    BY <1>2, RankGrows
  <2> QED
    BY <1>1, <2>1, RankInRange
<1> HIDE DEF m
<1>4. Min(S) = m
  BY <1>2, <1>3, MinIs
<1> QED
  BY <1>2, <1>3, <1>4

-----------------------------------------------------------------------------
(* Buckets *)

\* Rounding down keeps the order.
LEMMA FloorGrows ==
    ASSUME NEW p \in Nat \ {0}, NEW x \in Int, NEW y \in Int, x <= y
    PROVE  (x \div p) * p \in Int /\ (y \div p) * p \in Int /\ (x \div p) * p <= (y \div p) * p
<1> DEFINE a == x \div p
           b == y \div p
<1>1. a \in Int /\ b \in Int /\ p \in Int /\ p > 0
  OBVIOUS
<1>2. x = a * p + (x % p) /\ y = b * p + (y % p)
  OBVIOUS
<1>3. x % p \in 0..(p - 1) /\ y % p \in 0..(p - 1)
  OBVIOUS
<1> DEFINE r == x % p
           s == y % p
<1>4. x = a * p + r /\ y = b * p + s /\ r \in Int /\ s \in Int /\ 0 <= r /\ s < p
  BY <1>2, <1>3
<1> HIDE DEF a, b, r, s
<1>5. a * p \in Int /\ b * p \in Int
  BY <1>1
<1>6. a <= b
  <2> SUFFICES ASSUME b + 1 <= a PROVE FALSE
    BY <1>1
  <2>1. (b + 1) * p <= a * p
    BY <1>1
  <2>2. (b + 1) * p = b * p + p
    BY <1>1
  <2> DEFINE u == a * p
             v == b * p
  <2>3. v + p <= u /\ x = u + r /\ y = v + s /\ u \in Int /\ v \in Int
    BY <2>1, <2>2, <1>4, <1>5
  <2> HIDE DEF u, v
  <2> QED
    BY <2>3, <1>4, <1>1
<1>7. a * p <= b * p
  BY <1>1, <1>6
<1> QED
  BY <1>5, <1>7 DEF a, b

\* The Monday of a later day is not earlier.
LEMMA MondayGrows ==
    ASSUME NEW d \in Int, NEW e \in Int, d <= e
    PROVE  Monday(d) \in Int /\ Monday(e) \in Int /\ Monday(d) <= Monday(e)
<1>1. Monday(d) = (d \div 7) * 7 /\ Monday(e) = (e \div 7) * 7
  BY DEF Monday
<1> QED
  BY <1>1, FloorGrows, 7 \in Nat \ {0}

\* Pairs of numbers in order.
NotAfter(p, q) == p[1] < q[1] \/ (p[1] = q[1] /\ p[2] <= q[2])

\* The bucket of a later moment is not earlier (_bucket_and_metadata), as long as the
\* moments of one day have one anchor.
LEMMA BucketGrows ==
    ASSUME SeriesAssumption, NEW t \in BarTypes, NEW d \in Int, NEW m \in Int, NEW a \in Int,
           NEW e \in Int, NEW n \in Int, NEW b \in Int,
           d < e \/ (d = e /\ m <= n /\ a = b)
    PROVE  /\ Bucket(t, d, m, a) \in Int \X Int /\ Bucket(t, e, n, b) \in Int \X Int
           /\ NotAfter(Bucket(t, d, m, a), Bucket(t, e, n, b))
<1>1. CASE t = "K_DAY"
  <2>1. Bucket(t, d, m, a) = <<d, 0>> /\ Bucket(t, e, n, b) = <<e, 0>>
    BY <1>1 DEF Bucket
  <2> QED
    BY <2>1 DEF NotAfter
<1>2. CASE t = "K_WEEK"
  <2>1. Bucket(t, d, m, a) = <<Monday(d), 0>> /\ Bucket(t, e, n, b) = <<Monday(e), 0>>
    BY <1>2 DEF Bucket
  <2>2. Monday(d) \in Int /\ Monday(e) \in Int /\ Monday(d) <= Monday(e)
    BY MondayGrows
  <2> QED
    BY <2>1, <2>2 DEF NotAfter
<1>3. CASE t # "K_DAY" /\ t # "K_WEEK"
  <2> DEFINE p == Minutes[t]
             x == a + ((m - a) \div p) * p
             y == b + ((n - b) \div p) * p
  <2>1. p \in Nat \ {0}
    BY <1>3 DEF SeriesAssumption
  <2>2. Bucket(t, d, m, a) = <<d, x>> /\ Bucket(t, e, n, b) = <<e, y>>
    BY <1>3 DEF Bucket
  <2> HIDE DEF p
  <2>3. m - a \in Int /\ n - b \in Int
    OBVIOUS
  <2>4. ((m - a) \div p) * p \in Int /\ ((n - b) \div p) * p \in Int
    BY <2>1, <2>3, FloorGrows
  <2>5. x \in Int /\ y \in Int
    <3> DEFINE u == ((m - a) \div p) * p
               v == ((n - b) \div p) * p
    <3>1. u \in Int /\ v \in Int /\ x = a + u /\ y = b + v
      BY <2>4
    <3> HIDE DEF u, v, x, y
    <3> QED
      BY <3>1
  <2>6. ASSUME d = e, m <= n, a = b PROVE x <= y
    <3>1. m - a <= n - b
      BY <2>6
    <3>2. ((m - a) \div p) * p <= ((n - b) \div p) * p
      BY <2>1, <2>3, <3>1, FloorGrows
    <3> DEFINE u == ((m - a) \div p) * p
               v == ((n - b) \div p) * p
    <3>3. u \in Int /\ v \in Int /\ x = a + u /\ y = b + v /\ u <= v
      BY <2>4, <3>2
    <3> HIDE DEF u, v, x, y
    <3> QED
      BY <3>3, <2>6
  <2> HIDE DEF x, y
  <2> QED
    BY <2>2, <2>5, <2>6 DEF NotAfter
<1> QED
  BY <1>1, <1>2, <1>3

-----------------------------------------------------------------------------
(* The driver bars *)

DriverBars == [day : Int, minute : Int, price : Nat \ {0}]

\* Driver bars come in the order of their moments.
BarsOK ==
    /\ bars \in Seq(DriverBars)
    /\ \A i \in 1..Len(bars) : bars[i].day \in Days /\ bars[i].minute # NoMinute
    /\ \A i, j \in 1..Len(bars) : i < j => Later(bars[j].day, bars[j].minute, bars[i])

\* What the parts of a driver bar are.
LEMMA BarFacts ==
    ASSUME BarsOK, NEW i \in 1..Len(bars)
    PROVE  /\ i \in Nat /\ Len(bars) \in Nat /\ bars[i] \in DriverBars
           /\ bars[i].day \in Int /\ bars[i].minute \in Int
           /\ bars[i].price \in Nat \ {0} /\ bars[i].price \in Int
<1>1. bars \in Seq(DriverBars)
  BY DEF BarsOK
<1>2. Len(bars) \in Nat /\ bars[i] \in DriverBars /\ i \in Nat
  BY <1>1
<1>3. bars[i].day \in Int /\ bars[i].minute \in Int /\ bars[i].price \in Nat \ {0}
  BY <1>2 DEF DriverBars
<1> QED
  BY <1>2, <1>3

\* The first bar of the day of a bar.
SameDay(i) == {j \in 1..i : bars[j].day = bars[i].day}

\* Every day of the driver bars has a first bar, and its minute is the day's start.
LEMMA DayStartMeans ==
    ASSUME BarsOK, NEW i \in 1..Len(bars)
    PROVE  \E f \in 1..i : /\ bars[f].day = bars[i].day /\ DayStart(i) = bars[f].minute
                           /\ \A j \in 1..(f - 1) : bars[j].day # bars[i].day
<1>1. i \in SameDay(i) /\ SameDay(i) \in SUBSET (1..i) /\ i \in Int
  BY DEF SameDay
<1>a. IsFiniteSet(1..i) /\ \A j \in 1..i : j \in Int
  BY <1>1, FS_Interval, 1 \in Int
<1>2. IsFiniteSet(SameDay(i)) /\ SameDay(i) \in SUBSET Int
  BY <1>1, <1>a, FS_Subset
<1> DEFINE f == Min(SameDay(i))
<1>3. f \in SameDay(i) /\ \A j \in SameDay(i) : f <= j
  BY <1>1, <1>2, MinMeans
<1>4. DayStart(i) = bars[f].minute
  BY DEF DayStart, SameDay
<1> HIDE DEF f
<1>5. f \in 1..i /\ bars[f].day = bars[i].day
  BY <1>3 DEF SameDay
<1>6. \A j \in 1..(f - 1) : bars[j].day # bars[i].day
  <2> SUFFICES ASSUME NEW j \in 1..(f - 1), bars[j].day = bars[i].day PROVE FALSE
    OBVIOUS
  <2>1. j \in 1..i /\ j < f /\ j \in Int /\ f \in Int
    BY <1>1, <1>5
  <2>2. f <= j
    BY <1>3, <2>1 DEF SameDay
  <2> QED
    BY ONLY <2>1, <2>2
<1> QED
  BY <1>4, <1>5, <1>6

\* Bars of one day have one start.
LEMMA OneDayStart ==
    ASSUME BarsOK, NEW i \in 1..Len(bars), NEW j \in 1..Len(bars), bars[i].day = bars[j].day
    PROVE  DayStart(i) = DayStart(j) /\ DayStart(i) \in Int
<1>1. PICK f \in 1..i : /\ bars[f].day = bars[i].day /\ DayStart(i) = bars[f].minute
                        /\ \A k \in 1..(f - 1) : bars[k].day # bars[i].day
  BY DayStartMeans
<1>2. PICK g \in 1..j : /\ bars[g].day = bars[j].day /\ DayStart(j) = bars[g].minute
                        /\ \A k \in 1..(g - 1) : bars[k].day # bars[j].day
  BY DayStartMeans
<1>3. f \in Int /\ g \in Int /\ 1 <= f /\ 1 <= g
  OBVIOUS
<1>4. ~(f < g) /\ ~(g < f)
  <2>1. f < g => f \in 1..(g - 1)
    BY <1>3
  <2>2. g < f => g \in 1..(f - 1)
    BY <1>3
  <2> QED
    BY <1>1, <1>2, <2>1, <2>2
<1>5. f = g
  BY <1>3, <1>4
<1>6. f \in 1..Len(bars)
  BY <1>1, BarFacts
<1> QED
  BY <1>1, <1>2, <1>5, <1>6, BarFacts

\* The buckets of the driver bars come in the order of the bars.
LEMMA BucketsGrow ==
    ASSUME SeriesAssumption, BarsOK, NEW t \in BarTypes,
           NEW i \in 1..Len(bars), NEW j \in 1..Len(bars), i <= j
    PROVE  /\ BucketOf(t, i) \in Int \X Int /\ BucketOf(t, j) \in Int \X Int
           /\ NotAfter(BucketOf(t, i), BucketOf(t, j))
<1> DEFINE d == bars[i].day
           m == bars[i].minute
           e == bars[j].day
           n == bars[j].minute
           a == DayStart(i)
           b == DayStart(j)
<1>1. d \in Int /\ m \in Int /\ e \in Int /\ n \in Int
  BY BarFacts
<1>2. a \in Int /\ b \in Int /\ (d = e => a = b)
  BY OneDayStart
<1>3. d < e \/ (d = e /\ m <= n)
  <2>1. CASE i = j
    BY <1>1, <2>1
  <2>2. CASE i < j
    <3>1. Later(e, n, bars[i])
      BY <2>2 DEF BarsOK
    <3>2. e > d \/ (e = d /\ n > m)
      BY <3>1 DEF Later
    <3> HIDE DEF d, m, e, n
    <3> QED
      BY <1>1, <3>2
  <2>3. i \in Int /\ j \in Int
    OBVIOUS
  <2> QED
    BY <2>1, <2>2, <2>3
<1>4. BucketOf(t, i) = Bucket(t, d, m, a) /\ BucketOf(t, j) = Bucket(t, e, n, b)
  BY DEF BucketOf
<1> HIDE DEF d, m, e, n, a, b
<1> QED
  BY <1>1, <1>2, <1>3, <1>4, BucketGrows

\* Bars of one bucket are next to each other.
LEMMA BucketsAreRuns ==
    ASSUME SeriesAssumption, BarsOK, NEW t \in BarTypes,
           NEW i \in 1..Len(bars), NEW j \in 1..Len(bars), NEW k \in 1..Len(bars),
           i <= j, j <= k, BucketOf(t, i) = BucketOf(t, k)
    PROVE  BucketOf(t, j) = BucketOf(t, i)
<1> DEFINE p == BucketOf(t, i)
           q == BucketOf(t, j)
<1>1. p \in Int \X Int /\ q \in Int \X Int /\ NotAfter(p, q)
  BY BucketsGrow
<1>2. NotAfter(q, BucketOf(t, k))
  BY BucketsGrow
<1>3. NotAfter(q, p)
  BY <1>2
<1> HIDE DEF p, q
<1>4. p = <<p[1], p[2]>> /\ q = <<q[1], q[2]>> /\ p[1] \in Int /\ p[2] \in Int /\ q[1] \in Int /\ q[2] \in Int
  BY <1>1
<1>5. p[1] = q[1] /\ p[2] = q[2]
  BY <1>1, <1>3, <1>4 DEF NotAfter
<1>6. p = q
  BY <1>4, <1>5
<1> QED
  BY <1>6 DEF p, q

-----------------------------------------------------------------------------
(* Aggregation *)

\* The bars that open a bucket are finitely many numbers.
LEMMA OpenersType ==
    ASSUME NEW t, NEW n \in Nat
    PROVE  /\ Openers(t, n) \in SUBSET (1..n) /\ Openers(t, n) \in SUBSET Int
           /\ IsFiniteSet(Openers(t, n)) /\ Cardinality(Openers(t, n)) \in Nat
<1>1. Openers(t, n) \in SUBSET (1..n)
  BY DEF Openers
<1>2. IsFiniteSet(1..n) /\ \A i \in 1..n : i \in Int
  BY FS_Interval, 1 \in Int
<1>3. IsFiniteSet(Openers(t, n))
  BY <1>1, <1>2, FS_Subset
<1>4. Cardinality(Openers(t, n)) \in Nat
  BY <1>3, FS_CardinalityType
<1> QED
  BY <1>1, <1>2, <1>3, <1>4

\* Every bucket is opened.
LEMMA EveryBucketOpens ==
    ASSUME NEW t, NEW n \in Nat, NEW i \in 1..n
    PROVE  \E f \in Openers(t, n) : f <= i /\ BucketOf(t, f) = BucketOf(t, i)
<1> DEFINE T == {j \in 1..i : BucketOf(t, j) = BucketOf(t, i)}
<1>1. i \in T /\ T \in SUBSET Nat
  OBVIOUS
<1>2. PICK f \in T : \A j \in T : f <= j
  BY <1>1, LeastNatural
<1>3. f \in 1..n /\ f <= i /\ BucketOf(t, f) = BucketOf(t, i)
  BY <1>2
<1>4. ASSUME NEW j \in 1..(f - 1) PROVE BucketOf(t, j) # BucketOf(t, f)
  <2>1. j \in 1..i /\ j < f /\ j \in Int /\ f \in Int
    BY <1>3
  <2>2. ~(f <= j)
    BY ONLY <2>1
  <2> QED
    BY <1>2, <1>3, <2>1, <2>2
<1>5. f \in Openers(t, n)
  BY <1>3, <1>4 DEF Openers
<1> QED
  BY <1>3, <1>5

\* Each only once.
LEMMA BucketOpensOnce ==
    ASSUME NEW t, NEW n \in Nat, NEW i \in Openers(t, n), NEW j \in Openers(t, n),
           BucketOf(t, i) = BucketOf(t, j)
    PROVE  i = j
<1>1. i \in 1..n /\ j \in 1..n /\ i \in Int /\ j \in Int
  BY DEF Openers
<1>2. ~(i < j)
  <2>1. i < j => i \in 1..(j - 1)
    BY <1>1
  <2> QED
    BY <2>1 DEF Openers
<1>3. ~(j < i)
  <2>1. j < i => j \in 1..(i - 1)
    BY <1>1
  <2> QED
    BY <2>1 DEF Openers
<1> QED
  BY <1>1, <1>2, <1>3

\* The bucket of the last bar is the last one.
LEMMA LastOpener ==
    ASSUME SeriesAssumption, BarsOK, NEW t \in BarTypes, NEW n \in 1..Len(bars)
    PROVE  \E m \in Openers(t, n) : /\ BucketOf(t, m) = BucketOf(t, n)
                                    /\ \A i \in Openers(t, n) : i <= m
<1>0. n \in Nat /\ n \in 1..n
  OBVIOUS
<1>1. PICK m \in Openers(t, n) : m <= n /\ BucketOf(t, m) = BucketOf(t, n)
  BY <1>0, EveryBucketOpens
<1>2. ASSUME NEW i \in Openers(t, n), ~(i <= m) PROVE FALSE
  <2>1. i \in 1..n /\ m \in 1..n
    BY DEF Openers
  <2>2. m <= i /\ i <= n /\ i # m
    BY <2>1, <1>2
  <2>3. i \in 1..Len(bars) /\ m \in 1..Len(bars)
    BY <2>1, BarFacts
  <2>4. BucketOf(t, i) = BucketOf(t, m)
    BY <1>1, <2>2, <2>3, BucketsAreRuns
  <2> QED
    BY <1>0, <2>2, <2>4, BucketOpensOnce
<1> QED
  BY <1>1, <1>2

\* A bar in a bucket that is there opens none.
LEMMA OpenersStay ==
    ASSUME NEW t, NEW n \in Nat, NEW j \in 1..n, BucketOf(t, j) = BucketOf(t, n + 1)
    PROVE  Openers(t, n + 1) = Openers(t, n)
<1>1. \A i \in 1..(n + 1) : i \in 1..n \/ i = n + 1
  OBVIOUS
<1>2. j \in 1..((n + 1) - 1)
  OBVIOUS
<1>3. n + 1 \notin Openers(t, n + 1)
  BY <1>2 DEF Openers
<1>4. Openers(t, n) \subseteq Openers(t, n + 1)
  BY DEF Openers
<1>5. \A i \in Openers(t, n + 1) : i \in 1..n => i \in Openers(t, n)
  BY DEF Openers
<1>6. Openers(t, n + 1) \subseteq 1..(n + 1)
  BY DEF Openers
<1> QED
  BY <1>1, <1>3, <1>4, <1>5, <1>6

\* A bar in a bucket of its own opens it.
LEMMA OpenersGrow ==
    ASSUME NEW t, NEW n \in Nat, \A j \in 1..n : BucketOf(t, j) # BucketOf(t, n + 1)
    PROVE  Openers(t, n + 1) = Openers(t, n) \cup {n + 1}
<1>1. \A i \in 1..(n + 1) : i \in 1..n \/ i = n + 1
  OBVIOUS
<1>2. (n + 1) - 1 = n
  OBVIOUS
<1>3. n + 1 \in Openers(t, n + 1)
  BY <1>2 DEF Openers
<1>4. Openers(t, n) \subseteq Openers(t, n + 1)
  BY DEF Openers
<1>5. \A i \in Openers(t, n + 1) : i \in 1..n => i \in Openers(t, n)
  BY DEF Openers
<1>6. Openers(t, n + 1) \subseteq 1..(n + 1)
  BY DEF Openers
<1> QED
  BY <1>1, <1>3, <1>4, <1>5, <1>6

\* The bars of a bucket.
PricesOf(M) == {bars[j].price : j \in M}

\* The bars of a bucket, the one that opens it among them, are finitely many.
LEMMA MembersType ==
    ASSUME BarsOK, NEW t, NEW n \in 0..Len(bars), NEW i \in 1..n
    PROVE  /\ i \in Members(t, n, i) /\ Members(t, n, i) \in SUBSET (1..n)
           /\ Members(t, n, i) \in SUBSET Int
           /\ IsFiniteSet(Members(t, n, i)) /\ Cardinality(Members(t, n, i)) \in Nat
<1>1. i \in Members(t, n, i) /\ Members(t, n, i) \in SUBSET (1..n)
  BY DEF Members
<1>2. n \in Int
  BY DEF BarsOK
<1>3. IsFiniteSet(1..n) /\ \A j \in 1..n : j \in Int
  BY <1>2, FS_Interval, 1 \in Int
<1>4. IsFiniteSet(Members(t, n, i))
  BY <1>1, <1>3, FS_Subset
<1> QED
  BY <1>1, <1>3, <1>4, FS_CardinalityType

\* Some bars have a highest and a lowest price.
LEMMA PricesType ==
    ASSUME BarsOK, NEW M \in SUBSET (1..Len(bars)), IsFiniteSet(M), M # {}
    PROVE  /\ PricesOf(M) \in SUBSET Int /\ IsFiniteSet(PricesOf(M)) /\ PricesOf(M) # {}
           /\ Max(PricesOf(M)) \in Int /\ Min(PricesOf(M)) \in Int
<1> DEFINE f == [j \in M |-> bars[j].price]
<1>1. f \in Surjection(M, PricesOf(M))
  BY DEF PricesOf, Surjection
<1>2. IsFiniteSet(PricesOf(M))
  BY <1>1, FS_Surjection
<1>3. \A j \in M : bars[j].price \in Int
  BY BarFacts
<1>4. PricesOf(M) \in SUBSET Int /\ PricesOf(M) # {}
  BY <1>3 DEF PricesOf
<1> QED
  BY <1>2, <1>4, MaxMeans, MinMeans

\* A merged bar, with the names of its parts.
LEMMA MergedIs ==
    ASSUME NEW t, NEW n, NEW i
    PROVE  Merged(t, n, i) =
             [at |-> BucketOf(t, i), open |-> bars[i].price,
              high |-> Max(PricesOf(Members(t, n, i))), low |-> Min(PricesOf(Members(t, n, i))),
              close |-> bars[Max(Members(t, n, i))].price,
              volume |-> Cardinality(Members(t, n, i)),
              last |-> IF i = 1 THEN 0 ELSE bars[i - 1].price]
BY DEF Merged, PricesOf

MergedBars == [at : Int \X Int, open : Int, high : Int, low : Int, close : Int,
               volume : Int, last : Int]

\* Merging the bars of a bucket makes an aggregated bar.
LEMMA MergedType ==
    ASSUME SeriesAssumption, BarsOK, NEW t \in BarTypes, NEW n \in 0..Len(bars), NEW i \in 1..n
    PROVE  Merged(t, n, i) \in MergedBars
<1>0. n \in Int /\ Len(bars) \in Nat /\ i \in 1..Len(bars)
  BY DEF BarsOK
<1>1. BucketOf(t, i) \in Int \X Int
  BY <1>0, BucketsGrow
<1>2. bars[i].price \in Int
  BY <1>0, BarFacts
<1> DEFINE M == Members(t, n, i)
<1>3. M \in SUBSET (1..n) /\ IsFiniteSet(M) /\ M # {} /\ Cardinality(M) \in Nat /\ M \in SUBSET Int
  BY MembersType
<1> HIDE DEF M
<1>4. M \in SUBSET (1..Len(bars))
  BY <1>0, <1>3
<1>5. Max(PricesOf(M)) \in Int /\ Min(PricesOf(M)) \in Int
  BY <1>3, <1>4, PricesType
<1>6. Max(M) \in 1..Len(bars)
  BY <1>3, <1>4, MaxMeans
<1>7. bars[Max(M)].price \in Int
  BY <1>6, BarFacts
<1>8. (IF i = 1 THEN 0 ELSE bars[i - 1].price) \in Int
  <2>1. CASE i = 1
    BY <2>1
  <2>2. CASE i # 1
    <3>1. i - 1 \in 1..Len(bars)
      BY <1>0, <2>2
    <3> QED
      BY <3>1, <2>2, BarFacts
  <2> QED
    BY <2>1, <2>2
<1> DEFINE last == IF i = 1 THEN 0 ELSE bars[i - 1].price
<1>9. Merged(t, n, i) =
        [at |-> BucketOf(t, i), open |-> bars[i].price, high |-> Max(PricesOf(M)),
         low |-> Min(PricesOf(M)), close |-> bars[Max(M)].price, volume |-> Cardinality(M),
         last |-> last]
  BY MergedIs DEF M
<1>10. last \in Int /\ Cardinality(M) \in Int
  BY <1>8, <1>3
<1> HIDE DEF last
<1> QED
  BY <1>1, <1>2, <1>5, <1>7, <1>9, <1>10 DEF MergedBars

\* The next bar, in a bucket that is there.
LEMMA MergedExtends ==
    ASSUME SeriesAssumption, BarsOK, NEW t \in BarTypes, NEW n \in 1..Len(bars),
           n + 1 \in 1..Len(bars), NEW i \in 1..n, BucketOf(t, n + 1) = BucketOf(t, i)
    PROVE  Merged(t, n + 1, i) = Extended(Merged(t, n, i), bars[n + 1])
<1> DEFINE M == Members(t, n, i)
           N == Members(t, n + 1, i)
           P == PricesOf(M)
           p == bars[n + 1].price
<1>0. n \in Nat /\ Len(bars) \in Nat /\ i \in 1..(n + 1) /\ n + 1 \in 0..Len(bars) /\ n \in 0..Len(bars)
  BY BarFacts
<1>1. /\ i \in M /\ M \in SUBSET (1..n) /\ M \in SUBSET Int
      /\ IsFiniteSet(M) /\ Cardinality(M) \in Nat
  BY <1>0, MembersType
<1>2. N = M \cup {n + 1}
  <2>1. 1..(n + 1) = (1..n) \cup {n + 1}
    BY <1>0
  <2> QED
    BY <2>1 DEF Members
<1>3. p \in Int
  BY BarFacts
<1> HIDE DEF M, N
<1>4. M # {} /\ M \in SUBSET (1..Len(bars)) /\ N \in SUBSET (1..Len(bars))
  BY <1>0, <1>1, <1>2
<1>5. P \in SUBSET Int /\ IsFiniteSet(P) /\ P # {} /\ Max(P) \in Int /\ Min(P) \in Int
  BY <1>1, <1>4, PricesType
<1>6. PricesOf(N) = P \cup {p}
  BY <1>2 DEF PricesOf
<1>7. \A j \in N : j \in Int /\ j <= n + 1
  BY <1>0, <1>1, <1>2
<1>8. N \in SUBSET Int /\ n + 1 \in N
  BY <1>7, <1>2
<1>9. Max(N) = n + 1
  BY <1>7, <1>8, MaxIs
<1>10. Cardinality(N) = Cardinality(M) + 1
  <2>1. n + 1 \notin M
    BY <1>0, <1>1
  <2> QED
    BY <1>1, <1>2, <2>1, FS_AddElement
<1> HIDE DEF P, p
<1>11. Max(P \cup {p}) = Max({Max(P), p})
  <2>1. Max(P) \in P /\ \A x \in P : x \in Int /\ x <= Max(P)
    BY <1>5, MaxMeans
  <2>2. {Max(P), p} \in SUBSET Int /\ P \cup {p} \in SUBSET Int
    BY <1>3, <1>5
  <2>3. CASE Max(P) <= p
    <3>1. \A x \in P \cup {p} : x <= p
      BY <1>3, <1>5, <2>1, <2>3
    <3>2. \A x \in {Max(P), p} : x <= p
      BY <1>3, <2>3
    <3> QED
      BY <2>2, <3>1, <3>2, MaxIs
  <2>4. CASE p <= Max(P)
    <3>1. \A x \in P \cup {p} : x <= Max(P)
      BY <2>1, <2>4
    <3>2. \A x \in {Max(P), p} : x <= Max(P)
      BY <1>5, <2>4
    <3>3. Max(P) \in P \cup {p}
      BY <2>1
    <3>4. Max(P \cup {p}) = Max(P)
      BY <2>2, <3>1, <3>3, MaxIs
    <3>5. Max({Max(P), p}) = Max(P)
      BY <2>2, <3>2, MaxIs
    <3> QED
      BY <3>4, <3>5
  <2> QED
    BY <1>3, <1>5, <2>3, <2>4
<1>12. Min(P \cup {p}) = Min({Min(P), p})
  <2>1. Min(P) \in P /\ \A x \in P : x \in Int /\ Min(P) <= x
    BY <1>5, MinMeans
  <2>2. {Min(P), p} \in SUBSET Int /\ P \cup {p} \in SUBSET Int
    BY <1>3, <1>5
  <2>3. CASE p <= Min(P)
    <3>1. \A x \in P \cup {p} : p <= x
      BY <1>3, <1>5, <2>1, <2>3
    <3>2. \A x \in {Min(P), p} : p <= x
      BY <1>3, <2>3
    <3> QED
      BY <2>2, <3>1, <3>2, MinIs
  <2>4. CASE Min(P) <= p
    <3>1. \A x \in P \cup {p} : Min(P) <= x
      BY <2>1, <2>4
    <3>2. \A x \in {Min(P), p} : Min(P) <= x
      BY <1>5, <2>4
    <3>3. Min(P) \in P \cup {p}
      BY <2>1
    <3>4. Min(P \cup {p}) = Min(P)
      BY <2>2, <3>1, <3>3, MinIs
    <3>5. Min({Min(P), p}) = Min(P)
      BY <2>2, <3>2, MinIs
    <3> QED
      BY <3>4, <3>5
  <2> QED
    BY <1>3, <1>5, <2>3, <2>4
<1> DEFINE last == IF i = 1 THEN 0 ELSE bars[i - 1].price
<1>13. Merged(t, n, i) =
        [at |-> BucketOf(t, i), open |-> bars[i].price, high |-> Max(P), low |-> Min(P),
         close |-> bars[Max(M)].price, volume |-> Cardinality(M), last |-> last]
  BY MergedIs DEF M, P
<1>14. Merged(t, n + 1, i) =
        [at |-> BucketOf(t, i), open |-> bars[i].price, high |-> Max({Max(P), p}),
         low |-> Min({Min(P), p}), close |-> p, volume |-> Cardinality(M) + 1, last |-> last]
  <2>1. Merged(t, n + 1, i) =
        [at |-> BucketOf(t, i), open |-> bars[i].price, high |-> Max(PricesOf(N)),
         low |-> Min(PricesOf(N)), close |-> bars[Max(N)].price, volume |-> Cardinality(N),
         last |-> last]
    BY MergedIs DEF N
  <2>2. bars[Max(N)].price = p
    BY <1>9 DEF p
  <2> HIDE DEF last
  <2> QED
    BY ONLY <2>1, <2>2, <1>6, <1>10, <1>11, <1>12
<1> HIDE DEF last
<1>15. Extended(Merged(t, n, i), bars[n + 1]) =
        [at |-> BucketOf(t, i), open |-> bars[i].price, high |-> Max({Max(P), p}),
         low |-> Min({Min(P), p}), close |-> p, volume |-> Cardinality(M) + 1, last |-> last]
  BY <1>13 DEF Extended, p
<1> QED
  BY ONLY <1>14, <1>15

\* The next bar, in a bucket of its own.
LEMMA MergedOpens ==
    ASSUME BarsOK, NEW t, NEW n \in Nat, n + 1 \in 1..Len(bars),
           \A j \in 1..n : BucketOf(t, j) # BucketOf(t, n + 1)
    PROVE  Merged(t, n + 1, n + 1) =
             Opened(BucketOf(t, n + 1), bars[n + 1], IF n = 0 THEN 0 ELSE bars[n].price)
<1> DEFINE i == n + 1
           p == bars[i].price
<1>1. Members(t, i, i) = {i}
  <2>1. \A j \in 1..i : j \in 1..n \/ j = i
    OBVIOUS
  <2>2. i \in 1..i
    OBVIOUS
  <2> HIDE DEF i
  <2>3. \A j \in 1..i : BucketOf(t, j) = BucketOf(t, i) => j = i
    BY <2>1 DEF i
  <2> QED
    BY <2>2, <2>3 DEF Members
<1>2. p \in Int /\ i \in Int
  BY BarFacts
<1>3. PricesOf({i}) = {p}
  BY DEF PricesOf
<1>a. i - 1 = n /\ (i = 1 <=> n = 0)
  OBVIOUS
<1> HIDE DEF p, i
<1>4. {p} \in SUBSET Int /\ {i} \in SUBSET Int /\ p <= p /\ i <= i
  BY <1>2
<1>5. Max({p}) = p /\ Min({p}) = p /\ Max({i}) = i
  BY <1>4, MaxIs, MinIs
<1>6. Cardinality({i}) = 1
  BY FS_Singleton
<1> DEFINE before == IF n = 0 THEN 0 ELSE bars[n].price
<1>7. Merged(t, i, i) =
        [at |-> BucketOf(t, i), open |-> p, high |-> p, low |-> p, close |-> p, volume |-> 1,
         last |-> before]
  <2>1. (IF i = 1 THEN 0 ELSE bars[i - 1].price) = before
    BY <1>a
  <2>2. bars[i].price = p
    BY DEF p
  <2>3. Merged(t, i, i) =
        [at |-> BucketOf(t, i), open |-> bars[i].price,
              high |-> Max(PricesOf({i})), low |-> Min(PricesOf({i})),
              close |-> bars[Max({i})].price,
              volume |-> Cardinality({i}),
              last |-> IF i = 1 THEN 0 ELSE bars[i - 1].price]
    BY <1>1, MergedIs
  <2> HIDE DEF before
  <2> QED
    BY <2>1, <2>2, <2>3, <1>3, <1>5, <1>6
<1>8. Opened(BucketOf(t, i), bars[i], before) =
        [at |-> BucketOf(t, i), open |-> p, high |-> p, low |-> p, close |-> p, volume |-> 1,
         last |-> before]
  BY DEF Opened, p
<1> QED
  BY <1>7, <1>8 DEF i

\* A bar of another bucket changes nothing.
LEMMA MergedStays ==
    ASSUME NEW t, NEW n \in Nat, NEW i, BucketOf(t, n + 1) # BucketOf(t, i)
    PROVE  Merged(t, n + 1, i) = Merged(t, n, i)
<1>1. 1..(n + 1) = (1..n) \cup {n + 1}
  OBVIOUS
<1>2. Members(t, n + 1, i) = Members(t, n, i)
  BY <1>1 DEF Members
<1> QED
  BY <1>2, MergedIs

\* The aggregation of the first n driver bars has one bar for each bucket.
LEMMA AggregateType ==
    ASSUME SeriesAssumption, BarsOK, NEW t \in BarTypes, NEW n \in 0..Len(bars)
    PROVE  /\ Aggregate(t, n) \in Seq(MergedBars)
           /\ Len(Aggregate(t, n)) = Cardinality(Openers(t, n))
           /\ \A k \in 1..Len(Aggregate(t, n)) :
                 /\ Nth(Openers(t, n), k) \in Openers(t, n) /\ Nth(Openers(t, n), k) \in 1..n
                 /\ Aggregate(t, n)[k] = Merged(t, n, Nth(Openers(t, n), k))
<1>0. n \in Nat
  BY DEF BarsOK
<1> DEFINE O == Openers(t, n)
           c == Cardinality(O)
           s == Aggregate(t, n)
<1>1. O \in SUBSET (1..n) /\ O \in SUBSET Int /\ IsFiniteSet(O) /\ c \in Nat
  BY <1>0, OpenersType
<1>2. s = [k \in 1..c |-> Merged(t, n, Nth(O, k))]
  BY DEF Aggregate
<1>3. \A k \in 1..c : Nth(O, k) \in O
  BY <1>1, NthMeans
<1>4. \A k \in 1..c : Merged(t, n, Nth(O, k)) \in MergedBars
  BY <1>1, <1>3, MergedType
<1> HIDE DEF O, c, s
<1>5. s \in [1..c -> MergedBars]
  BY <1>2, <1>4
<1>6. s \in Seq(MergedBars) /\ Len(s) = c
  BY <1>1, <1>5
<1>7. \A k \in 1..c : s[k] = Merged(t, n, Nth(O, k))
  BY <1>2
<1>8. \A k \in 1..c : Nth(O, k) \in 1..n
  BY <1>1, <1>3
<1> QED
  BY <1>3, <1>6, <1>7, <1>8 DEF O, c, s

\* Only no bars aggregate to none.
LEMMA AggregateEmpty ==
    ASSUME SeriesAssumption, BarsOK, NEW t \in BarTypes, NEW n \in 0..Len(bars)
    PROVE  Aggregate(t, n) = <<>> <=> n = 0
<1>0. n \in Nat
  BY DEF BarsOK
<1>1. Aggregate(t, n) \in Seq(MergedBars) /\ Len(Aggregate(t, n)) = Cardinality(Openers(t, n))
  BY AggregateType
<1>2. Aggregate(t, n) = <<>> <=> Cardinality(Openers(t, n)) = 0
  BY <1>1
<1>3. Cardinality(Openers(t, n)) = 0 <=> Openers(t, n) = {}
  BY <1>0, OpenersType, FS_EmptySet
<1>4. n # 0 => Openers(t, n) # {}
  <2>1. n # 0 => n \in 1..n
    BY <1>0
  <2> QED
    BY <1>0, <2>1, EveryBucketOpens
<1>5. n = 0 => Openers(t, n) = {}
  <2>1. n = 0 => 1..n = {}
    BY <1>0
  <2> QED
    BY <2>1, <1>0, OpenersType
<1> QED
  BY <1>2, <1>3, <1>4, <1>5

\* The last aggregated bar is the one of the last driver bar's bucket, and closes at
\* its price.
LEMMA AggregateLast ==
    ASSUME SeriesAssumption, BarsOK, NEW t \in BarTypes, NEW n \in 1..Len(bars)
    PROVE  \E m \in Openers(t, n) :
              /\ BucketOf(t, m) = BucketOf(t, n) /\ m = Nth(Openers(t, n), Cardinality(Openers(t, n)))
              /\ \A i \in Openers(t, n) : i <= m
              /\ Last(Aggregate(t, n)) = Merged(t, n, m)
              /\ Last(Aggregate(t, n)).at = BucketOf(t, n)
              /\ Last(Aggregate(t, n)).close = bars[n].price
<1>0. n \in Nat /\ Len(bars) \in Nat /\ n \in 0..Len(bars)
  BY BarFacts
<1> DEFINE O == Openers(t, n)
           c == Cardinality(O)
           s == Aggregate(t, n)
<1>1. O \in SUBSET (1..n) /\ O \in SUBSET Int /\ IsFiniteSet(O) /\ c \in Nat
  BY <1>0, OpenersType
<1>2. PICK m \in O : BucketOf(t, m) = BucketOf(t, n) /\ \A i \in O : i <= m
  BY LastOpener
<1>3. Nth(O, c) = m
  BY <1>1, <1>2, NthLast
<1>4. s # <<>> /\ s \in Seq(MergedBars) /\ Len(s) = c
  BY <1>0, AggregateEmpty, AggregateType
<1>5. c \in 1..Len(s)
  BY <1>1, <1>4
<1>6. s[c] = Merged(t, n, m)
  BY <1>0, <1>3, <1>5, AggregateType
<1>7. Last(s) = Merged(t, n, m)
  BY <1>4, <1>6 DEF Last
<1>8. Merged(t, n, m).at = BucketOf(t, m) /\ Merged(t, n, m).close = bars[Max(Members(t, n, m))].price
  BY MergedIs
<1>9. Max(Members(t, n, m)) = n
  <2>1. n \in Members(t, n, m)
    BY <1>0, <1>2 DEF Members
  <2>2. m \in 1..n
    BY <1>1
  <2>3. Members(t, n, m) \in SUBSET Int /\ Members(t, n, m) \in SUBSET (1..n)
    BY <1>0, <2>2, MembersType
  <2>4. \A i \in Members(t, n, m) : i <= n
    BY <2>3
  <2> QED
    BY <2>1, <2>3, <2>4, MaxIs
<1> QED
  BY <1>2, <1>3, <1>7, <1>8, <1>9

\* The aggregation of one more bar is what _append makes of that of the bars before.
LEMMA AggregateStep ==
    ASSUME SeriesAssumption, BarsOK, NEW t \in BarTypes, NEW n \in Nat, n + 1 \in 1..Len(bars)
    PROVE  LET s == Aggregate(t, n)
               bucket == BucketOf(t, n + 1)
           IN Aggregate(t, n + 1) =
                IF s # <<>> /\ Last(s).at = bucket
                THEN Front(s) \o <<Extended(Last(s), bars[n + 1])>>
                ELSE Append(s, Opened(bucket, bars[n + 1], IF s = <<>> THEN 0 ELSE Last(s).close))
<1> DEFINE s == Aggregate(t, n)
           r == Aggregate(t, n + 1)
           O == Openers(t, n)
           c == Cardinality(O)
           bucket == BucketOf(t, n + 1)
<1>0. n \in 0..Len(bars) /\ n + 1 \in 0..Len(bars) /\ Len(bars) \in Nat /\ n + 1 \in Nat
  BY BarFacts
<1>1. O \in SUBSET (1..n) /\ O \in SUBSET Int /\ IsFiniteSet(O) /\ c \in Nat
  BY <1>0, OpenersType
<1>2. s \in Seq(MergedBars) /\ Len(s) = c /\ \A k \in 1..c : s[k] = Merged(t, n, Nth(O, k)) /\ Nth(O, k) \in O
  BY <1>0, AggregateType
<1>3. /\ r \in Seq(MergedBars) /\ Len(r) = Cardinality(Openers(t, n + 1))
      /\ \A k \in 1..Len(r) : r[k] = Merged(t, n + 1, Nth(Openers(t, n + 1), k))
  BY <1>0, AggregateType
<1>4. s = <<>> <=> n = 0
  BY <1>0, AggregateEmpty
<1>5. CASE s # <<>> /\ Last(s).at = bucket
  <2>0. n \in 1..Len(bars)
    BY <1>0, <1>4, <1>5
  <2>1. PICK m \in O : /\ BucketOf(t, m) = BucketOf(t, n) /\ m = Nth(O, c)
                       /\ \A i \in O : i <= m
                       /\ Last(s) = Merged(t, n, m) /\ Last(s).at = BucketOf(t, n)
    BY <2>0, AggregateLast
  <2>2. bucket = BucketOf(t, n) /\ n \in 1..n
    BY <2>1, <1>5, <2>0
  <2>3. Openers(t, n + 1) = O
    BY <2>2, OpenersStay
  <2>4. Merged(t, n + 1, m) = Extended(Merged(t, n, m), bars[n + 1])
    <3>1. m \in 1..n
      BY <1>1
    <3> QED
      BY <2>0, <2>1, <2>2, <3>1, MergedExtends
  <2>5. \A i \in O : i # m => Merged(t, n + 1, i) = Merged(t, n, i)
    <3>1. \A i \in O : i # m => BucketOf(t, i) # BucketOf(t, m)
      BY BucketOpensOnce
    <3>2. \A i \in O : i # m => BucketOf(t, n + 1) # BucketOf(t, i)
      BY <3>1, <2>1, <2>2
    <3> QED
      BY <3>2, MergedStays
  <2>6. c \in Nat \ {0}
    BY <1>1, <1>2, <1>5
  <2>7. \A k \in 1..c : k # c => Nth(O, k) # m
    <3> SUFFICES ASSUME NEW k \in 1..c, k # c PROVE Nth(O, k) # m
      OBVIOUS
    <3>1. k < c /\ c \in 1..c
      BY <2>6
    <3>2. Nth(O, k) < Nth(O, c)
      BY <1>1, <3>1, NthGrows
    <3>3. Nth(O, k) \in Int /\ m \in Int
      BY <1>1, <1>2, <2>1
    <3> QED
      BY <3>2, <3>3, <2>1
  <2> DEFINE x == Extended(Last(s), bars[n + 1])
  <2>8. Len(r) = c /\ r[c] = x /\ \A k \in 1..(c - 1) : r[k] = s[k]
    <3>1. Len(r) = c
      BY <1>3, <2>3
    <3>2. c \in 1..c /\ \A k \in 1..(c - 1) : k \in 1..c /\ k # c
      BY <2>6
    <3>3. r[c] = x
      BY <1>3, <2>1, <2>3, <2>4, <3>1, <3>2
    <3>4. \A k \in 1..(c - 1) : r[k] = s[k]
      <4> SUFFICES ASSUME NEW k \in 1..(c - 1) PROVE r[k] = s[k]
        OBVIOUS
      <4>1. k \in 1..c /\ Nth(O, k) # m /\ Nth(O, k) \in O
        BY <1>2, <2>7, <3>2
      <4>2. r[k] = Merged(t, n + 1, Nth(O, k))
        BY <1>3, <2>3, <3>1, <4>1
      <4> QED
        BY <1>2, <2>5, <4>1, <4>2
    <3> QED
      BY <3>1, <3>3, <3>4
  <2>9. x \in MergedBars
    <3>1. c \in 1..Len(r)
      BY <2>6, <2>8
    <3>2. r[c] \in MergedBars
      BY <1>3, <3>1, ElementOfSeq
    <3> QED
      BY <3>2, <2>8
  <2> HIDE DEF r, s, x, O, c, bucket
  <2>10. r = Front(s) \o <<x>>
    <3>1. Front(s) = SubSeq(s, 1, c - 1)
      BY <1>2 DEF Front
    <3>2. Front(s) \in Seq(MergedBars) /\ Len(Front(s)) = c - 1 /\ \A k \in 1..(c - 1) : Front(s)[k] = s[k]
      <4>1. c - 1 \in Nat /\ c - 1 <= Len(s)
        BY <2>6, <1>2
      <4> QED
        BY <1>2, <3>1, <4>1
    <3>3. <<x>> \in Seq(MergedBars) /\ Len(<<x>>) = 1 /\ <<x>>[1] = x
      BY <2>9
    <3> DEFINE f == Front(s)
               y == <<x>>
    <3> HIDE DEF f, y
    <3>4. /\ f \o y \in Seq(MergedBars) /\ Len(f \o y) = Len(f) + Len(y)
          /\ \A i \in 1..(Len(f) + Len(y)) : (f \o y)[i] = IF i <= Len(f) THEN f[i] ELSE y[i - Len(f)]
      BY <3>2, <3>3, ConcatProperties DEF f, y
    <3>5. Len(f) = c - 1 /\ Len(y) = 1 /\ y[1] = x /\ \A k \in 1..(c - 1) : f[k] = s[k]
      BY <3>2, <3>3 DEF f, y
    <3>6. Len(f \o y) = c
      BY <3>4, <3>5, <2>6
    <3>7. \A i \in 1..c : (f \o y)[i] = r[i]
      <4> SUFFICES ASSUME NEW i \in 1..c PROVE (f \o y)[i] = r[i]
        OBVIOUS
      <4>1. CASE i = c
        <5>1. c \in 1..(Len(f) + Len(y)) /\ ~(c <= Len(f)) /\ c - Len(f) = 1
          BY <3>5, <2>6
        <5> QED
          BY <4>1, <5>1, <3>4, <3>5, <2>8
      <4>2. CASE i # c
        <5>1. i \in 1..(c - 1) /\ i \in 1..(Len(f) + Len(y)) /\ i <= Len(f)
          BY <3>5, <2>6, <4>2
        <5> QED
          BY <5>1, <3>4, <3>5, <2>8
      <4> QED
        BY <4>1, <4>2
    <3>8. f \o y = r
      BY <3>4, <3>6, <3>7, <1>3, <2>8, SeqEqual
    <3> QED
      BY <3>8 DEF f, y
  <2> QED
    BY <2>10, <1>5 DEF r, s, x, bucket
<1>6. CASE ~(s # <<>> /\ Last(s).at = bucket)
  <2>1. \A j \in 1..n : BucketOf(t, j) # bucket
    <3> SUFFICES ASSUME NEW j \in 1..n, BucketOf(t, j) = bucket PROVE FALSE
      OBVIOUS
    <3>1. n \in 1..Len(bars) /\ j \in 1..Len(bars) /\ j <= n /\ n <= n + 1
      BY <1>0
    <3>2. BucketOf(t, n) = BucketOf(t, j)
      BY <3>1, BucketsAreRuns
    <3>3. s # <<>>
      BY <1>4, <3>1
    <3>4. Last(s).at = BucketOf(t, n)
      BY <3>1, AggregateLast
    <3> QED
      BY <1>6, <3>2, <3>3, <3>4
  <2>2. Openers(t, n + 1) = O \cup {n + 1}
    BY <2>1, OpenersGrow
  <2>3. \A i \in O : i < n + 1
    BY <1>1
  <2>4. /\ Cardinality(O \cup {n + 1}) = c + 1
        /\ \A k \in 1..c : Nth(O \cup {n + 1}, k) = Nth(O, k)
        /\ Nth(O \cup {n + 1}, c + 1) = n + 1
    <3>1. n + 1 \in Int
      OBVIOUS
    <3> QED
      BY <1>1, <2>3, <3>1, NthAppended
  <2> DEFINE before == IF n = 0 THEN 0 ELSE bars[n].price
             x == Opened(bucket, bars[n + 1], before)
  <2>5. Merged(t, n + 1, n + 1) = x
    BY <2>1, MergedOpens
  <2>6. before = IF s = <<>> THEN 0 ELSE Last(s).close
    <3>1. CASE n = 0
      BY <3>1, <1>4
    <3>2. CASE n # 0
      <4>1. n \in 1..Len(bars)
        BY <3>2, <1>0
      <4> QED
        BY <4>1, <3>2, <1>4, AggregateLast
    <3> QED
      BY <3>1, <3>2
  <2>7. Len(r) = c + 1 /\ r[c + 1] = x /\ \A k \in 1..c : r[k] = s[k]
    <3>1. Len(r) = c + 1
      BY <1>3, <2>2, <2>4
    <3>2. c + 1 \in 1..(c + 1) /\ \A k \in 1..c : k \in 1..(c + 1)
      BY <1>1
    <3>3. r[c + 1] = x
      BY <1>3, <2>2, <2>4, <2>5, <3>1, <3>2
    <3>4. \A k \in 1..c : r[k] = s[k]
      <4> SUFFICES ASSUME NEW k \in 1..c PROVE r[k] = s[k]
        OBVIOUS
      <4>1. r[k] = Merged(t, n + 1, Nth(O, k)) /\ s[k] = Merged(t, n, Nth(O, k))
        BY <1>2, <1>3, <2>2, <2>4, <3>1, <3>2
      <4>2. Nth(O, k) \in 1..n
        BY <1>1, <1>2
      <4> QED
        BY <4>1, <4>2, <2>1, MergedStays
    <3> QED
      BY <3>1, <3>3, <3>4
  <2>8. x \in MergedBars
    <3>1. c + 1 \in 1..Len(r)
      BY <1>1, <2>7
    <3>2. r[c + 1] \in MergedBars
      BY <1>3, <3>1, ElementOfSeq
    <3> QED
      BY <3>2, <2>7
  <2>9. r = Append(s, x)
    <3> HIDE DEF r, s, x, O, c
    <3>1. Append(s, x) \in Seq(MergedBars) /\ Len(Append(s, x)) = c + 1
      BY <1>2, <2>8, AppendProperties
    <3>2. \A k \in 1..(c + 1) : Append(s, x)[k] = r[k]
      <4> SUFFICES ASSUME NEW k \in 1..(c + 1) PROVE Append(s, x)[k] = r[k]
        OBVIOUS
      <4>1. CASE k = c + 1
        BY <4>1, <1>2, <2>7, <2>8, AppendProperties
      <4>2. CASE k # c + 1
        <5>1. k \in 1..c
          BY <1>1, <4>2
        <5> QED
          BY <5>1, <1>2, <2>7, <2>8, AppendProperties
      <4> QED
        BY <4>1, <4>2
    <3> QED
      BY <3>1, <3>2, <1>3, <2>7, SeqEqual
  <2> HIDE DEF r, s, before, bucket
  <2>10. r = Append(s, Opened(bucket, bars[n + 1], IF s = <<>> THEN 0 ELSE Last(s).close))
    BY <2>6, <2>9
  <2> QED
    BY <2>10, <1>6 DEF r, s, bucket
<1> QED
  BY <1>5, <1>6

-----------------------------------------------------------------------------
(* A bar that comes changes no aggregation of the bars before *)

DayStartIn(b, i) == b[Min({j \in 1..i : b[j].day = b[i].day})].minute
BucketIn(b, t, i) == Bucket(t, b[i].day, b[i].minute, DayStartIn(b, i))
OpenersIn(b, t, n) == {i \in 1..n : \A j \in 1..(i - 1) : BucketIn(b, t, j) # BucketIn(b, t, i)}
MembersIn(b, t, n, i) == {j \in 1..n : BucketIn(b, t, j) = BucketIn(b, t, i)}
MergedIn(b, t, n, i) ==
    [at |-> BucketIn(b, t, i), open |-> b[i].price,
     high |-> Max({b[j].price : j \in MembersIn(b, t, n, i)}),
     low |-> Min({b[j].price : j \in MembersIn(b, t, n, i)}),
     close |-> b[Max(MembersIn(b, t, n, i))].price, volume |-> Cardinality(MembersIn(b, t, n, i)),
     last |-> IF i = 1 THEN 0 ELSE b[i - 1].price]
AggregateIn(b, t, n) ==
    [k \in 1..Cardinality(OpenersIn(b, t, n)) |-> MergedIn(b, t, n, Nth(OpenersIn(b, t, n), k))]

\* The aggregation of the driver bars there are now ...
LEMMA AggregateNow ==
    ASSUME NEW t, NEW n
    PROVE  Aggregate(t, n) = AggregateIn(bars, t, n)
BY DEF Aggregate, AggregateIn, Openers, OpenersIn, Merged, MergedIn, Members, MembersIn,
       BucketOf, BucketIn, DayStart, DayStartIn

\* ... and of those after a step, as one operator of the bars.
LEMMA AggregateNext ==
    ASSUME NEW CONSTANT t, NEW CONSTANT n
    PROVE  Aggregate(t, n)' = AggregateIn(bars', t, n)
BY DEF Aggregate, AggregateIn, Openers, OpenersIn, Merged, MergedIn, Members, MembersIn,
       BucketOf, BucketIn, DayStart, DayStartIn

\* The start of a day, now and after a step.
LEMMA DayStartNext ==
    ASSUME NEW CONSTANT i
    PROVE  DayStart(i) = DayStartIn(bars, i) /\ DayStart(i)' = DayStartIn(bars', i)
BY DEF DayStart, DayStartIn

\* The start of a day depends on the bars up to the one it is asked for ...
LEMMA SameDayStart ==
    ASSUME NEW b, NEW c, NEW n \in Nat, \A i \in 1..n : b[i] = c[i], NEW i \in 1..n
    PROVE  DayStartIn(b, i) = DayStartIn(c, i)
<1> DEFINE T(x) == {j \in 1..i : x[j].day = x[i].day}
<1>1. \A j \in 1..i : j \in 1..n
  OBVIOUS
<1>2. T(b) = T(c)
  BY <1>1
<1>3. i \in T(b) /\ i \in Int /\ \A j \in T(b) : j \in Int /\ j \in 1..i
  OBVIOUS
<1>4. IsFiniteSet(1..i)
  BY <1>3, FS_Interval, 1 \in Int
<1>5. IsFiniteSet(T(b)) /\ T(b) \in SUBSET Int /\ T(b) # {}
  <2>1. T(b) \in SUBSET (1..i)
    OBVIOUS
  <2>2. IsFiniteSet(T(b))
    BY <2>1, <1>4, FS_Subset
  <2> HIDE DEF T
  <2> QED
    BY <2>2, <1>3
<1>6. Min(T(b)) \in T(b)
  BY <1>5, MinMeans
<1>7. DayStartIn(b, i) = b[Min(T(b))].minute /\ DayStartIn(c, i) = c[Min(T(c))].minute
  BY DEF DayStartIn
<1> HIDE DEF T
<1>8. Min(T(b)) \in 1..n
  BY <1>1, <1>3, <1>6
<1> QED
  BY <1>2, <1>7, <1>8

\* ... and the aggregation of the first n on those n alone.
LEMMA SameAggregate ==
    ASSUME NEW b, NEW c, NEW n \in Nat, \A i \in 1..n : b[i] = c[i], NEW t
    PROVE  AggregateIn(b, t, n) = AggregateIn(c, t, n)
<1>1. \A i \in 1..n : BucketIn(b, t, i) = BucketIn(c, t, i)
  BY SameDayStart DEF BucketIn
<1>2. OpenersIn(b, t, n) = OpenersIn(c, t, n) /\ OpenersIn(b, t, n) \in SUBSET (1..n)
  <2>1. \A i \in 1..n : \A j \in 1..(i - 1) : j \in 1..n
    OBVIOUS
  <2> QED
    BY <1>1, <2>1 DEF OpenersIn
<1>3. \A i \in 1..n : MembersIn(b, t, n, i) = MembersIn(c, t, n, i)
  BY <1>1 DEF MembersIn
<1>4. ASSUME NEW i \in 1..n PROVE MergedIn(b, t, n, i) = MergedIn(c, t, n, i)
  <2> DEFINE M == MembersIn(b, t, n, i)
  <2>1. i \in M /\ M \in SUBSET (1..n) /\ M = MembersIn(c, t, n, i)
    BY <1>3 DEF MembersIn
  <2>2. IsFiniteSet(1..n) /\ \A j \in 1..n : j \in Int
    BY FS_Interval, 1 \in Int, n \in Int
  <2>3. IsFiniteSet(M)
    BY <2>1, <2>2, FS_Subset
  <2> HIDE DEF M
  <2>4. M \in SUBSET Int /\ M # {}
    BY <2>1, <2>2
  <2>5. Max(M) \in 1..n
    BY <2>1, <2>3, <2>4, MaxMeans
  <2>6. {b[j].price : j \in M} = {c[j].price : j \in M}
    BY <2>1
  <2>7. b[Max(M)].price = c[Max(M)].price
    BY <2>5
  <2>8. (IF i = 1 THEN 0 ELSE b[i - 1].price) = (IF i = 1 THEN 0 ELSE c[i - 1].price)
    <3>1. i # 1 => i - 1 \in 1..n
      OBVIOUS
    <3> QED
      BY <3>1
  <2> DEFINE x == IF i = 1 THEN 0 ELSE b[i - 1].price
             y == IF i = 1 THEN 0 ELSE c[i - 1].price
  <2>9. MergedIn(b, t, n, i) =
          [at |-> BucketIn(b, t, i), open |-> b[i].price, high |-> Max({b[j].price : j \in M}),
           low |-> Min({b[j].price : j \in M}), close |-> b[Max(M)].price,
           volume |-> Cardinality(M), last |-> x]
    BY DEF MergedIn, M
  <2>10. MergedIn(c, t, n, i) =
          [at |-> BucketIn(c, t, i), open |-> c[i].price, high |-> Max({c[j].price : j \in M}),
           low |-> Min({c[j].price : j \in M}), close |-> c[Max(M)].price,
           volume |-> Cardinality(M), last |-> y]
    BY <2>1 DEF MergedIn
  <2>11. x = y
    BY <2>8
  <2> HIDE DEF x, y
  <2> QED
    BY <1>1, <2>6, <2>7, <2>9, <2>10, <2>11
<1> DEFINE O == OpenersIn(b, t, n)
<1>5. O \in SUBSET Int /\ IsFiniteSet(O)
  <2>1. IsFiniteSet(1..n) /\ \A j \in 1..n : j \in Int
    BY FS_Interval, 1 \in Int, n \in Int
  <2> QED
    BY <1>2, <2>1, FS_Subset
<1>6. \A k \in 1..Cardinality(O) : Nth(O, k) \in 1..n
  BY <1>2, <1>5, NthMeans
<1>7. AggregateIn(b, t, n) = [k \in 1..Cardinality(O) |-> MergedIn(b, t, n, Nth(O, k))]
  BY DEF AggregateIn
<1>8. AggregateIn(c, t, n) = [k \in 1..Cardinality(O) |-> MergedIn(c, t, n, Nth(O, k))]
  BY <1>2 DEF AggregateIn
<1> HIDE DEF O
<1> QED
  BY <1>4, <1>6, <1>7, <1>8

-----------------------------------------------------------------------------
(* The inductive invariant *)

\* What the variables range over; what a call has still to take in is what the series
\* it extends lacks (_update).
SeriesTypes ==
    /\ processed \in [BarTypes -> Nat] /\ \A t \in BarTypes : processed[t] <= Len(bars)
    /\ series = [t \in BarTypes |-> series[t]]
    /\ anchors \in [Days -> Int \cup {NoMinute}]
    /\ asked \in BarTypes \cup {NoType}
    /\ asked # NoType => processed[asked] < Len(bars)

\* An anchor is the minute of the first bar of its day.
AnchorsOK ==
    \A d \in Days : anchors[d] # NoMinute =>
        \E i \in 1..Len(bars) : bars[i].day = d /\ anchors[d] = DayStart(i)

\* The days an intraday series has come across are anchored.
DaysAreAnchored ==
    \A t \in BarTypes \cap DOMAIN Minutes : \A i \in 1..processed[t] :
        anchors[bars[i].day] # NoMinute

\* Every series is the aggregation of the bars it has taken in.
SeriesMade == \A t \in BarTypes : series[t] = Aggregate(t, processed[t])

\* The inductive invariant.
SeriesInv == BarsOK /\ SeriesTypes /\ AnchorsOK /\ DaysAreAnchored /\ SeriesMade

\* It holds of a session without a bar.
LEMMA SeriesStart == SeriesAssumption /\ SeriesInit => SeriesInv
<1> SUFFICES ASSUME SeriesAssumption, SeriesInit PROVE SeriesInv
  OBVIOUS
<1>1. bars = <<>> /\ Len(bars) = 0 /\ bars \in Seq(DriverBars)
  BY DEF SeriesInit
<1>2. BarsOK
  BY <1>1 DEF BarsOK
<1>3. SeriesTypes
  BY <1>1 DEF SeriesInit, SeriesTypes, SeriesAssumption
<1>4. AnchorsOK /\ DaysAreAnchored
  BY DEF SeriesInit, AnchorsOK, DaysAreAnchored
<1>5. SeriesMade
  <2>1. \A t \in BarTypes : Aggregate(t, 0) = <<>>
    BY <1>1, <1>2, AggregateEmpty
  <2> QED
    BY <2>1 DEF SeriesMade, SeriesInit
<1> QED
  BY <1>2, <1>3, <1>4, <1>5 DEF SeriesInv

\* The next driver bar keeps it (process_bar): it changes no aggregation of those before.
LEMMA AdvanceKeeps ==
    ASSUME SeriesAssumption, SeriesInv, NEW at \in Moments, NEW p \in Prices,
           Advance(at[1], at[2], p)
    PROVE  SeriesInv'
<1> DEFINE n == Len(bars)
           x == [day |-> at[1], minute |-> at[2], price |-> p]
<1>1. at[1] \in Int /\ at[2] \in Int /\ at[2] # NoMinute /\ p \in Nat \ {0} /\ at[1] \in Days
  BY DEF SeriesAssumption, Days
<1>2. x \in DriverBars
  BY <1>1 DEF DriverBars
<1>3. bars \in Seq(DriverBars) /\ n \in Nat /\ bars' = Append(bars, x)
  BY DEF SeriesInv, BarsOK, Advance
<1>4. /\ bars' \in Seq(DriverBars) /\ Len(bars') = n + 1 /\ bars'[n + 1] = x
      /\ \A i \in 1..n : bars'[i] = bars[i]
  <2> HIDE DEF x
  <2> QED
    BY <1>2, <1>3, AppendProperties
<1>5. x.day = at[1] /\ x.minute = at[2]
  OBVIOUS
<1>6. n # 0 => Later(x.day, x.minute, bars[n])
  BY <1>3, <1>5 DEF Advance, Last
<1> HIDE DEF x
<1>7. ASSUME NEW i \in 1..n PROVE Later(x.day, x.minute, bars[i])
  <2>1. n \in 1..n
    BY <1>3
  <2>2. i < n => Later(bars[n].day, bars[n].minute, bars[i])
    BY <2>1 DEF SeriesInv, BarsOK
  <2>3. /\ bars[i].day \in Int /\ bars[i].minute \in Int /\ bars[n].day \in Int /\ bars[n].minute \in Int
        /\ x.day \in Int /\ x.minute \in Int
    BY <1>1, <1>5, <2>1, BarFacts DEF SeriesInv
  <2>4. i < n \/ i = n
    BY <1>3
  <2> DEFINE d == bars[i].day
             m == bars[i].minute
             e == bars[n].day
             k == bars[n].minute
             f == x.day
             l == x.minute
  <2>5. i < n => (e > d \/ (e = d /\ k > m))
    BY <2>2 DEF Later
  <2>6. f > e \/ (f = e /\ l > k)
    BY <1>6, <2>1 DEF Later
  <2>7. i = n => d = e /\ m = k
    OBVIOUS
  <2>8. d \in Int /\ e \in Int /\ f \in Int /\ k \in Int /\ l \in Int /\ m \in Int
    BY <2>3
  <2> HIDE DEF d, e, f, k, l, m
  <2>9. f > d \/ (f = d /\ l > m)
    BY <2>4, <2>5, <2>6, <2>7, <2>8
  <2> QED
    BY <2>9 DEF Later, d, f, l, m
<1>8. \A i \in 1..(n + 1) : i \in 1..n \/ i = n + 1
  BY <1>3
<1>9. BarsOK'
  <2>1. \A i \in 1..n : bars[i].day \in Days /\ bars[i].minute # NoMinute
    BY DEF SeriesInv, BarsOK
  <2>2. ASSUME NEW i \in 1..(n + 1) PROVE bars'[i].day \in Days /\ bars'[i].minute # NoMinute
    <3>1. CASE i \in 1..n
      BY <1>4, <2>1, <3>1
    <3>2. CASE i = n + 1
      BY <1>1, <1>4, <1>5, <3>2
    <3> QED
      BY <1>8, <3>1, <3>2
  <2>3. ASSUME NEW i \in 1..(n + 1), NEW j \in 1..(n + 1), i < j
        PROVE  Later(bars'[j].day, bars'[j].minute, bars'[i])
    <3>1. i \in 1..n
      BY <2>3, <1>3
    <3>2. CASE j \in 1..n
      <4>1. Later(bars[j].day, bars[j].minute, bars[i])
        BY <2>3, <3>1, <3>2 DEF SeriesInv, BarsOK
      <4>2. bars'[i] = bars[i] /\ bars'[j] = bars[j]
        BY <1>4, <3>1, <3>2
      <4> QED
        BY <4>1, <4>2
    <3>3. CASE j = n + 1
      <4>1. bars'[i] = bars[i] /\ bars'[j] = x
        BY <1>4, <3>1, <3>3
      <4> QED
        BY <1>7, <3>1, <4>1
    <3> QED
      BY <1>8, <3>2, <3>3
  <2>4. Days' = Days /\ NoMinute' = NoMinute
    BY DEF Days
  <2>5. \A i, j \in 1..(n + 1) : i < j => Later(bars'[j].day, bars'[j].minute, bars'[i])
    BY <2>3
  <2> QED
    BY <1>4, <2>2, <2>4, <2>5 DEF BarsOK, Later
<1>10. processed' = processed /\ series' = series /\ anchors' = anchors /\ asked' = asked
  BY DEF Advance
<1>11. processed \in [BarTypes -> Nat] /\ \A t \in BarTypes : processed[t] \in Nat /\ processed[t] <= n
  BY DEF SeriesInv, SeriesTypes
<1>12. SeriesTypes'
  <2>1. \A t \in BarTypes : processed[t] <= n + 1
    BY <1>3, <1>11
  <2>2. /\ series = [t \in BarTypes |-> series[t]]
        /\ anchors \in [Days -> Int \cup {NoMinute}]
        /\ asked \in BarTypes \cup {NoType}
    BY DEF SeriesInv, SeriesTypes
  <2>3. asked = NoType
    BY DEF Advance
  <2>4. Days' = Days
    BY DEF Days
  <2>5. series' = [t \in BarTypes |-> series'[t]]
    BY <1>10, <2>2
  <2>6. \A t \in BarTypes : processed'[t] <= Len(bars')
    BY <1>4, <1>10, <2>1
  <2> QED
    BY <1>10, <1>11, <2>2, <2>3, <2>4, <2>5, <2>6 DEF SeriesTypes
<1>13. AnchorsOK'
  <2>1. ASSUME NEW CONSTANT i \in 1..n PROVE DayStart(i)' = DayStart(i) /\ i \in 1..(n + 1)
    <3>0. n \in Nat /\ \A j \in 1..n : bars'[j] = bars[j]
      BY <1>3, <1>4
    <3>1. DayStartIn(bars', i) = DayStartIn(bars, i)
      <4> HIDE DEF n
      <4> QED
        BY ONLY <3>0, <2>1, SameDayStart
    <3> QED
      BY <3>1, <1>3, DayStartNext
  <2>2. ASSUME NEW CONSTANT d \in Days, anchors[d] # NoMinute
        PROVE  \E i \in 1..(n + 1) : bars'[i].day = d /\ anchors[d] = DayStart(i)'
    <3>1. PICK i \in 1..n : bars[i].day = d /\ anchors[d] = DayStart(i)
      BY <2>2 DEF SeriesInv, AnchorsOK
    <3>2. DayStart(i)' = DayStart(i) /\ i \in 1..(n + 1) /\ bars'[i] = bars[i]
      BY <1>4, <2>1
    <3> QED
      BY <3>1, <3>2
  <2>3. Days' = Days
    BY DEF Days
  <2>4. \A d \in Days : anchors'[d] # NoMinute =>
           \E i \in 1..Len(bars') : bars'[i].day = d /\ anchors'[d] = DayStart(i)'
    BY <2>2, <1>4, <1>10
  <2> QED
    BY <2>3, <2>4 DEF AnchorsOK
<1>14. DaysAreAnchored'
  <2>1. ASSUME NEW t \in BarTypes \cap DOMAIN Minutes, NEW i \in 1..processed[t]
        PROVE  anchors'[bars'[i].day] # NoMinute
    <3>1. i \in 1..n
      BY <1>3, <1>11
    <3>2. bars'[i] = bars[i]
      BY <1>4, <3>1
    <3> QED
      BY <1>10, <3>2 DEF SeriesInv, DaysAreAnchored
  <2> QED
    BY <1>10, <2>1 DEF DaysAreAnchored
<1>15. SeriesMade'
  <2>1. ASSUME NEW t \in BarTypes PROVE series'[t] = AggregateIn(bars', t, processed[t])
    <3>1. series[t] = AggregateIn(bars, t, processed[t])
      BY AggregateNow DEF SeriesInv, SeriesMade
    <3>2. processed[t] \in Nat /\ \A i \in 1..processed[t] : bars[i] = bars'[i]
      BY <1>3, <1>4, <1>11
    <3>3. AggregateIn(bars, t, processed[t]) = AggregateIn(bars', t, processed[t])
      BY <3>2, SameAggregate
    <3> QED
      BY <1>10, <3>1, <3>3
  <2>2. \A t \in BarTypes : series'[t] = AggregateIn(bars', t, processed'[t])
    BY <1>10, <2>1
  <2> QED
    BY <2>2 DEF SeriesMade, Aggregate, AggregateIn, Openers, OpenersIn, Merged, MergedIn, Members,
                MembersIn, BucketOf, BucketIn, DayStart, DayStartIn
<1> QED
  BY <1>9, <1>12, <1>13, <1>14, <1>15 DEF SeriesInv

\* A step that leaves the bars and the series alone keeps what is said of them.
LEMMA SeriesLeftAlone ==
    ASSUME SeriesInv, bars' = bars, processed' = processed, series' = series, anchors' = anchors
    PROVE  BarsOK' /\ AnchorsOK' /\ DaysAreAnchored' /\ SeriesMade'
<1>1. BarsOK'
  <2>1. Days' = Days
    BY DEF Days
  <2> QED
    BY <2>1 DEF SeriesInv, BarsOK, Later
<1>2. AnchorsOK'
  <2>1. ASSUME NEW CONSTANT i \in 1..Len(bars) PROVE DayStart(i)' = DayStart(i)
    BY DayStartNext
  <2>2. ASSUME NEW CONSTANT d \in Days, anchors[d] # NoMinute
        PROVE  \E i \in 1..Len(bars) : bars'[i].day = d /\ anchors'[d] = DayStart(i)'
    <3>1. PICK i \in 1..Len(bars) : bars[i].day = d /\ anchors[d] = DayStart(i)
      BY <2>2 DEF SeriesInv, AnchorsOK
    <3> QED
      BY <3>1, <2>1
  <2>3. Days' = Days
    BY DEF Days
  <2>4. \A d \in Days : anchors'[d] # NoMinute =>
           \E i \in 1..Len(bars') : bars'[i].day = d /\ anchors'[d] = DayStart(i)'
    BY <2>2
  <2> QED
    BY <2>3, <2>4 DEF AnchorsOK
<1>3. DaysAreAnchored'
  BY DEF SeriesInv, DaysAreAnchored
<1>4. SeriesMade'
  <2>1. \A t \in BarTypes : series'[t] = AggregateIn(bars', t, processed'[t])
    BY AggregateNow DEF SeriesInv, SeriesMade
  <2> QED
    BY <2>1 DEF SeriesMade, Aggregate, AggregateIn, Openers, OpenersIn, Merged, MergedIn, Members,
                MembersIn, BucketOf, BucketIn, DayStart, DayStartIn
<1> QED
  BY <1>1, <1>2, <1>3, <1>4

\* Asking for a series keeps it (_series): only a call begins.
LEMMA ValuesKeeps ==
    ASSUME SeriesAssumption, SeriesInv, NEW t \in BarTypes, Values(t)
    PROVE  SeriesInv'
<1>1. /\ bars' = bars /\ processed' = processed /\ series' = series /\ anchors' = anchors
      /\ asked' = t /\ processed[t] < Len(bars)
  BY DEF Values
<1>2. BarsOK' /\ AnchorsOK' /\ DaysAreAnchored' /\ SeriesMade'
  BY <1>1, SeriesLeftAlone
<1>3. SeriesTypes'
  BY <1>1 DEF SeriesInv, SeriesTypes, Days
<1> QED
  BY <1>2, <1>3 DEF SeriesInv

\* When a series comes across a bar, the anchor of its day is the minute of the
\* first bar of that day.
LEMMA AnchoredIsDayStart ==
    ASSUME SeriesAssumption, SeriesInv, NEW t \in BarTypes \cap DOMAIN Minutes,
           NEW n, n = processed[t] + 1, n \in 1..Len(bars)
    PROVE  Anchored(bars[n].day, bars[n].minute) =
             [anchors EXCEPT ![bars[n].day] = DayStart(n)]
<1> DEFINE d == bars[n].day
           m == bars[n].minute
<1>0. d \in Days /\ BarsOK /\ anchors \in [Days -> Int \cup {NoMinute}] /\ processed[t] \in Nat
  BY DEF SeriesInv, BarsOK, SeriesTypes
<1>1. CASE anchors[d] = NoMinute
  <2>1. PICK f \in 1..n : bars[f].day = d /\ DayStart(n) = bars[f].minute
    BY <1>0, DayStartMeans
  <2>2. f = n
    <3>1. f \notin 1..processed[t]
      BY <1>1, <2>1 DEF SeriesInv, DaysAreAnchored
    <3> QED
      BY <3>1, <1>0
  <2> QED
    BY <1>1, <2>1, <2>2 DEF Anchored
<1>2. CASE anchors[d] # NoMinute
  <2>1. PICK i \in 1..Len(bars) : bars[i].day = d /\ anchors[d] = DayStart(i)
    BY <1>0, <1>2 DEF SeriesInv, AnchorsOK
  <2>2. DayStart(n) = anchors[d]
    BY <1>0, <2>1, OneDayStart
  <2>3. [anchors EXCEPT ![d] = anchors[d]] = anchors
    BY <1>0
  <2> QED
    BY <1>2, <2>2, <2>3 DEF Anchored
<1> QED
  BY <1>1, <1>2

\* Taking the next bar in keeps it (_append): the last bucket is extended, or a new
\* one opened, exactly as an aggregation of all bars would have it.
LEMMA AppendBarKeeps ==
    ASSUME SeriesAssumption, SeriesInv, AppendBar
    PROVE  SeriesInv'
<1> DEFINE t == asked
           n == processed[t] + 1
           d == bars[n].day
           m == bars[n].minute
           known == IF t \in DOMAIN Minutes THEN Anchored(d, m) ELSE anchors
           s == Aggregate(t, processed[t])
           bucket == BucketOf(t, n)
<1>1. t \in BarTypes /\ processed[t] \in Nat /\ processed[t] < Len(bars) /\ Len(bars) \in Nat
  BY DEF AppendBar, SeriesInv, SeriesTypes, BarsOK
<1>2. n \in 1..Len(bars) /\ n \in Nat
  BY <1>1
<1>3. d \in Days /\ d \in Int /\ m \in Int
  BY <1>2, BarFacts DEF SeriesInv, BarsOK
<1>4. t \in DOMAIN Minutes => known = [anchors EXCEPT ![d] = DayStart(n)]
  BY <1>1, <1>2, AnchoredIsDayStart
<1>5. anchors \in [Days -> Int \cup {NoMinute}]
  BY DEF SeriesInv, SeriesTypes
<1>6. Bucket(t, d, m, known[d]) = bucket
  <2>1. CASE t \in DOMAIN Minutes
    <3>1. known[d] = DayStart(n)
      BY <1>3, <1>4, <1>5, <2>1
    <3> QED
      BY <3>1 DEF BucketOf
  <2>2. CASE t \notin DOMAIN Minutes
    <3>1. t = "K_DAY" \/ t = "K_WEEK"
      BY <1>1, <2>2 DEF SeriesAssumption
    <3> QED
      BY <3>1 DEF BucketOf, Bucket
  <2> QED
    BY <2>1, <2>2
<1>7. /\ anchors' = known
      /\ processed' = [processed EXCEPT ![t] = n]
      /\ asked' = IF n = Len(bars) THEN NoType ELSE t
      /\ bars' = bars
  BY DEF AppendBar, FirstUnread
<1>8. series' = [series EXCEPT ![t] =
                   IF @ # <<>> /\ Last(@).at = bucket
                   THEN Front(@) \o <<Extended(Last(@), bars[n])>>
                   ELSE Append(@, Opened(bucket, bars[n], IF @ = <<>> THEN 0 ELSE Last(@).close))]
  <2>1. series' = [series EXCEPT ![t] =
                   IF @ # <<>> /\ Last(@).at = Bucket(t, d, m, known[d])
                   THEN Front(@) \o <<Extended(Last(@), bars[n])>>
                   ELSE Append(@, Opened(Bucket(t, d, m, known[d]), bars[n],
                                         IF @ = <<>> THEN 0 ELSE Last(@).close))]
    BY DEF AppendBar, FirstUnread
  <2> HIDE DEF bucket, known, n, d, m, t
  <2> QED
    BY <1>6, <2>1
<1>9. series[t] = s
  BY <1>1 DEF SeriesInv, SeriesMade
<1>10. Aggregate(t, n) = IF s # <<>> /\ Last(s).at = bucket
                         THEN Front(s) \o <<Extended(Last(s), bars[n])>>
                         ELSE Append(s, Opened(bucket, bars[n], IF s = <<>> THEN 0 ELSE Last(s).close))
  BY <1>1, <1>2, AggregateStep DEF SeriesInv
<1>11. series' = [series EXCEPT ![t] = Aggregate(t, n)]
  <2> HIDE DEF s, bucket, n, t
  <2> QED
    BY <1>8, <1>9, <1>10
<1>12. BarsOK'
  BY <1>7 DEF SeriesInv, BarsOK, Days, Later
<1>13. DayStart(n) \in Int /\ DayStart(n) # NoMinute
  <2>1. PICK f \in 1..n : DayStart(n) = bars[f].minute
    BY <1>2, DayStartMeans DEF SeriesInv
  <2>2. f \in 1..Len(bars)
    BY <1>2
  <2> QED
    BY <2>1, <2>2, BarFacts DEF SeriesInv, BarsOK
<1>14. known \in [Days -> Int \cup {NoMinute}]
  BY <1>3, <1>4, <1>5, <1>13
<1>15. \A e \in Days : known[e] = anchors[e] \/ (e = d /\ known[e] = DayStart(n))
  BY <1>3, <1>4, <1>5
<1>16. \A e \in Days : anchors[e] # NoMinute => known[e] # NoMinute
  BY <1>13, <1>15
<1>17. t \in DOMAIN Minutes => known[d] # NoMinute
  BY <1>3, <1>4, <1>5, <1>13
<1>18. /\ processed \in [BarTypes -> Nat] /\ series = [u \in BarTypes |-> series[u]]
       /\ \A u \in BarTypes : processed[u] \in Nat /\ processed[u] <= Len(bars)
  BY DEF SeriesInv, SeriesTypes
<1> HIDE DEF n, s, bucket, known, t
<1>19. processed' \in [BarTypes -> Nat] /\ \A u \in BarTypes : processed'[u] <= Len(bars)
  BY <1>1, <1>2, <1>7, <1>18
<1>20. \A u \in BarTypes : processed'[u] = IF u = t THEN n ELSE processed[u]
  BY <1>1, <1>7, <1>18
<1>21. series' = [u \in BarTypes |-> IF u = t THEN Aggregate(t, n) ELSE series[u]]
  BY <1>1, <1>11, <1>18
<1>22. SeriesTypes'
  <2>1. asked' \in BarTypes \cup {NoType} /\ (asked' # NoType => processed'[asked'] < Len(bars))
    <3>1. CASE n = Len(bars)
      BY <1>7, <3>1
    <3>2. CASE n # Len(bars)
      <4>1. asked' = t /\ processed'[t] = n
        BY <1>1, <1>7, <1>20, <3>2
      <4> QED
        BY <1>1, <1>2, <3>2, <4>1
    <3> QED
      BY <3>1, <3>2
  <2>2. series' = [u \in BarTypes |-> series'[u]]
    BY <1>21
  <2>3. Days' = Days /\ bars' = bars
    BY <1>7 DEF Days
  <2>4. anchors' \in [Days -> Int \cup {NoMinute}]
    BY <1>7, <1>14
  <2> QED
    BY <1>19, <2>1, <2>2, <2>3, <2>4 DEF SeriesTypes
<1>23. AnchorsOK'
  <2>1. ASSUME NEW e \in Days, known[e] # NoMinute
        PROVE  \E i \in 1..Len(bars) : bars[i].day = e /\ known[e] = DayStart(i)
    <3>1. CASE known[e] = anchors[e]
      BY <2>1, <3>1 DEF SeriesInv, AnchorsOK
    <3>2. CASE e = d /\ known[e] = DayStart(n)
      BY <1>2, <3>2
    <3> QED
      BY <1>15, <3>1, <3>2
  <2> QED
    <3>1. ASSUME NEW CONSTANT i \in 1..Len(bars) PROVE DayStart(i)' = DayStart(i)
      BY <1>7, DayStartNext
    <3>2. ASSUME NEW CONSTANT e \in Days, known[e] # NoMinute
          PROVE  \E i \in 1..Len(bars) : bars'[i].day = e /\ known[e] = DayStart(i)'
      BY <1>7, <2>1, <3>1, <3>2
    <3>3. Days' = Days
      BY DEF Days
    <3>4. \A e \in Days : anchors'[e] # NoMinute =>
             \E i \in 1..Len(bars') : bars'[i].day = e /\ anchors'[e] = DayStart(i)'
      BY <1>7, <3>2
    <3> QED
      BY <3>3, <3>4 DEF AnchorsOK
<1>24. DaysAreAnchored'
  <2>1. ASSUME NEW u \in BarTypes \cap DOMAIN Minutes, NEW i \in 1..processed'[u]
        PROVE  known[bars[i].day] # NoMinute
    <3>1. CASE u = t /\ i = n
      BY <1>17, <3>1
    <3>2. CASE ~(u = t /\ i = n)
      <4>1. i \in 1..processed[u]
        <5>1. CASE u = t
          <6>1. processed'[u] = n /\ n = processed[u] + 1 /\ i # n
            BY <1>20, <3>2, <5>1 DEF n
          <6> QED
            BY <6>1, <1>18
        <5>2. CASE u # t
          BY <1>20, <5>2
        <5> QED
          BY <5>1, <5>2
      <4>2. anchors[bars[i].day] # NoMinute
        BY <4>1 DEF SeriesInv, DaysAreAnchored
      <4>3. bars[i].day \in Days
        <5>1. i \in 1..Len(bars)
          BY <4>1, <1>18, <1>1
        <5> QED
          BY <5>1 DEF SeriesInv, BarsOK
      <4> QED
        BY <4>2, <4>3, <1>16
    <3> QED
      BY <3>1, <3>2
  <2> QED
    BY <1>7, <2>1 DEF DaysAreAnchored
<1>25. SeriesMade'
  <2>1. ASSUME NEW u \in BarTypes PROVE series'[u] = AggregateIn(bars', u, processed'[u])
    <3>1. CASE u = t
      <4>1. series'[u] = Aggregate(u, n) /\ processed'[u] = n
        BY <1>20, <1>21, <3>1
      <4> QED
        BY <1>7, <4>1, AggregateNow
    <3>2. CASE u # t
      <4>1. series'[u] = series[u] /\ processed'[u] = processed[u]
        BY <1>20, <1>21, <3>2
      <4>2. series[u] = AggregateIn(bars, u, processed[u])
        BY AggregateNow DEF SeriesInv, SeriesMade
      <4> QED
        BY <1>7, <4>1, <4>2
    <3> QED
      BY <3>1, <3>2
  <2> QED
    BY <2>1 DEF SeriesMade, Aggregate, AggregateIn, Openers, OpenersIn, Merged, MergedIn, Members,
                MembersIn, BucketOf, BucketIn, DayStart, DayStartIn
<1> QED
  BY <1>12, <1>22, <1>23, <1>24, <1>25 DEF SeriesInv

\* A step of another algorithm keeps it.
LEMMA SeriesStutter ==
    ASSUME SeriesInv, UNCHANGED barVars
    PROVE  SeriesInv'
<1>1. bars' = bars /\ processed' = processed /\ series' = series /\ anchors' = anchors /\ asked' = asked
  BY DEF barVars
<1>2. BarsOK' /\ AnchorsOK' /\ DaysAreAnchored' /\ SeriesMade'
  BY <1>1, SeriesLeftAlone
<1>3. SeriesTypes'
  BY <1>1 DEF SeriesInv, SeriesTypes, Days
<1> QED
  BY <1>2, <1>3 DEF SeriesInv

\* The inductive invariant holds of every session.
THEOREM SeriesInvariant == SeriesSpec => []SeriesInv
<1>1. SeriesInit => SeriesInv
  BY SeriesStart, SeriesAssumption
<1>2. SeriesInv /\ [SeriesNext]_barVars => SeriesInv'
  <2> SUFFICES ASSUME SeriesInv, [SeriesNext]_barVars PROVE SeriesInv'
    OBVIOUS
  <2>0. SeriesAssumption
    BY SeriesAssumption
  <2>1. ASSUME NEW at \in Moments, NEW p \in Prices, Advance(at[1], at[2], p) PROVE SeriesInv'
    BY <2>0, <2>1, AdvanceKeeps
  <2>2. ASSUME NEW t \in BarTypes, Values(t) PROVE SeriesInv'
    BY <2>0, <2>2, ValuesKeeps
  <2>3. CASE AppendBar
    BY <2>0, <2>3, AppendBarKeeps
  <2>4. CASE UNCHANGED barVars
    BY <2>4, SeriesStutter
  <2> QED
    BY <2>1, <2>2, <2>3, <2>4 DEF SeriesNext
<1> QED
  BY <1>1, <1>2, PTL DEF SeriesSpec

\* At every moment, each series is the aggregation of the driver bars it has taken
\* in, whatever was asked for before and while a call is extending another one.
THEOREM SeriesAlwaysAggregate == SeriesSpec => []SeriesAreAggregates
<1>1. SeriesInv => SeriesAreAggregates
  BY DEF SeriesInv, SeriesMade, SeriesAreAggregates
<1> QED
  BY <1>1, SeriesInvariant, PTL

-----------------------------------------------------------------------------
(* What the readers see *)

\* A slice of a sequence, as a function.
LEMMA SliceIs ==
    ASSUME NEW S, NEW s \in Seq(S), NEW m \in Int, NEW n \in Int, 1 <= m, n <= Len(s)
    PROVE  /\ SubSeq(s, m, n) \in Seq(S)
           /\ Len(SubSeq(s, m, n)) = IF m <= n THEN n - m + 1 ELSE 0
           /\ Len(SubSeq(s, m, n)) \in Nat /\ DOMAIN SubSeq(s, m, n) = 1..Len(SubSeq(s, m, n))
           /\ \A i \in 1..Len(SubSeq(s, m, n)) :
                 SubSeq(s, m, n)[i] = s[m + i - 1] /\ m + i - 1 \in 1..Len(s)
           /\ SubSeq(s, m, n) = [i \in 1..Len(SubSeq(s, m, n)) |-> s[m + i - 1]]
<1>1. Len(s) \in Nat /\ \A i \in 1..Len(s) : s[i] \in S
  OBVIOUS
<1>2. \A i \in m..n : s[i] \in S
  BY <1>1
<1> DEFINE p == SubSeq(s, m, n)
           l == Len(p)
<1>3. p \in Seq(S) /\ l = (IF m <= n THEN n - m + 1 ELSE 0) /\ \A i \in 1..(n - m + 1) : p[i] = s[m + i - 1]
  BY <1>2, SubSeqProperties
<1> HIDE DEF p
<1>4. l \in Nat /\ DOMAIN p = 1..l /\ p = [i \in 1..l |-> p[i]]
  BY <1>3
<1>5. \A i \in 1..l : p[i] = s[m + i - 1] /\ m + i - 1 \in 1..Len(s)
  <2> TAKE i \in 1..l
  <2>1. m <= n /\ i \in Int /\ 1 <= i /\ i <= n - m + 1
    BY <1>3, <1>4
  <2>2. i \in 1..(n - m + 1)
    BY <2>1
  <2>3. p[i] = s[m + i - 1]
    BY <1>3, <2>2
  <2>4. m + i - 1 \in 1..Len(s)
    BY <1>1, <2>1
  <2> QED
    BY <2>3, <2>4
<1> HIDE DEF l
<1>6. p = [i \in 1..l |-> s[m + i - 1]]
  BY <1>4, <1>5
<1> QED
  BY <1>3, <1>4, <1>5, <1>6 DEF p, l

\* What a reader finds: the aggregation of all driver bars so far.
LEMMA SeriesRead ==
    ASSUME SeriesAssumption, SeriesInv, NEW t \in BarTypes, Readable(t)
    PROVE  /\ BarsOK /\ Len(bars) \in Nat /\ series[t] = Aggregate(t, Len(bars))
           /\ series[t] \in Seq(MergedBars) /\ Len(series[t]) \in Nat
           /\ Len(series[t]) = Cardinality(Openers(t, Len(bars)))
           /\ \A k \in 1..Len(series[t]) :
                 /\ Nth(Openers(t, Len(bars)), k) \in Openers(t, Len(bars))
                 /\ Nth(Openers(t, Len(bars)), k) \in 1..Len(bars)
                 /\ series[t][k] = Merged(t, Len(bars), Nth(Openers(t, Len(bars)), k))
<1>1. BarsOK /\ Len(bars) \in Nat
  BY DEF SeriesInv, BarsOK
<1>2. series[t] = Aggregate(t, Len(bars))
  BY DEF SeriesInv, SeriesMade, Readable
<1>3. Len(bars) \in 0..Len(bars)
  BY <1>1
<1> QED
  BY <1>1, <1>2, <1>3, AggregateType, LenProperties

\* The openers of the driver bars up to the end of a bucket are those of all bars
\* up to the opener of that bucket, and the buckets they open are complete.
LEMMA OpenersOfPart ==
    ASSUME SeriesAssumption, BarsOK, NEW t \in BarTypes,
           NEW i \in Openers(t, Len(bars)), NEW e \in Members(t, Len(bars), i),
           \A j \in Members(t, Len(bars), i) : j <= e
    PROVE  /\ e \in 1..Len(bars) /\ i <= e
           /\ Openers(t, e) = Below(Openers(t, Len(bars)), i)
           /\ \A o \in Openers(t, e) : Members(t, e, o) = Members(t, Len(bars), o)
<1> DEFINE n == Len(bars)
           O == Openers(t, n)
<1>1. n \in Nat /\ n \in 0..n
  BY DEF BarsOK
<1>2. O \in SUBSET (1..n) /\ i \in 1..n
  BY <1>1, OpenersType
<1>3. e \in 1..n /\ BucketOf(t, e) = BucketOf(t, i) /\ i \in Members(t, n, i)
  BY <1>1, <1>2 DEF Members
<1>4. i <= e
  BY <1>3
<1>5. ASSUME NEW o \in O PROVE o <= e <=> o <= i
  <2>1. o \in 1..n
    BY <1>2
  <2>2. o <= i => o <= e
    BY <1>2, <1>3, <1>4, <2>1
  <2>3. ASSUME o <= e, ~(o <= i) PROVE FALSE
    <3>1. i < o
      BY <1>2, <2>1, <2>3
    <3>2. BucketOf(t, o) = BucketOf(t, i)
      BY <1>2, <1>3, <2>1, <2>3, <3>1, BucketsAreRuns
    <3>3. o = i
      BY <1>1, <3>2, BucketOpensOnce
    <3> QED
      BY <3>1, <3>3, <2>1
  <2> QED
    BY <2>2, <2>3
<1>6. Openers(t, e) = {o \in O : o <= e}
  BY <1>1, <1>3 DEF Openers
<1>7. Openers(t, e) = Below(O, i)
  BY <1>5, <1>6 DEF Below
<1>8. ASSUME NEW o \in Openers(t, e) PROVE Members(t, e, o) = Members(t, n, o)
  <2>1. o \in O /\ o <= e /\ o \in 1..n
    BY <1>2, <1>6
  <2>2. ASSUME NEW j \in 1..n, BucketOf(t, j) = BucketOf(t, o) PROVE j <= e
    <3> SUFFICES ASSUME ~(j <= e) PROVE FALSE
      OBVIOUS
    <3>1. e < j
      BY <1>3
    <3>2. BucketOf(t, e) = BucketOf(t, o)
      BY <1>3, <2>1, <2>2, <3>1, BucketsAreRuns
    <3>3. j \in Members(t, n, i)
      BY <1>3, <2>2, <3>2 DEF Members
    <3> QED
      BY <3>3
  <2> QED
    BY <1>1, <1>3, <2>2 DEF Members
<1> QED
  BY <1>3, <1>4, <1>7, <1>8

\* The aggregation of the driver bars up to the end of the k-th bucket is the first
\* k bars of the aggregation of all.
LEMMA HistoryIsPrefix ==
    ASSUME SeriesAssumption, BarsOK, NEW t \in BarTypes, NEW k \in 1..Len(Aggregate(t, Len(bars)))
    PROVE  LET all == Aggregate(t, Len(bars))
           IN Aggregate(t, Max({i \in DOMAIN bars : BucketOf(t, i) = all[k].at})) = SubSeq(all, 1, k)
<1> DEFINE n == Len(bars)
           O == Openers(t, n)
           all == Aggregate(t, n)
           i == Nth(O, k)
           M == Members(t, n, i)
           e == Max(M)
           T == Openers(t, e)
<1>1. n \in Nat /\ n \in 0..n /\ DOMAIN bars = 1..n
  BY DEF BarsOK
<1>2. O \in SUBSET Int /\ IsFiniteSet(O) /\ Cardinality(O) \in Nat
  BY <1>1, OpenersType
<1>3. /\ Len(all) = Cardinality(O)
      /\ \A l \in 1..Len(all) : Nth(O, l) \in O /\ Nth(O, l) \in 1..n /\ all[l] = Merged(t, n, Nth(O, l))
  BY <1>1, AggregateType
<1>4. i \in O /\ i \in 1..n /\ all[k] = Merged(t, n, i) /\ k \in 1..Cardinality(O)
  BY <1>3
<1>5. all[k].at = BucketOf(t, i)
  <2> HIDE DEF i, all
  <2> QED
    BY <1>4 DEF Merged
<1>6. {j \in DOMAIN bars : BucketOf(t, j) = all[k].at} = M
  BY <1>1, <1>5 DEF Members
<1>7. M \in SUBSET Int /\ IsFiniteSet(M) /\ M # {}
  <2> HIDE DEF i
  <2> QED
    BY <1>1, <1>4, MembersType
<1>8. e \in M /\ \A j \in M : j <= e
  <2> HIDE DEF M
  <2> QED
    BY <1>7, MaxMeans
<1> HIDE DEF i
<1>9. /\ e \in 1..n /\ i <= e /\ T = Below(O, i)
      /\ \A o \in T : Members(t, e, o) = Members(t, n, o)
  <2> HIDE DEF e
  <2> QED
    BY <1>4, <1>8, OpenersOfPart
<1>10. Cardinality(T) = k
  <2>1. Cardinality(Below(O, Nth(O, k))) = k
    <3> HIDE DEF O
    <3> QED
      BY <1>2, <1>4, NthMeans
  <2> QED
    BY <1>9, <2>1 DEF i
<1>11. \A l \in 1..k : Nth(T, l) = Nth(O, l) /\ Nth(T, l) \in T
  <2>1. T \in SUBSET O /\ T \in SUBSET Int
    BY <1>2, <1>9 DEF Below
  <2>2. \A a \in T, b \in O \ T : a < b
    <3>1. \A a \in O : a \in Int
      BY <1>2
    <3>2. i \in Int
      BY <1>4
    <3> HIDE DEF O, T
    <3> QED
      BY <1>9, <3>1, <3>2 DEF Below
  <2>3. IsFiniteSet(T)
    BY <1>2, <2>1, FS_Subset
  <2> HIDE DEF O, T
  <2>4. \A l \in 1..Cardinality(T) : Nth(T, l) = Nth(O, l)
    BY <1>2, <2>1, <2>2, NthOfPart
  <2>5. \A l \in 1..Cardinality(T) : Nth(T, l) \in T
    BY <2>1, <2>3, NthMeans
  <2> QED
    BY <1>10, <2>4, <2>5
<1> HIDE DEF e
<1>12. \A l \in 1..k : Merged(t, e, Nth(T, l)) = Merged(t, n, Nth(O, l))
  <2> TAKE l \in 1..k
  <2> DEFINE o == Nth(T, l)
  <2>1. o = Nth(O, l) /\ o \in T
    BY <1>11
  <2> HIDE DEF o
  <2>2. Members(t, e, o) = Members(t, n, o)
    BY <1>9, <2>1
  <2>3. Merged(t, e, o) = Merged(t, n, o)
    BY <2>2 DEF Merged
  <2> QED
    BY <2>1, <2>3 DEF o
<1>13. Aggregate(t, e) = [l \in 1..k |-> Merged(t, e, Nth(T, l))]
  BY <1>10 DEF Aggregate
<1>14. SubSeq(all, 1, k) = [l \in 1..k |-> all[l]]
  <2>1. all \in Seq(MergedBars) /\ k \in 1..Len(all)
    BY <1>1, AggregateType
  <2> HIDE DEF all
  <2>2. k \in Int /\ 1 <= k /\ k <= Len(all) /\ k - 1 + 1 = k
    BY <2>1
  <2>3. SubSeq(all, 1, k) = [l \in 1..k |-> all[1 + l - 1]]
    BY <2>1, <2>2, SliceIs, 1 \in Int
  <2>4. \A l \in 1..k : 1 + l - 1 = l
    BY <2>1
  <2> QED
    BY <2>3, <2>4
<1>15. \A l \in 1..k : all[l] = Merged(t, n, Nth(O, l))
  BY <1>2, <1>3, <1>4
<1> HIDE DEF all, T, O
<1>16. Aggregate(t, e) = SubSeq(all, 1, k)
  BY <1>12, <1>13, <1>14, <1>15
<1> QED
  BY <1>6, <1>16 DEF e, all

\* Selects, and what is read of a series up to one.
LEMMA UptoIs ==
    ASSUME SeriesAssumption, SeriesInv, NEW t \in BarTypes, Readable(t), NEW s \in Nat \ {0}
    PROVE  /\ Len(series[t]) - s + 1 \in Int
           /\ Len(series[t]) - s + 1 < 1 => Upto(t, s) = <<>>
           /\ Upto(t, s) \in Seq(MergedBars)
           /\ Len(Upto(t, s)) = IF Len(series[t]) - s + 1 < 1 THEN 0 ELSE Len(series[t]) - s + 1
           /\ \A i \in 1..Len(Upto(t, s)) : Upto(t, s)[i] = series[t][i] /\ i \in 1..Len(series[t])
<1> DEFINE a == series[t]
           k == Len(a) - s + 1
<1>1. a \in Seq(MergedBars) /\ Len(a) \in Nat
  BY SeriesRead
<1>2. k \in Int /\ k <= Len(a) /\ 1 <= 1 /\ 1 \in Int
  BY <1>1
<1> DEFINE u == SubSeq(a, 1, k)
<1>3. u = Upto(t, s)
  BY DEF Upto
<1> HIDE DEF a, k
<1>4. /\ u \in Seq(MergedBars) /\ Len(u) = (IF 1 <= k THEN k - 1 + 1 ELSE 0)
      /\ \A i \in 1..Len(u) : u[i] = a[1 + i - 1] /\ 1 + i - 1 \in 1..Len(a)
  BY <1>1, <1>2, SliceIs
<1>5. k < 1 => u = <<>>
  BY <1>2, SubSeqEmpty
<1> HIDE DEF u
<1>6. Len(u) = IF k < 1 THEN 0 ELSE k
  BY <1>2, <1>4
<1>7. \A i \in 1..Len(u) : u[i] = a[i] /\ i \in 1..Len(a)
  <2>1. \A i \in 1..Len(u) : 1 + i - 1 = i
    OBVIOUS
  <2> QED
    BY <1>4, <2>1
<1>8. /\ k \in Int /\ (k < 1 => u = <<>>) /\ u \in Seq(MergedBars)
      /\ Len(u) = (IF k < 1 THEN 0 ELSE k)
      /\ \A i \in 1..Len(u) : u[i] = a[i] /\ i \in 1..Len(a)
  BY <1>2, <1>4, <1>5, <1>6, <1>7
<1> QED
  BY <1>3, <1>8 DEF a, k

\* Every answer ends at the bar it was asked for: the aggregation of the driver bars up
\* to the end of the bar that select names is what the readers see of the series.
LEMMA AnswersEnd == ASSUME SeriesAssumption, IndicatorsAssumption, SeriesInv
                    PROVE  AnswersEndAtTheirBar
<1> SUFFICES ASSUME NEW t \in BarTypes, NEW select \in Selects, Readable(t)
             PROVE  LET all == Aggregate(t, Len(bars))
                        k == Len(all) - select + 1
                        history == Aggregate(t, Max({i \in DOMAIN bars : BucketOf(t, i) = all[k].at}))
                    IN IF k < 1 THEN Upto(t, select) = <<>> /\ BarValue(t, "close", select) = NaN
                       ELSE /\ Upto(t, select) = history
                            /\ \A f \in BarFields : BarValue(t, f, select) = Last(history)[f]
  BY DEF AnswersEndAtTheirBar
<1> DEFINE all == Aggregate(t, Len(bars))
           k == Len(all) - select + 1
           history == Aggregate(t, Max({i \in DOMAIN bars : BucketOf(t, i) = all[k].at}))
<1>1. select \in Nat \ {0}
  BY DEF IndicatorsAssumption
<1>2. series[t] = all /\ all \in Seq(MergedBars) /\ Len(all) \in Nat /\ BarsOK
  BY SeriesRead
<1>3. /\ k \in Int /\ (k < 1 => Upto(t, select) = <<>>)
      /\ Len(Upto(t, select)) = (IF k < 1 THEN 0 ELSE k)
      /\ \A i \in 1..Len(Upto(t, select)) : Upto(t, select)[i] = all[i]
  <2>1. series[t] = all
    BY <1>2
  <2>2. /\ Len(series[t]) - select + 1 \in Int
        /\ Len(series[t]) - select + 1 < 1 => Upto(t, select) = <<>>
        /\ Len(Upto(t, select)) =
              (IF Len(series[t]) - select + 1 < 1 THEN 0 ELSE Len(series[t]) - select + 1)
        /\ \A i \in 1..Len(Upto(t, select)) : Upto(t, select)[i] = series[t][i]
    BY ONLY SeriesAssumption, SeriesInv, t \in BarTypes, Readable(t), <1>1, UptoIs
  <2> HIDE DEF all
  <2> QED
    BY <2>1, <2>2
<1>4. CASE k < 1
  <2>1. Len(series[t]) < select
    BY <1>1, <1>2, <1>4
  <2> QED
    BY <1>3, <1>4, <2>1 DEF BarValue
<1>5. CASE ~(k < 1)
  <2>1. k \in 1..Len(all)
    BY <1>1, <1>2, <1>5
  <2>2. history = SubSeq(all, 1, k)
    BY <1>2, <2>1, HistoryIsPrefix
  <2>3. Upto(t, select) = SubSeq(all, 1, k)
    BY <1>2 DEF Upto
  <2> HIDE DEF history, all
  <2>4. Last(history) = all[k]
    <3>1. Len(Upto(t, select)) = k
      BY <1>3, <1>5
    <3>2. k \in 1..k
      BY <2>1
    <3> QED
      BY <1>3, <2>2, <2>3, <3>1, <3>2 DEF Last
  <2>5. ~(Len(series[t]) < select)
    BY <1>1, <1>2, <1>5
  <2>6. \A f : BarValue(t, f, select) = all[k][f]
    BY <1>2, <2>5 DEF BarValue
  <2> QED
    BY <1>5, <2>2, <2>3, <2>4, <2>6 DEF history, all
<1> QED
  BY <1>4, <1>5

-----------------------------------------------------------------------------
(* The bars of consecutive buckets *)

\* The bar that opens the k-th bucket of all driver bars, and the bars of it.
OpenerOf(t, k) == Nth(Openers(t, Len(bars)), k)
BarsOf(t, k) == Members(t, Len(bars), OpenerOf(t, k))

\* The k-th bar of a series is merged of the driver bars of one bucket.
LEMMA BucketBars ==
    ASSUME SeriesAssumption, SeriesInv, NEW t \in BarTypes, Readable(t),
           NEW k \in 1..Len(series[t])
    PROVE  /\ OpenerOf(t, k) \in 1..Len(bars) /\ OpenerOf(t, k) \in Openers(t, Len(bars))
           /\ OpenerOf(t, k) \in BarsOf(t, k)
           /\ BarsOf(t, k) \in SUBSET (1..Len(bars)) /\ BarsOf(t, k) \in SUBSET Int
           /\ IsFiniteSet(BarsOf(t, k)) /\ Cardinality(BarsOf(t, k)) \in Nat
           /\ series[t][k] = Merged(t, Len(bars), OpenerOf(t, k))
           /\ \A j \in 1..Len(bars) : j \in BarsOf(t, k) <=> BucketOf(t, j) = series[t][k].at
           /\ \A j \in BarsOf(t, k) : OpenerOf(t, k) <= j
<1> DEFINE n == Len(bars)
           o == OpenerOf(t, k)
           M == BarsOf(t, k)
<1>1. BarsOK /\ n \in Nat /\ o \in Openers(t, n) /\ o \in 1..n /\ series[t][k] = Merged(t, n, o)
  BY SeriesRead DEF OpenerOf
<1>2. M = Members(t, n, o) /\ n \in 0..n
  BY <1>1 DEF BarsOf
<1> HIDE DEF o
<1>3. o \in M /\ M \in SUBSET (1..n) /\ M \in SUBSET Int /\ IsFiniteSet(M) /\ Cardinality(M) \in Nat
  BY <1>1, <1>2, MembersType
<1>4. series[t][k].at = BucketOf(t, o)
  BY <1>1 DEF Merged
<1>5. \A j \in 1..n : j \in M <=> BucketOf(t, j) = series[t][k].at
  BY <1>2, <1>4 DEF Members
<1>6. ASSUME NEW j \in M PROVE o <= j
  <2>1. j \in 1..n /\ BucketOf(t, j) = BucketOf(t, o)
    BY <1>3, <1>4, <1>5
  <2>2. ASSUME j < o PROVE FALSE
    <3>1. j \in 1..(o - 1)
      BY <1>1, <2>1, <2>2
    <3> QED
      BY <1>1, <2>1, <3>1 DEF Openers
  <2> QED
    BY <1>1, <2>1, <2>2
<1> HIDE DEF M
<1>7. /\ o \in 1..n /\ o \in Openers(t, n) /\ o \in M /\ M \in SUBSET (1..n) /\ M \in SUBSET Int
      /\ IsFiniteSet(M) /\ Cardinality(M) \in Nat /\ series[t][k] = Merged(t, n, o)
      /\ \A j \in 1..n : j \in M <=> BucketOf(t, j) = series[t][k].at
      /\ \A j \in M : o <= j
  BY <1>1, <1>3, <1>5, <1>6
<1> QED
  BY <1>7 DEF o, M

\* The bars of an earlier bucket all come before those of a later one.
LEMMA BucketsInOrder ==
    ASSUME SeriesAssumption, SeriesInv, NEW t \in BarTypes, Readable(t),
           NEW k \in 1..Len(series[t]), NEW l \in 1..Len(series[t]), k < l,
           NEW i \in BarsOf(t, k), NEW j \in BarsOf(t, l)
    PROVE  OpenerOf(t, k) < OpenerOf(t, l) /\ i < OpenerOf(t, l) /\ OpenerOf(t, l) <= j /\ i < j
<1> DEFINE n == Len(bars)
           a == OpenerOf(t, k)
           b == OpenerOf(t, l)
<1>1. BarsOK /\ n \in Nat /\ Len(series[t]) = Cardinality(Openers(t, n))
  BY SeriesRead
<1>2. Openers(t, n) \in SUBSET Int /\ IsFiniteSet(Openers(t, n))
  BY <1>1, OpenersType
<1>3. a < b
  <2>1. Nth(Openers(t, n), k) < Nth(Openers(t, n), l)
    BY <1>1, <1>2, NthGrows
  <2> QED
    BY <2>1 DEF OpenerOf
<1>4. /\ a \in 1..n /\ b \in 1..n /\ i \in 1..n /\ j \in 1..n /\ b <= j
      /\ a \in Openers(t, n) /\ b \in Openers(t, n)
  BY BucketBars
<1>5. BucketOf(t, i) = BucketOf(t, a)
  BY <1>4, BucketBars
<1> HIDE DEF a, b
<1>6. ASSUME ~(i < b) PROVE FALSE
  <2>1. a <= b /\ b <= i
    BY <1>3, <1>4, <1>6
  <2>2. BucketOf(t, b) = BucketOf(t, a)
    BY <1>1, <1>4, <1>5, <2>1, BucketsAreRuns
  <2>3. b = a
    BY <1>1, <1>4, <2>2, BucketOpensOnce
  <2> QED
    BY <1>3, <1>4, <2>3
<1>7. i < b /\ b <= j /\ i < j
  BY <1>4, <1>6
<1> QED
  BY <1>3, <1>7 DEF a, b

\* The driver bars of the buckets from the l-th to the h-th.
Together(t, l, h) == {i \in DOMAIN bars : BucketOf(t, i) \in {series[t][k].at : k \in l..h}}

\* The bars of consecutive buckets run from the first's opener to the last's last.
LEMMA TogetherIs ==
    ASSUME SeriesAssumption, SeriesInv, NEW t \in BarTypes, Readable(t),
           NEW l \in 1..Len(series[t]), NEW h \in 1..Len(series[t]), l <= h
    PROVE  /\ \A i : i \in Together(t, l, h) <=> \E k \in l..h : i \in BarsOf(t, k)
           /\ Together(t, l, h) \in SUBSET (1..Len(bars)) /\ Together(t, l, h) \in SUBSET Int
           /\ IsFiniteSet(Together(t, l, h)) /\ Together(t, l, h) # {}
           /\ Min(Together(t, l, h)) = OpenerOf(t, l)
           /\ Max(Together(t, l, h)) = Max(BarsOf(t, h))
<1> DEFINE n == Len(bars)
           T == Together(t, l, h)
<1>1. n \in Nat /\ DOMAIN bars = 1..n /\ Len(series[t]) \in Nat
  BY SeriesRead DEF BarsOK
<1>2. \A k \in l..h : k \in 1..Len(series[t])
  BY <1>1
<1>3. \A i : i \in T <=> \E k \in l..h : i \in BarsOf(t, k)
  <2>1. \A k \in l..h : /\ BarsOf(t, k) \in SUBSET (1..n)
                        /\ \A j \in 1..n : j \in BarsOf(t, k) <=> BucketOf(t, j) = series[t][k].at
    BY <1>2, BucketBars
  <2> QED
    BY <1>1, <2>1 DEF Together
<1>4. T \in SUBSET (1..n) /\ T \in SUBSET Int
  BY <1>1 DEF Together
<1>5. IsFiniteSet(T)
  <2>1. IsFiniteSet(1..n)
    BY <1>1, FS_Interval, 1 \in Int
  <2> QED
    BY <1>4, <2>1, FS_Subset
<1>6. l \in l..h /\ h \in l..h
  BY <1>1
<1> DEFINE a == OpenerOf(t, l)
           M == BarsOf(t, h)
           z == Max(M)
<1>7. a \in BarsOf(t, l) /\ a \in T
  <2>1. a \in BarsOf(t, l)
    BY BucketBars
  <2> QED
    BY <2>1, <1>3, <1>6
<1>8. z \in M /\ \A j \in M : j <= z
  <2>1. M \in SUBSET Int /\ IsFiniteSet(M) /\ M # {}
    BY BucketBars
  <2> HIDE DEF M
  <2> QED
    BY <2>1, MaxMeans
<1>9. z \in T
  <2> HIDE DEF z, T
  <2> QED
    BY <1>3, <1>6, <1>8
<1> HIDE DEF z
<1>10. ASSUME NEW i \in T PROVE a <= i /\ i <= z
  <2>1. PICK k \in l..h : i \in BarsOf(t, k)
    BY <1>3
  <2>2. k \in 1..Len(series[t]) /\ (k = l \/ l < k) /\ (k = h \/ k < h)
    BY <1>1, <1>2
  <2>3. i \in Int /\ a \in Int /\ z \in Int
    BY <1>4, <1>7, <1>9
  <2>4. a <= i
    <3>1. CASE k = l
      BY <2>1, <3>1, BucketBars
    <3>2. CASE l < k
      <4>1. a < i
        BY <1>7, <2>1, <2>2, <3>2, BucketsInOrder
      <4> HIDE DEF a
      <4> QED
        BY <2>3, <4>1
    <3> QED
      BY <2>2, <3>1, <3>2
  <2>5. i <= z
    <3>1. CASE k = h
      BY <2>1, <3>1, <1>8
    <3>2. CASE k < h
      <4>1. i < z
        BY <1>8, <2>1, <2>2, <3>2, BucketsInOrder
      <4> QED
        BY <2>3, <4>1
    <3> QED
      BY <2>2, <3>1, <3>2
  <2> QED
    BY <2>4, <2>5
<1> HIDE DEF a, T
<1>11. Min(T) = a /\ Max(T) = z
  <2>1. a \in T /\ z \in T /\ T \in SUBSET Int
    BY <1>4, <1>7, <1>9
  <2>2. \A i \in T : a <= i /\ i <= z
    BY <1>10
  <2> QED
    BY <2>1, <2>2, MinIs, MaxIs
<1>12. /\ \A i : i \in T <=> \E k \in l..h : i \in BarsOf(t, k)
       /\ T \in SUBSET (1..n) /\ T \in SUBSET Int /\ IsFiniteSet(T) /\ T # {} /\ Min(T) = a /\ Max(T) = z
  BY <1>3, <1>4, <1>5, <1>7, <1>11
<1> QED
  BY <1>12 DEF T, a, z

\* The highest of some highest prices is the highest price.
LEMMA TogetherPrices ==
    ASSUME SeriesAssumption, SeriesInv, NEW t \in BarTypes, Readable(t),
           NEW l \in 1..Len(series[t]), NEW h \in 1..Len(series[t]), l <= h
    PROVE  /\ Max(PricesOf(Together(t, l, h))) = Max({series[t][k].high : k \in l..h})
           /\ Min(PricesOf(Together(t, l, h))) = Min({series[t][k].low : k \in l..h})
<1> DEFINE n == Len(bars)
           T == Together(t, l, h)
           a == series[t]
           H == {a[k].high : k \in l..h}
           L == {a[k].low : k \in l..h}
<1>1. BarsOK /\ n \in Nat /\ Len(a) \in Nat
  BY SeriesRead
<1>2. \A k \in l..h : k \in 1..Len(a)
  BY <1>1
<1>3. ASSUME NEW k \in l..h
      PROVE  /\ a[k].high = Max(PricesOf(BarsOf(t, k))) /\ a[k].low = Min(PricesOf(BarsOf(t, k)))
             /\ PricesOf(BarsOf(t, k)) \in SUBSET Int
             /\ a[k].high \in PricesOf(BarsOf(t, k)) /\ a[k].low \in PricesOf(BarsOf(t, k))
             /\ \A p \in PricesOf(BarsOf(t, k)) : p <= a[k].high /\ a[k].low <= p
  <2> DEFINE M == BarsOf(t, k)
  <2>1. k \in 1..Len(a)
    BY <1>2
  <2>2. M \in SUBSET (1..n) /\ IsFiniteSet(M) /\ M # {} /\ a[k] = Merged(t, n, OpenerOf(t, k))
    BY <2>1, BucketBars
  <2>3. M = Members(t, n, OpenerOf(t, k))
    BY DEF BarsOf
  <2> HIDE DEF M
  <2>4. PricesOf(M) \in SUBSET Int /\ IsFiniteSet(PricesOf(M)) /\ PricesOf(M) # {}
    BY <1>1, <2>2, PricesType
  <2>5. a[k].high = Max(PricesOf(M)) /\ a[k].low = Min(PricesOf(M))
    BY <2>2, <2>3, MergedIs
  <2>6. /\ Max(PricesOf(M)) \in PricesOf(M) /\ \A p \in PricesOf(M) : p <= Max(PricesOf(M))
        /\ Min(PricesOf(M)) \in PricesOf(M) /\ \A p \in PricesOf(M) : Min(PricesOf(M)) <= p
    BY <2>4, MaxMeans, MinMeans
  <2> QED
    BY <2>4, <2>5, <2>6 DEF M
<1>4. \A i : i \in T <=> \E k \in l..h : i \in BarsOf(t, k)
  BY TogetherIs
<1>5. \A p : p \in PricesOf(T) <=> \E k \in l..h : p \in PricesOf(BarsOf(t, k))
  <2> HIDE DEF T
  <2> QED
    BY <1>4 DEF PricesOf
<1>6. T \in SUBSET (1..n) /\ IsFiniteSet(T) /\ T # {}
  BY TogetherIs
<1> HIDE DEF T
<1>7. PricesOf(T) \in SUBSET Int /\ IsFiniteSet(PricesOf(T)) /\ PricesOf(T) # {}
  BY <1>1, <1>6, PricesType
<1> DEFINE P == PricesOf(T)
           u == Max(P)
           v == Min(P)
<1>8. u \in P /\ v \in P /\ \A p \in P : p <= u /\ v <= p
  <2>1. P \in SUBSET Int /\ IsFiniteSet(P) /\ P # {}
    BY <1>7
  <2> HIDE DEF P
  <2> QED
    BY <2>1, MaxMeans, MinMeans
<1> HIDE DEF u, v, P
<1>9. H \in SUBSET Int /\ L \in SUBSET Int /\ H \in SUBSET P /\ L \in SUBSET P
  <2>1. \A k \in l..h : a[k].high \in P /\ a[k].low \in P /\ a[k].high \in Int /\ a[k].low \in Int
    BY <1>3, <1>5 DEF P
  <2> QED
    BY <2>1
<1>10. Max(H) = u
  <2>1. PICK k \in l..h : u \in PricesOf(BarsOf(t, k))
    BY <1>5, <1>8 DEF P
  <2>2. u <= a[k].high /\ a[k].high <= u /\ a[k].high \in Int /\ u \in Int
    BY <1>3, <1>5, <1>7, <1>8, <2>1 DEF P
  <2>3. u = a[k].high
    BY <2>2
  <2>4. u \in H
    BY <2>3
  <2>5. \A x \in H : x <= u
    BY <1>8, <1>9
  <2> HIDE DEF H
  <2> QED
    BY <1>9, <2>4, <2>5, MaxIs
<1>11. Min(L) = v
  <2>1. PICK k \in l..h : v \in PricesOf(BarsOf(t, k))
    BY <1>5, <1>8 DEF P
  <2>2. v <= a[k].low /\ a[k].low <= v /\ a[k].low \in Int /\ v \in Int
    BY <1>3, <1>5, <1>7, <1>8, <2>1 DEF P
  <2>3. v = a[k].low
    BY <2>2
  <2>4. v \in L
    BY <2>3
  <2>5. \A x \in L : v <= x
    BY <1>8, <1>9
  <2> HIDE DEF L
  <2> QED
    BY <1>9, <2>4, <2>5, MinIs
<1> QED
  BY <1>10, <1>11 DEF u, v, P, T

\* Folding a sequence with + sums it.
LEMMA FoldIsSum ==
    ASSUME NEW values
    PROVE  FoldSeq(+, 0, values) = SumFunctionOnSet(values, DOMAIN values)
BY Zenon DEF FoldSeq, FoldFunction, SumFunctionOnSet

\* The volumes of consecutive buckets count their bars.
LEMMA TogetherVolume ==
    ASSUME SeriesAssumption, SeriesInv, NEW t \in BarTypes, Readable(t),
           NEW l \in 1..Len(series[t]), NEW n \in Nat \ {0}, l + n - 1 \in 1..Len(series[t]),
           NEW g, \A i \in 1..n : g[i] = series[t][l + i - 1].volume
    PROVE  SumFunctionOnSet(g, 1..n) = Cardinality(Together(t, l, l + n - 1))
<1> DEFINE c == Len(series[t])
           S(m) == SumFunctionOnSet(g, 1..m)
           T(m) == Together(t, l, l + m - 1)
           A == {m \in Nat : 1 <= m /\ m <= n => S(m) = Cardinality(T(m))}
<1>1. c \in Nat
  BY SeriesRead
<1>2. ASSUME NEW i \in 1..n
      PROVE  /\ l + i - 1 \in 1..c /\ g[i] = Cardinality(BarsOf(t, l + i - 1)) /\ g[i] \in Nat
             /\ IsFiniteSet(BarsOf(t, l + i - 1))
  <2>1. l + i - 1 \in 1..c
    BY <1>1
  <2>2. series[t][l + i - 1].volume = Cardinality(BarsOf(t, l + i - 1))
    <3>1. series[t][l + i - 1] = Merged(t, Len(bars), OpenerOf(t, l + i - 1))
      BY <2>1, BucketBars
    <3> QED
      BY <3>1, MergedIs DEF BarsOf
  <2>3. Cardinality(BarsOf(t, l + i - 1)) \in Nat /\ IsFiniteSet(BarsOf(t, l + i - 1))
    BY <2>1, BucketBars
  <2>4. g[i] = series[t][l + i - 1].volume
    OBVIOUS
  <2> QED
    BY ONLY <2>1, <2>2, <2>3, <2>4
<1>3. \A m \in 1..n : \A i : i \in T(m) <=> \E k \in l..(l + m - 1) : i \in BarsOf(t, k)
  <2> TAKE m \in 1..n
  <2> DEFINE h == l + m - 1
  <2>1. h \in 1..c /\ l <= h
    BY <1>1, <1>2
  <2> HIDE DEF h
  <2>2. \A i : i \in Together(t, l, h) <=> \E k \in l..h : i \in BarsOf(t, k)
    BY <2>1, TogetherIs
  <2> QED
    BY <2>2 DEF h
<1>4. \A m \in 1..n : IsFiniteSet(T(m))
  <2> TAKE m \in 1..n
  <2> DEFINE h == l + m - 1
  <2>1. h \in 1..c /\ l <= h
    BY <1>1, <1>2
  <2> HIDE DEF h
  <2>2. IsFiniteSet(Together(t, l, h))
    BY <2>1, TogetherIs
  <2> QED
    BY <2>2 DEF h
<1> HIDE DEF T
<1>5. 0 \in A
  OBVIOUS
<1>6. ASSUME NEW m \in A PROVE m + 1 \in A
  <2> SUFFICES ASSUME m + 1 <= n PROVE S(m + 1) = Cardinality(T(m + 1))
    OBVIOUS
  <2>0. m \in Nat /\ m + 1 \in 1..n /\ l + (m + 1) - 1 = l + m
    OBVIOUS
  <2>1. CASE m = 0
    <3>1. 1..(m + 1) = {1} /\ m + 1 = 1 /\ 1 \in 1..n
      BY <2>0, <2>1
    <3>2. l..(l + 1 - 1) = {l} /\ l + 1 - 1 = l
      OBVIOUS
    <3>3. T(1) = BarsOf(t, l)
      <4>1. \A i : i \in T(1) <=> \E k \in l..(l + 1 - 1) : i \in BarsOf(t, k)
        BY <1>3, <3>1
      <4>2. \A i : i \in T(1) <=> i \in BarsOf(t, l)
        BY <3>2, <4>1
      <4> QED
        BY ONLY <4>2
    <3>4. g[1] = Cardinality(BarsOf(t, l)) /\ g[1] \in Int
      BY <1>2, <3>1, <3>2
    <3>5. SumFunctionOnSet(g, {1}) = g[1]
      <4>1. IsFiniteSet({1}) /\ 1 \in {1} /\ \A s \in {1} \ {1} : g[s] = 0
        BY FS_Singleton
      <4> QED
        BY <3>4, <4>1, SumOfOne
    <3> QED
      BY <3>1, <3>3, <3>4, <3>5
  <2>2. CASE m # 0
    <3>1. m \in 1..n /\ S(m) = Cardinality(T(m))
      BY <2>0, <2>2
    <3> DEFINE M == BarsOf(t, l + m)
    <3>2. \A k : k \in l..(l + (m + 1) - 1) <=> k \in l..(l + m - 1) \/ k = l + m
      <4>1. l \in Int /\ m \in Int /\ 1 <= m
        BY <3>1
      <4> DEFINE p == l + m
      <4>2. l + (m + 1) - 1 = p /\ l + m - 1 = p - 1 /\ p \in Int /\ l <= p
        BY <4>1
      <4> HIDE DEF p
      <4>3. \A k : k \in l..p <=> k \in l..(p - 1) \/ k = p
        BY ONLY <4>1, <4>2
      <4> QED
        BY <4>2, <4>3 DEF p
    <3>3. T(m + 1) = T(m) \cup M
      <4>1. \A i : i \in T(m) <=> \E k \in l..(l + m - 1) : i \in BarsOf(t, k)
        BY <1>3, <3>1
      <4>2. \A i : i \in T(m + 1) <=> \E k \in l..(l + (m + 1) - 1) : i \in BarsOf(t, k)
        BY <1>3, <2>0
      <4>3. \A i : i \in T(m + 1) <=> i \in T(m) \cup M
        BY ONLY <3>2, <4>1, <4>2
      <4> QED
        BY ONLY <4>3
    <3>4. T(m) \cap M = {}
      <4> SUFFICES ASSUME NEW i \in T(m), i \in M PROVE FALSE
        OBVIOUS
      <4>1. PICK k \in l..(l + m - 1) : i \in BarsOf(t, k)
        BY <1>3, <3>1
      <4>2. k \in 1..c /\ l + m \in 1..c /\ k < l + m
        <5>1. l + m \in 1..c
          BY <1>2, <2>0
        <5> QED
          BY <5>1, <1>1, <2>0
      <4>3. i < i /\ i \in Int
        BY <4>1, <4>2, BucketsInOrder, BucketBars
      <4> QED
        BY <4>3
    <3>5. g[m + 1] = Cardinality(M) /\ g[m + 1] \in Int /\ IsFiniteSet(M)
      BY <1>2, <2>0
    <3>6. IsFiniteSet(T(m)) /\ Cardinality(T(m)) \in Nat
      BY <1>4, <3>1, FS_CardinalityType
    <3> HIDE DEF M
    <3>7. Cardinality(T(m) \cup M) = Cardinality(T(m)) + Cardinality(M)
      <4>1. Cardinality(T(m) \cup M) = Cardinality(T(m)) + Cardinality(M) - Cardinality(T(m) \cap M)
        BY <3>5, <3>6, FS_Union
      <4>2. Cardinality(T(m) \cap M) = 0
        BY <3>4, FS_EmptySet
      <4>3. Cardinality(M) \in Int
        BY <3>5
      <4> QED
        BY ONLY <3>6, <4>1, <4>2, <4>3
    <3>8. 1..(m + 1) = 1..m \cup {m + 1} /\ m + 1 \notin 1..m
      BY <2>0
    <3>9. S(m + 1) = S(m) + g[m + 1]
      <4>1. IsFiniteSet(1..m)
        BY <2>0, FS_Interval, 1 \in Int, m \in Int
      <4>2. \A i \in 1..m \cup {m + 1} : g[i] \in Int
        <5>1. \A i \in 1..m \cup {m + 1} : i \in 1..n
          BY <2>0
        <5> QED
          BY <5>1, <1>2
      <4>3. SumFunctionOnSet(g, 1..m \cup {m + 1}) = SumFunctionOnSet(g, 1..m) + g[m + 1]
        BY <3>8, <4>1, <4>2, SumAdds
      <4> QED
        BY ONLY <3>8, <4>3
    <3> QED
      BY <3>1, <3>3, <3>5, <3>7, <3>9
  <2> QED
    BY <2>1, <2>2
<1> HIDE DEF S
<1>7. A \in SUBSET Nat
  OBVIOUS
<1> HIDE DEF A
<1>8. A = Nat
  BY <1>5, <1>6, <1>7, NatInduct
<1>9. S(n) = Cardinality(T(n))
  BY <1>8 DEF A
<1> QED
  BY <1>9 DEF S, T

\* The windows of a custom bar.
LEMMA CustomWindow ==
    ASSUME SeriesAssumption, SeriesInv, NEW t \in BarTypes, Readable(t),
           NEW n \in Nat \ {0}, NEW select, NEW e \in n..Len(series[t]),
           CustomEnd(t, n, select) = e
    PROVE  LET T == Together(t, e - n + 1, e)
           IN /\ BarCustom(t, "open", n, select) = bars[Min(T)].price
              /\ BarCustom(t, "high", n, select) = Max(PricesOf(T))
              /\ BarCustom(t, "low", n, select) = Min(PricesOf(T))
              /\ BarCustom(t, "close", n, select) = bars[Max(T)].price
              /\ BarCustom(t, "volume", n, select) = Cardinality(T)
              /\ CustomChange(t, n, select) =
                    IF Min(T) = 1 THEN NaN ELSE bars[Max(T)].price - bars[Min(T) - 1].price
<1> DEFINE a == series[t]
           l == e - n + 1
           w == SubSeq(a, l, e)
           T == Together(t, l, e)
           o == OpenerOf(t, l)
           z == Max(BarsOf(t, e))
<1>1. a \in Seq(MergedBars) /\ Len(a) \in Nat /\ BarsOK /\ Len(bars) \in Nat
  BY SeriesRead
<1>2. /\ l \in 1..Len(a) /\ e \in 1..Len(a) /\ l <= e /\ e \in Int /\ n \in Nat /\ 1 <= n /\ n <= e
      /\ l + n - 1 = e /\ e - l + 1 = n
  BY <1>1
<1>3. ~(e < n)
  BY <1>2
<1> HIDE DEF l
<1>4. /\ w \in Seq(MergedBars) /\ Len(w) = n /\ \A i \in 1..n : w[i] = a[l + i - 1]
      /\ DOMAIN w = 1..n
  <2>1. a \in Seq(MergedBars) /\ l \in Int /\ e \in Int /\ 1 <= l /\ e <= Len(a)
    BY <1>1, <1>2
  <2> HIDE DEF a
  <2>2. /\ w \in Seq(MergedBars) /\ DOMAIN w = 1..Len(w)
        /\ Len(w) = (IF l <= e THEN e - l + 1 ELSE 0)
        /\ \A i \in 1..Len(w) : w[i] = a[l + i - 1]
    BY ONLY <2>1, SliceIs
  <2> HIDE DEF w
  <2>3. Len(w) = n
    BY ONLY <1>2, <2>2
  <2> QED
    BY ONLY <2>2, <2>3
<1>5. Min(T) = o /\ Max(T) = z /\ T \in SUBSET (1..Len(bars))
  BY <1>2, TogetherIs
<1>6. a[l] = Merged(t, Len(bars), o) /\ a[e] = Merged(t, Len(bars), OpenerOf(t, e)) /\ o \in 1..Len(bars)
  BY <1>2, BucketBars
<1>7. a[l].open = bars[o].price /\ a[l].last = IF o = 1 THEN 0 ELSE bars[o - 1].price
  <2> HIDE DEF o
  <2> QED
    BY <1>6, MergedIs
<1>8. a[e].close = bars[z].price
  <2>1. a[e].close = bars[Max(Members(t, Len(bars), OpenerOf(t, e)))].price
    BY <1>6, MergedIs
  <2> QED
    BY <2>1 DEF BarsOf
<1>9. w[1] = a[l] /\ Last(w) = a[e]
  <2>1. l + 1 - 1 = l /\ l + n - 1 = e /\ 1 \in 1..n /\ n \in 1..n
    BY <1>2
  <2> HIDE DEF w
  <2> QED
    BY <1>4, <2>1 DEF Last
<1>10. ASSUME NEW f PROVE {w[i][f] : i \in 1..n} = {a[k][f] : k \in l..e}
  <2>1. \A i \in 1..n : l + i - 1 \in l..e
    BY <1>2
  <2>2. \A k \in l..e : k - l + 1 \in 1..n /\ l + (k - l + 1) - 1 = k
    BY <1>2
  <2> HIDE DEF w, a
  <2> QED
    BY <1>4, <2>1, <2>2
<1>11. Max({w[i].high : i \in 1..n}) = Max(PricesOf(T)) /\ Min({w[i].low : i \in 1..n}) = Min(PricesOf(T))
  <2>1. {w[i].high : i \in 1..n} = {a[k].high : k \in l..e}
    BY <1>10
  <2>2. {w[i].low : i \in 1..n} = {a[k].low : k \in l..e}
    BY <1>10
  <2>3. /\ Max(PricesOf(T)) = Max({a[k].high : k \in l..e})
        /\ Min(PricesOf(T)) = Min({a[k].low : k \in l..e})
    BY ONLY SeriesAssumption, SeriesInv, t \in BarTypes, Readable(t), <1>2, TogetherPrices
  <2> QED
    BY ONLY <2>1, <2>2, <2>3
<1>12. FoldSeq(+, 0, Field(w, "volume")) = Cardinality(T)
  <2> DEFINE g == Field(w, "volume")
  <2>1. DOMAIN g = 1..n /\ \A i \in 1..n : g[i] = a[l + i - 1].volume
    BY <1>4 DEF Field
  <2>2. l + n - 1 \in 1..Len(a) /\ n \in Nat \ {0}
    BY <1>2
  <2> HIDE DEF g
  <2>3. SumFunctionOnSet(g, 1..n) = Cardinality(Together(t, l, l + n - 1))
    <3>1. \A i \in 1..n : g[i] = series[t][l + i - 1].volume
      BY <2>1
    <3>2. l \in 1..Len(series[t]) /\ l + n - 1 \in 1..Len(series[t]) /\ n \in Nat \ {0}
      BY <1>2
    <3> HIDE DEF a
    <3> QED
      BY ONLY SeriesAssumption, SeriesInv, t \in BarTypes, Readable(t), <3>1, <3>2, TogetherVolume
  <2>4. FoldSeq(+, 0, g) = SumFunctionOnSet(g, DOMAIN g)
    BY FoldIsSum
  <2> QED
    BY <1>2, <2>1, <2>3, <2>4 DEF g
<1>13. /\ BarCustom(t, "open", n, select) = w[1].open
       /\ BarCustom(t, "high", n, select) = Max({w[i]["high"] : i \in 1..n})
       /\ BarCustom(t, "low", n, select) = Min({w[i]["low"] : i \in 1..n})
       /\ BarCustom(t, "close", n, select) = Last(w).close
       /\ BarCustom(t, "volume", n, select) = FoldSeq(+, 0, Field(w, "volume"))
  BY <1>3, Zenon DEF BarCustom, l
<1>14. CustomChange(t, n, select) = IF a[l].last = 0 THEN NaN ELSE a[e].close - a[l].last
  BY <1>3 DEF CustomChange, l
<1>15. a[l].last = 0 <=> o = 1
  <2>1. CASE o = 1
    BY <1>7, <2>1
  <2>2. CASE o # 1
    <3>1. o - 1 \in 1..Len(bars)
      BY <1>1, <1>6, <2>2
    <3>2. bars[o - 1].price \in Nat \ {0}
      BY <1>1, <3>1, BarFacts
    <3> QED
      BY <1>7, <2>2, <3>2
  <2> QED
    BY <2>1, <2>2
<1> HIDE DEF w, T, o, z, a
<1>16. CustomChange(t, n, select) = IF o = 1 THEN NaN ELSE bars[z].price - bars[o - 1].price
  BY <1>7, <1>8, <1>14, <1>15
<1>17. /\ BarCustom(t, "open", n, select) = bars[Min(T)].price
       /\ BarCustom(t, "high", n, select) = Max(PricesOf(T))
       /\ BarCustom(t, "low", n, select) = Min(PricesOf(T))
       /\ BarCustom(t, "close", n, select) = bars[Max(T)].price
       /\ BarCustom(t, "volume", n, select) = Cardinality(T)
       /\ CustomChange(t, n, select) =
             IF Min(T) = 1 THEN NaN ELSE bars[Max(T)].price - bars[Min(T) - 1].price
  BY <1>5, <1>7, <1>8, <1>9, <1>11, <1>12, <1>13, <1>16
<1> QED
  BY <1>17 DEF T, l

\* A custom bar of n bars is merged of all the driver bars in their buckets.
LEMMA CustomBarsMerge == ASSUME SeriesAssumption, IndicatorsAssumption, SeriesInv
                         PROVE  CustomBarsAreMerged
<1> SUFFICES ASSUME NEW t \in BarTypes, NEW n \in Periods, NEW select \in Selects, Readable(t)
             PROVE  LET all == Aggregate(t, Len(bars))
                        last == Len(all) - (select - 1) * n
                        member == {i \in DOMAIN bars :
                                     BucketOf(t, i) \in {all[k].at : k \in (last - n + 1)..last}}
                        price == {bars[i].price : i \in member}
                        custom(f) == BarCustom(t, f, n, select)
                    IN IF last < n THEN custom("close") = NaN
                       ELSE /\ custom("open") = bars[Min(member)].price
                            /\ custom("high") = Max(price) /\ custom("low") = Min(price)
                            /\ custom("close") = bars[Max(member)].price
                            /\ custom("volume") = Cardinality(member)
                            /\ CustomChange(t, n, select) =
                                  IF Min(member) = 1 THEN NaN
                                  ELSE bars[Max(member)].price - bars[Min(member) - 1].price
  BY DEF CustomBarsAreMerged
<1> DEFINE all == Aggregate(t, Len(bars))
           last == Len(all) - (select - 1) * n
           member == {i \in DOMAIN bars :
                        BucketOf(t, i) \in {all[k].at : k \in (last - n + 1)..last}}
           price == {bars[i].price : i \in member}
           custom(f) == BarCustom(t, f, n, select)
<1>1. n \in Nat \ {0} /\ select \in Nat \ {0}
  BY DEF IndicatorsAssumption
<1>2. series[t] = all /\ Len(all) \in Nat
  BY SeriesRead
<1>3. CustomEnd(t, n, select) = last
  BY <1>2 DEF CustomEnd
<1> HIDE DEF all
<1>4. last \in Int /\ last <= Len(all)
  <2>1. (select - 1) * n \in Nat
    <3>1. select - 1 \in Nat
      BY <1>1
    <3> DEFINE x == select - 1
    <3>2. x \in Nat
      BY <3>1
    <3> HIDE DEF x
    <3>3. x * n \in Nat
      BY <1>1, <3>2
    <3> QED
      BY <3>3 DEF x
  <2> DEFINE y == (select - 1) * n
  <2>2. y \in Nat
    BY <2>1
  <2> HIDE DEF y
  <2>3. Len(all) - y \in Int /\ Len(all) - y <= Len(all)
    BY <1>2, <2>2
  <2> QED
    BY <2>3 DEF y
<1> HIDE DEF last
<1>5. CASE last < n
  BY <1>3, <1>5 DEF BarCustom, all, last
<1>6. CASE ~(last < n)
  <2>1. last \in n..Len(series[t])
    BY <1>1, <1>2, <1>4, <1>6
  <2>2. member = Together(t, last - n + 1, last)
    BY <1>2 DEF Together
  <2> DEFINE T == Together(t, last - n + 1, last)
  <2>3. /\ BarCustom(t, "open", n, select) = bars[Min(T)].price
        /\ BarCustom(t, "high", n, select) = Max(PricesOf(T))
        /\ BarCustom(t, "low", n, select) = Min(PricesOf(T))
        /\ BarCustom(t, "close", n, select) = bars[Max(T)].price
        /\ BarCustom(t, "volume", n, select) = Cardinality(T)
        /\ CustomChange(t, n, select) =
              IF Min(T) = 1 THEN NaN ELSE bars[Max(T)].price - bars[Min(T) - 1].price
    BY ONLY SeriesAssumption, SeriesInv, t \in BarTypes, Readable(t), <1>1, <1>3, <2>1, CustomWindow
  <2>4. price = PricesOf(T)
    BY <2>2 DEF PricesOf
  <2>5. member = T
    BY <2>2
  <2> HIDE DEF T, member, price
  <2>6. /\ custom("open") = bars[Min(member)].price
        /\ custom("high") = Max(price) /\ custom("low") = Min(price)
        /\ custom("close") = bars[Max(member)].price
        /\ custom("volume") = Cardinality(member)
        /\ CustomChange(t, n, select) =
              IF Min(member) = 1 THEN NaN
              ELSE bars[Max(member)].price - bars[Min(member) - 1].price
    BY <2>3, <2>4, <2>5
  <2> QED
    BY <1>6, <2>6 DEF member, price, last, all
<1> QED
  BY <1>5, <1>6 DEF last, all

-----------------------------------------------------------------------------
(* Folds with any operation, given as a function *)

\* h folds the elements f has at the sets of D, taking the element C chooses first.
Folded(h, C, base, f, G, D) ==
    h = [s \in D |-> IF s = {} THEN base ELSE G[<<h[s \ {C[s]}], f[C[s]]>>]]

\* Such a fold exists over every finite set, whatever the operation.
LEMMA FoldExists ==
    ASSUME NEW S, IsFiniteSet(S), NEW C, \A s \in SUBSET S : s # {} => C[s] \in s,
           NEW base, NEW f, NEW G
    PROVE  \E h : Folded(h, C, base, f, G, SUBSET S)
<1> DEFINE D(n) == {t \in SUBSET S : Cardinality(t) <= n}
           A == {n \in Nat : \E h : Folded(h, C, base, f, G, D(n))}
<1>1. \A t \in SUBSET S : /\ IsFiniteSet(t) /\ Cardinality(t) \in Nat
                          /\ Cardinality(t) <= Cardinality(S)
                          /\ Cardinality(t) = 0 <=> t = {}
  BY FS_Subset, FS_CardinalityType, FS_EmptySet
<1>2. \A t \in SUBSET S : t # {} => /\ t \ {C[t]} \in SUBSET S
                                    /\ Cardinality(t \ {C[t]}) = Cardinality(t) - 1
  BY <1>1, FS_RemoveElement
<1>3. 0 \in A
  <2>1. \A t \in D(0) : t = {}
    BY <1>1
  <2>2. Folded([s \in D(0) |-> base], C, base, f, G, D(0))
    BY <2>1 DEF Folded
  <2> QED
    BY <2>2
<1>4. ASSUME NEW n \in A PROVE n + 1 \in A
  <2>1. PICK h : Folded(h, C, base, f, G, D(n))
    OBVIOUS
  <2> DEFINE k == [s \in D(n + 1) |-> IF s = {} THEN base ELSE G[<<h[s \ {C[s]}], f[C[s]]>>]]
  <2>2. \A s \in D(n) : s \in D(n + 1) /\ k[s] = h[s]
    <3> TAKE s \in D(n)
    <3>1. s \in D(n + 1)
      BY <1>1
    <3>2. h[s] = IF s = {} THEN base ELSE G[<<h[s \ {C[s]}], f[C[s]]>>]
      BY <2>1, Zenon DEF Folded
    <3> QED
      BY <3>1, <3>2
  <2>3. \A s \in D(n + 1) : s # {} => s \ {C[s]} \in D(n)
    BY <1>1, <1>2
  <2>4. \A s \in D(n + 1) : s # {} => k[s \ {C[s]}] = h[s \ {C[s]}]
    BY <2>2, <2>3
  <2>5. Folded(k, C, base, f, G, D(n + 1))
    BY <2>4 DEF Folded
  <2>6. n + 1 \in Nat
    OBVIOUS
  <2> HIDE DEF D, k
  <2> QED
    BY <2>5, <2>6
<1>5. A = Nat
  <2> HIDE DEF A
  <2>1. A \subseteq Nat
    BY DEF A
  <2> QED
    BY <1>3, <1>4, <2>1, NatInduct
<1>6. Cardinality(S) \in Nat /\ D(Cardinality(S)) = SUBSET S
  BY <1>1, FS_CardinalityType
<1>7. \E h : Folded(h, C, base, f, G, D(Cardinality(S)))
  BY <1>5, <1>6
<1> HIDE DEF D
<1> QED
  BY <1>6, <1>7

\* An operation that stays in V folds to elements of V.
LEMMA FoldType ==
    ASSUME NEW S, IsFiniteSet(S), NEW C, \A s \in SUBSET S : s # {} => C[s] \in s,
           NEW V, NEW W, NEW base \in V, NEW f, \A x \in S : f[x] \in W, NEW G \in [V \X W -> V],
           NEW h, Folded(h, C, base, f, G, SUBSET S)
    PROVE  \A s \in SUBSET S : h[s] \in V
<1> DEFINE A == {s \in SUBSET S : h[s] \in V}
<1>1. ASSUME NEW s \in SUBSET S, \A u \in SUBSET s : u # s => u \in A PROVE s \in A
  <2>1. CASE s = {}
    BY <2>1 DEF Folded
  <2>2. CASE s # {}
    <3>1. C[s] \in s
      BY <2>2
    <3>2. s \ {C[s]} \in A
      BY <1>1, <3>1
    <3>3. h[s] = G[<<h[s \ {C[s]}], f[C[s]]>>]
      BY <2>2 DEF Folded
    <3> QED
      BY <3>1, <3>2, <3>3
  <2> QED
    BY <2>1, <2>2
<1>2. A = SUBSET S
  <2> HIDE DEF A
  <2>1. A \subseteq SUBSET S
    BY DEF A
  <2> QED
    BY <1>1, <2>1, SubsetInduct
<1> QED
  BY <1>2

-----------------------------------------------------------------------------
(* Fractions *)

\* Products of integers.
LEMMA ProductType ==
    ASSUME NEW x \in Int, NEW y \in Int
    PROVE  x * y \in Int /\ (x > 0 /\ y > 0 => x * y > 0)
OBVIOUS

\* Fractions in lowest terms ...
LEMMA LowestType ==
    ASSUME NEW f \in Fractions
    PROVE  Lowest(f) \in Fractions
<1> DEFINE p == f.num
           q == f.den
           S == {k \in 1..q : q % k = 0 /\ p % k = 0}
           c == Max(S)
<1>1. p \in Int /\ q \in Nat /\ q > 0
  BY DEF Fractions
<1> HIDE DEF p, q
<1>2. 1 \in S
  BY <1>1
<1>3. S \in SUBSET (1..q) /\ S \in SUBSET Int
  BY <1>1
<1>4. IsFiniteSet(S)
  <2>1. IsFiniteSet(1..q)
    BY <1>1, FS_Interval, 1 \in Int, q \in Int
  <2> QED
    BY <1>3, <2>1, FS_Subset
<1>5. c \in S
  <2> HIDE DEF S
  <2> QED
    BY <1>2, <1>3, <1>4, MaxMeans
<1>6. c \in 1..q /\ q % c = 0
  BY <1>5
<1> HIDE DEF c
<1>7. p \div c \in Int /\ q \div c \in Int
  BY <1>1, <1>6
<1>8. q \div c > 0
  <2> DEFINE u == q \div c
  <2>1. u \in Int /\ q = u * c + (q % c)
    BY <1>1, <1>6
  <2>2. q = u * c
    <3>1. u * c \in Int
      BY <1>6, <2>1
    <3> HIDE DEF u
    <3> QED
      BY <1>1, <1>6, <2>1, <3>1
  <2> HIDE DEF u
  <2>3. ASSUME u <= 0 PROVE FALSE
    <3>1. u * c <= 0
      BY <1>6, <2>1, <2>3
    <3> QED
      BY <1>1, <2>2, <3>1
  <2>4. u > 0
    BY <2>1, <2>3
  <2> QED
    BY <2>4 DEF u
<1>9. Lowest(f) = [num |-> p \div c, den |-> q \div c]
  BY DEF Lowest, p, q, c
<1> DEFINE u == p \div c
           v == q \div c
<1>10. u \in Int /\ v \in Nat \ {0} /\ Lowest(f) = [num |-> u, den |-> v]
  BY <1>7, <1>8, <1>9
<1> HIDE DEF u, v
<1> QED
  BY <1>10 DEF Fractions

\* ... their sums ...
LEMMA PlusType ==
    ASSUME NEW a \in Fractions, NEW b \in Fractions
    PROVE  Plus(a, b) \in Fractions
<1>1. a.num \in Int /\ b.num \in Int /\ a.den \in Int /\ b.den \in Int /\ a.den > 0 /\ b.den > 0
  BY DEF Fractions
<1>2. a.num * b.den \in Int /\ b.num * a.den \in Int /\ a.den * b.den \in Int /\ a.den * b.den > 0
  BY <1>1, ProductType
<1> DEFINE u == a.num * b.den
           v == b.num * a.den
           w == a.den * b.den
<1>3. u + v \in Int /\ w \in Nat \ {0}
  <2>1. u \in Int /\ v \in Int /\ w \in Int /\ w > 0
    BY <1>2
  <2> HIDE DEF u, v, w
  <2> QED
    BY <2>1
<1>4. Plus(a, b) = Lowest([num |-> u + v, den |-> w])
  BY DEF Plus
<1> HIDE DEF u, v, w
<1>5. [num |-> u + v, den |-> w] \in Fractions
  BY <1>3 DEF Fractions
<1> QED
  BY <1>4, <1>5, LowestType

\* ... and differences are fractions.
LEMMA MinusType ==
    ASSUME NEW a \in Fractions, NEW b \in Fractions
    PROVE  Minus(a, b) \in Fractions
<1>1. [b EXCEPT !.num = -@] \in Fractions
  <2>1. b \in [num : Int, den : Nat \ {0}]
    BY DEF Fractions
  <2>2. -(b.num) \in Int
    BY <2>1
  <2> QED
    BY <2>1, <2>2 DEF Fractions
<1> QED
  BY <1>1, PlusType DEF Minus

\* So is an exponential average after one more value (_next_ema).
LEMMA SmoothedType ==
    ASSUME IndicatorsAssumption, NEW n \in Nat \ {0}, NEW a \in Fractions, NEW b \in Fractions
    PROVE  Smoothed(n, a, b) \in Fractions
<1>1. a # NaN /\ b # NaN
  BY DEF IndicatorsAssumption
<1>2. a.num \in Int /\ b.num \in Int /\ a.den \in Int /\ b.den \in Int /\ a.den > 0 /\ b.den > 0
  BY DEF Fractions
<1>3. n \in Int /\ n + 1 \in Int /\ n + 1 > 0 /\ n - 1 \in Int /\ 2 \in Int
  OBVIOUS
<1>4. /\ 2 * b.num \in Int /\ (n + 1) * b.den \in Int /\ (n + 1) * b.den > 0
      /\ (n - 1) * a.num \in Int /\ (n + 1) * a.den \in Int /\ (n + 1) * a.den > 0
  BY <1>2, <1>3, ProductType
<1> DEFINE u == 2 * b.num
           v == (n + 1) * b.den
           x == (n - 1) * a.num
           y == (n + 1) * a.den
<1>5. u \in Int /\ v \in Nat \ {0} /\ x \in Int /\ y \in Nat \ {0}
  <2>1. u \in Int /\ v \in Int /\ v > 0 /\ x \in Int /\ y \in Int /\ y > 0
    BY ONLY <1>4
  <2> HIDE DEF u, v, x, y
  <2> QED
    BY ONLY <2>1
<1>6. Smoothed(n, a, b) = Plus([num |-> u, den |-> v], [num |-> x, den |-> y])
  BY <1>1 DEF Smoothed
<1> HIDE DEF u, v, x, y
<1>7. [num |-> u, den |-> v] \in Fractions /\ [num |-> x, den |-> y] \in Fractions
  BY <1>5 DEF Fractions
<1> QED
  BY <1>6, <1>7, PlusType

\* The mean of numbers is a fraction ...
LEMMA MeanType ==
    ASSUME NEW values \in Seq(Int), values # <<>>
    PROVE  Mean(values) \in Fractions
<1> DEFINE n == Len(values)
           s == SumFunctionOnSet(values, 1..n)
<1>1. n \in Nat \ {0} /\ DOMAIN values = 1..n /\ \A i \in 1..n : values[i] \in Int
  BY EmptySeq, LenProperties
<1>2. s \in Int
  <2> HIDE DEF n
  <2> QED
    BY <1>1, SumInSequence
<1>3. FoldSeq(+, 0, values) = s
  BY <1>1, FoldIsSum
<1>4. Mean(values) = [num |-> s, den |-> n]
  BY <1>3 DEF Mean
<1> HIDE DEF s, n
<1> QED
  BY <1>1, <1>2, <1>4 DEF Fractions

\* ... that of one number is the number ...
LEMMA MeanOfOne ==
    ASSUME NEW v \in Int
    PROVE  Mean(<<v>>) = [num |-> v, den |-> 1] /\ Mean(<<v>>) \in Fractions
<1> DEFINE s == <<v>>
<1>1. s \in Seq(Int) /\ Len(s) = 1 /\ s[1] = v /\ DOMAIN s = {1}
  OBVIOUS
<1> HIDE DEF s
<1>2. SumFunctionOnSet(s, {1}) = s[1]
  <2>1. IsFiniteSet({1}) /\ 1 \in {1} /\ \A x \in {1} \ {1} : s[x] = 0
    BY FS_Singleton
  <2> QED
    BY <1>1, <2>1, SumOfOne
<1>3. FoldSeq(+, 0, s) = v
  BY <1>1, <1>2, FoldIsSum
<1>4. Mean(s) = [num |-> v, den |-> 1]
  BY <1>1, <1>3 DEF Mean
<1>5. [num |-> v, den |-> 1] \in Fractions
  BY DEF Fractions
<1> QED
  BY <1>4, <1>5 DEF s

\* ... and so is the mean of fractions.
LEMMA AverageType ==
    ASSUME IndicatorsAssumption, NEW values \in Seq(Fractions), values # <<>>
    PROVE  Average(values) \in Fractions
<1> DEFINE S == DOMAIN values
           base == [num |-> 0, den |-> 1]
           C == [s \in SUBSET S |-> Chosen(s)]
           G == [p \in Fractions \X Fractions |-> Plus(p[2], p[1])]
           n == Len(values)
           Iter(h) == h = [s \in SUBSET S |->
                             IF s = {} THEN base ELSE Plus(values[Chosen(s)], h[s \ {Chosen(s)}])]
<1>1. n \in Nat \ {0} /\ S = 1..n /\ \A x \in S : values[x] \in Fractions
  BY EmptySeq, LenProperties
<1>2. IsFiniteSet(S)
  BY <1>1, FS_Interval, 1 \in Int
<1>3. \A s \in SUBSET S : s # {} => Chosen(s) \in s /\ C[s] = Chosen(s) /\ C[s] \in s
  BY DEF Chosen
<1>4. base \in Fractions
  BY DEF Fractions
<1>5. G \in [Fractions \X Fractions -> Fractions]
  BY PlusType
<1> HIDE DEF S, base, C, n
<1>6. \A p \in Fractions, q \in Fractions : G[<<p, q>>] = Plus(q, p)
  OBVIOUS
<1> HIDE DEF G
<1>7. PICK h : Folded(h, C, base, values, G, SUBSET S)
  BY <1>2, <1>3, FoldExists
<1>8. \A s \in SUBSET S : h[s] \in Fractions
  BY <1>1, <1>2, <1>3, <1>4, <1>5, <1>7, FoldType
<1>9. Iter(h)
  <2>1. ASSUME NEW s \in SUBSET S, s # {}
        PROVE  G[<<h[s \ {C[s]}], values[C[s]]>>] = Plus(values[Chosen(s)], h[s \ {Chosen(s)}])
    <3>1. C[s] = Chosen(s) /\ Chosen(s) \in s
      BY <1>3, <2>1
    <3>2. h[s \ {Chosen(s)}] \in Fractions /\ values[Chosen(s)] \in Fractions
      BY <1>1, <1>8, <3>1
    <3> QED
      BY <1>6, <3>1, <3>2
  <2> QED
    BY <1>7, <2>1 DEF Folded
<1> DEFINE k == CHOOSE g : Iter(g)
<1>10. Iter(k)
  <2> HIDE DEF Iter
  <2> QED
    BY <1>9
<1>11. FoldSeq(Plus, base, values) = k[S]
  BY Zenon DEF FoldSeq, FoldFunction, FoldFunctionOnSet, MapThenFoldSet, Chosen, S
<1>12. k[S] \in Fractions
  <2> DEFINE A == {s \in SUBSET S : k[s] \in Fractions}
  <2>1. ASSUME NEW s \in SUBSET S, \A u \in SUBSET s : u # s => u \in A PROVE s \in A
    <3>1. CASE s = {}
      <4>1. k[s] = base
        BY <1>10, <3>1
      <4> QED
        BY <1>4, <4>1
    <3>2. CASE s # {}
      <4>1. Chosen(s) \in s
        BY <1>3, <3>2
      <4>2. s \ {Chosen(s)} \in A
        BY <2>1, <4>1
      <4>3. k[s] = Plus(values[Chosen(s)], k[s \ {Chosen(s)}])
        BY <1>10, <3>2
      <4>4. values[Chosen(s)] \in Fractions /\ k[s \ {Chosen(s)}] \in Fractions
        BY <1>1, <4>1, <4>2
      <4> QED
        BY <4>3, <4>4, PlusType
    <3> QED
      BY <3>1, <3>2
  <2> HIDE DEF A
  <2>2. A = SUBSET S
    <3>1. A \subseteq SUBSET S
      BY DEF A
    <3> QED
      BY <1>2, <2>1, <3>1, SubsetInduct
  <2>3. S \in A
    BY <2>2
  <2> QED
    BY <2>3 DEF A
<1> HIDE DEF k
<1> DEFINE total == FoldSeq(Plus, base, values)
<1>13. total \in Fractions
  BY <1>11, <1>12
<1>14. Average(values) = Lowest([total EXCEPT !.den = @ * n])
  <2>1. ~(\E i \in DOMAIN values : values[i] = NaN)
    BY <1>1 DEF IndicatorsAssumption, S
  <2> QED
    BY <2>1 DEF Average, base, n
<1> HIDE DEF total
<1>15. [total EXCEPT !.den = @ * n] \in Fractions
  <2>1. total.den \in Int /\ total.den > 0 /\ total \in [num : Int, den : Nat \ {0}]
    BY <1>13 DEF Fractions
  <2>2. total.den * n \in Nat \ {0}
    <3>1. n \in Int /\ n > 0
      BY <1>1
    <3>2. total.den * n \in Int /\ total.den * n > 0
      BY <2>1, <3>1, ProductType
    <3> DEFINE u == total.den * n
    <3>3. u \in Int /\ u > 0
      BY <3>2
    <3> HIDE DEF u
    <3>4. u \in Nat \ {0}
      BY <3>3
    <3> QED
      BY <3>4 DEF u
  <2> DEFINE u == total.den * n
  <2>3. u \in Nat \ {0} /\ [total EXCEPT !.den = @ * n] = [total EXCEPT !.den = u]
    BY <2>2
  <2> HIDE DEF u
  <2>4. [total EXCEPT !.den = u] \in [num : Int, den : Nat \ {0}]
    BY <2>1, <2>3
  <2> QED
    BY <2>3, <2>4 DEF Fractions
<1> QED
  BY <1>14, <1>15, LowestType

-----------------------------------------------------------------------------
(* Exponential averages *)

\* The numbers up to i as a set to take the largest from.
LEMMA UptoPrefix ==
    ASSUME NEW m \in Nat, NEW i \in 1..m
    PROVE  /\ 1..i \in SUBSET (1..m) /\ 1..i # {} /\ Max(1..i) = i
           /\ (1..i) \ {i} = 1..(i - 1)
<1>1. 1..i \in SUBSET Int /\ i \in 1..i /\ \A j \in 1..i : j <= i
  OBVIOUS
<1>2. Max(1..i) = i
  <2> DEFINE S == 1..i
  <2>1. S \in SUBSET Int /\ i \in S /\ \A j \in S : j <= i
    BY <1>1
  <2> HIDE DEF S
  <2>2. Max(S) = i
    BY <2>1, MaxIs
  <2> QED
    BY <2>2 DEF S
<1>3. 1..i \in SUBSET (1..m) /\ 1..i # {}
  BY <1>1
<1>4. (1..i) \ {i} = 1..(i - 1)
  OBVIOUS
<1> QED
  BY <1>2, <1>3, <1>4

\* The greatest of every set of the first numbers is in it.
LEMMA LargestChosen ==
    ASSUME NEW m \in Nat
    PROVE  /\ IsFiniteSet(1..m)
           /\ \A s \in SUBSET (1..m) : s # {} => Max(s) \in s
<1>1. IsFiniteSet(1..m) /\ \A j \in 1..m : j \in Int
  BY FS_Interval, 1 \in Int, m \in Int
<1> DEFINE S == 1..m
<1>2. ASSUME NEW s \in SUBSET S, s # {} PROVE Max(s) \in s
  <2>1. s \in SUBSET Int
    BY <1>1
  <2>2. IsFiniteSet(s)
    BY <1>1, FS_Subset
  <2> QED
    BY <1>2, <2>1, <2>2, MaxMeans
<1> QED
  BY <1>1, <1>2

\* The exponential average of a history is the last of averages that are each one
\* step of the one before.
LEMMA EmaIs ==
    ASSUME IndicatorsAssumption, NEW n \in Nat \ {0}, NEW values \in Seq(Fractions),
           n <= Len(values)
    PROVE  \E r \in [0..(Len(values) - n) -> Fractions] :
              /\ r[0] = Average(SubSeq(values, 1, n))
              /\ \A i \in 1..(Len(values) - n) : r[i] = Smoothed(n, r[i - 1], values[n + i])
              /\ Ema(values, n) = r[Len(values) - n]
<1> DEFINE q == SubSeq(values, n + 1, Len(values))
           base == Average(SubSeq(values, 1, n))
           m == Len(values) - n
           S == 1..m
           C == [s \in SUBSET S |-> Max(s)]
           G == [p \in Fractions \X Fractions |-> Smoothed(n, p[1], p[2])]
           Iter(h) == h = [s \in SUBSET S |->
                             IF s = {} THEN base ELSE Smoothed(n, h[s \ {Max(s)}], q[Max(s)])]
<1>1. m \in Nat /\ Len(values) \in Nat /\ n + 1 \in Int /\ 1 <= n + 1
  OBVIOUS
<1>2. q \in Seq(Fractions) /\ DOMAIN q = S /\ \A i \in S : q[i] = values[n + i] /\ q[i] \in Fractions
  <2>1. /\ q \in Seq(Fractions)
        /\ Len(q) = IF n + 1 <= Len(values) THEN Len(values) - (n + 1) + 1 ELSE 0
        /\ \A i \in 1..Len(q) : q[i] = values[n + 1 + i - 1]
        /\ DOMAIN q = 1..Len(q)
    BY <1>1, SliceIs
  <2> HIDE DEF q
  <2>2. Len(q) = m
    BY <1>1, <2>1
  <2>3. \A i \in 1..m : n + 1 + i - 1 = n + i
    BY <1>1
  <2>4. \A i \in 1..m : q[i] \in Fractions
    BY ONLY <2>1, <2>2
  <2> QED
    BY <2>1, <2>2, <2>3, <2>4
<1>3. base \in Fractions
  <2> DEFINE w == SubSeq(values, 1, n)
  <2>1. w \in Seq(Fractions) /\ Len(w) = (IF 1 <= n THEN n - 1 + 1 ELSE 0)
    BY <1>1, SliceIs
  <2> HIDE DEF w
  <2>2. w # <<>>
    BY <2>1
  <2>3. Average(w) \in Fractions
    BY <2>1, <2>2, AverageType
  <2> QED
    BY <2>3 DEF w
<1>4. G \in [Fractions \X Fractions -> Fractions]
  BY SmoothedType
<1>5. \A a \in Fractions, b \in Fractions : G[<<a, b>>] = Smoothed(n, a, b)
  OBVIOUS
<1>6. IsFiniteSet(S) /\ \A s \in SUBSET S : s # {} => Max(s) \in s /\ C[s] = Max(s) /\ C[s] \in s
  <2> HIDE DEF m
  <2>1. IsFiniteSet(1..m) /\ \A s \in SUBSET (1..m) : s # {} => Max(s) \in s
    BY <1>1, LargestChosen
  <2> QED
    BY <2>1
<1>7. Ema(values, n) = (CHOOSE h : Iter(h))[S]
  <2>1. ~(Len(values) < n)
    BY <1>1
  <2>2. Ema(values, n) = FoldLeft(LAMBDA average, v : Smoothed(n, average, v), base, q)
    BY <2>1, Zenon DEF Ema
  <2> HIDE DEF base, q, m
  <2>3. FoldLeft(LAMBDA average, v : Smoothed(n, average, v), base, q)
          = (CHOOSE h : h = [s \in SUBSET (DOMAIN q) |->
                IF s = {} THEN base ELSE Smoothed(n, h[s \ {Max(s)}], q[Max(s)])])[DOMAIN q]
    BY Zenon DEF FoldLeft, MapThenFoldSet
  <2> QED
    BY <1>2, <2>2, <2>3, Zenon
<1> HIDE DEF S, base, C, G, m, q
<1>8. PICK h : Folded(h, C, base, q, G, SUBSET S)
  BY <1>6, FoldExists
<1>9. \A s \in SUBSET S : h[s] \in Fractions
  BY <1>2, <1>3, <1>4, <1>6, <1>8, FoldType
<1>10. Iter(h)
  <2>1. ASSUME NEW s \in SUBSET S, s # {}
        PROVE  G[<<h[s \ {C[s]}], q[C[s]]>>] = Smoothed(n, h[s \ {Max(s)}], q[Max(s)])
    <3>1. C[s] = Max(s) /\ Max(s) \in s
      BY <1>6, <2>1
    <3>2. h[s \ {Max(s)}] \in Fractions /\ q[Max(s)] \in Fractions
      BY <1>2, <1>9, <3>1
    <3> QED
      BY <1>5, <3>1, <3>2
  <2> QED
    BY <1>8, <2>1 DEF Folded
<1> DEFINE k == CHOOSE g : Iter(g)
<1>11. Iter(k)
  <2> HIDE DEF Iter
  <2> QED
    BY <1>10
<1>12. Ema(values, n) = k[S]
  BY <1>7
<1> HIDE DEF k
<1> DEFINE r == [i \in 0..m |-> k[1..i]]
<1>13. k[{}] = base
  BY <1>11
<1>14. \A i \in 1..m : k[1..i] = Smoothed(n, k[1..(i - 1)], q[i])
  <2> TAKE i \in 1..m
  <2>1. 1..i \in SUBSET S /\ 1..i # {} /\ Max(1..i) = i /\ (1..i) \ {i} = 1..(i - 1)
    BY <1>1, UptoPrefix DEF S
  <2> DEFINE s == 1..i
  <2>2. s \in SUBSET S /\ s # {} /\ Max(s) = i /\ s \ {i} = 1..(i - 1)
    BY <2>1
  <2> HIDE DEF s
  <2>3. k[s] = Smoothed(n, k[s \ {Max(s)}], q[Max(s)])
    BY <1>11, <2>2
  <2>4. k[s] = Smoothed(n, k[1..(i - 1)], q[i])
    BY <2>2, <2>3
  <2> QED
    BY <2>4 DEF s
<1>15. r[0] = base
  <2>1. 0 \in 0..m /\ 1..0 = {}
    BY <1>1
  <2> QED
    BY <1>13, <2>1
<1>16. \A i \in 1..m : r[i] = Smoothed(n, r[i - 1], q[i])
  <2>1. \A i \in 1..m : i \in 0..m /\ i - 1 \in 0..m
    BY <1>1
  <2> QED
    BY <1>14, <2>1
<1>17. r[m] = k[S]
  <2>1. m \in 0..m
    BY <1>1
  <2> QED
    BY <2>1 DEF S
<1> HIDE DEF r
<1>18. \A i \in 0..m : r[i] \in Fractions
  <2> DEFINE A == {i \in Nat : i <= m => r[i] \in Fractions}
  <2>1. 0 \in A
    BY <1>3, <1>15
  <2>2. ASSUME NEW i \in A PROVE i + 1 \in A
    <3> SUFFICES ASSUME i + 1 <= m PROVE r[i + 1] \in Fractions
      OBVIOUS
    <3>1. i \in Nat /\ i <= m /\ i + 1 \in 1..m /\ (i + 1) - 1 = i
      BY <1>1
    <3>2. r[i] \in Fractions /\ q[i + 1] \in Fractions
      BY <1>2, <3>1 DEF S
    <3>3. r[i + 1] = Smoothed(n, r[i], q[i + 1])
      BY <1>16, <3>1
    <3> QED
      BY <3>2, <3>3, SmoothedType
  <2>3. A \in SUBSET Nat
    OBVIOUS
  <2> HIDE DEF A
  <2>4. A = Nat
    BY <2>1, <2>2, <2>3, NatInduct
  <2>5. \A i \in Nat : i <= m => r[i] \in Fractions
    BY <2>4 DEF A
  <2> QED
    BY <2>5, <1>1
<1>19. r \in [0..m -> Fractions]
  <2>1. r = [i \in 0..m |-> r[i]]
    BY DEF r
  <2> QED
    BY <1>18, <2>1
<1>20. \A i \in 1..m : r[i] = Smoothed(n, r[i - 1], values[n + i])
  BY <1>2, <1>16 DEF S
<1>21. r[0] = base /\ Ema(values, n) = r[m]
  BY <1>12, <1>15, <1>17
<1> HIDE DEF Iter
<1> QED
  BY <1>19, <1>20, <1>21 DEF m, base

\* The averages of a whole history: none before the n-th value, fractions from then
\* on, and the last of them is the one computed of the history alone.
LEMMA FullEmaIs ==
    ASSUME IndicatorsAssumption, NEW n \in Nat \ {0}, NEW values \in Seq(Fractions)
    PROVE  /\ DOMAIN FullEma(values, n) = 1..Len(values)
           /\ \A i \in 1..Len(values) :
                 IF i < n THEN FullEma(values, n)[i] = NaN ELSE FullEma(values, n)[i] \in Fractions
           /\ Len(values) # 0 => FullEma(values, n)[Len(values)] = Ema(values, n)
<1> DEFINE N == Len(values)
           base == Average(SubSeq(values, 1, n))
           Rec(f) == f = [i \in DOMAIN values |->
                            IF i < n THEN NaN ELSE IF i = n THEN base
                            ELSE Smoothed(n, f[i - 1], values[i])]
           Known(w) == /\ Rec(w)
                       /\ N # 0 => w[N] = Ema(values, n)
                       /\ \A i \in 1..N : IF i < n THEN w[i] = NaN ELSE w[i] \in Fractions
<1>1. N \in Nat /\ DOMAIN values = 1..N
  OBVIOUS
<1>2. ASSUME N < n PROVE \E x : Known(x)
  <2> DEFINE w == [i \in 1..N |-> NaN]
  <2>1. \A i \in 1..N : i < n
    BY <1>1, <1>2
  <2>2. Rec(w)
    BY <1>1, <2>1
  <2>3. N # 0 => w[N] = Ema(values, n)
    <3>1. N # 0 => N \in 1..N
      BY <1>1
    <3>2. Ema(values, n) = NaN
      BY <1>2 DEF Ema
    <3> QED
      BY <3>1, <3>2
  <2>4. \A i \in 1..N : w[i] = NaN
    OBVIOUS
  <2> HIDE DEF w, Rec
  <2>5. Known(w)
    BY <2>1, <2>2, <2>3, <2>4
  <2> HIDE DEF Known
  <2> QED
    BY <2>5
<1>3. ASSUME ~(N < n) PROVE \E x : Known(x)
  <2> DEFINE m == N - n
  <2>1. n <= N /\ m \in Nat
    BY <1>1, <1>3
  <2>2. PICK r \in [0..m -> Fractions] :
           /\ r[0] = base
           /\ \A i \in 1..m : r[i] = Smoothed(n, r[i - 1], values[n + i])
           /\ Ema(values, n) = r[m]
    BY <2>1, EmaIs
  <2> DEFINE w == [i \in 1..N |-> IF i < n THEN NaN ELSE r[i - n]]
  <2>3. ASSUME NEW i \in 1..N
        PROVE  w[i] = IF i < n THEN NaN ELSE IF i = n THEN base ELSE Smoothed(n, w[i - 1], values[i])
    <3>1. CASE i < n
      BY <3>1
    <3>2. CASE i = n
      <4>1. w[i] = r[0]
        BY <3>2
      <4> QED
        BY <2>2, <3>2, <4>1
    <3>3. CASE i > n
      <4> DEFINE j == i - n
      <4>1. j \in 1..m /\ n + j = i /\ i - 1 \in 1..N /\ ~(i - 1 < n) /\ (i - 1) - n = j - 1 /\ ~(i < n)
        BY <1>1, <3>3
      <4>2. w[i] = r[j] /\ w[i - 1] = r[j - 1]
        BY <4>1
      <4>3. r[j] = Smoothed(n, r[j - 1], values[n + j])
        BY <2>2, <4>1
      <4> HIDE DEF w, j
      <4>4. w[i] = Smoothed(n, w[i - 1], values[i])
        BY <4>1, <4>2, <4>3
      <4> QED
        BY <3>3, <4>4
    <3> QED
      BY <3>1, <3>2, <3>3
  <2>4. w = [i \in 1..N |-> w[i]]
    OBVIOUS
  <2>5. \A i \in 1..N : IF i < n THEN w[i] = NaN ELSE w[i] \in Fractions
    <3> TAKE i \in 1..N
    <3>1. CASE i < n
      BY <3>1
    <3>2. CASE ~(i < n)
      <4>1. i - n \in 0..m
        BY <1>1, <3>2
      <4>2. r[i - n] \in Fractions
        BY <2>2, <4>1
      <4> QED
        BY <3>2, <4>2
    <3> QED
      BY <3>1, <3>2
  <2>6. w[N] = Ema(values, n)
    <3>1. N \in 1..N
      BY <1>1, <2>1
    <3> QED
      BY <2>1, <2>2, <3>1, <1>3
  <2> HIDE DEF w
  <2>7. Rec(w)
    BY <1>1, <2>3, <2>4
  <2> HIDE DEF Rec
  <2>8. Known(w)
    BY <2>5, <2>6, <2>7
  <2> HIDE DEF Known
  <2> QED
    BY <2>8
<1>4. PICK w : Known(w)
  BY <1>2, <1>3
<1> DEFINE g == CHOOSE f : Rec(f)
<1>5. Rec(g)
  <2>1. Rec(w)
    BY <1>4
  <2> HIDE DEF Rec
  <2> QED
    BY <2>1
<1>6. FullEma(values, n) = g
  BY Zenon DEF FullEma
<1> HIDE DEF g
<1>7. \A i \in 1..N : g[i] = w[i]
  <2> DEFINE A == {i \in Nat : i \in 1..N => g[i] = w[i]}
  <2>1. 0 \in A
    OBVIOUS
  <2>2. ASSUME NEW i \in A PROVE i + 1 \in A
    <3> SUFFICES ASSUME i + 1 \in 1..N PROVE g[i + 1] = w[i + 1]
      OBVIOUS
    <3>0. i \in Nat /\ (i + 1) - 1 = i
      OBVIOUS
    <3>1. g[i + 1] = IF i + 1 < n THEN NaN ELSE IF i + 1 = n THEN base
                     ELSE Smoothed(n, g[i], values[i + 1])
      BY <1>1, <1>5, <3>0
    <3>2. w[i + 1] = IF i + 1 < n THEN NaN ELSE IF i + 1 = n THEN base
                     ELSE Smoothed(n, w[i], values[i + 1])
      BY <1>1, <1>4, <3>0
    <3>3. i + 1 > n => g[i] = w[i]
      <4>1. i + 1 > n => i \in 1..N
        BY <1>1, <3>0
      <4> QED
        BY <4>1
    <3>4. i + 1 < n \/ i + 1 = n \/ i + 1 > n
      BY <3>0
    <3> HIDE DEF base, A
    <3> QED
      BY <3>1, <3>2, <3>3, <3>4
  <2>3. A \in SUBSET Nat
    OBVIOUS
  <2> HIDE DEF A
  <2>4. A = Nat
    BY <2>1, <2>2, <2>3, NatInduct
  <2>5. \A i \in Nat : i \in 1..N => g[i] = w[i]
    BY <2>4 DEF A
  <2> QED
    BY <2>5, <1>1
<1>8. DOMAIN g = 1..N
  BY <1>1, <1>5
<1>9. \A i \in 1..N : IF i < n THEN w[i] = NaN ELSE w[i] \in Fractions
  BY <1>4
<1>10. N # 0 => w[N] = Ema(values, n) /\ N \in 1..N
  <2>1. N # 0 => w[N] = Ema(values, n)
    BY <1>4
  <2> HIDE DEF N, Known, Rec
  <2>2. N # 0 => N \in 1..N
    BY <1>1
  <2> QED
    BY <2>1, <2>2
<1> HIDE DEF N, Rec, Known
<1>11. /\ DOMAIN g = 1..N
       /\ N # 0 => g[N] = Ema(values, n)
       /\ \A i \in 1..N : IF i < n THEN g[i] = NaN ELSE g[i] \in Fractions
  BY <1>7, <1>8, <1>9, <1>10
<1> QED
  BY <1>6, <1>11 DEF N

\* The average of a history with enough values is a fraction.
LEMMA EmaSeriesType ==
    ASSUME IndicatorsAssumption, NEW n \in Nat \ {0}, NEW values \in Seq(Fractions),
           n <= Len(values)
    PROVE  Last(EmaSeries(values, n)) \in Fractions
<1> DEFINE q == SubSeq(values, n + 1, Len(values))
           base == <<Average(SubSeq(values, 1, n))>>
           m == Len(values) - n
           S == 1..m
           V == Seq(Fractions) \ {<<>>}
           C == [s \in SUBSET S |-> Max(s)]
           G == [p \in V \X Fractions |-> Append(p[1], Smoothed(n, Last(p[1]), p[2]))]
           Iter(h) == h = [s \in SUBSET S |->
                             IF s = {} THEN base
                             ELSE Append(h[s \ {Max(s)}], Smoothed(n, Last(h[s \ {Max(s)}]), q[Max(s)]))]
<1>1. m \in Nat /\ Len(values) \in Nat /\ n + 1 \in Int /\ 1 <= n + 1
  OBVIOUS
<1>2. DOMAIN q = S /\ \A i \in S : q[i] \in Fractions
  <2>1. /\ q \in Seq(Fractions)
        /\ Len(q) = IF n + 1 <= Len(values) THEN Len(values) - (n + 1) + 1 ELSE 0
        /\ DOMAIN q = 1..Len(q)
    BY <1>1, SliceIs
  <2> HIDE DEF q
  <2>2. Len(q) = m
    BY <1>1, <2>1
  <2>4. \A i \in 1..m : q[i] \in Fractions
    BY <2>1, <2>2
  <2> QED
    BY <2>1, <2>2, <2>4
<1>3. base \in V
  <2> DEFINE w == SubSeq(values, 1, n)
  <2>1. w \in Seq(Fractions) /\ Len(w) = (IF 1 <= n THEN n - 1 + 1 ELSE 0)
    BY <1>1, SliceIs
  <2> HIDE DEF w
  <2>2. w # <<>>
    BY <2>1
  <2>3. Average(w) \in Fractions
    BY <2>1, <2>2, AverageType
  <2> DEFINE v == Average(w)
  <2>4. v \in Fractions /\ base = <<v>>
    BY <2>3 DEF w
  <2> HIDE DEF v
  <2> QED
    BY <2>4
<1>4. ASSUME NEW a \in V, NEW b \in Fractions
      PROVE  Append(a, Smoothed(n, Last(a), b)) \in V /\ Last(a) \in Fractions
  <2>1. a \in Seq(Fractions) /\ a # <<>>
    OBVIOUS
  <2>2. Len(a) \in 1..Len(a)
    BY <2>1, EmptySeq, LenProperties
  <2>3. Last(a) \in Fractions
    BY <2>1, <2>2 DEF Last
  <2>4. Smoothed(n, Last(a), b) \in Fractions
    BY <2>3, SmoothedType
  <2> QED
    BY <2>1, <2>3, <2>4, AppendProperties
<1>5. G \in [V \X Fractions -> V]
  BY <1>4
<1>6. \A a \in V, b \in Fractions : G[<<a, b>>] = Append(a, Smoothed(n, Last(a), b))
  <2> HIDE DEF V
  <2> QED
    OBVIOUS
<1>7. IsFiniteSet(S) /\ \A s \in SUBSET S : s # {} => Max(s) \in s /\ C[s] = Max(s) /\ C[s] \in s
  <2> HIDE DEF m
  <2>1. IsFiniteSet(1..m) /\ \A s \in SUBSET (1..m) : s # {} => Max(s) \in s
    BY <1>1, LargestChosen
  <2> QED
    BY <2>1
<1>8. EmaSeries(values, n) = (CHOOSE h : Iter(h))[S]
  <2>1. EmaSeries(values, n) =
          FoldLeft(LAMBDA done, v : Append(done, Smoothed(n, Last(done), v)), base, q)
    BY Zenon DEF EmaSeries
  <2> HIDE DEF base, q, m
  <2>2. FoldLeft(LAMBDA done, v : Append(done, Smoothed(n, Last(done), v)), base, q)
          = (CHOOSE h : h = [s \in SUBSET (DOMAIN q) |->
                IF s = {} THEN base
                ELSE Append(h[s \ {Max(s)}], Smoothed(n, Last(h[s \ {Max(s)}]), q[Max(s)]))])[DOMAIN q]
    BY Zenon DEF FoldLeft, MapThenFoldSet
  <2> QED
    BY <1>2, <2>1, <2>2, Zenon
<1> HIDE DEF S, base, C, G, m, q, V
<1>9. PICK h : Folded(h, C, base, q, G, SUBSET S)
  BY <1>7, FoldExists
<1>10. \A s \in SUBSET S : h[s] \in V
  BY <1>2, <1>3, <1>5, <1>7, <1>9, FoldType
<1>11. Iter(h)
  <2>1. ASSUME NEW s \in SUBSET S, s # {}
        PROVE  G[<<h[s \ {C[s]}], q[C[s]]>>]
                 = Append(h[s \ {Max(s)}], Smoothed(n, Last(h[s \ {Max(s)}]), q[Max(s)]))
    <3>1. C[s] = Max(s) /\ Max(s) \in s
      BY <1>7, <2>1
    <3>2. h[s \ {Max(s)}] \in V /\ q[Max(s)] \in Fractions
      BY <1>2, <1>10, <3>1
    <3> QED
      BY <1>6, <3>1, <3>2
  <2> QED
    BY <1>9, <2>1 DEF Folded
<1> DEFINE k == CHOOSE g : Iter(g)
<1>12. Iter(k)
  <2> HIDE DEF Iter
  <2> QED
    BY <1>11
<1>13. EmaSeries(values, n) = k[S]
  BY <1>8
<1> HIDE DEF k
<1>14. k[S] \in V
  <2> DEFINE A == {s \in SUBSET S : k[s] \in V}
  <2>1. ASSUME NEW s \in SUBSET S, \A u \in SUBSET s : u # s => u \in A PROVE s \in A
    <3>1. CASE s = {}
      <4>1. k[s] = base
        BY <1>12, <3>1
      <4> QED
        BY <1>3, <4>1
    <3>2. CASE s # {}
      <4>1. Max(s) \in s
        BY <1>7, <3>2
      <4>2. s \ {Max(s)} \in A
        BY <2>1, <4>1
      <4>3. k[s] = Append(k[s \ {Max(s)}], Smoothed(n, Last(k[s \ {Max(s)}]), q[Max(s)]))
        BY <1>12, <3>2
      <4>4. q[Max(s)] \in Fractions /\ k[s \ {Max(s)}] \in V
        BY <1>2, <4>1, <4>2
      <4> QED
        BY <1>4, <4>3, <4>4
    <3> QED
      BY <3>1, <3>2
  <2>2. A \subseteq SUBSET S
    OBVIOUS
  <2> HIDE DEF A
  <2>3. S \in A
    <3>1. A = SUBSET S
      BY <1>7, <2>1, <2>2, SubsetInduct
    <3> QED
      BY <3>1
  <2> QED
    BY <2>3 DEF A
<1>15. \E b \in Fractions : TRUE
  <2>1. [num |-> 0, den |-> 1] \in Fractions
    BY DEF Fractions
  <2> QED
    BY <2>1
<1> QED
  BY <1>4, <1>13, <1>14, <1>15

-----------------------------------------------------------------------------
(* What is read of the closes *)

\* The values of one field of a series, one of each bar.
LEMMA FieldIs ==
    ASSUME NEW s \in Seq(MergedBars), NEW f \in {"close", "high", "low", "volume"}
    PROVE  /\ Field(s, f) \in Seq(Int) /\ Len(Field(s, f)) = Len(s) /\ DOMAIN Field(s, f) = 1..Len(s)
           /\ Len(s) \in Nat /\ \A i \in 1..Len(s) : Field(s, f)[i] = s[i][f] /\ s[i][f] \in Int
<1>1. Len(s) \in Nat /\ DOMAIN s = 1..Len(s) /\ \A i \in 1..Len(s) : s[i] \in MergedBars
  OBVIOUS
<1>2. \A b \in MergedBars : b[f] \in Int
  BY DEF MergedBars
<1>3. Field(s, f) = [i \in 1..Len(s) |-> s[i][f]]
  BY <1>1 DEF Field
<1> QED
  BY <1>1, <1>2, <1>3

\* The closes a reader sees: those of the series, up to the bar that select names.
LEMMA ClosesAre ==
    ASSUME SeriesAssumption, SeriesInv, NEW t \in BarTypes, Readable(t), NEW s \in Nat \ {0}
    PROVE  /\ Closes(t, s) \in Seq(Int)
           /\ Len(series[t]) \in Nat /\ Len(series[t]) - s + 1 \in Int
           /\ Len(Closes(t, s)) = IF Len(series[t]) - s + 1 < 1 THEN 0 ELSE Len(series[t]) - s + 1
           /\ Len(Closes(t, s)) \in Nat
           /\ \A i \in 1..Len(Closes(t, s)) : Closes(t, s)[i] = series[t][i].close
<1> DEFINE u == Upto(t, s)
<1>1. /\ Len(series[t]) - s + 1 \in Int /\ u \in Seq(MergedBars)
      /\ Len(u) = IF Len(series[t]) - s + 1 < 1 THEN 0 ELSE Len(series[t]) - s + 1
      /\ \A i \in 1..Len(u) : u[i] = series[t][i]
  BY UptoIs
<1>2. Len(series[t]) \in Nat
  BY SeriesRead
<1> HIDE DEF u
<1>3. /\ Field(u, "close") \in Seq(Int) /\ Len(Field(u, "close")) = Len(u) /\ Len(u) \in Nat
      /\ \A i \in 1..Len(u) : Field(u, "close")[i] = u[i].close
  BY <1>1, FieldIs
<1>4. Closes(t, s) = Field(u, "close")
  BY DEF Closes, u
<1>5. \A i \in 1..Len(u) : Field(u, "close")[i] = series[t][i].close
  BY <1>1, <1>3
<1> QED
  BY <1>1, <1>2, <1>3, <1>4, <1>5

\* Two selects in a row: the closes of the earlier one are those of the later one
\* without the last.
LEMMA EarlierCloses ==
    ASSUME SeriesAssumption, SeriesInv, NEW t \in BarTypes, Readable(t), NEW s \in Nat \ {0}
    PROVE  /\ Closes(t, s + 1) \in Seq(Int) /\ Closes(t, s) \in Seq(Int)
           /\ Len(Closes(t, s)) \in Nat
           /\ Len(Closes(t, s + 1)) = (IF Len(Closes(t, s)) = 0 THEN 0 ELSE Len(Closes(t, s)) - 1)
           /\ \A i \in 1..Len(Closes(t, s + 1)) : Closes(t, s + 1)[i] = Closes(t, s)[i]
<1>1. s + 1 \in Nat \ {0}
  OBVIOUS
<1> DEFINE c == Closes(t, s)
           d == Closes(t, s + 1)
           L == Len(series[t])
<1>2. /\ c \in Seq(Int) /\ L \in Nat /\ Len(c) = (IF L - s + 1 < 1 THEN 0 ELSE L - s + 1)
      /\ \A i \in 1..Len(c) : c[i] = series[t][i].close
  BY ClosesAre
<1>3. /\ d \in Seq(Int) /\ Len(d) = (IF L - (s + 1) + 1 < 1 THEN 0 ELSE L - (s + 1) + 1)
      /\ \A i \in 1..Len(d) : d[i] = series[t][i].close
  BY <1>1, ClosesAre
<1> HIDE DEF c, d, L
<1>4. Len(c) \in Nat /\ Len(d) = (IF Len(c) = 0 THEN 0 ELSE Len(c) - 1)
  BY <1>2, <1>3
<1>5. \A i \in 1..Len(d) : i \in 1..Len(c)
  BY <1>4
<1> QED
  BY <1>2, <1>3, <1>4, <1>5 DEF c, d

\* Slices of sequences that agree on them.
LEMMA SameSlice ==
    ASSUME NEW S, NEW s \in Seq(S), NEW q \in Seq(S), NEW m \in Int, NEW n \in Int,
           1 <= m, n <= Len(s), n <= Len(q), \A i \in m..n : s[i] = q[i]
    PROVE  SubSeq(s, m, n) = SubSeq(q, m, n)
<1> DEFINE a == SubSeq(s, m, n)
           b == SubSeq(q, m, n)
<1>1. /\ Len(a) = (IF m <= n THEN n - m + 1 ELSE 0) /\ a = [i \in 1..Len(a) |-> s[m + i - 1]]
      /\ Len(b) = (IF m <= n THEN n - m + 1 ELSE 0) /\ b = [i \in 1..Len(b) |-> q[m + i - 1]]
  BY SliceIs
<1> HIDE DEF a, b
<1>2. Len(a) = Len(b)
  BY <1>1
<1>3. \A i \in 1..Len(a) : m + i - 1 \in m..n
  BY <1>1
<1>4. \A i \in 1..Len(a) : s[m + i - 1] = q[m + i - 1]
  BY <1>3
<1> QED
  BY <1>1, <1>2, <1>4 DEF a, b

\* The moving average of a history d is the last of the moving averages of any history
\* c that goes on from it, and its price the last one of the prices.
LEMMA AverageOfHistory ==
    ASSUME NEW c \in Seq(Int), NEW d \in Seq(Int), Len(d) \in 1..Len(c),
           \A i \in 1..Len(d) : d[i] = c[i], NEW n \in Nat \ {0}
    PROVE  /\ MovingAverage(d, n) = MA(c, n)[Len(d)]
           /\ Mean(LastOf(d, 1)) = Exact(c)[Len(d)] /\ Exact(c)[Len(d)] = Mean(<<c[Len(d)]>>)
           /\ Mean(LastOf(d, 1)) \in Fractions
<1> DEFINE l == Len(d)
<1>1. l \in Nat /\ l \in 1..l /\ l \in 1..Len(c) /\ Len(c) \in Nat /\ l <= Len(c) /\ DOMAIN c = 1..Len(c)
  BY EmptySeq, LenProperties
<1>2. MA(c, n)[l] = IF l < n THEN NaN ELSE Mean(SubSeq(c, l - n + 1, l))
  BY <1>1, Zenon DEF MA, Rolling, RollingWindow
<1>3. l >= n => SubSeq(c, l - n + 1, l) = SubSeq(d, l - n + 1, l)
  <2> SUFFICES ASSUME l >= n PROVE SubSeq(c, l - n + 1, l) = SubSeq(d, l - n + 1, l)
    OBVIOUS
  <2> DEFINE m == l - n + 1
  <2>1. m \in Int /\ 1 <= m /\ l <= Len(c) /\ l <= Len(d) /\ l \in Int
    BY <1>1
  <2>2. \A i \in m..l : c[i] = d[i]
    <3>1. \A i \in m..l : i \in 1..Len(d)
      BY <2>1
    <3> QED
      BY <3>1
  <2> HIDE DEF m, l
  <2>3. SubSeq(c, m, l) = SubSeq(d, m, l)
    BY <2>1, <2>2, SameSlice
  <2> QED
    BY <2>3 DEF m
<1>4. MovingAverage(d, n) = MA(c, n)[l]
  <2>1. MovingAverage(d, n) = IF l < n THEN NaN ELSE Mean(SubSeq(d, l - n + 1, l))
    BY DEF MovingAverage, LastOf
  <2>2. l < n \/ l >= n
    BY <1>1
  <2> HIDE DEF l
  <2>3. CASE l < n
    BY <1>2, <2>1, <2>3
  <2>4. CASE l >= n
    <3>1. ~(l < n)
      BY <1>1, <2>4
    <3>2. MA(c, n)[l] = Mean(SubSeq(c, l - n + 1, l))
      BY <1>2, <3>1
    <3>3. MovingAverage(d, n) = Mean(SubSeq(d, l - n + 1, l))
      BY <2>1, <3>1
    <3> QED
      BY ONLY <1>3, <2>4, <3>2, <3>3
  <2> QED
    BY <2>2, <2>3, <2>4
<1>5. LastOf(d, 1) = <<c[l]>>
  <2> DEFINE w == SubSeq(d, l, l)
  <2>1. l - 1 + 1 = l /\ l \in Int /\ 1 <= l /\ l <= Len(d)
    BY <1>1
  <2>2. LastOf(d, 1) = w
    BY <2>1 DEF LastOf
  <2>3. Len(w) = (IF l <= l THEN l - l + 1 ELSE 0) /\ w = [i \in 1..Len(w) |-> d[l + i - 1]]
    <3> HIDE DEF l
    <3> QED
      BY <2>1, SliceIs
  <2> HIDE DEF w
  <2>4. Len(w) = 1 /\ l + 1 - 1 = l /\ 1..1 = {1}
    BY <2>1, <2>3
  <2>5. w = [i \in 1..1 |-> d[l + i - 1]]
    BY <2>3, <2>4
  <2>6. w = [i \in 1..1 |-> d[l]]
    BY <2>4, <2>5
  <2>7. d[l] = c[l]
    BY <1>1
  <2>8. <<c[l]>> = [i \in 1..1 |-> c[l]]
    OBVIOUS
  <2> QED
    BY <2>2, <2>6, <2>7, <2>8
<1>6. c[l] \in Int
  BY <1>1
<1>7. Exact(c)[l] = Mean(<<c[l]>>)
  BY <1>1 DEF Exact
<1>8. Mean(<<c[l]>>) \in Fractions
  BY <1>6, MeanOfOne
<1> QED
  BY <1>4, <1>5, <1>7, <1>8

\* A moving average of enough values is a fraction.
LEMMA MovingAverageType ==
    ASSUME NEW c \in Seq(Int), NEW n \in Nat \ {0}
    PROVE  Len(c) >= n => MovingAverage(c, n) \in Fractions
<1> SUFFICES ASSUME Len(c) >= n PROVE MovingAverage(c, n) \in Fractions
  OBVIOUS
<1> DEFINE m == Len(c) - n + 1
           w == SubSeq(c, m, Len(c))
<1>1. m \in Int /\ 1 <= m /\ m <= Len(c) /\ Len(c) \in Int /\ Len(c) <= Len(c)
  OBVIOUS
<1>2. w \in Seq(Int) /\ Len(w) = (IF m <= Len(c) THEN Len(c) - m + 1 ELSE 0)
  BY <1>1, SliceIs
<1>3. MovingAverage(c, n) = Mean(w)
  <2>1. ~(Len(c) < n)
    OBVIOUS
  <2> QED
    BY <2>1 DEF MovingAverage, LastOf
<1> HIDE DEF w
<1>4. w # <<>>
  BY <1>1, <1>2
<1> QED
  BY <1>2, <1>3, <1>4, MeanType

\* What a cross of the middle band looks at.
LEMMA CrossesMiddleIs ==
    ASSUME NEW t, NEW n, NEW s \in Nat, NEW above
    PROVE  CrossesMiddle(t, n, s, above) <=>
             /\ Closes(t, s + 1) # <<>>
             /\ Crosses(Mean(LastOf(Closes(t, s), 1)), MovingAverage(Closes(t, s), n),
                        Mean(LastOf(Closes(t, s + 1), 1)), MovingAverage(Closes(t, s + 1), n), above)
<1> DEFINE b == [x \in {s, s + 1} |-> Middle(t, n, x)]
<1>1. b[s] = MovingAverage(Closes(t, s), n) /\ b[s + 1] = MovingAverage(Closes(t, s + 1), n)
  BY DEF Middle
<1>2. CrossesMiddle(t, n, s, above) = CrossesBand(t, s, b, above)
  BY DEF CrossesMiddle
<1> HIDE DEF b
<1> QED
  BY <1>1, <1>2 DEF CrossesBand

\* An empty history has no length, and the other way round.
LEMMA NoCloses ==
    ASSUME NEW c \in Seq(Int)
    PROVE  c = <<>> <=> Len(c) = 0
BY EmptySeq

\* A cross of the middle band is what the language of the custom indicators finds
\* on the last bar.
LEMMA CrossesInBoth ==
    ASSUME SeriesAssumption, SeriesInv, NEW t \in BarTypes, Readable(t), NEW s \in Nat \ {0},
           NEW n \in Nat \ {0}, Closes(t, s) # <<>>
    PROVE  LET c == Closes(t, s)
           IN /\ CrossesMiddle(t, n, s, TRUE) = Last(CROSS(Exact(c), MA(c, n)))
              /\ CrossesMiddle(t, n, s, FALSE) = Last(CROSS(MA(c, n), Exact(c)))
<1> DEFINE c == Closes(t, s)
           d == Closes(t, s + 1)
           N == Len(c)
           p == Exact(c)
           m == MA(c, n)
<1>1. /\ c \in Seq(Int) /\ d \in Seq(Int) /\ N \in Nat /\ N >= 1 /\ Len(d) = N - 1
      /\ \A i \in 1..Len(d) : d[i] = c[i]
  <2>1. /\ c \in Seq(Int) /\ d \in Seq(Int) /\ N \in Nat /\ Len(d) = (IF N = 0 THEN 0 ELSE N - 1)
        /\ \A i \in 1..Len(d) : d[i] = c[i]
    BY EarlierCloses
  <2>2. N # 0
    BY <2>1, NoCloses
  <2> HIDE DEF c, d, N
  <2> QED
    BY <2>1, <2>2
<1>2. s \in Nat /\ DOMAIN c = 1..N
  BY <1>1
<1>3. /\ CrossesMiddle(t, n, s, TRUE) <=>
             /\ d # <<>>
             /\ Crosses(Mean(LastOf(c, 1)), MovingAverage(c, n), Mean(LastOf(d, 1)), MovingAverage(d, n), TRUE)
      /\ CrossesMiddle(t, n, s, FALSE) <=>
             /\ d # <<>>
             /\ Crosses(Mean(LastOf(c, 1)), MovingAverage(c, n), Mean(LastOf(d, 1)), MovingAverage(d, n), FALSE)
  BY <1>2, CrossesMiddleIs
<1>4. DOMAIN p = 1..N /\ DOMAIN m = 1..N /\ Len(p) = N /\ Len(m) = N
  <2>1. p = [i \in 1..N |-> Mean(<<c[i]>>)]
    BY <1>2 DEF Exact
  <2>2. m = [i \in 1..N |-> IF i < n THEN NaN ELSE Mean(SubSeq(c, i - n + 1, i))]
    BY <1>2, Zenon DEF MA, Rolling, RollingWindow
  <2> HIDE DEF p, m, N
  <2> QED
    BY <1>1, <2>1, <2>2
<1> HIDE DEF c, d
<1>5. Mean(LastOf(c, 1)) = p[N] /\ MovingAverage(c, n) = m[N]
  <2>1. Len(c) \in 1..Len(c) /\ \A i \in 1..Len(c) : c[i] = c[i]
    BY <1>1
  <2> QED
    BY <1>1, <2>1, AverageOfHistory
<1>6. N > 1 => Mean(LastOf(d, 1)) = p[N - 1] /\ MovingAverage(d, n) = m[N - 1]
  <2> SUFFICES ASSUME N > 1 PROVE Mean(LastOf(d, 1)) = p[N - 1] /\ MovingAverage(d, n) = m[N - 1]
    OBVIOUS
  <2>1. Len(d) \in 1..Len(c)
    BY <1>1
  <2>2. Mean(LastOf(d, 1)) = p[Len(d)] /\ MovingAverage(d, n) = m[Len(d)]
    BY <1>1, <2>1, AverageOfHistory
  <2> HIDE DEF p, m
  <2> QED
    BY <1>1, <2>2
<1>7. d # <<>> <=> N > 1
  <2>1. d = <<>> <=> Len(d) = 0
    BY <1>1, NoCloses
  <2> QED
    BY <1>1, <2>1
<1> HIDE DEF p, m, N
<1>8. Max({1, N}) = N
  <2>1. {1, N} \in SUBSET Int /\ N \in {1, N} /\ \A i \in {1, N} : i <= N
    BY <1>1
  <2> QED
    BY <2>1, MaxIs
<1>9. ASSUME NEW a, NEW b, Len(a) = N
      PROVE  Last(CROSS(a, b)) = (N > 1 /\ Exceeds(a[N], b[N]) /\ Reaches(b[N - 1], a[N - 1]))
  <2> DEFINE x == CROSS(a, b)
  <2>1. x = [i \in 1..N |-> i > 1 /\ Exceeds(a[i], b[i]) /\ Reaches(b[i - 1], a[i - 1])]
    BY <1>8, <1>9, Zenon DEF CROSS
  <2>2. N \in 1..N
    BY <1>1
  <2>3. x[N] = (N > 1 /\ Exceeds(a[N], b[N]) /\ Reaches(b[N - 1], a[N - 1]))
    BY <2>1, <2>2, Zenon
  <2>4. Len(x) = N
    <3>1. DOMAIN x = 1..N
      BY <2>1
    <3> HIDE DEF x
    <3> QED
      BY <1>1, <3>1
  <2> HIDE DEF x
  <2>5. Last(x) = x[N]
    BY <2>4 DEF Last
  <2> QED
    BY <2>3, <2>5 DEF x
<1>10. CrossesMiddle(t, n, s, TRUE) = Last(CROSS(p, m))
  <2>1. Last(CROSS(p, m)) = (N > 1 /\ Exceeds(p[N], m[N]) /\ Reaches(m[N - 1], p[N - 1]))
    BY <1>4, <1>9
  <2>2. CrossesMiddle(t, n, s, TRUE) <=>
             N > 1 /\ Exceeds(p[N], m[N]) /\ Reaches(m[N - 1], p[N - 1])
    BY <1>3, <1>5, <1>6, <1>7 DEF Crosses
  <2>3. CrossesMiddle(t, n, s, TRUE) \in BOOLEAN
    BY Zenon DEF CrossesMiddle, CrossesBand
  <2> DEFINE x == CrossesMiddle(t, n, s, TRUE)
             y == N > 1 /\ Exceeds(p[N], m[N]) /\ Reaches(m[N - 1], p[N - 1])
  <2>4. x \in BOOLEAN /\ (x <=> y)
    BY <2>2, <2>3
  <2>5. y \in BOOLEAN
    BY Zenon
  <2> HIDE DEF x, y
  <2>6. x = y
    BY <2>4, <2>5
  <2> QED
    BY <2>1, <2>6, Zenon DEF x, y
<1>11. CrossesMiddle(t, n, s, FALSE) = Last(CROSS(m, p))
  <2>1. Last(CROSS(m, p)) = (N > 1 /\ Exceeds(m[N], p[N]) /\ Reaches(p[N - 1], m[N - 1]))
    BY <1>4, <1>9
  <2>2. CrossesMiddle(t, n, s, FALSE) <=>
             N > 1 /\ Exceeds(m[N], p[N]) /\ Reaches(p[N - 1], m[N - 1])
    BY <1>3, <1>5, <1>6, <1>7 DEF Crosses
  <2>3. CrossesMiddle(t, n, s, FALSE) \in BOOLEAN
    BY Zenon DEF CrossesMiddle, CrossesBand
  <2> DEFINE x == CrossesMiddle(t, n, s, FALSE)
             y == N > 1 /\ Exceeds(m[N], p[N]) /\ Reaches(p[N - 1], m[N - 1])
  <2>4. x \in BOOLEAN /\ (x <=> y)
    BY <2>2, <2>3
  <2>5. y \in BOOLEAN
    BY Zenon
  <2> HIDE DEF x, y
  <2>6. x = y
    BY <2>4, <2>5
  <2> QED
    BY <2>1, <2>6, Zenon DEF x, y
<1> QED
  BY <1>10, <1>11 DEF c, p, m

-----------------------------------------------------------------------------
(* The environment of the custom indicators *)

\* A function on the first numbers is a sequence.
LEMMA FunctionIsSeq ==
    ASSUME NEW S, NEW n \in Nat, NEW x, DOMAIN x = 1..n, x = [i \in 1..n |-> x[i]],
           \A i \in 1..n : x[i] \in S
    PROVE  x \in Seq(S) /\ Len(x) = n
<1>1. x \in [1..n -> S]
  OBVIOUS
<1>2. x \in Seq(S)
  BY <1>1
<1> QED
  BY <1>2

\* The fields an indicator of a strategy is given are those the readers see.
LEMMA EnvironmentIs ==
    ASSUME SeriesAssumption, SeriesInv, NEW t \in BarTypes, Readable(t), NEW s \in Nat \ {0},
           Closes(t, s) # <<>>
    PROVE  /\ Environment(t, "close", s) = Closes(t, s)
           /\ series[t] \in Seq(MergedBars) /\ Len(series[t]) \in Nat /\ Len(series[t]) >= 1
           /\ \A f : Environment(t, f, 1) = Field(series[t], f)
<1> DEFINE a == series[t]
           L == Len(a)
           k == L - s + 1
<1>1. a \in Seq(MergedBars) /\ L \in Nat
  BY SeriesRead
<1>2. k \in Int /\ ~(k < 1)
  <2>1. /\ Closes(t, s) \in Seq(Int) /\ k \in Int
        /\ Len(Closes(t, s)) = IF k < 1 THEN 0 ELSE k
    BY ClosesAre
  <2>2. Len(Closes(t, s)) # 0
    BY <2>1, NoCloses
  <2> HIDE DEF k
  <2> QED
    BY <2>1, <2>2
<1>3. k >= 1 /\ L >= 1
  BY <1>1, <1>2
<1>4. ASSUME NEW x \in Nat PROVE Max({0, x}) = x
  <2>1. {0, x} \in SUBSET Int /\ x \in {0, x} /\ \A i \in {0, x} : i <= x
    OBVIOUS
  <2> QED
    BY <2>1, MaxIs
<1>5. Environment(t, "close", s) = Closes(t, s)
  <2>1. k \in Nat
    BY <1>2, <1>3
  <2>2. Max({0, Len(series[t]) - s + 1}) = Len(series[t]) - s + 1
    BY <1>4, <2>1
  <2> HIDE DEF a, L, k
  <2> QED
    BY <2>2 DEF Environment, Closes, Upto
<1>6. ASSUME NEW f PROVE Environment(t, f, 1) = Field(a, f)
  <2>1. Len(series[t]) - 1 + 1 = Len(series[t]) /\ Len(series[t]) \in Nat
    BY <1>1
  <2>2. Max({0, Len(series[t]) - 1 + 1}) = Len(series[t])
    BY <1>4, <2>1
  <2>3. SubSeq(series[t], 1, Len(series[t])) = series[t]
    BY <1>1, SubSeqFull
  <2> HIDE DEF a, L, k
  <2> QED
    BY <2>2, <2>3 DEF Environment, a
<1> QED
  BY <1>1, <1>3, <1>5, <1>6

\* The highest, the lowest and the sum of the last n values of the language are those
\* of the custom bar of n bars.
LEMMA WindowsInBoth ==
    ASSUME SeriesAssumption, SeriesInv, NEW t \in BarTypes, Readable(t), NEW s \in Nat \ {0},
           Closes(t, s) # <<>>, NEW n \in Nat \ {0}
    PROVE  /\ Last(HHV(Environment(t, "high", 1), n)) = BarCustom(t, "high", n, 1)
           /\ Last(LLV(Environment(t, "low", 1), n)) = BarCustom(t, "low", n, 1)
           /\ Last(SUM(Environment(t, "volume", 1), n)) = BarCustom(t, "volume", n, 1)
<1> DEFINE a == series[t]
           L == Len(a)
           w == SubSeq(a, L - n + 1, L)
           v(f) == SubSeq(Field(a, f), L - n + 1, L)
<1>1. a \in Seq(MergedBars) /\ L \in Nat /\ L >= 1
  BY EnvironmentIs
<1>2. \A f : Environment(t, f, 1) = Field(a, f)
  BY EnvironmentIs
<1>3. CustomEnd(t, n, 1) = L
  <2>1. (1 - 1) * n = 0
    OBVIOUS
  <2> DEFINE z == (1 - 1) * n
  <2>2. z = 0
    BY <2>1
  <2>3. CustomEnd(t, n, 1) = L - z
    BY DEF CustomEnd
  <2> HIDE DEF z, L
  <2> QED
    BY <1>1, <2>2, <2>3
<1>4. ASSUME NEW f \in {"high", "low", "volume"}
      PROVE  DOMAIN Field(a, f) = 1..L /\ Field(a, f) \in Seq(Int) /\ Len(Field(a, f)) = L
  BY <1>1, FieldIs
<1>5. ASSUME NEW f \in {"high", "low", "volume"}, ~(L < n)
      PROVE  /\ DOMAIN v(f) = 1..n /\ DOMAIN w = 1..n /\ Len(w) = n
             /\ \A i \in 1..n : v(f)[i] = w[i][f]
             /\ v(f) = Field(w, f)
  <2> DEFINE m == L - n + 1
             h == Field(a, f)
             x == SubSeq(h, m, L)
             y == SubSeq(a, m, L)
  <2>1. m \in Int /\ 1 <= m /\ m <= L /\ L - m + 1 = n /\ L \in Int /\ L <= L
    BY <1>1, <1>5
  <2>2. h \in Seq(Int) /\ Len(h) = L /\ \A i \in 1..L : h[i] = a[i][f]
    <3> HIDE DEF a
    <3>1. f \in {"close", "high", "low", "volume"}
      BY ONLY f \in {"high", "low", "volume"}
    <3> QED
      BY ONLY <1>1, <3>1, FieldIs
  <2> HIDE DEF m, h
  <2>3. Len(x) = n /\ x = [i \in 1..n |-> h[m + i - 1]]
    <3>1. Len(x) = (IF m <= L THEN L - m + 1 ELSE 0) /\ x = [i \in 1..Len(x) |-> h[m + i - 1]]
      BY <2>1, <2>2, SliceIs
    <3> HIDE DEF x
    <3> QED
      BY <2>1, <3>1
  <2>4. Len(y) = n /\ y = [i \in 1..n |-> a[m + i - 1]]
    <3>1. Len(y) = (IF m <= L THEN L - m + 1 ELSE 0) /\ y = [i \in 1..Len(y) |-> a[m + i - 1]]
      BY <1>1, <2>1, SliceIs
    <3> HIDE DEF y
    <3> QED
      BY <2>1, <3>1
  <2>5. \A i \in 1..n : m + i - 1 \in 1..L
    BY <2>1
  <2> HIDE DEF x, y
  <2>6. \A i \in 1..n : x[i] = y[i][f]
    BY <2>2, <2>3, <2>4, <2>5
  <2>7. Field(y, f) = [i \in 1..n |-> y[i][f]]
    BY <2>4 DEF Field
  <2>8. x = [i \in 1..n |-> y[i][f]]
    BY <2>3, <2>6
  <2>9. DOMAIN x = 1..n /\ DOMAIN y = 1..n
    BY <2>3, <2>4
  <2>10. x = v(f) /\ y = w
    BY DEF x, y, h, m
  <2> HIDE DEF v, w
  <2>11. DOMAIN x = 1..n /\ DOMAIN y = 1..n /\ Len(y) = n /\ (\A i \in 1..n : x[i] = y[i][f]) /\ x = Field(y, f)
    BY <2>4, <2>6, <2>7, <2>8, <2>9
  <2> QED
    BY ONLY <2>10, <2>11
<1>6. L \in 1..L
  BY <1>1
<1>7. ASSUME NEW x, DOMAIN x = 1..L PROVE Last(x) = x[L]
  <2>1. Len(x) = L
    <3> HIDE DEF L
    <3> QED
      BY <1>1, <1>7
  <2> QED
    BY <2>1 DEF Last
<1>8. Last(HHV(Field(a, "high"), n)) = IF L < n THEN NaN ELSE Max({v("high")[i] : i \in DOMAIN v("high")})
  <2> DEFINE x == HHV(Field(a, "high"), n)
  <2>1. DOMAIN Field(a, "high") = 1..L
    BY <1>4
  <2>2. DOMAIN x = 1..L /\ x[L] = IF L < n THEN NaN ELSE Max({v("high")[i] : i \in DOMAIN v("high")})
    BY <1>6, <2>1, Zenon DEF HHV, Rolling, RollingWindow
  <2> HIDE DEF x
  <2>3. Last(x) = x[L]
    BY <1>7, <2>2
  <2> QED
    BY <2>2, <2>3 DEF x
<1>9. Last(LLV(Field(a, "low"), n)) = IF L < n THEN NaN ELSE Min({v("low")[i] : i \in DOMAIN v("low")})
  <2> DEFINE x == LLV(Field(a, "low"), n)
  <2>1. DOMAIN Field(a, "low") = 1..L
    BY <1>4
  <2>2. DOMAIN x = 1..L /\ x[L] = IF L < n THEN NaN ELSE Min({v("low")[i] : i \in DOMAIN v("low")})
    BY <1>6, <2>1, Zenon DEF LLV, Rolling, RollingWindow
  <2> HIDE DEF x
  <2>3. Last(x) = x[L]
    BY <1>7, <2>2
  <2> QED
    BY <2>2, <2>3 DEF x
<1>10. Last(SUM(Field(a, "volume"), n)) = IF L < n THEN NaN ELSE FoldSeq(+, 0, v("volume"))
  <2> DEFINE x == SUM(Field(a, "volume"), n)
  <2>1. DOMAIN Field(a, "volume") = 1..L
    BY <1>4
  <2>2. DOMAIN x = 1..L /\ x[L] = IF L < n THEN NaN ELSE FoldSeq(+, 0, v("volume"))
    BY <1>6, <2>1, Zenon DEF SUM, Rolling, RollingWindow
  <2> HIDE DEF x
  <2>3. Last(x) = x[L]
    BY <1>7, <2>2
  <2> QED
    BY <2>2, <2>3 DEF x
<1>11. /\ BarCustom(t, "high", n, 1) = IF L < n THEN NaN ELSE Max({w[i]["high"] : i \in 1..n})
       /\ BarCustom(t, "low", n, 1) = IF L < n THEN NaN ELSE Min({w[i]["low"] : i \in 1..n})
       /\ BarCustom(t, "volume", n, 1) = IF L < n THEN NaN ELSE FoldSeq(+, 0, Field(w, "volume"))
  BY <1>3, Zenon DEF BarCustom
<1>12. ~(L < n) =>
          /\ {v("high")[i] : i \in DOMAIN v("high")} = {w[i]["high"] : i \in 1..n}
          /\ {v("low")[i] : i \in DOMAIN v("low")} = {w[i]["low"] : i \in 1..n}
          /\ v("volume") = Field(w, "volume")
  <2> SUFFICES ASSUME ~(L < n)
               PROVE  /\ {v("high")[i] : i \in DOMAIN v("high")} = {w[i]["high"] : i \in 1..n}
                      /\ {v("low")[i] : i \in DOMAIN v("low")} = {w[i]["low"] : i \in 1..n}
                      /\ v("volume") = Field(w, "volume")
    OBVIOUS
  <2>1. DOMAIN v("high") = 1..n /\ \A i \in 1..n : v("high")[i] = w[i]["high"]
    BY <1>5
  <2>2. DOMAIN v("low") = 1..n /\ \A i \in 1..n : v("low")[i] = w[i]["low"]
    BY <1>5
  <2>3. v("volume") = Field(w, "volume")
    BY <1>5
  <2> HIDE DEF v, w
  <2> QED
    BY <2>1, <2>2, <2>3
<1> HIDE DEF v, w, L
<1> QED
  BY <1>2, <1>8, <1>9, <1>10, <1>11, <1>12

-----------------------------------------------------------------------------
(* The lines of a MACD *)

\* Prices as fractions.
LEMMA ExactIs ==
    ASSUME NEW c \in Seq(Int)
    PROVE  /\ Exact(c) \in Seq(Fractions) /\ Len(Exact(c)) = Len(c) /\ Len(c) \in Nat
           /\ \A i \in 1..Len(c) : Exact(c)[i] = [num |-> c[i], den |-> 1] /\ Exact(c)[i] \in Fractions
<1>1. Len(c) \in Nat /\ DOMAIN c = 1..Len(c) /\ \A i \in 1..Len(c) : c[i] \in Int
  OBVIOUS
<1>2. Exact(c) = [i \in 1..Len(c) |-> Mean(<<c[i]>>)]
  BY <1>1 DEF Exact
<1>3. \A i \in 1..Len(c) : Mean(<<c[i]>>) = [num |-> c[i], den |-> 1] /\ Mean(<<c[i]>>) \in Fractions
  BY <1>1, MeanOfOne
<1> DEFINE x == Exact(c)
<1>4. DOMAIN x = 1..Len(c) /\ x = [i \in 1..Len(c) |-> x[i]] /\ \A i \in 1..Len(c) : x[i] = Mean(<<c[i]>>)
  BY <1>2
<1> HIDE DEF x
<1>5. \A i \in 1..Len(c) : x[i] = [num |-> c[i], den |-> 1] /\ x[i] \in Fractions
  BY <1>3, <1>4
<1>6. x \in Seq(Fractions) /\ Len(x) = Len(c)
  BY <1>1, <1>4, <1>5, FunctionIsSeq
<1> QED
  BY <1>1, <1>5, <1>6 DEF x

\* Where the two averages of a history c have a value, and their differences there.
Fasts(c) == FullEma(Exact(c), Fast)
Slows(c) == FullEma(Exact(c), Slow)
Finite(c) == {i \in DOMAIN Exact(c) : Difference(Fasts(c)[i], Slows(c)[i]) # NaN}
Difs(c) == [k \in 1..Cardinality(Finite(c)) |->
              Difference(Fasts(c)[Nth(Finite(c), k)], Slows(c)[Nth(Finite(c), k)])]

\* The lines of a MACD, of the closes alone.
LEMMA MacdIs ==
    ASSUME NEW t, NEW s
    PROVE  Macd(t, s) = IF Len(Exact(Closes(t, s))) < Slow + Signal - 1 \/ Len(Difs(Closes(t, s))) < Signal
                        THEN [dif |-> NaN, dea |-> NaN]
                        ELSE [dif |-> Last(Difs(Closes(t, s))), dea |-> Last(EmaSeries(Difs(Closes(t, s)), Signal))]
BY Zenon DEF Macd, Difs, Finite, Fasts, Slows

\* The differences are fractions, one for every close from where both averages start.
LEMMA DifferencesAre ==
    ASSUME IndicatorsAssumption, NEW c \in Seq(Int)
    PROVE  /\ Finite(c) = {i \in 1..Len(c) : Fast <= i /\ Slow <= i}
           /\ Finite(c) \in SUBSET Int /\ IsFiniteSet(Finite(c)) /\ Cardinality(Finite(c)) \in Nat
           /\ Difs(c) \in Seq(Fractions) /\ Len(Difs(c)) = Cardinality(Finite(c))
           /\ Len(Difs(c)) # 0 => Last(Difs(c)) = Difference(Ema(Exact(c), Fast), Ema(Exact(c), Slow))
<1> DEFINE e == Exact(c)
           N == Len(c)
           F == Finite(c)
           u == Fasts(c)
           v == Slows(c)
<1>1. e \in Seq(Fractions) /\ Len(e) = N /\ N \in Nat /\ DOMAIN e = 1..N
  BY ExactIs
<1>2. Fast \in Nat \ {0} /\ Slow \in Nat \ {0} /\ NaN \notin Fractions
  BY DEF IndicatorsAssumption
<1>3. /\ \A i \in 1..N : IF i < Fast THEN u[i] = NaN ELSE u[i] \in Fractions
      /\ N # 0 => u[N] = Ema(e, Fast)
  BY <1>1, <1>2, FullEmaIs DEF Fasts
<1>4. /\ \A i \in 1..N : IF i < Slow THEN v[i] = NaN ELSE v[i] \in Fractions
      /\ N # 0 => v[N] = Ema(e, Slow)
  BY <1>1, <1>2, FullEmaIs DEF Slows
<1> HIDE DEF e, N, u, v
<1>5. ASSUME NEW i \in 1..N
      PROVE  IF Fast <= i /\ Slow <= i THEN Difference(u[i], v[i]) \in Fractions
             ELSE Difference(u[i], v[i]) = NaN
  <2>1. i \in Nat
    OBVIOUS
  <2>2. CASE Fast <= i /\ Slow <= i
    <3>1. ~(i < Fast) /\ ~(i < Slow)
      BY <1>2, <2>1, <2>2
    <3>2. u[i] \in Fractions /\ v[i] \in Fractions
      BY <1>3, <1>4, <3>1
    <3>3. Difference(u[i], v[i]) = Minus(u[i], v[i])
      BY <1>2, <3>2 DEF Difference
    <3>4. Minus(u[i], v[i]) \in Fractions
      BY <3>2, MinusType
    <3> QED
      BY <2>2, <3>3, <3>4
  <2>3. CASE ~(Fast <= i /\ Slow <= i)
    <3>1. i < Fast \/ i < Slow
      BY <1>2, <2>1, <2>3
    <3>2. u[i] = NaN \/ v[i] = NaN
      BY <1>3, <1>4, <3>1
    <3> QED
      BY <2>3, <3>2 DEF Difference
  <2> QED
    BY <2>2, <2>3
<1>6. F = {i \in 1..N : Fast <= i /\ Slow <= i}
  <2>1. F = {i \in 1..N : Difference(u[i], v[i]) # NaN}
    BY <1>1 DEF Finite, e, u, v
  <2>2. \A i \in 1..N : Difference(u[i], v[i]) # NaN <=> Fast <= i /\ Slow <= i
    BY <1>2, <1>5
  <2> HIDE DEF F
  <2> QED
    BY <2>1, <2>2
<1>7. F \in SUBSET (1..N) /\ F \in SUBSET Int
  <2> HIDE DEF F
  <2> QED
    BY <1>6
<1>8. IsFiniteSet(F) /\ Cardinality(F) \in Nat
  <2>1. IsFiniteSet(1..N)
    BY <1>1, FS_Interval, 1 \in Int
  <2> QED
    BY <1>7, <2>1, FS_Subset, FS_CardinalityType
<1> HIDE DEF F
<1> DEFINE d == [k \in 1..Cardinality(F) |-> Difference(u[Nth(F, k)], v[Nth(F, k)])]
<1>9. ASSUME NEW k \in 1..Cardinality(F)
      PROVE  Nth(F, k) \in F /\ Difference(u[Nth(F, k)], v[Nth(F, k)]) \in Fractions
  <2>1. Nth(F, k) \in F
    BY <1>7, <1>8, NthMeans
  <2> DEFINE i == Nth(F, k)
  <2>2. i \in F
    BY <2>1
  <2> HIDE DEF i
  <2>3. i \in 1..N /\ Fast <= i /\ Slow <= i
    BY <1>6, <2>2
  <2>4. Difference(u[i], v[i]) \in Fractions
    BY <1>5, <2>3
  <2> QED
    BY <2>1, <2>4 DEF i
<1>10. d \in Seq(Fractions) /\ Len(d) = Cardinality(F)
  <2> DEFINE m == Cardinality(F)
  <2>1. m \in Nat /\ d \in [1..m -> Fractions]
    BY <1>8, <1>9
  <2>2. DOMAIN d = 1..m /\ d = [k \in 1..m |-> d[k]]
    OBVIOUS
  <2>3. \A k \in 1..m : d[k] \in Fractions
    BY <2>1
  <2> HIDE DEF m, d
  <2>4. d \in Seq(Fractions) /\ Len(d) = m
    BY <2>1, <2>2, <2>3, FunctionIsSeq
  <2> QED
    BY <2>4 DEF m
<1>11. ASSUME Len(d) # 0 PROVE Last(d) = Difference(Ema(e, Fast), Ema(e, Slow))
  <2> DEFINE m == Cardinality(F)
  <2>1. m \in 1..m /\ F # {}
    <3>1. m \in Nat /\ m # 0
      BY <1>8, <1>10, <1>11
    <3>2. F # {}
      BY <3>1, FS_EmptySet
    <3> HIDE DEF m
    <3> QED
      BY <3>1, <3>2
  <2>2. PICK j \in F : TRUE
    BY <2>1
  <2>3. N \in F /\ N # 0 /\ \A i \in F : i <= N
    BY <1>1, <1>2, <1>6, <2>2
  <2>4. Nth(F, m) = N
    BY <1>7, <1>8, <2>3, NthLast
  <2>5. Last(d) = d[m]
    BY <1>10 DEF Last
  <2>6. d[m] = Difference(u[N], v[N])
    BY <2>1, <2>4
  <2> QED
    BY <1>3, <1>4, <2>3, <2>5, <2>6
<1>12. Difs(c) = d
  BY DEF Difs, F, u, v
<1> HIDE DEF d
<1>13. /\ F = {i \in 1..N : Fast <= i /\ Slow <= i} /\ F \in SUBSET Int /\ IsFiniteSet(F)
       /\ Cardinality(F) \in Nat
  BY <1>6, <1>7, <1>8
<1> QED
  BY <1>10, <1>11, <1>12, <1>13 DEF F, N, e

\* The difference of a MACD, where there is one, is the one computed of the last
\* averages alone; both lines are fractions then.
LEMMA MacdMeans ==
    ASSUME SeriesAssumption, IndicatorsAssumption, SeriesInv, NEW t \in BarTypes, Readable(t),
           NEW s \in Nat \ {0}
    PROVE  LET c == Closes(t, s)
               some == Len(c) >= Slow + Signal - 1 /\ Cardinality(Finite(c)) >= Signal
           IN /\ some => /\ Macd(t, s).dif = MacdDif(t, s)
                         /\ Macd(t, s).dif \in Fractions /\ Macd(t, s).dea \in Fractions
              /\ ~some => Macd(t, s).dif = NaN /\ Macd(t, s).dea = NaN
<1> DEFINE c == Closes(t, s)
           d == Difs(c)
           some == Len(c) >= Slow + Signal - 1 /\ Cardinality(Finite(c)) >= Signal
<1>1. c \in Seq(Int) /\ Len(c) \in Nat /\ Slow \in Nat \ {0} /\ Signal \in Nat \ {0}
  BY ClosesAre DEF IndicatorsAssumption
<1>2. MacdDif(t, s) = Difference(Ema(Exact(c), Fast), Ema(Exact(c), Slow))
  BY DEF MacdDif
<1>3. Macd(t, s) = IF Len(Exact(c)) < Slow + Signal - 1 \/ Len(d) < Signal
                   THEN [dif |-> NaN, dea |-> NaN] ELSE [dif |-> Last(d), dea |-> Last(EmaSeries(d, Signal))]
  BY MacdIs
<1> HIDE DEF c
<1>4. Len(Exact(c)) = Len(c)
  BY <1>1, ExactIs
<1>5. /\ d \in Seq(Fractions) /\ Len(d) = Cardinality(Finite(c)) /\ Cardinality(Finite(c)) \in Nat
      /\ Len(d) # 0 => Last(d) = Difference(Ema(Exact(c), Fast), Ema(Exact(c), Slow))
  BY <1>1, DifferencesAre
<1> HIDE DEF d
<1>6. some <=> ~(Len(Exact(c)) < Slow + Signal - 1 \/ Len(d) < Signal)
  BY <1>1, <1>4, <1>5
<1>7. CASE some
  <2>1. Macd(t, s) = [dif |-> Last(d), dea |-> Last(EmaSeries(d, Signal))]
    BY <1>3, <1>6, <1>7
  <2>2. Signal <= Len(d) /\ Len(d) # 0 /\ Len(d) \in Nat
    BY <1>1, <1>5, <1>7
  <2>3. Last(d) \in Fractions
    <3>1. Len(d) \in 1..Len(d)
      BY <2>2
    <3> QED
      BY <1>5, <3>1 DEF Last
  <2>4. Last(EmaSeries(d, Signal)) \in Fractions
    BY <1>1, <1>5, <2>2, EmaSeriesType
  <2> QED
    BY <1>2, <1>5, <1>7, <2>1, <2>2, <2>3, <2>4 DEF c
<1>8. CASE ~some
  <2>1. Macd(t, s) = [dif |-> NaN, dea |-> NaN]
    BY <1>3, <1>6, <1>8
  <2> QED
    BY <1>8, <2>1 DEF c
<1> QED
  BY <1>7, <1>8

-----------------------------------------------------------------------------
(* Both languages *)

\* The last of the moving averages.
LEMMA LastAverage ==
    ASSUME NEW c \in Seq(Int), c # <<>>, NEW n \in Nat \ {0}
    PROVE  Last(MA(c, n)) = MovingAverage(c, n)
<1> DEFINE N == Len(c)
           x == MA(c, n)
<1>1. N \in Nat /\ N \in 1..N /\ DOMAIN c = 1..N
  BY EmptySeq, LenProperties
<1>2. DOMAIN x = 1..N
  BY <1>1, Zenon DEF MA, Rolling, RollingWindow
<1>3. MovingAverage(c, n) = x[N]
  BY <1>1, AverageOfHistory
<1> HIDE DEF x, N
<1>4. Len(x) = N
  BY <1>1, <1>2
<1> QED
  BY <1>3, <1>4 DEF Last, x

\* The averages of a strategy line up if those of the language do.
LEMMA AlignmentInBoth ==
    ASSUME SeriesAssumption, IndicatorsAssumption, SeriesInv, NEW t \in BarTypes, Readable(t),
           NEW s \in Nat \ {0}, Closes(t, s) # <<>>
    PROVE  LET falling == [i \in DOMAIN Averages |-> Last(MA(Closes(t, s), Averages[i]))]
           IN Alignment(t, s, TRUE) = \A i \in 1..(Len(falling) - 1) : Exceeds(falling[i], falling[i + 1])
<1> DEFINE c == Closes(t, s)
           x == [i \in DOMAIN Averages |-> MovingAverage(c, Averages[i])]
           y == [i \in DOMAIN Averages |-> Last(MA(c, Averages[i]))]
           m == Len(Averages)
<1>1. c \in Seq(Int)
  BY ClosesAre
<1>2. /\ Averages \in Seq(Nat \ {0}) /\ m \in Nat /\ m > 1 /\ DOMAIN Averages = 1..m
      /\ \A i \in 1..m : Averages[i] \in Nat \ {0}
  <2>1. Averages \in Seq(Nat \ {0}) /\ m > 1
    BY DEF IndicatorsAssumption
  <2> QED
    BY <2>1
<1> HIDE DEF c
<1>3. \A i \in 1..m : Last(MA(c, Averages[i])) = MovingAverage(c, Averages[i])
  BY <1>1, <1>2, LastAverage DEF c
<1>4. x = y
  BY <1>2, <1>3
<1>5. Alignment(t, s, TRUE) = InOrder(x, TRUE)
  BY DEF Alignment, c
<1>6. DOMAIN x = 1..m /\ Len(x) = m
  <2>1. DOMAIN x = 1..m
    BY <1>2
  <2> HIDE DEF x, m
  <2> QED
    BY <1>2, <2>1
<1> HIDE DEF x, y, m
<1>7. (\A i \in 1..(m - 1) : Exceeds(x[i], x[i + 1])) => \A i \in 1..m : x[i] # NaN
  <2> SUFFICES ASSUME \A i \in 1..(m - 1) : Exceeds(x[i], x[i + 1]), NEW i \in 1..m PROVE x[i] # NaN
    OBVIOUS
  <2>1. CASE i \in 1..(m - 1)
    BY <2>1 DEF Exceeds
  <2>2. CASE i = m
    <3>1. m - 1 \in 1..(m - 1) /\ (m - 1) + 1 = m
      BY <1>2
    <3> QED
      BY <2>2, <3>1 DEF Exceeds
  <2> QED
    BY <1>2, <2>1, <2>2
<1>8. InOrder(x, TRUE) = \A i \in 1..(m - 1) : Exceeds(x[i], x[i + 1])
  <2> DEFINE a == InOrder(x, TRUE)
             b == \A i \in 1..(m - 1) : Exceeds(x[i], x[i + 1])
  <2>1. a <=> b
    BY <1>6, <1>7 DEF InOrder
  <2>2. a \in BOOLEAN /\ b \in BOOLEAN
    BY Zenon DEF InOrder
  <2> HIDE DEF a, b
  <2>3. a = b
    BY <2>1, <2>2
  <2> QED
    BY <2>3 DEF a, b
<1>9. Alignment(t, s, TRUE) = \A i \in 1..(Len(y) - 1) : Exceeds(y[i], y[i + 1])
  BY <1>4, <1>5, <1>6, <1>8, Zenon
<1> QED
  BY <1>9 DEF y, c

\* Numbers compare like the fractions that stand for them.
LEMMA ExceedsExact ==
    ASSUME IndicatorsAssumption, NEW x \in Int, NEW y \in Int
    PROVE  Exceeds([num |-> x, den |-> 1], [num |-> y, den |-> 1]) <=> x > y
<1>1. [num |-> x, den |-> 1] # NaN /\ [num |-> y, den |-> 1] # NaN
  <2>1. [num |-> x, den |-> 1] \in Fractions /\ [num |-> y, den |-> 1] \in Fractions
    BY DEF Fractions
  <2> QED
    BY <2>1 DEF IndicatorsAssumption
<1> QED
  BY <1>1 DEF Exceeds

\* The run of closes above the one four bars before is the one the language finds.
LEMMA NineInBoth ==
    ASSUME SeriesAssumption, IndicatorsAssumption, SeriesInv, NEW t \in BarTypes, Readable(t),
           NEW s \in Nat \ {0}, Closes(t, s) # <<>>
    PROVE  LET closes == Closes(t, s)
               exact == Exact(closes)
               ago == REF(exact, Back)
           IN NineStructure(t, s, TRUE) =
                \A o \in 1..RunLength :
                    /\ o <= Len(closes) /\ Len(closes) >= Back
                    /\ Exceeds(exact[Len(closes) - o + 1], ago[Len(closes) - o + 1])
<1> DEFINE c == Closes(t, s)
           N == Len(c)
           e == Exact(c)
           g == REF(e, Back)
           R == RunLength
           B == Back
<1>1. c \in Seq(Int) /\ N \in Nat /\ R \in Nat \ {0} /\ B \in Nat /\ NaN \notin Fractions
  BY ClosesAre DEF IndicatorsAssumption
<1> HIDE DEF c
<1>2. /\ e \in Seq(Fractions) /\ Len(e) = N /\ \A i \in 1..N : c[i] \in Int
      /\ \A i \in 1..N : e[i] = [num |-> c[i], den |-> 1]
  BY <1>1, ExactIs
<1> HIDE DEF e, N
\* A reference to B bars ago: nothing for the first B, then the values.
<1>3. N >= B => \A i \in 1..N : IF i <= B THEN g[i] = NaN ELSE g[i] = e[i - B]
  <2> SUFFICES ASSUME N >= B, NEW i \in 1..N PROVE IF i <= B THEN g[i] = NaN ELSE g[i] = e[i - B]
    OBVIOUS
  <2> DEFINE x == [j \in 1..B |-> NaN]
             y == SubSeq(e, 1, N - B)
             V == Fractions \cup {NaN}
  <2>1. N - B \in Nat /\ Max({0, N - B}) = N - B
    <3>1. N - B \in Nat
      BY <1>1
    <3> DEFINE p == N - B
    <3>2. p \in Nat
      BY <3>1
    <3> HIDE DEF p
    <3>3. {0, p} \in SUBSET Int /\ p \in {0, p} /\ \A j \in {0, p} : j <= p
      BY <3>2
    <3>4. Max({0, p}) = p
      BY <3>3, MaxIs
    <3> QED
      BY <3>2, <3>4 DEF p
  <2>2. g = x \o y
    BY <1>2, <2>1 DEF REF
  <2>3. x \in Seq(V) /\ Len(x) = B /\ \A j \in 1..B : x[j] = NaN
    <3>1. DOMAIN x = 1..B /\ x = [j \in 1..B |-> x[j]] /\ \A j \in 1..B : x[j] = NaN /\ x[j] \in V
      OBVIOUS
    <3> HIDE DEF x, V
    <3> QED
      BY <1>1, <3>1, FunctionIsSeq
  <2>4. y \in Seq(V) /\ Len(y) = N - B /\ \A j \in 1..(N - B) : y[j] = e[j]
    <3>1. N - B \in Int /\ 1 <= 1 /\ 1 \in Int /\ N - B <= Len(e) /\ e \in Seq(V)
      <4>1. Fractions \subseteq V
        OBVIOUS
      <4> HIDE DEF V
      <4>2. e \in Seq(V)
        BY <1>2, <4>1, SeqMonotonic
      <4> QED
        BY <1>1, <1>2, <2>1, <4>2
    <3> DEFINE p == N - B
    <3>2. p \in Nat /\ p <= Len(e)
      BY <2>1, <3>1
    <3> HIDE DEF p, V
    <3>a. e \in Seq(V) /\ 1 \in Int /\ p \in Int /\ 1 <= 1 /\ p <= Len(e)
      BY <3>1, <3>2
    <3>3. /\ SubSeq(e, 1, p) \in Seq(V) /\ Len(SubSeq(e, 1, p)) = (IF 1 <= p THEN p - 1 + 1 ELSE 0)
          /\ \A j \in 1..Len(SubSeq(e, 1, p)) : SubSeq(e, 1, p)[j] = e[1 + j - 1]
      BY ONLY <3>a, SliceIs
    <3>4. Len(SubSeq(e, 1, p)) = p /\ \A j \in 1..p : 1 + j - 1 = j
      BY <3>2, <3>3
    <3>5. \A j \in 1..p : SubSeq(e, 1, p)[j] = e[j]
      BY <3>3, <3>4
    <3> QED
      BY <3>3, <3>4, <3>5 DEF p
  <2> HIDE DEF x, y, V, g
  <2>5. /\ \A j \in 1..Len(x) : (x \o y)[j] = x[j]
        /\ \A j \in (Len(x) + 1)..(Len(x) + Len(y)) : (x \o y)[j] = y[j - Len(x)]
    <3>1. x \in Seq(V) /\ y \in Seq(V) /\ Len(x) \in Nat /\ Len(y) \in Nat
      BY <2>3, <2>4
    <3>2. \A j \in 1..Len(x) + Len(y) :
             (x \o y)[j] = IF j <= Len(x) THEN x[j] ELSE y[j - Len(x)]
      BY ONLY <3>1, ConcatProperties
    <3> QED
      BY ONLY <3>1, <3>2
  <2>6. CASE i <= B
    <3>1. i \in 1..B
      BY <1>1, <2>6
    <3> QED
      BY <2>2, <2>3, <2>5, <2>6, <3>1
  <2>7. CASE ~(i <= B)
    <3>1. i \in (B + 1)..(B + (N - B)) /\ i - B \in 1..(N - B)
      BY <1>1, <2>7
    <3>2. g[i] = y[i - B]
      BY <2>2, <2>3, <2>4, <2>5, <3>1
    <3> QED
      BY <2>4, <2>7, <3>1, <3>2
  <2> QED
    BY <2>6, <2>7
<1> HIDE DEF g
<1> DEFINE a == N >= R + B /\ \A o \in 1..R : c[N - o + 1] > c[N - (o + B) + 1]
           b == \A o \in 1..R : o <= N /\ N >= B /\ Exceeds(e[N - o + 1], g[N - o + 1])
<1>4. NineStructure(t, s, TRUE) = a
  BY Zenon DEF NineStructure, c, N
<1>5. ASSUME NEW o \in 1..R, N >= R + B
      PROVE  /\ o <= N /\ N >= B
             /\ Exceeds(e[N - o + 1], g[N - o + 1]) <=> c[N - o + 1] > c[N - (o + B) + 1]
  <2> DEFINE i == N - o + 1
             j == N - (o + B) + 1
  <2>1. i \in 1..N /\ j \in 1..N /\ ~(i <= B) /\ j = i - B /\ o <= N /\ N >= B
    BY <1>1, <1>5
  <2> HIDE DEF i, j
  <2>2. g[i] = e[j] /\ e[i] = [num |-> c[i], den |-> 1] /\ e[j] = [num |-> c[j], den |-> 1]
    BY <1>2, <1>3, <2>1
  <2>3. c[i] \in Int /\ c[j] \in Int
    BY <1>2, <2>1
  <2>4. Exceeds(e[i], g[i]) <=> c[i] > c[j]
    BY <2>2, <2>3, ExceedsExact
  <2> QED
    BY <2>1, <2>4 DEF i, j
<1>6. b => N >= R + B
  <2> SUFFICES ASSUME b PROVE N >= R + B
    OBVIOUS
  <2>1. R \in 1..R
    BY <1>1
  <2> DEFINE i == N - R + 1
  <2>2. R <= N /\ N >= B /\ Exceeds(e[i], g[i])
    BY <2>1
  <2>3. i \in 1..N
    BY <1>1, <2>2
  <2>4. ~(i <= B)
    <3> SUFFICES ASSUME i <= B PROVE FALSE
      OBVIOUS
    <3> HIDE DEF i
    <3>1. g[i] = NaN
      BY <1>3, <2>2, <2>3
    <3> QED
      BY <2>2, <3>1 DEF Exceeds
  <2> QED
    BY <1>1, <2>2, <2>4
<1>7. a <=> b
  BY <1>5, <1>6
<1>8. a \in BOOLEAN /\ b \in BOOLEAN
  BY Zenon
<1> HIDE DEF a, b
<1>9. a = b
  BY <1>7, <1>8
<1> QED
  BY <1>4, <1>9, Zenon DEF a, b, g, e, N, c

\* The indicators of the two languages tell the same of every history.
LEMMA LanguagesBothAgree == ASSUME SeriesAssumption, IndicatorsAssumption, SeriesInv
                            PROVE  LanguagesAgree
<1> SUFFICES ASSUME NEW t \in BarTypes, NEW select \in Selects, Readable(t), Closes(t, select) # <<>>
             PROVE  LET closes == Environment(t, "close", select)
                        exact == Exact(closes)
                        ago == REF(exact, Back)
                        falling == [i \in DOMAIN Averages |-> Last(MA(closes, Averages[i]))]
                    IN /\ \A n \in Periods :
                             /\ CrossesMiddle(t, n, select, TRUE) = Last(CROSS(exact, MA(closes, n)))
                             /\ CrossesMiddle(t, n, select, FALSE) = Last(CROSS(MA(closes, n), exact))
                             /\ Last(HHV(Environment(t, "high", 1), n)) = BarCustom(t, "high", n, 1)
                             /\ Last(LLV(Environment(t, "low", 1), n)) = BarCustom(t, "low", n, 1)
                             /\ Last(SUM(Environment(t, "volume", 1), n)) = BarCustom(t, "volume", n, 1)
                       /\ MacdDif(t, select) = Difference(Last(EMA(exact, Fast)), Last(EMA(exact, Slow)))
                       /\ Macd(t, select).dif \in {NaN, MacdDif(t, select)}
                       /\ Alignment(t, select, TRUE) =
                             \A i \in 1..(Len(falling) - 1) : Exceeds(falling[i], falling[i + 1])
                       /\ NineStructure(t, select, TRUE) =
                             \A o \in 1..RunLength :
                                /\ o <= Len(closes) /\ Len(closes) >= Back
                                /\ Exceeds(exact[Len(closes) - o + 1], ago[Len(closes) - o + 1])
  BY Zenon DEF LanguagesAgree
<1> DEFINE c == Closes(t, select)
           e == Exact(c)
<1>1. select \in Nat \ {0} /\ Fast \in Nat \ {0} /\ Slow \in Nat \ {0}
  BY DEF IndicatorsAssumption
<1>2. Environment(t, "close", select) = c
  BY <1>1, EnvironmentIs
<1>3. ASSUME NEW n \in Periods
      PROVE  /\ CrossesMiddle(t, n, select, TRUE) = Last(CROSS(e, MA(c, n)))
             /\ CrossesMiddle(t, n, select, FALSE) = Last(CROSS(MA(c, n), e))
             /\ Last(HHV(Environment(t, "high", 1), n)) = BarCustom(t, "high", n, 1)
             /\ Last(LLV(Environment(t, "low", 1), n)) = BarCustom(t, "low", n, 1)
             /\ Last(SUM(Environment(t, "volume", 1), n)) = BarCustom(t, "volume", n, 1)
  <2>1. n \in Nat \ {0}
    BY DEF IndicatorsAssumption
  <2>2. /\ CrossesMiddle(t, n, select, TRUE) = Last(CROSS(e, MA(c, n)))
        /\ CrossesMiddle(t, n, select, FALSE) = Last(CROSS(MA(c, n), e))
    BY <1>1, <2>1, CrossesInBoth
  <2>3. /\ Last(HHV(Environment(t, "high", 1), n)) = BarCustom(t, "high", n, 1)
        /\ Last(LLV(Environment(t, "low", 1), n)) = BarCustom(t, "low", n, 1)
        /\ Last(SUM(Environment(t, "volume", 1), n)) = BarCustom(t, "volume", n, 1)
    BY <1>1, <2>1, WindowsInBoth
  <2> QED
    BY <2>2, <2>3
<1>4. MacdDif(t, select) = Difference(Last(EMA(e, Fast)), Last(EMA(e, Slow)))
  <2>1. c \in Seq(Int) /\ Len(c) # 0
    <3>1. c \in Seq(Int)
      BY <1>1, ClosesAre
    <3> HIDE DEF c
    <3>2. c # <<>>
      BY DEF c
    <3> QED
      BY <3>1, <3>2, NoCloses
  <2> HIDE DEF c
  <2>2. e \in Seq(Fractions) /\ Len(e) # 0 /\ Len(e) \in Nat
    BY <2>1, ExactIs
  <2> HIDE DEF e
  <2>3. ASSUME NEW n \in Nat \ {0} PROVE Last(EMA(e, n)) = Ema(e, n)
    <3> DEFINE x == FullEma(e, n)
    <3>1. DOMAIN x = 1..Len(e) /\ x[Len(e)] = Ema(e, n)
      BY <2>2, FullEmaIs
    <3> HIDE DEF x
    <3>2. Len(x) = Len(e)
      BY <2>2, <3>1
    <3>3. Last(x) = Ema(e, n)
      BY <3>1, <3>2 DEF Last
    <3> QED
      BY <3>3 DEF EMA, x
  <2>4. MacdDif(t, select) = Difference(Ema(e, Fast), Ema(e, Slow))
    BY DEF MacdDif, e, c
  <2> QED
    BY <1>1, <2>3, <2>4
<1>5. Macd(t, select).dif \in {NaN, MacdDif(t, select)}
  BY <1>1, MacdMeans
<1>6. LET falling == [i \in DOMAIN Averages |-> Last(MA(c, Averages[i]))]
      IN Alignment(t, select, TRUE) =
           \A i \in 1..(Len(falling) - 1) : Exceeds(falling[i], falling[i + 1])
  BY <1>1, AlignmentInBoth
<1>7. NineStructure(t, select, TRUE) =
        \A o \in 1..RunLength :
           /\ o <= Len(c) /\ Len(c) >= Back
           /\ Exceeds(e[Len(c) - o + 1], REF(e, Back)[Len(c) - o + 1])
  BY <1>1, NineInBoth
<1> HIDE DEF c
<1> QED
  BY <1>2, <1>3, <1>4, <1>5, <1>6, <1>7, Zenon

-----------------------------------------------------------------------------
(* Crosses *)

\* Two fractions compare one way or the other.
LEMMA EitherReaches ==
    ASSUME IndicatorsAssumption, NEW a \in Fractions, NEW b \in Fractions
    PROVE  ~Exceeds(b, a) <=> Reaches(a, b)
<1>1. a # NaN /\ b # NaN
  BY DEF IndicatorsAssumption
<1>2. a.num \in Int /\ b.num \in Int /\ a.den \in Int /\ b.den \in Int
  BY DEF Fractions
<1> DEFINE x == a.num * b.den
           y == b.num * a.den
<1>3. x \in Int /\ y \in Int
  BY <1>2, ProductType
<1>4. Exceeds(b, a) <=> y > x
  BY <1>1 DEF Exceeds
<1>5. Reaches(a, b) <=> x >= y
  BY <1>1 DEF Reaches
<1> HIDE DEF x, y
<1> QED
  BY <1>3, <1>4, <1>5

\* A fraction above another reaches it.
LEMMA ExceedsReaches ==
    ASSUME IndicatorsAssumption, NEW a \in Fractions, NEW b \in Fractions, Exceeds(a, b)
    PROVE  Reaches(a, b)
<1>1. a # NaN /\ b # NaN
  BY DEF IndicatorsAssumption
<1>2. a.num \in Int /\ b.num \in Int /\ a.den \in Int /\ b.den \in Int
  BY DEF Fractions
<1> DEFINE x == a.num * b.den
           y == b.num * a.den
<1>3. x \in Int /\ y \in Int
  BY <1>2, ProductType
<1>4. x > y
  BY DEF Exceeds
<1>5. Reaches(a, b) <=> x >= y
  BY <1>1 DEF Reaches
<1> HIDE DEF x, y
<1> QED
  BY <1>3, <1>4, <1>5

\* The prices and the middle bands of two selects in a row.
LEMMA MiddleStep ==
    ASSUME SeriesAssumption, IndicatorsAssumption, SeriesInv, NEW t \in BarTypes, Readable(t),
           NEW s \in Nat \ {0}, NEW n \in Nat \ {0}, Closes(t, s) # <<>>
    PROVE  /\ CrossesMiddle(t, n, s, TRUE) =>
                 Reaches(Mean(LastOf(Closes(t, s), 1)), MovingAverage(Closes(t, s), n))
           /\ /\ Reaches(Mean(LastOf(Closes(t, s + 1), 1)), MovingAverage(Closes(t, s + 1), n))
              /\ Closes(t, s + 1) # <<>> /\ ~CrossesMiddle(t, n, s, FALSE)
              => Reaches(Mean(LastOf(Closes(t, s), 1)), MovingAverage(Closes(t, s), n))
<1> DEFINE c == Closes(t, s)
           d == Closes(t, s + 1)
           p == Mean(LastOf(c, 1))
           m == MovingAverage(c, n)
           q == Mean(LastOf(d, 1))
           k == MovingAverage(d, n)
<1>1. /\ c \in Seq(Int) /\ d \in Seq(Int) /\ Len(c) \in Nat /\ s \in Nat
      /\ Len(d) = (IF Len(c) = 0 THEN 0 ELSE Len(c) - 1)
  BY EarlierCloses
<1>2. /\ CrossesMiddle(t, n, s, TRUE) <=> d # <<>> /\ Crosses(p, m, q, k, TRUE)
      /\ CrossesMiddle(t, n, s, FALSE) <=> d # <<>> /\ Crosses(p, m, q, k, FALSE)
  BY <1>1, CrossesMiddleIs
<1>3. c # <<>>
  OBVIOUS
<1> HIDE DEF c, d
<1>4. p \in Fractions
  <2>1. Len(c) \in 1..Len(c) /\ \A i \in 1..Len(c) : c[i] = c[i]
    BY <1>1, <1>3, NoCloses
  <2> QED
    BY <1>1, <2>1, AverageOfHistory
<1>5. Len(c) >= n => m \in Fractions
  BY <1>1, MovingAverageType
<1>6. Len(c) < n => m = NaN
  BY DEF MovingAverage
<1>7. Len(d) < n => k = NaN
  BY DEF MovingAverage
<1>8. m # NaN => m \in Fractions
  <2>1. Len(c) < n \/ Len(c) >= n
    BY <1>1
  <2> QED
    BY <1>5, <1>6, <2>1
<1>9. k # NaN => m \in Fractions
  <2> SUFFICES ASSUME k # NaN PROVE m \in Fractions
    OBVIOUS
  <2> HIDE DEF k
  <2>1. ~(Len(d) < n)
    BY <1>7
  <2>2. Len(c) >= n
    BY <1>1, <2>1
  <2> QED
    BY <1>5, <2>2
<1> HIDE DEF p, m, q, k
<1>10. ASSUME CrossesMiddle(t, n, s, TRUE) PROVE Reaches(p, m)
  <2>1. Exceeds(p, m)
    BY <1>2, <1>10 DEF Crosses
  <2>2. m \in Fractions
    BY <1>8, <2>1 DEF Exceeds
  <2> QED
    BY <1>4, <2>1, <2>2, ExceedsReaches
<1>11. ASSUME Reaches(q, k), d # <<>>, ~CrossesMiddle(t, n, s, FALSE) PROVE Reaches(p, m)
  <2>1. ~Exceeds(m, p)
    BY <1>2, <1>11 DEF Crosses
  <2>2. m \in Fractions
    BY <1>9, <1>11 DEF Reaches
  <2> QED
    BY <1>4, <2>1, <2>2, EitherReaches
<1> QED
  BY <1>10, <1>11 DEF p, m, q, k, c, d

\* The lines of a MACD of two selects in a row.
LEMMA MacdStep ==
    ASSUME SeriesAssumption, IndicatorsAssumption, SeriesInv, NEW t \in BarTypes, Readable(t),
           NEW s \in Nat \ {0}
    PROVE  /\ MacdCrosses(t, s, TRUE) => Reaches(Macd(t, s).dif, Macd(t, s).dea)
           /\ /\ Reaches(Macd(t, s + 1).dif, Macd(t, s + 1).dea) /\ ~MacdCrosses(t, s, FALSE)
              => Reaches(Macd(t, s).dif, Macd(t, s).dea)
<1> DEFINE c == Closes(t, s)
           d == Closes(t, s + 1)
           now == Macd(t, s)
           before == Macd(t, s + 1)
           some(x) == Len(x) >= Slow + Signal - 1 /\ Cardinality(Finite(x)) >= Signal
<1>0. s + 1 \in Nat \ {0}
  OBVIOUS
<1>1. /\ c \in Seq(Int) /\ d \in Seq(Int) /\ Len(c) \in Nat
      /\ Len(d) = (IF Len(c) = 0 THEN 0 ELSE Len(c) - 1)
  BY EarlierCloses
<1>2. /\ MacdCrosses(t, s, TRUE) <=> Crosses(now.dif, now.dea, before.dif, before.dea, TRUE)
      /\ MacdCrosses(t, s, FALSE) <=> Crosses(now.dif, now.dea, before.dif, before.dea, FALSE)
  BY Zenon DEF MacdCrosses
<1>3. IF some(c) THEN now.dif \in Fractions /\ now.dea \in Fractions ELSE now.dif = NaN /\ now.dea = NaN
  BY MacdMeans
<1>4. IF some(d) THEN before.dif \in Fractions /\ before.dea \in Fractions
      ELSE before.dif = NaN /\ before.dea = NaN
  BY <1>0, MacdMeans
<1> HIDE DEF c, d, now, before
<1>5. some(d) => some(c)
  <2>1. Finite(d) \subseteq Finite(c)
    <3>1. Finite(c) = {i \in 1..Len(c) : Fast <= i /\ Slow <= i}
      BY <1>1, DifferencesAre
    <3>2. Finite(d) = {i \in 1..Len(d) : Fast <= i /\ Slow <= i}
      BY <1>1, DifferencesAre
    <3>3. \A i \in 1..Len(d) : i \in 1..Len(c)
      BY <1>1
    <3> QED
      BY <3>1, <3>2, <3>3
  <2>2. IsFiniteSet(Finite(c)) /\ Cardinality(Finite(c)) \in Nat /\ Cardinality(Finite(d)) \in Nat
    BY <1>1, DifferencesAre
  <2>3. Cardinality(Finite(d)) <= Cardinality(Finite(c))
    BY <2>1, <2>2, FS_Subset
  <2>4. Slow \in Nat /\ Signal \in Nat
    BY DEF IndicatorsAssumption
  <2> DEFINE x == Cardinality(Finite(c))
             y == Cardinality(Finite(d))
  <2>5. x \in Nat /\ y \in Nat /\ y <= x
    BY <2>2, <2>3
  <2> HIDE DEF x, y
  <2>6. Len(d) <= Len(c) /\ Len(d) \in Nat
    BY <1>1
  <2>7. Len(d) >= Slow + Signal - 1 /\ y >= Signal => Len(c) >= Slow + Signal - 1 /\ x >= Signal
    BY <1>1, <2>4, <2>5, <2>6
  <2> QED
    BY <2>7 DEF x, y
<1> HIDE DEF some
<1>6. ASSUME MacdCrosses(t, s, TRUE) PROVE Reaches(now.dif, now.dea)
  <2>1. Exceeds(now.dif, now.dea)
    BY <1>2, <1>6 DEF Crosses
  <2>2. now.dif # NaN
    BY <2>1 DEF Exceeds
  <2>3. now.dif \in Fractions /\ now.dea \in Fractions
    BY <1>3, <2>2
  <2> QED
    BY <2>1, <2>3, ExceedsReaches
<1>7. ASSUME Reaches(before.dif, before.dea), ~MacdCrosses(t, s, FALSE) PROVE Reaches(now.dif, now.dea)
  <2>1. ~Exceeds(now.dea, now.dif)
    BY <1>2, <1>7 DEF Crosses
  <2>2. before.dif # NaN
    BY <1>7 DEF Reaches
  <2>3. now.dif \in Fractions /\ now.dea \in Fractions
    BY <1>3, <1>4, <1>5, <2>2
  <2> QED
    BY <2>1, <2>3, EitherReaches
<1> QED
  BY <1>6, <1>7 DEF now, before

\* A line told to have crossed above, and not told to cross below since, is not below:
\* bar by bar from the cross on, over the bars that have no value too.
LEMMA CrossesTell == ASSUME SeriesAssumption, IndicatorsAssumption, SeriesInv
                     PROVE  CrossesTellTheSide
<1> SUFFICES ASSUME NEW t \in BarTypes, NEW select \in Selects, Readable(t)
             PROVE  /\ \A n \in Periods :
                          /\ CrossesMiddle(t, n, select, TRUE)
                          /\ \A later \in 1..(select - 1) : ~CrossesMiddle(t, n, later, FALSE)
                          => Reaches(Mean(LastOf(Closes(t, 1), 1)), Middle(t, n, 1))
                    /\ /\ MacdCrosses(t, select, TRUE)
                       /\ \A later \in 1..(select - 1) : ~MacdCrosses(t, later, FALSE)
                       => Reaches(Macd(t, 1).dif, Macd(t, 1).dea)
  BY Zenon DEF CrossesTellTheSide
<1>1. select \in Nat \ {0}
  BY DEF IndicatorsAssumption
\* From the select-th last bar on, one bar after the other.
<1>2. ASSUME NEW A \in SUBSET (1..select), select \in A,
             \A s \in 1..(select - 1) : s + 1 \in A => s \in A
      PROVE  1 \in A
  <2> DEFINE B == {k \in Nat : k < select => select - k \in A}
  <2>1. 0 \in B
    BY <1>1, <1>2
  <2>2. ASSUME NEW k \in B PROVE k + 1 \in B
    <3> SUFFICES ASSUME k + 1 < select PROVE select - (k + 1) \in A
      OBVIOUS
    <3> DEFINE s == select - (k + 1)
    <3>1. s \in 1..(select - 1) /\ s + 1 = select - k /\ k < select
      BY <1>1
    <3>2. s + 1 \in A
      BY <3>1
    <3> HIDE DEF s
    <3>3. s \in A
      BY <1>2, <3>1, <3>2
    <3> QED
      BY <3>3 DEF s
  <2>3. B \in SUBSET Nat
    OBVIOUS
  <2> HIDE DEF B
  <2>4. B = Nat
    BY <2>1, <2>2, <2>3, NatInduct
  <2>5. select - 1 \in B /\ select - 1 < select /\ select - (select - 1) = 1
    BY <1>1, <2>4
  <2>6. select - (select - 1) \in A
    BY <2>5 DEF B
  <2> QED
    BY <2>5, <2>6
<1>3. ASSUME NEW n \in Periods, CrossesMiddle(t, n, select, TRUE),
             \A later \in 1..(select - 1) : ~CrossesMiddle(t, n, later, FALSE)
      PROVE  Reaches(Mean(LastOf(Closes(t, 1), 1)), Middle(t, n, 1))
  <2>0. n \in Nat \ {0} /\ select \in Nat
    BY <1>1 DEF IndicatorsAssumption
  <2> DEFINE A == {s \in 1..select : /\ Closes(t, s) # <<>>
                                     /\ Reaches(Mean(LastOf(Closes(t, s), 1)), MovingAverage(Closes(t, s), n))}
  <2>1. ASSUME NEW s \in Nat \ {0}, Closes(t, s + 1) # <<>> PROVE Closes(t, s) # <<>>
    <3> DEFINE c == Closes(t, s)
               d == Closes(t, s + 1)
    <3>1. c \in Seq(Int) /\ d \in Seq(Int) /\ Len(d) = (IF Len(c) = 0 THEN 0 ELSE Len(c) - 1)
      BY EarlierCloses
    <3>2. d # <<>>
      BY <2>1
    <3> HIDE DEF c, d
    <3>3. c # <<>>
      BY <3>1, <3>2, NoCloses
    <3> QED
      BY <3>3 DEF c
  <2>2. select \in A
    <3>1. Closes(t, select + 1) # <<>>
      BY <1>3, <2>0, CrossesMiddleIs
    <3>2. Closes(t, select) # <<>>
      BY <1>1, <2>1, <3>1
    <3>3. Reaches(Mean(LastOf(Closes(t, select), 1)), MovingAverage(Closes(t, select), n))
      BY <1>1, <1>3, <2>0, <3>2, MiddleStep
    <3>4. select \in 1..select
      BY <1>1
    <3> QED
      BY <3>2, <3>3, <3>4
  <2>3. ASSUME NEW s \in 1..(select - 1), s + 1 \in A PROVE s \in A
    <3>1. s \in Nat \ {0} /\ s \in 1..select
      BY <1>1
    <3>2. Closes(t, s + 1) # <<>> /\ Reaches(Mean(LastOf(Closes(t, s + 1), 1)), MovingAverage(Closes(t, s + 1), n))
      BY <2>3
    <3>3. Closes(t, s) # <<>>
      BY <2>1, <3>1, <3>2
    <3>4. ~CrossesMiddle(t, n, s, FALSE)
      BY <1>3
    <3>5. Reaches(Mean(LastOf(Closes(t, s), 1)), MovingAverage(Closes(t, s), n))
      BY <2>0, <3>1, <3>2, <3>3, <3>4, MiddleStep
    <3> QED
      BY <3>1, <3>3, <3>5
  <2>4. A \in SUBSET (1..select)
    OBVIOUS
  <2> HIDE DEF A
  <2>5. 1 \in A
    BY <1>2, <2>2, <2>3, <2>4
  <2> QED
    BY <2>5 DEF A, Middle
<1>4. ASSUME MacdCrosses(t, select, TRUE),
             \A later \in 1..(select - 1) : ~MacdCrosses(t, later, FALSE)
      PROVE  Reaches(Macd(t, 1).dif, Macd(t, 1).dea)
  <2> DEFINE A == {s \in 1..select : Reaches(Macd(t, s).dif, Macd(t, s).dea)}
  <2>1. select \in A
    <3>1. select \in 1..select
      BY <1>1
    <3> QED
      BY <1>1, <1>4, <3>1, MacdStep
  <2>2. ASSUME NEW s \in 1..(select - 1), s + 1 \in A PROVE s \in A
    <3>1. s \in Nat \ {0} /\ s \in 1..select
      BY <1>1
    <3>2. Reaches(Macd(t, s + 1).dif, Macd(t, s + 1).dea) /\ ~MacdCrosses(t, s, FALSE)
      BY <1>4, <2>2
    <3>3. Reaches(Macd(t, s).dif, Macd(t, s).dea)
      BY <3>1, <3>2, MacdStep
    <3> QED
      BY <3>1, <3>3
  <2>3. A \in SUBSET (1..select)
    OBVIOUS
  <2> HIDE DEF A
  <2>4. 1 \in A
    BY <1>2, <2>1, <2>2, <2>3
  <2> QED
    BY <2>4 DEF A
<1> QED
  BY <1>3, <1>4

\* At every moment of every session, every reader and every indicator answers what the
\* driver bars so far say, each part of AnswersAreHistory, whatever series were asked
\* for before, in whatever order, and while a call is extending another one.
THEOREM AnswersAlwaysHistory == SeriesSpec => []AnswersAreHistory
<1>1. SeriesInv => AnswersAreHistory
  <2> SUFFICES ASSUME SeriesInv PROVE AnswersAreHistory
    OBVIOUS
  <2>1. SeriesAssumption /\ IndicatorsAssumption
    BY SeriesAssumption, IndicatorsAssumption
  <2>2. SeriesAreAggregates
    BY DEF SeriesInv, SeriesMade, SeriesAreAggregates
  <2> QED
    BY <2>1, <2>2, AnswersEnd, CustomBarsMerge, LanguagesBothAgree, CrossesTell DEF AnswersAreHistory
<1> QED
  BY <1>1, SeriesInvariant, PTL
====
