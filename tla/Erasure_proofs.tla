--------------------------- MODULE Erasure_proofs ---------------------------
(***************************************************************************)
(* Theorems about Erasure, for any candidates, any number of requests at a *)
(* time and any limit on a run of retention; and, at the end, about        *)
(* Screening, whose resumes and runs it erases.                            *)
(***************************************************************************)
EXTENDS Erasure, ScreeningRows, TLAPS, SequenceTheorems, FiniteSetTheorems, NaturalsInduction,
        WellFoundedInduction

-----------------------------------------------------------------------------
(* Types.                                                                  *)

\* Rows, requests and ghosts by their types.
RowTypes ==
  [table : Tables, owner : Candidates, parent : Nat, personal : BOOLEAN,
   created_at : Nat, written : Nat, erasedBy : Nat, erasedAt : Nat]

Saves == [op : {"write"}, to : Nat, loaded : SUBSET Nat]

Reports == [op : {"evaluate"}, of : Nat, address : BOOLEAN, begun : Nat]

Erasing ==
  [op : {"erase"}, kind : {"request", "retention"}, begun : Nat, cutoff : Nat,
   erased : SUBSET Candidates, left : SUBSET Candidates, now : SUBSET Candidates,
   searched : 0 .. 6, found : SUBSET Nat]

TypeInv ==
  /\ clock \in Nat
  /\ rows \in Seq(RowTypes)
  /\ Len(rows) + clock <= MaxSteps
  /\ request \in [Slots -> {Idle} \union Saves \union Reports \union Erasing]
  /\ erasures \subseteq [owner : Candidates, begun : Nat]
  /\ sweeps \subseteq [begun : Nat, cutoff : Nat, erased : SUBSET Candidates]

\* A request is typed by its operation.
LEMMA Kinds ==
  ASSUME TypeInv, NEW i \in Slots
  PROVE  /\ request[i] \in {Idle} \union Saves \union Reports \union Erasing
         /\ request[i].op = "write" => request[i] \in Saves
         /\ request[i].op = "evaluate" => request[i] \in Reports
         /\ request[i].op = "erase" => request[i] \in Erasing
BY DEF TypeInv, Idle, Saves, Reports, Erasing

\* The six tables that are searched.
LEMMA SixTables ==
  /\ DOMAIN Searched = 1 .. 6
  /\ \A n \in 1 .. 6 : Searched[n].table \in Tables
  /\ Tables = {"resume", "invite", "response", "session", "work", "evaluation", "slot"}
<1>1. DOMAIN Searched = 1 .. 6
  BY DEF Searched
<1>2. /\ Searched[1].table = "resume" /\ Searched[2].table = "invite"
      /\ Searched[3].table = "response" /\ Searched[4].table = "session"
      /\ Searched[5].table = "work" /\ Searched[6].table = "evaluation"
  BY DEF Searched
<1>3. \A n \in 1 .. 6 : n = 1 \/ n = 2 \/ n = 3 \/ n = 4 \/ n = 5 \/ n = 6
  OBVIOUS
<1>4. {Searched[n].table : n \in DOMAIN Searched} =
        {"resume", "invite", "response", "session", "work", "evaluation"}
  BY <1>1, <1>2, <1>3
<1>5. QED
  BY <1>1, <1>4 DEF Tables

\* The rows that a step makes.
LEMMA NewRow ==
  ASSUME clock \in Nat, NEW table \in Tables, NEW owner \in Candidates, NEW parent \in Nat,
         NEW personal \in BOOLEAN, NEW born \in Nat
  PROVE  Row(table, owner, parent, personal, born) \in RowTypes
BY DEF Row, RowTypes

-----------------------------------------------------------------------------
(* What a step does.                                                       *)

\* Nothing is dated after the clock.
Dated ==
  /\ \A k \in DOMAIN rows :
       /\ rows[k].created_at <= clock /\ rows[k].written <= clock
       /\ rows[k].erasedBy <= clock /\ rows[k].erasedAt <= clock
  /\ \A i \in Slots :
       request[i].op \in {"evaluate", "erase"} => request[i].begun \in 1 .. clock
  /\ \A e \in erasures : e.begun \in 1 .. clock
  /\ \A s \in sweeps : s.begun \in 1 .. clock

\* The table a row's parent is in.
Above(table) ==
  IF table = "response" THEN "invite"
  ELSE IF table = "work" THEN "session"
  ELSE IF table = "evaluation" THEN "resume" ELSE "none"

\* A row belongs to an older row of the same candidate, in the table above
\* its own, and requests refer to rows of the tables they write below.
Linked ==
  /\ \A k \in DOMAIN rows :
       IF Above(rows[k].table) = "none" THEN rows[k].parent = 0
       ELSE /\ rows[k].parent \in 1 .. k - 1
            /\ rows[rows[k].parent].table = Above(rows[k].table)
            /\ rows[rows[k].parent].owner = rows[k].owner
            /\ rows[rows[k].parent].written <= rows[k].written
  /\ \A i \in Slots :
       /\ request[i].op = "write" =>
            /\ request[i].to \in RowsOf("invite") \union RowsOf("session")
            /\ request[i].loaded \subseteq RowsOf("response")
       /\ request[i].op = "evaluate" => request[i].of \in RowsOf("resume")
       /\ request[i].op = "erase" => request[i].found \subseteq DOMAIN rows

\* A report, stored or still being generated, that has the address of an
\* erased resume was begun before that erasure was committed.
Remembers ==
  /\ ReportsForget
  /\ \A i \in Slots :
       (request[i].op = "evaluate" /\ request[i].address /\ ~rows[request[i].of].personal)
         => request[i].begun <= rows[request[i].of].erasedAt

\* A row is inserted, by a request or without one.
Inserted(row) ==
  /\ Len(rows) + clock < MaxSteps
  /\ row \in RowTypes
  /\ row.written = clock /\ row.created_at <= clock
  /\ row.erasedBy = 0 /\ row.erasedAt = 0
  /\ IF Above(row.table) = "none" THEN row.parent = 0
     ELSE /\ row.parent \in DOMAIN rows
          /\ rows[row.parent].table = Above(row.table)
          /\ rows[row.parent].owner = row.owner
  /\ (row.table = "evaluation" /\ row.personal /\ ~rows[row.parent].personal)
       => row.created_at <= rows[row.parent].erasedAt
  /\ rows' = Append(rows, row)
  /\ request' = request \/ \E i \in Slots : request' = [request EXCEPT ![i] = Idle]
  /\ UNCHANGED <<clock, erasures, sweeps>>

\* An erasure that begins, by request or for retention.
Starts(q) ==
  /\ q.begun = clock + 1 /\ q.left = q.erased
  /\ \/ /\ q.kind = "request" /\ q.searched = 1
        /\ \E c \in Candidates :
             q.erased = {c} /\ q.now = {c} /\ q.found = Addressed("resume", c)
     \/ /\ q.kind = "retention" /\ q.searched = 0 /\ q.found = {}
        /\ q.erased \in Eligible(q.cutoff)

\* A request begins.
Begun(i, work) ==
  /\ Len(rows) + clock < MaxSteps
  /\ request[i] = Idle
  /\ work \in Saves \union Reports \union Erasing
  /\ work.op = "write" =>
       /\ work.to \in RowsOf("invite") \union RowsOf("session")
       /\ work.loaded \subseteq RowsOf("response")
  /\ work.op = "evaluate" =>
       /\ work.of \in RowsOf("resume") /\ work.begun = clock + 1
       /\ work.address => rows[work.of].personal
  /\ work.op = "erase" => Starts(work)
  /\ clock' = clock + 1
  /\ request' = [request EXCEPT ![i] = work]
  /\ UNCHANGED <<rows, erasures, sweeps>>

\* Answers that were there when they were loaded are saved again.
Saved(i) ==
  /\ request[i].op = "write"
  /\ rows' = [k \in DOMAIN rows |->
                IF k \in request[i].loaded
                THEN [rows[k] EXCEPT !.personal = TRUE, !.written = clock]
                ELSE rows[k]]
  /\ request' = [request EXCEPT ![i] = Idle]
  /\ UNCHANGED <<clock, erasures, sweeps>>

\* One of these, a search or the commit of an erasure.
Move ==
  \/ \E row : Inserted(row)
  \/ \E i \in Slots : \E work : Begun(i, work)
  \/ \E i \in Slots : Saved(i) \/ Search(i) \/ Erase(i)
  \/ UNCHANGED vars

\* Every step is a move.
LEMMA Moves ==
  ASSUME TypeInv, Dated, Linked, Remembers, [Next]_vars
  PROVE  Move
<1>1. ASSUME NEW c \in Candidates, NEW table \in {"resume", "invite", "slot", "session"},
             Add(table, c)
      PROVE  \E row : Inserted(row)
  <2>1. PICK born \in {0, clock} : Insert(Row(table, c, 0, TRUE, born))
    BY <1>1 DEF Add
  <2> DEFINE row == Row(table, c, 0, TRUE, born)
  <2>2. row \in RowTypes
    <3>1. table \in Tables /\ 0 \in Nat /\ born \in Nat /\ TRUE \in BOOLEAN /\ clock \in Nat
      BY SixTables DEF TypeInv
    <3>2. QED
      BY <3>1, NewRow
  <2>3. /\ row.table = table /\ row.parent = 0 /\ row.written = clock
        /\ row.created_at = born /\ row.erasedBy = 0 /\ row.erasedAt = 0
    BY DEF Row
  <2>4. Above(table) = "none" /\ table # "evaluation" /\ born <= clock
    BY DEF Above, TypeInv
  <2>5. request' = request
    BY <1>1 DEF Add
  <2> HIDE DEF row
  <2>6. Insert(row)
    BY <2>1 DEF row
  <2>7. QED
    BY <2>2, <2>3, <2>4, <2>5, <2>6 DEF Inserted, Insert
<1>2. ASSUME NEW i \in Slots, NEW k \in DOMAIN rows, BeginWrite(i, k)
      PROVE  \E work : Begun(i, work)
  <2> DEFINE work == [op |-> "write", to |-> k,
                      loaded |-> {l \in RowsOf("response") : rows[l].parent = k}]
  <2>1. k \in Nat /\ DOMAIN rows \subseteq Nat
    BY DEF TypeInv
  <2>2. work \in Saves /\ work.loaded \subseteq RowsOf("response")
    BY <2>1 DEF Saves, RowsOf
  <2>3. k \in RowsOf("invite") \union RowsOf("session")
    BY <1>2 DEF BeginWrite, RowsOf
  <2>4. work.op = "write" /\ work.to = k
    OBVIOUS
  <2>5. Begin(i, work)
    BY <1>2 DEF BeginWrite
  <2> HIDE DEF work
  <2>6. QED
    BY <2>2, <2>3, <2>4, <2>5 DEF Begun, Begin
<1>3. ASSUME NEW i \in Slots, NEW k \in DOMAIN rows, BeginEvaluate(i, k)
      PROVE  \E work : Begun(i, work)
  <2> DEFINE work == [op |-> "evaluate", of |-> k, address |-> rows[k].personal,
                      begun |-> clock + 1]
  <2>1. k \in Nat /\ rows[k].personal \in BOOLEAN /\ clock + 1 \in Nat
    <3>1. rows[k] \in RowTypes /\ k \in Nat /\ clock \in Nat
      BY DEF TypeInv
    <3> HIDE DEF work
    <3>2. rows[k].personal \in BOOLEAN
      BY <3>1 DEF RowTypes
    <3>3. clock + 1 \in Nat
      BY <3>1
    <3>4. QED
      BY <3>1, <3>2, <3>3
  <2>2. work \in Reports
    BY <2>1 DEF Reports
  <2>3. k \in RowsOf("resume")
    BY <1>3 DEF BeginEvaluate, RowsOf
  <2>4. /\ work.op = "evaluate" /\ work.of = k /\ work.begun = clock + 1
        /\ work.address = rows[k].personal
    OBVIOUS
  <2>5. Begin(i, work)
    BY <1>3 DEF BeginEvaluate
  <2> HIDE DEF work
  <2>6. QED
    BY <2>2, <2>3, <2>4, <2>5 DEF Begun, Begin
<1>4. ASSUME NEW i \in Slots, NEW c \in Candidates, BeginErase(i, c)
      PROVE  \E work : Begun(i, work)
  <2> DEFINE work == [op |-> "erase", kind |-> "request", begun |-> clock + 1, cutoff |-> 0,
                      erased |-> {c}, left |-> {c}, now |-> {c}, searched |-> 1,
                      found |-> Addressed("resume", c)]
  <2>1. Addressed("resume", c) \subseteq Nat /\ clock + 1 \in Nat
    BY DEF TypeInv, Addressed, RowsOf
  <2>2. work \in Erasing
    BY <2>1 DEF Erasing
  <2>3. /\ work.op = "erase" /\ work.kind = "request" /\ work.begun = clock + 1
        /\ work.erased = {c} /\ work.left = {c} /\ work.now = {c} /\ work.searched = 1
        /\ work.found = Addressed("resume", c)
    OBVIOUS
  <2>4. Begin(i, work)
    BY <1>4 DEF BeginErase
  <2> HIDE DEF work
  <2>5. Starts(work)
    BY <2>3 DEF Starts
  <2>6. QED
    BY <2>2, <2>3, <2>4, <2>5 DEF Begun, Begin
<1>5. ASSUME NEW i \in Slots, NEW cutoff \in 1 .. clock + 1, BeginRetention(i, cutoff)
      PROVE  \E work : Begun(i, work)
  <2>1. PICK chosen \in Eligible(cutoff) :
          Begin(i, [op |-> "erase", kind |-> "retention", begun |-> clock + 1,
                    cutoff |-> cutoff, erased |-> chosen, left |-> chosen, now |-> {},
                    searched |-> 0, found |-> {}])
    BY <1>5 DEF BeginRetention
  <2> DEFINE work == [op |-> "erase", kind |-> "retention", begun |-> clock + 1,
                      cutoff |-> cutoff, erased |-> chosen, left |-> chosen, now |-> {},
                      searched |-> 0, found |-> {}]
  <2>2. chosen \subseteq Candidates
    <3>1. \A k \in DOMAIN rows : rows[k] \in RowTypes
      BY DEF TypeInv
    <3>2. \A k \in DOMAIN rows : rows[k].owner \in Candidates
      BY <3>1 DEF RowTypes
    <3>3. {rows[k].owner : k \in Old(cutoff)} \subseteq Candidates
      BY <3>2 DEF Old, RowsOf
    <3>4. chosen \in SUBSET {rows[k].owner : k \in Old(cutoff)}
      BY <2>1 DEF Eligible
    <3>5. QED
      BY <3>3, <3>4
  <2>3. clock + 1 \in Nat /\ cutoff \in Nat
    BY DEF TypeInv
  <2>4. work \in Erasing
    BY <2>2, <2>3 DEF Erasing
  <2>5. /\ work.op = "erase" /\ work.kind = "retention" /\ work.begun = clock + 1
        /\ work.cutoff = cutoff /\ work.erased = chosen /\ work.left = chosen
        /\ work.searched = 0 /\ work.found = {}
    OBVIOUS
  <2>6. Begin(i, work)
    BY <2>1
  <2> HIDE DEF work
  <2>7. Starts(work)
    BY <2>1, <2>5 DEF Starts
  <2>8. QED
    BY <2>4, <2>5, <2>6, <2>7 DEF Begun, Begin
<1>6. ASSUME NEW i \in Slots, Write(i)
      PROVE  Saved(i) \/ \E row : Inserted(row)
  <2>1. CASE request[i].loaded # {}
    BY <1>6, <2>1 DEF Write, Saved, Done
  <2>2. CASE request[i].loaded = {}
    <3> DEFINE k == request[i].to
               table == IF rows[k].table = "invite" THEN "response" ELSE "work"
               row == Row(table, rows[k].owner, k, TRUE, clock)
    <3>1. /\ request[i].op = "write" /\ Insert(row)
          /\ request' = [request EXCEPT ![i] = Idle]
      BY <1>6, <2>2 DEF Write, Done
    <3>2. k \in RowsOf("invite") \union RowsOf("session")
      BY <3>1 DEF Linked
    <3>3. /\ k \in DOMAIN rows /\ k \in Nat /\ rows[k] \in RowTypes
          /\ rows[k].table \in {"invite", "session"} /\ clock \in Nat
      BY <3>2 DEF RowsOf, TypeInv
    <3>4. rows[k].table = Above(table) /\ table \in Tables /\ table # "evaluation" /\ Above(table) # "none"
      BY <3>3, SixTables DEF Above
    <3>5. rows[k].owner \in Candidates
      BY <3>3 DEF RowTypes
    <3> HIDE DEF k, table
    <3>6. row \in RowTypes
      BY <3>3, <3>4, <3>5, NewRow
    <3>7. /\ row.table = table /\ row.parent = k /\ row.written = clock
          /\ row.created_at = clock /\ row.erasedBy = 0 /\ row.erasedAt = 0
          /\ row.owner = rows[k].owner
      BY DEF Row
    <3> HIDE DEF row
    <3>8. /\ row.created_at <= clock /\ row.table # "evaluation"
          /\ IF Above(row.table) = "none" THEN row.parent = 0
             ELSE /\ row.parent \in DOMAIN rows
                  /\ rows[row.parent].table = Above(row.table)
                  /\ rows[row.parent].owner = row.owner
      BY <3>3, <3>4, <3>7
    <3>9. Inserted(row)
      BY <3>1, <3>6, <3>7, <3>8 DEF Inserted, Insert
    <3>10. QED
      BY <3>9
  <2>3. QED
    BY <2>1, <2>2
<1>7. ASSUME NEW i \in Slots, Evaluate(i)
      PROVE  \E row : Inserted(row)
  <2> DEFINE k == request[i].of
             row == Row("evaluation", rows[k].owner, k, request[i].address, request[i].begun)
  <2>1. /\ request[i].op = "evaluate" /\ Insert(row)
        /\ request' = [request EXCEPT ![i] = Idle]
    BY <1>7 DEF Evaluate, Done
  <2>2. request[i] \in Reports /\ k \in RowsOf("resume") /\ request[i].begun \in 1 .. clock
    BY <2>1, Kinds DEF Linked, Dated
  <2>3. /\ k \in DOMAIN rows /\ k \in Nat /\ rows[k] \in RowTypes
        /\ rows[k].table = "resume" /\ clock \in Nat
    BY <2>2 DEF RowsOf, TypeInv
  <2>4. /\ rows[k].owner \in Candidates /\ request[i].address \in BOOLEAN
        /\ request[i].begun \in Nat /\ request[i].begun <= clock
    BY <2>2, <2>3 DEF RowTypes, Reports
  <2>5. request[i].address /\ ~rows[k].personal => request[i].begun <= rows[k].erasedAt
    BY <2>1 DEF Remembers
  <2>6. Above("evaluation") = "resume" /\ "evaluation" \in Tables
    BY SixTables DEF Above
  <2> HIDE DEF k
  <2>7. row \in RowTypes
    BY <2>3, <2>4, <2>6, NewRow
  <2>8. /\ row.table = "evaluation" /\ row.parent = k /\ row.written = clock
        /\ row.created_at = request[i].begun /\ row.erasedBy = 0 /\ row.erasedAt = 0
        /\ row.owner = rows[k].owner /\ row.personal = request[i].address
    BY DEF Row
  <2> HIDE DEF row
  <2>9. QED
    BY <2>1, <2>3, <2>4, <2>5, <2>6, <2>7, <2>8 DEF Inserted, Insert
<1>8. QED
  BY <1>1, <1>2, <1>3, <1>4, <1>5, <1>6, <1>7 DEF Next, Move

\* What one SELECT finds for candidate c in the n-th table.
Hits(q, c, n) ==
  {k \in Addressed(Searched[n].table, c) :
     Searched[n].parent # "none" => rows[k].parent \in q.found}

\* Whether it was the last one for this candidate.
Last(q, c, n) ==
  \A m \in n + 1 .. Len(Searched) :
    Skipped(m, [q EXCEPT !.found = q.found \union Hits(q, c, n)], c)

\* The erasure after it.
Looked(q, c, n) ==
  [q EXCEPT !.found = q.found \union Hits(q, c, n),
            !.now = {c},
            !.searched = IF Last(q, c, n) THEN 0 ELSE n,
            !.left = IF Last(q, c, n) THEN q.left \ {c} ELSE q.left]

\* An erasure looks for candidate c into the n-th table, the next that it
\* does not skip.
Looks(i, c, n) ==
  /\ request[i].op = "erase" /\ request[i] \in Erasing
  /\ c \in IF request[i].searched = 0 THEN request[i].left ELSE request[i].now
  /\ n > request[i].searched /\ ~ Skipped(n, request[i], c)
  /\ \A m \in request[i].searched + 1 .. n - 1 : Skipped(m, request[i], c)
  /\ Looked(request[i], c, n) \in Erasing
  /\ request' = [request EXCEPT ![i] = Looked(request[i], c, n)]
  /\ UNCHANGED <<clock, rows, erasures, sweeps>>

\* That is what a search does.
LEMMA SearchLooks ==
  ASSUME TypeInv, NEW i \in Slots, Search(i)
  PROVE  \E c \in Candidates, n \in 1 .. 6 : Looks(i, c, n)
<1> DEFINE q == request[i]
<1>1. q.op = "erase" /\ q \in Erasing /\ UNCHANGED <<clock, rows, erasures, sweeps>>
  BY Kinds DEF Search
<1>2. PICK c \in IF q.searched = 0 THEN q.left ELSE q.now, n \in DOMAIN Searched :
        /\ n > q.searched /\ ~ Skipped(n, q, c)
        /\ \A m \in q.searched + 1 .. n - 1 : Skipped(m, q, c)
        /\ request' = [request EXCEPT
             ![i].found = q.found \union Hits(q, c, n),
             ![i].now = {c},
             ![i].searched = IF Last(q, c, n) THEN 0 ELSE n,
             ![i].left = IF Last(q, c, n) THEN @ \ {c} ELSE @]
  BY DEF Search, Hits, Last
<1>3. c \in Candidates /\ n \in 1 .. 6
  BY <1>1, <1>2, SixTables DEF Erasing
<1>4. Hits(q, c, n) \subseteq Nat
  BY DEF Hits, Addressed, RowsOf, TypeInv
<1>5. request' = [request EXCEPT ![i] = Looked(q, c, n)]
  <2> DEFINE last == Last(q, c, n)
             hits == Hits(q, c, n)
  <2>1. request' = [request EXCEPT
             ![i].found = q.found \union hits, ![i].now = {c},
             ![i].searched = IF last THEN 0 ELSE n,
             ![i].left = IF last THEN @ \ {c} ELSE @]
    BY <1>2
  <2>2. Looked(q, c, n) = [q EXCEPT
             !.found = q.found \union hits, !.now = {c},
             !.searched = IF last THEN 0 ELSE n,
             !.left = IF last THEN q.left \ {c} ELSE q.left]
    BY DEF Looked
  <2> HIDE DEF last, hits
  <2>3. QED
    BY <2>1, <2>2
<1>6. Looked(q, c, n) \in Erasing
  <2> DEFINE last == Last(q, c, n)
             hits == Hits(q, c, n)
  <2>1. Looked(q, c, n) = [q EXCEPT
             !.found = q.found \union hits, !.now = {c},
             !.searched = IF last THEN 0 ELSE n,
             !.left = IF last THEN q.left \ {c} ELSE q.left]
    BY DEF Looked
  <2>2. hits \subseteq Nat
    BY <1>4
  <2> DEFINE found == q.found \union hits
             searched == IF last THEN 0 ELSE n
             left == IF last THEN q.left \ {c} ELSE q.left
  <2> HIDE DEF last, hits, q
  <2>3. /\ found \in SUBSET Nat /\ {c} \in SUBSET Candidates
        /\ searched \in 0 .. 6 /\ left \in SUBSET Candidates
    <3>1. q.found \subseteq Nat /\ q.left \subseteq Candidates
      BY <1>1 DEF Erasing
    <3>2. found \subseteq Nat /\ left \subseteq Candidates /\ {c} \subseteq Candidates
      BY <1>3, <2>2, <3>1
    <3>3. searched \in 0 .. 6
      BY <1>3
    <3>4. QED
      BY <3>2, <3>3
  <2>4. Looked(q, c, n) = [q EXCEPT !.found = found, !.now = {c}, !.searched = searched,
                                    !.left = left]
    BY <2>1
  <2> HIDE DEF found, searched, left
  <2>5. QED
    BY <1>1, <2>3, <2>4 DEF Erasing
<1>7. QED
  BY <1>1, <1>2, <1>3, <1>5, <1>6 DEF Looks

\* A search changes nothing else of the erasure.
LEMMA LookedStays ==
  ASSUME NEW q \in Erasing, NEW c, NEW n
  PROVE  /\ Looked(q, c, n).op = "erase" /\ Looked(q, c, n).kind = q.kind
         /\ Looked(q, c, n).begun = q.begun /\ Looked(q, c, n).cutoff = q.cutoff
         /\ Looked(q, c, n).erased = q.erased
<1> DEFINE found == q.found \union Hits(q, c, n)
           searched == IF Last(q, c, n) THEN 0 ELSE n
           left == IF Last(q, c, n) THEN q.left \ {c} ELSE q.left
<1>1. Looked(q, c, n) = [q EXCEPT !.found = found, !.now = {c}, !.searched = searched,
                                  !.left = left]
  BY DEF Looked
<1> HIDE DEF found, searched, left
<1>2. QED
  BY <1>1 DEF Erasing

\* It has found more, for this candidate up to this table.
LEMMA LookedFinds ==
  ASSUME NEW q \in Erasing, NEW c, NEW n
  PROVE  /\ Looked(q, c, n).found = q.found \union Hits(q, c, n)
         /\ Looked(q, c, n).now = {c}
         /\ Last(q, c, n) => Looked(q, c, n).searched = 0 /\ Looked(q, c, n).left = q.left \ {c}
         /\ ~ Last(q, c, n) => Looked(q, c, n).searched = n /\ Looked(q, c, n).left = q.left
<1> DEFINE found == q.found \union Hits(q, c, n)
           searched == IF Last(q, c, n) THEN 0 ELSE n
           left == IF Last(q, c, n) THEN q.left \ {c} ELSE q.left
<1>1. Looked(q, c, n) = [q EXCEPT !.found = found, !.now = {c}, !.searched = searched,
                                  !.left = left]
  BY DEF Looked
<1> HIDE DEF found, searched, left
<1>2. /\ Looked(q, c, n).found = found /\ Looked(q, c, n).now = {c}
      /\ Looked(q, c, n).searched = searched /\ Looked(q, c, n).left = left
  BY <1>1 DEF Erasing
<1>3. QED
  BY <1>2 DEF found, searched, left

\* What is left of a row after a step: where it belongs never changes, only
\* answers are written again, and only an erasure redacts.
Kept(k) ==
  /\ k \in DOMAIN rows'
  /\ rows'[k].table = rows[k].table /\ rows'[k].owner = rows[k].owner
  /\ rows'[k].parent = rows[k].parent /\ rows'[k].created_at = rows[k].created_at
  /\ rows'[k].written = rows[k].written \/ rows'[k].written = clock
  /\ rows[k].table # "response" =>
       rows'[k].written = rows[k].written /\ (rows'[k].personal => rows[k].personal)
  /\ rows'[k].personal =>
       (rows[k].personal /\ rows'[k].written = rows[k].written) \/ rows'[k].written = clock'
  /\ rows[k].personal /\ ~ rows'[k].personal => rows'[k].erasedAt = clock
  /\ \/ rows'[k].erasedBy = rows[k].erasedBy /\ rows'[k].erasedAt = rows[k].erasedAt
     \/ \E i \in Slots :
          /\ Erase(i) /\ k \in request[i].found
          /\ rows'[k].erasedBy = request[i].begun /\ rows'[k].erasedAt = clock
          /\ ~ rows'[k].personal

\* The commit of an erasure redacts what it found, and nothing else.
LEMMA Redacts ==
  ASSUME TypeInv, NEW i \in Slots, Erase(i)
  PROVE  /\ request[i].op = "erase" /\ request[i] \in Erasing /\ request[i].left = {}
         /\ clock' = clock /\ request' = [request EXCEPT ![i] = Idle]
         /\ erasures' = erasures \union
              {[owner |-> c, begun |-> request[i].begun] : c \in request[i].erased}
         /\ sweeps' = IF request[i].kind = "request" THEN sweeps
                      ELSE sweeps \union {[begun |-> request[i].begun,
                                           cutoff |-> request[i].cutoff,
                                           erased |-> request[i].erased]}
         /\ rows' \in Seq(RowTypes) /\ Len(rows') = Len(rows) /\ DOMAIN rows' = DOMAIN rows
         /\ \A k \in DOMAIN rows :
              rows'[k] = IF k \in request[i].found THEN Redacted(k, request[i]) ELSE rows[k]
<1> DEFINE q == request[i]
<1>1. /\ q.op = "erase" /\ q.left = {} /\ clock' = clock
      /\ request' = [request EXCEPT ![i] = Idle]
      /\ erasures' = erasures \union {[owner |-> c, begun |-> q.begun] : c \in q.erased}
      /\ sweeps' = IF q.kind = "request" THEN sweeps
                   ELSE sweeps \union {[begun |-> q.begun, cutoff |-> q.cutoff, erased |-> q.erased]}
      /\ rows' = [k \in DOMAIN rows |-> IF k \in q.found THEN Redacted(k, q) ELSE rows[k]]
  BY DEF Erase, Done
<1>2. q \in Erasing
  BY <1>1, Kinds
<1>3. \A k \in DOMAIN rows : rows[k] \in RowTypes /\ Redacted(k, q) \in RowTypes
  <2>1. \A k \in DOMAIN rows : rows[k] \in RowTypes
    BY DEF TypeInv
  <2>2. q.begun \in Nat /\ clock \in Nat
    BY <1>2 DEF TypeInv, Erasing
  <2>3. QED
    BY <2>1, <2>2 DEF RowTypes, Redacted
<1>4. Len(rows) \in Nat /\ DOMAIN rows = 1 .. Len(rows)
  BY DEF TypeInv
<1>5. /\ rows' \in Seq(RowTypes) /\ Len(rows') = Len(rows) /\ DOMAIN rows' = DOMAIN rows
      /\ \A k \in DOMAIN rows : rows'[k] = IF k \in q.found THEN Redacted(k, q) ELSE rows[k]
  BY <1>1, <1>3, <1>4
<1>6. QED
  BY <1>1, <1>2, <1>5

\* Answers that are saved are personal again, and dated.
LEMMA SavedRows ==
  ASSUME TypeInv, Linked, NEW i \in Slots, Saved(i)
  PROVE  /\ clock' = clock /\ erasures' = erasures /\ sweeps' = sweeps
         /\ request' = [request EXCEPT ![i] = Idle]
         /\ rows' \in Seq(RowTypes) /\ Len(rows') = Len(rows) /\ DOMAIN rows' = DOMAIN rows
         /\ \A k \in DOMAIN rows :
              rows'[k] = rows[k] \/
                /\ rows[k].table = "response"
                /\ rows'[k] = [rows[k] EXCEPT !.personal = TRUE, !.written = clock]
<1> DEFINE loaded == request[i].loaded
<1>1. /\ rows' = [k \in DOMAIN rows |->
                    IF k \in loaded
                    THEN [rows[k] EXCEPT !.personal = TRUE, !.written = clock] ELSE rows[k]]
      /\ request[i].op = "write" /\ request' = [request EXCEPT ![i] = Idle]
      /\ UNCHANGED <<clock, erasures, sweeps>>
  BY DEF Saved
<1>2. loaded \subseteq RowsOf("response")
  BY <1>1 DEF Linked
<1>3. \A k \in DOMAIN rows :
        /\ rows[k] \in RowTypes
        /\ [rows[k] EXCEPT !.personal = TRUE, !.written = clock] \in RowTypes
  <2>1. clock \in Nat /\ \A k \in DOMAIN rows : rows[k] \in RowTypes
    BY DEF TypeInv
  <2>2. QED
    BY <2>1 DEF RowTypes
<1>4. Len(rows) \in Nat /\ DOMAIN rows = 1 .. Len(rows)
  BY DEF TypeInv
<1> DEFINE New(k) ==
      IF k \in loaded THEN [rows[k] EXCEPT !.personal = TRUE, !.written = clock] ELSE rows[k]
<1>5. rows' = [k \in DOMAIN rows |-> New(k)] /\ \A k \in DOMAIN rows : New(k) \in RowTypes
  BY <1>1, <1>3
<1> HIDE DEF loaded, New
<1>6. rows' \in Seq(RowTypes) /\ Len(rows') = Len(rows) /\ DOMAIN rows' = DOMAIN rows
  BY <1>4, <1>5
<1>7. \A k \in DOMAIN rows : rows[k].table # "response" => k \notin loaded
  BY <1>2 DEF RowsOf
<1>8. QED
  BY <1>1, <1>6, <1>7

\* A row that is inserted comes after those that are there.
LEMMA InsertedRows ==
  ASSUME TypeInv, NEW row, Inserted(row)
  PROVE  /\ rows' \in Seq(RowTypes) /\ Len(rows') = Len(rows) + 1
         /\ DOMAIN rows' = DOMAIN rows \union {Len(rows) + 1}
         /\ Len(rows) + 1 \notin DOMAIN rows
         /\ rows'[Len(rows) + 1] = row
         /\ \A k \in DOMAIN rows : rows'[k] = rows[k]
<1>1. row \in RowTypes /\ rows' = Append(rows, row) /\ rows \in Seq(RowTypes)
  BY DEF Inserted, TypeInv
<1>2. QED
  BY <1>1

\* Every step keeps the rows that are there, and dates the one it adds.
LEMMA RowsKept ==
  ASSUME TypeInv, Linked, Move
  PROVE  /\ clock \in Nat /\ (clock' = clock \/ clock' = clock + 1)
         /\ rows' \in Seq(RowTypes)
         /\ \A k \in DOMAIN rows : Kept(k) /\ rows'[k] \in RowTypes
         /\ \A k \in DOMAIN rows' : k \in DOMAIN rows \/ \E row :
              Inserted(row) /\ k = Len(rows) + 1 /\ rows'[k] = row /\ clock' = clock
<1>0. clock \in Nat /\ rows \in Seq(RowTypes) /\ \A k \in DOMAIN rows : rows[k] \in RowTypes
  BY DEF TypeInv
<1>1. ASSUME NEW row, Inserted(row)
      PROVE  /\ clock' = clock /\ rows' \in Seq(RowTypes) /\ \A k \in DOMAIN rows : Kept(k)
             /\ \A k \in DOMAIN rows' :
                  k \in DOMAIN rows \/ (k = Len(rows) + 1 /\ rows'[k] = row)
  <2>1. clock' = clock
    BY <1>1 DEF Inserted
  <2>2. \A k \in DOMAIN rows : k \in DOMAIN rows' /\ rows'[k] = rows[k]
    BY <1>1, InsertedRows
  <2>3. \A k \in DOMAIN rows : Kept(k)
    BY <2>2 DEF Kept
  <2>4. QED
    BY <1>1, <2>1, <2>3, InsertedRows
<1>2. ASSUME rows' = rows
      PROVE  rows' \in Seq(RowTypes) /\ \A k \in DOMAIN rows : Kept(k)
  <2>1. \A k \in DOMAIN rows : k \in DOMAIN rows' /\ rows'[k] = rows[k]
    BY <1>2
  <2>2. QED
    BY <1>0, <1>2, <2>1 DEF Kept
<1>3. ASSUME NEW i \in Slots, Saved(i)
      PROVE  /\ clock' = clock /\ rows' \in Seq(RowTypes) /\ DOMAIN rows' = DOMAIN rows
             /\ \A k \in DOMAIN rows : Kept(k)
  <2>1. /\ clock' = clock /\ rows' \in Seq(RowTypes) /\ DOMAIN rows' = DOMAIN rows
        /\ \A k \in DOMAIN rows :
              rows'[k] = rows[k] \/
                /\ rows[k].table = "response"
                /\ rows'[k] = [rows[k] EXCEPT !.personal = TRUE, !.written = clock]
    BY <1>3, SavedRows
  <2>2. ASSUME NEW k \in DOMAIN rows PROVE Kept(k)
    <3>1. CASE rows'[k] = rows[k]
      BY <2>1, <3>1 DEF Kept
    <3>2. CASE /\ rows[k].table = "response"
               /\ rows'[k] = [rows[k] EXCEPT !.personal = TRUE, !.written = clock]
      <4>1. rows[k] \in RowTypes
        BY <1>0
      <4>2. /\ rows'[k].table = rows[k].table /\ rows'[k].owner = rows[k].owner
            /\ rows'[k].parent = rows[k].parent /\ rows'[k].created_at = rows[k].created_at
            /\ rows'[k].erasedBy = rows[k].erasedBy /\ rows'[k].erasedAt = rows[k].erasedAt
            /\ rows'[k].written = clock /\ rows'[k].personal
        BY <3>2, <4>1 DEF RowTypes
      <4>3. QED
        BY <2>1, <3>2, <4>2 DEF Kept
    <3>3. QED
      BY <2>1, <3>1, <3>2
  <2>3. QED
    BY <2>1, <2>2
<1>4. ASSUME NEW i \in Slots, Erase(i)
      PROVE  /\ clock' = clock /\ rows' \in Seq(RowTypes) /\ DOMAIN rows' = DOMAIN rows
             /\ \A k \in DOMAIN rows : Kept(k)
  <2> DEFINE q == request[i]
  <2>1. /\ clock' = clock /\ rows' \in Seq(RowTypes) /\ DOMAIN rows' = DOMAIN rows
        /\ \A k \in DOMAIN rows :
             rows'[k] = IF k \in q.found THEN Redacted(k, q) ELSE rows[k]
    BY <1>4, Redacts
  <2>2. ASSUME NEW k \in DOMAIN rows PROVE Kept(k)
    <3>1. CASE k \notin q.found
      BY <2>1, <3>1 DEF Kept
    <3>2. CASE k \in q.found
      <4>1. rows[k] \in RowTypes /\ rows'[k] = Redacted(k, q)
        BY <1>0, <2>1, <3>2
      <4>2. /\ rows'[k].table = rows[k].table /\ rows'[k].owner = rows[k].owner
            /\ rows'[k].parent = rows[k].parent /\ rows'[k].created_at = rows[k].created_at
            /\ rows'[k].written = rows[k].written /\ ~ rows'[k].personal
            /\ rows'[k].erasedBy = q.begun /\ rows'[k].erasedAt = clock
        BY <4>1 DEF RowTypes, Redacted
      <4>3. QED
        BY <1>4, <2>1, <3>2, <4>2 DEF Kept
    <3>3. QED
      BY <3>1, <3>2
  <2>3. QED
    BY <2>1, <2>2
<1>5. /\ clock' = clock \/ clock' = clock + 1
      /\ rows' \in Seq(RowTypes)
      /\ \A k \in DOMAIN rows : Kept(k)
      /\ \A k \in DOMAIN rows' : k \in DOMAIN rows \/ \E row :
           Inserted(row) /\ k = Len(rows) + 1 /\ rows'[k] = row /\ clock' = clock
  <2>1. CASE \E row : Inserted(row)
    BY <1>1, <2>1
  <2>2. CASE \E i \in Slots : Saved(i) \/ Erase(i)
    BY <1>3, <1>4, <2>2
  <2>3. CASE \E i \in Slots : \E work : Begun(i, work)
    <3>1. rows' = rows /\ clock' = clock + 1
      BY <2>3 DEF Begun
    <3>2. QED
      BY <1>0, <1>2, <3>1
  <2>4. CASE UNCHANGED vars \/ \E i \in Slots : Search(i)
    <3>1. rows' = rows /\ clock' = clock
      BY <2>4 DEF Search, vars
    <3>2. QED
      BY <1>0, <1>2, <3>1
  <2>5. QED
    BY <2>1, <2>2, <2>3, <2>4 DEF Move
<1>6. \A k \in DOMAIN rows : rows'[k] \in RowTypes
  BY <1>5 DEF Kept
<1>7. QED
  BY <1>0, <1>5, <1>6

\* What becomes of a request in a step.
LEMMA RequestsAfter ==
  ASSUME TypeInv, Linked, Move, NEW i \in Slots
  PROVE  \/ request'[i] = request[i] \/ request'[i] = Idle
         \/ \E work : Begun(i, work) /\ request'[i] = work
         \/ \E c \in Candidates, n \in 1 .. 6 :
              Looks(i, c, n) /\ request'[i] = Looked(request[i], c, n)
<1>0. DOMAIN request = Slots
  BY DEF TypeInv
<1>1. CASE \E row : Inserted(row)
  BY <1>0, <1>1 DEF Inserted
<1>2. ASSUME NEW j \in Slots, NEW work, Begun(j, work)
      PROVE  request'[i] = request[i] \/ (Begun(i, work) /\ request'[i] = work)
  <2>1. request' = [request EXCEPT ![j] = work]
    BY <1>2 DEF Begun
  <2>2. QED
    BY <1>0, <1>2, <2>1
<1>3. ASSUME NEW j \in Slots, Saved(j) \/ Erase(j)
      PROVE  request'[i] = request[i] \/ request'[i] = Idle
  BY <1>0, <1>3 DEF Saved, Erase, Done
<1>4. ASSUME NEW j \in Slots, Search(j)
      PROVE  \/ request'[i] = request[i]
             \/ \E c \in Candidates, n \in 1 .. 6 :
                  Looks(i, c, n) /\ request'[i] = Looked(request[i], c, n)
  <2>1. PICK c \in Candidates, n \in 1 .. 6 : Looks(j, c, n)
    BY <1>4, SearchLooks
  <2>2. request' = [request EXCEPT ![j] = Looked(request[j], c, n)]
    BY <2>1 DEF Looks
  <2>3. QED
    BY <1>0, <2>1, <2>2
<1>5. CASE UNCHANGED vars
  BY <1>5 DEF vars
<1>6. QED
  BY <1>1, <1>2, <1>3, <1>4, <1>5 DEF Move

-----------------------------------------------------------------------------
(* Types, dates and links.                                                 *)

\* A new deployment has no rows.
LEMMA TypeInit == Init => TypeInv /\ Dated /\ Linked
<1> SUFFICES ASSUME Init PROVE TypeInv /\ Dated /\ Linked
  OBVIOUS
<1>1. TypeInv
  <2>1. rows = <<>> /\ clock = 0 /\ MaxSteps \in Nat
    BY BoundsAssumption DEF Init
  <2>2. rows \in Seq(RowTypes) /\ Len(rows) + clock <= MaxSteps
    BY <2>1
  <2>3. QED
    BY <2>1, <2>2 DEF Init, TypeInv
<1>2. Dated /\ Linked
  BY DEF Init, Dated, Linked, Idle
<1>3. QED
  BY <1>1, <1>2

\* Every step keeps the types.
LEMMA TypeStep ==
  ASSUME TypeInv, Linked, Move
  PROVE  TypeInv'
<1>1. clock' \in Nat /\ rows' \in Seq(RowTypes)
  BY RowsKept
<1>2. request' \in [Slots -> {Idle} \union Saves \union Reports \union Erasing]
  <2> DEFINE Work == {Idle} \union Saves \union Reports \union Erasing
  <2>0. request \in [Slots -> Work] /\ Idle \in Work
    BY DEF TypeInv
  <2> SUFFICES request' \in [Slots -> Work]
    OBVIOUS
  <2> HIDE DEF Work
  <2>1. CASE \E row : Inserted(row)
    BY <2>0, <2>1 DEF Inserted
  <2>2. CASE \E i \in Slots : \E work : Begun(i, work)
    <3>1. PICK i \in Slots : \E work : Begun(i, work)
      BY <2>2
    <3>2. PICK work : Begun(i, work)
      BY <3>1
    <3>3. work \in Work /\ request' = [request EXCEPT ![i] = work]
      BY <3>2 DEF Begun, Work
    <3>4. QED
      BY <2>0, <3>3
  <2>3. CASE \E i \in Slots : Saved(i) \/ Erase(i)
    BY <2>0, <2>3 DEF Saved, Erase, Done
  <2>4. CASE \E i \in Slots : Search(i)
    <3>1. PICK i \in Slots : Search(i)
      BY <2>4
    <3>2. PICK c \in Candidates, n \in 1 .. 6 : Looks(i, c, n)
      BY <3>1, SearchLooks
    <3>3. /\ Looked(request[i], c, n) \in Work
          /\ request' = [request EXCEPT ![i] = Looked(request[i], c, n)]
      BY <3>2 DEF Looks, Work
    <3>4. QED
      BY <2>0, <3>3
  <2>5. CASE UNCHANGED vars
    BY <2>0, <2>5 DEF vars
  <2>6. QED
    BY <2>1, <2>2, <2>3, <2>4, <2>5 DEF Move, Work
<1>3. Len(rows') + clock' <= MaxSteps
  <2>0. Len(rows) \in Nat /\ clock \in Nat /\ Len(rows) + clock <= MaxSteps
    BY DEF TypeInv
  <2>1. CASE \E row : Inserted(row)
    <3>1. /\ Len(rows') = Len(rows) + 1 /\ clock' = clock
          /\ Len(rows) + clock < MaxSteps
      BY <2>1, InsertedRows DEF Inserted
    <3>2. QED
      BY <2>0, <3>1, BoundsAssumption
  <2>2. CASE \E i \in Slots : \E work : Begun(i, work)
    <3>1. rows' = rows /\ clock' = clock + 1 /\ Len(rows) + clock < MaxSteps
      BY <2>2 DEF Begun
    <3>2. QED
      BY <2>0, <3>1, BoundsAssumption
  <2>3. CASE \E i \in Slots : Saved(i) \/ Erase(i)
    <3>1. Len(rows') = Len(rows) /\ clock' = clock
      BY <2>3, SavedRows, Redacts
    <3>2. QED
      BY <2>0, <3>1
  <2>4. CASE UNCHANGED vars \/ \E i \in Slots : Search(i)
    BY <2>0, <2>4 DEF vars, Search
  <2>5. QED
    BY <2>1, <2>2, <2>3, <2>4 DEF Move
<1>4. /\ erasures' \subseteq [owner : Candidates, begun : Nat]
      /\ sweeps' \subseteq [begun : Nat, cutoff : Nat, erased : SUBSET Candidates]
  <2>1. ASSUME NEW i \in Slots, Erase(i)
        PROVE  /\ erasures' \subseteq [owner : Candidates, begun : Nat]
               /\ sweeps' \subseteq [begun : Nat, cutoff : Nat, erased : SUBSET Candidates]
    <3> DEFINE q == request[i]
    <3>1. /\ erasures' = erasures \union {[owner |-> c, begun |-> q.begun] : c \in q.erased}
          /\ sweeps' = IF q.kind = "request" THEN sweeps
                       ELSE sweeps \union {[begun |-> q.begun, cutoff |-> q.cutoff,
                                            erased |-> q.erased]}
          /\ q \in Erasing
      BY <2>1, Redacts
    <3> HIDE DEF q
    <3>2. q.begun \in Nat /\ q.cutoff \in Nat /\ q.erased \subseteq Candidates
      BY <3>1 DEF Erasing
    <3>3. QED
      BY <3>1, <3>2 DEF TypeInv
  <2>2. CASE UNCHANGED <<erasures, sweeps>>
    BY <2>2 DEF TypeInv
  <2>3. QED
    BY <2>1, <2>2 DEF Move, Inserted, Begun, Saved, Search, vars
<1>5. QED
  BY <1>1, <1>2, <1>3, <1>4 DEF TypeInv

\* Every step keeps the dates behind the clock.
LEMMA DatedStep ==
  ASSUME TypeInv, Dated, Linked, Move
  PROVE  Dated'
<1>0. clock \in Nat /\ (clock' = clock \/ clock' = clock + 1)
  BY RowsKept
<1>1. ASSUME NEW k \in DOMAIN rows'
      PROVE  /\ rows'[k].created_at <= clock' /\ rows'[k].written <= clock'
             /\ rows'[k].erasedBy <= clock' /\ rows'[k].erasedAt <= clock'
  <2>1. CASE k \in DOMAIN rows
    <3>1. /\ rows[k].created_at <= clock /\ rows[k].written <= clock
          /\ rows[k].erasedBy <= clock /\ rows[k].erasedAt <= clock
      BY <2>1 DEF Dated
    <3>2. rows[k] \in RowTypes
      BY <2>1 DEF TypeInv
    <3>3. /\ rows[k].created_at \in Nat /\ rows[k].written \in Nat
          /\ rows[k].erasedBy \in Nat /\ rows[k].erasedAt \in Nat
      BY <3>2 DEF RowTypes
    <3>4. \A i \in Slots : Erase(i) => request[i].begun \in 1 .. clock
      BY DEF Erase, Dated
    <3>5. Kept(k)
      BY <2>1, RowsKept
    <3>6. /\ rows'[k].created_at <= clock /\ rows'[k].written <= clock
          /\ rows'[k].erasedBy <= clock /\ rows'[k].erasedAt <= clock
      BY <1>0, <3>1, <3>4, <3>5 DEF Kept
    <3>7. /\ rows'[k].created_at \in Int /\ rows'[k].written \in Int
          /\ rows'[k].erasedBy \in Int /\ rows'[k].erasedAt \in Int
      BY <1>0, <3>3, <3>4, <3>5 DEF Kept
    <3>8. QED
      BY <1>0, <3>6, <3>7
  <2>2. CASE k \notin DOMAIN rows
    <3>1. PICK row : Inserted(row) /\ rows'[k] = row /\ clock' = clock
      BY <2>2, RowsKept
    <3>2. QED
      BY <1>0, <3>1 DEF Inserted
  <2>3. QED
    BY <2>1, <2>2
<1>2. ASSUME NEW i \in Slots, request'[i].op \in {"evaluate", "erase"}
      PROVE  request'[i].begun \in 1 .. clock'
  <2>1. CASE request'[i] = request[i]
    BY <1>0, <1>2, <2>1 DEF Dated
  <2>2. CASE request'[i] = Idle
    BY <1>2, <2>2 DEF Idle
  <2>3. ASSUME NEW work, Begun(i, work), request'[i] = work
        PROVE  request'[i].begun \in 1 .. clock'
    BY <1>0, <1>2, <2>3 DEF Begun, Starts
  <2>4. ASSUME NEW c \in Candidates, NEW n \in 1 .. 6, Looks(i, c, n),
               request'[i] = Looked(request[i], c, n)
        PROVE  request'[i].begun \in 1 .. clock'
    <3>1. request[i] \in Erasing /\ request[i].op = "erase" /\ clock' = clock
      BY <2>4 DEF Looks
    <3>2. request'[i].begun = request[i].begun
      BY <2>4, <3>1, LookedStays
    <3>3. QED
      BY <3>1, <3>2 DEF Dated
  <2>5. QED
    BY <2>1, <2>2, <2>3, <2>4, RequestsAfter
<1>3. /\ \A e \in erasures' : e.begun \in 1 .. clock'
      /\ \A s \in sweeps' : s.begun \in 1 .. clock'
  <2>1. ASSUME NEW i \in Slots, Erase(i)
        PROVE  /\ \A e \in erasures' : e.begun \in 1 .. clock'
               /\ \A s \in sweeps' : s.begun \in 1 .. clock'
    <3>1. request[i].begun \in 1 .. clock
      BY <2>1, Redacts DEF Dated
    <3>2. /\ \A e \in erasures' : e \in erasures \/ e.begun = request[i].begun
          /\ \A s \in sweeps' : s \in sweeps \/ s.begun = request[i].begun
          /\ clock' = clock
      BY <2>1, Redacts
    <3>3. QED
      BY <3>1, <3>2 DEF Dated
  <2>2. CASE UNCHANGED <<erasures, sweeps>>
    BY <1>0, <2>2 DEF Dated
  <2>3. QED
    BY <2>1, <2>2 DEF Move, Inserted, Begun, Saved, Search, vars
<1>4. QED
  BY <1>1, <1>2, <1>3 DEF Dated

\* Rows stay in their tables.
LEMMA TablesGrow ==
  ASSUME TypeInv, Linked, Move, NEW table
  PROVE  RowsOf(table) \subseteq RowsOf(table)'
<1> SUFFICES ASSUME NEW k \in DOMAIN rows, rows[k].table = table
             PROVE  k \in DOMAIN rows' /\ rows'[k].table = table
  BY DEF RowsOf
<1>1. QED
  BY RowsKept DEF Kept

\* Every step keeps rows below the rows they belong to.
LEMMA LinkedStep ==
  ASSUME TypeInv, Dated, Linked, Move
  PROVE  Linked'
<1>0. /\ clock \in Nat /\ DOMAIN rows = 1 .. Len(rows) /\ Len(rows) \in Nat
      /\ \A k \in DOMAIN rows : rows[k] \in RowTypes
  BY DEF TypeInv
<1>1. \A k \in DOMAIN rows :
        Kept(k) /\ rows[k].written <= clock /\ rows[k].written \in Nat
  BY <1>0, RowsKept DEF Dated, RowTypes
<1>2. ASSUME NEW k \in DOMAIN rows'
      PROVE  IF Above(rows'[k].table) = "none" THEN rows'[k].parent = 0
             ELSE /\ rows'[k].parent \in 1 .. k - 1
                  /\ rows'[rows'[k].parent].table = Above(rows'[k].table)
                  /\ rows'[rows'[k].parent].owner = rows'[k].owner
                  /\ rows'[rows'[k].parent].written <= rows'[k].written
  <2>1. CASE k \in DOMAIN rows
    <3>1. rows'[k].table = rows[k].table /\ rows'[k].parent = rows[k].parent
          /\ rows'[k].owner = rows[k].owner
      BY <1>1, <2>1 DEF Kept
    <3>2. CASE Above(rows[k].table) = "none"
      BY <2>1, <3>1, <3>2 DEF Linked
    <3>3. CASE Above(rows[k].table) # "none"
      <4> DEFINE p == rows[k].parent
      <4>1. /\ p \in 1 .. k - 1 /\ rows[p].table = Above(rows[k].table)
            /\ rows[p].owner = rows[k].owner /\ rows[p].written <= rows[k].written
        BY <2>1, <3>3 DEF Linked
      <4>2. p \in DOMAIN rows
        BY <1>0, <2>1, <4>1
      <4>3. rows[p].table # "response"
        BY <4>1 DEF Above
      <4>4. /\ rows'[p].table = rows[p].table /\ rows'[p].owner = rows[p].owner
            /\ rows'[p].written = rows[p].written
        BY <1>1, <4>2, <4>3 DEF Kept
      <4>5. rows'[k].written = rows[k].written \/ rows'[k].written = clock
        BY <1>1, <2>1 DEF Kept
      <4>6. rows'[p].written <= rows'[k].written
        BY <1>1, <4>1, <4>2, <4>4, <4>5
      <4> HIDE DEF p
      <4>7. rows'[k].parent = p
        BY <3>1 DEF p
      <4>8. QED
        BY <3>1, <3>3, <4>1, <4>4, <4>6, <4>7
    <3>4. QED
      BY <3>2, <3>3
  <2>2. CASE k \notin DOMAIN rows
    <3>1. PICK row : Inserted(row) /\ k = Len(rows) + 1 /\ rows'[k] = row
      BY <2>2, RowsKept
    <3>2. /\ row.written = clock
          /\ IF Above(row.table) = "none" THEN row.parent = 0
             ELSE /\ row.parent \in DOMAIN rows
                  /\ rows[row.parent].table = Above(row.table)
                  /\ rows[row.parent].owner = row.owner
      BY <3>1 DEF Inserted
    <3>3. \A p \in DOMAIN rows : rows'[p] = rows[p] /\ p \in 1 .. k - 1
      BY <1>0, <3>1, InsertedRows
    <3>4. QED
      BY <1>1, <3>1, <3>2, <3>3
  <2>3. QED
    BY <2>1, <2>2
<1>3. ASSUME NEW i \in Slots
      PROVE  /\ request'[i].op = "write" =>
                  /\ request'[i].to \in RowsOf("invite")' \union RowsOf("session")'
                  /\ request'[i].loaded \subseteq RowsOf("response")'
             /\ request'[i].op = "evaluate" => request'[i].of \in RowsOf("resume")'
             /\ request'[i].op = "erase" => request'[i].found \subseteq DOMAIN rows'
  <2>0. /\ RowsOf("invite") \subseteq RowsOf("invite")'
        /\ RowsOf("session") \subseteq RowsOf("session")'
        /\ RowsOf("response") \subseteq RowsOf("response")'
        /\ RowsOf("resume") \subseteq RowsOf("resume")'
        /\ DOMAIN rows \subseteq DOMAIN rows'
    BY <1>1, TablesGrow DEF Kept
  <2>1. CASE request'[i] = request[i]
    BY <2>0, <2>1 DEF Linked
  <2>2. CASE request'[i] = Idle
    BY <2>2 DEF Idle
  <2>3. ASSUME NEW work, Begun(i, work), request'[i] = work
        PROVE  /\ work.op = "write" =>
                    /\ work.to \in RowsOf("invite") \union RowsOf("session")
                    /\ work.loaded \subseteq RowsOf("response")
               /\ work.op = "evaluate" => work.of \in RowsOf("resume")
               /\ work.op = "erase" => work.found \subseteq DOMAIN rows
    <3>1. work.op = "erase" => work.found \subseteq DOMAIN rows
      BY <2>3 DEF Begun, Starts, Addressed, RowsOf
    <3>2. QED
      BY <2>3, <3>1 DEF Begun
  <2>4. ASSUME NEW c \in Candidates, NEW n \in 1 .. 6, Looks(i, c, n),
               request'[i] = Looked(request[i], c, n)
        PROVE  request'[i].op = "erase" /\ request'[i].found \subseteq DOMAIN rows
    <3>1. request[i] \in Erasing /\ request[i].op = "erase"
      BY <2>4 DEF Looks
    <3>2. request'[i].op = "erase"
      BY <2>4, <3>1, LookedStays
    <3>3. request'[i].found = request[i].found \union Hits(request[i], c, n)
      BY <2>4, <3>1, LookedFinds
    <3>4. Hits(request[i], c, n) \subseteq DOMAIN rows
      BY DEF Hits, Addressed, RowsOf
    <3>5. request[i].found \subseteq DOMAIN rows
      BY <3>1 DEF Linked
    <3>6. QED
      BY <3>2, <3>3, <3>4, <3>5
  <2>5. CASE \E work : Begun(i, work) /\ request'[i] = work
    BY <2>0, <2>3, <2>5
  <2>6. CASE \E c \in Candidates, n \in 1 .. 6 :
               Looks(i, c, n) /\ request'[i] = Looked(request[i], c, n)
    BY <2>0, <2>4, <2>6
  <2>7. QED
    BY <2>1, <2>2, <2>5, <2>6, RequestsAfter
<1>4. QED
  BY <1>2, <1>3 DEF Linked, RowsOf

\* Every step keeps reports, stored and to come, to addresses that were there
\* when they were begun.
LEMMA RemembersStep ==
  ASSUME TypeInv, Dated, Linked, Remembers, Move
  PROVE  Remembers'
<1>0. clock \in Nat /\ \A k \in DOMAIN rows : rows[k] \in RowTypes
  BY DEF TypeInv
<1>1. ASSUME NEW p \in DOMAIN rows, rows[p].table # "response", ~ rows'[p].personal,
             NEW n \in Nat, n <= clock, ~ rows[p].personal => n <= rows[p].erasedAt
      PROVE  n <= rows'[p].erasedAt
  <2>1. /\ Kept(p) /\ rows[p].erasedAt <= clock
    BY RowsKept DEF Dated
  <2>2. CASE rows[p].personal
    BY <1>1, <2>1, <2>2 DEF Kept
  <2>3. CASE ~ rows[p].personal
    <3>1. rows'[p].erasedAt = rows[p].erasedAt \/ rows'[p].erasedAt = clock
      BY <2>1 DEF Kept
    <3>2. QED
      BY <1>1, <2>3, <3>1
  <2>4. QED
    BY <2>2, <2>3
<1>2. ASSUME NEW k \in DOMAIN rows', rows'[k].table = "evaluation", rows'[k].personal,
             ~ rows'[rows'[k].parent].personal
      PROVE  rows'[k].created_at <= rows'[rows'[k].parent].erasedAt
  <2>1. CASE k \in DOMAIN rows
    <3> DEFINE p == rows[k].parent
    <3>1. /\ rows[k].table = "evaluation" /\ rows'[k].parent = p
          /\ rows'[k].created_at = rows[k].created_at
      BY <1>2, <2>1, RowsKept DEF Kept
    <3>2. rows[k].personal
      BY <1>2, <2>1, <3>1, RowsKept DEF Kept
    <3>3. Above(rows[k].table) = "resume"
      BY <3>1 DEF Above
    <3>4. p \in 1 .. k - 1 /\ rows[p].table = "resume"
      BY <2>1, <3>3 DEF Linked
    <3>5. p \in DOMAIN rows
      BY <2>1, <3>4 DEF TypeInv
    <3>6. ~ rows[p].personal => rows[k].created_at <= rows[p].erasedAt
      BY <2>1, <3>1, <3>2 DEF Remembers, ReportsForget, RowsOf
    <3>7. rows[k].created_at \in Nat /\ rows[k].created_at <= clock
      BY <1>0, <2>1 DEF Dated, RowTypes
    <3>8. ~ rows'[p].personal
      BY <1>2, <3>1
    <3>9. QED
      BY <1>1, <3>1, <3>4, <3>5, <3>6, <3>7, <3>8
  <2>2. CASE k \notin DOMAIN rows
    <3>1. PICK row : Inserted(row) /\ k = Len(rows) + 1 /\ rows'[k] = row
      BY <2>2, RowsKept
    <3>2. Above(row.table) = "resume"
      BY <1>2, <3>1 DEF Above
    <3>3. row.parent \in DOMAIN rows
      BY <3>1, <3>2 DEF Inserted
    <3>4. rows'[row.parent] = rows[row.parent]
      BY <3>1, <3>3, InsertedRows
    <3>5. ~ rows[row.parent].personal => row.created_at <= rows[row.parent].erasedAt
      BY <1>2, <3>1 DEF Inserted
    <3>6. QED
      BY <1>2, <3>1, <3>4, <3>5
  <2>3. QED
    BY <2>1, <2>2
<1>3. ASSUME NEW i \in Slots, request'[i].op = "evaluate", request'[i].address,
             ~ rows'[request'[i].of].personal
      PROVE  request'[i].begun <= rows'[request'[i].of].erasedAt
  <2>1. CASE request'[i] = request[i]
    <3> DEFINE p == request[i].of
    <3>1. p \in DOMAIN rows /\ rows[p].table = "resume"
      BY <1>3, <2>1 DEF Linked, RowsOf
    <3>2. ~ rows[p].personal => request[i].begun <= rows[p].erasedAt
      BY <1>3, <2>1 DEF Remembers
    <3>3. request[i].begun \in Nat /\ request[i].begun <= clock
      BY <1>0, <1>3, <2>1 DEF Dated
    <3>4. QED
      BY <1>1, <1>3, <2>1, <3>1, <3>2, <3>3
  <2>2. CASE request'[i] = Idle
    BY <1>3, <2>2 DEF Idle
  <2>3. ASSUME NEW work, Begun(i, work), request'[i] = work PROVE FALSE
    BY <1>3, <2>3 DEF Begun
  <2>4. ASSUME NEW c \in Candidates, NEW n \in 1 .. 6, Looks(i, c, n),
               request'[i] = Looked(request[i], c, n)
        PROVE  FALSE
    <3>1. request[i] \in Erasing
      BY <2>4 DEF Looks
    <3>2. request'[i].op = "erase"
      BY <2>4, <3>1, LookedStays
    <3>3. QED
      BY <1>3, <3>2
  <2>5. QED
    BY <2>1, <2>2, <2>3, <2>4, RequestsAfter
<1>4. QED
  BY <1>2, <1>3 DEF Remembers, ReportsForget, RowsOf

\* What every state satisfies, of rows and requests.
RowsInv == TypeInv /\ Dated /\ Linked /\ Remembers

\* It holds at the start.
LEMMA RowsInit == Init => RowsInv
<1>1. Init => Remembers
  BY DEF Init, Remembers, ReportsForget, RowsOf, Idle
<1>2. QED
  BY <1>1, TypeInit DEF RowsInv

\* Every step keeps it.
LEMMA RowsStep == RowsInv /\ [Next]_vars => RowsInv' /\ Move
<1> SUFFICES ASSUME RowsInv, [Next]_vars PROVE RowsInv' /\ Move
  OBVIOUS
<1>1. TypeInv /\ Dated /\ Linked /\ Remembers
  BY DEF RowsInv
<1>2. Move
  BY <1>1, Moves
<1>3. TypeInv' /\ Dated' /\ Linked' /\ Remembers'
  BY <1>1, <1>2, TypeStep, DatedStep, LinkedStep, RemembersStep
<1>4. QED
  BY <1>2, <1>3 DEF RowsInv

\* Rows, requests and ghosts keep their types and are dated by the clock, for
\* any candidates and number of requests.
THEOREM TypeCorrect == Spec => []TypeOK
<1>1. RowsInv => TypeOK
  <2> SUFFICES ASSUME RowsInv PROVE TypeOK
    OBVIOUS
  <2>0. TypeInv /\ Dated /\ Linked
    BY DEF RowsInv
  <2>1. clock \in 0 .. MaxSteps /\ Len(rows) \in 0 .. MaxSteps
    <3>1. Len(rows) \in Nat /\ clock \in Nat /\ Len(rows) + clock <= MaxSteps
      BY <2>0 DEF TypeInv
    <3>2. QED
      BY <3>1, BoundsAssumption
  <2>2. ASSUME NEW k \in DOMAIN rows
        PROVE  /\ rows[k].table \in Tables /\ rows[k].owner \in Candidates
               /\ rows[k].parent \in 0 .. k - 1
               /\ rows[k].personal \in BOOLEAN
               /\ {rows[k].created_at, rows[k].written, rows[k].erasedBy, rows[k].erasedAt}
                    \subseteq 0 .. clock
    <3>1. rows[k] \in RowTypes /\ k \in Nat /\ k >= 1 /\ clock \in Nat
      BY <2>0 DEF TypeInv
    <3>2. rows[k].parent = 0 \/ rows[k].parent \in 1 .. k - 1
      BY <2>0 DEF Linked
    <3>3. rows[k].parent \in 0 .. k - 1
      BY <3>1, <3>2
    <3>4. /\ rows[k].created_at <= clock /\ rows[k].written <= clock
          /\ rows[k].erasedBy <= clock /\ rows[k].erasedAt <= clock
      BY <2>0 DEF Dated
    <3>5. /\ rows[k].created_at \in Nat /\ rows[k].written \in Nat
          /\ rows[k].erasedBy \in Nat /\ rows[k].erasedAt \in Nat
          /\ rows[k].table \in Tables /\ rows[k].owner \in Candidates
          /\ rows[k].personal \in BOOLEAN
      BY <3>1 DEF RowTypes
    <3>6. QED
      BY <3>1, <3>3, <3>4, <3>5
  <2>3. \A i \in Slots : request[i].op \in {"idle", "write", "evaluate", "erase"}
    <3>1. \A i \in Slots : request[i] \in {Idle} \union Saves \union Reports \union Erasing
      BY <2>0, Kinds
    <3>2. QED
      BY <3>1 DEF Idle, Saves, Reports, Erasing
  <2>4. /\ \A e \in erasures : e.owner \in Candidates /\ e.begun \in 1 .. clock
        /\ \A s \in sweeps : s.erased \subseteq Candidates /\ s.begun \in 1 .. clock
    BY <2>0 DEF TypeInv, Dated
  <2>5. QED
    BY <2>1, <2>2, <2>3, <2>4 DEF TypeOK
<1>2. QED
  BY <1>1, RowsInit, RowsStep, PTL DEF Spec

\* However saving, reporting and erasing overlap, a report carries the address
\* of an erased resume only if it was begun before that erasure's commit.
THEOREM ReportsWereBegunBefore == Spec => []ReportsForget
<1>1. RowsInv => ReportsForget
  BY DEF RowsInv, Remembers
<1>2. QED
  BY <1>1, RowsInit, RowsStep, PTL DEF Spec

-----------------------------------------------------------------------------
(* What an erasure in progress knows.                                      *)

\* Erasures have numbers of their own, and search the candidates one by one.
Numbered ==
  /\ \A i, j \in Slots :
       (request[i].op = "erase" /\ request[j].op = "erase" /\ request[i].begun = request[j].begun)
         => i = j
  /\ \A i \in Slots : request[i].op = "erase" =>
       /\ \A k \in DOMAIN rows : rows[k].erasedBy # request[i].begun
       /\ \A e \in erasures : e.begun # request[i].begun
       /\ request[i].left \subseteq request[i].erased
       /\ request[i].searched > 0 =>
            \E c \in request[i].left : request[i].now = {c}

\* An erasure was there before the step, or begins with it.
LEMMA ErasureAfter ==
  ASSUME TypeInv, Linked, Move, NEW i \in Slots, request'[i].op = "erase"
  PROVE  \/ /\ request[i].op = "erase"
            /\ request'[i].begun = request[i].begun
            /\ request'[i] = request[i] \/
                 \E c \in Candidates, n \in 1 .. 6 :
                   Looks(i, c, n) /\ request'[i] = Looked(request[i], c, n)
         \/ /\ request[i] = Idle /\ UNCHANGED <<rows, erasures, sweeps>>
            /\ clock' = clock + 1 /\ Starts(request'[i])
            /\ request' = [request EXCEPT ![i] = request'[i]]
<1>1. CASE request'[i] = request[i]
  BY <1>1
<1>2. CASE request'[i] = Idle
  BY <1>2 DEF Idle
<1>3. ASSUME NEW work, Begun(i, work), request'[i] = work
      PROVE  /\ request[i] = Idle /\ UNCHANGED <<rows, erasures, sweeps>>
             /\ clock' = clock + 1 /\ Starts(request'[i])
             /\ request' = [request EXCEPT ![i] = request'[i]]
  BY <1>3 DEF Begun
<1>4. ASSUME NEW c \in Candidates, NEW n \in 1 .. 6, Looks(i, c, n),
             request'[i] = Looked(request[i], c, n)
      PROVE  request[i].op = "erase" /\ request'[i].begun = request[i].begun
  <2>1. request[i] \in Erasing /\ request[i].op = "erase"
    BY <1>4 DEF Looks
  <2>2. QED
    BY <1>4, <2>1, LookedStays
<1>5. QED
  BY <1>1, <1>2, <1>3, <1>4, RequestsAfter

\* Every step keeps the numbers apart.
LEMMA NumberedStep ==
  ASSUME TypeInv, Dated, Linked, Numbered, Move
  PROVE  Numbered'
<1> DEFINE Went(i) == request[i].op = "erase" /\ request'[i].begun = request[i].begun
           Came(i) == /\ request[i] = Idle /\ UNCHANGED <<rows, erasures, sweeps>>
                      /\ Starts(request'[i])
                      /\ request' = [request EXCEPT ![i] = request'[i]]
<1>0. clock \in Nat
  BY DEF TypeInv
<1>1. \A i \in Slots : request'[i].op = "erase" => Went(i) \/ Came(i)
  BY ErasureAfter
<1>2. \A i \in Slots : Went(i) => request[i].begun \in 1 .. clock
  BY DEF Dated
<1>3. \A i \in Slots : Came(i) => request'[i].begun = clock + 1
  BY DEF Starts
<1>4. ASSUME NEW i \in Slots, NEW j \in Slots, request'[i].op = "erase",
             request'[j].op = "erase", request'[i].begun = request'[j].begun
      PROVE  i = j
  <2>1. CASE Went(i) /\ Went(j)
    BY <1>4, <2>1 DEF Numbered
  <2>2. CASE (Went(i) /\ Came(j)) \/ (Came(i) /\ Went(j))
    BY <1>0, <1>2, <1>3, <1>4, <2>2
  <2>3. CASE Came(i) /\ Came(j)
    <3>1. i # j => request'[j] = request[j]
      BY <2>3 DEF TypeInv
    <3>2. QED
      BY <1>4, <2>3, <3>1 DEF Idle
  <2>4. QED
    BY <1>1, <1>4, <2>1, <2>2, <2>3
<1>5. ASSUME NEW i \in Slots, request'[i].op = "erase", Went(i)
      PROVE  /\ \A k \in DOMAIN rows' : rows'[k].erasedBy # request'[i].begun
             /\ \A e \in erasures' : e.begun # request'[i].begun
  <2>0. \A j \in Slots : Erase(j) => request[j].begun # request[i].begun
    <3>1. ASSUME NEW j \in Slots, Erase(j) PROVE i # j
      <4>1. request'[j] = Idle
        BY <3>1, Redacts DEF TypeInv
      <4>2. QED
        BY <1>5, <4>1 DEF Idle
    <3>2. \A j \in Slots : Erase(j) => request[j].op = "erase"
      BY DEF Erase
    <3>3. QED
      BY <1>5, <3>1, <3>2 DEF Numbered
  <2>1. ASSUME NEW k \in DOMAIN rows' PROVE rows'[k].erasedBy # request'[i].begun
    <3>1. CASE k \in DOMAIN rows
      <4>1. \/ rows'[k].erasedBy = rows[k].erasedBy
            \/ \E j \in Slots : Erase(j) /\ rows'[k].erasedBy = request[j].begun
        BY <3>1, RowsKept DEF Kept
      <4>2. rows[k].erasedBy # request[i].begun
        BY <1>5, <3>1 DEF Numbered
      <4>3. QED
        BY <1>5, <2>0, <4>1, <4>2
    <3>2. CASE k \notin DOMAIN rows
      <4>1. rows'[k].erasedBy = 0
        BY <3>2, RowsKept DEF Inserted
      <4>2. QED
        BY <1>2, <1>5, <4>1
    <3>3. QED
      BY <3>1, <3>2
  <2>2. ASSUME NEW e \in erasures' PROVE e.begun # request'[i].begun
    <3>1. e \in erasures \/ \E j \in Slots : Erase(j) /\ e.begun = request[j].begun
      <4>1. CASE \E j \in Slots : Erase(j)
        <5>1. PICK j \in Slots : Erase(j)
          BY <4>1
        <5>2. erasures' = erasures \union
                {[owner |-> c, begun |-> request[j].begun] : c \in request[j].erased}
          BY <5>1, Redacts
        <5>3. QED
          BY <5>1, <5>2
      <4>2. CASE erasures' = erasures
        BY <4>2
      <4>3. QED
        BY <4>1, <4>2 DEF Move, Inserted, Begun, Saved, Search, vars
    <3>2. e \in erasures => e.begun # request[i].begun
      BY <1>5 DEF Numbered
    <3>3. QED
      BY <1>5, <2>0, <3>1, <3>2
  <2>3. QED
    BY <2>1, <2>2
<1>6. ASSUME NEW i \in Slots, Came(i)
      PROVE  /\ \A k \in DOMAIN rows' : rows'[k].erasedBy # request'[i].begun
             /\ \A e \in erasures' : e.begun # request'[i].begun
  <2>1. \A k \in DOMAIN rows : rows[k].erasedBy <= clock /\ rows[k].erasedBy \in Nat
    <3>1. \A k \in DOMAIN rows : rows[k] \in RowTypes
      BY DEF TypeInv
    <3>2. QED
      BY <3>1 DEF Dated, RowTypes
  <2>2. \A e \in erasures : e.begun \in 1 .. clock
    BY DEF Dated
  <2>3. QED
    BY <1>0, <1>3, <1>6, <2>1, <2>2
<1>7. ASSUME NEW i \in Slots, request'[i].op = "erase"
      PROVE  /\ request'[i].left \subseteq request'[i].erased
             /\ request'[i].searched > 0 =>
                  \E c \in request'[i].left : request'[i].now = {c}
  <2>1. CASE request'[i] = request[i]
    BY <1>7, <2>1 DEF Numbered
  <2>2. CASE Starts(request'[i])
    BY <2>2 DEF Starts
  <2>3. ASSUME NEW c \in Candidates, NEW n \in 1 .. 6, Looks(i, c, n),
               request'[i] = Looked(request[i], c, n)
        PROVE  /\ request'[i].left \subseteq request'[i].erased
               /\ request'[i].searched > 0 =>
                    \E d \in request'[i].left : request'[i].now = {d}
    <3> DEFINE q == request[i]
               r == request'[i]
    <3>1. /\ q \in Erasing /\ q.op = "erase"
          /\ c \in IF q.searched = 0 THEN q.left ELSE q.now
      BY <2>3 DEF Looks
    <3>2. r.erased = q.erased
      BY <2>3, <3>1, LookedStays
    <3>3. /\ r.now = {c}
          /\ Last(q, c, n) => r.searched = 0 /\ r.left = q.left \ {c}
          /\ ~ Last(q, c, n) => r.searched = n /\ r.left = q.left
      BY <2>3, <3>1, LookedFinds
    <3>4. /\ q.left \subseteq q.erased
          /\ q.searched > 0 => \E d \in q.left : q.now = {d}
      BY <3>1 DEF Numbered
    <3>5. q.searched \in 0 .. 6
      BY <3>1 DEF Erasing
    <3> HIDE DEF q, r
    <3>6. c \in q.left
      BY <3>1, <3>4, <3>5
    <3>7. /\ r.left \subseteq r.erased
          /\ r.searched > 0 => \E d \in r.left : r.now = {d}
      BY <3>2, <3>3, <3>4, <3>6
    <3>8. QED
      BY <3>7 DEF r
  <2>4. QED
    BY <1>7, <2>1, <2>2, <2>3, ErasureAfter
<1> HIDE DEF Went, Came
<1>8. QED
  BY <1>1, <1>4, <1>5, <1>6, <1>7 DEF Numbered

\* The tables once more: those that carry the address come before those that
\* belong to them.
LEMMA TableOrder ==
  /\ \A n \in 1 .. 6 : Searched[n].parent = Above(Searched[n].table)
  /\ \A n \in 1 .. 6 : Searched[n].parent # "none" =>
       \E m \in 1 .. 6 : /\ m < n /\ Searched[m].table = Searched[n].parent
                         /\ Searched[m].parent = "none"
  /\ \A n, m \in 1 .. 6 : n <= m => Searched[n].parent # Searched[m].table
  /\ \A table \in Tables \ {"slot"} : \E n \in 1 .. 6 : Searched[n].table = table
  /\ Searched[1].table = "resume" /\ Searched[1].parent = "none"
<1>1. /\ Searched[1] = [table |-> "resume", parent |-> "none"]
      /\ Searched[2] = [table |-> "invite", parent |-> "none"]
      /\ Searched[3] = [table |-> "response", parent |-> "invite"]
      /\ Searched[4] = [table |-> "session", parent |-> "none"]
      /\ Searched[5] = [table |-> "work", parent |-> "session"]
      /\ Searched[6] = [table |-> "evaluation", parent |-> "resume"]
  BY DEF Searched
<1>2. /\ Searched[1].table = "resume" /\ Searched[1].parent = "none"
      /\ Searched[2].table = "invite" /\ Searched[2].parent = "none"
      /\ Searched[3].table = "response" /\ Searched[3].parent = "invite"
      /\ Searched[4].table = "session" /\ Searched[4].parent = "none"
      /\ Searched[5].table = "work" /\ Searched[5].parent = "session"
      /\ Searched[6].table = "evaluation" /\ Searched[6].parent = "resume"
  BY <1>1
<1>3. \A n \in 1 .. 6 : n = 1 \/ n = 2 \/ n = 3 \/ n = 4 \/ n = 5 \/ n = 6
  OBVIOUS
<1>4. 1 \in 1 .. 6 /\ 2 \in 1 .. 6 /\ 3 \in 1 .. 6 /\ 4 \in 1 .. 6 /\ 5 \in 1 .. 6 /\ 6 \in 1 .. 6
  OBVIOUS
<1>5. \A n \in 1 .. 6 : Searched[n].parent = Above(Searched[n].table)
  BY <1>2, <1>3 DEF Above
<1>6. \A n \in 1 .. 6 : Searched[n].parent # "none" =>
        \E m \in 1 .. 6 : /\ m < n /\ Searched[m].table = Searched[n].parent
                          /\ Searched[m].parent = "none"
  BY <1>2, <1>3, <1>4
<1>7. \A n, m \in 1 .. 6 : n <= m => Searched[n].parent # Searched[m].table
  BY <1>2, <1>3
<1>8. \A table \in Tables \ {"slot"} : \E n \in 1 .. 6 : Searched[n].table = table
  BY <1>2, <1>4, SixTables
<1>9. QED
  BY <1>2, <1>5, <1>6, <1>7, <1>8

-----------------------------------------------------------------------------
(* Nothing is missed.                                                      *)

\* An erasure in progress has looked for candidate c into the n-th table.
LookedAt(q, c, n) ==
  /\ c \in q.erased
  /\ c \in q.left => q.now = {c} /\ n <= q.searched

\* What it has then found among the rows rs: all that were there when it
\* began, but those whose parent has lost its address.
FoundIn(rs, q, c, n) ==
  \A k \in DOMAIN rs :
    (/\ rs[k].table = Searched[n].table /\ rs[k].owner = c
     /\ rs[k].personal /\ rs[k].written < q.begun)
      => \/ k \in q.found
         \/ /\ Searched[n].parent # "none"
            /\ rs[k].parent \notin q.found
            /\ ~ rs[rs[k].parent].personal

SearchInv ==
  /\ NothingIsMissed
  /\ \A i \in Slots : request[i].op = "erase" =>
       \A c \in Candidates, n \in 1 .. 6 :
         LookedAt(request[i], c, n) => FoundIn(rows, request[i], c, n)

\* The row that a row belongs to, whose content is only written once.
LEMMA ParentOf ==
  ASSUME TypeInv, Linked, NEW k \in DOMAIN rows, Above(rows[k].table) # "none"
  PROVE  /\ rows[k].parent \in DOMAIN rows
         /\ rows[rows[k].parent].table = Above(rows[k].table)
         /\ rows[rows[k].parent].table # "response"
         /\ rows[rows[k].parent].owner = rows[k].owner
         /\ rows[rows[k].parent].written <= rows[k].written
         /\ rows[rows[k].parent].written \in Nat /\ rows[k].written \in Nat
<1> DEFINE p == rows[k].parent
<1>1. /\ p \in 1 .. k - 1 /\ rows[p].table = Above(rows[k].table)
      /\ rows[p].owner = rows[k].owner /\ rows[p].written <= rows[k].written
  BY DEF Linked
<1>2. p \in DOMAIN rows
  BY <1>1 DEF TypeInv
<1>3. rows[p] \in RowTypes /\ rows[k] \in RowTypes
  BY <1>2 DEF TypeInv
<1>4. rows[p].written \in Nat /\ rows[k].written \in Nat
  BY <1>3 DEF RowTypes
<1>5. rows[p].table # "response"
  BY <1>1 DEF Above
<1>6. QED
  BY <1>1, <1>2, <1>4, <1>5

\* Personal content that is older than an erasure was there before the step.
LEMMA OldRows ==
  ASSUME TypeInv, Dated, Linked, Move, NEW b \in 1 .. clock, NEW k \in DOMAIN rows',
         rows'[k].personal, rows'[k].written < b
  PROVE  /\ k \in DOMAIN rows /\ Kept(k)
         /\ rows[k].personal /\ rows[k].written = rows'[k].written
         /\ rows[k].table = rows'[k].table /\ rows[k].owner = rows'[k].owner
         /\ rows[k].parent = rows'[k].parent
<1>0. clock \in Nat /\ (clock' = clock \/ clock' = clock + 1)
  BY RowsKept
<1>1. k \in DOMAIN rows
  <2>1. ASSUME k \notin DOMAIN rows PROVE FALSE
    <3>1. rows'[k].written = clock
      BY <2>1, RowsKept DEF Inserted
    <3>2. QED
      BY <1>0, <3>1
  <2>2. QED
    BY <2>1
<1>2. Kept(k)
  BY <1>1, RowsKept
<1>3. rows'[k].written # clock'
  BY <1>0
<1>4. QED
  BY <1>1, <1>2, <1>3 DEF Kept

\* What an erasure has found stays all that is to be found.
LEMMA FoundKept ==
  ASSUME TypeInv, Dated, Linked, Move, NEW q, q.begun \in 1 .. clock,
         NEW c, NEW n \in 1 .. 6, FoundIn(rows, q, c, n)
  PROVE  FoundIn(rows', q, c, n)
<1> SUFFICES ASSUME NEW k \in DOMAIN rows', rows'[k].table = Searched[n].table,
                    rows'[k].owner = c, rows'[k].personal, rows'[k].written < q.begun,
                    k \notin q.found
             PROVE  /\ Searched[n].parent # "none"
                    /\ rows'[k].parent \notin q.found
                    /\ ~ rows'[rows'[k].parent].personal
  BY DEF FoundIn
<1>1. /\ k \in DOMAIN rows /\ Kept(k)
      /\ rows[k].personal /\ rows[k].written = rows'[k].written
      /\ rows[k].table = rows'[k].table /\ rows[k].owner = rows'[k].owner
      /\ rows[k].parent = rows'[k].parent
  BY OldRows
<1>2. /\ Searched[n].parent # "none" /\ rows[k].parent \notin q.found
      /\ ~ rows[rows[k].parent].personal
  BY <1>1 DEF FoundIn
<1>3. Above(rows[k].table) # "none"
  BY <1>1, <1>2, TableOrder
<1>4. /\ rows[k].parent \in DOMAIN rows /\ rows[rows[k].parent].table # "response"
  BY <1>1, <1>3, ParentOf
<1>5. ~ rows'[rows[k].parent].personal
  BY <1>2, <1>4, RowsKept DEF Kept
<1>6. QED
  BY <1>1, <1>2, <1>5

\* A search finds all that is to be found in the table it looks into, and in
\* those that it skips.
LEMMA LookedFindsAll ==
  ASSUME TypeInv, Linked, Numbered, NEW i \in Slots, NEW d \in Candidates, NEW m \in 1 .. 6,
         Looks(i, d, m),
         \A c \in Candidates, n \in 1 .. 6 :
           LookedAt(request[i], c, n) => FoundIn(rows, request[i], c, n),
         NEW c \in Candidates, NEW n \in 1 .. 6, LookedAt(Looked(request[i], d, m), c, n)
  PROVE  FoundIn(rows, Looked(request[i], d, m), c, n)
<1> DEFINE q == request[i]
           r == Looked(q, d, m)
           P(k, t) == /\ k \in DOMAIN rows /\ rows[k].table = Searched[t].table
                      /\ rows[k].owner = c /\ rows[k].personal /\ rows[k].written < q.begun
<1>1. /\ q \in Erasing /\ q.op = "erase" /\ m > q.searched /\ ~ Skipped(m, q, d)
      /\ d \in IF q.searched = 0 THEN q.left ELSE q.now
      /\ \A t \in q.searched + 1 .. m - 1 : Skipped(t, q, d)
  BY DEF Looks
<1>2. r.begun = q.begun /\ r.erased = q.erased
  BY <1>1, LookedStays
<1>3. /\ r.found = q.found \union Hits(q, d, m) /\ r.now = {d}
      /\ Last(q, d, m) => r.searched = 0 /\ r.left = q.left \ {d}
      /\ ~ Last(q, d, m) => r.searched = m /\ r.left = q.left
  BY <1>1, LookedFinds
<1>4. q.searched \in 0 .. 6 /\ (q.searched > 0 => \E x \in q.left : q.now = {x})
  BY <1>1 DEF Numbered, Erasing
<1>5. \A t \in m + 1 .. 6 : Last(q, d, m) =>
        /\ Searched[t].parent # "none"
        /\ \A k \in r.found : rows[k].table # Searched[t].parent \/ rows[k].owner # d
  <2>1. Len(Searched) = 6
    BY DEF Searched
  <2>2. ASSUME Last(q, d, m), NEW t \in m + 1 .. 6
        PROVE  Skipped(t, [q EXCEPT !.found = q.found \union Hits(q, d, m)], d)
    BY <2>1, <2>2 DEF Last
  <2>3. [q EXCEPT !.found = q.found \union Hits(q, d, m)].found = r.found
    BY <1>1, <1>3 DEF Erasing
  <2>4. QED
    BY <2>2, <2>3 DEF Skipped
<1>6. \A t \in q.searched + 1 .. m - 1 :
        /\ Searched[t].parent # "none"
        /\ \A k \in q.found : rows[k].table # Searched[t].parent \/ rows[k].owner # d
  BY <1>1 DEF Skipped
<1>7. \A k \in Hits(q, d, m) :
        rows[k].personal /\ rows[k].table = Searched[m].table /\ rows[k].owner = d
  BY DEF Hits, Addressed, RowsOf
<1> HIDE DEF q, r
<1>8. ASSUME NEW k, NEW t \in 1 .. 6, LookedAt(q, c, t), P(k, t), k \notin r.found
      PROVE  /\ Searched[t].parent # "none" /\ rows[k].parent \notin r.found
             /\ ~ rows[rows[k].parent].personal
  <2>1. FoundIn(rows, q, c, t)
    BY <1>8 DEF q
  <2>2. k \notin q.found
    BY <1>3, <1>8
  <2>3. /\ Searched[t].parent # "none" /\ rows[k].parent \notin q.found
        /\ ~ rows[rows[k].parent].personal
    BY <1>8, <2>1, <2>2 DEF FoundIn
  <2>4. QED
    BY <1>3, <1>7, <2>3
<1>9. ASSUME LookedAt(q, c, n) PROVE FoundIn(rows, r, c, n)
  BY <1>2, <1>8, <1>9 DEF FoundIn
<1>10. ASSUME ~ LookedAt(q, c, n) PROVE FoundIn(rows, r, c, n)
  <2>1. c = d /\ (n <= m \/ Last(q, d, m)) /\ n > q.searched /\ c \in q.left
    <3>1. c \in q.erased /\ (c \in r.left => r.now = {c} /\ n <= r.searched)
      BY <1>2 DEF LookedAt, r, q
    <3>2. c \in q.left /\ ~ (q.now = {c} /\ n <= q.searched)
      BY <1>10, <3>1 DEF LookedAt
    <3>3. c = d /\ (n <= m \/ Last(q, d, m))
      BY <1>3, <3>1, <3>2
    <3>4. q.searched > 0 => q.now = {c}
      BY <1>1, <1>4, <3>3
    <3>5. n > q.searched
      BY <1>4, <3>2, <3>4
    <3>6. QED
      BY <3>2, <3>3, <3>5
  <2>2. \A t \in 1 .. 6 : t <= q.searched => LookedAt(q, c, t)
    <3>1. q.searched > 0 => q.now = {c}
      BY <1>1, <1>4, <2>1
    <3>2. c \in q.erased
      BY <1>1, <2>1 DEF Numbered, q
    <3>3. QED
      BY <1>4, <3>1, <3>2 DEF LookedAt
  <2>3. ASSUME NEW t \in 1 .. 6, t <= n, Searched[t].parent = "none", NEW k, P(k, t)
        PROVE  k \in r.found /\ t <= m /\ (t < m => k \in q.found)
    <3>1. t <= q.searched \/ t = m
      <4>1. t \in q.searched + 1 .. m - 1 => FALSE
        BY <1>6, <2>3
      <4>2. t \in m + 1 .. 6 => FALSE
        BY <1>5, <2>1, <2>3
      <4>3. QED
        BY <1>4, <4>1, <4>2
    <3>2. CASE t <= q.searched
      <4>1. FoundIn(rows, q, c, t)
        BY <2>2, <3>2 DEF q
      <4>2. k \in q.found
        BY <2>3, <4>1 DEF FoundIn
      <4>3. t < m
        BY <1>1, <1>4, <3>2
      <4>4. QED
        BY <1>3, <4>2, <4>3
    <3>3. CASE t = m
      <4>1. k \in Hits(q, d, m)
        BY <2>1, <2>3, <3>3 DEF Hits, Addressed, RowsOf
      <4>2. QED
        BY <1>3, <3>3, <4>1
    <3>4. QED
      BY <3>1, <3>2, <3>3
  <2>4. ASSUME NEW k, P(k, n), k \notin r.found
        PROVE  /\ Searched[n].parent # "none" /\ rows[k].parent \notin r.found
               /\ ~ rows[rows[k].parent].personal
    <3> DEFINE p == rows[k].parent
    <3>1. Searched[n].parent # "none"
      BY <2>3, <2>4
    <3>2. Above(rows[k].table) = Searched[n].parent
      BY <2>4, TableOrder
    <3>3. /\ p \in DOMAIN rows /\ rows[p].table = Searched[n].parent
          /\ rows[p].owner = c /\ rows[p].written <= rows[k].written
          /\ rows[p].written \in Nat /\ rows[k].written \in Nat
      BY <2>4, <3>1, <3>2, ParentOf
    <3>4. PICK t \in 1 .. 6 : /\ t < n /\ Searched[t].table = Searched[n].parent
                              /\ Searched[t].parent = "none"
      BY <3>1, TableOrder
    <3> HIDE DEF p
    <3>5. rows[p].personal => P(p, t)
      <4>1. q.begun \in Nat /\ rows[k].written < q.begun
        BY <1>1, <2>4 DEF Erasing
      <4>2. QED
        BY <3>3, <3>4, <4>1
    <3>6. p \notin r.found
      <4>1. CASE n > m
        <5>1. n \in m + 1 .. 6 /\ Last(q, d, m)
          BY <2>1, <4>1
        <5>2. QED
          BY <1>5, <2>1, <3>3, <5>1
      <4>2. CASE n <= m
        <5>1. rows[p].table # Searched[m].table
          BY <3>3, <4>2, TableOrder
        <5>2. p \notin Hits(q, d, m)
          BY <1>7, <5>1
        <5>3. CASE n < m
          <6>1. n \in q.searched + 1 .. m - 1
            BY <1>4, <2>1, <5>3
          <6>2. p \notin q.found
            BY <1>6, <2>1, <3>3, <6>1
          <6>3. QED
            BY <1>3, <5>2, <6>2
        <5>4. CASE n = m
          <6>1. p \in q.found => k \in Hits(q, d, m)
            BY <2>1, <2>4, <5>4 DEF Hits, Addressed, RowsOf, p
          <6>2. QED
            BY <1>3, <2>4, <5>2, <6>1
        <5>5. QED
          BY <4>2, <5>3, <5>4
      <4>3. QED
        BY <4>1, <4>2
    <3>7. ~ rows[p].personal
      <4>1. t <= n
        BY <3>4
      <4>2. QED
        BY <2>3, <3>4, <3>5, <3>6, <4>1
    <3>8. QED
      BY <3>1, <3>6, <3>7 DEF p
  <2>5. QED
    BY <1>2, <2>4 DEF FoundIn
<1>11. QED
  BY <1>9, <1>10 DEF r, q

\* The row whose address leads to one that belongs to another.
LEMMA RootOfChild ==
  ASSUME NEW rs, NEW k, Above(rs[k].table) # "none"
  PROVE  rs[k].table \in {"response", "work", "evaluation"}
BY DEF Above

\* Every step keeps what erasures have found and what they have missed.
LEMMA SearchStep ==
  ASSUME TypeInv, Dated, Linked, Numbered, SearchInv, Move
  PROVE  SearchInv'
<1>1. ASSUME NEW i \in Slots, request'[i].op = "erase", NEW c \in Candidates,
             NEW n \in 1 .. 6, LookedAt(request'[i], c, n)
      PROVE  FoundIn(rows', request'[i], c, n)
  <2>1. CASE request[i].op = "erase" /\ request'[i] = request[i]
    <3>1. FoundIn(rows, request[i], c, n)
      BY <1>1, <2>1 DEF SearchInv
    <3>2. request[i].begun \in 1 .. clock
      BY <2>1 DEF Dated
    <3>3. FoundIn(rows', request[i], c, n)
      BY <3>1, <3>2, FoundKept
    <3>4. QED
      BY <2>1, <3>3
  <2>2. ASSUME NEW d \in Candidates, NEW m \in 1 .. 6, Looks(i, d, m),
               request'[i] = Looked(request[i], d, m)
        PROVE  FoundIn(rows', request'[i], c, n)
    <3>1. request[i].op = "erase" /\ rows' = rows
      BY <2>2 DEF Looks
    <3>2. \A x \in Candidates, t \in 1 .. 6 :
            LookedAt(request[i], x, t) => FoundIn(rows, request[i], x, t)
      BY <3>1 DEF SearchInv
    <3>3. FoundIn(rows, Looked(request[i], d, m), c, n)
      BY <1>1, <2>2, <3>2, LookedFindsAll
    <3>4. QED
      BY <2>2, <3>1, <3>3
  <2>3. CASE rows' = rows /\ Starts(request'[i])
    <3> DEFINE q == request'[i]
    <3>1. c \in q.erased /\ (c \in q.left => q.now = {c} /\ n <= q.searched)
      BY <1>1 DEF LookedAt
    <3>2. q.left = q.erased
      BY <2>3 DEF Starts
    <3>3. CASE q.searched = 0
      BY <3>1, <3>2, <3>3
    <3>4. CASE /\ q.searched = 1
               /\ \E d \in Candidates : q.erased = {d} /\ q.found = Addressed("resume", d)
      <4>1. n = 1 /\ q.found = Addressed("resume", c)
        BY <3>1, <3>2, <3>4
      <4>2. Searched[n].table = "resume"
        BY <4>1, TableOrder
      <4>3. \A k \in DOMAIN rows :
              (rows[k].table = "resume" /\ rows[k].owner = c /\ rows[k].personal) => k \in q.found
        BY <4>1 DEF Addressed, RowsOf
      <4> HIDE DEF q
      <4>4. FoundIn(rows, q, c, n)
        BY <4>2, <4>3 DEF FoundIn
      <4>5. QED
        BY <2>3, <4>4 DEF q
    <3>5. QED
      BY <2>3, <3>3, <3>4 DEF Starts
  <2>4. QED
    BY <1>1, <2>1, <2>2, <2>3, ErasureAfter
<1>2. ASSUME NEW k \in DOMAIN rows', NEW e \in erasures',
             rows'[k].personal, rows'[k].table # "slot", rows'[k].owner = e.owner,
             rows'[k].written < e.begun
      PROVE  /\ Above(rows'[k].table) # "none"
             /\ ~ rows'[rows'[k].parent].personal
             /\ rows'[rows'[k].parent].erasedBy # e.begun
  <2>1. CASE e \in erasures
    <3>1. e.begun \in 1 .. clock
      BY <2>1 DEF Dated
    <3>2. /\ k \in DOMAIN rows /\ Kept(k)
          /\ rows[k].personal /\ rows[k].written = rows'[k].written
          /\ rows[k].table = rows'[k].table /\ rows[k].owner = rows'[k].owner
          /\ rows[k].parent = rows'[k].parent
      BY <1>2, <3>1, OldRows
    <3>3. ~ rows[RootOf(k)].personal /\ rows[RootOf(k)].erasedBy # e.begun
      BY <1>2, <2>1, <3>2 DEF SearchInv, NothingIsMissed
    <3>4. RootOf(k) = rows[k].parent /\ Above(rows[k].table) # "none"
      BY <3>2, <3>3 DEF RootOf, Above
    <3>5. /\ rows[k].parent \in DOMAIN rows
          /\ rows[rows[k].parent].table # "response"
      BY <3>2, <3>4, ParentOf
    <3> DEFINE p == rows[k].parent
    <3>6. Kept(p)
      BY <3>5, RowsKept
    <3>7. \A j \in Slots : Erase(j) => request[j].begun # e.begun
      BY <2>1 DEF Numbered, Erase
    <3>8. ~ rows'[p].personal /\ rows'[p].erasedBy # e.begun
      BY <3>3, <3>4, <3>5, <3>6, <3>7 DEF Kept
    <3>9. QED
      BY <3>2, <3>4, <3>8
  <2>2. CASE e \notin erasures
    <3>1. PICK j \in Slots : Erase(j)
      BY <2>2 DEF Move, Inserted, Begun, Saved, Search, vars
    <3> DEFINE q == request[j]
    <3>2. /\ q.op = "erase" /\ q \in Erasing /\ q.left = {}
          /\ erasures' = erasures \union {[owner |-> c, begun |-> q.begun] : c \in q.erased}
          /\ DOMAIN rows' = DOMAIN rows
          /\ \A l \in DOMAIN rows :
               rows'[l] = IF l \in q.found THEN Redacted(l, q) ELSE rows[l]
      BY <3>1, Redacts
    <3>3. \A l \in DOMAIN rows : l \in q.found => ~ rows'[l].personal
      <4>1. \A l \in DOMAIN rows : rows[l] \in RowTypes
        BY DEF TypeInv
      <4>2. QED
        BY <3>2, <4>1 DEF Redacted, RowTypes
    <3>4. k \in DOMAIN rows /\ k \notin q.found /\ rows'[k] = rows[k]
      BY <1>2, <3>2, <3>3
    <3>5. e.owner \in q.erased /\ e.begun = q.begun /\ e.owner \in Candidates
      BY <2>2, <3>2 DEF Erasing
    <3>6. rows[k].table \in Tables \ {"slot"}
      <4>1. rows[k] \in RowTypes
        BY <3>4 DEF TypeInv
      <4>2. QED
        BY <1>2, <3>4, <4>1 DEF RowTypes
    <3>7. PICK n \in 1 .. 6 : Searched[n].table = rows[k].table
      BY <3>6, TableOrder
    <3>8. LookedAt(q, e.owner, n)
      BY <3>2, <3>5 DEF LookedAt
    <3>9. FoundIn(rows, q, e.owner, n)
      BY <3>2, <3>5, <3>8 DEF SearchInv
    <3> HIDE DEF q
    <3>10. /\ Searched[n].parent # "none" /\ rows[k].parent \notin q.found
           /\ ~ rows[rows[k].parent].personal
      BY <1>2, <3>4, <3>5, <3>7, <3>9 DEF FoundIn
    <3>11. Above(rows[k].table) # "none"
      BY <3>7, <3>10, TableOrder
    <3>12. rows[k].parent \in DOMAIN rows
      BY <3>4, <3>11, ParentOf
    <3>13. rows'[rows[k].parent] = rows[rows[k].parent]
      BY <3>2, <3>10, <3>12
    <3>14. rows[rows[k].parent].erasedBy # q.begun
      BY <3>2, <3>12 DEF Numbered, q
    <3>15. QED
      BY <3>4, <3>5, <3>10, <3>11, <3>13, <3>14
  <2>3. QED
    BY <2>1, <2>2
<1>3. NothingIsMissed'
  <2>1. \A k \in DOMAIN rows' : Above(rows'[k].table) # "none" => RootOf(k)' = rows'[k].parent
    BY RootOfChild DEF RootOf
  <2>2. QED
    BY <1>2, <2>1 DEF NothingIsMissed
<1>4. QED
  BY <1>1, <1>3 DEF SearchInv

-----------------------------------------------------------------------------
(* Retention.                                                              *)

\* Among the rows rs, the resumes a run of retention is to consider.
Considered(rs, s) ==
  {k \in DOMAIN rs : /\ rs[k].table = "resume"
                     /\ rs[k].written < s.begun /\ rs[k].created_at < s.cutoff}

\* Everyone it has chosen has such a resume.
Chosen(rs, s) == \A c \in s.erased : \E k \in Considered(rs, s) : rs[k].owner = c

\* It has left out resume k because enough others have one at least as old.
LeftOut(rs, s, k) ==
  /\ Cardinality(s.erased) = MaxCandidates
  /\ \A c \in s.erased : \E l \in Considered(rs, s) :
       rs[l].owner = c /\ rs[l].created_at <= rs[k].created_at

SweepInv ==
  /\ \A s \in sweeps :
       /\ Chosen(rows, s)
       /\ \A k \in Considered(rows, s) : rows[k].personal => LeftOut(rows, s, k)
  /\ \A i \in Slots : (request[i].op = "erase" /\ request[i].kind = "retention") =>
       /\ Chosen(rows, request[i])
       /\ \A k \in Considered(rows, request[i]) :
            (rows[k].personal /\ rows[k].owner \notin request[i].erased)
              => LeftOut(rows, request[i], k)

\* A run considers the same resumes for as long as it takes, and after.
LEMMA ConsideredKept ==
  ASSUME TypeInv, Dated, Linked, Move, NEW s, s.begun \in 1 .. clock
  PROVE  /\ Considered(rows', s) = Considered(rows, s)
         /\ Chosen(rows, s) => Chosen(rows', s)
         /\ \A k \in Considered(rows, s) :
              /\ LeftOut(rows, s, k) => LeftOut(rows', s, k)
              /\ rows'[k].personal => rows[k].personal
              /\ rows'[k].owner = rows[k].owner
<1>0. clock \in Nat
  BY DEF TypeInv
<1>1. \A k \in DOMAIN rows : rows[k].table = "resume" =>
        /\ k \in DOMAIN rows' /\ rows'[k].table = "resume"
        /\ rows'[k].written = rows[k].written /\ rows'[k].created_at = rows[k].created_at
        /\ rows'[k].owner = rows[k].owner /\ (rows'[k].personal => rows[k].personal)
  BY RowsKept DEF Kept
<1>2. \A k \in DOMAIN rows' : rows'[k].written < s.begun => k \in DOMAIN rows
  <2>1. \A k \in DOMAIN rows' : k \in DOMAIN rows \/ rows'[k].written = clock
    BY RowsKept DEF Inserted
  <2>2. QED
    BY <1>0, <2>1
<1>3. \A k \in DOMAIN rows : rows'[k].table = rows[k].table
  BY RowsKept DEF Kept
<1>4. Considered(rows', s) = Considered(rows, s)
  BY <1>1, <1>2, <1>3 DEF Considered
<1>5. \A k \in Considered(rows, s) :
        /\ rows'[k].owner = rows[k].owner /\ rows'[k].created_at = rows[k].created_at
        /\ rows'[k].personal => rows[k].personal
  BY <1>1 DEF Considered
<1>6. QED
  BY <1>4, <1>5 DEF Chosen, LeftOut

\* A run begins with the candidates whose oldest resume comes first.
LEMMA StartChooses ==
  ASSUME TypeInv, Dated, NEW s, s.begun = clock + 1, s.erased \in Eligible(s.cutoff)
  PROVE  /\ Chosen(rows, s)
         /\ \A k \in Considered(rows, s) :
              (rows[k].personal /\ rows[k].owner \notin s.erased) => LeftOut(rows, s, k)
<1> DEFINE old == Old(s.cutoff)
           owners == {rows[k].owner : k \in old}
           ahead(c, d) == \E k \in old : /\ rows[k].owner = c
                                         /\ \A l \in old : rows[l].owner = d =>
                                              rows[k].created_at < rows[l].created_at
<1>1. /\ s.erased \subseteq owners
      /\ s.erased = owners \/ Cardinality(s.erased) = MaxCandidates
      /\ \A c \in owners \ s.erased, d \in s.erased : ~ ahead(c, d)
  BY DEF Eligible
<1>2. \A k \in DOMAIN rows : /\ rows[k].written < s.begun
                             /\ rows[k].created_at \in Nat
  <2>1. \A k \in DOMAIN rows : rows[k] \in RowTypes
    BY DEF TypeInv
  <2>2. QED
    BY <2>1 DEF Dated, RowTypes, TypeInv
<1>3. \A k : k \in old <=> k \in Considered(rows, s) /\ rows[k].personal
  BY <1>2 DEF Old, RowsOf, Considered
<1>4. Chosen(rows, s)
  BY <1>1, <1>3 DEF Chosen
<1>5. ASSUME NEW k \in Considered(rows, s), rows[k].personal, rows[k].owner \notin s.erased
      PROVE  LeftOut(rows, s, k)
  <2>1. k \in old
    BY <1>3, <1>5
  <2>2. rows[k].owner \in owners \ s.erased
    BY <1>5, <2>1
  <2>3. Cardinality(s.erased) = MaxCandidates
    BY <1>1, <2>2
  <2>4. ASSUME NEW c \in s.erased
        PROVE  \E l \in Considered(rows, s) :
                 rows[l].owner = c /\ rows[l].created_at <= rows[k].created_at
    <3>1. ~ ahead(rows[k].owner, c)
      BY <1>1, <2>2
    <3>2. PICK l \in old : rows[l].owner = c /\ ~ (rows[k].created_at < rows[l].created_at)
      BY <2>1, <3>1
    <3>3. l \in DOMAIN rows /\ k \in DOMAIN rows /\ l \in Considered(rows, s)
      BY <1>3, <3>2 DEF Considered
    <3>4. rows[l].created_at <= rows[k].created_at
      BY <1>2, <3>2, <3>3
    <3>5. QED
      BY <3>2, <3>3, <3>4
  <2>5. QED
    BY <2>3, <2>4 DEF LeftOut
<1>6. QED
  BY <1>4, <1>5

\* Every step keeps runs of retention to the oldest.
LEMMA SweepStep ==
  ASSUME TypeInv, Dated, Linked, Numbered, SearchInv, SweepInv, Move
  PROVE  SweepInv'
<1>1. ASSUME NEW s \in sweeps'
      PROVE  /\ Chosen(rows', s)
             /\ \A k \in Considered(rows', s) : rows'[k].personal => LeftOut(rows', s, k)
  <2>1. CASE s \in sweeps
    <3>1. /\ s.begun \in 1 .. clock /\ Chosen(rows, s)
          /\ \A k \in Considered(rows, s) : rows[k].personal => LeftOut(rows, s, k)
      BY <2>1 DEF Dated, SweepInv
    <3>2. QED
      BY <3>1, ConsideredKept
  <2>2. CASE s \notin sweeps
    <3>1. PICK i \in Slots : Erase(i)
      BY <2>2 DEF Move, Inserted, Begun, Saved, Search, vars
    <3> DEFINE q == request[i]
    <3>2. /\ q.op = "erase" /\ q \in Erasing /\ q.left = {}
          /\ sweeps' = IF q.kind = "request" THEN sweeps
                       ELSE sweeps \union {[begun |-> q.begun, cutoff |-> q.cutoff,
                                            erased |-> q.erased]}
          /\ \A l \in DOMAIN rows :
               rows'[l] = IF l \in q.found THEN Redacted(l, q) ELSE rows[l]
      BY <3>1, Redacts
    <3>3. /\ q.kind = "retention" /\ s.begun = q.begun /\ s.cutoff = q.cutoff
          /\ s.erased = q.erased /\ q.begun \in 1 .. clock
      <4>1. q.kind \in {"request", "retention"}
        BY <3>2 DEF Erasing
      <4>2. q.begun \in 1 .. clock
        BY <3>2 DEF Dated
      <4>3. QED
        BY <2>2, <3>2, <4>1, <4>2
    <3>4. /\ Chosen(rows, q)
          /\ \A k \in Considered(rows, q) :
               (rows[k].personal /\ rows[k].owner \notin q.erased) => LeftOut(rows, q, k)
      BY <3>2, <3>3 DEF SweepInv
    <3>5. /\ Considered(rows, s) = Considered(rows, q)
          /\ Chosen(rows, s) <=> Chosen(rows, q)
          /\ \A k : LeftOut(rows, s, k) <=> LeftOut(rows, q, k)
      BY <3>3 DEF Considered, Chosen, LeftOut
    <3>6. \A l \in DOMAIN rows : l \in q.found => ~ rows'[l].personal
      <4>1. \A l \in DOMAIN rows : rows[l] \in RowTypes
        BY DEF TypeInv
      <4>2. QED
        BY <3>2, <4>1 DEF Redacted, RowTypes
    <3>7. ASSUME NEW k \in Considered(rows, q), rows'[k].personal, rows[k].personal
          PROVE  rows[k].owner \notin q.erased
      <4>1. k \in DOMAIN rows /\ rows[k].table = "resume" /\ rows[k].written < q.begun
        BY DEF Considered
      <4>2. k \notin q.found
        BY <3>6, <3>7, <4>1
      <4>3. ASSUME rows[k].owner \in q.erased PROVE FALSE
        <5>1. rows[k].owner \in Candidates
          BY <3>2, <4>3 DEF Erasing
        <5>2. LookedAt(q, rows[k].owner, 1)
          BY <3>2, <4>3 DEF LookedAt
        <5>3. FoundIn(rows, q, rows[k].owner, 1)
          BY <3>2, <5>1, <5>2 DEF SearchInv
        <5> HIDE DEF q
        <5>4. QED
          BY <3>7, <4>1, <4>2, <5>3, TableOrder DEF FoundIn
      <4>4. QED
        BY <4>3
    <3>8. /\ Considered(rows', s) = Considered(rows, s)
          /\ Chosen(rows, s) => Chosen(rows', s)
          /\ \A k \in Considered(rows, s) :
              /\ LeftOut(rows, s, k) => LeftOut(rows', s, k)
              /\ rows'[k].personal => rows[k].personal
      BY <3>3, ConsideredKept
    <3> HIDE DEF q
    <3>9. QED
      BY <3>4, <3>5, <3>7, <3>8
  <2>3. QED
    BY <2>1, <2>2
<1>2. ASSUME NEW i \in Slots, request'[i].op = "erase", request'[i].kind = "retention"
      PROVE  /\ Chosen(rows', request'[i])
             /\ \A k \in Considered(rows', request'[i]) :
                  (rows'[k].personal /\ rows'[k].owner \notin request'[i].erased)
                    => LeftOut(rows', request'[i], k)
  <2>1. CASE /\ request[i].op = "erase" /\ request[i].kind = "retention"
             /\ request'[i].begun = request[i].begun
             /\ request'[i].cutoff = request[i].cutoff
             /\ request'[i].erased = request[i].erased
    <3> DEFINE q == request[i]
               r == request'[i]
    <3>1. /\ Chosen(rows, q)
          /\ \A k \in Considered(rows, q) :
               (rows[k].personal /\ rows[k].owner \notin q.erased) => LeftOut(rows, q, k)
      BY <2>1 DEF SweepInv
    <3>2. q.begun \in 1 .. clock
      BY <2>1 DEF Dated
    <3>3. /\ Considered(rows', q) = Considered(rows, q)
          /\ Chosen(rows, q) => Chosen(rows', q)
          /\ \A k \in Considered(rows, q) :
              /\ LeftOut(rows, q, k) => LeftOut(rows', q, k)
              /\ rows'[k].personal => rows[k].personal
              /\ rows'[k].owner = rows[k].owner
      BY <3>2, ConsideredKept
    <3>4. r.begun = q.begun /\ r.cutoff = q.cutoff /\ r.erased = q.erased
      BY <2>1
    <3> HIDE DEF q, r
    <3>5. /\ Considered(rows', r) = Considered(rows', q)
          /\ Chosen(rows', r) <=> Chosen(rows', q)
          /\ \A k : LeftOut(rows', r, k) <=> LeftOut(rows', q, k)
      BY <3>4 DEF Considered, Chosen, LeftOut
    <3>6. /\ Chosen(rows', r)
          /\ \A k \in Considered(rows', r) :
               (rows'[k].personal /\ rows'[k].owner \notin r.erased) => LeftOut(rows', r, k)
      BY <3>1, <3>3, <3>4, <3>5
    <3>7. QED
      BY <3>6 DEF r
  <2>2. CASE rows' = rows /\ Starts(request'[i])
    <3> DEFINE r == request'[i]
    <3>1. r.begun = clock + 1 /\ r.erased \in Eligible(r.cutoff)
      BY <1>2, <2>2 DEF Starts
    <3> HIDE DEF r
    <3>2. /\ Chosen(rows, r)
          /\ \A k \in Considered(rows, r) :
               (rows[k].personal /\ rows[k].owner \notin r.erased) => LeftOut(rows, r, k)
      BY <3>1, StartChooses
    <3>3. QED
      BY <2>2, <3>2 DEF r
  <2>3. ASSUME NEW c \in Candidates, NEW n \in 1 .. 6, Looks(i, c, n),
               request'[i] = Looked(request[i], c, n)
        PROVE  /\ request[i].op = "erase" /\ request[i].kind = "retention"
               /\ request'[i].begun = request[i].begun
               /\ request'[i].cutoff = request[i].cutoff
               /\ request'[i].erased = request[i].erased
    <3>1. request[i] \in Erasing /\ request[i].op = "erase"
      BY <2>3 DEF Looks
    <3>2. QED
      BY <1>2, <2>3, <3>1, LookedStays
  <2>4. QED
    BY <1>2, <2>1, <2>2, <2>3, ErasureAfter
<1>3. QED
  BY <1>1, <1>2 DEF SweepInv

-----------------------------------------------------------------------------
(* The invariant.                                                          *)

ErasureInv == RowsInv /\ Numbered /\ SearchInv /\ SweepInv

\* It holds at the start.
LEMMA ErasureInit == Init => ErasureInv
<1> SUFFICES ASSUME Init PROVE ErasureInv
  OBVIOUS
<1>1. RowsInv
  BY RowsInit
<1>2. Numbered /\ SearchInv /\ SweepInv
  BY DEF Init, Numbered, SearchInv, SweepInv, NothingIsMissed, Idle
<1>3. QED
  BY <1>1, <1>2 DEF ErasureInv

\* Every step keeps it.
LEMMA ErasureStep == ErasureInv /\ [Next]_vars => ErasureInv'
<1> SUFFICES ASSUME ErasureInv, [Next]_vars PROVE ErasureInv'
  OBVIOUS
<1>1. RowsInv /\ Numbered /\ SearchInv /\ SweepInv
  BY DEF ErasureInv
<1>2. RowsInv' /\ Move /\ TypeInv /\ Dated /\ Linked
  BY <1>1, RowsStep DEF RowsInv
<1>3. Numbered' /\ SearchInv' /\ SweepInv'
  BY <1>1, <1>2, NumberedStep, SearchStep, SweepStep
<1>4. QED
  BY <1>2, <1>3 DEF ErasureInv

\* However searches, saves and other erasures overlap, a committed erasure has
\* missed nothing personal that was there when it began, but booked slots and
\* what belongs to rows that an earlier erasure had redacted.
THEOREM ErasuresMissNothing == Spec => []NothingIsMissed
<1>1. ErasureInv => NothingIsMissed
  BY DEF ErasureInv, SearchInv
<1>2. QED
  BY <1>1, ErasureInit, ErasureStep, PTL DEF Spec

\* A run of retention erases only whom the cutoff allows, and leaves those it
\* has no room for only if everyone it erases has a resume at least as old.
THEOREM RetentionTakesTheOldest == Spec => []OldestFirst
<1>1. ErasureInv => OldestFirst
  <2> SUFFICES ASSUME ErasureInv, NEW s \in sweeps
               PROVE  LET old == {k \in RowsOf("resume") :
                                    rows[k].written < s.begun /\ rows[k].created_at < s.cutoff}
                      IN  /\ \A c \in s.erased : \E k \in old : rows[k].owner = c
                          /\ \A k \in old :
                               rows[k].personal =>
                                 /\ Cardinality(s.erased) = MaxCandidates
                                 /\ \A c \in s.erased :
                                      \E l \in old : /\ rows[l].owner = c
                                                     /\ rows[l].created_at <= rows[k].created_at
    BY DEF OldestFirst
  <2>1. /\ Chosen(rows, s)
        /\ \A k \in Considered(rows, s) : rows[k].personal => LeftOut(rows, s, k)
    BY DEF ErasureInv, SweepInv
  <2>2. {k \in RowsOf("resume") :
           rows[k].written < s.begun /\ rows[k].created_at < s.cutoff} = Considered(rows, s)
    BY DEF RowsOf, Considered
  <2>3. QED
    BY <2>1, <2>2 DEF Chosen, LeftOut
<1>2. QED
  BY <1>1, ErasureInit, ErasureStep, PTL DEF Spec
-----------------------------------------------------------------------------
(***************************************************************************)
(* Where the rows come from: the requests of Screening, which upload       *)
(* resumes, post job descriptions and score.  That module has names of its *)
(* own for its state, so it comes as an instance.                          *)
(***************************************************************************)

CONSTANTS Dimensions, JobPosts, Names, Bodies, Titles, Judgements, MaxRequests
VARIABLES stamps, handled

Screen == INSTANCE Screening WITH clock <- stamps, request <- handled

JobRows == [created_at : Nat, posted : Nat, job : JobPosts]

ProfileRows == {Screen!ProfileRow(n, v, b) : n \in Names, v \in Nat, b \in Bodies}

\* What a request carries, by its operation.
Carried(q) ==
  /\ q # Screen!Idle => q.op \in {"describe", "upload", "profile", "update", "delete", "score"}
  /\ q # Screen!Idle => q.created_at \in 1 .. stamps
  /\ q.op = "describe" => q.job \in JobPosts
  /\ q.op = "upload" => q.document \in Documents
  /\ q.op = "profile" => q.row \in ProfileRows
  /\ q.op = "update" => q.version \in Nat /\ q.title \in Titles
  /\ q.op = "score" => q \in [op : {"score"}, created_at : Nat, resume_id : DOMAIN resumes,
                              weight_profile_id : DOMAIN profiles, job : SUBSET JobRows]

ScreenTypes ==
  /\ stamps \in Nat
  /\ requisition \in [title : Titles, version : Nat, removed : BOOLEAN, updates : Nat]
  /\ jobs \subseteq JobRows
  /\ \A j \in jobs : j.created_at <= stamps /\ j.posted <= stamps
  /\ resumes \in Seq({Screen!ResumeRow(d) : d \in Documents})
  /\ profiles \in Seq(ProfileRows)
  /\ \A r \in runs : r.created_at \in 1 .. stamps
  /\ DOMAIN handled = Slots
  /\ \A i \in Slots : Carried(handled[i])

\* The instance's own name for the number of elements.
LEMMA SameCardinality == \A S : Screen!Cardinality(S) = Cardinality(S)
BY DEF Screen!Cardinality, Cardinality, Screen!IsFiniteSet, IsFiniteSet

Count(n) == Cardinality({k \in DOMAIN profiles : profiles[k].name = n})

Beginning(i) ==
  \/ \E j \in JobPosts : Screen!BeginDescribe(i, j)
  \/ \E d \in Documents : Screen!BeginUpload(i, d)
  \/ \E n \in Names, b \in Bodies : Screen!BeginProfile(i, n, b)
  \/ \E t \in Titles : Screen!BeginUpdate(i, t)
  \/ Screen!BeginDelete(i)
  \/ \E r \in DOMAIN resumes, p \in DOMAIN profiles : Screen!BeginScore(i, r, p)

Ending(i) ==
  \/ Screen!Describe(i) \/ Screen!Upload(i) \/ Screen!Profile(i) \/ Screen!Update(i)
  \/ Screen!Delete(i) \/ Screen!Score(i) \/ Screen!Fail(i)

\* A step is of one request, which begins, loads a description or ends.
LEMMA ScreenMoves ==
  ASSUME [Screen!Next]_(Screen!vars)
  PROVE  \/ UNCHANGED Screen!vars
         \/ \E i \in Slots : Beginning(i) \/ Screen!LoadJob(i) \/ Ending(i)
BY DEF Screen!Next, Beginning, Ending

\* Whatever begins takes the next stamp, and the rows stay as they are; a
\* request that finds another one of its kind at work is on record.
LEMMA BeginsAlone ==
  ASSUME DOMAIN handled = Slots, NEW i \in Slots, Beginning(i)
  PROVE  /\ handled[i] = Screen!Idle
         /\ \A q \in Slots \ {i} : handled'[q] = handled[q]
         /\ DOMAIN handled' = Slots
         /\ stamps' = stamps + 1
         /\ handled'[i] # Screen!Idle /\ handled'[i].created_at = stamps + 1
         /\ UNCHANGED <<requisition, jobs, resumes, profiles, runs>>
         /\ overlapped \subseteq overlapped'
         /\ \A op \in {"upload", "profile", "update"} :
              handled'[i].op = op /\ (\E q \in Slots : handled[q].op = op) => op \in overlapped'
         /\ \/ handled'[i].op = "describe" /\ handled'[i].job \in JobPosts
            \/ /\ handled'[i].op = "upload" /\ handled'[i].document \in Documents
               /\ \A k \in DOMAIN resumes :
                    resumes[k].content_hash # handled'[i].document.hash
            \/ /\ handled'[i].op = "profile"
               /\ \E n \in Names, b \in Bodies :
                    handled'[i].row = Screen!ProfileRow(n, Count(n) + 1, b)
            \/ /\ handled'[i].op = "update" /\ handled'[i].title \in Titles
               /\ handled'[i].version = requisition.version + 1
            \/ handled'[i].op = "delete"
            \/ /\ handled'[i].op = "score"
               /\ \E r \in DOMAIN resumes, p \in DOMAIN profiles :
                    handled'[i] = [op |-> "score", created_at |-> stamps + 1, resume_id |-> r,
                                   weight_profile_id |-> p, job |-> {}]
<1> DEFINE Rest(w) ==
      /\ handled[i] = Screen!Idle
      /\ \A q \in Slots \ {i} : handled'[q] = handled[q]
      /\ DOMAIN handled' = Slots
      /\ stamps' = stamps + 1
      /\ handled'[i] = w
      /\ UNCHANGED <<requisition, jobs, resumes, profiles, runs>>
      /\ overlapped \subseteq overlapped'
      /\ \A op \in {"upload", "profile", "update"} :
           w.op = op /\ (\E q \in Slots : handled[q].op = op) => op \in overlapped'
<1>1. CASE \E j \in JobPosts : Screen!BeginDescribe(i, j)
  <2>1. PICK j \in JobPosts : Screen!BeginDescribe(i, j)
    BY <1>1
  <2> DEFINE w == [op |-> "describe", created_at |-> stamps + 1, job |-> j]
  <2>2. Rest(w)
    BY <2>1 DEF Screen!BeginDescribe, Screen!Begin, Screen!InFlight
  <2>3. QED
    BY <2>2 DEF Screen!Idle
<1>2. CASE \E d \in Documents : Screen!BeginUpload(i, d)
  <2>1. PICK d \in Documents : Screen!BeginUpload(i, d)
    BY <1>2
  <2> DEFINE w == [op |-> "upload", created_at |-> stamps + 1, document |-> d]
  <2>2. /\ Rest(w)
        /\ \A k \in DOMAIN resumes : resumes[k].content_hash # d.hash
    BY <2>1 DEF Screen!BeginUpload, Screen!Begin, Screen!InFlight
  <2>3. QED
    BY <2>2 DEF Screen!Idle
<1>3. CASE \E n \in Names, b \in Bodies : Screen!BeginProfile(i, n, b)
  <2>1. PICK n \in Names, b \in Bodies : Screen!BeginProfile(i, n, b)
    BY <1>3
  <2> DEFINE row == Screen!ProfileRow(n, Count(n) + 1, b)
             w == [op |-> "profile", created_at |-> stamps + 1, row |-> row]
  <2>2. Screen!Begin(i, w)
    BY <2>1, SameCardinality DEF Screen!BeginProfile, Count
  <2>3. \E m \in Names, c \in Bodies : row = Screen!ProfileRow(m, Count(m) + 1, c)
    OBVIOUS
  <2> HIDE DEF row
  <2>4. Rest(w)
    BY <2>2 DEF Screen!Begin, Screen!InFlight
  <2>5. QED
    BY <2>3, <2>4 DEF Screen!Idle
<1>4. CASE \E t \in Titles : Screen!BeginUpdate(i, t)
  <2>1. PICK t \in Titles : Screen!BeginUpdate(i, t)
    BY <1>4
  <2> DEFINE w == [op |-> "update", created_at |-> stamps + 1,
                   title |-> t, version |-> requisition.version + 1]
  <2>2. Rest(w)
    BY <2>1 DEF Screen!BeginUpdate, Screen!Begin, Screen!InFlight
  <2>3. QED
    BY <2>2 DEF Screen!Idle
<1>5. CASE Screen!BeginDelete(i)
  <2> DEFINE w == [op |-> "delete", created_at |-> stamps + 1]
  <2>2. Rest(w)
    BY <1>5 DEF Screen!BeginDelete, Screen!Begin, Screen!InFlight
  <2>3. QED
    BY <2>2 DEF Screen!Idle
<1>6. CASE \E r \in DOMAIN resumes, p \in DOMAIN profiles : Screen!BeginScore(i, r, p)
  <2>1. PICK r \in DOMAIN resumes, p \in DOMAIN profiles : Screen!BeginScore(i, r, p)
    BY <1>6
  <2> DEFINE w == [op |-> "score", created_at |-> stamps + 1, resume_id |-> r,
                   weight_profile_id |-> p, job |-> {}]
  <2>2. Rest(w)
    BY <2>1 DEF Screen!BeginScore, Screen!Begin, Screen!InFlight
  <2>3. QED
    BY <2>2 DEF Screen!Idle
<1>7. QED
  BY <1>1, <1>2, <1>3, <1>4, <1>5, <1>6 DEF Beginning

\* A request that ends, or loads a description, leaves the others alone.
LEMMA EndsAlone ==
  ASSUME DOMAIN handled = Slots, NEW i \in Slots, Ending(i) \/ Screen!LoadJob(i)
  PROVE  /\ \A q \in Slots \ {i} : handled'[q] = handled[q]
         /\ DOMAIN handled' = Slots
         /\ UNCHANGED <<stamps, overlapped>>
         /\ Ending(i) => handled'[i] = Screen!Idle
         /\ Ending(i) => handled[i] # Screen!Idle
BY DEF Ending, Screen!Describe, Screen!Upload, Screen!Profile, Screen!Update, Screen!Delete,
       Screen!Score, Screen!Fail, Screen!LoadJob, Screen!Committed, Screen!Idle
-----------------------------------------------------------------------------
(* Types and stamps.                                                       *)

\* Sets of numbers below a bound have a greatest element.
LEMMA GreatestExists ==
  ASSUME NEW bound \in Nat, NEW S \in SUBSET (0 .. bound), S # {}
  PROVE  \E x \in S : \A y \in S : y <= x
<1> DEFINE below == {bound - x : x \in S}
<1>1. below \in SUBSET Nat /\ below # {}
  <2>1. \A x \in S : bound - x \in Nat
    OBVIOUS
  <2>2. QED
    BY <2>1
<1>2. PICK b \in below : \A y \in below : ~ (<<y, b>> \in OpToRel(<, Nat))
  <2> HIDE DEF below
  <2> QED
    BY <1>1, NatLessThanWellFounded, WFMin, Zenon
<1>3. PICK x \in S : b = bound - x
  OBVIOUS
<1>4. \A y \in S : y <= x
  <2> TAKE y \in S
  <2>1. bound - y \in below /\ bound - y \in Nat /\ b \in Nat
    OBVIOUS
  <2>2. ~ (bound - y < b)
    BY <1>2, <2>1 DEF OpToRel
  <2>3. QED
    BY <1>3, <2>2
<1>5. QED
  BY <1>3, <1>4

\* Of rows dated up to now there is a latest.
LEMMA LatestRow ==
  ASSUME stamps \in Nat, NEW rs, rs # {}, \A r \in rs : r.created_at \in 0 .. stamps
  PROVE  /\ Latest(rs) \in rs
         /\ \A r \in rs : r.created_at <= Latest(rs).created_at
<1> DEFINE dates == {r.created_at : r \in rs}
<1>1. dates \in SUBSET (0 .. stamps) /\ dates # {}
  OBVIOUS
<1>2. PICK d \in dates : \A e \in dates : e <= d
  <2> HIDE DEF dates
  <2> QED
    BY <1>1, GreatestExists
<1>3. PICK r \in rs : d = r.created_at
  OBVIOUS
<1>4. \A s \in rs : s.created_at <= r.created_at
  BY <1>2, <1>3
<1>5. QED
  BY <1>3, <1>4 DEF Latest

\* The instance reads the rows as they are read here.
LEMMA SameLatest ==
  /\ \A rs : Screen!Latest(rs) = Latest(rs)
  /\ Screen!LatestJob = LatestJob
BY DEF Screen!Latest, Latest, Screen!LatestJob, LatestJob

\* The rows of the requisition are typed, and stamps are from the past.
LEMMA ScreenTypesInit == Screen!Init => ScreenTypes
<1> SUFFICES ASSUME Screen!Init PROVE ScreenTypes
  OBVIOUS
<1>1. /\ stamps \in Nat
      /\ requisition \in [title : Titles, version : Nat, removed : BOOLEAN, updates : Nat]
      /\ runs = {}
      /\ DOMAIN handled = Slots
      /\ \A i \in Slots : Carried(handled[i])
  BY DEF Screen!Init, Screen!Idle, Carried
<1>2. /\ jobs \subseteq JobRows
      /\ \A j \in jobs : j.created_at <= stamps /\ j.posted <= stamps
  BY DEF Screen!Init, JobRows
<1>3. /\ resumes \in Seq({Screen!ResumeRow(d) : d \in Documents})
      /\ profiles \in Seq(ProfileRows)
  <2>1. CASE resumes = << >> /\ profiles = << >>
    BY <2>1
  <2>2. ASSUME NEW d \in Documents, NEW n \in Names, NEW b \in Bodies,
               resumes = <<Screen!ResumeRow(d)>>, profiles = <<Screen!ProfileRow(n, 1, b)>>
        PROVE  /\ resumes \in Seq({Screen!ResumeRow(e) : e \in Documents})
               /\ profiles \in Seq(ProfileRows)
    <3>1. Screen!ResumeRow(d) \in {Screen!ResumeRow(e) : e \in Documents}
      OBVIOUS
    <3>2. Screen!ProfileRow(n, 1, b) \in ProfileRows
      BY DEF ProfileRows
    <3>3. \A S, x : x \in S => <<x>> \in Seq(S)
      OBVIOUS
    <3>4. QED
      BY <2>2, <3>1, <3>2, <3>3
  <2>3. QED
    BY <2>1, <2>2 DEF Screen!Init
<1>4. QED
  BY <1>1, <1>2, <1>3 DEF ScreenTypes

\* The profiles of a name can be counted.
LEMMA Counted ==
  ASSUME ScreenTypes, NEW n
  PROVE  Count(n) \in Nat
<1>1. DOMAIN profiles = 1 .. Len(profiles) /\ Len(profiles) \in Nat
  BY DEF ScreenTypes
<1>2. IsFiniteSet({k \in DOMAIN profiles : profiles[k].name = n})
  <2>1. IsFiniteSet(1 .. Len(profiles))
    BY <1>1, FS_Interval
  <2>2. QED
    BY <1>1, <2>1, FS_Subset
<1>3. QED
  BY <1>2, FS_CardinalityType DEF Count

\* What a scoring request loads is the latest description, and it keeps it.
LEMMA Loads ==
  ASSUME ScreenTypes, NEW i \in Slots, Screen!LoadJob(i)
  PROVE  /\ UNCHANGED <<stamps, requisition, jobs, resumes, profiles, runs, overlapped>>
         /\ DOMAIN handled' = Slots
         /\ \A q \in Slots \ {i} : handled'[q] = handled[q]
         /\ handled[i].op = "score" /\ handled'[i].op = "score"
         /\ handled'[i].created_at = handled[i].created_at
         /\ handled'[i].job = {LatestJob}
         /\ LatestJob \in jobs
         /\ \A j \in jobs : j.created_at <= LatestJob.created_at
         /\ Carried(handled[i])'
<1>0. /\ stamps \in Nat /\ DOMAIN handled = Slots /\ Carried(handled[i]) /\ jobs \subseteq JobRows
  BY DEF ScreenTypes
<1>1. /\ UNCHANGED <<stamps, requisition, jobs, resumes, profiles, runs, overlapped>>
      /\ handled' = [handled EXCEPT ![i].job = {LatestJob}]
      /\ handled[i].op = "score" /\ jobs # {}
  BY SameLatest DEF Screen!LoadJob
<1>2. \A j \in jobs : j.created_at \in 0 .. stamps
  BY DEF ScreenTypes, JobRows
<1>3. /\ LatestJob \in jobs
      /\ \A j \in jobs : j.created_at <= LatestJob.created_at
  BY <1>0, <1>1, <1>2, LatestRow DEF LatestJob
<1> DEFINE loaded == {LatestJob}
<1>4. loaded \in SUBSET JobRows
  BY <1>0, <1>3
<1> HIDE DEF loaded
<1>5. /\ handled'[i] = [handled[i] EXCEPT !.job = loaded]
      /\ DOMAIN handled' = Slots /\ \A q \in Slots \ {i} : handled'[q] = handled[q]
  BY <1>0, <1>1 DEF loaded
<1>6. /\ handled[i] \in [op : {"score"}, created_at : Nat, resume_id : DOMAIN resumes,
                         weight_profile_id : DOMAIN profiles, job : SUBSET JobRows]
      /\ handled[i].created_at \in 1 .. stamps
  BY <1>0, <1>1 DEF Carried, Screen!Idle
<1>7. /\ handled'[i] \in [op : {"score"}, created_at : Nat, resume_id : DOMAIN resumes,
                          weight_profile_id : DOMAIN profiles, job : SUBSET JobRows]
      /\ handled'[i].created_at = handled[i].created_at
      /\ handled'[i].op = "score" /\ handled'[i].job = loaded
  BY <1>4, <1>5, <1>6
<1>8. Carried(handled[i])'
  BY <1>1, <1>6, <1>7 DEF Carried
<1>9. QED
  BY <1>1, <1>3, <1>5, <1>7, <1>8 DEF loaded

\* Every step keeps the types.
LEMMA ScreenTypesStep ==
  ASSUME ScreenTypes, [Screen!Next]_(Screen!vars)
  PROVE  ScreenTypes'
<1>0. /\ stamps \in Nat /\ DOMAIN handled = Slots
      /\ \A i \in Slots : Carried(handled[i])
  BY DEF ScreenTypes
<1>1. CASE UNCHANGED Screen!vars
  BY <1>1 DEF ScreenTypes, Carried, Screen!vars
<1>2. ASSUME NEW i \in Slots, Beginning(i)
      PROVE  ScreenTypes'
  <2>1. /\ stamps' = stamps + 1 /\ UNCHANGED <<requisition, jobs, resumes, profiles, runs>>
        /\ DOMAIN handled' = Slots
        /\ \A q \in Slots \ {i} : handled'[q] = handled[q]
    BY <1>0, <1>2, BeginsAlone
  <2>2. ASSUME NEW q \in Slots \ {i}
        PROVE  Carried(handled[q])'
    BY <1>0, <2>1 DEF Carried
  <2>3. Carried(handled[i])'
    <3>1. ASSUME NEW n \in Names, NEW b \in Bodies
          PROVE  Screen!ProfileRow(n, Count(n) + 1, b) \in ProfileRows
      <4>1. Count(n) + 1 \in Nat
        BY Counted
      <4> DEFINE next == Count(n) + 1
      <4> HIDE DEF next
      <4>2. Screen!ProfileRow(n, next, b) \in ProfileRows
        BY <4>1 DEF ProfileRows, next
      <4>3. QED
        BY <4>2 DEF next
    <3>2. requisition.version \in Nat
      BY DEF ScreenTypes
    <3>3. QED
      BY <1>0, <1>2, <2>1, <3>1, <3>2, BeginsAlone DEF Carried
  <2>4. /\ \A j \in jobs : j.created_at <= stamps' /\ j.posted <= stamps'
        /\ \A r \in runs : r.created_at \in 1 .. stamps'
        /\ stamps' \in Nat
    BY <1>0, <2>1 DEF ScreenTypes, JobRows
  <2>5. \A q \in Slots : Carried(handled[q])'
    BY <2>2, <2>3
  <2>6. QED
    BY <2>1, <2>4, <2>5 DEF ScreenTypes
<1>3. ASSUME NEW i \in Slots, Screen!LoadJob(i)
      PROVE  ScreenTypes'
  <2>1. /\ UNCHANGED <<stamps, requisition, jobs, resumes, profiles, runs>>
        /\ DOMAIN handled' = Slots
        /\ \A q \in Slots \ {i} : handled'[q] = handled[q]
        /\ Carried(handled[i])'
    BY <1>3, Loads
  <2>2. QED
    BY <1>0, <2>1 DEF ScreenTypes, Carried
<1>4. ASSUME NEW i \in Slots, Ending(i)
      PROVE  ScreenTypes'
  <2>1. /\ \A q \in Slots \ {i} : handled'[q] = handled[q]
        /\ DOMAIN handled' = Slots
        /\ stamps' = stamps
        /\ handled'[i] = Screen!Idle
        /\ handled[i] # Screen!Idle
    BY <1>0, <1>4, EndsAlone
  <2>2. Carried(Screen!Idle)'
    BY DEF Carried, Screen!Idle
  <2>3. ASSUME DOMAIN resumes \subseteq DOMAIN resumes', DOMAIN profiles \subseteq DOMAIN profiles'
        PROVE  \A q \in Slots : Carried(handled[q])'
    <3>1. \A q \in Slots \ {i} : Carried(handled[q])'
      BY <1>0, <2>1, <2>3 DEF Carried
    <3>2. QED
      BY <2>1, <2>2, <3>1
  <2>4. handled[i].created_at \in 1 .. stamps
    BY <1>0, <2>1 DEF Carried
  <2>5. CASE Screen!Describe(i)
    <3>1. /\ UNCHANGED <<requisition, resumes, profiles, runs>>
          /\ jobs' = jobs \union {[created_at |-> handled[i].created_at, posted |-> stamps,
                                  job |-> handled[i].job]}
          /\ handled[i].op = "describe"
      BY <2>5 DEF Screen!Describe, Screen!Committed
    <3>2. handled[i].job \in JobPosts
      BY <1>0, <3>1 DEF Carried
    <3>3. jobs' \subseteq JobRows /\ \A j \in jobs' : j.created_at <= stamps /\ j.posted <= stamps
      BY <1>0, <2>4, <3>1, <3>2 DEF ScreenTypes, JobRows
    <3>4. QED
      BY <2>1, <2>3, <3>1, <3>3 DEF ScreenTypes
  <2>6. CASE Screen!Upload(i)
    <3>1. /\ UNCHANGED <<requisition, jobs, profiles, runs>>
          /\ resumes' = Append(resumes, Screen!ResumeRow(handled[i].document))
          /\ handled[i].op = "upload"
      BY <2>6 DEF Screen!Upload, Screen!Committed
    <3>2. Screen!ResumeRow(handled[i].document) \in {Screen!ResumeRow(d) : d \in Documents}
      BY <1>0, <3>1 DEF Carried
    <3>3. /\ resumes' \in Seq({Screen!ResumeRow(d) : d \in Documents})
          /\ DOMAIN resumes \subseteq DOMAIN resumes'
      BY <3>1, <3>2 DEF ScreenTypes
    <3>4. QED
      BY <2>1, <2>3, <3>1, <3>3 DEF ScreenTypes
  <2>7. CASE Screen!Profile(i)
    <3>1. /\ UNCHANGED <<requisition, jobs, resumes, runs>>
          /\ profiles' = Append(profiles, handled[i].row)
          /\ handled[i].op = "profile"
      BY <2>7 DEF Screen!Profile
    <3>2. handled[i].row \in ProfileRows
      BY <1>0, <3>1 DEF Carried
    <3>3. /\ profiles' \in Seq(ProfileRows)
          /\ DOMAIN profiles \subseteq DOMAIN profiles'
      BY <3>1, <3>2 DEF ScreenTypes
    <3>4. QED
      BY <2>1, <2>3, <3>1, <3>3 DEF ScreenTypes
  <2>8. CASE Screen!Update(i)
    <3>1. /\ UNCHANGED <<jobs, resumes, profiles, runs>>
          /\ requisition' = [requisition EXCEPT !.title = handled[i].title,
                                                !.version = handled[i].version,
                                                !.updates = @ + 1]
          /\ handled[i].op = "update"
      BY <2>8 DEF Screen!Update, Screen!Committed
    <3>2. handled[i].title \in Titles /\ handled[i].version \in Nat
      BY <1>0, <3>1 DEF Carried
    <3>3. requisition' \in [title : Titles, version : Nat, removed : BOOLEAN, updates : Nat]
      <4>1. requisition \in [title : Titles, version : Nat, removed : BOOLEAN, updates : Nat]
        BY DEF ScreenTypes
      <4> DEFINE title == handled[i].title
                 version == handled[i].version
                 updates == requisition.updates + 1
      <4>2. title \in Titles /\ version \in Nat /\ updates \in Nat
        BY <3>2, <4>1
      <4>3. requisition' = [requisition EXCEPT !.title = title, !.version = version,
                                               !.updates = updates]
        BY <3>1
      <4> HIDE DEF title, version, updates
      <4>4. QED
        BY <4>1, <4>2, <4>3
    <3>4. QED
      BY <2>1, <2>3, <3>1, <3>3 DEF ScreenTypes
  <2>9. CASE Screen!Delete(i)
    <3>1. /\ UNCHANGED <<jobs, resumes, profiles, runs>>
          /\ requisition' = [requisition EXCEPT !.removed = TRUE]
      BY <2>9 DEF Screen!Delete
    <3>2. requisition' \in [title : Titles, version : Nat, removed : BOOLEAN, updates : Nat]
      BY <3>1 DEF ScreenTypes
    <3>3. QED
      BY <2>1, <2>3, <3>1, <3>2 DEF ScreenTypes
  <2>10. CASE Screen!Score(i)
    <3>1. UNCHANGED <<requisition, jobs, resumes, profiles>>
      BY <2>10 DEF Screen!Score
    <3>2. \A r \in runs' : r \in runs \/ r.created_at = handled[i].created_at
      BY <2>10 DEF Screen!Score, Screen!ScoringRun
    <3>3. QED
      BY <2>1, <2>3, <2>4, <3>1, <3>2 DEF ScreenTypes
  <2>11. CASE Screen!Fail(i)
    <3>1. UNCHANGED <<requisition, jobs, resumes, profiles, runs>>
      BY <2>11 DEF Screen!Fail
    <3>2. QED
      BY <2>1, <2>3, <3>1 DEF ScreenTypes
  <2>12. QED
    BY <1>4, <2>5, <2>6, <2>7, <2>8, <2>9, <2>10, <2>11 DEF Ending
<1>5. QED
  BY <1>1, <1>2, <1>3, <1>4, ScreenMoves
\* Each table is written by the commit of its own kind of request.
LEMMA Writers ==
  ASSUME ScreenTypes, [Screen!Next]_(Screen!vars)
  PROVE  /\ resumes' = resumes \/ \E i \in Slots : Screen!Upload(i)
         /\ profiles' = profiles \/ \E i \in Slots : Screen!Profile(i)
         /\ \/ requisition'.version = requisition.version
               /\ requisition'.updates = requisition.updates
            \/ \E i \in Slots : Screen!Update(i)
         /\ jobs' = jobs \/ \E i \in Slots : Screen!Describe(i)
         /\ runs' = runs \/ \E i \in Slots : Screen!Score(i)
         /\ overlapped \subseteq overlapped'
<1>0. DOMAIN handled = Slots
  BY DEF ScreenTypes
<1>1. CASE UNCHANGED Screen!vars
  BY <1>1 DEF Screen!vars
<1>2. ASSUME NEW i \in Slots, Beginning(i) \/ Screen!LoadJob(i)
      PROVE  /\ UNCHANGED <<requisition, jobs, resumes, profiles, runs>>
             /\ overlapped \subseteq overlapped'
  BY <1>0, <1>2, BeginsAlone, Loads
<1>3. ASSUME NEW i \in Slots, Ending(i)
      PROVE  /\ resumes' = resumes \/ Screen!Upload(i)
             /\ profiles' = profiles \/ Screen!Profile(i)
             /\ \/ requisition'.version = requisition.version
                   /\ requisition'.updates = requisition.updates
                \/ Screen!Update(i)
             /\ jobs' = jobs \/ Screen!Describe(i)
             /\ runs' = runs \/ Screen!Score(i)
             /\ overlapped \subseteq overlapped'
  <2>1. overlapped' = overlapped
    BY <1>0, <1>3, EndsAlone
  <2>2. CASE Screen!Delete(i)
    <3>1. /\ UNCHANGED <<jobs, resumes, profiles, runs>>
          /\ requisition' = [requisition EXCEPT !.removed = TRUE]
      BY <2>2 DEF Screen!Delete
    <3>2. requisition'.version = requisition.version /\ requisition'.updates = requisition.updates
      BY <3>1 DEF ScreenTypes
    <3>3. QED
      BY <2>1, <3>1, <3>2
  <2>3. CASE ~ Screen!Delete(i)
    BY <1>3, <2>1, <2>3
    DEF Ending, Screen!Describe, Screen!Upload, Screen!Profile, Screen!Update, Screen!Score,
        Screen!Fail
  <2>4. QED
    BY <2>2, <2>3
<1>4. QED
  BY <1>1, <1>2, <1>3, ScreenMoves

\* A request that is at work after a step has begun in it, or loaded a
\* description, or carries what it carried.
LEMMA AtWork ==
  ASSUME ScreenTypes, [Screen!Next]_(Screen!vars), NEW q \in Slots
  PROVE  \/ handled'[q] = Screen!Idle
         \/ handled'[q] = handled[q]
         \/ Beginning(q) \/ Screen!LoadJob(q)
<1>0. DOMAIN handled = Slots
  BY DEF ScreenTypes
<1>1. CASE UNCHANGED Screen!vars
  BY <1>1 DEF Screen!vars
<1>2. ASSUME NEW i \in Slots, Beginning(i) \/ Screen!LoadJob(i) \/ Ending(i)
      PROVE  \/ handled'[q] = Screen!Idle
             \/ handled'[q] = handled[q]
             \/ Beginning(q) \/ Screen!LoadJob(q)
  BY <1>0, <1>2, BeginsAlone, EndsAlone
<1>3. QED
  BY <1>1, <1>2, ScreenMoves

-----------------------------------------------------------------------------
(* Scoring is repeatable.                                                  *)

\* A run is computed from what its fingerprint names.
Repeatable ==
  \A r \in runs :
    /\ r.total_score =
         Screen!ComputeTotalScore(r.run_fingerprint.dimensions, r.run_fingerprint.profile)
    /\ r.verdict = Screen!AssignVerdict(r.total_score, r.run_fingerprint.profile.thresholds)

\* The fingerprint of a profile weighs and judges as the profile does.
LEMMA FingerprintSuffices ==
  ASSUME NEW w, NEW judged, NEW at
  PROVE  LET r == Screen!ScoringRun(w, judged, at)
         IN  /\ r.total_score =
                  Screen!ComputeTotalScore(r.run_fingerprint.dimensions, r.run_fingerprint.profile)
             /\ r.verdict =
                  Screen!AssignVerdict(r.total_score, r.run_fingerprint.profile.thresholds)
<1> DEFINE resume == resumes[w.resume_id]
           profile == profiles[w.weight_profile_id]
           loaded == CHOOSE j \in w.job : TRUE
           checks == Screen!RunMatchChecks(resume.fields, loaded.job)
           dimensions == [d \in Dimensions |->
                            IF d = "technical" THEN Screen!TechnicalDimension(checks)
                                               ELSE judged[d]]
           total == Screen!ComputeTotalScore(dimensions, profile)
           r == Screen!ScoringRun(w, judged, at)
<1>1. /\ r.total_score = total
      /\ r.verdict = Screen!AssignVerdict(total, profile.thresholds)
      /\ r.run_fingerprint =
           Screen!RunFingerprint(resume.content_hash, checks, dimensions, profile)
  BY DEF Screen!ScoringRun
<1> HIDE DEF r
<1>2. /\ r.run_fingerprint.dimensions = dimensions
      /\ r.run_fingerprint.profile = Screen!ProfileFingerprint(profile)
  <2> HIDE DEF dimensions, checks, profile, resume
  <2>1. QED
    BY <1>1 DEF Screen!RunFingerprint
<1>3. \A p : /\ Screen!ProfileFingerprint(p).weights = p.weights
             /\ Screen!ProfileFingerprint(p).thresholds = p.thresholds
  BY DEF Screen!ProfileFingerprint
<1> HIDE DEF dimensions, checks, profile, resume, total
<1>4. Screen!ComputeTotalScore(dimensions, profile) =
        Screen!ComputeTotalScore(dimensions, Screen!ProfileFingerprint(profile))
  BY <1>3 DEF Screen!ComputeTotalScore
<1>5. QED
  BY <1>1, <1>2, <1>3, <1>4 DEF total, r

\* There is no run at the start.
LEMMA RepeatableInit == Screen!Init => Repeatable
BY DEF Screen!Init, Repeatable

\* A run that is stored is one that was computed.
LEMMA RepeatableStep ==
  ASSUME ScreenTypes, Repeatable, [Screen!Next]_(Screen!vars)
  PROVE  Repeatable'
<1>1. CASE runs' = runs
  BY <1>1 DEF Repeatable
<1>2. ASSUME NEW i \in Slots, Screen!Score(i)
      PROVE  Repeatable'
  <2>1. PICK judged \in Screen!Judged :
          runs' = runs \union {Screen!ScoringRun(handled[i], judged, handled[i].created_at)}
    BY <1>2 DEF Screen!Score
  <2> DEFINE new == Screen!ScoringRun(handled[i], judged, handled[i].created_at)
  <2>2. /\ new.total_score =
             Screen!ComputeTotalScore(new.run_fingerprint.dimensions, new.run_fingerprint.profile)
        /\ new.verdict =
             Screen!AssignVerdict(new.total_score, new.run_fingerprint.profile.thresholds)
    BY FingerprintSuffices
  <2> HIDE DEF new
  <2>3. runs' = runs \union {new}
    BY <2>1 DEF new
  <2>4. QED
    BY <2>2, <2>3 DEF Repeatable
<1>3. QED
  BY <1>1, <1>2, Writers

\* Runs of one fingerprint agree in total and verdict, and where the audit
\* reports drift two runs were computed from different inputs, for any
\* profiles, documents and judgements (scoring.py, scoring_audit.py).
THEOREM DriftIsExplained == Screen!Spec => []DriftHasACause
<1>1. Repeatable => DriftHasACause
  <2> SUFFICES ASSUME Repeatable PROVE DriftHasACause
    OBVIOUS
  <2>1. ASSUME NEW r \in runs, NEW s \in runs, r.run_fingerprint = s.run_fingerprint
        PROVE  r.total_score = s.total_score /\ r.verdict = s.verdict
    BY <2>1 DEF Repeatable
  <2>2. ASSUME NEW pair \in VerdictDrift(runs)
        PROVE  \E r \in runs, s \in runs :
                 /\ {<<x.resume_id, x.weight_profile_id>> : x \in {r, s}} = {pair}
                 /\ r.verdict # s.verdict /\ r.run_fingerprint # s.run_fingerprint
    <3>1. PICK r \in runs :
            /\ pair = <<r.resume_id, r.weight_profile_id>>
            /\ \E t \in runs : /\ t.resume_id = r.resume_id
                               /\ t.weight_profile_id = r.weight_profile_id
                               /\ t.verdict # r.verdict
      BY <2>2 DEF VerdictDrift
    <3>2. PICK s \in runs : /\ s.resume_id = r.resume_id
                            /\ s.weight_profile_id = r.weight_profile_id
                            /\ s.verdict # r.verdict
      BY <3>1
    <3>3. {<<x.resume_id, x.weight_profile_id>> : x \in {r, s}} = {pair}
      BY <3>1, <3>2
    <3>4. r.run_fingerprint # s.run_fingerprint
      BY <2>1, <3>2
    <3>5. QED
      BY <3>2, <3>3, <3>4
  <2>3. QED
    BY <2>1, <2>2 DEF DriftHasACause
<1>2. QED
  BY ScreenTypesInit, ScreenTypesStep, RepeatableInit, RepeatableStep, <1>1, PTL
  DEF Screen!Spec
-----------------------------------------------------------------------------
(* What requests of one kind, one at a time, may trust.                    *)

Alone(op) ==
  op \notin overlapped =>
    \A i, j \in Slots : handled[i].op = op /\ handled[j].op = op => i = j

\* As long as none overlapped there is one of them.
LEMMA AloneStep ==
  ASSUME ScreenTypes, [Screen!Next]_(Screen!vars),
         NEW op \in {"upload", "profile", "update"}, Alone(op)
  PROVE  Alone(op)'
<1>0. DOMAIN handled = Slots
  BY DEF ScreenTypes
<1>1. ASSUME NEW i \in Slots, NEW j \in Slots, handled'[i].op = op, handled'[j].op = op,
             op \notin overlapped'
      PROVE  i = j
  <2>1. op \notin overlapped
    BY <1>1, Writers
  <2>2. ASSUME NEW q \in Slots, handled'[q].op = op
        PROVE  Beginning(q) \/ (handled[q].op = op /\ ~ Beginning(q))
    <3>1. handled'[q] # Screen!Idle
      BY <2>2 DEF Screen!Idle
    <3>2. ~ Screen!LoadJob(q)
      BY <2>2, Loads
    <3>3. QED
      BY <2>2, <3>1, <3>2, AtWork
  <2>3. ASSUME NEW p \in Slots, NEW q \in Slots, p # q, Beginning(p),
               handled'[p].op = op, handled'[q].op = op
        PROVE  FALSE
    <3>1. handled[q].op = op
      BY <1>0, <2>3, BeginsAlone
    <3>2. op \in overlapped'
      BY <1>0, <2>3, <3>1, BeginsAlone
    <3>3. QED
      BY <1>1, <3>2
  <2>4. QED
    BY <1>1, <2>1, <2>2, <2>3 DEF Alone
<1>2. QED
  BY <1>1 DEF Alone

\* An upload that is at work found none of its hash, and none was added.
UploadsFresh ==
  "upload" \notin overlapped =>
    /\ \A i \in Slots : handled[i].op = "upload" =>
         \A k \in DOMAIN resumes : resumes[k].content_hash # handled[i].document.hash
    /\ \A k, l \in DOMAIN resumes :
         resumes[k].content_hash = resumes[l].content_hash => k = l

\* Profiles of a name are numbered up to how many there are.
ProfilesNumbered ==
  "profile" \notin overlapped =>
    /\ \A i \in Slots : handled[i].op = "profile" =>
         handled[i].row.version = Count(handled[i].row.name) + 1
    /\ \A k \in DOMAIN profiles : profiles[k].version <= Count(profiles[k].name)
    /\ \A k, l \in DOMAIN profiles :
         (profiles[k].name = profiles[l].name /\ profiles[k].version = profiles[l].version)
           => k = l

\* An update that is at work has read the version there is.
UpdatesCounted ==
  "update" \notin overlapped =>
    /\ \A i \in Slots : handled[i].op = "update" =>
         handled[i].version = requisition.version + 1
    /\ requisition.version = requisition.updates + 1

LoneInv ==
  /\ ScreenTypes
  /\ \A op \in {"upload", "profile", "update"} : Alone(op)
  /\ UploadsFresh
  /\ ProfilesNumbered
  /\ UpdatesCounted

\* What is at work after a step, of these three kinds, was at work before or
\* begins.
LEMMA StillAtWork ==
  ASSUME ScreenTypes, [Screen!Next]_(Screen!vars), NEW q \in Slots,
         handled'[q].op \in {"upload", "profile", "update"}
  PROVE  Beginning(q) \/ handled'[q] = handled[q]
<1>1. handled'[q] # Screen!Idle
  BY DEF Screen!Idle
<1>2. ~ Screen!LoadJob(q)
  BY Loads
<1>3. QED
  BY <1>1, <1>2, AtWork

\* A request that commits alone leaves none of its kind at work.
LEMMA LastOfItsKind ==
  ASSUME ScreenTypes, NEW i \in Slots, Ending(i), Alone(handled[i].op),
         handled[i].op \notin overlapped
  PROVE  \A q \in Slots : handled'[q].op # handled[i].op
<1>1. /\ \A q \in Slots \ {i} : handled'[q] = handled[q]
      /\ handled'[i] = Screen!Idle
      /\ handled[i] # Screen!Idle
  BY EndsAlone DEF ScreenTypes
<1>2. handled[i].op # "idle"
  BY <1>1 DEF ScreenTypes, Carried
<1>3. QED
  BY <1>1, <1>2 DEF Alone, Screen!Idle

\* An upload that began and commits without another has the only row of its
\* hash.
LEMMA UploadsStep ==
  ASSUME LoneInv, [Screen!Next]_(Screen!vars)
  PROVE  UploadsFresh'
<1>0. ScreenTypes /\ DOMAIN handled = Slots /\ Alone("upload")
  BY DEF LoneInv, ScreenTypes
<1>1. SUFFICES ASSUME "upload" \notin overlapped'
               PROVE  /\ \A i \in Slots : handled'[i].op = "upload" =>
                           \A k \in DOMAIN resumes' :
                             resumes'[k].content_hash # handled'[i].document.hash
                      /\ \A k, l \in DOMAIN resumes' :
                           resumes'[k].content_hash = resumes'[l].content_hash => k = l
  BY DEF UploadsFresh
<1>2. /\ "upload" \notin overlapped
      /\ \A i \in Slots : handled[i].op = "upload" =>
           \A k \in DOMAIN resumes : resumes[k].content_hash # handled[i].document.hash
      /\ \A k, l \in DOMAIN resumes :
           resumes[k].content_hash = resumes[l].content_hash => k = l
  BY <1>0, <1>1, Writers DEF LoneInv, UploadsFresh
<1>3. CASE resumes' = resumes
  <2>1. ASSUME NEW i \in Slots, handled'[i].op = "upload", NEW k \in DOMAIN resumes
        PROVE  resumes[k].content_hash # handled'[i].document.hash
    <3>1. CASE Beginning(i)
      BY <1>0, <2>1, <3>1, BeginsAlone
    <3>2. CASE handled'[i] = handled[i]
      BY <1>2, <2>1, <3>2
    <3>3. QED
      BY <1>0, <2>1, <3>1, <3>2, StillAtWork
  <2>2. QED
    BY <1>2, <1>3, <2>1
<1>4. ASSUME NEW i \in Slots, Screen!Upload(i)
      PROVE  /\ \A q \in Slots : handled'[q].op # "upload"
             /\ \A k, l \in DOMAIN resumes' :
                  resumes'[k].content_hash = resumes'[l].content_hash => k = l
  <2>1. /\ handled[i].op = "upload"
        /\ resumes' = Append(resumes, Screen!ResumeRow(handled[i].document))
    BY <1>4 DEF Screen!Upload, Screen!Committed
  <2>2. \A q \in Slots : handled'[q].op # "upload"
    BY <1>0, <1>2, <1>4, <2>1, LastOfItsKind DEF Ending
  <2> DEFINE row == Screen!ResumeRow(handled[i].document)
  <2>3. row.content_hash = handled[i].document.hash
    BY DEF Screen!ResumeRow
  <2> HIDE DEF row
  <2>4. \A k \in DOMAIN resumes : resumes[k].content_hash # row.content_hash
    BY <1>2, <2>1, <2>3
  <2>5. /\ Len(resumes) \in Nat /\ DOMAIN resumes = 1 .. Len(resumes)
        /\ DOMAIN resumes' = 1 .. Len(resumes) + 1
        /\ \A k \in 1 .. Len(resumes) : resumes'[k] = resumes[k]
        /\ resumes'[Len(resumes) + 1] = row
    <3>1. resumes' = Append(resumes, row)
      BY <2>1 DEF row
    <3>2. resumes \in Seq({Screen!ResumeRow(d) : d \in Documents})
      BY <1>0 DEF ScreenTypes
    <3>3. QED
      BY <3>1, <3>2
  <2>6. QED
    BY <1>2, <2>2, <2>4, <2>5
<1>5. QED
  BY <1>0, <1>3, <1>4, Writers

\* A profile counts itself when it is stored.
LEMMA CountAfter ==
  ASSUME ScreenTypes, NEW i \in Slots, Screen!Profile(i)
  PROVE  /\ Len(profiles) \in Nat /\ DOMAIN profiles = 1 .. Len(profiles)
         /\ DOMAIN profiles' = 1 .. Len(profiles) + 1
         /\ \A k \in 1 .. Len(profiles) : profiles'[k] = profiles[k]
         /\ profiles'[Len(profiles) + 1] = handled[i].row
         /\ \A n : Count(n)' = IF n = handled[i].row.name THEN Count(n) + 1 ELSE Count(n)
<1> DEFINE row == handled[i].row
           last == Len(profiles) + 1
<1>1. profiles' = Append(profiles, row) /\ profiles \in Seq(ProfileRows)
  BY DEF Screen!Profile, ScreenTypes
<1>2. /\ Len(profiles) \in Nat /\ DOMAIN profiles = 1 .. Len(profiles)
      /\ DOMAIN profiles' = 1 .. Len(profiles) + 1
      /\ \A k \in 1 .. Len(profiles) : profiles'[k] = profiles[k]
      /\ profiles'[last] = row
  <2> HIDE DEF row
  <2>1. QED
    BY <1>1
<1>3. last \notin DOMAIN profiles /\ DOMAIN profiles' = DOMAIN profiles \union {last}
  BY <1>2
<1>4. ASSUME NEW n
      PROVE  Count(n)' = IF n = row.name THEN Count(n) + 1 ELSE Count(n)
  <2> DEFINE old == {k \in DOMAIN profiles : profiles[k].name = n}
             new == {k \in DOMAIN profiles' : profiles'[k].name = n}
  <2> HIDE DEF row
  <2>1. IsFiniteSet(old)
    <3>1. IsFiniteSet(1 .. Len(profiles))
      BY <1>2, FS_Interval
    <3>2. QED
      BY <1>2, <3>1, FS_Subset
  <2>2. last \notin old
    BY <1>3
  <2>3. new = IF n = row.name THEN old \union {last} ELSE old
    BY <1>2, <1>3
  <2> HIDE DEF old, new, last
  <2>4. Cardinality(old \union {last}) = Cardinality(old) + 1
    BY <2>1, <2>2, FS_AddElement
  <2>5. Count(n) = Cardinality(old) /\ Count(n)' = Cardinality(new)
    BY DEF Count, old, new
  <2>6. QED
    BY <2>3, <2>4, <2>5
<1>5. QED
  BY <1>2, <1>4

\* A profile that began and commits without another has the next number of
\* its name.
LEMMA ProfilesStep ==
  ASSUME LoneInv, [Screen!Next]_(Screen!vars)
  PROVE  ProfilesNumbered'
<1>0. ScreenTypes /\ DOMAIN handled = Slots /\ Alone("profile")
  BY DEF LoneInv, ScreenTypes
<1>1. SUFFICES ASSUME "profile" \notin overlapped'
               PROVE  /\ \A i \in Slots : handled'[i].op = "profile" =>
                           \A n : n = handled'[i].row.name =>
                             handled'[i].row.version = Count(n)' + 1
                      /\ \A k \in DOMAIN profiles' :
                           \A n : n = profiles'[k].name => profiles'[k].version <= Count(n)'
                      /\ \A k, l \in DOMAIN profiles' :
                           /\ profiles'[k].name = profiles'[l].name
                           /\ profiles'[k].version = profiles'[l].version
                           => k = l
  <2>1. \A i \in Slots : Count(handled[i].row.name)' = Cardinality({k \in DOMAIN profiles' : profiles'[k].name = handled'[i].row.name})
    BY DEF Count
  <2>2. \A l \in DOMAIN profiles' : Count(profiles[l].name)' = Cardinality({k \in DOMAIN profiles' : profiles'[k].name = profiles'[l].name})
    BY DEF Count
  <2>3. QED
    BY <1>1, <2>1, <2>2 DEF ProfilesNumbered, Count
<1>2. /\ "profile" \notin overlapped
      /\ \A i \in Slots : handled[i].op = "profile" =>
           handled[i].row.version = Count(handled[i].row.name) + 1
      /\ \A k \in DOMAIN profiles : profiles[k].version <= Count(profiles[k].name)
      /\ \A k, l \in DOMAIN profiles :
           (profiles[k].name = profiles[l].name /\ profiles[k].version = profiles[l].version)
             => k = l
  BY <1>0, <1>1, Writers DEF LoneInv, ProfilesNumbered
<1>3. CASE profiles' = profiles
  <2>1. \A n : Count(n)' = Count(n)
    BY <1>3 DEF Count
  <2>2. ASSUME NEW i \in Slots, handled'[i].op = "profile"
        PROVE  \A n : n = handled'[i].row.name => handled'[i].row.version = Count(n) + 1
    <3>1. CASE Beginning(i)
      <4>1. PICK n \in Names, b \in Bodies :
              handled'[i].row = Screen!ProfileRow(n, Count(n) + 1, b)
        BY <1>0, <2>2, <3>1, BeginsAlone
      <4> DEFINE next == Count(n) + 1
      <4> HIDE DEF next
      <4>2. handled'[i].row.name = n /\ handled'[i].row.version = next
        BY <4>1 DEF Screen!ProfileRow, next
      <4>3. QED
        BY <4>2 DEF next
    <3>2. CASE handled'[i] = handled[i]
      BY <1>2, <2>2, <3>2
    <3>3. QED
      BY <1>0, <2>2, <3>1, <3>2, StillAtWork
  <2>3. QED
    BY <1>2, <1>3, <2>1, <2>2
<1>4. ASSUME NEW i \in Slots, Screen!Profile(i)
      PROVE  /\ \A q \in Slots : handled'[q].op # "profile"
             /\ \A k \in DOMAIN profiles' :
                  \A n : n = profiles'[k].name => profiles'[k].version <= Count(n)'
             /\ \A k, l \in DOMAIN profiles' :
                  /\ profiles'[k].name = profiles'[l].name
                  /\ profiles'[k].version = profiles'[l].version
                  => k = l
  <2>1. handled[i].op = "profile"
    BY <1>4 DEF Screen!Profile
  <2>2. \A q \in Slots : handled'[q].op # "profile"
    BY <1>0, <1>2, <1>4, <2>1, LastOfItsKind DEF Ending
  <2> DEFINE row == handled[i].row
             last == Len(profiles) + 1
  <2>3. row.version = Count(row.name) + 1
    BY <1>2, <2>1
  <2>4. /\ Len(profiles) \in Nat /\ DOMAIN profiles = 1 .. Len(profiles)
        /\ DOMAIN profiles' = 1 .. last
        /\ \A k \in 1 .. Len(profiles) : profiles'[k] = profiles[k]
        /\ profiles'[last] = row
        /\ \A n : Count(n)' = IF n = row.name THEN Count(n) + 1 ELSE Count(n)
    BY <1>0, <1>4, CountAfter
  <2>5. \A k \in DOMAIN profiles : profiles[k].version \in Nat
    BY <1>0 DEF ScreenTypes, ProfileRows, Screen!ProfileRow
  <2>6. \A n : Count(n) \in Nat
    BY <1>0, Counted
  <2> HIDE DEF row, last
  <2>7. DOMAIN profiles' = DOMAIN profiles \union {last} /\ last \notin DOMAIN profiles
    BY <2>4 DEF last
  <2>8. ASSUME NEW k \in DOMAIN profiles', NEW n, n = profiles'[k].name
        PROVE  profiles'[k].version <= Count(n)'
    <3>1. CASE k = last
      BY <2>3, <2>4, <2>6, <2>8, <3>1
    <3>2. CASE k \in DOMAIN profiles
      <4>1. profiles'[k] = profiles[k] /\ profiles[k].version <= Count(n)
        BY <1>2, <2>4, <2>8, <3>2
      <4>2. Count(n)' = Count(n) + 1 \/ Count(n)' = Count(n)
        BY <2>4
      <4>3. QED
        BY <2>5, <2>6, <3>2, <4>1, <4>2
    <3>3. QED
      BY <2>7, <3>1, <3>2
  <2>9. ASSUME NEW k \in DOMAIN profiles, profiles[k].name = row.name
        PROVE  profiles[k].version # row.version
    <3>1. profiles[k].version <= Count(row.name)
      BY <1>2, <2>9
    <3>2. QED
      BY <2>3, <2>5, <2>6, <3>1
  <2>10. \A k \in DOMAIN profiles : profiles'[k] = profiles[k]
    BY <2>4
  <2>11. QED
    BY <1>2, <2>2, <2>4, <2>7, <2>8, <2>9, <2>10
<1>5. QED
  BY <1>0, <1>3, <1>4, Writers
\* An update that began and commits without another adds one to the version.
LEMMA UpdatesStep ==
  ASSUME LoneInv, [Screen!Next]_(Screen!vars)
  PROVE  UpdatesCounted'
<1>0. /\ ScreenTypes /\ DOMAIN handled = Slots /\ Alone("update")
      /\ requisition \in [title : Titles, version : Nat, removed : BOOLEAN, updates : Nat]
  BY DEF LoneInv, ScreenTypes
<1>1. SUFFICES ASSUME "update" \notin overlapped'
               PROVE  /\ \A i \in Slots : handled'[i].op = "update" =>
                           handled'[i].version = requisition'.version + 1
                      /\ requisition'.version = requisition'.updates + 1
  BY DEF UpdatesCounted
<1>2. /\ "update" \notin overlapped
      /\ \A i \in Slots : handled[i].op = "update" =>
           handled[i].version = requisition.version + 1
      /\ requisition.version = requisition.updates + 1
  BY <1>0, <1>1, Writers DEF LoneInv, UpdatesCounted
<1>3. CASE requisition'.version = requisition.version
           /\ requisition'.updates = requisition.updates
  <2>1. ASSUME NEW i \in Slots, handled'[i].op = "update"
        PROVE  handled'[i].version = requisition.version + 1
    <3>1. CASE Beginning(i)
      BY <1>0, <2>1, <3>1, BeginsAlone
    <3>2. CASE handled'[i] = handled[i]
      BY <1>2, <2>1, <3>2
    <3>3. QED
      BY <1>0, <2>1, <3>1, <3>2, StillAtWork
  <2>2. QED
    BY <1>2, <1>3, <2>1
<1>4. ASSUME NEW i \in Slots, Screen!Update(i)
      PROVE  /\ \A q \in Slots : handled'[q].op # "update"
             /\ requisition'.version = requisition'.updates + 1
  <2>1. /\ handled[i].op = "update"
        /\ requisition' = [requisition EXCEPT !.title = handled[i].title,
                                              !.version = handled[i].version,
                                              !.updates = @ + 1]
    BY <1>4 DEF Screen!Update, Screen!Committed
  <2>2. \A q \in Slots : handled'[q].op # "update"
    BY <1>0, <1>2, <1>4, <2>1, LastOfItsKind DEF Ending
  <2> DEFINE title == handled[i].title
             version == handled[i].version
             updates == requisition.updates + 1
  <2>3. requisition' = [requisition EXCEPT !.title = title, !.version = version,
                                           !.updates = updates]
    BY <2>1
  <2>4. version = updates + 1
    BY <1>2, <2>1
  <2> HIDE DEF title, version, updates
  <2>5. requisition'.version = version /\ requisition'.updates = updates
    BY <1>0, <2>3
  <2>6. QED
    BY <2>2, <2>4, <2>5
<1>5. QED
  BY <1>0, <1>3, <1>4, Writers

\* At the start there is at most one resume and one profile, its first.
LEMMA LoneInit == Screen!Init => LoneInv
<1> SUFFICES ASSUME Screen!Init PROVE LoneInv
  OBVIOUS
<1>1. \A i \in Slots : handled[i] = Screen!Idle
  BY DEF Screen!Init
<1>2. \A i \in Slots : handled[i].op \notin {"upload", "profile", "update"}
  BY <1>1 DEF Screen!Idle
<1>3. \A op \in {"upload", "profile", "update"} : Alone(op)
  BY <1>2 DEF Alone
<1>4. UpdatesCounted
  BY <1>2 DEF UpdatesCounted, Screen!Init
<1>5. UploadsFresh
  <2>1. CASE resumes = << >>
    BY <1>2, <2>1 DEF UploadsFresh
  <2>2. ASSUME NEW d \in Documents, resumes = <<Screen!ResumeRow(d)>>
        PROVE  UploadsFresh
    <3>1. DOMAIN resumes = {1}
      BY <2>2
    <3>2. QED
      BY <1>2, <3>1 DEF UploadsFresh
  <2>3. QED
    BY <2>1, <2>2 DEF Screen!Init
<1>6. ProfilesNumbered
  <2>1. CASE profiles = << >>
    BY <1>2, <2>1 DEF ProfilesNumbered
  <2>2. ASSUME NEW n \in Names, NEW b \in Bodies, profiles = <<Screen!ProfileRow(n, 1, b)>>
        PROVE  ProfilesNumbered
    <3>1. DOMAIN profiles = {1} /\ profiles[1].name = n /\ profiles[1].version = 1
      BY <2>2 DEF Screen!ProfileRow
    <3>2. {k \in DOMAIN profiles : profiles[k].name = n} = {1}
      BY <3>1
    <3>3. Count(n) = 1
      BY <3>2, FS_Singleton DEF Count
    <3>4. QED
      BY <1>2, <3>1, <3>3 DEF ProfilesNumbered
  <2>3. QED
    BY <2>1, <2>2 DEF Screen!Init
<1>7. QED
  BY <1>3, <1>4, <1>5, <1>6, ScreenTypesInit DEF LoneInv

\* Without overlap of two of a kind there are no twin resumes, no two profiles
\* of one name and version, and the version of the requisition counts its
\* updates, for any number of requests of different kinds at a time
\* (routers_resume.py, routers_org.py).
THEOREM LoneWritersAreRight == Screen!Spec => []LoneWritersCount
<1>1. LoneInv /\ [Screen!Next]_(Screen!vars) => LoneInv'
  BY ScreenTypesStep, AloneStep, UploadsStep, ProfilesStep, UpdatesStep DEF LoneInv
<1>2. LoneInv => LoneWritersCount
  BY DEF LoneInv, UploadsFresh, ProfilesNumbered, UpdatesCounted, LoneWritersCount
<1>3. QED
  BY LoneInit, <1>1, <1>2, PTL DEF Screen!Spec
-----------------------------------------------------------------------------
(* The run that is shown.                                                  *)

\* No two requests, and no two descriptions, have the same stamp.
Stamped ==
  /\ \A j, k \in jobs : j.created_at = k.created_at => j = k
  /\ \A p, q \in Slots :
       p # q /\ handled[p] # Screen!Idle /\ handled[q] # Screen!Idle =>
         handled[p].created_at # handled[q].created_at
  /\ \A q \in Slots : handled[q] # Screen!Idle =>
       \A j \in jobs : j.created_at # handled[q].created_at

\* The description l is no older than any that was there at the stamp.
Against(at, l) ==
  /\ l \in jobs
  /\ \A j \in jobs : j.posted < at => j.created_at <= l.created_at

\* Runs and scoring requests use a description no older than themselves.
Scored ==
  /\ \A r \in runs : Against(r.created_at, r.against)
  /\ \A q \in Slots : handled[q].op = "score" /\ handled[q].job # {} =>
       \E l \in jobs : handled[q].job = {l} /\ Against(handled[q].created_at, l)

\* At the start there is one description at most and no run.
LEMMA ScoredInit == Screen!Init => Stamped /\ Scored
BY DEF Screen!Init, Screen!Idle, Stamped, Scored, Against

\* A request takes a stamp of its own, and what it stores is dated with it.
LEMMA StampedStep ==
  ASSUME ScreenTypes, Stamped, [Screen!Next]_(Screen!vars)
  PROVE  Stamped'
<1>0. /\ stamps \in Nat /\ DOMAIN handled = Slots
      /\ \A j \in jobs : j.created_at \in Nat /\ j.created_at <= stamps
      /\ \A q \in Slots : handled[q] # Screen!Idle => handled[q].created_at \in 1 .. stamps
  BY DEF ScreenTypes, Carried, JobRows
<1>1. CASE UNCHANGED Screen!vars
  BY <1>1 DEF Stamped, Screen!vars
<1>2. ASSUME NEW i \in Slots, Beginning(i)
      PROVE  Stamped'
  <2>1. /\ jobs' = jobs
        /\ \A q \in Slots \ {i} : handled'[q] = handled[q]
        /\ handled'[i].created_at = stamps + 1
    BY <1>0, <1>2, BeginsAlone
  <2>2. /\ \A j \in jobs : j.created_at # stamps + 1
        /\ \A q \in Slots : handled[q] # Screen!Idle => handled[q].created_at # stamps + 1
    BY <1>0
  <2>3. QED
    BY <2>1, <2>2 DEF Stamped
<1>3. ASSUME NEW i \in Slots, Screen!LoadJob(i)
      PROVE  Stamped'
  <2>1. /\ jobs' = jobs
        /\ \A q \in Slots \ {i} : handled'[q] = handled[q]
        /\ handled'[i].created_at = handled[i].created_at
        /\ handled[i] # Screen!Idle
    BY <1>3, Loads DEF Screen!Idle
  <2>2. QED
    BY <2>1 DEF Stamped
<1>4. ASSUME NEW i \in Slots, Ending(i)
      PROVE  Stamped'
  <2>1. /\ \A q \in Slots \ {i} : handled'[q] = handled[q]
        /\ handled'[i] = Screen!Idle
        /\ handled[i] # Screen!Idle
    BY <1>0, <1>4, EndsAlone
  <2>2. CASE jobs' = jobs
    BY <2>1, <2>2 DEF Stamped
  <2>3. CASE Screen!Describe(i)
    <3> DEFINE new == [created_at |-> handled[i].created_at, posted |-> stamps,
                       job |-> handled[i].job]
    <3>1. jobs' = jobs \union {new} /\ new.created_at = handled[i].created_at
      BY <2>3 DEF Screen!Describe
    <3> HIDE DEF new
    <3>2. QED
      BY <2>1, <3>1 DEF Stamped
  <2>4. QED
    BY <1>4, <2>2, <2>3
    DEF Ending, Screen!Upload, Screen!Profile, Screen!Update, Screen!Delete, Screen!Score,
        Screen!Fail
<1>5. QED
  BY <1>1, <1>2, <1>3, <1>4, ScreenMoves

\* A description that is committed later does not count for what began before.
LEMMA AgainstStays ==
  ASSUME ScreenTypes, [Screen!Next]_(Screen!vars), NEW at \in 0 .. stamps, NEW l, Against(at, l)
  PROVE  Against(at, l)'
<1>1. CASE jobs' = jobs
  BY <1>1 DEF Against
<1>2. ASSUME NEW i \in Slots, Screen!Describe(i)
      PROVE  Against(at, l)'
  <2> DEFINE new == [created_at |-> handled[i].created_at, posted |-> stamps,
                     job |-> handled[i].job]
  <2>1. jobs' = jobs \union {new} /\ new.posted = stamps /\ stamps \in Nat
    BY <1>2 DEF Screen!Describe, ScreenTypes
  <2> HIDE DEF new
  <2>2. ~ (new.posted < at)
    BY <2>1
  <2>3. QED
    BY <2>1, <2>2 DEF Against
<1>3. QED
  BY <1>1, <1>2, Writers

\* What a request loads is the latest there is, and its run is stored with it.
LEMMA ScoredStep ==
  ASSUME ScreenTypes, Scored, [Screen!Next]_(Screen!vars)
  PROVE  Scored'
<1>0. /\ stamps \in Nat /\ DOMAIN handled = Slots
      /\ \A r \in runs : r.created_at \in 0 .. stamps
      /\ \A q \in Slots : handled[q].op = "score" => handled[q].created_at \in 0 .. stamps
  BY DEF ScreenTypes, Carried, Screen!Idle
<1>1. ASSUME NEW q \in Slots, handled[q].op = "score", handled[q].job # {}
      PROVE  \E l \in jobs' : handled[q].job = {l} /\ Against(handled[q].created_at, l)
  <2>1. PICK l \in jobs : handled[q].job = {l} /\ Against(handled[q].created_at, l)
    BY <1>1 DEF Scored
  <2> DEFINE at == handled[q].created_at
  <2>2. at \in 0 .. stamps /\ Against(at, l)
    BY <1>0, <1>1, <2>1
  <2>3. jobs \subseteq jobs'
    BY Writers DEF Screen!Describe
  <2>4. QED
    BY <2>1, <2>3
<1>2. ASSUME NEW at \in 0 .. stamps, NEW l, Against(at, l)
      PROVE  l \in jobs' /\ \A j \in jobs' : j.posted < at => j.created_at <= l.created_at
  BY <1>2, AgainstStays DEF Against
<1>3. ASSUME NEW q \in Slots, handled'[q].op = "score", handled'[q].job # {}
      PROVE  \E l \in jobs' :
               /\ handled'[q].job = {l}
               /\ \A j \in jobs' : j.posted < handled'[q].created_at =>
                    j.created_at <= l.created_at
  <2>1. CASE Beginning(q)
    <3>1. PICK r \in DOMAIN resumes, p \in DOMAIN profiles :
            handled'[q] = [op |-> "score", created_at |-> stamps + 1, resume_id |-> r,
                           weight_profile_id |-> p, job |-> {}]
      BY <1>0, <1>3, <2>1, BeginsAlone
    <3>2. QED
      BY <1>3, <3>1
  <2>2. CASE Screen!LoadJob(q)
    <3>1. /\ handled'[q].job = {LatestJob} /\ jobs' = jobs
          /\ LatestJob \in jobs
          /\ \A j \in jobs : j.created_at <= LatestJob.created_at
      BY <2>2, Loads
    <3>2. QED
      BY <3>1
  <2>3. CASE handled'[q] = handled[q]
    <3>1. PICK l \in jobs' : handled[q].job = {l} /\ Against(handled[q].created_at, l)
      BY <1>1, <1>3, <2>3
    <3>2. QED
      BY <1>0, <1>2, <1>3, <2>3, <3>1
  <2>4. QED
    BY <1>3, <2>1, <2>2, <2>3, AtWork DEF Screen!Idle
<1>4. ASSUME NEW r \in runs'
      PROVE  /\ r.against \in jobs'
             /\ \A j \in jobs' : j.posted < r.created_at => j.created_at <= r.against.created_at
  <2>1. CASE r \in runs
    BY <1>0, <1>2, <2>1 DEF Scored
  <2>2. CASE r \notin runs
    <3>1. PICK i \in Slots : Screen!Score(i)
      BY <2>2, Writers
    <3>2. /\ handled[i].op = "score" /\ handled[i].job # {}
          /\ r.created_at = handled[i].created_at
          /\ r.against = CHOOSE j \in handled[i].job : TRUE
      BY <1>4, <2>2, <3>1 DEF Screen!Score, Screen!ScoringRun
    <3>3. PICK l \in jobs' : handled[i].job = {l} /\ Against(handled[i].created_at, l)
      BY <1>1, <3>2
    <3>4. r.against = l
      BY <3>2, <3>3
    <3>5. QED
      BY <1>0, <1>2, <3>2, <3>3, <3>4
  <2>3. QED
    BY <2>1, <2>2
<1>5. QED
  BY <1>3, <1>4 DEF Scored, Against

\* Once a run was begun after the latest description was committed, the run
\* that is shown is against that description, however long scoring takes and
\* in whatever order runs are stored (routers_resume.py).
THEOREM TheShownRunIsCurrent == Screen!Spec => []ShownRunIsCurrent
<1>1. ScreenTypes /\ Stamped /\ Scored => ShownRunIsCurrent
  <2> SUFFICES ASSUME ScreenTypes, Stamped, Scored, NEW k \in DOMAIN resumes,
                      NEW r \in runs, r.resume_id = k, r.created_at > LatestJob.posted
               PROVE  LatestRun(k).against = LatestJob
    BY DEF ShownRunIsCurrent
  <2>0. /\ stamps \in Nat
        /\ \A s \in runs : s.created_at \in 0 .. stamps
        /\ \A j \in jobs : j.created_at \in 0 .. stamps /\ j.posted \in 0 .. stamps
    BY DEF ScreenTypes, JobRows
  <2>1. /\ LatestJob \in jobs
        /\ \A j \in jobs : j.created_at <= LatestJob.created_at
    <3>1. jobs # {}
      BY DEF Scored, Against
    <3>2. QED
      BY <2>0, <3>1, LatestRow DEF LatestJob
  <2> DEFINE ofResume == {s \in runs : s.resume_id = k}
             s == Latest(ofResume)
  <2>2. s \in ofResume /\ \A t \in ofResume : t.created_at <= s.created_at
    <3>1. ofResume # {} /\ \A t \in ofResume : t.created_at \in 0 .. stamps
      BY <2>0
    <3> HIDE DEF ofResume
    <3>2. QED
      BY <2>0, <3>1, LatestRow
  <2>3. s \in runs /\ r.created_at <= s.created_at
    BY <2>2
  <2>4. s = LatestRun(k)
    BY DEF LatestRun
  <2> HIDE DEF s
  <2>5. LatestJob.posted < s.created_at
    BY <2>0, <2>1, <2>3
  <2>6. /\ s.against \in jobs
        /\ LatestJob.created_at <= s.against.created_at
    BY <2>1, <2>3, <2>5 DEF Scored, Against
  <2>7. s.against.created_at = LatestJob.created_at
    BY <2>0, <2>1, <2>6
  <2>8. QED
    BY <2>1, <2>4, <2>6, <2>7 DEF Stamped
<1>2. QED
  BY ScreenTypesInit, ScreenTypesStep, ScoredInit, StampedStep, ScoredStep, <1>1, PTL
  DEF Screen!Spec
-----------------------------------------------------------------------------
(* Where a field was found.                                                *)

\* Sets of natural numbers that are not empty have a least element.
LEMMA LeastExists ==
  ASSUME NEW S \in SUBSET Nat, S # {}
  PROVE  \E x \in S : \A y \in S : x <= y
<1>1. PICK x \in S : \A y \in S : ~ (<<y, x>> \in OpToRel(<, Nat))
  BY NatLessThanWellFounded, WFMin, Zenon
<1>2. \A y \in S : ~ (y < x)
  BY <1>1 DEF OpToRel
<1>3. QED
  BY <1>2

\* What the loop of load_document_text has assigned after n pages.
Offsets(lengths, n, f) ==
  /\ f \in [1 .. n -> Nat]
  /\ \A q \in 1 .. n : f[q] = IF q = 1 THEN 0 ELSE f[q - 1] + lengths[q - 1]

\* One page more.
LEMMA OffsetsExtend ==
  ASSUME NEW lengths \in Seq(Nat), NEW n \in 1 .. Len(lengths), NEW f, Offsets(lengths, n - 1, f)
  PROVE  \E g : Offsets(lengths, n, g)
<1> DEFINE next == IF n = 1 THEN 0 ELSE f[n - 1] + lengths[n - 1]
           g == [q \in 1 .. n |-> IF q = n THEN next ELSE f[q]]
<1>1. next \in Nat
  <2>1. CASE n = 1
    BY <2>1
  <2>2. CASE n # 1
    <3>1. n - 1 \in 1 .. n - 1 /\ n - 1 \in 1 .. Len(lengths)
      BY <2>2
    <3>2. f[n - 1] \in Nat /\ lengths[n - 1] \in Nat
      BY <3>1 DEF Offsets
    <3>3. QED
      BY <2>2, <3>2
  <2>3. QED
    BY <2>1, <2>2
<1>2. \A q \in 1 .. n : q = n \/ (q # n /\ q \in 1 .. n - 1)
  OBVIOUS
<1>3. g \in [1 .. n -> Nat]
  <2> HIDE DEF next
  <2> QED
    BY <1>1, <1>2 DEF Offsets
<1>4. ASSUME NEW q \in 1 .. n
      PROVE  g[q] = IF q = 1 THEN 0 ELSE g[q - 1] + lengths[q - 1]
  <2>1. q = 1 \/ (q - 1 \in 1 .. n /\ q - 1 # n)
    OBVIOUS
  <2>2. q # 1 => g[q - 1] = f[q - 1]
    BY <2>1
  <2>3. CASE q = n
    BY <2>2, <2>3
  <2>4. CASE q # n
    BY <1>2, <2>2, <2>4 DEF Offsets
  <2>5. QED
    BY <2>3, <2>4
<1> HIDE DEF g
<1>5. Offsets(lengths, n, g)
  BY <1>3, <1>4 DEF Offsets
<1>6. QED
  BY <1>5

\* The loop reaches the end of every document.
LEMMA OffsetsExist ==
  ASSUME NEW lengths \in Seq(Nat)
  PROVE  \E f : Offsets(lengths, Len(lengths), f)
<1> DEFINE missing == {n \in 0 .. Len(lengths) : ~ \E f : Offsets(lengths, n, f)}
<1>1. \E f : Offsets(lengths, 0, f)
  <2>1. [q \in 1 .. 0 |-> 0] \in [1 .. 0 -> Nat] /\ 1 .. 0 = {}
    OBVIOUS
  <2>2. Offsets(lengths, 0, [q \in 1 .. 0 |-> 0])
    BY <2>1 DEF Offsets
  <2>3. QED
    BY <2>2
<1>2. missing = {}
  <2> SUFFICES ASSUME missing # {} PROVE FALSE
    OBVIOUS
  <2>0. missing \in SUBSET Nat
    OBVIOUS
  <2>1. PICK m \in missing : \A n \in missing : m <= n
    <3> HIDE DEF missing
    <3> QED
      BY <2>0, LeastExists
  <2>2. m \in 1 .. Len(lengths)
    BY <1>1, <2>1
  <2>3. m - 1 \in 0 .. Len(lengths) /\ ~ (m <= m - 1)
    BY <2>2
  <2>4. m - 1 \notin missing
    BY <2>1, <2>3
  <2>5. PICK f : Offsets(lengths, m - 1, f)
    BY <2>3, <2>4
  <2>6. \E g : Offsets(lengths, m, g)
    BY <2>2, <2>5, OffsetsExtend
  <2>7. QED
    BY <2>1, <2>6
<1>3. Len(lengths) \in 0 .. Len(lengths)
  OBVIOUS
<1>4. QED
  BY <1>2, <1>3

\* A page begins where the one before it ends.
LEMMA StartOffsets ==
  ASSUME NEW lengths \in Seq(Nat), NEW p \in DOMAIN lengths
  PROVE  StartOffset(lengths, p) =
           IF p = 1 THEN 0 ELSE StartOffset(lengths, p - 1) + lengths[p - 1]
<1> DEFINE Loop(f) == f = [q \in DOMAIN lengths |-> IF q = 1 THEN 0 ELSE f[q - 1] + lengths[q - 1]]
           f == CHOOSE g : Loop(g)
<1>1. DOMAIN lengths = 1 .. Len(lengths)
  OBVIOUS
<1>2. \E g : Loop(g)
  <2>1. PICK g : Offsets(lengths, Len(lengths), g)
    BY OffsetsExist
  <2>2. /\ g = [q \in DOMAIN lengths |-> g[q]]
        /\ \A q \in DOMAIN lengths : g[q] = IF q = 1 THEN 0 ELSE g[q - 1] + lengths[q - 1]
    BY <1>1, <2>1 DEF Offsets
  <2>3. Loop(g)
    BY <2>2
  <2>4. QED
    BY <2>3
<1>3. \A q : StartOffset(lengths, q) = f[q]
  BY DEF StartOffset
<1>4. Loop(f)
  <2> HIDE DEF Loop
  <2> QED
    BY <1>2
<1> HIDE DEF f
<1>5. QED
  BY <1>3, <1>4

\* Positions are natural numbers, and a page ends before a later one begins.
LEMMA PagesFollow ==
  ASSUME NEW lengths \in Seq(Nat)
  PROVE  /\ \A p \in DOMAIN lengths : StartOffset(lengths, p) \in Nat
         /\ \A p, q \in DOMAIN lengths :
              p < q => StartOffset(lengths, p) + lengths[p] <= StartOffset(lengths, q)
<1> DEFINE at(p) == StartOffset(lengths, p)
           size == Len(lengths)
<1>1. DOMAIN lengths = 1 .. size /\ size \in Nat
  OBVIOUS
<1>2. \A p \in 1 .. size : lengths[p] \in Nat
  OBVIOUS
<1>3. \A p \in 1 .. size : at(p) = IF p = 1 THEN 0 ELSE at(p - 1) + lengths[p - 1]
  BY <1>1, StartOffsets
<1> HIDE DEF at, size
<1>4. \A p \in 1 .. size : at(p) \in Nat
  <2> DEFINE odd == {p \in 1 .. size : at(p) \notin Nat}
  <2> SUFFICES ASSUME odd # {} PROVE FALSE
    OBVIOUS
  <2>0. odd \in SUBSET Nat
    OBVIOUS
  <2>1. PICK m \in odd : \A n \in odd : m <= n
    <3> HIDE DEF odd
    <3> QED
      BY <2>0, LeastExists
  <2>2. m # 1
    BY <1>3, <2>1
  <2>3. m - 1 \in 1 .. size /\ ~ (m <= m - 1)
    BY <1>1, <2>1, <2>2
  <2>4. at(m - 1) \in Nat
    BY <2>1, <2>3
  <2>5. at(m) = at(m - 1) + lengths[m - 1]
    BY <1>3, <2>1, <2>2
  <2>6. QED
    BY <1>2, <2>1, <2>3, <2>4, <2>5
<1>5. ASSUME NEW p \in 1 .. size
      PROVE  \A q \in 1 .. size : p < q => at(p) + lengths[p] <= at(q)
  <2> DEFINE odd == {q \in 1 .. size : p < q /\ ~ (at(p) + lengths[p] <= at(q))}
  <2> SUFFICES ASSUME odd # {} PROVE FALSE
    OBVIOUS
  <2>0. odd \in SUBSET Nat
    OBVIOUS
  <2>1. PICK m \in odd : \A n \in odd : m <= n
    <3> HIDE DEF odd
    <3> QED
      BY <2>0, LeastExists
  <2>2. m - 1 \in 1 .. size /\ ~ (m <= m - 1) /\ m # 1 /\ (p = m - 1 \/ p < m - 1)
    BY <1>1, <2>1
  <2>3. at(m) = at(m - 1) + lengths[m - 1]
    BY <1>3, <2>1, <2>2
  <2>4. at(p) \in Nat /\ lengths[p] \in Nat /\ at(m - 1) \in Nat /\ lengths[m - 1] \in Nat
    BY <1>2, <1>4, <2>2
  <2>5. at(p) + lengths[p] <= at(m)
    <3>1. CASE p = m - 1
      BY <2>3, <2>4, <3>1
    <3>2. CASE p < m - 1
      <4>1. at(p) + lengths[p] <= at(m - 1)
        BY <2>1, <2>2, <3>2
      <4>2. QED
        BY <2>3, <2>4, <4>1
    <3>3. QED
      BY <2>2, <3>1, <3>2
  <2>6. QED
    BY <2>1, <2>5
<1>6. QED
  BY <1>1, <1>4, <1>5 DEF at

\* Spans of pages leave out the breaks between them, of which there is one
\* before every page but the first: a position names its page while it is that
\* far from the page's end, and later pages or none after that.
LEMMA LocatesThePage ==
  ASSUME NEW lengths \in Seq(Nat), NEW page \in DOMAIN lengths, NEW at \in 0 .. lengths[page] - 1
  PROVE  LET found == Locate(lengths, InFullText(lengths, page, at))
         IN  IF at < lengths[page] - (page - 1)
             THEN found = page
             ELSE found = 0 \/ found > page
<1> DEFINE start == InFullText(lengths, page, at)
           from(p) == StartOffset(lengths, p)
           size == Len(lengths)
           holding == {p \in DOMAIN lengths : from(p) <= start /\ start < from(p) + lengths[p]}
           found == Locate(lengths, start)
<1>1. DOMAIN lengths = 1 .. size /\ size \in Nat
  OBVIOUS
<1>2. \A p \in 1 .. size : lengths[p] \in Nat
  OBVIOUS
<1>3. /\ \A p \in 1 .. size : from(p) \in Nat
      /\ \A p, q \in 1 .. size : p < q => from(p) + lengths[p] <= from(q)
  BY <1>1, PagesFollow
<1>4. start = from(page) + (page - 1) + at
  BY DEF InFullText
<1>5. found = IF holding = {} THEN 0 ELSE CHOOSE p \in holding : TRUE
  BY DEF Locate
<1> HIDE DEF start, from, size, found
<1>6. /\ start \in Nat /\ from(page) <= start /\ page \in 1 .. size
      /\ start < from(page) + lengths[page] <=> at < lengths[page] - (page - 1)
  <2>1. page \in 1 .. size /\ page \in Nat /\ 1 <= page
    BY <1>1
  <2>2. from(page) \in Nat /\ lengths[page] \in Nat
    BY <1>2, <1>3, <2>1
  <2>3. at \in Nat
    BY <2>2
  <2>4. \A f, l, a \in Nat, p \in Nat \ {0} :
          /\ f + (p - 1) + a \in Nat /\ f <= f + (p - 1) + a
          /\ f + (p - 1) + a < f + l <=> a < l - (p - 1)
    OBVIOUS
  <2>5. page \in Nat \ {0}
    BY <2>1
  <2>6. /\ from(page) + (page - 1) + at \in Nat /\ from(page) <= from(page) + (page - 1) + at
        /\ from(page) + (page - 1) + at < from(page) + lengths[page] <=> at < lengths[page] - (page - 1)
    BY <2>2, <2>3, <2>4, <2>5
  <2>7. QED
    BY <1>4, <2>1, <2>6
<1>7. \A p \in holding : p \in 1 .. size /\ ~ (p < page)
  <2> SUFFICES ASSUME NEW p \in holding, p < page PROVE FALSE
    BY <1>1
  <2>1. from(p) + lengths[p] <= from(page) /\ from(p) \in Nat /\ lengths[p] \in Nat /\ from(page) \in Nat
    BY <1>1, <1>2, <1>3, <1>6
  <2>2. start < from(p) + lengths[p]
    OBVIOUS
  <2>3. QED
    BY <1>6, <2>1, <2>2
<1>8. CASE at < lengths[page] - (page - 1)
  <2>1. page \in holding
    BY <1>6, <1>8
  <2>2. ASSUME NEW p \in holding PROVE p = page
    <3>1. p \in 1 .. size /\ p >= page /\ from(p) <= start
      BY <1>6, <1>7
    <3>2. CASE p > page
      <4>1. from(page) + lengths[page] <= from(p) /\ from(p) \in Nat /\ lengths[page] \in Nat
        BY <1>2, <1>3, <1>6, <3>1, <3>2
      <4>2. from(page) \in Nat /\ start < from(page) + lengths[page]
        BY <1>3, <1>6, <1>8
      <4>3. QED
        BY <1>6, <3>1, <4>1, <4>2
    <3>3. QED
      BY <1>6, <3>1, <3>2
  <2>3. found = page
    <3> HIDE DEF holding
    <3> QED
      BY <1>5, <2>1, <2>2
  <2>4. QED
    BY <1>8, <2>3 DEF found, start
<1>9. CASE ~ (at < lengths[page] - (page - 1))
  <2>1. page \notin holding
    BY <1>6, <1>9
  <2>2. \A p \in holding : p > page
    BY <1>6, <1>7, <2>1
  <2>3. found = 0 \/ found > page
    <3> HIDE DEF holding
    <3> QED
      BY <1>5, <2>2
  <2>4. QED
    BY <1>9, <2>3 DEF found, start
<1>10. QED
  BY <1>8, <1>9

\* The instance extracts as it is done here.
LEMMA SameExtraction ==
  ASSUME NEW d
  PROVE  Screen!ResumeRow(d) =
           [content_hash |-> d.hash, fields |-> ExtractFields(d), document |-> d]
<1>1. \A lengths, p : Screen!StartOffset(lengths, p) = StartOffset(lengths, p)
  BY DEF Screen!StartOffset, StartOffset
<1>2. ASSUME NEW lengths, NEW start
      PROVE  Screen!Locate(lengths, start) = Locate(lengths, start)
  <2> DEFINE holding == {p \in DOMAIN lengths :
                           /\ StartOffset(lengths, p) <= start
                           /\ start < StartOffset(lengths, p) + lengths[p]}
             heard == {p \in DOMAIN lengths :
                         /\ Screen!StartOffset(lengths, p) <= start
                         /\ start < Screen!StartOffset(lengths, p) + lengths[p]}
  <2>1. heard = holding
    BY <1>1
  <2>2. Locate(lengths, start) = IF holding = {} THEN 0 ELSE CHOOSE p \in holding : TRUE
    BY DEF Locate
  <2>3. Screen!Locate(lengths, start) = IF heard = {} THEN 0 ELSE CHOOSE p \in heard : TRUE
    BY DEF Screen!Locate
  <2> HIDE DEF holding, heard
  <2>4. QED
    BY <2>1, <2>2, <2>3
<1>3. \A lengths, p, at : Screen!InFullText(lengths, p, at) = InFullText(lengths, p, at)
  BY <1>1 DEF Screen!InFullText, InFullText
<1>4. \A name, mark : Screen!FieldRow(d, name, mark) = FieldRow(d, name, mark)
  BY <1>2, <1>3 DEF Screen!FieldRow, FieldRow
<1>5. Screen!BestClaim(d) = BestClaim(d)
  BY DEF Screen!BestClaim, BestClaim
<1>6. Screen!ExtractFields(d) = ExtractFields(d)
  BY <1>4, <1>5 DEF Screen!ExtractFields, ExtractFields
<1>7. QED
  BY <1>6 DEF Screen!ResumeRow

\* The row of a mark names its page, but at the end of the page.
LEMMA RowNamesThePage ==
  ASSUME NEW d \in Documents, NEW name, NEW mark, OnItsPage(d, mark)
  PROVE  LET row == FieldRow(d, name, mark)
         IN  /\ row.value = mark.value
             /\ row.start_offset = InFullText(d.lengths, mark.page, mark.at)
             /\ IF mark.at < d.lengths[mark.page] - (mark.page - 1)
                THEN row.page_number = mark.page
                ELSE row.page_number = 0 \/ row.page_number > mark.page
<1> DEFINE start == InFullText(d.lengths, mark.page, mark.at)
           found == Locate(d.lengths, start)
<1>1. IF mark.at < d.lengths[mark.page] - (mark.page - 1)
      THEN found = mark.page
      ELSE found = 0 \/ found > mark.page
  BY DocumentsAssumption, LocatesThePage DEF OnItsPage
<1>2. FieldRow(d, name, mark) =
        [field_name |-> name, value |-> mark.value, start_offset |-> start, page_number |-> found]
  BY DEF FieldRow
<1> HIDE DEF start, found
<1>3. QED
  BY <1>1, <1>2 DEF start

\* However long a document and its pages: a field names the page it was found
\* on, but the fields at the end of a page, after which the positions of pages
\* and of the text they are joined into have come apart.
THEOREM FieldsAreLocated == Screen!Spec => []FieldsNameTheirPage
<1>1. ScreenTypes => FieldsNameTheirPage
  <2> SUFFICES ASSUME ScreenTypes, NEW k \in DOMAIN resumes
               PROVE  LET document == resumes[k].document
                          Named(marks, rs) ==
                            \A mark \in marks : \E row \in rs :
                              /\ row.value = mark.value
                              /\ row.start_offset = InFullText(document.lengths, mark.page, mark.at)
                              /\ IF mark.at < document.lengths[mark.page] - (mark.page - 1)
                                 THEN row.page_number = mark.page
                                 ELSE row.page_number = 0 \/ row.page_number > mark.page
                      IN  /\ Named(document.skills, resumes[k].fields.skills)
                          /\ Named(BestClaim(document), resumes[k].fields.years)
    BY DEF FieldsNameTheirPage
  <2>1. PICK d \in Documents : resumes[k] = Screen!ResumeRow(d)
    BY DEF ScreenTypes
  <2>2. /\ resumes[k].document = d
        /\ resumes[k].fields.skills = {FieldRow(d, "skill", s) : s \in d.skills}
        /\ resumes[k].fields.years =
             {FieldRow(d, "years_experience_claimed", c) : c \in BestClaim(d)}
    <3>1. resumes[k] = [content_hash |-> d.hash, fields |-> ExtractFields(d), document |-> d]
      BY <2>1, SameExtraction
    <3>2. resumes[k].document = d /\ resumes[k].fields = ExtractFields(d)
      BY <3>1
    <3>3. /\ ExtractFields(d).skills = {FieldRow(d, "skill", s) : s \in d.skills}
          /\ ExtractFields(d).years =
               {FieldRow(d, "years_experience_claimed", c) : c \in BestClaim(d)}
      BY DEF ExtractFields
    <3>4. QED
      BY <3>2, <3>3
  <2>3. ASSUME NEW mark \in d.skills
        PROVE  LET row == FieldRow(d, "skill", mark)
               IN  /\ row.value = mark.value
                   /\ row.start_offset = InFullText(d.lengths, mark.page, mark.at)
                   /\ IF mark.at < d.lengths[mark.page] - (mark.page - 1)
                      THEN row.page_number = mark.page
                      ELSE row.page_number = 0 \/ row.page_number > mark.page
    BY RowNamesThePage, DocumentsAssumption
  <2>4. ASSUME NEW mark \in BestClaim(d)
        PROVE  LET row == FieldRow(d, "years_experience_claimed", mark)
               IN  /\ row.value = mark.value
                   /\ row.start_offset = InFullText(d.lengths, mark.page, mark.at)
                   /\ IF mark.at < d.lengths[mark.page] - (mark.page - 1)
                      THEN row.page_number = mark.page
                      ELSE row.page_number = 0 \/ row.page_number > mark.page
    <3>1. mark \in d.years
      BY DEF BestClaim
    <3>2. QED
      BY <3>1, RowNamesThePage, DocumentsAssumption
  <2>5. QED
    BY <2>2, <2>3, <2>4
<1>2. QED
  BY <1>1, ScreenTypesInit, ScreenTypesStep, PTL DEF Screen!Spec
-----------------------------------------------------------------------------
(* Versions.                                                               *)

\* Versions are no larger than the counts they are taken from can have made
\* them by now, and runs are of rows there are.
Versioned ==
  /\ stamps <= MaxRequests
  /\ requisition.version \in 1 .. stamps + 1
  /\ \A k \in DOMAIN profiles : profiles[k].version \in 1 .. Len(profiles)
  /\ \A r \in runs : r.resume_id \in DOMAIN resumes /\ r.weight_profile_id \in DOMAIN profiles
  /\ \A i \in Slots : handled[i].op = "update" => handled[i].version \in 1 .. stamps + 1
  /\ \A i \in Slots : handled[i].op = "profile" => handled[i].row.version \in 1 .. Len(profiles) + 1
  /\ overlapped \subseteq {"upload", "profile", "update"}

\* Requests are bounded, and of three operations it is noted that they overlap.
LEMMA BeginsInTime ==
  ASSUME NEW i \in Slots, Beginning(i)
  PROVE  /\ stamps < MaxRequests
         /\ overlapped' \subseteq overlapped \union {"upload", "profile", "update"}
<1>1. \E w : Screen!Begin(i, w)
  BY DEF Beginning, Screen!BeginDescribe, Screen!BeginUpload, Screen!BeginProfile,
         Screen!BeginUpdate, Screen!BeginDelete, Screen!BeginScore
<1>2. QED
  BY <1>1 DEF Screen!Begin

\* No more profiles have a name than there are profiles.
LEMMA CountedProfiles ==
  ASSUME ScreenTypes, NEW n
  PROVE  Count(n) \in 0 .. Len(profiles)
<1>1. DOMAIN profiles = 1 .. Len(profiles) /\ Len(profiles) \in Nat
  BY DEF ScreenTypes
<1> DEFINE named == {k \in DOMAIN profiles : profiles[k].name = n}
<1>2. IsFiniteSet(1 .. Len(profiles)) /\ Cardinality(1 .. Len(profiles)) = Len(profiles)
  <2>1. \A m \in Nat : IsFiniteSet(1 .. m) /\ Cardinality(1 .. m) = m
    <3> TAKE m \in Nat
    <3>1. Cardinality(1 .. m) = IF 1 > m THEN 0 ELSE m - 1 + 1
      BY FS_Interval
    <3>2. QED
      BY <3>1, FS_Interval
  <2>2. QED
    BY <1>1, <2>1
<1>3. named \subseteq 1 .. Len(profiles)
  BY <1>1
<1>4. Cardinality(named) <= Cardinality(1 .. Len(profiles))
  <2> HIDE DEF named
  <2> QED
    BY <1>2, <1>3, FS_Subset
<1>5. Count(n) \in Nat
  BY Counted
<1>6. Count(n) <= Len(profiles)
  BY <1>2, <1>4 DEF Count
<1>7. QED
  BY <1>1, <1>5, <1>6

\* In the initial state.
LEMMA VersionedInit == ASSUME MaxRequests \in Nat, Screen!Init PROVE Versioned
<1>1. ScreenTypes
  BY ScreenTypesInit
<1>2. \A i \in Slots : handled[i].op = "idle"
  BY DEF Screen!Init, Screen!Idle
<1>3. stamps = 0 /\ requisition.version = 1 /\ runs = {} /\ overlapped = {}
  BY DEF Screen!Init
<1>4. \A k \in DOMAIN profiles : profiles[k].version \in 1 .. Len(profiles)
  <2>1. CASE profiles = << >>
    BY <2>1
  <2>2. ASSUME NEW n, NEW b, profiles = <<Screen!ProfileRow(n, 1, b)>>
        PROVE  \A k \in DOMAIN profiles : profiles[k].version \in 1 .. Len(profiles)
    <3> DEFINE row == Screen!ProfileRow(n, 1, b)
    <3>1. row.version = 1
      BY DEF Screen!ProfileRow
    <3> HIDE DEF row
    <3>2. profiles = <<row>>
      BY <2>2 DEF row
    <3>3. QED
      BY <3>1, <3>2
  <2>3. QED
    BY <2>1, <2>2 DEF Screen!Init
<1>5. QED
  BY <1>2, <1>3, <1>4 DEF Versioned

\* Every request keeps it.
LEMMA VersionedStep ==
  ASSUME MaxRequests \in Nat, ScreenTypes, Versioned, [Screen!Next]_(Screen!vars)
  PROVE  Versioned'
<1>0. /\ stamps \in Nat /\ DOMAIN handled = Slots
      /\ \A i \in Slots : Carried(handled[i])
      /\ Len(profiles) \in Nat /\ DOMAIN profiles = 1 .. Len(profiles)
  BY DEF ScreenTypes
<1>1. CASE UNCHANGED Screen!vars
  BY <1>1 DEF Versioned, Screen!vars
<1>2. ASSUME NEW i \in Slots, Beginning(i)
      PROVE  Versioned'
  <2>1. /\ stamps' = stamps + 1 /\ UNCHANGED <<requisition, jobs, resumes, profiles, runs>>
        /\ \A q \in Slots \ {i} : handled'[q] = handled[q]
    BY <1>0, <1>2, BeginsAlone
  <2>2. stamps' <= MaxRequests /\ overlapped' \subseteq {"upload", "profile", "update"}
    <3>1. stamps < MaxRequests /\ overlapped' \subseteq overlapped \union {"upload", "profile", "update"}
      BY <1>2, BeginsInTime
    <3>2. QED
      BY <1>0, <2>1, <3>1 DEF Versioned
  <2>3. requisition'.version \in 1 .. stamps' + 1
    BY <1>0, <2>1 DEF Versioned
  <2>4. handled'[i].op = "update" => handled'[i].version \in 1 .. stamps' + 1
    <3>1. handled'[i].op = "update" => handled'[i].version = requisition.version + 1
      BY <1>0, <1>2, BeginsAlone
    <3>2. QED
      BY <1>0, <2>1, <3>1 DEF Versioned
  <2>5. handled'[i].op = "profile" => handled'[i].row.version \in 1 .. Len(profiles) + 1
    <3>1. handled'[i].op = "profile" =>
            \E n \in Names, b \in Bodies : handled'[i].row = Screen!ProfileRow(n, Count(n) + 1, b)
      BY <1>0, <1>2, BeginsAlone
    <3>2. \A n, v, b : Screen!ProfileRow(n, v, b).version = v
      BY DEF Screen!ProfileRow
    <3>3. \A n : Count(n) + 1 \in 1 .. Len(profiles) + 1
      BY <1>0, CountedProfiles
    <3>4. QED
      BY <3>1, <3>2, <3>3
  <2>6. \A q \in Slots \ {i} :
          /\ handled'[q].op = "update" => handled'[q].version \in 1 .. stamps' + 1
          /\ handled'[q].op = "profile" => handled'[q].row.version \in 1 .. Len(profiles) + 1
    BY <1>0, <2>1 DEF Versioned
  <2>7. QED
    BY <2>1, <2>2, <2>3, <2>4, <2>5, <2>6 DEF Versioned
<1>3. ASSUME NEW i \in Slots, Screen!LoadJob(i)
      PROVE  Versioned'
  <2>1. /\ UNCHANGED <<stamps, requisition, jobs, resumes, profiles, runs, overlapped>>
        /\ \A q \in Slots \ {i} : handled'[q] = handled[q]
        /\ handled'[i].op = "score"
    BY <1>3, Loads
  <2>2. QED
    BY <2>1 DEF Versioned
<1>4. ASSUME NEW i \in Slots, Ending(i)
      PROVE  Versioned'
  <2>1. /\ \A q \in Slots \ {i} : handled'[q] = handled[q]
        /\ UNCHANGED <<stamps, overlapped>>
        /\ handled'[i].op = "idle"
    BY <1>0, <1>4, EndsAlone DEF Screen!Idle
  <2>2. Carried(handled[i])
    BY <1>0
  <2>3. CASE Screen!Describe(i) \/ Screen!Fail(i) \/ Screen!Delete(i)
    <3>1. UNCHANGED <<resumes, profiles, runs>> /\ requisition'.version = requisition.version
      BY <2>3 DEF Screen!Describe, Screen!Fail, Screen!Delete, ScreenTypes
    <3>2. QED
      BY <2>1, <3>1 DEF Versioned
  <2>4. CASE Screen!Upload(i)
    <3>1. /\ UNCHANGED <<requisition, profiles, runs>>
          /\ resumes' = Append(resumes, Screen!ResumeRow(handled[i].document))
          /\ resumes \in Seq({Screen!ResumeRow(d) : d \in Documents})
          /\ handled[i].document \in Documents
      BY <2>2, <2>4 DEF Screen!Upload, Screen!Committed, ScreenTypes, Carried
    <3>2. DOMAIN resumes \subseteq DOMAIN resumes'
      BY <3>1
    <3>3. QED
      BY <2>1, <3>1, <3>2 DEF Versioned
  <2>5. CASE Screen!Profile(i)
    <3>1. /\ UNCHANGED <<requisition, resumes, runs>>
          /\ profiles' = Append(profiles, handled[i].row)
          /\ handled[i].op = "profile"
      BY <2>5 DEF Screen!Profile
    <3>2. handled[i].row.version \in 1 .. Len(profiles) + 1
      BY <3>1 DEF Versioned
    <3>3. profiles \in Seq(ProfileRows) /\ handled[i].row \in ProfileRows
      BY <2>2, <3>1 DEF ScreenTypes, Carried
    <3>4. /\ Len(profiles') = Len(profiles) + 1 /\ DOMAIN profiles \subseteq DOMAIN profiles'
          /\ \A k \in DOMAIN profiles' :
               \/ k \in DOMAIN profiles /\ profiles'[k] = profiles[k]
               \/ profiles'[k] = handled[i].row
      BY <3>1, <3>3
    <3>5. 1 .. Len(profiles) \subseteq 1 .. Len(profiles) + 1
          /\ 1 .. Len(profiles) + 1 \subseteq 1 .. Len(profiles) + 1 + 1
      BY <1>0
    <3>6. \A k \in DOMAIN profiles' : profiles'[k].version \in 1 .. Len(profiles')
      BY <3>2, <3>4, <3>5 DEF Versioned
    <3>7. \A q \in Slots : handled'[q].op = "profile" =>
            handled'[q].row.version \in 1 .. Len(profiles') + 1
      BY <2>1, <3>4, <3>5 DEF Versioned
    <3>8. QED
      BY <2>1, <3>1, <3>4, <3>6, <3>7 DEF Versioned
  <2>6. CASE Screen!Update(i)
    <3>1. /\ UNCHANGED <<resumes, profiles, runs>>
          /\ requisition'.version = handled[i].version
          /\ handled[i].op = "update"
      BY <2>6 DEF Screen!Update, Screen!Committed, ScreenTypes
    <3>2. QED
      BY <2>1, <3>1 DEF Versioned
  <2>7. CASE Screen!Score(i)
    <3>1. /\ UNCHANGED <<requisition, resumes, profiles>>
          /\ handled[i].op = "score"
      BY <2>7 DEF Screen!Score
    <3>2. handled[i].resume_id \in DOMAIN resumes /\ handled[i].weight_profile_id \in DOMAIN profiles
      BY <2>2, <3>1 DEF Carried
    <3>3. \A r \in runs' : \/ r \in runs
                           \/ /\ r.resume_id = handled[i].resume_id
                              /\ r.weight_profile_id = handled[i].weight_profile_id
      BY <2>7 DEF Screen!Score, Screen!ScoringRun
    <3>4. QED
      BY <2>1, <3>1, <3>2, <3>3 DEF Versioned
  <2>8. QED
    BY <1>4, <2>3, <2>4, <2>5, <2>6, <2>7 DEF Ending
<1>5. QED
  BY <1>1, <1>2, <1>3, <1>4, ScreenMoves

\* The rows and requests of Screening are always well formed: runs are of
\* resumes and profiles there are, and the versions that requests compute from
\* what they counted stay within what was begun.
THEOREM ScreeningIsTyped ==
  ASSUME MaxRequests \in Nat
  PROVE  Screen!Spec => []Screen!TypeOK
<1>1. ScreenTypes /\ Versioned => Screen!TypeOK
  <2> SUFFICES ASSUME ScreenTypes, Versioned PROVE Screen!TypeOK
    OBVIOUS
  <2>1. stamps \in Nat /\ stamps <= MaxRequests
    BY DEF ScreenTypes, Versioned
  <2>2. requisition.version \in 1 .. MaxRequests + 1
    BY <2>1 DEF Versioned
  <2>3. \A j \in jobs : j.created_at \in 0 .. stamps /\ j.posted \in 0 .. stamps /\ j.job \in JobPosts
    BY <2>1 DEF ScreenTypes, JobRows
  <2>4. \A k \in DOMAIN resumes : resumes[k] \in {Screen!ResumeRow(d) : d \in Documents}
    BY DEF ScreenTypes
  <2>5. \A k \in DOMAIN profiles : profiles[k].name \in Names
    <3>1. \A k \in DOMAIN profiles : profiles[k] \in ProfileRows
      BY DEF ScreenTypes
    <3>2. QED
      BY <3>1 DEF ProfileRows, Screen!ProfileRow
  <2>6. \A i \in Slots : handled[i] = Screen!Idle \/ handled[i].created_at \in 1 .. stamps
    BY DEF ScreenTypes, Carried
  <2>7. requisition.title \in Titles /\ requisition.removed \in BOOLEAN
    BY DEF ScreenTypes
  <2>8. QED
    BY <2>1, <2>2, <2>3, <2>4, <2>5, <2>6, <2>7 DEF Versioned, Screen!TypeOK
<1>2. Screen!Init => Versioned
  BY VersionedInit
<1>3. ScreenTypes /\ Versioned /\ [Screen!Next]_(Screen!vars) => Versioned'
  BY VersionedStep
<1>4. QED
  BY <1>1, <1>2, <1>3, ScreenTypesInit, ScreenTypesStep, PTL DEF Screen!Spec
-----------------------------------------------------------------------------
(* Sums.                                                                   *)

\* Of sets of subsets there is one none of whose own subsets, by one element
\* smaller, is among them.
LEMMA SmallestSet ==
  ASSUME NEW S, IsFiniteSet(S), NEW odd \in SUBSET SUBSET S, odd # {}
  PROVE  \E s \in odd : \A x \in s : s \ {x} \notin odd
<1> DEFINE sizes == {Cardinality(s) : s \in odd}
<1>1. \A s \in odd : IsFiniteSet(s) /\ Cardinality(s) \in Nat
  BY FS_Subset, FS_CardinalityType
<1>2. sizes \in SUBSET Nat /\ sizes # {}
  BY <1>1
<1>3. PICK n \in sizes : \A m \in sizes : n <= m
  <2> HIDE DEF sizes
  <2> QED
    BY <1>2, LeastExists
<1>4. PICK s \in odd : Cardinality(s) = n
  BY <1>3
<1>5. ASSUME NEW x \in s, s \ {x} \in odd PROVE FALSE
  <2>1. Cardinality(s \ {x}) = Cardinality(s) - 1
    BY <1>1, FS_RemoveElement
  <2>2. n <= Cardinality(s \ {x})
    BY <1>3, <1>5
  <2>3. QED
    BY <1>1, <1>4, <2>1, <2>2
<1>6. QED
  BY <1>5

\* What FoldFunction adds up of f over the subsets in T: one element after
\* another.
Summing(f, T, it) ==
  it = [s \in T |-> IF s = {} THEN 0
                    ELSE f[CHOOSE x \in s : TRUE] + it[s \ {CHOOSE x \in s : TRUE}]]

\* Sets of one element more.
LEMMA SummingExtends ==
  ASSUME NEW S, IsFiniteSet(S), NEW f, NEW n \in Nat, NEW it,
         Summing(f, {s \in SUBSET S : Cardinality(s) <= n}, it)
  PROVE  \E jt : Summing(f, {s \in SUBSET S : Cardinality(s) <= n + 1}, jt)
<1> DEFINE small == {s \in SUBSET S : Cardinality(s) <= n}
           large == {s \in SUBSET S : Cardinality(s) <= n + 1}
           one(s) == CHOOSE x \in s : TRUE
           value(s) == IF s = {} THEN 0 ELSE f[one(s)] + it[s \ {one(s)}]
           jt == [s \in large |-> value(s)]
<1>1. \A s \in large : s # {} => one(s) \in s /\ s \ {one(s)} \in small /\ s \ {one(s)} \in large
  <2> SUFFICES ASSUME NEW s \in large, s # {}
               PROVE  one(s) \in s /\ s \ {one(s)} \in small /\ s \ {one(s)} \in large
    OBVIOUS
  <2>1. one(s) \in s
    OBVIOUS
  <2> HIDE DEF one
  <2>2. IsFiniteSet(s) /\ Cardinality(s) \in Nat
    BY FS_Subset, FS_CardinalityType
  <2>3. Cardinality(s \ {one(s)}) = Cardinality(s) - 1
    BY <2>1, <2>2, FS_RemoveElement
  <2>4. QED
    BY <2>1, <2>2, <2>3
<1>2. \A s \in small : it[s] = value(s)
  BY DEF Summing
<1>3. \A s \in small : s \in large /\ jt[s] = it[s]
  <2> SUFFICES ASSUME NEW s \in small PROVE s \in large /\ jt[s] = it[s]
    OBVIOUS
  <2>1. Cardinality(s) \in Nat
    BY FS_Subset, FS_CardinalityType
  <2>2. s \in large
    BY <2>1
  <2> HIDE DEF value, large, small
  <2>3. QED
    BY <1>2, <2>2
<1>4. \A s \in large : jt[s] = IF s = {} THEN 0 ELSE f[one(s)] + jt[s \ {one(s)}]
  <2> SUFFICES ASSUME NEW s \in large
               PROVE  jt[s] = IF s = {} THEN 0 ELSE f[one(s)] + jt[s \ {one(s)}]
    OBVIOUS
  <2>1. jt[s] = value(s)
    OBVIOUS
  <2>2. s # {} => jt[s \ {one(s)}] = it[s \ {one(s)}]
    BY <1>1, <1>3
  <2> HIDE DEF jt, one
  <2>3. QED
    BY <2>1, <2>2
<1>5. jt = [s \in large |-> jt[s]]
  OBVIOUS
<1> HIDE DEF jt
<1>6. jt = [s \in large |-> IF s = {} THEN 0 ELSE f[one(s)] + jt[s \ {one(s)}]]
  BY <1>4, <1>5
<1>7. Summing(f, large, jt)
  BY <1>6 DEF Summing
<1>8. QED
  BY <1>7

\* The sum of a function with finitely many arguments is made step by step.
LEMMA SummingExists ==
  ASSUME NEW S, IsFiniteSet(S), NEW f
  PROVE  \E it : Summing(f, SUBSET S, it)
<1> DEFINE upto(n) == {s \in SUBSET S : Cardinality(s) <= n}
           missing == {n \in Nat : ~ \E it : Summing(f, upto(n), it)}
<1>1. \E it : Summing(f, upto(0), it)
  <2>1. \A s \in upto(0) : s = {}
    <3> TAKE s \in upto(0)
    <3>1. IsFiniteSet(s) /\ Cardinality(s) \in Nat
      BY FS_Subset, FS_CardinalityType
    <3>2. QED
      BY <3>1, FS_EmptySet
  <2>2. Summing(f, upto(0), [s \in upto(0) |-> 0])
    <3> HIDE DEF upto
    <3> QED
      BY <2>1 DEF Summing
  <2>3. QED
    BY <2>2
<1>2. missing = {}
  <2> SUFFICES ASSUME missing # {} PROVE FALSE
    OBVIOUS
  <2>0. missing \in SUBSET Nat
    OBVIOUS
  <2>1. PICK m \in missing : \A n \in missing : m <= n
    <3> HIDE DEF missing
    <3> QED
      BY <2>0, LeastExists
  <2>2. m \in Nat /\ m # 0
    BY <1>1, <2>1
  <2>3. m - 1 \in Nat /\ m - 1 + 1 = m /\ ~ (m <= m - 1)
    BY <2>2
  <2>4. PICK it : Summing(f, upto(m - 1), it)
    BY <2>1, <2>3
  <2>5. \E jt : Summing(f, upto(m - 1 + 1), jt)
    BY <2>3, <2>4, SummingExtends
  <2>6. QED
    BY <2>1, <2>3, <2>5
<1>3. Cardinality(S) \in Nat
  BY FS_CardinalityType
<1>4. PICK it : Summing(f, upto(Cardinality(S)), it)
  BY <1>2, <1>3
<1>5. upto(Cardinality(S)) = SUBSET S
  BY FS_Subset
<1>6. QED
  BY <1>4, <1>5

\* The summand that is added last.
OneOf(s) == CHOOSE x \in s : TRUE

\* The sum of all values of f, as scoring.py adds up.
Total(f) == FoldFunction(+, 0, f)

\* The sum of f, as the sums over all subsets of its arguments: nothing for
\* the empty one, one summand after another for the others.
AddedUp(f, it) ==
  /\ Total(f) = it[DOMAIN f]
  /\ it[{}] = 0
  /\ \A s \in SUBSET DOMAIN f : s # {} =>
       OneOf(s) \in s /\ it[s] = f[OneOf(s)] + it[s \ {OneOf(s)}]

\* Every sum over finitely many arguments comes about so.
LEMMA SumsAdd ==
  ASSUME NEW f, IsFiniteSet(DOMAIN f)
  PROVE  \E it : AddedUp(f, it)
<1> DEFINE S == DOMAIN f
           it == CHOOSE jt : Summing(f, SUBSET S, jt)
<1>1. Summing(f, SUBSET S, it)
  BY SummingExists
<1>2. FoldFunction(+, 0, f) = it[S]
  BY DEF FoldFunction, FoldFunctionOnSet, MapThenFoldSet, Summing
<1> HIDE DEF it
<1>3. Total(f) = it[DOMAIN f]
  BY <1>2 DEF Total
<1>4. it[{}] = 0
  BY <1>1 DEF Summing
<1>5. \A s \in SUBSET S : s # {} =>
        OneOf(s) \in s /\ it[s] = f[OneOf(s)] + it[s \ {OneOf(s)}]
  BY <1>1 DEF Summing, OneOf
<1>6. AddedUp(f, it)
  BY <1>3, <1>4, <1>5 DEF AddedUp
<1>7. QED
  BY <1>6

\* Sums of integers compare as their summands do, also by a factor.
LEMMA SumsCompare ==
  ASSUME NEW S, IsFiniteSet(S), NEW f \in [S -> Int], NEW g \in [S -> Int], NEW k \in Int
  PROVE  /\ Total(f) \in Int
         /\ (\A x \in S : f[x] <= k * g[x]) => Total(f) <= k * Total(g)
         /\ (\A x \in S : k * g[x] <= f[x]) => k * Total(g) <= Total(f)
<1>0. DOMAIN f = S /\ DOMAIN g = S
  OBVIOUS
<1>1. PICK it : AddedUp(f, it)
  BY <1>0, SumsAdd
<1>2. PICK jt : AddedUp(g, jt)
  BY <1>0, SumsAdd
<1> DEFINE Right(s) ==
      /\ it[s] \in Int /\ jt[s] \in Int
      /\ (\A x \in S : f[x] <= k * g[x]) => it[s] <= k * jt[s]
      /\ (\A x \in S : k * g[x] <= f[x]) => k * jt[s] <= it[s]
<1>3. Right({})
  <2>1. it[{}] = 0 /\ jt[{}] = 0 /\ k * 0 = 0
    BY <1>1, <1>2 DEF AddedUp
  <2>2. QED
    BY <2>1
<1>4. ASSUME NEW s \in SUBSET S, s # {}, Right(s \ {OneOf(s)})
      PROVE  Right(s)
  <2> DEFINE x == OneOf(s)
             rest == s \ {x}
  <2>1. x \in S /\ it[s] = f[x] + it[rest] /\ jt[s] = g[x] + jt[rest]
    BY <1>0, <1>1, <1>2, <1>4 DEF AddedUp
  <2>2. f[x] \in Int /\ g[x] \in Int /\ it[rest] \in Int /\ jt[rest] \in Int
    BY <1>4, <2>1
  <2>3. /\ (\A y \in S : f[y] <= k * g[y]) => f[x] <= k * g[x] /\ it[rest] <= k * jt[rest]
        /\ (\A y \in S : k * g[y] <= f[y]) => k * g[x] <= f[x] /\ k * jt[rest] <= it[rest]
    BY <1>4, <2>1
  <2>4. \A a, b, c, d \in Int :
          /\ a <= k * c /\ b <= k * d => a + b <= k * (c + d)
          /\ k * c <= a /\ k * d <= b => k * (c + d) <= a + b
    OBVIOUS
  <2> HIDE DEF x, rest
  <2>5. /\ f[x] <= k * g[x] /\ it[rest] <= k * jt[rest] => it[s] <= k * jt[s]
        /\ k * g[x] <= f[x] /\ k * jt[rest] <= it[rest] => k * jt[s] <= it[s]
        /\ it[s] \in Int /\ jt[s] \in Int
    BY <2>1, <2>2, <2>4
  <2>6. QED
    BY <2>3, <2>5
<1>5. Right(S)
  <2> DEFINE odd == {s \in SUBSET S : ~ Right(s)}
  <2> HIDE DEF Right
  <2> SUFFICES ASSUME odd # {} PROVE FALSE
    OBVIOUS
  <2>1. PICK s \in odd : \A x \in s : s \ {x} \notin odd
    <3>1. odd \in SUBSET SUBSET S
      OBVIOUS
    <3> HIDE DEF odd
    <3>2. QED
      BY <3>1, SmallestSet
  <2>2. s # {} /\ s \in SUBSET S
    BY <1>3, <2>1
  <2>3. OneOf(s) \in s
    BY <1>0, <1>1, <2>2 DEF AddedUp
  <2>4. Right(s \ {OneOf(s)})
    BY <2>1, <2>2, <2>3
  <2>5. QED
    BY <1>4, <2>1, <2>2, <2>4
<1>6. Total(f) = it[S] /\ Total(g) = jt[S]
  BY <1>0, <1>1, <1>2 DEF AddedUp
<1>7. QED
  BY <1>5, <1>6

-----------------------------------------------------------------------------
(* Rounded means.                                                          *)

\* The quotient and the remainder.
LEMMA Divided ==
  ASSUME NEW n \in Int, NEW d \in Nat, d > 0
  PROVE  /\ n \div d \in Int /\ n % d \in Int
         /\ n = d * (n \div d) + (n % d)
         /\ 0 <= n % d /\ n % d < d
OBVIOUS

\* Rounding to the nearest keeps the order, and what divides evenly.
LEMMA RoundedGrows ==
  ASSUME NEW m \in Int, NEW n \in Int, NEW d \in Nat, d > 0
  PROVE  /\ Rounded(m, d) \in Int
         /\ m <= n => Rounded(m, d) <= Rounded(n, d)
<1> DEFINE p == m \div d
           q == n \div d
           r == m % d
           s == n % d
<1>1. /\ p \in Int /\ r \in Int /\ m = d * p + r /\ 0 <= r /\ r < d
      /\ q \in Int /\ s \in Int /\ n = d * q + s /\ 0 <= s /\ s < d
  BY Divided
<1>2. /\ Rounded(m, d) = IF 2 * r > d \/ (2 * r = d /\ p % 2 = 1) THEN p + 1 ELSE p
      /\ Rounded(n, d) = IF 2 * s > d \/ (2 * s = d /\ q % 2 = 1) THEN q + 1 ELSE q
  BY DEF Rounded
<1> HIDE DEF p, q, r, s
<1>3. Rounded(m, d) \in {p, p + 1} /\ Rounded(n, d) \in {q, q + 1}
  BY <1>2
<1>4. ASSUME m <= n PROVE p <= q
  <2>1. \A a, b \in Int : a >= b + 1 => d * a >= d * b + d
    <3> TAKE a, b \in Int
    <3>1. \A c \in Nat : d * (b + 1 + c) = d * b + d + d * c /\ d * c >= 0
      OBVIOUS
    <3>2. a >= b + 1 => a - b - 1 \in Nat /\ a = b + 1 + (a - b - 1)
      OBVIOUS
    <3>3. QED
      BY <3>1, <3>2
  <2>2. p >= q + 1 => d * p >= d * q + d
    BY <1>1, <2>1
  <2>3. d * p \in Int /\ d * q \in Int
    BY <1>1
  <2>4. QED
    BY <1>1, <1>4, <2>2, <2>3
<1>5. ASSUME m <= n, p = q PROVE r <= s
  <2>1. d * p \in Int
    BY <1>1
  <2>2. QED
    BY <1>1, <1>5, <2>1
<1>6. ASSUME m <= n PROVE Rounded(m, d) <= Rounded(n, d)
  <2>1. CASE p = q
    BY <1>1, <1>2, <1>5, <1>6, <2>1
  <2>2. CASE p # q
    <3>1. p + 1 <= q
      BY <1>1, <1>4, <1>6, <2>2
    <3>2. QED
      BY <1>1, <1>3, <3>1
  <2>3. QED
    BY <2>1, <2>2
<1>7. QED
  BY <1>1, <1>3, <1>6

\* A mean of equal values is that value.
LEMMA RoundedExactly ==
  ASSUME NEW k \in Int, NEW d \in Nat, d > 0
  PROVE  Rounded(k * d, d) = k
<1>1. (k * d) \div d = k /\ (k * d) % d = 0
  OBVIOUS
<1>2. QED
  BY <1>1 DEF Rounded

\* Verdicts from the worst to the best.
Rank(verdict) ==
  CASE verdict = "auto_reject" -> 0
    [] verdict = "hold" -> 1
    [] verdict = "shortlist" -> 2
    [] verdict = "highly_recommended" -> 3

\* A higher total never has a worse verdict, whatever the thresholds and
\* however they are ordered.
LEMMA VerdictsGrow ==
  ASSUME NEW a \in Int, NEW b \in Int, a <= b, NEW t,
         t.auto_reject_below \in Int, t.hold_below \in Int, t.highly_recommended_at \in Int
  PROVE  Rank(AssignVerdict(a, t)) <= Rank(AssignVerdict(b, t))
<1>1. /\ Rank("auto_reject") = 0 /\ Rank("hold") = 1
      /\ Rank("shortlist") = 2 /\ Rank("highly_recommended") = 3
  BY DEF Rank
<1>2. QED
  BY <1>1 DEF AssignVerdict

\* A sum of natural numbers is positive once one of them is.
LEMMA PositiveSum ==
  ASSUME NEW S, IsFiniteSet(S), NEW f \in [S -> Nat], \E x \in S : f[x] > 0
  PROVE  Total(f) \in Nat /\ Total(f) > 0
<1>0. DOMAIN f = S
  OBVIOUS
<1>1. PICK it : AddedUp(f, it)
  BY <1>0, SumsAdd
<1> DEFINE Right(s) == it[s] \in Nat /\ ((\E x \in s : f[x] > 0) => it[s] > 0)
<1>2. Right({})
  BY <1>1 DEF AddedUp
<1>3. ASSUME NEW s \in SUBSET S, s # {}, Right(s \ {OneOf(s)})
      PROVE  Right(s)
  <2> DEFINE x == OneOf(s)
             rest == s \ {x}
  <2>1. x \in S /\ it[s] = f[x] + it[rest]
    BY <1>0, <1>1, <1>3 DEF AddedUp
  <2>2. f[x] \in Nat /\ it[rest] \in Nat
    BY <1>3, <2>1
  <2>3. (\E y \in s : f[y] > 0) => f[x] > 0 \/ it[rest] > 0
    BY <1>3
  <2> HIDE DEF x, rest
  <2>4. it[s] \in Nat /\ (f[x] > 0 \/ it[rest] > 0 => it[s] > 0)
    BY <2>1, <2>2
  <2>5. QED
    BY <2>3, <2>4
<1>4. Right(S)
  <2> DEFINE odd == {s \in SUBSET S : ~ Right(s)}
  <2> HIDE DEF Right
  <2> SUFFICES ASSUME odd # {} PROVE FALSE
    OBVIOUS
  <2>1. PICK s \in odd : \A x \in s : s \ {x} \notin odd
    <3>1. odd \in SUBSET SUBSET S
      OBVIOUS
    <3> HIDE DEF odd
    <3>2. QED
      BY <3>1, SmallestSet
  <2>2. s # {} /\ s \in SUBSET S
    BY <1>2, <2>1
  <2>3. OneOf(s) \in s
    BY <1>0, <1>1, <2>2 DEF AddedUp
  <2>4. Right(s \ {OneOf(s)})
    BY <2>1, <2>2, <2>3
  <2>5. QED
    BY <1>3, <2>1, <2>2, <2>4
<1>5. Total(f) = it[S]
  BY <1>0, <1>1 DEF AddedUp
<1>6. QED
  BY <1>4, <1>5

\* Weights a profile may have: validate_profile.
Weighing(weights, S) == weights \in [S -> Nat] /\ \E x \in S : weights[x] > 0

\* What compute_total_score adds up.
Weighted(scores, weights) == [x \in DOMAIN weights |-> scores[x].score * weights[x]]

\* The total is a mean, whatever the weights: it grows with the scores, and
\* stays between the bounds they have.
LEMMA TotalsCompare ==
  ASSUME NEW S, IsFiniteSet(S), NEW profile, Weighing(profile.weights, S),
         NEW a, NEW b, \A x \in S : a[x].score \in Int /\ b[x].score \in Int
  PROVE  /\ ComputeTotalScore(a, profile) \in Int
         /\ (\A x \in S : a[x].score <= b[x].score)
              => ComputeTotalScore(a, profile) <= ComputeTotalScore(b, profile)
         /\ \A lo \in Int : (\A x \in S : lo <= a[x].score) => lo <= ComputeTotalScore(a, profile)
         /\ \A hi \in Int : (\A x \in S : a[x].score <= hi) => ComputeTotalScore(a, profile) <= hi
<1> DEFINE w == profile.weights
           f == Weighted(a, w)
           g == Weighted(b, w)
<1>1. w \in [S -> Nat] /\ w \in [S -> Int] /\ \E x \in S : w[x] > 0
  BY DEF Weighing
<1>2. \A x \in S : f[x] = a[x].score * w[x] /\ g[x] = b[x].score * w[x]
  BY <1>1 DEF Weighted
<1>3. f \in [S -> Int] /\ g \in [S -> Int]
  BY <1>1 DEF Weighted
<1>4. /\ ComputeTotalScore(a, profile) = Rounded(Total(f), Total(w))
      /\ ComputeTotalScore(b, profile) = Rounded(Total(g), Total(w))
  BY DEF ComputeTotalScore, Total, Weighted
<1> HIDE DEF f, g, w
<1>5. Total(w) \in Nat /\ Total(w) > 0
  BY <1>1, PositiveSum
<1>6. Total(f) \in Int /\ Total(g) \in Int
  BY <1>3, SumsCompare
<1>7. ASSUME \A x \in S : a[x].score <= b[x].score
      PROVE  Total(f) <= Total(g)
  <2>1. \A i, j \in Int, k \in Nat : i <= j => i * k <= j * k
    OBVIOUS
  <2>2. \A x \in S : f[x] <= 1 * g[x]
    <3> TAKE x \in S
    <3>1. a[x].score * w[x] <= b[x].score * w[x]
      BY <1>1, <1>7, <2>1
    <3>2. g[x] \in Int /\ f[x] <= g[x]
      BY <1>2, <1>3, <3>1
    <3>3. \A i \in Int : 1 * i = i
      OBVIOUS
    <3>4. QED
      BY <3>2, <3>3
  <2>3. Total(f) <= 1 * Total(g)
    BY <1>3, <2>2, SumsCompare
  <2>4. QED
    BY <1>6, <2>3
<1>8. ASSUME NEW lo \in Int, \A x \in S : lo <= a[x].score
      PROVE  lo * Total(w) <= Total(f)
  <2>1. \A x \in S : lo * w[x] <= f[x]
    BY <1>1, <1>2, <1>8
  <2>2. QED
    BY <1>1, <1>3, <2>1, SumsCompare
<1>9. ASSUME NEW hi \in Int, \A x \in S : a[x].score <= hi
      PROVE  Total(f) <= hi * Total(w)
  <2>1. \A x \in S : f[x] <= hi * w[x]
    BY <1>1, <1>2, <1>9
  <2>2. QED
    BY <1>1, <1>3, <2>1, SumsCompare
<1>10. \A k \in Int : k * Total(w) \in Int /\ Rounded(k * Total(w), Total(w)) = k
  BY <1>5, RoundedExactly
<1>11. \A lo \in Int : (\A x \in S : lo <= a[x].score) => lo <= ComputeTotalScore(a, profile)
  <2> SUFFICES ASSUME NEW lo \in Int, \A x \in S : lo <= a[x].score
               PROVE  lo <= ComputeTotalScore(a, profile)
    OBVIOUS
  <2>1. Rounded(lo * Total(w), Total(w)) <= Rounded(Total(f), Total(w))
    BY <1>5, <1>6, <1>8, <1>10, RoundedGrows
  <2>2. QED
    BY <1>4, <1>10, <2>1
<1>12. \A hi \in Int : (\A x \in S : a[x].score <= hi) => ComputeTotalScore(a, profile) <= hi
  <2> SUFFICES ASSUME NEW hi \in Int, \A x \in S : a[x].score <= hi
               PROVE  ComputeTotalScore(a, profile) <= hi
    OBVIOUS
  <2>1. Rounded(Total(f), Total(w)) <= Rounded(hi * Total(w), Total(w))
    BY <1>5, <1>6, <1>9, <1>10, RoundedGrows
  <2>2. QED
    BY <1>4, <1>10, <2>1
<1>13. QED
  BY <1>4, <1>5, <1>6, <1>7, <1>11, <1>12, RoundedGrows

\* The share of checks that passed, in percent.
LEMMA TechnicalInPercent ==
  ASSUME NEW fields, NEW job, IsFiniteSet(job.required_skills)
  PROVE  TechnicalDimension(RunMatchChecks(fields, job)).score \in 0 .. 100
<1> DEFINE checks == RunMatchChecks(fields, job)
           n == Cardinality(DOMAIN checks.required)
           met == {s \in DOMAIN checks.required : checks.required[s]}
<1>1. DOMAIN checks.required = job.required_skills
  BY DEF RunMatchChecks
<1>2. n \in Nat /\ Cardinality(met) \in Nat /\ Cardinality(met) <= n
  <2>1. met \subseteq DOMAIN checks.required
    OBVIOUS
  <2> HIDE DEF met
  <2>2. QED
    BY <1>1, <2>1, FS_Subset, FS_CardinalityType
<1>3. Passed(checks) \in Nat /\ Passed(checks) <= n + 2
  <2>1. Passed(checks) = Cardinality(met)
          + (IF checks.preferred.hits # {} THEN 1 ELSE 0)
          + (IF \E y \in checks.years.claimed : y >= checks.years.needed THEN 1 ELSE 0)
    BY DEF Passed
  <2> HIDE DEF met, n, checks
  <2>2. QED
    BY <1>2, <2>1
<1>4. TechnicalDimension(checks).score = Rounded(100 * Passed(checks), n + 2)
  BY DEF TechnicalDimension
<1> HIDE DEF n, checks
<1>5. Rounded(0 * (n + 2), n + 2) = 0 /\ Rounded(100 * (n + 2), n + 2) = 100
  BY <1>2, RoundedExactly
<1>6. /\ Rounded(0 * (n + 2), n + 2) <= Rounded(100 * Passed(checks), n + 2)
      /\ Rounded(100 * Passed(checks), n + 2) <= Rounded(100 * (n + 2), n + 2)
  <2>1. \A v, m \in Nat : v <= m => /\ 0 * m <= 100 * v /\ 100 * v <= 100 * m
                                   /\ 0 * m \in Int /\ 100 * v \in Int /\ 100 * m \in Int
    OBVIOUS
  <2>2. n + 2 \in Nat /\ n + 2 > 0
    BY <1>2
  <2>3. /\ 0 * (n + 2) <= 100 * Passed(checks) /\ 100 * Passed(checks) <= 100 * (n + 2)
        /\ 0 * (n + 2) \in Int /\ 100 * Passed(checks) \in Int /\ 100 * (n + 2) \in Int
    BY <1>3, <2>1, <2>2
  <2> HIDE DEF n
  <2>4. \A i, j \in Int : i <= j => Rounded(i, n + 2) <= Rounded(j, n + 2)
    BY <2>2, RoundedGrows
  <2>5. QED
    BY <2>3, <2>4
<1>7. Rounded(100 * Passed(checks), n + 2) \in Int
  BY <1>2, <1>3, RoundedGrows
<1>8. QED
  BY <1>4, <1>5, <1>6, <1>7 DEF checks

\* The instance computes as it is done here.
LEMMA SameScoring ==
  /\ \A fields, job : Screen!TechnicalDimension(Screen!RunMatchChecks(fields, job)).score
                        = TechnicalDimension(RunMatchChecks(fields, job)).score
  /\ \A scores, profile :
       Screen!ComputeTotalScore(scores, profile) = ComputeTotalScore(scores, profile)
  /\ \A total, thresholds :
       Screen!AssignVerdict(total, thresholds) = AssignVerdict(total, thresholds)
<1>1. \A n, d : Screen!Rounded(n, d) = Rounded(n, d)
  BY DEF Screen!Rounded, Rounded
<1>2. \A S : Screen!Cardinality(S) = Cardinality(S)
  BY SameCardinality
<1>3. \A fields, job : Screen!RunMatchChecks(fields, job) = RunMatchChecks(fields, job)
  BY <1>2 DEF Screen!RunMatchChecks, RunMatchChecks
<1>4. \A checks : Screen!Passed(checks) = Passed(checks)
  BY <1>2 DEF Screen!Passed, Passed
<1>5. \A checks : Screen!TechnicalDimension(checks).score = TechnicalDimension(checks).score
  BY <1>1, <1>2, <1>4 DEF Screen!TechnicalDimension, TechnicalDimension
<1> DEFINE itsTotal(f) == Screen!FoldFunction(+, 0, f)
<1>6. \A f : itsTotal(f) = Total(f)
  BY DEF Total, Screen!FoldFunction, FoldFunction, Screen!FoldFunctionOnSet, FoldFunctionOnSet,
         Screen!MapThenFoldSet, MapThenFoldSet
<1>7. \A scores, profile :
        Screen!ComputeTotalScore(scores, profile) = ComputeTotalScore(scores, profile)
  <2> TAKE scores, profile
  <2> DEFINE weighted == Weighted(scores, profile.weights)
  <2>1. /\ Screen!ComputeTotalScore(scores, profile)
             = Screen!Rounded(itsTotal(weighted), itsTotal(profile.weights))
        /\ ComputeTotalScore(scores, profile) = Rounded(Total(weighted), Total(profile.weights))
    BY DEF Screen!ComputeTotalScore, ComputeTotalScore, Total, Weighted
  <2> HIDE DEF weighted, itsTotal
  <2>2. QED
    BY <1>1, <1>6, <2>1
<1>8. \A total, thresholds :
        Screen!AssignVerdict(total, thresholds) = AssignVerdict(total, thresholds)
  BY DEF Screen!AssignVerdict, AssignVerdict
<1>9. QED
  BY <1>3, <1>5, <1>7, <1>8

\* What validate_profile and the fields' types let in, and the gateway's
\* contract for a score.
ValidatedInputs ==
  /\ IsFiniteSet(Dimensions) /\ "technical" \in Dimensions
  /\ \A b \in Bodies :
       /\ b.weights \in [Dimensions -> Int] /\ ValidWeights(b.weights, Dimensions)
       /\ b.thresholds \in [auto_reject_below : 0 .. 100, hold_below : 0 .. 100,
                            highly_recommended_at : 0 .. 100]
  /\ \A j \in Judgements : j.score \in 0 .. 100
  /\ \A p \in JobPosts : IsFiniteSet(p.required_skills)

\* Every run was of validated inputs.
OfValidated(r) ==
  /\ \A d \in Dimensions : r.run_fingerprint.dimensions[d].score \in 0 .. 100
  /\ \E b \in Bodies : /\ r.run_fingerprint.profile.weights = b.weights
                       /\ r.run_fingerprint.profile.thresholds = b.thresholds

Weighed == \A r \in runs : OfValidated(r)

\* What a scoring request stores is.
LEMMA RunsAreWeighed ==
  ASSUME ValidatedInputs, ScreenTypes, NEW i \in Slots, handled[i].op = "score",
         handled[i].job # {}, NEW judged \in Screen!Judged, NEW at
  PROVE  OfValidated(Screen!ScoringRun(handled[i], judged, at))
<1> DEFINE w == handled[i]
           resume == resumes[w.resume_id]
           profile == profiles[w.weight_profile_id]
           loaded == CHOOSE j \in w.job : TRUE
           checks == Screen!RunMatchChecks(resume.fields, loaded.job)
           dimensions == [d \in Dimensions |->
                            IF d = "technical" THEN Screen!TechnicalDimension(checks)
                                               ELSE judged[d]]
           r == Screen!ScoringRun(w, judged, at)
<1>1. r.run_fingerprint = Screen!RunFingerprint(resume.content_hash, checks, dimensions, profile)
  BY DEF Screen!ScoringRun
<1> HIDE DEF r
<1>2. /\ r.run_fingerprint.dimensions = dimensions
      /\ r.run_fingerprint.profile.weights = profile.weights
      /\ r.run_fingerprint.profile.thresholds = profile.thresholds
  <2> HIDE DEF dimensions, checks, profile, resume
  <2>1. QED
    BY <1>1 DEF Screen!RunFingerprint, Screen!ProfileFingerprint
<1>3. Carried(w)
  BY DEF ScreenTypes
<1>4. w.weight_profile_id \in DOMAIN profiles /\ w.job \subseteq JobRows
  BY <1>3 DEF Carried
<1>5. \E b \in Bodies : profile.weights = b.weights /\ profile.thresholds = b.thresholds
  <2>1. profile \in ProfileRows
    BY <1>4 DEF ScreenTypes
  <2> HIDE DEF profile
  <2>2. QED
    BY <2>1 DEF ProfileRows, Screen!ProfileRow
<1>6. Screen!TechnicalDimension(checks).score \in 0 .. 100
  <2>1. loaded \in w.job
    OBVIOUS
  <2>2. loaded.job \in JobPosts
    BY <1>4, <2>1 DEF JobRows
  <2>3. IsFiniteSet(loaded.job.required_skills)
    BY <2>2 DEF ValidatedInputs
  <2> HIDE DEF loaded, resume
  <2>4. QED
    BY <2>3, SameScoring, TechnicalInPercent
<1>7. \A d \in Dimensions \ {"technical"} : judged[d].score \in 0 .. 100
  BY DEF Screen!Judged, ValidatedInputs
<1>8. \A d \in Dimensions : dimensions[d].score \in 0 .. 100
  <2> HIDE DEF checks
  <2>1. QED
    BY <1>6, <1>7
<1> HIDE DEF dimensions, profile
<1>9. OfValidated(r)
  BY <1>2, <1>5, <1>8 DEF OfValidated
<1>10. QED
  BY <1>9 DEF r

\* Runs are stored by scoring requests only.
LEMMA WeighedStep ==
  ASSUME ValidatedInputs, ScreenTypes, Weighed, [Screen!Next]_(Screen!vars)
  PROVE  Weighed'
<1>1. CASE runs' = runs
  BY <1>1 DEF Weighed
<1>2. ASSUME NEW i \in Slots, Screen!Score(i)
      PROVE  Weighed'
  <2>1. PICK judged \in Screen!Judged :
          runs' = runs \union {Screen!ScoringRun(handled[i], judged, handled[i].created_at)}
    BY <1>2 DEF Screen!Score
  <2> DEFINE new == Screen!ScoringRun(handled[i], judged, handled[i].created_at)
  <2>2. OfValidated(new)
    <3>1. handled[i].op = "score" /\ handled[i].job # {}
      BY <1>2 DEF Screen!Score
    <3>2. QED
      BY <3>1, RunsAreWeighed
  <2> HIDE DEF new
  <2>3. runs' = runs \union {new}
    BY <2>1 DEF new
  <2>4. QED
    BY <2>2, <2>3 DEF Weighed
<1>3. QED
  BY <1>1, <1>2, Writers

\* The total of a run lies between whatever bounds its dimensions have: it is
\* a percentage, and no rounding takes it past the best or the worst of them.
TotalsAreMeans ==
  \A r \in runs :
    /\ r.total_score \in 0 .. 100
    /\ \A lo, hi \in 0 .. 100 :
         (\A d \in Dimensions : r.run_fingerprint.dimensions[d].score \in lo .. hi)
           => r.total_score \in lo .. hi

\* Of two runs by the same weights and thresholds, the one that is nowhere
\* behind is not behind in total, and its verdict is no worse.
BetterIsNoWorse ==
  \A r \in runs, s \in runs :
    /\ r.run_fingerprint.profile.weights = s.run_fingerprint.profile.weights
    /\ r.run_fingerprint.profile.thresholds = s.run_fingerprint.profile.thresholds
    /\ \A d \in Dimensions :
         r.run_fingerprint.dimensions[d].score <= s.run_fingerprint.dimensions[d].score
    => r.total_score <= s.total_score /\ Rank(r.verdict) <= Rank(s.verdict)

\* Scoring is fair in that sense, for any validated profiles, documents and
\* judgements, with any thresholds in whatever order (compute_total_score and
\* assign_verdict of scoring.py).
THEOREM ScoringIsFair ==
  ASSUME ValidatedInputs
  PROVE  Screen!Spec => [](TotalsAreMeans /\ BetterIsNoWorse)
<1> DEFINE scores(r) == r.run_fingerprint.dimensions
           used(r) == r.run_fingerprint.profile
<1>1. Repeatable /\ Weighed => TotalsAreMeans /\ BetterIsNoWorse
  <2> SUFFICES ASSUME Repeatable, Weighed PROVE TotalsAreMeans /\ BetterIsNoWorse
    OBVIOUS
  <2>1. ASSUME NEW r \in runs
        PROVE  /\ r.total_score = ComputeTotalScore(scores(r), used(r))
               /\ r.verdict = AssignVerdict(r.total_score, used(r).thresholds)
               /\ \A d \in Dimensions : scores(r)[d].score \in 0 .. 100
               /\ used(r).thresholds.auto_reject_below \in Int
               /\ used(r).thresholds.hold_below \in Int
               /\ used(r).thresholds.highly_recommended_at \in Int
               /\ Weighing(used(r).weights, Dimensions)
    <3>1. /\ r.total_score = ComputeTotalScore(scores(r), used(r))
          /\ r.verdict = AssignVerdict(r.total_score, used(r).thresholds)
      BY SameScoring DEF Repeatable
    <3>2. \A d \in Dimensions : scores(r)[d].score \in 0 .. 100
      BY DEF Weighed, OfValidated
    <3>3. PICK b \in Bodies : used(r).weights = b.weights /\ used(r).thresholds = b.thresholds
      BY DEF Weighed, OfValidated
    <3>4. b.weights \in [Dimensions -> Nat] /\ \E d \in Dimensions : b.weights[d] > 0
      BY DEF ValidatedInputs, ValidWeights
    <3>5. /\ b.thresholds.auto_reject_below \in Int /\ b.thresholds.hold_below \in Int
          /\ b.thresholds.highly_recommended_at \in Int
      BY DEF ValidatedInputs
    <3> HIDE DEF scores, used
    <3>6. QED
      BY <3>1, <3>2, <3>3, <3>4, <3>5 DEF Weighing
  <2> HIDE DEF scores, used
  <2>2. ASSUME NEW r \in runs
        PROVE  /\ r.total_score \in Int
               /\ \A lo, hi \in 0 .. 100 :
                    (\A d \in Dimensions : scores(r)[d].score \in lo .. hi)
                      => r.total_score \in lo .. hi
    <3>1. \A d \in Dimensions : scores(r)[d].score \in Int
      BY <2>1
    <3>2. IsFiniteSet(Dimensions)
      BY DEF ValidatedInputs
    <3>3. r.total_score \in Int
      BY <2>1, <3>1, <3>2, TotalsCompare
    <3>4. ASSUME NEW lo \in 0 .. 100, NEW hi \in 0 .. 100,
                 \A d \in Dimensions : scores(r)[d].score \in lo .. hi
          PROVE  r.total_score \in lo .. hi
      <4>1. /\ \A d \in Dimensions : lo <= scores(r)[d].score /\ scores(r)[d].score <= hi
            /\ lo \in Int /\ hi \in Int
        BY <3>4
      <4>2. lo <= r.total_score /\ r.total_score <= hi
        BY <2>1, <3>1, <3>2, <4>1, TotalsCompare
      <4>3. QED
        BY <3>3, <4>2
    <3>5. QED
      BY <3>3, <3>4
  <2>3. TotalsAreMeans
    <3>1. 0 \in 0 .. 100 /\ 100 \in 0 .. 100
      OBVIOUS
    <3>2. \A r \in runs : r.total_score \in 0 .. 100
      BY <2>1, <2>2, <3>1
    <3>3. QED
      BY <2>2, <3>2 DEF TotalsAreMeans, scores
  <2>4. ASSUME NEW r \in runs, NEW s \in runs,
               used(r).weights = used(s).weights, used(r).thresholds = used(s).thresholds,
               \A d \in Dimensions : scores(r)[d].score <= scores(s)[d].score
        PROVE  r.total_score <= s.total_score /\ Rank(r.verdict) <= Rank(s.verdict)
    <3>1. \A d \in Dimensions : scores(r)[d].score \in Int /\ scores(s)[d].score \in Int
      BY <2>1
    <3>2. IsFiniteSet(Dimensions)
      BY DEF ValidatedInputs
    <3>3. ComputeTotalScore(scores(s), used(s)) = ComputeTotalScore(scores(s), used(r))
      BY <2>4 DEF ComputeTotalScore
    <3>4. Weighing(used(r).weights, Dimensions)
      BY <2>1
    <3>5. ComputeTotalScore(scores(r), used(r)) <= ComputeTotalScore(scores(s), used(r))
      BY <2>4, <3>1, <3>2, <3>4, TotalsCompare
    <3>6. r.total_score <= s.total_score
      BY <2>1, <3>3, <3>5
    <3>7. QED
      BY <2>1, <2>2, <2>4, <3>6, VerdictsGrow
  <2>5. QED
    BY <2>3, <2>4 DEF BetterIsNoWorse, scores, used
<1>2. Screen!Init => Weighed
  BY DEF Screen!Init, Weighed
<1>3. QED
  BY <1>1, <1>2, ScreenTypesInit, ScreenTypesStep, RepeatableInit, RepeatableStep, WeighedStep, PTL
  DEF Screen!Spec

=============================================================================
