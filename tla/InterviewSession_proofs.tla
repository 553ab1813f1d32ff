---------------------- MODULE InterviewSession_proofs ----------------------
(***************************************************************************)
(* Theorems about InterviewSession, for every set of overlapping requests, *)
(* every set of plans and every set of reports.                            *)
(***************************************************************************)
EXTENDS InterviewSession, SequenceTheorems, NaturalsInduction, WellFoundedInduction, TLAPS

\* Every non-empty set of natural numbers has a least element.
LEMMA LeastExists ==
  ASSUME NEW S \in SUBSET Nat, S # {}
  PROVE  \E x \in S : \A y \in S : x <= y
<1>1. PICK x \in S : \A y \in S : ~ (<<y, x>> \in OpToRel(<, Nat))
  BY NatLessThanWellFounded, WFMin, Zenon
<1>2. \A y \in S : ~ (y < x)
  BY <1>1 DEF OpToRel
<1>3. QED
  BY <1>2

-----------------------------------------------------------------------------
(* The engine's operators.                                                 *)

\* decide returns a turn of the plan, or the closing turn.
LEMMA DecideType ==
  ASSUME NEW p, IsPlan(p), NEW asked \in Seq(AskedTurns), NEW hits \in Nat
  PROVE  /\ Decide(p, asked, hits) \in [kind : TurnKinds, topic : TopicIds \union {NoTopic}]
         /\ Decide(p, asked, hits).kind # Closing => Decide(p, asked, hits) \in AskedTurns
<1>1. p \in Seq(Topics)
  BY DEF IsPlan
<1>0. ASSUME NEW i \in DOMAIN p PROVE p[i].id \in TopicIds
  <2>1. i \in 1 .. Len(p)
    BY <1>1
  <2>2. p[i] \in Topics
    BY <1>1, <2>1
  <2>3. QED
    BY <2>2 DEF Topics
<1>2. \A i : /\ Ask(p, i) \in [kind : TurnKinds, topic : TopicIds \union {NoTopic}]
             /\ Ask(p, i).kind # Closing => Ask(p, i) \in AskedTurns
  BY <1>0 DEF Ask, Turn, TurnKinds, AskedTurns
<1>3. CASE asked = << >>
  BY <1>2, <1>3 DEF Decide
<1>4. CASE asked # << >>
  <2> DEFINE at == IndexOf(p, asked[Len(asked)].topic)
  <2>1. CASE at = {}
    BY <1>4, <2>1 DEF Decide, Turn, TurnKinds, AskedTurns
  <2>2. CASE at # {}
    <3> DEFINE i == CHOOSE k \in at : \A j \in at : k <= j
    <3>1. at \subseteq DOMAIN p /\ \A j, k \in at : j = k
      BY DEF IsPlan, IndexOf
    <3>2. \E k \in at : \A j \in at : k <= j
      BY <1>1, <2>2, <3>1
    <3>3. i \in DOMAIN p
      BY <3>1, <3>2
    <3>4. Turn(Probe, p[i].id) \in AskedTurns
      BY <1>0, <3>3 DEF Turn, AskedTurns, TurnKinds
    <3>5. Decide(p, asked, hits) \in {Turn(Probe, p[i].id), Ask(p, i + 1)}
      BY <1>4, <2>2 DEF Decide
    <3>6. QED
      BY <1>2, <3>4, <3>5 DEF AskedTurns, TurnKinds
  <2>3. QED
    BY <2>1, <2>2
<1>5. QED
  BY <1>3, <1>4

-----------------------------------------------------------------------------
(* Type correctness.                                                       *)

\* The open turn an answer has loaded is a row of the transcript: rows are
\* only ever added.
RowsLoaded ==
  \A r \in Requests :
    req[r] # Idle /\ req[r].op = "answer" /\ req[r].ready
      => req[r].row \in DOMAIN rows

TypeInv == TypeOK /\ RowsLoaded

\* The row create_session inserts, and a server with no request, are well typed.
LEMMA TypeInit == Init => TypeInv
<1> SUFFICES ASSUME Init PROVE TypeInv
  OBVIOUS
<1>1. NewSession \in Sessions
  BY DEF NewSession, Sessions, Statuses
<1>2. TypeOK
  <2>1. consents \in Seq(BOOLEAN) /\ rows \in Seq(Rows)
    BY DEF Init
  <2>2. audited \subseteq AuditActions /\ req \in [Requests -> InProgress \union {Idle}]
    BY DEF Init
  <2>3. QED
    BY <1>1, <2>1, <2>2 DEF Init, TypeOK
<1>3. RowsLoaded
  BY DEF Init, RowsLoaded
<1>4. QED
  BY <1>2, <1>3 DEF TypeInv

\* A request that opens its transaction loads a well-typed snapshot.
LEMMA LoadType ==
  ASSUME TypeInv, NEW r \in Requests, NEW op \in Operations, NEW granted \in BOOLEAN,
         NEW report \in Reports \union {NoReport}, Load(r, op, granted, report)
  PROVE  TypeInv'
<1>1. [op |-> op, ready |-> op # "answer", granted |-> granted, report |-> report,
       hits |-> 0, row |-> 0, loaded |-> session] \in InProgress
  BY DEF TypeInv, TypeOK, InProgress
<1>2. TypeOK'
  BY <1>1 DEF TypeInv, TypeOK, Load
<1>3. RowsLoaded'
  BY <1>1 DEF TypeInv, TypeOK, RowsLoaded, Load, Idle
<1>4. QED
  BY <1>2, <1>3 DEF TypeInv

\* A commit of well-typed columns, together with rows that keep their
\* length or grow.
LEMMA CommitType ==
  ASSUME TypeInv, NEW r \in Requests, NEW op \in Operations,
         NEW assigned \in Sessions, NEW actions \in SUBSET AuditActions,
         Commit(r, op, assigned, actions),
         consents' \in Seq(BOOLEAN), rows' \in Seq(Rows), Len(rows) <= Len(rows')
  PROVE  TypeInv'
<1>1. req[r] \in InProgress
  BY DEF TypeInv, TypeOK, Commit
<1>2. session' \in Sessions
  BY <1>1 DEF TypeInv, TypeOK, Commit, Flush, Column, Sessions, InProgress
<1>3. TypeOK'
  BY <1>2 DEF TypeInv, TypeOK, Commit
<1>4. DOMAIN rows \subseteq DOMAIN rows'
  BY DEF TypeInv, TypeOK
<1>5. RowsLoaded'
  BY <1>4 DEF TypeInv, TypeOK, RowsLoaded, Commit
<1>6. QED
  BY <1>3, <1>5 DEF TypeInv

\* A new row of the transcript has its type.
LEMMA NewRowType ==
  ASSUME NEW seq \in Nat, NEW turn \in [kind : TurnKinds, topic : TopicIds \union {NoTopic}]
  PROVE  NewRow(seq, turn) \in Rows
BY DEF NewRow, Rows, Unanswered

\* decide_consent commits well-typed columns and one more consent row.
LEMMA ConsentType ==
  ASSUME TypeInv, NEW r \in Requests, ConsentCommit(r)
  PROVE  TypeInv'
<1> DEFINE s == req[r].loaded
           granted == req[r].granted
           new == [s EXCEPT !.status = IF granted THEN "consent_granted" ELSE "declined",
                            !.finished = IF granted THEN @ ELSE TRUE]
           actions == IF granted THEN {"consent_granted"} ELSE {"consent_declined"}
<1>1. s \in Sessions /\ granted \in BOOLEAN
  BY DEF ConsentCommit, Commit, TypeInv, TypeOK, InProgress
<1>2. new \in Sessions
  BY <1>1 DEF Sessions, Statuses
<1>3. actions \in SUBSET AuditActions
  BY DEF AuditActions
<1>4. Commit(r, "consent", new, actions) /\ "consent" \in Operations
  BY DEF ConsentCommit, Operations
<1>5. consents' \in Seq(BOOLEAN) /\ rows' \in Seq(Rows) /\ Len(rows) <= Len(rows')
  BY <1>1 DEF ConsentCommit, TypeInv, TypeOK
<1> HIDE DEF s, granted, new, actions
<1>6. QED
  BY <1>2, <1>3, <1>4, <1>5, CommitType

\* submit_precheck commits well-typed columns and no row.
LEMMA PrecheckType ==
  ASSUME TypeInv, NEW r \in Requests, PrecheckCommit(r)
  PROVE  TypeInv'
<1> DEFINE new == AfterPrecheck(req[r].loaded, req[r].report)
           actions == IF EvaluatePrecheck(req[r].report) THEN {"precheck_passed"} ELSE {}
<1>1. req[r].loaded \in Sessions /\ req[r].report \in Reports \union {NoReport}
  BY DEF PrecheckCommit, Commit, TypeInv, TypeOK, InProgress
<1>2. EvaluatePrecheck(req[r].report) \in BOOLEAN
  BY DEF EvaluatePrecheck
<1>3. new \in Sessions
  BY <1>1, <1>2 DEF AfterPrecheck, Sessions, Statuses
<1>4. actions \in SUBSET AuditActions
  BY DEF AuditActions
<1>5. Commit(r, "precheck", new, actions) /\ "precheck" \in Operations
  BY DEF PrecheckCommit, Operations
<1>6. consents' \in Seq(BOOLEAN) /\ rows' \in Seq(Rows) /\ Len(rows) <= Len(rows')
  BY DEF PrecheckCommit, TypeInv, TypeOK
<1> HIDE DEF new, actions
<1>7. QED
  BY <1>3, <1>4, <1>5, <1>6, CommitType

\* start_interview commits well-typed columns and a well-typed first turn.
LEMMA StartType ==
  ASSUME TypeInv, NEW r \in Requests, StartCommit(r)
  PROVE  TypeInv'
<1> DEFINE first == Decide(plan, << >>, 0)
           new == [req[r].loaded EXCEPT !.status = "active", !.asked = <<first>>]
<1>1. req[r].loaded \in Sessions
  BY DEF StartCommit, Commit, TypeInv, TypeOK, InProgress
<1>2. first = Turn(Question, plan[1].id) /\ plan[1].id \in TopicIds
  <2>1. plan \in Seq(Topics) /\ plan # << >>
    BY PlansAssumption DEF TypeInv, TypeOK, IsPlan
  <2>2. 1 \in DOMAIN plan
    BY <2>1
  <2>3. plan[1] \in Topics
    BY <2>1, <2>2
  <2>4. QED
    BY <2>2, <2>3 DEF Topics, Decide, Ask
<1>3. first \in AskedTurns
  BY <1>2 DEF Turn, AskedTurns, TurnKinds
<1> HIDE DEF first
<1>4. new \in Sessions
  <2>1. <<first>> \in Seq(AskedTurns)
    BY <1>3
  <2>2. QED
    BY <1>1, <2>1 DEF Sessions, Statuses
<1>5. NewRow(0, first) \in Rows
  BY <1>3, NewRowType DEF AskedTurns
<1>6. Commit(r, "start", new, {"started"}) /\ "start" \in Operations
      /\ {"started"} \in SUBSET AuditActions
  BY DEF StartCommit, Operations, AuditActions, first
<1>7. rows' = Append(rows, NewRow(0, first)) /\ UNCHANGED consents
  BY DEF StartCommit, first
<1>8. consents' \in Seq(BOOLEAN) /\ rows' \in Seq(Rows) /\ Len(rows) <= Len(rows')
  BY <1>5, <1>7 DEF TypeInv, TypeOK
<1> HIDE DEF new
<1>9. QED
  BY <1>4, <1>6, <1>8, CommitType

\* submit_turn commits well-typed columns, the answer and a well-typed next
\* turn: what it appends to asked_turns is never the closing turn.
LEMMA AnswerType ==
  ASSUME TypeInv, NEW r \in Requests, AnswerCommit(r)
  PROVE  TypeInv'
<1> DEFINE i == req[r].row
           next == Decide(plan, req[r].loaded.asked, req[r].hits)
           new == AfterAnswer(req[r].loaded, next)
           actions == IF next.kind = Closing THEN {"completed"} ELSE {}
<1>1. req[r] \in InProgress /\ req[r] # Idle /\ req[r].op = "answer" /\ req[r].ready
  BY DEF AnswerCommit, Commit, TypeInv, TypeOK
<1>2. req[r].loaded \in Sessions /\ req[r].hits \in Nat
  BY <1>1 DEF InProgress
<1>3. req[r].loaded.asked \in Seq(AskedTurns)
  BY <1>2 DEF Sessions
<1>4. i \in DOMAIN rows
  BY <1>1 DEF TypeInv, RowsLoaded
<1>5. IsPlan(plan)
  BY PlansAssumption DEF TypeInv, TypeOK
<1>6. /\ next \in [kind : TurnKinds, topic : TopicIds \union {NoTopic}]
      /\ next.kind # Closing => next \in AskedTurns
  BY <1>2, <1>3, <1>5, DecideType
<1> HIDE DEF next
<1>7. new \in Sessions
  <2>1. CASE next.kind = Closing
    BY <1>2, <2>1 DEF AfterAnswer, Sessions, Statuses
  <2>2. CASE next.kind # Closing
    <3>1. Append(req[r].loaded.asked, next) \in Seq(AskedTurns)
      BY <1>3, <1>6, <2>2
    <3>2. new = [req[r].loaded EXCEPT !.asked = Append(req[r].loaded.asked, next)]
      BY <2>2 DEF AfterAnswer
    <3> HIDE DEF new
    <3>3. QED
      BY <1>2, <3>1, <3>2 DEF Sessions
  <2>3. QED
    BY <2>1, <2>2
<1>8. rows[i] \in Rows
  BY <1>4 DEF TypeInv, TypeOK
<1>9. rows[i].seq + 1 \in Nat
  BY <1>8 DEF Rows
<1>10. NewRow(rows[i].seq + 1, next) \in Rows
  BY <1>6, <1>9, NewRowType
<1>11. [rows[i] EXCEPT !.answer = req[r].hits] \in Rows
  BY <1>2, <1>8 DEF Rows
<1>12. [rows EXCEPT ![i].answer = req[r].hits] \in Seq(Rows)
       /\ Len([rows EXCEPT ![i].answer = req[r].hits]) = Len(rows)
  BY <1>4, <1>11 DEF TypeInv, TypeOK
<1>13. rows' = Append([rows EXCEPT ![i].answer = req[r].hits],
                      NewRow(rows[i].seq + 1, next))
       /\ UNCHANGED consents
  BY DEF AnswerCommit, next
<1>14. consents' \in Seq(BOOLEAN) /\ rows' \in Seq(Rows) /\ Len(rows) <= Len(rows')
  BY <1>10, <1>12, <1>13 DEF TypeInv, TypeOK
<1>15. actions \in SUBSET AuditActions /\ "answer" \in Operations
  BY DEF AuditActions, Operations
<1>16. Commit(r, "answer", new, actions)
  BY DEF AnswerCommit, next
<1> HIDE DEF new, actions
<1>17. QED
  BY <1>7, <1>14, <1>15, <1>16, CommitType

\* finish_interview commits well-typed columns and no row.
LEMMA FinishType ==
  ASSUME TypeInv, NEW r \in Requests, FinishCommit(r)
  PROVE  TypeInv'
<1> DEFINE new == [req[r].loaded EXCEPT !.status = "aborted", !.finished = TRUE]
<1>1. req[r].loaded \in Sessions
  BY DEF FinishCommit, Commit, TypeInv, TypeOK, InProgress
<1>2. new \in Sessions
  BY <1>1 DEF Sessions, Statuses
<1>3. Commit(r, "finish", new, {"aborted"}) /\ "finish" \in Operations
      /\ {"aborted"} \in SUBSET AuditActions
  BY DEF FinishCommit, Operations, AuditActions
<1>4. consents' \in Seq(BOOLEAN) /\ rows' \in Seq(Rows) /\ Len(rows) <= Len(rows')
  BY DEF FinishCommit, TypeInv, TypeOK
<1> HIDE DEF new
<1>5. QED
  BY <1>2, <1>3, <1>4, CommitType

\* The SELECT of the open turn leaves the request with a row of the transcript.
LEMMA AnswerOpenType ==
  ASSUME TypeInv, NEW r \in Requests, AnswerOpen(r)
  PROVE  TypeInv'
<1>1. PICK i \in OpenRows, hits \in AnswersTo(plan, req[r].loaded.asked) :
        req' = [req EXCEPT ![r].ready = TRUE, ![r].row = i, ![r].hits = hits]
  BY DEF AnswerOpen
<1>2. req[r] \in InProgress
  BY DEF AnswerOpen, TypeInv, TypeOK
<1>3. i \in DOMAIN rows /\ i \in Nat
  BY DEF OpenRows, TypeInv, TypeOK
<1>4. hits \in Nat
  <2>1. plan \in Seq(Topics)
    BY PlansAssumption DEF TypeInv, TypeOK, IsPlan
  <2>2. \A k \in DOMAIN plan : plan[k].points \in Nat
    <3>1. \A k \in DOMAIN plan : plan[k] \in Topics
      BY <2>1
    <3>2. QED
      BY <3>1 DEF Topics
  <2>3. QED
    BY <2>2 DEF AnswersTo, IndexOf
<1>5. [req[r] EXCEPT !.ready = TRUE, !.row = i, !.hits = hits] \in InProgress
  BY <1>2, <1>3, <1>4 DEF InProgress
<1>6. req' = [req EXCEPT ![r] = [req[r] EXCEPT !.ready = TRUE, !.row = i, !.hits = hits]]
  BY <1>1, <1>2 DEF TypeInv, TypeOK, InProgress
<1>7. TypeOK'
  BY <1>5, <1>6 DEF AnswerOpen, TypeInv, TypeOK
<1>8. RowsLoaded'
  <2> SUFFICES ASSUME NEW q \in Requests, req'[q] # Idle, req'[q].op = "answer", req'[q].ready
               PROVE  req'[q].row \in DOMAIN rows
    BY DEF RowsLoaded, AnswerOpen
  <2>1. CASE q = r
    BY <1>2, <1>3, <1>6, <2>1 DEF TypeInv, TypeOK, InProgress
  <2>2. CASE q # r
    BY <1>6, <2>2 DEF TypeInv, TypeOK, RowsLoaded
  <2>3. QED
    BY <2>1, <2>2
<1>9. QED
  BY <1>7, <1>8 DEF TypeInv

\* A rolled-back transaction leaves nothing but an idle request.
LEMMA RollbackType ==
  ASSUME TypeInv, NEW r \in Requests, Rollback(r)
  PROVE  TypeInv'
BY DEF Rollback, TypeInv, TypeOK, RowsLoaded

\* Every step of Next, and every stutter, keeps the types.
LEMMA TypeStep == TypeInv /\ [Next]_vars => TypeInv'
<1> SUFFICES ASSUME TypeInv, [Next]_vars PROVE TypeInv'
  OBVIOUS
<1> USE DEF Operations
<1>1. ASSUME NEW r \in Requests, ConsentLoad(r) PROVE TypeInv'
  BY <1>1, LoadType DEF ConsentLoad
<1>2. ASSUME NEW r \in Requests, ConsentCommit(r) PROVE TypeInv'
  BY <1>2, ConsentType
<1>3. ASSUME NEW r \in Requests, PrecheckLoad(r) PROVE TypeInv'
  BY <1>3, LoadType DEF PrecheckLoad
<1>4. ASSUME NEW r \in Requests, PrecheckCommit(r) PROVE TypeInv'
  BY <1>4, PrecheckType
<1>5. ASSUME NEW r \in Requests, StartLoad(r) PROVE TypeInv'
  BY <1>5, LoadType DEF StartLoad
<1>6. ASSUME NEW r \in Requests, StartCommit(r) PROVE TypeInv'
  BY <1>6, StartType
<1>7. ASSUME NEW r \in Requests, AnswerLoad(r) PROVE TypeInv'
  BY <1>7, LoadType DEF AnswerLoad
<1>8. ASSUME NEW r \in Requests, AnswerOpen(r) PROVE TypeInv'
  BY <1>8, AnswerOpenType
<1>9. ASSUME NEW r \in Requests, AnswerCommit(r) PROVE TypeInv'
  BY <1>9, AnswerType
<1>10. ASSUME NEW r \in Requests, FinishLoad(r) PROVE TypeInv'
  BY <1>10, LoadType DEF FinishLoad
<1>11. ASSUME NEW r \in Requests, FinishCommit(r) PROVE TypeInv'
  BY <1>11, FinishType
<1>12. ASSUME NEW r \in Requests, Rollback(r) PROVE TypeInv'
  BY <1>12, RollbackType
<1>13. CASE Expire
  BY <1>13 DEF Expire, TypeInv, TypeOK, RowsLoaded
<1>14. CASE UNCHANGED vars
  BY <1>14 DEF vars, TypeInv, TypeOK, RowsLoaded
<1>15. QED
  BY <1>1, <1>2, <1>3, <1>4, <1>5, <1>6, <1>7, <1>8, <1>9, <1>10, <1>11, <1>12,
     <1>13, <1>14 DEF Next, Serve

\* Every row and every request in progress keeps the types the code gives them,
\* however requests overlap.
THEOREM TypeCorrect == Spec => []TypeOK
<1>1. TypeInv => TypeOK
  BY DEF TypeInv
<1>2. QED
  BY <1>1, TypeInit, TypeStep, PTL DEF Spec

-----------------------------------------------------------------------------
(* The gates.                                                              *)

\* What must be on record once a session has, or ever had, this status.
\* Nothing here can become false again: consents and audit entries are only
\* added, which is what lets a request act on a status that is already stale.
Backed(status) ==
  /\ status \notin {"pending_consent", "declined"} =>
       /\ \E i \in DOMAIN consents : consents[i]
       /\ "consent_granted" \in audited
  /\ status \in {"precheck_passed", "active", "completed", "aborted"} =>
       "precheck_passed" \in audited
  /\ status \in {"active", "completed", "aborted"} => "started" \in audited
  /\ status = "declined"  => "consent_declined" \in audited
  /\ status = "completed" => "completed" \in audited
  /\ status = "aborted"   => "aborted" \in audited

\* The status each operation requires of the session it loads.
LoadedStatus(r) ==
  /\ req[r].op = "consent" => req[r].loaded.status = "pending_consent"
  /\ req[r].op = "precheck" =>
       req[r].loaded.status \in {"consent_granted", "precheck_passed"}
  /\ req[r].op = "start" => req[r].loaded.status = "precheck_passed"
  /\ req[r].op \in {"answer", "finish"} => req[r].loaded.status = "active"

GateInv ==
  /\ Backed(session.status)
  /\ \A r \in Requests : req[r] # Idle =>
       /\ LoadedStatus(r)
       /\ Backed(req[r].loaded.status)
  /\ rows # << >> => Backed("active")

\* Records are never taken back.
RecordsGrow ==
  /\ \A i \in DOMAIN consents : i \in DOMAIN consents' /\ consents'[i] = consents[i]
  /\ audited \subseteq audited'

\* What is on record for a status stays on record.
LEMMA BackedStays ==
  ASSUME RecordsGrow, NEW status, Backed(status)
  PROVE  Backed(status)'
BY DEF RecordsGrow, Backed

\* A load copies a status that is backed already.
LEMMA LoadGate ==
  ASSUME TypeInv, GateInv, NEW r \in Requests, NEW op, NEW granted, NEW report,
         Load(r, op, granted, report),
         op = "consent" => session.status = "pending_consent",
         op = "precheck" => session.status \in {"consent_granted", "precheck_passed"},
         op = "start" => session.status = "precheck_passed",
         op \in {"answer", "finish"} => session.status = "active"
  PROVE  GateInv'
<1>1. RecordsGrow
  BY DEF Load, RecordsGrow
<1>2. Backed(session.status)' /\ (rows' # << >> => Backed("active")')
  BY <1>1, BackedStays DEF GateInv, Load, Backed
<1>3. ASSUME NEW q \in Requests, req'[q] # Idle
      PROVE  LoadedStatus(q)' /\ Backed(req[q].loaded.status)'
  <2>1. CASE q = r
    <3>1. req'[q].op = op /\ req'[q].loaded = session
      BY <2>1 DEF Load, TypeInv, TypeOK
    <3>2. Backed(session.status)
      BY DEF GateInv
    <3>3. QED
      BY <3>1, <3>2 DEF LoadedStatus, Backed, Load
  <2>2. CASE q # r
    <3>1. req'[q] = req[q]
      BY <2>2 DEF Load, TypeInv, TypeOK
    <3>2. LoadedStatus(q) /\ Backed(req[q].loaded.status)
      BY <1>3, <3>1 DEF GateInv
    <3>3. QED
      BY <3>1, <3>2 DEF LoadedStatus, Backed, Load
  <2>3. QED
    BY <2>1, <2>2
<1>4. QED
  BY <1>2, <1>3 DEF GateInv

\* A commit may write a status its own audit entry, or an earlier one, backs.
LEMMA CommitGate ==
  ASSUME TypeInv, GateInv, NEW r \in Requests, NEW op,
         NEW STATE assigned, NEW STATE actions, NEW status,
         Commit(r, op, assigned, actions),
         \A i \in DOMAIN consents : i \in DOMAIN consents' /\ consents'[i] = consents[i],
         assigned.status = status, Backed(status)',
         rows # << >> \/ rows' = rows \/ Backed("active")'
  PROVE  GateInv'
<1>1. RecordsGrow
  BY DEF Commit, RecordsGrow
<1>2. session'.status \in {session.status, assigned.status}
  BY DEF Commit, Flush, Column
<1>3. Backed(session.status)'
  <2>1. CASE session'.status = session.status
    <3>1. Backed(session.status)
      BY DEF GateInv
    <3>2. QED
      BY <1>1, <2>1, <3>1 DEF RecordsGrow, Backed
  <2>2. CASE session'.status = assigned.status
    <3>1. session'.status = status
      BY <2>2
    <3>2. QED
      BY <3>1 DEF Backed
  <2>3. QED
    BY <1>2, <2>1, <2>2
<1>4. ASSUME NEW q \in Requests, req'[q] # Idle
      PROVE  LoadedStatus(q)' /\ Backed(req[q].loaded.status)'
  <2>1. q # r /\ req'[q] = req[q]
    BY <1>4 DEF Commit, TypeInv, TypeOK
  <2>2. LoadedStatus(q) /\ Backed(req[q].loaded.status)
    BY <1>4, <2>1 DEF GateInv
  <2>3. QED
    BY <1>1, <2>1, <2>2 DEF LoadedStatus, Backed, RecordsGrow
<1>5. rows' # << >> => Backed("active")'
  <2>1. Backed("active") => Backed("active")'
    BY <1>1, BackedStays
  <2>2. QED
    BY <2>1 DEF GateInv
<1>6. QED
  BY <1>3, <1>4, <1>5 DEF GateInv

\* Every step of Next, and every stutter, keeps the gate invariant: a commit
\* writes a status that the snapshot it loaded, or its own entry, backs.
LEMMA GateStep == TypeInv /\ GateInv /\ [Next]_vars => GateInv'
<1> SUFFICES ASSUME TypeInv, GateInv, [Next]_vars PROVE GateInv'
  OBVIOUS
<1>1. ASSUME NEW r \in Requests, ConsentLoad(r) PROVE GateInv'
  BY <1>1, LoadGate DEF ConsentLoad
<1>2. ASSUME NEW r \in Requests, ConsentCommit(r) PROVE GateInv'
  <2> DEFINE s == req[r].loaded
             granted == req[r].granted
             new == [s EXCEPT !.status = IF granted THEN "consent_granted" ELSE "declined",
                              !.finished = IF granted THEN @ ELSE TRUE]
             actions == IF granted THEN {"consent_granted"} ELSE {"consent_declined"}
  <2>1. s \in Sessions /\ granted \in BOOLEAN
    BY <1>2 DEF ConsentCommit, Commit, TypeInv, TypeOK, InProgress
  <2>2. new.status = IF granted THEN "consent_granted" ELSE "declined"
    BY <2>1 DEF Sessions
  <2>3. Commit(r, "consent", new, actions) /\ rows' = rows /\ consents' = Append(consents, granted)
    BY <1>2 DEF ConsentCommit
  <2>4. /\ \A i \in DOMAIN consents : i \in DOMAIN consents' /\ consents'[i] = consents[i]
        /\ Len(consents) + 1 \in DOMAIN consents' /\ consents'[Len(consents) + 1] = granted
    BY <2>1, <2>3 DEF TypeInv, TypeOK
  <2>5. audited' = audited \union actions
    BY <2>3 DEF Commit
  <2>6. PICK status \in {"consent_granted", "declined"} :
            new.status = status /\ (granted <=> status = "consent_granted")
    BY <2>1, <2>2
  <2>7. Backed(status)'
    BY <2>1, <2>4, <2>5, <2>6 DEF Backed
  <2> HIDE DEF new, actions
  <2>8. QED
    BY <2>3, <2>4, <2>6, <2>7, CommitGate
<1>3. ASSUME NEW r \in Requests, PrecheckLoad(r) PROVE GateInv'
  BY <1>3, LoadGate DEF PrecheckLoad
<1>4. ASSUME NEW r \in Requests, PrecheckCommit(r) PROVE GateInv'
  <2> DEFINE new == AfterPrecheck(req[r].loaded, req[r].report)
             passed == EvaluatePrecheck(req[r].report)
             actions == IF passed THEN {"precheck_passed"} ELSE {}
  <2>1. req[r].loaded \in Sessions /\ req[r] # Idle /\ req[r].op = "precheck"
    BY <1>4 DEF PrecheckCommit, Commit, TypeInv, TypeOK, InProgress
  <2>2. new.status = IF passed THEN "precheck_passed" ELSE "consent_granted"
    BY <2>1 DEF Sessions, AfterPrecheck
  <2>3. Commit(r, "precheck", new, actions) /\ UNCHANGED <<consents, rows>>
    BY <1>4 DEF PrecheckCommit
  <2>4. Backed("consent_granted")
    BY <2>1 DEF GateInv, LoadedStatus, Backed
  <2>5. audited' = audited \union actions
    BY <2>3 DEF Commit
  <2>6. PICK status \in {"precheck_passed", "consent_granted"} :
            new.status = status /\ (status = "precheck_passed" => passed)
    BY <2>2
  <2>7. Backed(status)'
    BY <2>3, <2>4, <2>5, <2>6 DEF Backed
  <2> HIDE DEF new, actions
  <2>8. QED
    BY <2>3, <2>6, <2>7, CommitGate
<1>5. ASSUME NEW r \in Requests, StartLoad(r) PROVE GateInv'
  BY <1>5, LoadGate DEF StartLoad
<1>6. ASSUME NEW r \in Requests, StartCommit(r) PROVE GateInv'
  <2> DEFINE new == [req[r].loaded EXCEPT !.status = "active", !.asked = <<Decide(plan, << >>, 0)>>]
  <2>1. req[r].loaded \in Sessions /\ req[r] # Idle /\ req[r].op = "start"
    BY <1>6 DEF StartCommit, Commit, TypeInv, TypeOK, InProgress
  <2>2. new.status = "active"
    BY <2>1 DEF Sessions
  <2>3. Commit(r, "start", new, {"started"}) /\ UNCHANGED consents
    BY <1>6 DEF StartCommit
  <2>4. Backed("precheck_passed")
    BY <2>1 DEF GateInv, LoadedStatus
  <2>5. audited' = audited \union {"started"}
    BY <2>3 DEF Commit
  <2>6. Backed("active")'
    BY <2>3, <2>4, <2>5 DEF Backed
  <2> HIDE DEF new
  <2>7. QED
    BY <2>2, <2>3, <2>6, CommitGate
<1>7. ASSUME NEW r \in Requests, AnswerLoad(r) PROVE GateInv'
  BY <1>7, LoadGate DEF AnswerLoad
<1>8. ASSUME NEW r \in Requests, AnswerOpen(r) PROVE GateInv'
  <2>1. /\ \A q \in Requests : req'[q] # Idle =>
             req[q] # Idle /\ req'[q].op = req[q].op /\ req'[q].loaded = req[q].loaded
        /\ UNCHANGED <<session, consents, rows, audited>>
    <3>1. PICK i, hits : req' = [req EXCEPT ![r].ready = TRUE, ![r].row = i, ![r].hits = hits]
      BY <1>8 DEF AnswerOpen
    <3>2. req[r] \in InProgress /\ req[r] # Idle
      BY <1>8 DEF AnswerOpen, TypeInv, TypeOK
    <3>3. QED
      BY <1>8, <3>1, <3>2 DEF AnswerOpen, TypeInv, TypeOK, InProgress
  <2>2. QED
    BY <2>1 DEF GateInv, LoadedStatus, Backed
<1>9. ASSUME NEW r \in Requests, AnswerCommit(r) PROVE GateInv'
  <2> DEFINE next == Decide(plan, req[r].loaded.asked, req[r].hits)
             new == AfterAnswer(req[r].loaded, next)
             actions == IF next.kind = Closing THEN {"completed"} ELSE {}
  <2>1. req[r].loaded \in Sessions /\ req[r] # Idle /\ req[r].op = "answer"
    BY <1>9 DEF AnswerCommit, Commit, TypeInv, TypeOK, InProgress
  <2>2. Commit(r, "answer", new, actions) /\ UNCHANGED consents
    BY <1>9 DEF AnswerCommit
  <2>3. req[r].loaded.status = "active" /\ Backed("active")
    BY <2>1 DEF GateInv, LoadedStatus
  <2>4. audited' = audited \union actions
    BY <2>2 DEF Commit
  <2>5. new.status = IF next.kind = Closing THEN "completed" ELSE "active"
    BY <2>1, <2>3 DEF AfterAnswer, Sessions
  <2>6. PICK status \in {"completed", "active"} :
            new.status = status /\ (status = "completed" => next.kind = Closing)
    BY <2>5
  <2>7. Backed(status)' /\ Backed("active")'
    BY <2>2, <2>3, <2>4, <2>6 DEF Backed
  <2> HIDE DEF new, actions
  <2>8. QED
    BY <2>2, <2>6, <2>7, CommitGate
<1>10. ASSUME NEW r \in Requests, FinishLoad(r) PROVE GateInv'
  BY <1>10, LoadGate DEF FinishLoad
<1>11. ASSUME NEW r \in Requests, FinishCommit(r) PROVE GateInv'
  <2> DEFINE new == [req[r].loaded EXCEPT !.status = "aborted", !.finished = TRUE]
  <2>1. req[r].loaded \in Sessions /\ req[r] # Idle /\ req[r].op = "finish"
    BY <1>11 DEF FinishCommit, Commit, TypeInv, TypeOK, InProgress
  <2>2. Commit(r, "finish", new, {"aborted"}) /\ UNCHANGED <<consents, rows>>
    BY <1>11 DEF FinishCommit
  <2>3. Backed("active")
    BY <2>1 DEF GateInv, LoadedStatus
  <2>4. audited' = audited \union {"aborted"} /\ new.status = "aborted"
    BY <2>1, <2>2 DEF Commit, Sessions
  <2>5. Backed("aborted")'
    BY <2>2, <2>3, <2>4 DEF Backed
  <2> HIDE DEF new
  <2>6. QED
    BY <2>2, <2>4, <2>5, CommitGate
<1>12. ASSUME NEW r \in Requests, Rollback(r) PROVE GateInv'
  BY <1>12 DEF Rollback, TypeInv, TypeOK, GateInv, LoadedStatus, Backed
<1>13. CASE Expire
  BY <1>13 DEF Expire, GateInv, LoadedStatus, Backed
<1>14. CASE UNCHANGED vars
  BY <1>14 DEF vars, GateInv, LoadedStatus, Backed
<1>15. QED
  BY <1>1, <1>2, <1>3, <1>4, <1>5, <1>6, <1>7, <1>8, <1>9, <1>10, <1>11, <1>12,
     <1>13, <1>14 DEF Next, Serve

\* A new session waits for consent, which needs nothing on record.
LEMMA GateInit == Init => GateInv
BY DEF Init, GateInv, NewSession, Backed

\* However many requests overlap, no turn is stored and no gate is passed
\* without a granted consent and a passed pre-check on record.
THEOREM GatesOnRecord == Spec => []ConsentAndPrecheckOnRecord
<1>1. TypeInv /\ GateInv => ConsentAndPrecheckOnRecord
  BY DEF GateInv, Backed, ConsentAndPrecheckOnRecord, TypeInv, TypeOK, Sessions, Statuses
<1>2. QED
  BY <1>1, TypeInit, TypeStep, GateInit, GateStep, PTL DEF Spec

\* However many requests overlap, the status of a session is one its audit
\* trail accounts for.
THEOREM StatusOnRecord == Spec => []StatusAudited
<1>1. GateInv => StatusAudited
  BY DEF GateInv, Backed, StatusAudited
<1>2. QED
  BY <1>1, TypeInit, TypeStep, GateInit, GateStep, PTL DEF Spec

-----------------------------------------------------------------------------
(* The history of questions.                                               *)

\* A plan is a sequence of topics, each of them once.
LEMMA PlanTopics ==
  ASSUME NEW p, IsPlan(p)
  PROVE  /\ p \in Seq(Topics) /\ 1 \in DOMAIN p
         /\ \A i \in DOMAIN p : p[i] \in Topics /\ p[i].id \in TopicIds
         /\ \A i \in DOMAIN p : IndexOf(p, p[i].id) = {i}
         /\ \A id : \A i, j \in IndexOf(p, id) : i = j
<1>1. p \in Seq(Topics) /\ p # << >> /\ \A i, j \in DOMAIN p : p[i].id = p[j].id => i = j
  BY DEF IsPlan
<1>2. \A i \in DOMAIN p : p[i] \in Topics
  BY <1>1
<1>3. QED
  BY <1>1, <1>2 DEF IndexOf, Topics

\* After a turn of topic i, decide probes i or asks about the topic after it.
LEMMA DecideNext ==
  ASSUME NEW p, IsPlan(p), NEW asked, asked # << >>, NEW hits,
         NEW i \in IndexOf(p, asked[Len(asked)].topic)
  PROVE  Decide(p, asked, hits) =
           IF Probes(p, asked, i, hits) THEN Turn(Probe, p[i].id) ELSE Ask(p, i + 1)
<1> DEFINE at == IndexOf(p, asked[Len(asked)].topic)
           first == CHOOSE k \in at : \A j \in at : k <= j
<1>1. at = {i} /\ i \in Int
  BY PlanTopics DEF IndexOf
<1>2. first = i
  BY <1>1
<1>3. QED
  BY <1>1, <1>2 DEF Decide

\* Whatever the loop asked about is in the plan.
LEMMA WalkInPlan ==
  ASSUME NEW p, NEW asked \in Seq(AskedTurns), EngineWalk(p, asked), NEW k \in DOMAIN asked
  PROVE  IndexOf(p, asked[k].topic) # {}
<1>1. CASE asked[k].kind = Question
  BY <1>1 DEF EngineWalk, Question, Probe
<1>2. CASE asked[k].kind = Probe
  <2>1. k > 1 /\ asked[k - 1] = Turn(Question, asked[k].topic)
    BY <1>2 DEF EngineWalk, Question, Probe
  <2>2. k - 1 \in DOMAIN asked /\ asked[k - 1].kind = Question /\ asked[k - 1].topic = asked[k].topic
    BY <2>1 DEF Turn
  <2>3. QED
    BY <2>2 DEF EngineWalk, Question, Probe
<1>3. QED
  BY <1>1, <1>2 DEF EngineWalk

\* The turn decide returns continues a history the loop may have asked: it is
\* the first question, a probe of the question just asked or the question of
\* the next topic.
LEMMA WalkExtends ==
  ASSUME NEW p, IsPlan(p), NEW asked \in Seq(AskedTurns), EngineWalk(p, asked), NEW hits \in Nat,
         Decide(p, asked, hits).kind # Closing
  PROVE  EngineWalk(p, Append(asked, Decide(p, asked, hits)))
<1> DEFINE next == Decide(p, asked, hits)
           n == Len(asked)
           walk == Append(asked, next)
<1>1. next \in AskedTurns
  BY DecideType
<1>2. /\ n \in Nat /\ DOMAIN asked = 1 .. n /\ DOMAIN walk = 1 .. n + 1
      /\ \A k \in 1 .. n : walk[k] = asked[k]
      /\ walk[n + 1] = next
  BY <1>1
<1>3. CASE asked = << >>
  <2>1. n = 0 /\ next = Turn(Question, p[1].id)
    BY <1>3, PlanTopics DEF Decide, Ask
  <2>2. IndexOf(p, p[1].id) # {}
    BY PlanTopics
  <2> HIDE DEF next, walk
  <2>3. EngineWalk(p, walk)
    BY <1>2, <2>1, <2>2 DEF EngineWalk, Turn
  <2>4. QED
    BY <2>3 DEF walk, next
<1>4. CASE asked # << >>
  <2>1. n \in DOMAIN asked /\ n >= 1
    BY <1>2, <1>4
  <2>2. PICK i \in IndexOf(p, asked[n].topic) : TRUE
    BY <2>1, WalkInPlan
  <2>3. i \in DOMAIN p /\ i \in Nat /\ p[i].id = asked[n].topic
    BY PlanTopics DEF IndexOf
  <2>4. next = IF Probes(p, asked, i, hits) THEN Turn(Probe, p[i].id) ELSE Ask(p, i + 1)
    BY <1>4, <2>2, DecideNext
  <2>5. CASE Probes(p, asked, i, hits)
    <3>1. asked[n].kind = Question
      BY <2>1, <2>5 DEF EngineWalk, Probes
    <3>2. asked[n] = Turn(Question, asked[n].topic)
      <4>1. asked[n] \in AskedTurns
        BY <2>1
      <4>2. QED
        BY <3>1, <4>1 DEF AskedTurns, Turn
    <3>3. next.kind = Probe /\ next.topic = asked[n].topic
      BY <2>3, <2>4, <2>5 DEF Turn
    <3> HIDE DEF next, walk
    <3>4. \A k \in DOMAIN walk :
            \/ walk[k].kind = Question /\ IndexOf(p, walk[k].topic) # {}
            \/ walk[k].kind = Probe /\ k > 1 /\ walk[k - 1] = Turn(Question, walk[k].topic)
      <4> SUFFICES ASSUME NEW k \in DOMAIN walk
                   PROVE  \/ walk[k].kind = Question /\ IndexOf(p, walk[k].topic) # {}
                          \/ /\ walk[k].kind = Probe /\ k > 1
                             /\ walk[k - 1] = Turn(Question, walk[k].topic)
        OBVIOUS
      <4>1. CASE k = n + 1
        BY <1>2, <2>1, <3>2, <3>3, <4>1
      <4>2. CASE k \in 1 .. n
        BY <1>2, <4>2 DEF EngineWalk
      <4>3. QED
        BY <1>2, <4>1, <4>2
    <3>5. \A k \in DOMAIN walk : k > 1 /\ walk[k].kind = Question =>
            \A j \in IndexOf(p, walk[k].topic) : j - 1 \in IndexOf(p, walk[k - 1].topic)
      <4> SUFFICES ASSUME NEW k \in DOMAIN walk, k > 1, walk[k].kind = Question
                   PROVE  \A j \in IndexOf(p, walk[k].topic) : j - 1 \in IndexOf(p, walk[k - 1].topic)
        OBVIOUS
      <4>1. k \in 1 .. n /\ walk[k] = asked[k] /\ walk[k - 1] = asked[k - 1]
        BY <1>2, <3>3 DEF Question, Probe
      <4>2. QED
        BY <1>2, <4>1 DEF EngineWalk
    <3>6. walk[1].topic = p[1].id
      BY <1>2, <1>4, <2>1 DEF EngineWalk
    <3>7. EngineWalk(p, walk)
      BY <3>4, <3>5, <3>6 DEF EngineWalk
    <3>8. QED
      BY <3>7 DEF walk, next
  <2>6. CASE ~ Probes(p, asked, i, hits)
    <3>1. i + 1 \in DOMAIN p /\ next = Turn(Question, p[i + 1].id)
      BY <2>4, <2>6 DEF Ask, Turn
    <3>2. IndexOf(p, p[i + 1].id) = {i + 1}
      BY <3>1, PlanTopics
    <3>3. next.kind = Question /\ next.topic = p[i + 1].id
      BY <3>1 DEF Turn
    <3> HIDE DEF next, walk
    <3>4. \A k \in DOMAIN walk :
            \/ walk[k].kind = Question /\ IndexOf(p, walk[k].topic) # {}
            \/ walk[k].kind = Probe /\ k > 1 /\ walk[k - 1] = Turn(Question, walk[k].topic)
      <4> SUFFICES ASSUME NEW k \in DOMAIN walk
                   PROVE  \/ walk[k].kind = Question /\ IndexOf(p, walk[k].topic) # {}
                          \/ /\ walk[k].kind = Probe /\ k > 1
                             /\ walk[k - 1] = Turn(Question, walk[k].topic)
        OBVIOUS
      <4>1. CASE k = n + 1
        BY <1>2, <3>2, <3>3, <4>1
      <4>2. CASE k \in 1 .. n
        BY <1>2, <4>2 DEF EngineWalk
      <4>3. QED
        BY <1>2, <4>1, <4>2
    <3>5. \A k \in DOMAIN walk : k > 1 /\ walk[k].kind = Question =>
            \A j \in IndexOf(p, walk[k].topic) : j - 1 \in IndexOf(p, walk[k - 1].topic)
      <4> SUFFICES ASSUME NEW k \in DOMAIN walk, k > 1, walk[k].kind = Question,
                          NEW j \in IndexOf(p, walk[k].topic)
                   PROVE  j - 1 \in IndexOf(p, walk[k - 1].topic)
        OBVIOUS
      <4>1. CASE k = n + 1
        <5>1. j = i + 1 /\ walk[k - 1] = asked[n]
          BY <1>2, <2>1, <3>2, <3>3, <4>1
        <5>2. j - 1 = i
          BY <2>3, <5>1
        <5>3. QED
          BY <2>2, <5>1, <5>2
      <4>2. CASE k \in 1 .. n
        <5>1. walk[k] = asked[k] /\ walk[k - 1] = asked[k - 1]
          BY <1>2, <4>2
        <5>2. QED
          BY <1>2, <4>2, <5>1 DEF EngineWalk
      <4>3. QED
        BY <1>2, <4>1, <4>2
    <3>6. walk[1].topic = p[1].id
      BY <1>2, <1>4, <2>1 DEF EngineWalk
    <3>7. EngineWalk(p, walk)
      BY <3>4, <3>5, <3>6 DEF EngineWalk
    <3>8. QED
      BY <3>7 DEF walk, next
  <2>7. QED
    BY <2>5, <2>6
<1>5. QED
  BY <1>3, <1>4

\* What is stored of the history, and what any request has loaded of it.
WalkInv ==
  /\ EngineWalk(plan, session.asked)
  /\ \A r \in Requests : req[r] # Idle => EngineWalk(plan, req[r].loaded.asked)

\* A commit keeps the history that is stored, or writes one that it continued
\* from the history it loaded: it never mixes the two.
LEMMA CommitWalk ==
  ASSUME TypeInv, WalkInv, NEW r \in Requests, NEW op, NEW STATE assigned, NEW STATE actions,
         Commit(r, op, assigned, actions), EngineWalk(plan, assigned.asked)
  PROVE  WalkInv'
<1>1. plan' = plan /\ session'.asked \in {session.asked, assigned.asked}
  BY DEF Commit, Flush, Column
<1>2. EngineWalk(plan', session'.asked)
  BY <1>1 DEF WalkInv
<1>3. ASSUME NEW q \in Requests, req'[q] # Idle
      PROVE  EngineWalk(plan', req'[q].loaded.asked)
  <2>1. q # r /\ req'[q] = req[q]
    BY <1>3 DEF Commit, TypeInv, TypeOK
  <2>2. QED
    BY <1>1, <1>3, <2>1 DEF WalkInv
<1>4. QED
  BY <1>2, <1>3 DEF WalkInv, EngineWalk, IndexOf

\* Every step of Next, and every stutter, keeps the histories walks of the plan.
LEMMA WalkStep == TypeInv /\ WalkInv /\ [Next]_vars => WalkInv'
<1> SUFFICES ASSUME TypeInv, WalkInv, [Next]_vars PROVE WalkInv'
  OBVIOUS
<1>0. IsPlan(plan) /\ session \in Sessions
  BY PlansAssumption DEF TypeInv, TypeOK
<1>1. ASSUME NEW r \in Requests, NEW op, NEW granted, NEW report, Load(r, op, granted, report)
      PROVE  WalkInv'
  <2>1. UNCHANGED <<plan, session>>
    BY <1>1 DEF Load
  <2>2. \A q \in Requests : req'[q] = req[q] \/ req'[q].loaded = session
    BY <1>1 DEF Load, TypeInv, TypeOK
  <2>3. \A q \in Requests : req'[q] # Idle => EngineWalk(plan, req'[q].loaded.asked)
    BY <2>2 DEF WalkInv
  <2>4. QED
    BY <2>1, <2>3 DEF WalkInv, EngineWalk, IndexOf
<1>2. ASSUME NEW r \in Requests, ConsentCommit(r) PROVE WalkInv'
  <2> DEFINE s == req[r].loaded
             granted == req[r].granted
             new == [s EXCEPT !.status = IF granted THEN "consent_granted" ELSE "declined",
                              !.finished = IF granted THEN @ ELSE TRUE]
             actions == IF granted THEN {"consent_granted"} ELSE {"consent_declined"}
  <2>1. s \in Sessions /\ req[r] # Idle
    BY <1>2 DEF ConsentCommit, Commit, TypeInv, TypeOK, InProgress
  <2>2. new.asked = s.asked
    BY <2>1 DEF Sessions
  <2>3. Commit(r, "consent", new, actions) /\ EngineWalk(plan, s.asked)
    BY <1>2, <2>1 DEF ConsentCommit, WalkInv
  <2>4. EngineWalk(plan, new.asked)
    BY <2>2, <2>3
  <2> HIDE DEF new, actions
  <2>5. QED
    BY <2>3, <2>4, CommitWalk
<1>3. ASSUME NEW r \in Requests, PrecheckCommit(r) PROVE WalkInv'
  <2> DEFINE new == AfterPrecheck(req[r].loaded, req[r].report)
             actions == IF EvaluatePrecheck(req[r].report) THEN {"precheck_passed"} ELSE {}
  <2>1. req[r].loaded \in Sessions /\ req[r] # Idle
    BY <1>3 DEF PrecheckCommit, Commit, TypeInv, TypeOK, InProgress
  <2>2. new.asked = req[r].loaded.asked
    BY <2>1 DEF AfterPrecheck, Sessions
  <2>3. Commit(r, "precheck", new, actions) /\ EngineWalk(plan, req[r].loaded.asked)
    BY <1>3, <2>1 DEF PrecheckCommit, WalkInv
  <2>4. EngineWalk(plan, new.asked)
    BY <2>2, <2>3
  <2> HIDE DEF new, actions
  <2>5. QED
    BY <2>3, <2>4, CommitWalk
<1>4. ASSUME NEW r \in Requests, StartCommit(r) PROVE WalkInv'
  <2> DEFINE first == Decide(plan, << >>, 0)
             new == [req[r].loaded EXCEPT !.status = "active", !.asked = <<first>>]
  <2>1. req[r].loaded \in Sessions
    BY <1>4 DEF StartCommit, Commit, TypeInv, TypeOK, InProgress
  <2>2. Commit(r, "start", new, {"started"})
    BY <1>4 DEF StartCommit
  <2>3. EngineWalk(plan, Append(<< >>, first))
    <3>1. first.kind # Closing
      BY <1>0, PlanTopics DEF Decide, Ask, Turn, Question, Closing
    <3>2. EngineWalk(plan, << >>) /\ << >> \in Seq(AskedTurns)
      BY DEF EngineWalk
    <3>3. QED
      BY <1>0, <3>1, <3>2, WalkExtends
  <2>4. Append(<< >>, first) = <<first>>
    OBVIOUS
  <2>5. new.asked = <<first>>
    BY <2>1 DEF Sessions
  <2>6. EngineWalk(plan, new.asked)
    BY <2>3, <2>4, <2>5
  <2> HIDE DEF new
  <2>7. QED
    BY <2>2, <2>6, CommitWalk
<1>5. ASSUME NEW r \in Requests, AnswerOpen(r) PROVE WalkInv'
  <2>1. /\ \A q \in Requests : req'[q] # Idle =>
             req[q] # Idle /\ req'[q].loaded = req[q].loaded
        /\ UNCHANGED <<plan, session>>
    <3>1. PICK i, hits : req' = [req EXCEPT ![r].ready = TRUE, ![r].row = i, ![r].hits = hits]
      BY <1>5 DEF AnswerOpen
    <3>2. req[r] \in InProgress /\ req[r] # Idle
      BY <1>5 DEF AnswerOpen, TypeInv, TypeOK
    <3>3. QED
      BY <1>5, <3>1, <3>2 DEF AnswerOpen, TypeInv, TypeOK, InProgress
  <2>2. QED
    BY <2>1 DEF WalkInv, EngineWalk, IndexOf
<1>6. ASSUME NEW r \in Requests, AnswerCommit(r) PROVE WalkInv'
  <2> DEFINE next == Decide(plan, req[r].loaded.asked, req[r].hits)
             new == AfterAnswer(req[r].loaded, next)
             actions == IF next.kind = Closing THEN {"completed"} ELSE {}
  <2>1. req[r].loaded \in Sessions /\ req[r] # Idle /\ req[r].hits \in Nat
    BY <1>6 DEF AnswerCommit, Commit, TypeInv, TypeOK, InProgress
  <2>2. Commit(r, "answer", new, actions) /\ EngineWalk(plan, req[r].loaded.asked)
    BY <1>6, <2>1 DEF AnswerCommit, WalkInv
  <2>3. req[r].loaded.asked \in Seq(AskedTurns)
    BY <2>1 DEF Sessions
  <2>4. next.kind # Closing => EngineWalk(plan, Append(req[r].loaded.asked, next))
    BY <1>0, <2>1, <2>2, <2>3, WalkExtends
  <2>5. new.asked = IF next.kind = Closing THEN req[r].loaded.asked
                                           ELSE Append(req[r].loaded.asked, next)
    <3> HIDE DEF next
    <3>1. QED
      BY <2>1 DEF AfterAnswer, Sessions
  <2>6. EngineWalk(plan, new.asked)
    <3> HIDE DEF next, new
    <3>1. QED
      BY <2>2, <2>4, <2>5
  <2> HIDE DEF new, actions
  <2>7. QED
    BY <2>2, <2>6, CommitWalk
<1>7. ASSUME NEW r \in Requests, FinishCommit(r) PROVE WalkInv'
  <2> DEFINE new == [req[r].loaded EXCEPT !.status = "aborted", !.finished = TRUE]
  <2>1. req[r].loaded \in Sessions /\ req[r] # Idle
    BY <1>7 DEF FinishCommit, Commit, TypeInv, TypeOK, InProgress
  <2>2. Commit(r, "finish", new, {"aborted"}) /\ EngineWalk(plan, req[r].loaded.asked)
    BY <1>7, <2>1 DEF FinishCommit, WalkInv
  <2>3. new.asked = req[r].loaded.asked
    BY <2>1 DEF Sessions
  <2>4. EngineWalk(plan, new.asked)
    BY <2>2, <2>3
  <2> HIDE DEF new
  <2>5. QED
    BY <2>2, <2>4, CommitWalk
<1>8. ASSUME NEW r \in Requests, Rollback(r) PROVE WalkInv'
  <2>1. /\ \A q \in Requests : req'[q] # Idle => req'[q] = req[q]
        /\ UNCHANGED <<plan, session>>
    BY <1>8 DEF Rollback, TypeInv, TypeOK
  <2>2. QED
    BY <2>1 DEF WalkInv, EngineWalk, IndexOf
<1>9. CASE Expire \/ UNCHANGED vars
  BY <1>9 DEF Expire, vars, WalkInv, EngineWalk, IndexOf
<1>10. QED
  BY <1>1, <1>2, <1>3, <1>4, <1>5, <1>6, <1>7, <1>8, <1>9
  DEF Next, Serve, ConsentLoad, PrecheckLoad, StartLoad, AnswerLoad, FinishLoad

\* Nothing has been asked of a new session.
LEMMA WalkInit == Init => WalkInv
BY DEF Init, NewSession, WalkInv, EngineWalk, IndexOf

\* However many answers overlap, asked_turns is a history of the engine: the
\* topics of the plan in their order, none skipped, one probe at most for each.
THEOREM WalksThePlan == Spec => []AskedInPlanOrder
<1>1. WalkInv => AskedInPlanOrder
  BY DEF WalkInv, AskedInPlanOrder
<1>2. QED
  BY <1>1, WalkInit, TypeInit, TypeStep, WalkStep, PTL DEF Spec

\* A walk does not dwell: by the i-th topic of the plan at most two turns were
\* asked per topic so far, and by its question one less.
LEMMA WalkPace ==
  ASSUME NEW p, IsPlan(p), NEW asked \in Seq(AskedTurns), EngineWalk(p, asked),
         NEW k \in DOMAIN asked, NEW i \in IndexOf(p, asked[k].topic)
  PROVE  IF asked[k].kind = Probe THEN k <= 2 * i ELSE k <= 2 * i - 1
<1> DEFINE InPace(m, j) == IF asked[m].kind = Probe THEN m <= 2 * j ELSE m <= 2 * j - 1
           late == {m \in DOMAIN asked : \E j \in IndexOf(p, asked[m].topic) : ~ InPace(m, j)}
<1> SUFFICES ASSUME late # {} PROVE FALSE
  OBVIOUS
<1>0. \A m, j : j \in IndexOf(p, asked[m].topic) => j \in DOMAIN p /\ j \in Nat \ {0}
  BY DEF IndexOf, IsPlan
<1>1. late \in SUBSET Nat
  OBVIOUS
<1>2. PICK m \in late : \A n \in late : m <= n
  <2> HIDE DEF late
  <2> QED
    BY <1>1, LeastExists
<1>3. PICK j \in IndexOf(p, asked[m].topic) : ~ InPace(m, j)
  OBVIOUS
<1>4. /\ m \in Nat \ {0} /\ j \in Nat \ {0}
      /\ m > 1 => m - 1 \in DOMAIN asked /\ m - 1 \notin late
  BY <1>0, <1>2
<1>5. CASE asked[m].kind = Probe
  <2>1. m > 1 /\ asked[m - 1] = Turn(Question, asked[m].topic)
    BY <1>2, <1>5 DEF EngineWalk, Question, Probe
  <2>2. j \in IndexOf(p, asked[m - 1].topic) /\ asked[m - 1].kind # Probe
    BY <2>1 DEF Turn, Question, Probe
  <2>3. InPace(m - 1, j)
    BY <1>4, <2>1, <2>2
  <2>4. QED
    BY <1>3, <1>4, <1>5, <2>2, <2>3
<1>6. CASE asked[m].kind # Probe
  <2>1. asked[m].kind = Question
    BY <1>2, <1>6 DEF EngineWalk
  <2>2. CASE m > 1
    <3>1. j - 1 \in IndexOf(p, asked[m - 1].topic)
      BY <1>2, <2>1, <2>2 DEF EngineWalk
    <3>2. InPace(m - 1, j - 1)
      BY <1>4, <2>2, <3>1
    <3>3. QED
      BY <1>3, <1>4, <1>6, <3>2
  <2>3. QED
    BY <1>3, <1>4, <1>6, <2>2
<1>7. QED
  BY <1>5, <1>6

\* The interview is finite, whatever the candidate answers and however many
\* answers overlap: at most a question and a probe per topic of the plan are
\* ever asked (MAX_PROBES_PER_TOPIC, and decide going through the plan once).
THEOREM TurnsAreBounded == Spec => [](Len(session.asked) <= 2 * Len(plan))
<1>1. TypeInv /\ WalkInv => Len(session.asked) <= 2 * Len(plan)
  <2> SUFFICES ASSUME TypeInv, WalkInv PROVE Len(session.asked) <= 2 * Len(plan)
    OBVIOUS
  <2> DEFINE asked == session.asked
             n == Len(asked)
  <2>1. IsPlan(plan) /\ asked \in Seq(AskedTurns) /\ EngineWalk(plan, asked)
    BY PlansAssumption DEF TypeInv, TypeOK, Sessions, WalkInv
  <2>2. Len(plan) \in Nat /\ DOMAIN plan = 1 .. Len(plan)
    BY <2>1 DEF IsPlan
  <2> HIDE DEF asked
  <2>3. CASE n = 0
    BY <2>2, <2>3 DEF asked
  <2>4. CASE n # 0
    <3>1. n \in DOMAIN asked /\ n \in Nat
      BY <2>1, <2>4
    <3>2. PICK i : i \in IndexOf(plan, asked[n].topic)
      BY <2>1, <3>1, WalkInPlan
    <3>3. i \in 1 .. Len(plan)
      BY <2>2, <3>2 DEF IndexOf
    <3>4. n <= 2 * i \/ n <= 2 * i - 1
      BY <2>1, <3>1, <3>2, WalkPace
    <3>5. QED
      BY <2>2, <3>1, <3>3, <3>4 DEF asked
  <2>5. QED
    BY <2>3, <2>4
<1>2. QED
  BY TypeInit, TypeStep, WalkInit, WalkStep, <1>1, PTL DEF Spec

\* At most n topics that differ, with their ids among those of a set.
Differing(topics, ids, n) ==
  /\ topics \in Seq(Topics)
  /\ Len(topics) <= n
  /\ \A i \in DOMAIN topics : topics[i].id \in ids
  /\ \A i, j \in DOMAIN topics : topics[i].id = topics[j].id => i = j

\* A topic that is new is appended, or not.
LEMMA OneMoreTopic ==
  ASSUME NEW topics, NEW ids, NEW n \in Nat, Differing(topics, ids, n),
         NEW topic \in Topics, topic.id \notin ids, NEW rest \in {<<topic>>, << >>}
  PROVE  /\ Differing(topics \o rest, ids \union {topic.id}, n + 1)
         /\ rest = <<topic>> => topics \o rest # << >>
<1>0. topics \in Seq(Topics) /\ Len(topics) \in Nat
  BY DEF Differing
<1>1. CASE rest = <<topic>>
  <2> DEFINE more == Append(topics, topic)
  <2>1. topics \o rest = more
    BY <1>0, <1>1
  <2>2. /\ more \in Seq(Topics) /\ Len(more) = Len(topics) + 1
        /\ more[Len(topics) + 1] = topic
        /\ \A i \in 1 .. Len(topics) : more[i] = topics[i] /\ i \in DOMAIN topics
        /\ DOMAIN more = 1 .. Len(topics) + 1
    BY <1>0
  <2> HIDE DEF more
  <2>3. \A i \in DOMAIN more : i \in 1 .. Len(topics) \/ i = Len(topics) + 1
    BY <1>0, <2>2
  <2>4. Differing(more, ids \union {topic.id}, n + 1)
    BY <1>0, <2>2, <2>3 DEF Differing
  <2>5. QED
    BY <1>0, <2>1, <2>2, <2>4
<1>2. CASE rest = << >>
  <2>1. topics \o rest = topics
    BY <1>0, <1>2
  <2>2. QED
    BY <1>0, <1>2, <2>1 DEF Differing
<1>3. QED
  BY <1>1, <1>2

\* The assumption on stored plans is what build_plan gives: however many skills
\* the resume misses or shows, and however many years the role asks for, a plan
\* has one to four topics and none twice.
THEOREM BuiltPlansArePlans ==
  ASSUME NEW missing \in Nat, NEW verified \in Nat, NEW minYears \in Nat
  PROVE  /\ IsPlan(BuildPlan(missing, verified, minYears))
         /\ Len(BuildPlan(missing, verified, minYears)) \in 1 .. 4
<1> DEFINE gap == Topic("required_gap", AtMost(missing, 3), TRUE)
           strength == Topic("strength_probe", AtMost(verified, 2), TRUE)
           depth == Topic("experience_depth", 4, TRUE)
           own == Topic("candidate_questions", 0, FALSE)
           none == << >>
           one == none \o When(missing > 0, gap)
           two == one \o When(verified > 0, strength)
           three == two \o When(minYears > 0, depth)
           four == three \o When(TRUE, own)
<1>1. /\ gap \in Topics /\ strength \in Topics /\ depth \in Topics /\ own \in Topics
      /\ gap.id = "required_gap" /\ strength.id = "strength_probe"
      /\ depth.id = "experience_depth" /\ own.id = "candidate_questions"
  BY DEF Topic, Topics, TopicIds, AtMost
<1>2. BuildPlan(missing, verified, minYears) = four
  <2>1. \A x : none \o <<x>> = <<x>> /\ none \o << >> = << >>
    OBVIOUS
  <2>2. none \o When(missing > 0, gap) = When(missing > 0, gap)
    BY <2>1 DEF When
  <2>3. When(TRUE, own) = <<own>>
    BY DEF When
  <2> HIDE DEF gap, strength, depth, own, none
  <2>4. BuildPlan(missing, verified, minYears) =
          When(missing > 0, gap) \o When(verified > 0, strength)
            \o When(minYears > 0, depth) \o <<own>>
    BY DEF BuildPlan, gap, strength, depth, own
  <2>5. QED
    BY <2>2, <2>3, <2>4
<1>3. Differing(none, {}, 0)
  BY DEF Differing
<1>4. /\ one = none \o When(missing > 0, gap) /\ two = one \o When(verified > 0, strength)
      /\ three = two \o When(minYears > 0, depth) /\ four = three \o When(TRUE, own)
  OBVIOUS
<1>5. /\ When(missing > 0, gap) \in {<<gap>>, << >>}
      /\ When(verified > 0, strength) \in {<<strength>>, << >>}
      /\ When(minYears > 0, depth) \in {<<depth>>, << >>}
      /\ When(TRUE, own) = <<own>> /\ <<own>> \in {<<own>>, << >>}
  BY DEF When
<1> HIDE DEF gap, strength, depth, own, none, one, two, three, four
<1> DEFINE ids1 == {} \union {gap.id}
           ids2 == ids1 \union {strength.id}
           ids3 == ids2 \union {depth.id}
<1>6. /\ gap.id \notin {} /\ strength.id \notin ids1
      /\ depth.id \notin ids2 /\ own.id \notin ids3
  BY <1>1
<1>7. 0 \in Nat /\ 1 \in Nat /\ 2 \in Nat /\ 3 \in Nat
  OBVIOUS
<1>8. Differing(one, ids1, 0 + 1)
  BY <1>1, <1>3, <1>4, <1>5, <1>6, <1>7, OneMoreTopic, Zenon
<1>9. Differing(two, ids2, 1 + 1)
  <2>1. Differing(one, ids1, 1)
    BY <1>8
  <2> HIDE DEF ids1
  <2>2. QED
    BY <1>1, <1>4, <1>5, <1>6, <1>7, <2>1, OneMoreTopic, Zenon
<1>10. Differing(three, ids3, 2 + 1)
  <2>1. Differing(two, ids2, 2)
    BY <1>9
  <2> HIDE DEF ids2
  <2>2. QED
    BY <1>1, <1>4, <1>5, <1>6, <1>7, <2>1, OneMoreTopic, Zenon
<1> HIDE DEF ids3
<1>11. Differing(four, ids3 \union {own.id}, 3 + 1) /\ four # << >>
  <2>1. Differing(three, ids3, 3)
    BY <1>10
  <2>2. QED
    BY <1>1, <1>4, <1>5, <1>6, <1>7, <2>1, OneMoreTopic, Zenon
<1>12. QED
  <2>1. /\ four \in Seq(Topics) /\ Len(four) <= 4 /\ four # << >>
        /\ \A i, j \in DOMAIN four : four[i].id = four[j].id => i = j
    BY <1>11 DEF Differing
  <2>2. Len(four) \in 1 .. 4
    <3>1. \A t \in Seq(Topics) : t # << >> => Len(t) \in Nat /\ Len(t) # 0
      OBVIOUS
    <3>2. Len(four) \in Nat /\ Len(four) # 0 /\ Len(four) <= 4
      BY <2>1, <3>1
    <3>3. \A m \in Nat : m # 0 /\ m <= 4 => m \in 1 .. 4
      OBVIOUS
    <3>4. QED
      BY <3>2, <3>3, Zenon
  <2>3. QED
    BY <1>2, <2>1, <2>2 DEF IsPlan

-----------------------------------------------------------------------------
(* The transcript.                                                         *)

\* A step that adds no row and takes no answer back keeps the order of turns.
LEMMA TurnsKept ==
  ASSUME TurnsFollowAnswers, rows' = rows
  PROVE  TurnsFollowAnswers'
BY DEF TurnsFollowAnswers

\* Every step keeps the order of turns: the row an answer adds follows the
\* row it has just answered, whatever was committed since it was loaded.
LEMMA TurnsStep == TypeInv /\ TurnsFollowAnswers /\ [Next]_vars => TurnsFollowAnswers'
<1> SUFFICES ASSUME TypeInv, TurnsFollowAnswers, [Next]_vars PROVE TurnsFollowAnswers'
  OBVIOUS
<1>0. rows \in Seq(Rows) /\ Len(rows) \in Nat /\ DOMAIN rows = 1 .. Len(rows)
      /\ \A i \in DOMAIN rows : rows[i] \in Rows /\ rows[i].seq \in Nat
  <2>1. rows \in Seq(Rows) /\ \A i \in DOMAIN rows : rows[i] \in Rows
    BY DEF TypeInv, TypeOK
  <2>2. QED
    BY <2>1 DEF Rows
<1>1. ASSUME NEW r \in Requests, StartCommit(r) PROVE TurnsFollowAnswers'
  <2> DEFINE new == NewRow(0, Decide(plan, << >>, 0))
  <2>1. rows' = Append(rows, new)
    BY <1>1 DEF StartCommit
  <2>2. new.seq = 0
    BY DEF NewRow
  <2> HIDE DEF new
  <2>3. /\ DOMAIN rows' = 1 .. Len(rows) + 1
        /\ \A i \in 1 .. Len(rows) : rows'[i] = rows[i]
        /\ rows'[Len(rows) + 1] = new
    BY <1>0, <2>1
  <2>4. QED
    BY <1>0, <2>2, <2>3 DEF TurnsFollowAnswers
<1>2. ASSUME NEW r \in Requests, AnswerCommit(r) PROVE TurnsFollowAnswers'
  <2> DEFINE i == req[r].row
             new == NewRow(rows[i].seq + 1, Decide(plan, req[r].loaded.asked, req[r].hits))
             answered == [rows EXCEPT ![i] = [rows[i] EXCEPT !.answer = req[r].hits]]
  <2>1. /\ rows' = Append(answered, new)
        /\ i \in DOMAIN rows /\ req[r].hits \in Nat
    BY <1>2 DEF AnswerCommit, Commit, TypeInv, TypeOK, RowsLoaded, InProgress
  <2>2. new.seq = rows[i].seq + 1
    BY DEF NewRow
  <2>3. [rows[i] EXCEPT !.answer = req[r].hits].seq = rows[i].seq
        /\ [rows[i] EXCEPT !.answer = req[r].hits].answer = req[r].hits
        /\ [rows[i] EXCEPT !.answer = req[r].hits] \in Rows
    <3>1. rows[i] \in Rows /\ req[r].hits \in Int
      BY <1>0, <2>1
    <3> HIDE DEF i
    <3>2. QED
      BY <3>1 DEF Rows
  <2>4. /\ answered \in Seq(Rows) /\ Len(answered) = Len(rows)
        /\ \A j \in DOMAIN rows : /\ answered[j].seq = rows[j].seq
                                  /\ rows[j].answer # Unanswered => answered[j].answer # Unanswered
        /\ answered[i].answer # Unanswered
    BY <1>0, <2>1, <2>3 DEF Unanswered
  <2> HIDE DEF new, answered, i
  <2>5. /\ DOMAIN rows' = 1 .. Len(rows) + 1
        /\ \A j \in 1 .. Len(rows) : rows'[j] = answered[j]
        /\ rows'[Len(rows) + 1] = new
    BY <1>0, <2>1, <2>4
  <2>6. ASSUME NEW k \in DOMAIN rows', rows'[k].seq > 0
        PROVE  \E j \in DOMAIN rows' : j < k /\ rows'[j].seq = rows'[k].seq - 1
                                       /\ rows'[j].answer # Unanswered
    <3>1. CASE k = Len(rows) + 1
      <4>1. i < k /\ i \in DOMAIN rows'
        BY <1>0, <2>1, <2>5, <3>1
      <4>2. rows'[i].seq = rows'[k].seq - 1 /\ rows'[i].answer # Unanswered
        BY <1>0, <2>1, <2>2, <2>4, <2>5, <3>1
      <4>3. QED
        BY <4>1, <4>2
    <3>2. CASE k \in DOMAIN rows
      <4>1. rows'[k].seq = rows[k].seq
        BY <1>0, <2>4, <2>5, <3>2
      <4>2. PICK j \in DOMAIN rows : j < k /\ rows[j].seq = rows[k].seq - 1
                                     /\ rows[j].answer # Unanswered
        BY <2>6, <3>2, <4>1 DEF TurnsFollowAnswers
      <4>3. j \in DOMAIN rows' /\ rows'[j].seq = rows[j].seq /\ rows'[j].answer # Unanswered
        BY <1>0, <2>4, <2>5, <4>2
      <4>4. QED
        BY <4>1, <4>2, <4>3
    <3>3. QED
      BY <1>0, <2>5, <3>1, <3>2
  <2>7. QED
    BY <2>6 DEF TurnsFollowAnswers
<1>3. CASE UNCHANGED rows
  BY <1>3, TurnsKept
<1>4. QED
  BY <1>1, <1>2, <1>3
  DEF Next, Serve, ConsentLoad, PrecheckLoad, StartLoad, AnswerLoad, FinishLoad, Load,
      ConsentCommit, PrecheckCommit, FinishCommit, AnswerOpen, Rollback, Expire, vars

\* However many answers overlap, the transcript has no gap and no turn is
\* asked before the one it follows was answered.
THEOREM AnsweredInTurn == Spec => []TurnsFollowAnswers
<1>1. Init => TurnsFollowAnswers
  BY DEF Init, TurnsFollowAnswers
<1>2. QED
  BY <1>1, TypeInit, TypeStep, TurnsStep, PTL DEF Spec

-----------------------------------------------------------------------------
(* Requests that do not overlap.                                           *)

\* At most one request is in progress at a time.
Serial == \A q, r \in Requests : q = r

\* The statuses of a session whose interview was started.
Started == {"active", "completed", "aborted"}

\* The turn a row of the transcript holds.
TurnOf(row) == Turn(row.kind, row.topic)

\* Nobody commits between a request's read and its commit: what it has loaded
\* is what is stored, and the open question it answers is the last row.
SnapInv ==
  \A r \in Requests : req[r] # Idle =>
    /\ req[r].loaded = session
    /\ req[r].op = "answer" /\ req[r].ready =>
         /\ req[r].row = Len(rows)
         /\ req[r].hits \in AnswersTo(plan, session.asked)

\* Before the start there is no turn; from then on the rows and asked_turns
\* say the same, and each turn is the one decide returns after those before it.
ReplayInv ==
  LET n == Len(rows)
      completed == session.status = "completed"
  IN  /\ session.status \notin Started => rows = << >> /\ session.asked = << >>
      /\ session.status \in Started =>
           /\ n >= 1
           /\ Len(session.asked) = IF completed THEN n - 1 ELSE n
           /\ \A i \in 1 .. n : rows[i].seq = i - 1
           /\ \A i \in 1 .. n : (rows[i].answer = Unanswered) <=> (i = n)
           /\ \A i \in 1 .. Len(session.asked) : TurnOf(rows[i]) = session.asked[i]
           /\ \A i \in 1 .. n :
                TurnOf(rows[i]) = Decide(plan, SubSeq(session.asked, 1, i - 1),
                                         IF i = 1 THEN 0 ELSE rows[i - 1].answer)
           /\ completed => AsksEveryTopic(plan, session.asked)

\* The gate of a started interview is one the latest pre-check has opened.
PassedInv ==
  session.status \in {"precheck_passed", "active"} =>
    session.prechecked /\ EvaluatePrecheck(session.report)

\* What a step may do to the session and its transcript: the decision on
\* consent, a pre-check, the start, an answer, the candidate's end, or nothing.
ConsentDecided ==
  /\ session.status = "pending_consent"
  /\ session'.status \in {"consent_granted", "declined"}
  /\ session'.asked = session.asked
  /\ UNCHANGED <<plan, rows>>

GateMoved ==
  /\ session.status \in {"consent_granted", "precheck_passed"}
  /\ session'.status \in {"consent_granted", "precheck_passed"}
  /\ session'.status = "precheck_passed" =>
       session'.prechecked /\ EvaluatePrecheck(session'.report)
  /\ session'.asked = session.asked
  /\ UNCHANGED <<plan, rows>>

InterviewStarted ==
  /\ session.status = "precheck_passed"
  /\ session'.status = "active"
  /\ session'.prechecked = session.prechecked /\ session'.report = session.report
  /\ session'.asked = <<Decide(plan, << >>, 0)>>
  /\ rows' = Append(rows, NewRow(0, Decide(plan, << >>, 0)))
  /\ UNCHANGED plan

TurnAnswered(hits, next) ==
  /\ session.status = "active"
  /\ next = Decide(plan, session.asked, hits)
  /\ session'.status = IF next.kind = Closing THEN "completed" ELSE "active"
  /\ session'.prechecked = session.prechecked /\ session'.report = session.report
  /\ session'.asked =
       IF next.kind = Closing THEN session.asked ELSE Append(session.asked, next)
  /\ rows' = Append([rows EXCEPT ![Len(rows)] = [rows[Len(rows)] EXCEPT !.answer = hits]],
                    NewRow(rows[Len(rows)].seq + 1, next))
  /\ UNCHANGED plan

Withdrawn ==
  /\ session.status = "active"
  /\ session'.status = "aborted"
  /\ session'.asked = session.asked
  /\ UNCHANGED <<plan, rows>>

Rested == UNCHANGED <<plan, session, rows>>

\* A commit writes all it assigned: it has loaded what is stored.
LEMMA SerialCommit ==
  ASSUME TypeInv, GateInv, SnapInv, NEW r \in Requests, NEW op,
         NEW STATE assigned, NEW STATE actions,
         Commit(r, op, assigned, actions), assigned \in Sessions
  PROVE  session' = assigned
<1>1. req[r].loaded = session
  BY DEF Commit, SnapInv
<1>2. session' = Flush(session, assigned)
  BY <1>1 DEF Commit
<1>3. Flush(session, assigned) =
        [status |-> assigned.status, prechecked |-> assigned.prechecked,
         report |-> assigned.report, asked |-> assigned.asked, finished |-> assigned.finished]
  BY DEF Flush, Column
<1>4. QED
  BY <1>2, <1>3 DEF Sessions

\* The steps of requests that do not overlap.
LEMMA SerialMove ==
  ASSUME TypeInv, GateInv, SnapInv, [Next]_vars
  PROVE  \/ ConsentDecided \/ GateMoved \/ InterviewStarted
         \/ \E hits \in AnswersTo(plan, session.asked) : \E next : TurnAnswered(hits, next)
         \/ Withdrawn \/ Rested
<1>0. \A r \in Requests : req[r] # Idle =>
        /\ req[r] \in InProgress /\ req[r].loaded = session
        /\ LoadedStatus(r)
  BY DEF TypeInv, TypeOK, SnapInv, GateInv
<1>s. session \in Sessions
  BY DEF TypeInv, TypeOK
<1>1. ASSUME NEW r \in Requests, ConsentCommit(r) PROVE ConsentDecided
  <2> DEFINE granted == req[r].granted
             new == [session EXCEPT !.status = IF granted THEN "consent_granted" ELSE "declined",
                                    !.finished = IF granted THEN @ ELSE TRUE]
             actions == IF granted THEN {"consent_granted"} ELSE {"consent_declined"}
  <2>1. req[r] # Idle /\ req[r].op = "consent"
    BY <1>1 DEF ConsentCommit, Commit
  <2>2. session.status = "pending_consent" /\ granted \in BOOLEAN
    BY <1>0, <2>1 DEF LoadedStatus, InProgress
  <2>3. new \in Sessions /\ new.status \in {"consent_granted", "declined"}
        /\ new.asked = session.asked
    BY <1>s, <2>2 DEF Sessions, Statuses
  <2>4. Commit(r, "consent", new, actions) /\ rows' = rows
    BY <1>0, <1>1, <2>1 DEF ConsentCommit
  <2> HIDE DEF new, actions
  <2>5. session' = new
    BY <2>3, <2>4, SerialCommit
  <2>6. QED
    BY <2>2, <2>3, <2>4, <2>5 DEF ConsentDecided, Commit
<1>2. ASSUME NEW r \in Requests, PrecheckCommit(r) PROVE GateMoved
  <2> DEFINE report == req[r].report
             new == AfterPrecheck(session, report)
             actions == IF EvaluatePrecheck(report) THEN {"precheck_passed"} ELSE {}
  <2>1. req[r] # Idle /\ req[r].op = "precheck"
    BY <1>2 DEF PrecheckCommit, Commit
  <2>2. session.status \in {"consent_granted", "precheck_passed"}
        /\ report \in Reports \union {NoReport}
    BY <1>0, <2>1 DEF LoadedStatus, InProgress
  <2>3. EvaluatePrecheck(report) \in BOOLEAN
    BY DEF EvaluatePrecheck
  <2>4. /\ new \in Sessions /\ new.asked = session.asked
        /\ new.status \in {"consent_granted", "precheck_passed"}
        /\ new.report = report /\ new.prechecked = EvaluatePrecheck(report)
        /\ new.status = "precheck_passed" => EvaluatePrecheck(report)
    BY <1>s, <2>2, <2>3 DEF Sessions, Statuses, AfterPrecheck
  <2>5. Commit(r, "precheck", new, actions) /\ rows' = rows
    BY <1>0, <1>2, <2>1 DEF PrecheckCommit
  <2> HIDE DEF new, actions, report
  <2>6. session' = new
    BY <2>4, <2>5, SerialCommit
  <2>7. session'.status = "precheck_passed" =>
          session'.prechecked /\ EvaluatePrecheck(session'.report)
    BY <2>4, <2>6
  <2>8. QED
    BY <2>2, <2>4, <2>5, <2>6, <2>7 DEF GateMoved, Commit
<1>3. ASSUME NEW r \in Requests, StartCommit(r) PROVE InterviewStarted
  <2> DEFINE first == Decide(plan, << >>, 0)
             new == [session EXCEPT !.status = "active", !.asked = <<first>>]
  <2>1. req[r] # Idle /\ req[r].op = "start"
    BY <1>3 DEF StartCommit, Commit
  <2>2. session.status = "precheck_passed"
    BY <1>0, <2>1 DEF LoadedStatus
  <2>3. first \in AskedTurns
    <3>1. IsPlan(plan)
      BY PlansAssumption DEF TypeInv, TypeOK
    <3>2. first = Turn(Question, plan[1].id) /\ plan[1].id \in TopicIds
      BY <3>1, PlanTopics DEF Decide, Ask
    <3>3. QED
      BY <3>2 DEF Turn, AskedTurns, TurnKinds
  <2>4. Commit(r, "start", new, {"started"}) /\ rows' = Append(rows, NewRow(0, first))
    BY <1>0, <1>3, <2>1 DEF StartCommit
  <2> HIDE DEF first
  <2>5. <<first>> \in Seq(AskedTurns)
    BY <2>3
  <2>6. /\ new \in Sessions /\ new.status = "active" /\ new.asked = <<first>>
        /\ new.prechecked = session.prechecked /\ new.report = session.report
    BY <1>s, <2>5 DEF Sessions, Statuses
  <2> HIDE DEF new
  <2>7. session' = new
    BY <2>4, <2>6, SerialCommit
  <2>8. QED
    BY <2>2, <2>4, <2>6, <2>7 DEF InterviewStarted, Commit, first
<1>4. ASSUME NEW r \in Requests, AnswerCommit(r)
      PROVE  \E hits \in AnswersTo(plan, session.asked) : \E next : TurnAnswered(hits, next)
  <2> DEFINE hits == req[r].hits
             next == Decide(plan, session.asked, hits)
             new == AfterAnswer(session, next)
             actions == IF next.kind = Closing THEN {"completed"} ELSE {}
  <2>1. req[r] # Idle /\ req[r].op = "answer" /\ req[r].ready
    BY <1>4 DEF AnswerCommit, Commit
  <2>2. /\ session.status = "active" /\ req[r].row = Len(rows)
        /\ hits \in AnswersTo(plan, session.asked) /\ hits \in Nat
        /\ req[r].row \in DOMAIN rows
    BY <1>0, <2>1 DEF LoadedStatus, SnapInv, InProgress, TypeInv, RowsLoaded
  <2>3. /\ Commit(r, "answer", new, actions)
        /\ rows' = Append([rows EXCEPT ![Len(rows)] = [rows[Len(rows)] EXCEPT !.answer = hits]],
                          NewRow(rows[Len(rows)].seq + 1, next))
    <3>1. req[r].loaded = session
      BY <1>0, <2>1
    <3>2. rows' = Append([rows EXCEPT ![req[r].row].answer = req[r].hits],
                         NewRow(rows[req[r].row].seq + 1, next))
      BY <1>4, <3>1 DEF AnswerCommit
    <3>3. [rows EXCEPT ![req[r].row].answer = req[r].hits] =
            [rows EXCEPT ![req[r].row] = [rows[req[r].row] EXCEPT !.answer = req[r].hits]]
      BY Zenon
    <3>4. Commit(r, "answer", new, actions)
      BY <1>4, <3>1 DEF AnswerCommit
    <3>5. QED
      BY <2>2, <3>2, <3>3, <3>4
  <2>4. next.kind # Closing => next \in AskedTurns
    <3>1. IsPlan(plan) /\ session.asked \in Seq(AskedTurns)
      BY <1>s, PlansAssumption DEF TypeInv, TypeOK, Sessions
    <3>2. QED
      BY <2>2, <3>1, DecideType
  <2>5. /\ new \in Sessions
        /\ new.status = IF next.kind = Closing THEN "completed" ELSE "active"
        /\ new.prechecked = session.prechecked /\ new.report = session.report
        /\ new.asked = IF next.kind = Closing THEN session.asked ELSE Append(session.asked, next)
    <3> HIDE DEF next
    <3>1. CASE next.kind = Closing
      BY <1>s, <3>1 DEF AfterAnswer, Sessions, Statuses
    <3>2. CASE next.kind # Closing
      <4>1. Append(session.asked, next) \in Seq(AskedTurns)
        BY <1>s, <2>4, <3>2 DEF Sessions
      <4>2. new = [session EXCEPT !.asked = Append(session.asked, next)]
        BY <3>2 DEF AfterAnswer
      <4> HIDE DEF new
      <4>3. QED
        BY <1>s, <2>2, <3>2, <4>1, <4>2 DEF Sessions
    <3>3. QED
      BY <3>1, <3>2
  <2> HIDE DEF new, actions
  <2>6. session' = new
    BY <2>3, <2>5, SerialCommit
  <2>7. plan' = plan
    BY <2>3 DEF Commit
  <2>8. TurnAnswered(hits, next)
    BY <2>2, <2>3, <2>5, <2>6, <2>7 DEF TurnAnswered
  <2>9. QED
    BY <2>2, <2>8
<1>5. ASSUME NEW r \in Requests, FinishCommit(r) PROVE Withdrawn
  <2> DEFINE new == [session EXCEPT !.status = "aborted", !.finished = TRUE]
  <2>1. req[r] # Idle /\ req[r].op = "finish"
    BY <1>5 DEF FinishCommit, Commit
  <2>2. session.status = "active"
    BY <1>0, <2>1 DEF LoadedStatus
  <2>3. new \in Sessions /\ new.status = "aborted" /\ new.asked = session.asked
    BY <1>s DEF Sessions, Statuses
  <2>4. Commit(r, "finish", new, {"aborted"}) /\ rows' = rows
    BY <1>0, <1>5, <2>1 DEF FinishCommit
  <2> HIDE DEF new
  <2>5. session' = new
    BY <2>3, <2>4, SerialCommit
  <2>6. QED
    BY <2>2, <2>3, <2>4, <2>5 DEF Withdrawn, Commit
<1>6. CASE UNCHANGED <<plan, session, rows>>
  BY <1>6 DEF Rested
<1>7. QED
  BY <1>1, <1>2, <1>3, <1>4, <1>5, <1>6
  DEF Next, Serve, ConsentLoad, PrecheckLoad, StartLoad, AnswerLoad, FinishLoad, Load,
      AnswerOpen, Rollback, Expire, vars

\* The first part of a history does not change when a turn is added.
LEMMA PrefixKept ==
  ASSUME NEW S, NEW s \in Seq(S), NEW e \in S, NEW m \in 0 .. Len(s)
  PROVE  SubSeq(Append(s, e), 1, m) = SubSeq(s, 1, m)
<1> DEFINE t == Append(s, e)
<1>1. t \in Seq(S) /\ m \in 0 .. Len(t) /\ \A i \in 1 .. Len(s) : t[i] = s[i]
  OBVIOUS
<1> HIDE DEF t
<1>2. SubSeq(t, 1, m) = Restrict(t, 1 .. m)
  BY <1>1, SubSeqRestrict
<1>3. SubSeq(s, 1, m) = Restrict(s, 1 .. m)
  BY SubSeqRestrict
<1>4. Restrict(t, 1 .. m) = Restrict(s, 1 .. m)
  BY <1>1 DEF Restrict
<1>5. QED
  BY <1>2, <1>3, <1>4 DEF t

\* What a walk asked about comes after all the topics that are before it.
LEMMA TopicsBehind ==
  ASSUME NEW p, IsPlan(p), NEW asked \in Seq(AskedTurns), EngineWalk(p, asked)
  PROVE  \A k \in DOMAIN asked : \A i \in IndexOf(p, asked[k].topic) :
           \A j \in 1 .. i : \E m \in DOMAIN asked : asked[m] = Turn(Question, p[j].id)
<1> DEFINE Missed(k) == \E i \in IndexOf(p, asked[k].topic) : \E j \in 1 .. i :
                          \A m \in DOMAIN asked : asked[m] # Turn(Question, p[j].id)
           bad == {k \in DOMAIN asked : Missed(k)}
<1> SUFFICES ASSUME bad # {} PROVE FALSE
  OBVIOUS
<1>1. PICK k \in bad : \A l \in bad : k <= l
  <2>1. bad \in SUBSET Nat
    OBVIOUS
  <2> HIDE DEF bad
  <2>2. QED
    BY <2>1, LeastExists
<1>a. PICK i \in IndexOf(p, asked[k].topic) : \E j \in 1 .. i :
        \A m \in DOMAIN asked : asked[m] # Turn(Question, p[j].id)
  OBVIOUS
<1>2. PICK j \in 1 .. i : \A m \in DOMAIN asked : asked[m] # Turn(Question, p[j].id)
  BY <1>a
<1>3. k \in DOMAIN asked /\ k \in Nat /\ asked[k] \in AskedTurns
      /\ i \in DOMAIN p /\ i \in Nat /\ p[i].id = asked[k].topic
  <2>1. i \in DOMAIN p /\ p[i].id = asked[k].topic
    BY DEF IndexOf
  <2>2. DOMAIN p \subseteq Nat
    BY PlanTopics
  <2>3. QED
    BY <2>1, <2>2
<1>4. k > 1 => ~ Missed(k - 1)
  BY <1>1, <1>3
<1>5. CASE asked[k].kind = Probe
  <2>1. k > 1 /\ asked[k - 1].topic = asked[k].topic
    <3>1. k > 1 /\ asked[k - 1] = Turn(Question, asked[k].topic)
      BY <1>3, <1>5 DEF EngineWalk, Question, Probe
    <3>2. QED
      BY <3>1 DEF Turn
  <2>2. i \in IndexOf(p, asked[k - 1].topic)
    BY <2>1
  <2>3. QED
    BY <1>2, <1>4, <2>1, <2>2
<1>6. CASE asked[k].kind = Question
  <2>1. asked[k] = Turn(Question, p[i].id)
    BY <1>3, <1>6 DEF AskedTurns, Turn
  <2>2. j # i
    BY <1>2, <1>3, <2>1
  <2>3. k > 1
    <3>1. CASE k = 1
      <4>1. asked[k].topic = p[1].id
        BY <1>3, <3>1 DEF EngineWalk
      <4>2. i = 1
        BY <1>3, <4>1, PlanTopics DEF IndexOf
      <4>3. QED
        BY <2>2, <4>2
    <3>2. QED
      BY <1>3, <3>1
  <2>4. i - 1 \in IndexOf(p, asked[k - 1].topic)
    BY <1>3, <1>6, <2>3 DEF EngineWalk
  <2>5. j \in 1 .. i - 1
    BY <1>3, <2>2
  <2>6. QED
    BY <1>2, <1>4, <2>3, <2>4, <2>5
<1>7. QED
  BY <1>3, <1>5, <1>6 DEF EngineWalk

\* When decide closes the loop, every topic of the plan was asked about.
LEMMA ClosingAsksAll ==
  ASSUME NEW p, IsPlan(p), NEW asked \in Seq(AskedTurns), asked # << >>,
         EngineWalk(p, asked), NEW hits, Decide(p, asked, hits).kind = Closing
  PROVE  AsksEveryTopic(p, asked)
<1>1. Len(asked) \in DOMAIN asked
  OBVIOUS
<1>2. PICK i \in IndexOf(p, asked[Len(asked)].topic) : TRUE
  BY <1>1, WalkInPlan
<1>3. ~ Probes(p, asked, i, hits) /\ i + 1 \notin DOMAIN p
  <2>1. Decide(p, asked, hits) =
          IF Probes(p, asked, i, hits) THEN Turn(Probe, p[i].id) ELSE Ask(p, i + 1)
    BY <1>2, DecideNext
  <2>2. Turn(Probe, p[i].id).kind # Closing /\ Turn(Question, p[i + 1].id).kind # Closing
    BY DEF Turn, Closing, Probe, Question
  <2>3. QED
    BY <2>1, <2>2 DEF Ask
<1>4. i \in DOMAIN p /\ \A j \in DOMAIN p : j \in 1 .. i
  <2>1. i \in DOMAIN p
    BY DEF IndexOf
  <2>2. DOMAIN p = 1 .. Len(p) /\ Len(p) \in Nat
    BY PlanTopics
  <2>3. QED
    BY <1>3, <2>1, <2>2
<1>5. QED
  BY <1>1, <1>2, <1>4, TopicsBehind DEF AsksEveryTopic

\* Alone, a request keeps what it has loaded in step with what is stored.
LEMMA SnapStep ==
  ASSUME Serial, TypeInv, GateInv, SnapInv, ReplayInv, [Next]_vars
  PROVE  SnapInv'
<1> DEFINE Held(q) == req'[q] # Idle =>
             /\ req'[q].loaded = session'
             /\ req'[q].op = "answer" /\ req'[q].ready =>
                  /\ req'[q].row = Len(rows')
                  /\ req'[q].hits \in AnswersTo(plan', session'.asked)
<1>0. SUFFICES \A q \in Requests : Held(q)
  BY DEF SnapInv, AnswersTo, IndexOf
<1>1. ASSUME NEW r \in Requests, NEW op, NEW granted, NEW report, Load(r, op, granted, report)
      PROVE  \A q \in Requests : Held(q)
  <2>1. /\ req'[r] = [op |-> op, ready |-> op # "answer", granted |-> granted,
                      report |-> report, hits |-> 0, row |-> 0, loaded |-> session]
        /\ session' = session
    BY <1>1 DEF Load, TypeInv, TypeOK
  <2>2. req'[r].loaded = session /\ req'[r].op = op /\ req'[r].ready = (op # "answer")
    BY <2>1
  <2>3. Held(r)
    BY <2>1, <2>2
  <2>4. QED
    BY <2>3 DEF Serial
<1>2. ASSUME NEW r \in Requests, AnswerOpen(r) PROVE \A q \in Requests : Held(q)
  <2>1. PICK i \in OpenRows, hits \in AnswersTo(plan, req[r].loaded.asked) :
          req' = [req EXCEPT ![r].ready = TRUE, ![r].row = i, ![r].hits = hits]
    BY <1>2 DEF AnswerOpen
  <2>2. /\ req[r] \in InProgress /\ req[r].loaded = session /\ req[r].op = "answer"
        /\ session.status = "active"
        /\ UNCHANGED <<plan, session, rows>>
    BY <1>2 DEF AnswerOpen, TypeInv, TypeOK, SnapInv, GateInv, LoadedStatus
  <2>3. req'[r].loaded = session /\ req'[r].row = i /\ req'[r].hits = hits
    BY <2>1, <2>2 DEF TypeInv, TypeOK, InProgress
  <2>4. i = Len(rows)
    <3>1. i \in 1 .. Len(rows) /\ rows[i].answer = Unanswered
      BY DEF OpenRows, TypeInv, TypeOK
    <3>2. QED
      BY <2>2, <3>1 DEF ReplayInv, Started
  <2>5. Held(r)
    BY <2>1, <2>2, <2>3, <2>4
  <2>6. QED
    BY <2>5 DEF Serial
\* Whoever commits or rolls back leaves no request in progress.
<1>3. ASSUME NEW r \in Requests, req' = [req EXCEPT ![r] = Idle]
      PROVE  \A q \in Requests : Held(q)
  <2>1. req'[r] = Idle
    BY <1>3 DEF TypeInv, TypeOK
  <2>2. QED
    BY <2>1 DEF Serial
<1>4. CASE UNCHANGED <<plan, session, rows, req>>
  BY <1>4 DEF SnapInv
<1>5. QED
  BY <1>1, <1>2, <1>3, <1>4
  DEF Next, Serve, ConsentLoad, PrecheckLoad, StartLoad, AnswerLoad, FinishLoad,
      ConsentCommit, PrecheckCommit, StartCommit, AnswerCommit, FinishCommit, Commit,
      Rollback, Expire, vars

\* What an answer makes of the rows: the last one is answered, and one more
\* is open; the turns there are stay where they were.
LEMMA AnsweredRows ==
  ASSUME TypeInv, ReplayInv, NEW hits \in Nat, NEW next, TurnAnswered(hits, next)
  PROVE  LET n == Len(rows)
         IN  /\ n \in Nat /\ n >= 1 /\ DOMAIN rows = 1 .. n
             /\ Len(rows') = n + 1 /\ DOMAIN rows' = 1 .. n + 1
             /\ \A i \in 1 .. n - 1 : rows'[i] = rows[i]
             /\ rows'[n].seq = rows[n].seq
             /\ rows'[n].kind = rows[n].kind /\ rows'[n].topic = rows[n].topic
             /\ rows'[n].answer = hits /\ hits # Unanswered
             /\ rows'[n + 1].seq = n
             /\ rows'[n + 1].kind = next.kind /\ rows'[n + 1].topic = next.topic
             /\ rows'[n + 1].answer = Unanswered
<1> DEFINE n == Len(rows)
           last == [rows[n] EXCEPT !.answer = hits]
           answered == [rows EXCEPT ![n] = last]
           new == NewRow(rows[n].seq + 1, next)
<1>1. rows \in Seq(Rows) /\ n \in Nat /\ DOMAIN rows = 1 .. n /\ n >= 1 /\ rows[n].seq = n - 1
  <2>1. rows \in Seq(Rows) /\ session.status \in Started
    BY DEF TypeInv, TypeOK, TurnAnswered, Started
  <2>2. n >= 1 /\ \A i \in 1 .. n : rows[i].seq = i - 1
    BY <2>1 DEF ReplayInv
  <2>3. QED
    BY <2>1, <2>2
<1>2. rows[n] \in Rows
  BY <1>1
<1>3. /\ last \in Rows /\ last.seq = rows[n].seq /\ last.answer = hits
      /\ last.kind = rows[n].kind /\ last.topic = rows[n].topic
  <2>1. hits \in Int
    OBVIOUS
  <2>2. QED
    BY <1>2, <2>1 DEF Rows
<1>4. new.seq = n /\ new.kind = next.kind /\ new.topic = next.topic /\ new.answer = Unanswered
  BY <1>1 DEF NewRow
<1>5. rows' = Append(answered, new) /\ hits # Unanswered
  BY DEF TurnAnswered, Unanswered
<1> HIDE DEF last, new
<1>6. /\ answered \in Seq(Rows) /\ Len(answered) = n
      /\ answered[n] = last /\ \A i \in 1 .. n - 1 : answered[i] = rows[i]
  <2>1. n \in DOMAIN rows
    BY <1>1
  <2>2. answered \in Seq(Rows) /\ Len(answered) = n /\ answered[n] = last
    BY <1>1, <1>3, <2>1
  <2>3. \A i \in DOMAIN rows : i # n => answered[i] = rows[i]
    OBVIOUS
  <2>4. \A i \in 1 .. n - 1 : i \in DOMAIN rows /\ i # n
    <3> HIDE DEF n
    <3>1. QED
      BY <1>1
  <2>5. QED
    BY <2>2, <2>3, <2>4
<1> HIDE DEF answered
<1>7. /\ Len(rows') = n + 1 /\ DOMAIN rows' = 1 .. n + 1 /\ rows'[n + 1] = new
      /\ \A i \in 1 .. n : rows'[i] = answered[i]
  BY <1>1, <1>5, <1>6
<1>8. \A i \in 1 .. n - 1 : rows'[i] = rows[i]
  BY <1>1, <1>6, <1>7
<1>9. rows'[n] = last
  BY <1>1, <1>6, <1>7
<1> HIDE DEF n
<1>10. QED
  BY <1>1, <1>3, <1>4, <1>5, <1>7, <1>8, <1>9 DEF n

\* An answer counts points of the topic it is about.
LEMMA AnswersAreNat ==
  ASSUME TypeInv, NEW asked, NEW hits \in AnswersTo(plan, asked)
  PROVE  hits \in Nat
<1>1. IsPlan(plan)
  BY PlansAssumption DEF TypeInv, TypeOK
<1>2. \A i \in DOMAIN plan : plan[i].points \in Nat
  BY <1>1, PlanTopics DEF Topics
<1>3. QED
  BY <1>2 DEF AnswersTo, IndexOf

\* Every step keeps the rows and asked_turns in step with each other and with
\* what decide returns.
LEMMA ReplayStep ==
  ASSUME TypeInv, TypeInv', WalkInv, GateInv, SnapInv, ReplayInv, [Next]_vars
  PROVE  ReplayInv'
<1>0. IsPlan(plan) /\ session.asked \in Seq(AskedTurns) /\ rows \in Seq(Rows)
      /\ session \in Sessions
  BY PlansAssumption DEF TypeInv, TypeOK, Sessions
<1>1. CASE ConsentDecided
  BY <1>1 DEF ConsentDecided, ReplayInv, Started
<1>2. CASE GateMoved
  BY <1>2 DEF GateMoved, ReplayInv, Started
<1>3. CASE InterviewStarted
  <2> DEFINE first == Decide(plan, << >>, 0)
             new == NewRow(0, first)
  <2>1. first = Turn(Question, plan[1].id) /\ first \in AskedTurns
    <3>1. first = Turn(Question, plan[1].id) /\ plan[1].id \in TopicIds
      BY <1>0, PlanTopics DEF Decide, Ask
    <3>2. QED
      BY <3>1 DEF Turn, AskedTurns, TurnKinds
  <2>2. new.seq = 0 /\ new.answer = Unanswered /\ TurnOf(new) = first
    BY <2>1 DEF NewRow, TurnOf, Turn
  <2>3. /\ session'.status = "active" /\ session'.asked = <<first>>
        /\ rows' = Append(rows, new) /\ plan' = plan /\ rows = << >>
    BY <1>3 DEF InterviewStarted, ReplayInv, Started
  <2> HIDE DEF new
  <2>4. rows' = <<new>>
    BY <2>3
  <2>5. SubSeq(<<first>>, 1, 0) = << >>
    BY SubSeqEmpty
  <2>6. Decide(plan', SubSeq(session'.asked, 1, 0), 0) = first
    BY <2>3, <2>5
  <2> HIDE DEF first
  <2>7. /\ Len(rows') = 1 /\ rows'[1] = new
        /\ Len(session'.asked) = 1 /\ session'.asked[1] = first
    BY <2>3, <2>4
  <2>8. \A i \in 1 .. 1 : i = 1 /\ i - 1 = 0
    OBVIOUS
  <2>9. /\ TurnOf(rows'[1]) = first /\ rows'[1].seq = 0 /\ rows'[1].answer = Unanswered
    BY <2>2, <2>7
  <2>10. QED
    BY <2>3, <2>6, <2>7, <2>8, <2>9 DEF ReplayInv, TurnOf, Turn, Started
<1>4. ASSUME NEW hits \in AnswersTo(plan, session.asked), NEW next, TurnAnswered(hits, next)
      PROVE  ReplayInv'
  <2> DEFINE n == Len(rows)
             a == session.asked
  <2>0. hits \in Nat
    BY AnswersAreNat
  <2>1. /\ session.status = "active" /\ plan' = plan
        /\ next = Decide(plan, a, hits)
        /\ session'.status = IF next.kind = Closing THEN "completed" ELSE "active"
        /\ session'.asked = IF next.kind = Closing THEN a ELSE Append(a, next)
    BY <1>4 DEF TurnAnswered
  <2>2. /\ n \in Nat /\ n >= 1 /\ DOMAIN rows = 1 .. n
        /\ Len(rows') = n + 1 /\ DOMAIN rows' = 1 .. n + 1
        /\ \A i \in 1 .. n - 1 : rows'[i] = rows[i]
        /\ rows'[n].seq = rows[n].seq
        /\ rows'[n].kind = rows[n].kind /\ rows'[n].topic = rows[n].topic
        /\ rows'[n].answer = hits /\ hits # Unanswered
        /\ rows'[n + 1].seq = n
        /\ rows'[n + 1].kind = next.kind /\ rows'[n + 1].topic = next.topic
        /\ rows'[n + 1].answer = Unanswered
    BY <1>4, <2>0, AnsweredRows
  <2>3. /\ Len(a) = n
        /\ \A i \in 1 .. n : rows[i].seq = i - 1
        /\ \A i \in 1 .. n : (rows[i].answer = Unanswered) <=> (i = n)
        /\ \A i \in 1 .. n : TurnOf(rows[i]) = a[i]
        /\ \A i \in 1 .. n : TurnOf(rows[i]) = Decide(plan, SubSeq(a, 1, i - 1),
                                         IF i = 1 THEN 0 ELSE rows[i - 1].answer)
    BY <2>1 DEF ReplayInv, Started
  <2>4. /\ next \in [kind : TurnKinds, topic : TopicIds \union {NoTopic}]
        /\ next.kind # Closing => next \in AskedTurns
    BY <1>0, <2>0, <2>1, DecideType
  <2>5. next = Turn(next.kind, next.topic)
    BY <2>4 DEF Turn
  <2>6. \A m \in 0 .. n : SubSeq(session'.asked, 1, m) = SubSeq(a, 1, m)
    <3>1. CASE next.kind = Closing
      BY <2>1, <3>1
    <3>2. CASE next.kind # Closing
      BY <1>0, <2>1, <2>3, <2>4, <3>2, PrefixKept
    <3>3. QED
      BY <3>1, <3>2
  <2>7. SubSeq(a, 1, n) = a
    BY <1>0, <2>3, SubSeqFull
  <2>8. /\ \A i \in 1 .. n : TurnOf(rows'[i]) = TurnOf(rows[i])
        /\ TurnOf(rows'[n + 1]) = next
    <3>1. \A i \in 1 .. n : i = n \/ i \in 1 .. n - 1
      BY <2>2
    <3>2. QED
      BY <2>2, <2>5, <3>1 DEF TurnOf
  <2>a. /\ \A i \in 1 .. n + 1 : i = n + 1 \/ i = n \/ (i \in 1 .. n - 1 /\ i \in 1 .. n /\ i # n /\ i # n + 1)
        /\ n \in 1 .. n /\ n + 1 # n /\ (n + 1) - 1 = n
    <3>1. n \in Nat /\ n >= 1
      BY <2>2
    <3> HIDE DEF n
    <3>2. QED
      BY <3>1
  <2>9. \A i \in 1 .. n + 1 : rows'[i].seq = i - 1
    <3> SUFFICES ASSUME NEW i \in 1 .. n + 1 PROVE rows'[i].seq = i - 1
      OBVIOUS
    <3>1. CASE i = n + 1
      BY <2>2, <2>a, <3>1
    <3>2. CASE i = n
      BY <2>2, <2>3, <2>a, <3>2
    <3>3. CASE i \in 1 .. n - 1 /\ i \in 1 .. n
      BY <2>2, <2>3, <3>3
    <3>4. QED
      BY <2>a, <3>1, <3>2, <3>3
  <2>10. \A i \in 1 .. n + 1 : (rows'[i].answer = Unanswered) <=> (i = n + 1)
    <3> SUFFICES ASSUME NEW i \in 1 .. n + 1
                 PROVE  (rows'[i].answer = Unanswered) <=> (i = n + 1)
      OBVIOUS
    <3>1. CASE i = n + 1
      BY <2>2, <3>1
    <3>2. CASE i = n
      BY <2>2, <2>a, <3>2
    <3>3. CASE i \in 1 .. n - 1 /\ i \in 1 .. n /\ i # n /\ i # n + 1
      <4>1. rows'[i] = rows[i] /\ rows[i].answer # Unanswered
        BY <2>2, <2>3, <3>3
      <4>2. QED
        BY <3>3, <4>1
    <3>4. QED
      BY <2>a, <3>1, <3>2, <3>3
  <2>11. /\ Len(session'.asked) = IF next.kind = Closing THEN n ELSE n + 1
         /\ \A i \in 1 .. Len(session'.asked) : TurnOf(rows'[i]) = session'.asked[i]
    <3>1. CASE next.kind = Closing
      BY <2>1, <2>3, <2>8, <3>1
    <3>2. CASE next.kind # Closing
      <4>1. /\ Len(session'.asked) = n + 1 /\ session'.asked[n + 1] = next
            /\ \A i \in 1 .. n : session'.asked[i] = a[i]
        BY <1>0, <2>1, <2>3, <2>4, <3>2
      <4>2. \A i \in 1 .. n + 1 : i = n + 1 \/ i \in 1 .. n
        BY <2>2
      <4>3. QED
        BY <2>3, <2>8, <3>2, <4>1, <4>2
    <3>3. QED
      BY <3>1, <3>2
  <2>12. \A i \in 1 .. n + 1 :
           TurnOf(rows'[i]) = Decide(plan', SubSeq(session'.asked, 1, i - 1),
                                     IF i = 1 THEN 0 ELSE rows'[i - 1].answer)
    <3> SUFFICES ASSUME NEW i \in 1 .. n + 1
                 PROVE  TurnOf(rows'[i]) = Decide(plan', SubSeq(session'.asked, 1, i - 1),
                                     IF i = 1 THEN 0 ELSE rows'[i - 1].answer)
      OBVIOUS
    <3>1. i - 1 \in 0 .. n /\ SubSeq(session'.asked, 1, i - 1) = SubSeq(a, 1, i - 1)
      BY <2>2, <2>6
    <3>2. CASE i = n + 1
      <4>1. i # 1 /\ i - 1 = n
        BY <2>2, <3>2
      <4>2. QED
        BY <2>1, <2>2, <2>7, <2>8, <3>1, <3>2, <4>1
    <3>3. CASE i \in 1 .. n
      <4>1. (IF i = 1 THEN 0 ELSE rows'[i - 1].answer) = (IF i = 1 THEN 0 ELSE rows[i - 1].answer)
        <5>1. i = 1 \/ i - 1 \in 1 .. n - 1
          BY <2>2, <3>3
        <5>2. QED
          BY <2>2, <5>1
      <4>2. QED
        BY <2>1, <2>3, <2>8, <3>1, <3>3, <4>1
    <3>4. QED
      BY <2>2, <3>2, <3>3
  <2>13. next.kind = Closing => AsksEveryTopic(plan', session'.asked)
    <3>1. ASSUME next.kind = Closing PROVE AsksEveryTopic(plan, a)
      <4>1. a # << >> /\ EngineWalk(plan, a)
        <5>1. Len(a) >= 1
          BY <2>2, <2>3
        <5>2. EngineWalk(plan, a)
          BY DEF WalkInv
        <5> HIDE DEF a, n
        <5>3. QED
          BY <5>1, <5>2
      <4>2. QED
        BY <1>0, <2>1, <3>1, <4>1, ClosingAsksAll
    <3>2. QED
      BY <2>1, <3>1
  <2>14. /\ session'.status \in Started
         /\ session'.status = "completed" <=> next.kind = Closing
    BY <2>1 DEF Started
  <2> HIDE DEF n, a
  <2>15. /\ n + 1 >= 1
         /\ Len(session'.asked) = IF session'.status = "completed" THEN (n + 1) - 1 ELSE n + 1
    BY <2>2, <2>11, <2>14
  <2>16. QED
    BY <2>2, <2>9, <2>10, <2>11, <2>12, <2>13, <2>14, <2>15
    DEF ReplayInv, TurnOf, Turn, AsksEveryTopic
<1>5. CASE Withdrawn
  BY <1>5 DEF Withdrawn, ReplayInv, Started, TurnOf, Turn, AsksEveryTopic
<1>6. CASE Rested
  BY <1>6 DEF Rested, ReplayInv, TurnOf, Turn, AsksEveryTopic
<1>7. QED
  BY <1>1, <1>2, <1>3, <1>4, <1>5, <1>6, SerialMove

\* Every step keeps the gate of a started interview open: nothing but a
\* pre-check writes the report and the flag.
LEMMA PassedStep ==
  ASSUME TypeInv, GateInv, SnapInv, PassedInv, [Next]_vars
  PROVE  PassedInv'
<1>1. CASE ConsentDecided \/ GateMoved \/ Withdrawn
  BY <1>1 DEF ConsentDecided, GateMoved, Withdrawn, PassedInv, EvaluatePrecheck
<1>2. CASE InterviewStarted \/ \E hits \in AnswersTo(plan, session.asked) : \E next : TurnAnswered(hits, next)
  <2>1. /\ session.status \in {"precheck_passed", "active"}
        /\ session'.prechecked = session.prechecked /\ session'.report = session.report
    BY <1>2 DEF InterviewStarted, TurnAnswered
  <2>2. QED
    BY <2>1 DEF PassedInv, EvaluatePrecheck
<1>3. CASE Rested
  BY <1>3 DEF Rested, PassedInv, EvaluatePrecheck
<1>4. QED
  BY <1>1, <1>2, <1>3, SerialMove

\* What holds between requests that do not overlap, and between the two
\* transactions of an answer.
SerialInv ==
  TypeInv /\ GateInv /\ WalkInv /\ SnapInv /\ ReplayInv /\ PassedInv

\* A new session has no turns and no request.
LEMMA SerialInit == Init => SerialInv
<1> SUFFICES ASSUME Init PROVE SerialInv
  OBVIOUS
<1>1. WalkInv
  BY DEF Init, NewSession, WalkInv, EngineWalk
<1>2. SnapInv /\ PassedInv
  BY DEF Init, NewSession, SnapInv, PassedInv
<1>3. ReplayInv
  BY DEF Init, NewSession, ReplayInv, Started
<1>4. QED
  BY <1>1, <1>2, <1>3, TypeInit, GateInit DEF SerialInv

\* Every step of requests that do not overlap keeps the invariant.
LEMMA SerialStep == Serial /\ SerialInv /\ [Next]_vars => SerialInv'
<1> SUFFICES ASSUME Serial, SerialInv, [Next]_vars PROVE SerialInv'
  OBVIOUS
<1>1. TypeInv /\ GateInv /\ WalkInv /\ SnapInv /\ ReplayInv /\ PassedInv
  BY DEF SerialInv
<1>2. TypeInv' /\ GateInv' /\ WalkInv'
  BY <1>1, TypeStep, GateStep, WalkStep
<1>3. SnapInv' /\ ReplayInv' /\ PassedInv'
  BY <1>1, <1>2, SnapStep, ReplayStep, PassedStep
<1>4. QED
  BY <1>2, <1>3 DEF SerialInv

\* When requests do not overlap, a question reaches the candidate only in an
\* active session, after granted consent and a pre-check that passed last.
THEOREM ClosedGates == Serial => (Spec => []GatesFailClosed)
<1>1. SerialInv => GatesFailClosed
  <2> SUFFICES ASSUME SerialInv, ServedQuestions # {}
               PROVE  /\ session.status = "active"
                      /\ \E i \in DOMAIN consents : consents[i]
                      /\ session.prechecked
                      /\ EvaluatePrecheck(session.report)
    BY DEF GatesFailClosed
  <2>1. rows # << >> /\ ~ Terminal(session.status)
    BY DEF ServedQuestions, OpenRows
  <2>2. session.status = "active"
    BY <2>1 DEF SerialInv, ReplayInv, Started, Terminal
  <2>3. QED
    BY <2>2 DEF SerialInv, PassedInv, GateInv, Backed
<1>2. Serial' <=> Serial
  BY DEF Serial
<1>3. QED
  BY <1>1, <1>2, SerialInit, SerialStep, PTL DEF Spec

\* When requests do not overlap, the stored transcript replays through the
\* engine, and a completed one asked about every topic of its plan.
THEOREM Replays == Serial => (Spec => []TranscriptReplays)
<1>1. SerialInv => TranscriptReplays
  <2> SUFFICES ASSUME SerialInv PROVE TranscriptReplays
    OBVIOUS
  <2>1. CASE session.status \in Started
    BY <2>1 DEF SerialInv, ReplayInv, TranscriptReplays, TurnOf
  <2>2. CASE session.status \notin Started
    <3>1. Len(rows) = 0 /\ Len(session.asked) = 0 /\ session.status # "completed"
      BY <2>2 DEF SerialInv, ReplayInv, Started
    <3>2. QED
      BY <3>1 DEF TranscriptReplays
  <2>3. QED
    BY <2>1, <2>2
<1>2. Serial' <=> Serial
  BY DEF Serial
<1>3. QED
  BY <1>1, <1>2, SerialInit, SerialStep, PTL DEF Spec

-----------------------------------------------------------------------------
(* The lifecycle.                                                          *)

\* What the lifecycle keeps of a row.
AnsweredTurn(row) == [kind |-> row.kind, topic |-> row.topic, answer |-> row.answer]

\* The lifecycle's engine is the session's engine.
LEMMA SameEngine ==
  /\ \A kind, topic : Lifecycle!Turn(kind, topic) = Turn(kind, topic)
  /\ \A p, a, hits : Lifecycle!Decide(p, a, hits) = Decide(p, a, hits)
  /\ \A p, a : Lifecycle!AnswersTo(p, a) = AnswersTo(p, a)
  /\ Lifecycle!Closing = Closing
<1>1. \A kind, topic : Lifecycle!Turn(kind, topic) = Turn(kind, topic)
  BY DEF Lifecycle!Turn, Turn
<1>2. \A p, id : Lifecycle!IndexOf(p, id) = IndexOf(p, id)
  BY DEF Lifecycle!IndexOf, IndexOf
<1>3. Lifecycle!Closing = Closing /\ Lifecycle!NoTopic = NoTopic
      /\ Lifecycle!Probe = Probe /\ Lifecycle!Question = Question
      /\ Lifecycle!MaxProbesPerTopic = MaxProbesPerTopic
  BY DEF Lifecycle!Closing, Closing, Lifecycle!NoTopic, NoTopic, Lifecycle!Probe, Probe,
         Lifecycle!Question, Question, Lifecycle!MaxProbesPerTopic, MaxProbesPerTopic
<1>4. \A p, a, hits : Lifecycle!Decide(p, a, hits) = Decide(p, a, hits)
  <2>1. \A p, i : Lifecycle!Ask(p, i) = Ask(p, i)
    BY <1>1, <1>3 DEF Lifecycle!Ask, Ask
  <2>2. \A t, hits : Lifecycle!Covered(t, hits) = Covered(t, hits)
    BY DEF Lifecycle!Covered, Covered
  <2>3. \A a, id : Lifecycle!ProbesOf(a, id) = ProbesOf(a, id)
    <3> SUFFICES ASSUME NEW a, NEW id
                 PROVE  Lifecycle!ProbesOf(a, id) = ProbesOf(a, id)
      OBVIOUS
    <3>1. {k \in DOMAIN a : a[k] = Lifecycle!Turn(Lifecycle!Probe, id)} =
            {k \in DOMAIN a : a[k] = Turn(Probe, id)}
      BY <1>1, <1>3
    <3>2. QED
      BY <3>1, Zenon DEF Lifecycle!ProbesOf, ProbesOf, Lifecycle!Cardinality, Cardinality
  <2>4. \A p, a, i, hits : Lifecycle!Probes(p, a, i, hits) = Probes(p, a, i, hits)
    BY <1>3, <2>2, <2>3 DEF Lifecycle!Probes, Probes
  <2>5. QED
    <3> SUFFICES ASSUME NEW p, NEW a, NEW hits
                 PROVE  Lifecycle!Decide(p, a, hits) = Decide(p, a, hits)
      OBVIOUS
    <3> DEFINE at == IndexOf(p, a[Len(a)].topic)
               same == Lifecycle!IndexOf(p, a[Len(a)].topic)
               first(S) == CHOOSE i \in S : \A j \in S : i <= j
    <3>1. Decide(p, a, hits) =
            IF a = << >> THEN Ask(p, 1)
            ELSE IF at = {} THEN Turn(Closing, NoTopic)
            ELSE IF Probes(p, a, first(at), hits) THEN Turn(Probe, p[first(at)].id)
            ELSE Ask(p, first(at) + 1)
      BY Zenon DEF Decide
    <3>2. Lifecycle!Decide(p, a, hits) =
            IF a = << >> THEN Lifecycle!Ask(p, 1)
            ELSE IF same = {} THEN Lifecycle!Turn(Lifecycle!Closing, Lifecycle!NoTopic)
            ELSE IF Lifecycle!Probes(p, a, first(same), hits)
              THEN Lifecycle!Turn(Lifecycle!Probe, p[first(same)].id)
            ELSE Lifecycle!Ask(p, first(same) + 1)
      BY Zenon DEF Lifecycle!Decide
    <3>3. same = at
      BY <1>2
    <3> HIDE DEF at, same, first
    <3>4. QED
      BY <1>1, <1>3, <2>1, <2>4, <3>1, <3>2, <3>3
<1>5. \A p, a : Lifecycle!AnswersTo(p, a) = AnswersTo(p, a)
  BY <1>2 DEF Lifecycle!AnswersTo, AnswersTo
<1>6. QED
  BY <1>1, <1>3, <1>4, <1>5

\* The lifecycle's next turn, for a transcript of the first m rows.
LEMMA NextOfRows ==
  ASSUME NEW rs, NEW a \in Seq(AskedTurns), NEW m \in 0 .. Len(a),
         \A i \in 1 .. m : TurnOf(rs[i]) = a[i],
         NEW t, t = [i \in 1 .. m |-> AnsweredTurn(rs[i])]
  PROVE  /\ t = << >> <=> m = 0
         /\ Lifecycle!TurnsOf(t) = SubSeq(a, 1, m)
         /\ Lifecycle!NextTurn(t) =
              Decide(plan, SubSeq(a, 1, m), IF m = 0 THEN 0 ELSE rs[m].answer)
<1>1. m \in Nat /\ DOMAIN t = 1 .. m /\ Len(t) = m
  OBVIOUS
<1>2. t = << >> <=> m = 0
  BY <1>1
<1>3. Lifecycle!TurnsOf(t) = [i \in 1 .. m |-> a[i]]
  <2>1. \A i \in 1 .. m : Turn(t[i].kind, t[i].topic) = a[i]
    BY DEF AnsweredTurn, TurnOf
  <2>2. Lifecycle!TurnsOf(t) = [i \in 1 .. m |-> Turn(t[i].kind, t[i].topic)]
    BY <1>1, SameEngine DEF Lifecycle!TurnsOf
  <2>3. QED
    BY <2>1, <2>2
<1>4. SubSeq(a, 1, m) = [i \in 1 .. m |-> a[i]]
  <2>1. SubSeq(a, 1, m) = Restrict(a, 1 .. m)
    BY SubSeqRestrict
  <2>2. QED
    BY <2>1 DEF Restrict
<1>5. m # 0 => t[Len(t)].answer = rs[m].answer
  BY <1>1 DEF AnsweredTurn
<1>6. (IF t = << >> THEN 0 ELSE t[Len(t)].answer) = (IF m = 0 THEN 0 ELSE rs[m].answer)
  BY <1>2, <1>5
<1>7. QED
  BY <1>2, <1>3, <1>4, <1>6, SameEngine DEF Lifecycle!NextTurn

\* The answered turns are those of all rows but the last.
LEMMA TranscriptRows ==
  ASSUME TypeInv, ReplayInv
  PROVE  /\ session.status \notin Started => Transcript = << >>
         /\ session.status \in Started =>
              Transcript = [i \in 1 .. Len(rows) - 1 |-> AnsweredTurn(rows[i])]
<1> DEFINE answered == {k \in DOMAIN rows : rows[k].answer # Unanswered}
<1>0. Transcript = [i \in answered |-> AnsweredTurn(rows[i])]
  BY DEF Transcript, AnsweredTurn
<1>1. CASE session.status \notin Started
  <2>1. answered = {}
    BY <1>1 DEF ReplayInv
  <2> HIDE DEF answered
  <2>2. QED
    BY <1>0, <1>1, <2>1
<1>2. CASE session.status \in Started
  <2>1. answered = 1 .. Len(rows) - 1
    <3>1. /\ Len(rows) \in Nat /\ DOMAIN rows = 1 .. Len(rows)
          /\ \A i \in 1 .. Len(rows) : (rows[i].answer = Unanswered) <=> (i = Len(rows))
      BY <1>2 DEF ReplayInv, TypeInv, TypeOK
    <3> DEFINE n == Len(rows)
    <3>2. n \in Nat
      BY <3>1
    <3> HIDE DEF n
    <3>3. \A i : i \in 1 .. n - 1 <=> i \in 1 .. n /\ i # n
      BY <3>2
    <3>4. QED
      BY <3>1, <3>3 DEF n
  <2> HIDE DEF answered
  <2>2. QED
    BY <1>0, <1>2, <2>1
<1>3. QED
  BY <1>1, <1>2

\* An answer of one request at a time is an answer of the lifecycle: to the
\* turn that comes next, with what may be said of its topic.
LEMMA AnswerRefines ==
  ASSUME SerialInv, SerialInv', NEW hits \in AnswersTo(plan, session.asked), NEW next,
         TurnAnswered(hits, next)
  PROVE  Lifecycle!Answer
<1> DEFINE n == Len(rows)
           a == session.asked
           turn == Lifecycle!NextTurn(Transcript)
<1>0. TypeInv /\ ReplayInv /\ WalkInv /\ TypeInv' /\ ReplayInv'
  BY DEF SerialInv
<1>1. hits \in Nat
  BY <1>0, AnswersAreNat
<1>2. /\ session.status = "active" /\ plan' = plan
      /\ next = Decide(plan, a, hits)
      /\ session'.status = IF next.kind = Closing THEN "completed" ELSE "active"
  BY DEF TurnAnswered
<1>3. /\ n \in Nat /\ n >= 1 /\ Len(rows') = n + 1
      /\ \A i \in 1 .. n - 1 : rows'[i] = rows[i]
      /\ rows'[n].kind = rows[n].kind /\ rows'[n].topic = rows[n].topic
      /\ rows'[n].answer = hits
  BY <1>0, <1>1, AnsweredRows
<1>4. /\ a \in Seq(AskedTurns) /\ Len(a) = n /\ EngineWalk(plan, a)
      /\ \A i \in 1 .. n : TurnOf(rows[i]) = a[i]
      /\ TurnOf(rows[n]) = Decide(plan, SubSeq(a, 1, n - 1),
                                  IF n = 1 THEN 0 ELSE rows[n - 1].answer)
  <2>1. a \in Seq(AskedTurns) /\ EngineWalk(plan, a)
    BY <1>0 DEF TypeInv, TypeOK, Sessions, WalkInv
  <2>2. n \in 1 .. n
    BY <1>3
  <2>3. QED
    BY <1>0, <1>2, <2>1, <2>2 DEF ReplayInv, Started
<1>5. /\ Transcript = [i \in 1 .. n - 1 |-> AnsweredTurn(rows[i])]
      /\ Transcript' = [i \in 1 .. n |-> AnsweredTurn(rows'[i])]
  <2>1. session.status \in Started /\ session'.status \in Started
    BY <1>2 DEF Started
  <2>2. Transcript = [i \in 1 .. n - 1 |-> AnsweredTurn(rows[i])]
    BY <1>0, <2>1, TranscriptRows
  <2>3. Transcript' = [i \in 1 .. Len(rows') - 1 |-> AnsweredTurn(rows'[i])]
    <3>1. (TypeInv /\ ReplayInv /\ session.status \in Started =>
             Transcript = [i \in 1 .. Len(rows) - 1 |-> AnsweredTurn(rows[i])])'
      BY TranscriptRows, PTL
    <3>2. QED
      BY <1>0, <2>1, <3>1 DEF AnsweredTurn
  <2>4. Len(rows') - 1 = n
    BY <1>3
  <2>5. QED
    BY <2>2, <2>3, <2>4
<1>6. \A i \in 1 .. n : TurnOf(rows'[i]) = a[i]
  <2>1. \A i \in 1 .. n : i = n \/ i \in 1 .. n - 1
    BY <1>3
  <2>2. QED
    BY <1>3, <1>4, <2>1 DEF TurnOf
<1>7. /\ Lifecycle!TurnsOf(Transcript) = SubSeq(a, 1, n - 1)
      /\ turn = TurnOf(rows[n])
  <2>1. n - 1 \in 0 .. Len(a) /\ (n - 1 = 0 <=> n = 1) /\ \A i \in 1 .. n - 1 : i \in 1 .. n
    BY <1>3, <1>4
  <2>2. \A i \in 1 .. n - 1 : TurnOf(rows[i]) = a[i]
    BY <1>4, <2>1
  <2>4. a \in Seq(AskedTurns) /\ Transcript = [i \in 1 .. n - 1 |-> AnsweredTurn(rows[i])]
    BY <1>4, <1>5
  <2>5. /\ Lifecycle!TurnsOf(Transcript) = SubSeq(a, 1, n - 1)
        /\ turn = Decide(plan, SubSeq(a, 1, n - 1), IF n - 1 = 0 THEN 0 ELSE rows[n - 1].answer)
    <3> DEFINE m == n - 1
    <3>1. /\ a \in Seq(AskedTurns) /\ m \in 0 .. Len(a)
          /\ \A i \in 1 .. m : TurnOf(rows[i]) = a[i]
          /\ Transcript = [i \in 1 .. m |-> AnsweredTurn(rows[i])]
      BY <2>1, <2>2, <2>4
    <3> HIDE DEF n, a, m
    <3>2. Lifecycle!TurnsOf(Transcript) = SubSeq(a, 1, m)
      BY <3>1, NextOfRows
    <3>3. Lifecycle!NextTurn(Transcript) =
            Decide(plan, SubSeq(a, 1, m), IF m = 0 THEN 0 ELSE rows[m].answer)
      BY <3>1, NextOfRows
    <3>4. QED
      BY <3>2, <3>3 DEF m
  <2>6. QED
    BY <1>4, <2>1, <2>5
<1>8. turn = a[n] /\ a[n] \in AskedTurns /\ a[n].kind # Closing
  <2>1. n \in DOMAIN a /\ n \in 1 .. n
    BY <1>3, <1>4
  <2>2. a[n] \in AskedTurns
    BY <1>4, <2>1
  <2>3. a[n].kind # Closing
    BY <1>4, <2>1 DEF EngineWalk, Question, Probe, Closing
  <2>4. QED
    BY <1>4, <1>7, <2>1, <2>2, <2>3
<1>9. Append(Lifecycle!TurnsOf(Transcript), turn) = a
  <2>1. SubSeq(a, 1, n - 1) = [i \in 1 .. n - 1 |-> a[i]]
    <3>1. n - 1 \in 0 .. Len(a)
      BY <1>3, <1>4
    <3>2. SubSeq(a, 1, n - 1) = Restrict(a, 1 .. n - 1)
      BY <1>4, <3>1, SubSeqRestrict
    <3>3. QED
      BY <3>2 DEF Restrict
  <2>2. [i \in 1 .. n - 1 |-> a[i]] \in Seq(AskedTurns)
    BY <1>3, <1>4
  <2>3. Append([i \in 1 .. n - 1 |-> a[i]], a[n]) = a
    BY <1>3, <1>4, <1>8, <2>2
  <2>4. QED
    BY <1>7, <1>8, <2>1, <2>3
<1>10. Transcript' = Append(Transcript,
         [kind |-> turn.kind, topic |-> turn.topic, answer |-> hits])
  <2> DEFINE last == [kind |-> turn.kind, topic |-> turn.topic, answer |-> hits]
  <2>1. AnsweredTurn(rows'[n]) = last
    <3>1. turn.kind = rows[n].kind /\ turn.topic = rows[n].topic
      BY <1>7 DEF TurnOf, Turn
    <3>2. QED
      BY <1>3, <3>1 DEF AnsweredTurn
  <2>2. \A i \in 1 .. n - 1 : AnsweredTurn(rows'[i]) = AnsweredTurn(rows[i])
    BY <1>3
  <2>3. Append([i \in 1 .. n - 1 |-> AnsweredTurn(rows[i])], last) =
          [i \in 1 .. n |-> AnsweredTurn(rows'[i])]
    <3> HIDE DEF last, n
    <3>1. Len([i \in 1 .. n - 1 |-> AnsweredTurn(rows[i])]) = n - 1
      BY <1>3
    <3>2. \A i \in 1 .. n : i = n \/ i \in 1 .. n - 1
      BY <1>3
    <3>3. QED
      BY <1>3, <2>1, <2>2, <3>1, <3>2
  <2>4. QED
    BY <1>5, <2>3
<1>11. Lifecycle!NextTurn(Transcript') = next
  <2>1. n \in 0 .. Len(a) /\ n # 0
    BY <1>3, <1>4
  <2>2. Lifecycle!NextTurn(Transcript') = Decide(plan, SubSeq(a, 1, n), rows'[n].answer)
    BY <1>4, <1>5, <1>6, <2>1, NextOfRows
  <2>3. SubSeq(a, 1, n) = a
    BY <1>4, SubSeqFull
  <2>4. QED
    BY <1>2, <1>3, <2>2, <2>3
<1>12. hits \in Lifecycle!AnswersTo(plan, Append(Lifecycle!TurnsOf(Transcript), turn))
  BY <1>9, SameEngine
<1>13. /\ turn.kind # Lifecycle!Closing
       /\ session'.status = IF Lifecycle!NextTurn(Transcript').kind = Lifecycle!Closing
                              THEN "completed" ELSE session.status
  BY <1>2, <1>8, <1>11, SameEngine
<1>14. QED
  BY <1>2, <1>10, <1>12, <1>13 DEF Lifecycle!Answer

\* Every step of requests that do not overlap is one of the lifecycle, or
\* none.
LEMMA StepRefines ==
  ASSUME SerialInv, SerialInv', [Next]_vars
  PROVE  [Lifecycle!Next]_(Lifecycle!vars)
<1>0. TypeInv /\ GateInv /\ SnapInv /\ ReplayInv /\ TypeInv' /\ ReplayInv'
  BY DEF SerialInv
<1>1. CASE ConsentDecided
  <2>1. Transcript' = Transcript
    BY <1>1 DEF ConsentDecided, Transcript
  <2>2. QED
    BY <1>1, <2>1 DEF ConsentDecided, Lifecycle!Next, Lifecycle!Decision
<1>2. CASE GateMoved
  <2>1. Transcript' = Transcript
    BY <1>2 DEF GateMoved, Transcript
  <2>2. QED
    BY <1>2, <2>1 DEF GateMoved, Lifecycle!Next, Lifecycle!Gate
<1>3. CASE InterviewStarted
  <2>1. Transcript = << >>
    BY <1>0, <1>3, TranscriptRows DEF InterviewStarted, Started
  <2>2. Transcript' = << >>
    <3>1. (TypeInv /\ ReplayInv /\ session.status \in Started =>
             Transcript = [i \in 1 .. Len(rows) - 1 |-> AnsweredTurn(rows[i])])'
      BY TranscriptRows, PTL
    <3>2. session'.status \in Started
      BY <1>3 DEF InterviewStarted, Started
    <3>3. Len(rows') = 1
      BY <1>0, <1>3 DEF InterviewStarted, ReplayInv, Started
    <3>4. Transcript' = [i \in 1 .. 0 |-> AnsweredTurn(rows'[i])]
      BY <1>0, <3>1, <3>2, <3>3 DEF AnsweredTurn
    <3>5. QED
      BY <3>4
  <2>3. QED
    BY <1>3, <2>1, <2>2 DEF InterviewStarted, Lifecycle!Next, Lifecycle!Begin
<1>4. ASSUME NEW hits \in AnswersTo(plan, session.asked), NEW next, TurnAnswered(hits, next)
      PROVE  [Lifecycle!Next]_(Lifecycle!vars)
  BY <1>4, AnswerRefines DEF Lifecycle!Next
<1>5. CASE Withdrawn
  <2>1. Transcript' = Transcript
    BY <1>5 DEF Withdrawn, Transcript
  <2>2. QED
    BY <1>5, <2>1 DEF Withdrawn, Lifecycle!Next, Lifecycle!Withdraw
<1>6. CASE Rested
  BY <1>6 DEF Rested, Transcript, Lifecycle!vars
<1>7. QED
  BY <1>0, <1>1, <1>2, <1>3, <1>4, <1>5, <1>6, SerialMove

\* A new session is one at the start of its lifecycle.
LEMMA InitRefines == Init => Lifecycle!Init
<1> SUFFICES ASSUME Init PROVE Lifecycle!Init
  OBVIOUS
<1>1. Transcript = << >>
  <2>1. {k \in DOMAIN rows : rows[k].answer # Unanswered} = {}
    BY DEF Init
  <2>2. QED
    BY <2>1 DEF Transcript
<1>2. QED
  BY <1>1 DEF Init, NewSession, Lifecycle!Init

\* When requests do not overlap, the session implements the lifecycle: one
\* decision on consent, a gate that opens and closes until the start, answers
\* in the order of the engine only while active, and an end that is final.
THEOREM Implements == Serial => (Spec => ImplementsLifecycle)
<1>1. SerialInv /\ SerialInv' /\ [Next]_vars => [Lifecycle!Next]_(Lifecycle!vars)
  BY StepRefines
<1>2. Serial' <=> Serial
  BY DEF Serial
<1>3. QED
  BY <1>1, <1>2, InitRefines, SerialInit, SerialStep, PTL
  DEF Spec, ImplementsLifecycle, Lifecycle!Spec

=============================================================================
