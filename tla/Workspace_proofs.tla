-------------------------- MODULE Workspace_proofs --------------------------
(***************************************************************************)
(* Theorems about Workspace, for any tasks, any number of requests and     *)
(* keystrokes, and any order in which they commit; and, at the end, about  *)
(* Whiteboard, another tab of the same page.                               *)
(***************************************************************************)
EXTENDS Workspace, TLAPS, NaturalsInduction, WellFoundedInduction

-----------------------------------------------------------------------------
(* Least and latest elements exist, so CHOOSE means what it says.          *)

\* A set of natural numbers that is not empty has a least element.
LEMMA LeastExists ==
  ASSUME NEW S \in SUBSET Nat, S # {}
  PROVE  \E x \in S : \A y \in S : x <= y
<1>1. PICK x \in S : \A y \in S : ~ (<<y, x>> \in OpToRel(<, Nat))
  BY NatLessThanWellFounded, WFMin, Zenon
<1>2. \A y \in S : ~ (y < x)
  BY <1>1 DEF OpToRel
<1>3. QED
  BY <1>2

\* The code a reload is shown is that of the youngest stored row of the task.
LEMMA LatestIsStored ==
  ASSUME TypeOK, NEW t \in Tasks, NEW row \in snapshots, row.task = t
  PROVE  \E s \in snapshots :
           /\ s.task = t /\ Latest(t) = s.source
           /\ \A o \in snapshots : o.task = t => o.at <= s.at
<1> DEFINE rows == {s \in snapshots : s.task = t}
           ages == {MaxStamp - s.at : s \in rows}
<1>1. \A s \in rows : s.at \in 1 .. MaxStamp
  BY DEF TypeOK, Rows
<1>2. ages \in SUBSET Nat
  BY <1>1, BoundsAssumption
<1>3. ages # {}
  OBVIOUS
<1>4. PICK x \in ages : \A y \in ages : x <= y
  <2> HIDE DEF ages
  <2> QED
    BY <1>2, <1>3, LeastExists
<1>5. PICK s \in rows : x = MaxStamp - s.at
  OBVIOUS
<1>6. \A o \in rows : o.at <= s.at
  <2> TAKE o \in rows
  <2>1. MaxStamp - o.at \in ages
    OBVIOUS
  <2>2. MaxStamp - s.at <= MaxStamp - o.at
    BY <1>4, <1>5, <2>1
  <2>3. QED
    BY <1>1, <2>2, BoundsAssumption
<1> DEFINE latest == CHOOSE s1 \in rows : \A o \in rows : o.at <= s1.at
<1>7. latest \in rows /\ \A o \in rows : o.at <= latest.at
  BY <1>6
<1>8. Latest(t) = latest.source
  BY DEF Latest
<1>9. \A o \in snapshots : o.task = t => o \in rows
  OBVIOUS
<1>10. QED
  BY <1>7, <1>8, <1>9

\* The task that is shown first is a task.
LEMMA FirstIsCreated ==
  ASSUME TypeOK, Created # {}
  PROVE  FirstTask \in Created
<1> DEFINE stamps == {created[t] : t \in Created}
<1>1. \A t \in Created : created[t] \in Nat
  BY BoundsAssumption DEF TypeOK, Created
<1>2. stamps \in SUBSET Nat /\ stamps # {}
  BY <1>1
<1>3. PICK x \in stamps : \A y \in stamps : x <= y
  <2> HIDE DEF stamps
  <2> QED
    BY <1>2, LeastExists
<1>4. PICK t \in Created : x = created[t]
  OBVIOUS
<1>5. \A o \in Created : created[t] <= created[o]
  BY <1>3, <1>4
<1>6. QED
  BY <1>5 DEF FirstTask

-----------------------------------------------------------------------------
(* Types.                                                                  *)

\* A write is allowed only once its transaction has begun.
Begun(r) == r \in Writing /\ req[r].allowed => req[r].at > 0

\* The page shows a task that exists, with a text, and its timer belongs to
\* it; every task has a stored row, and code is asked for of such tasks only.
Shape ==
  /\ page.task \in Created \union {None}
  /\ page.task # None => page.source \in Texts
  /\ page.timer # None => page.task # None /\ page.timer.task = page.task
  /\ \A t \in Created : \E s \in snapshots : s.task = t
  /\ \A r \in Doing("get") : req[r].task \in Created
  /\ \A r \in Requests : Begun(r)

TypeInv == TypeOK /\ Shape

\* The kinds of requests, by what they are doing.
LEMMA Kinds ==
  ASSUME TypeOK, NEW r \in Requests
  PROVE  /\ r \in Writing <=> req[r] \in Writes
         /\ r \in Doing("get") <=> req[r] \in Reads
         /\ r \in Writing => req[r].op \in {"save", "run"}
         /\ r \in Writing =>
              /\ req[r].task \in Tasks /\ req[r].source \in Texts
              /\ req[r].at \in 0 .. MaxStamp
         /\ r \in Doing("get") =>
              req[r].task \in Tasks /\ req[r].source \in Texts \union {None}
         /\ r \in Idles => req[r] = Idle
BY DEF TypeOK, Writing, Doing, Idles, Writes, Reads, Idle

\* Before the first task there is no row and nothing on its way.
LEMMA TypeInit == Init => TypeInv
<1> SUFFICES ASSUME Init PROVE TypeInv
  OBVIOUS
<1>1. \A t \in Tasks : Starter(t) \in Texts
  BY BoundsAssumption DEF Starter, Texts
<1>2. 0 \in 0 .. MaxStamp
  BY BoundsAssumption
<1>3. TypeOK
  BY <1>1, <1>2 DEF Init, TypeOK, Pages, Statuses
<1>4. Created = {} /\ Doing("get") = {}
  BY DEF Init, Created, Doing, Idle
<1>5. \A r \in Requests : Begun(r)
  BY DEF Init, Begun, Writing, Doing, Idle
<1>6. QED
  BY <1>3, <1>4, <1>5 DEF TypeInv, Shape, Init

\* The interview's and its staff's steps add tasks and their rows, no more.
LEMMA TypeStaff ==
  ASSUME TypeInv, Begin \/ End \/ SetBack \/ \E t \in Tasks : CreateTask(t)
  PROVE  TypeInv'
<1> USE DEF TypeInv
<1>2. CASE Begin \/ End \/ SetBack
  <2>1. PICK status \in Statuses : Becomes(status)
    BY <1>2 DEF Begin, End, SetBack, Statuses
  <2>2. TypeOK'
    BY <2>1, BoundsAssumption DEF TypeOK, Becomes
  <2>3. Created' = Created /\ Doing("get")' = Doing("get")
    BY <2>1 DEF Becomes, Created, Doing
  <2>4. \A r \in Requests : Begun(r)'
    BY <2>1 DEF Shape, Becomes, Begun, Writing, Doing
  <2>5. QED
    BY <2>1, <2>2, <2>3, <2>4 DEF Shape, Becomes
<1>3. ASSUME NEW t \in Tasks, CreateTask(t)
      PROVE  TypeInv'
  <2>0. Now \in 1 .. MaxStamp /\ clock' = Now
    BY <1>3, BoundsAssumption DEF TypeOK, CreateTask, TakeStamp, Now
  <2>1. [task |-> t, source |-> Starter(t), at |-> Now] \in Rows
    BY <2>0, BoundsAssumption DEF Rows, Starter, Texts
  <2>2. TypeOK'
    BY <2>0, <1>3, <2>1, BoundsAssumption DEF TypeOK, CreateTask
  <2>3. Created' = Created \union {t} /\ Doing("get")' = Doing("get")
    BY <2>0, <1>3, BoundsAssumption DEF CreateTask, Created, Doing, TypeOK
  <2>4. \A o \in Created' : \E s \in snapshots' : s.task = o
    BY <1>3, <2>1, <2>3 DEF Shape, CreateTask
  <2>5. \A r \in Requests : Begun(r)'
    BY <1>3 DEF Shape, CreateTask, Begun, Writing, Doing
  <2>6. QED
    BY <1>3, <2>2, <2>3, <2>4, <2>5 DEF Shape, CreateTask
<1>4. QED
  BY <1>2, <1>3

\* The page's steps.
LEMMA TypeEditor ==
  ASSUME TypeInv, Type \/ \E r \in Requests : Editor(r)
  PROVE  TypeInv'
<1> USE DEF TypeInv
<1>0. \A t \in Tasks : Starter(t) \in Texts
  BY BoundsAssumption DEF Starter, Texts
<1>1. CASE Type
  <2>1. PICK text \in Texts :
          /\ page' = [page EXCEPT !.source = text,
                                  !.timer = [task |-> page.task, source |-> text]]
          /\ typed' = [typed EXCEPT ![page.task] = text]
    BY <1>1 DEF Type
  <2>2. page.task \in Tasks /\ page.task # None
    BY <1>1 DEF Type, Shape, Created
  <2>3. [task |-> page.task, source |-> text] \in Saves
    BY <2>2 DEF Saves
  <2>4. /\ page' \in Pages /\ page'.task = page.task /\ page'.source \in Texts
        /\ page'.timer.task = page'.task
    BY <2>1, <2>2, <2>3 DEF TypeOK, Pages
  <2>5. UNCHANGED <<clock, session, closed, created, snapshots, executions, req>>
    BY <1>1 DEF Type
  <2>6. typed' \in [Tasks -> Texts] /\ excuse' \subseteq Excuses /\ misread' \subseteq Tasks
    BY <1>1, <2>1, <2>2 DEF Type, Uses, Blamed, TypeOK
  <2>7. TypeOK'
    BY <2>4, <2>5, <2>6 DEF TypeOK
  <2>8. Created' = Created /\ Doing("get")' = Doing("get")
    BY <2>5 DEF Created, Doing
  <2>9. \A r \in Requests : Begun(r)'
    BY <2>5 DEF Shape, Begun, Writing, Doing
  <2>10. QED
    BY <2>2, <2>4, <2>5, <2>7, <2>8, <2>9 DEF Shape
<1>2. ASSUME NEW r \in Requests, NEW t \in Tasks, Open(r, t)
      PROVE  TypeInv'
  <2>1. t \in Created
    BY <1>2, FirstIsCreated DEF Open, Shape
  <2>2. page' \in Pages /\ page'.task = t /\ page'.source \in Texts /\ page'.timer = None
    BY <1>0, <1>2, <2>1 DEF Open, Pages, Created
  <2>3. Get(t) \in Reads
    BY DEF Get, Reads
  <2>4. req' \in [Requests -> Writes \union Reads \union {Idle}]
    BY <1>2, <2>3 DEF Open, TypeOK
  <2>5. excuse' \subseteq Excuses
    BY <1>2 DEF Open, Blamed, TypeOK
  <2>6. TypeOK'
    BY <1>2, <2>2, <2>4, <2>5 DEF Open, TypeOK
  <2>7. Created' = Created
    BY <1>2 DEF Open, Created
  <2>8. \A q \in Doing("get")' : req'[q].task \in Created'
    BY <1>2, <2>1, <2>7 DEF Open, Doing, Get, Idle
  <2>9. \A q \in Requests : Begun(q)'
    BY <1>2 DEF Shape, Open, Begun, Writing, Doing, Get, Idle, TypeOK
  <2>10. QED
    BY <1>2, <2>1, <2>2, <2>6, <2>7, <2>8, <2>9 DEF Shape, Open
<1>3. ASSUME NEW r \in Requests, NEW t \in Tasks, Switch(r, t)
      PROVE  TypeInv'
  <2>1. t \in Created /\ page.source \in Texts
    BY <1>3 DEF Switch, Shape
  <2>2. /\ page' \in Pages /\ page'.task = t /\ page'.source = page.source
        /\ page'.timer = None
    BY <1>3 DEF Switch, Pages, TypeOK
  <2>3. Get(t) \in Reads
    BY DEF Get, Reads
  <2>4. req' \in [Requests -> Writes \union Reads \union {Idle}]
    BY <1>3, <2>3 DEF Switch, TypeOK
  <2>5. excuse' \subseteq Excuses
    BY <1>3 DEF Switch, Blamed, TypeOK
  <2>6. TypeOK'
    BY <1>3, <2>2, <2>4, <2>5 DEF Switch, TypeOK
  <2>7. Created' = Created
    BY <1>3 DEF Switch, Created
  <2>8. \A q \in Doing("get")' : req'[q].task \in Created'
    BY <1>3, <2>1, <2>7 DEF Switch, Doing, Get, Shape, TypeOK
  <2>9. \A q \in Requests : Begun(q)'
    BY <1>3 DEF Shape, Switch, Begun, Writing, Doing, Get, Idle, TypeOK
  <2>10. QED
    BY <1>3, <2>1, <2>2, <2>6, <2>7, <2>8, <2>9 DEF Shape, Switch
<1>4. ASSUME NEW r \in Requests, Save(r) \/ Run(r)
      PROVE  TypeInv'
  <2>1. PICK op \in {"save", "run"}, task \in Tasks, source \in Texts :
          Send(r, op, task, source)
    <3>1. CASE Save(r)
      <4>1. page.timer \in Saves
        BY <3>1 DEF Save, TypeOK, Pages
      <4>2. QED
        BY <3>1, <4>1 DEF Save, Saves
    <3>2. CASE Run(r)
      BY <3>2 DEF Run, Shape, Created
    <3>3. QED
      BY <1>4, <3>1, <3>2
  <2>2. misread' \subseteq Tasks
    BY <1>4 DEF Save, Run, Uses, Shape, Created, TypeOK
  <2>3. [op |-> op, task |-> task, source |-> source, at |-> 0,
         allowed |-> FALSE] \in Writes
    BY BoundsAssumption DEF Writes
  <2>4. req' \in [Requests -> Writes \union Reads \union {Idle}]
    BY <2>1, <2>3 DEF Send, TypeOK
  <2>5. /\ page' \in Pages /\ page'.task = page.task /\ page'.source = page.source
        /\ page'.timer \in {None, page.timer}
    BY <1>4 DEF Save, Run, Pages, TypeOK
  <2>6. excuse' \subseteq Excuses
    BY <1>4 DEF Save, Run, Blamed, TypeOK
  <2>7. TypeOK'
    BY <2>1, <2>2, <2>4, <2>5, <2>6 DEF Send, TypeOK
  <2>8. Created' = Created /\ snapshots' = snapshots
    BY <2>1 DEF Send, Created
  <2>9. \A q \in Doing("get")' : q \in Doing("get") /\ req'[q] = req[q]
    BY <2>1, <2>3 DEF Send, Doing, TypeOK, Writes
  <2>10. \A q \in Requests : Begun(q)'
    BY <2>1 DEF Send, Shape, Begun, Writing, Doing, TypeOK
  <2>11. QED
    BY <2>5, <2>7, <2>8, <2>9, <2>10 DEF Shape
<1>5. ASSUME NEW r \in Requests, Arrive(r)
      PROVE  TypeInv'
  <2>1. req[r].source \in Texts /\ req[r].task \in Tasks
    BY <1>5, Kinds DEF Arrive
  <2>2. /\ page' \in Pages /\ page'.source \in Texts /\ page'.task = page.task
        /\ page'.timer = page.timer
    BY <1>5, <2>1 DEF Arrive, Pages, TypeOK
  <2>3. TypeOK'
    BY <1>5, <2>2 DEF Arrive, TypeOK
  <2>4. Created' = Created
    BY <1>5 DEF Arrive, Created
  <2>5. \A q \in Doing("get")' : q \in Doing("get") /\ req'[q] = req[q]
    BY <1>5 DEF Arrive, Doing, TypeOK, Idle
  <2>6. \A q \in Requests : Begun(q)'
    BY <1>5 DEF Arrive, Shape, Begun, Writing, Doing, Idle, TypeOK
  <2>7. QED
    BY <1>5, <2>2, <2>3, <2>4, <2>5, <2>6 DEF Shape, Arrive
<1>6. QED
  BY <1>1, <1>2, <1>3, <1>4, <1>5 DEF Editor

\* The endpoints' steps.
LEMMA TypeServe ==
  ASSUME TypeInv, NEW r \in Requests, Serve(r)
  PROVE  TypeInv'
<1> USE DEF TypeInv
<1>1. CASE Find(r)
  <2>1. r \in Doing("get") /\ req[r] \in Reads /\ req[r].task \in Created
    BY <1>1, Kinds DEF Find, Shape
  <2>2. Latest(req[r].task) \in Texts
    <3>1. req[r].task \in Tasks
      BY <2>1 DEF Created
    <3>2. PICK row \in snapshots : row.task = req[r].task
      BY <2>1 DEF Shape
    <3>3. PICK s \in snapshots : Latest(req[r].task) = s.source
      BY <3>1, <3>2, LatestIsStored
    <3>4. QED
      BY <3>3 DEF TypeOK, Rows
  <2>3. [req[r] EXCEPT !.source = Latest(req[r].task)] \in Reads
    BY <2>1, <2>2 DEF Reads
  <2>4. req' = [req EXCEPT ![r] = [req[r] EXCEPT !.source = Latest(req[r].task)]]
    BY <1>1, Zenon DEF Find
  <2>5. req' \in [Requests -> Writes \union Reads \union {Idle}]
    BY <2>3, <2>4 DEF TypeOK
  <2>6. TypeOK'
    BY <1>1, <2>5 DEF Find, TypeOK
  <2>7. Created' = Created
    BY <1>1 DEF Find, Created
  <2>8. \A q \in Doing("get")' : q \in Doing("get") /\ req'[q].task = req[q].task
    BY <2>1, <2>3, <2>4 DEF Doing, TypeOK, Reads
  <2>9. \A q \in Requests : Begun(q)'
    <3>1. \A q \in Writing' : q \in Writing /\ req'[q] = req[q]
      BY <2>1, <2>3, <2>4 DEF Writing, Doing, TypeOK, Reads
    <3>2. QED
      BY <3>1 DEF Shape, Begun
  <2>10. QED
    BY <1>1, <2>6, <2>7, <2>8, <2>9 DEF Shape, Find
<1>2. CASE Stamp(r) \/ Start(r)
  <2>1. r \in Writing /\ req[r] \in Writes
    BY <1>2, Kinds DEF Stamp, Start
  <2>2. PICK w \in Writes : w.op = req[r].op /\ req' = [req EXCEPT ![r] = w]
    <3>1. CASE Stamp(r)
      <4>1. Now \in 0 .. MaxStamp
        BY <3>1, BoundsAssumption DEF Stamp, TakeStamp, Now, TypeOK
      <4>2. [req[r] EXCEPT !.at = Now] \in Writes
        BY <2>1, <4>1 DEF Writes
      <4>3. req' = [req EXCEPT ![r] = [req[r] EXCEPT !.at = Now]]
        BY <3>1, Zenon DEF Stamp
      <4>4. [req[r] EXCEPT !.at = Now].op = req[r].op
        BY <2>1 DEF Writes
      <4>5. QED
        BY <4>2, <4>3, <4>4
    <3>2. CASE Start(r)
      <4>1. [req[r] EXCEPT !.allowed = TRUE] \in Writes
        BY <2>1 DEF Writes
      <4>2. req' = [req EXCEPT ![r] = [req[r] EXCEPT !.allowed = TRUE]]
        BY <3>2, Zenon DEF Start
      <4>3. [req[r] EXCEPT !.allowed = TRUE].op = req[r].op
        BY <2>1 DEF Writes
      <4>4. QED
        BY <4>1, <4>2, <4>3
    <3>3. QED
      BY <1>2, <3>1, <3>2
  <2>3. req' \in [Requests -> Writes \union Reads \union {Idle}]
    BY <2>2 DEF TypeOK
  <2>4. clock' \in 0 .. MaxStamp /\ excuse' \subseteq Excuses
    BY <1>2, BoundsAssumption DEF Stamp, Start, TakeStamp, Now, Blamed, TypeOK
  <2>5. UNCHANGED <<session, closed, created, snapshots, executions, page, typed, misread>>
    BY <1>2 DEF Stamp, Start
  <2>6. TypeOK'
    BY <2>3, <2>4, <2>5 DEF TypeOK
  <2>7. Created' = Created /\ Doing("get")' = Doing("get")
    BY <2>1, <2>2, <2>5, Kinds DEF Created, Doing, TypeOK
  <2>8. \A q \in Doing("get") : req'[q] = req[q]
    BY <2>1, <2>2, Kinds DEF Doing, TypeOK
  <2>9. Begun(r)'
    <3>1. CASE Stamp(r)
      BY <2>1, <3>1, BoundsAssumption
         DEF Stamp, TakeStamp, Now, Begun, TypeOK, Writes
    <3>2. CASE Start(r)
      BY <2>1, <3>2 DEF Start, Begun, TypeOK, Writes
    <3>3. QED
      BY <1>2, <3>1, <3>2
  <2>10. \A q \in Requests : Begun(q)'
    BY <2>2, <2>9 DEF Shape, Begun, Writing, Doing, TypeOK
  <2>11. QED
    BY <2>5, <2>6, <2>7, <2>8, <2>10 DEF Shape
<1>3. CASE Commit(r) \/ Fail(r)
  <2>1. Closes(r)
    BY <1>3 DEF Commit, Fail
  <2>2. Commit(r) => Row(r) \in Rows
    <3> SUFFICES ASSUME Commit(r) PROVE Row(r) \in Rows
      OBVIOUS
    <3>1. r \in Writing /\ req[r] \in Writes /\ req[r].allowed
      BY Kinds DEF Commit
    <3>2. req[r].at \in 1 .. MaxStamp
      BY <3>1, BoundsAssumption DEF Shape, Begun, Writes
    <3>3. QED
      BY <3>1, <3>2 DEF Row, Rows, Writes
  <2>3. /\ snapshots \subseteq snapshots' /\ snapshots' \subseteq Rows
        /\ executions' \subseteq Rows
    BY <1>3, <2>2 DEF Commit, Fail, TypeOK
  <2>4. excuse' \subseteq Excuses
    BY <1>3 DEF Commit, Fail, Blamed, TypeOK
  <2>5. /\ page' \in Pages /\ page'.task = page.task
        /\ page'.source = page.source /\ page'.timer = page.timer
    BY <2>1 DEF Closes, Pages, TypeOK
  <2>6. TypeOK'
    BY <2>1, <2>3, <2>4, <2>5 DEF Closes, TypeOK
  <2>7. Created' = Created
    BY <2>1 DEF Closes, Created
  <2>8. \A q \in Doing("get")' : q \in Doing("get") /\ req'[q] = req[q]
    BY <2>1 DEF Closes, Doing, Idle, TypeOK
  <2>9. \A q \in Requests : Begun(q)'
    BY <2>1 DEF Closes, Shape, Begun, Writing, Doing, Idle, TypeOK
  <2>10. QED
    BY <2>3, <2>5, <2>6, <2>7, <2>8, <2>9 DEF Shape
<1>4. QED
  BY <1>1, <1>2, <1>3 DEF Serve

\* Every step keeps the types, and a shown task its stored row.
LEMMA TypeNext == TypeInv /\ [Next]_vars => TypeInv'
<1> SUFFICES ASSUME TypeInv, [Next]_vars PROVE TypeInv'
  OBVIOUS
<1>1. CASE UNCHANGED vars
  BY <1>1 DEF vars, TypeInv, TypeOK, Shape, Created, Doing, Begun, Writing
<1>2. QED
  BY <1>1, TypeStaff, TypeEditor, TypeServe DEF Next

\* The state keeps its types, for any tasks and any number of overlapping
\* requests (the columns and the page's state of Workspace.tla).
THEOREM TypeCorrect == Spec => []TypeOK
<1>1. TypeInv => TypeOK
  BY DEF TypeInv
<1>2. QED
  BY <1>1, TypeInit, TypeNext, PTL DEF Spec

-----------------------------------------------------------------------------
(* Nothing is recorded that began after the interview.                     *)

\* Before the commit that ended the interview or set it back, if it is not
\* active.
During(at) == IsActive \/ at <= closed

\* A write that was allowed began before that commit, and what is stored is no
\* younger than the clock.
Dated ==
  /\ closed <= clock
  /\ \A row \in snapshots : row.at <= clock
  /\ \A r \in Writing : req[r].at <= clock /\ (req[r].allowed => During(req[r].at))

RecordedInv == TypeInv /\ Dated /\ RecordedWhileActive

\* Nothing is recorded before the interview.
LEMMA RecordedInit == Init => Dated /\ RecordedWhileActive
BY DEF Init, Dated, RecordedWhileActive, Writing, Doing, Idle

\* Steps that store nothing and let nothing begin.
LEMMA NothingRecorded ==
  ASSUME RecordedInv,
         UNCHANGED <<clock, session, closed, created, snapshots>>,
         \A q \in Writing' :
           \/ q \in Writing /\ req'[q] = req[q]
           \/ req'[q].at = 0 /\ ~ req'[q].allowed
  PROVE  Dated' /\ RecordedWhileActive'
<1>1. clock \in Nat
  BY BoundsAssumption DEF RecordedInv, TypeInv, TypeOK
<1>2. QED
  BY <1>1 DEF RecordedInv, Dated, During, IsActive, RecordedWhileActive

\* What is written took its stamp before it was allowed.
LEMMA RecordedNext == RecordedInv /\ [Next]_vars => Dated' /\ RecordedWhileActive'
<1> SUFFICES ASSUME RecordedInv, [Next]_vars
             PROVE  Dated' /\ RecordedWhileActive'
  OBVIOUS
<1>1. TypeInv /\ TypeOK /\ Dated /\ RecordedWhileActive
  BY DEF RecordedInv, TypeInv
<1>2. /\ clock \in Nat /\ closed \in Nat
      /\ \A t \in Tasks : created[t] \in Nat
      /\ \A row \in snapshots : row.at \in Nat /\ row.at > 0
      /\ \A r \in Writing : req[r].at \in Nat
  <2>1. MaxStamp \in Nat
    BY BoundsAssumption
  <2>2. clock \in Nat /\ closed \in Nat
    BY <1>1, <2>1 DEF TypeOK
  <2>3. \A t \in Tasks : created[t] \in Nat
    BY <1>1, <2>1 DEF TypeOK
  <2>4. \A row \in snapshots : row.at \in Nat /\ row.at > 0
    BY <1>1, <2>1 DEF TypeOK, Rows
  <2>5. \A r \in Writing : r \in Requests
    BY DEF Writing, Doing
  <2>6. \A r \in Writing : req[r].at \in Nat
    BY <1>1, <2>1, <2>5, Kinds
  <2>7. QED
    BY <2>2, <2>3, <2>4, <2>6
<1>3. CASE Begin \/ End \/ SetBack
  <2>1. PICK status : Becomes(status)
    BY <1>3 DEF Begin, End, SetBack
  <2>2. /\ closed' = IF IsActive THEN clock
                     ELSE IF status = "active" THEN 0 ELSE closed
        /\ IsActive' <=> status = "active"
    BY <2>1 DEF Becomes, IsActive
  <2>3. UNCHANGED <<clock, created, snapshots, req>> /\ Writing' = Writing
    BY <2>1 DEF Becomes, Writing, Doing
  <2>4. \A at \in Nat : at <= clock /\ During(at) => During(at)'
    BY <1>2, <2>2 DEF During
  <2>5. closed' <= clock'
    BY <1>1, <1>2, <2>2, <2>3 DEF Dated
  <2>6. Dated'
    BY <1>1, <1>2, <2>3, <2>4, <2>5 DEF Dated
  <2>7. RecordedWhileActive'
    BY <1>1, <1>2, <2>3, <2>4 DEF RecordedWhileActive, Dated, During
  <2>8. QED
    BY <2>6, <2>7
<1>4. ASSUME NEW t \in Tasks, CreateTask(t)
      PROVE  Dated' /\ RecordedWhileActive'
  <2>1. /\ clock' = clock + 1 /\ created[t] = 0
        /\ created' = [created EXCEPT ![t] = clock + 1]
        /\ snapshots' = snapshots \union
             {[task |-> t, source |-> Starter(t), at |-> clock + 1]}
    BY <1>2, <1>4 DEF CreateTask, TakeStamp, Now, Created
  <2>2. UNCHANGED <<session, closed, req>> /\ Writing' = Writing
    BY <1>4 DEF CreateTask, Writing, Doing
  <2>3. Dated'
    BY <1>1, <1>2, <2>1, <2>2 DEF Dated, During, IsActive
  <2>4. \A row \in snapshots' : row.at # created'[row.task] => During(row.at)
    <3>1. \A row \in snapshots : row.task \in Tasks /\ created \in [Tasks -> Nat]
      BY <1>1, <1>2 DEF TypeOK, Rows
    <3>2. \A row \in snapshots : row.at # created'[row.task] => row.at # created[row.task]
      BY <1>2, <2>1, <3>1
    <3>3. \A row \in snapshots : row.at # created'[row.task] => During(row.at)
      BY <1>1, <3>2 DEF RecordedWhileActive, During, IsActive
    <3>4. created'[t] = clock + 1
      BY <1>1, <2>1 DEF TypeOK
    <3>5. QED
      BY <2>1, <3>3, <3>4
  <2>5. RecordedWhileActive'
    BY <1>1, <2>1, <2>2, <2>4 DEF RecordedWhileActive, During, IsActive
  <2>6. QED
    BY <2>3, <2>5
<1>5. CASE Type
  BY <1>5, NothingRecorded DEF Type, Writing, Doing
<1>6. ASSUME NEW r \in Requests, Editor(r)
      PROVE  Dated' /\ RecordedWhileActive'
  <2>1. UNCHANGED <<clock, session, closed, created, snapshots>>
    BY <1>6 DEF Editor, Open, Switch, Save, Run, Send, Arrive
  <2>2. ASSUME NEW q \in Writing'
        PROVE  \/ q \in Writing /\ req'[q] = req[q]
               \/ req'[q].at = 0 /\ ~ req'[q].allowed
    <3>1. ASSUME NEW t \in Tasks, Open(r, t) \/ Switch(r, t)
          PROVE  q \in Writing /\ req'[q] = req[q]
      BY <1>1, <2>2, <3>1 DEF Open, Switch, Get, Idle, Writing, Doing, TypeOK
    <3>2. CASE Save(r) \/ Run(r)
      BY <1>1, <2>2, <3>2 DEF Save, Run, Send, Writing, Doing, TypeOK
    <3>3. CASE Arrive(r)
      BY <1>1, <2>2, <3>3 DEF Arrive, Idle, Writing, Doing, TypeOK
    <3>4. QED
      BY <1>6, <3>1, <3>2, <3>3 DEF Editor
  <2>3. QED
    BY <2>1, <2>2, NothingRecorded
<1>7. ASSUME NEW r \in Requests, Find(r)
      PROVE  Dated' /\ RecordedWhileActive'
  <2>1. \A q \in Writing' : q \in Writing /\ req'[q] = req[q]
    <3>1. req[r] \in Reads /\ r \in Doing("get")
      BY <1>1, <1>7, Kinds DEF Find
    <3>2. req'[r].op = "get"
      BY <1>1, <1>7, <3>1 DEF Find, Reads, TypeOK
    <3>3. QED
      BY <1>1, <1>7, <3>2 DEF Find, Writing, Doing, TypeOK
  <2>2. QED
    BY <1>7, <2>1, NothingRecorded DEF Find
<1>8. ASSUME NEW r \in Requests, Stamp(r) \/ Start(r)
      PROVE  Dated' /\ RecordedWhileActive'
  <2>1. r \in Writing /\ req[r] \in Writes
    BY <1>1, <1>8, Kinds DEF Stamp, Start
  <2>2. UNCHANGED <<session, closed, created, snapshots>>
    BY <1>8 DEF Stamp, Start
  <2>3. RecordedWhileActive'
    BY <1>1, <2>2 DEF RecordedWhileActive, IsActive
  <2>4. /\ clock' \in Nat /\ clock' >= clock
        /\ \A q \in Requests \ {r} : req'[q] = req[q]
    BY <1>1, <1>2, <1>8 DEF Stamp, Start, TakeStamp, Now, TypeOK
  <2>5. req'[r].at <= clock' /\ (req'[r].allowed => During(req'[r].at))
    <3>1. CASE Stamp(r)
      <4>1. ~ req[r].allowed
        BY <1>1, <1>2, <2>1, <3>1 DEF Stamp, TypeInv, Shape, Begun
      <4>2. req'[r].at = clock + 1 /\ ~ req'[r].allowed
        BY <1>1, <2>1, <3>1, <4>1 DEF Stamp, Now, TypeOK, Writes
      <4>3. QED
        BY <1>2, <3>1, <4>2 DEF Stamp, TakeStamp, Now
    <3>2. CASE Start(r)
      <4>1. During(req[r].at)
        BY <1>2, <3>2 DEF Start, IsActive, During
      <4>2. req'[r].at = req[r].at
        BY <1>1, <2>1, <3>2 DEF Start, TypeOK, Writes
      <4>3. QED
        BY <1>1, <2>1, <3>2, <4>1, <4>2 DEF Start, Dated
    <3>3. QED
      BY <1>8, <3>1, <3>2
  <2>6. Dated'
    <3>1. \A q \in Writing' \ {r} : q \in Writing
      BY <2>4 DEF Writing, Doing
    <3>2. \A q \in Writing' \ {r} :
            req'[q].at <= clock' /\ (req'[q].allowed => During(req'[q].at))
      BY <1>1, <1>2, <2>4, <3>1 DEF Dated, Writing, Doing
    <3>3. closed' <= clock' /\ \A row \in snapshots : row.at <= clock'
      BY <1>1, <1>2, <2>2, <2>4 DEF Dated
    <3>4. QED
      BY <2>2, <2>5, <3>2, <3>3 DEF Dated, During, IsActive
  <2>7. QED
    BY <2>3, <2>6
<1>9. ASSUME NEW r \in Requests, Commit(r) \/ Fail(r)
      PROVE  Dated' /\ RecordedWhileActive'
  <2>1. UNCHANGED <<clock, session, closed, created>>
    BY <1>9 DEF Commit, Fail, Closes
  <2>2. \A q \in Writing' : q \in Writing /\ req'[q] = req[q]
    BY <1>1, <1>9 DEF Commit, Fail, Closes, Idle, Writing, Doing, TypeOK
  <2>3. CASE Commit(r)
    <3>1. Row(r).at <= clock /\ During(Row(r).at)
      BY <1>1, <2>3 DEF Commit, Row, Dated
    <3>2. snapshots' = snapshots \union {Row(r)}
      BY <2>3 DEF Commit
    <3>3. QED
      BY <1>1, <2>1, <2>2, <3>1, <3>2 DEF Dated, During, IsActive, RecordedWhileActive
  <2>4. CASE Fail(r)
    BY <2>1, <2>2, <2>4, NothingRecorded DEF Fail
  <2>5. QED
    BY <1>9, <2>3, <2>4
<1>10. CASE UNCHANGED vars
  BY <1>10, NothingRecorded DEF vars, Writing, Doing
<1>11. QED
  BY <1>3, <1>4, <1>5, <1>6, <1>7, <1>8, <1>9, <1>10 DEF Next, Serve

\* Whatever overlaps and however long a run takes, once the interview is not
\* active all that a candidate's request has stored was begun
\* before the commit that ended it or set it back (_require_active,
\* routers_workspace.py:382-384).
THEOREM RecordsAreOfTheInterview == Spec => []RecordedWhileActive
<1>1. Init => RecordedInv
  BY TypeInit, RecordedInit DEF RecordedInv
<1>2. RecordedInv /\ [Next]_vars => RecordedInv'
  BY TypeNext, RecordedNext DEF RecordedInv
<1>3. RecordedInv => RecordedWhileActive
  BY DEF RecordedInv
<1>4. QED
  BY <1>1, <1>2, <1>3, PTL DEF Spec

-----------------------------------------------------------------------------
(* Text stays with its task.                                               *)

\* A text for a task is text of it, but for the tasks on which code of another
\* was used.
Proper(t, text) == t \in misread \/ text.task = t

\* Of every write, and of every code on its way to the page.
Fits(r) ==
  /\ r \in Writing => Proper(req[r].task, req[r].source)
  /\ r \in Doing("get") /\ req[r].source # None => Proper(req[r].task, req[r].source)

\* The editor's text goes with the code that came last, the timer with its own.
PageFits ==
  /\ page.task # None => Proper(page.code, page.source)
  /\ page.timer # None => Proper(page.timer.task, page.timer.source)

RowsFit == \A row \in snapshots \union executions : Proper(row.task, row.source)

Fit == PageFits /\ RowsFit /\ \A r \in Requests : Fits(r)

TextInv == TypeInv /\ Fit

\* The page opens empty.
LEMMA TextInit == Init => TextInv
<1> SUFFICES ASSUME Init PROVE TextInv
  OBVIOUS
<1>1. PageFits /\ RowsFit
  BY DEF Init, PageFits, RowsFit
<1>2. \A r \in Requests : Fits(r)
  BY DEF Init, Fits, Writing, Doing, Idle
<1>3. QED
  BY <1>1, <1>2, TypeInit DEF TextInv, Fit

\* Steps of the interview, its staff and the endpoints use no text on a task.
LEMMA TextServed ==
  ASSUME TextInv,
         \/ Begin \/ End \/ SetBack \/ UNCHANGED vars
         \/ \E t \in Tasks : CreateTask(t)
         \/ \E r \in Requests : Serve(r)
  PROVE  Fit'
<1>1. TypeInv /\ TypeOK /\ Fit
  BY DEF TextInv, TypeInv
<1>2. misread' = misread
  BY DEF Begin, End, SetBack, Becomes, vars, CreateTask, Serve, Find, Stamp, Start,
         Commit, Fail, Closes
<1>4. CASE Begin \/ End \/ SetBack \/ UNCHANGED vars
  <2>1. UNCHANGED <<page, req, snapshots, executions>>
    BY <1>4 DEF Begin, End, SetBack, Becomes, vars
  <2>2. QED
    BY <1>1, <1>2, <2>1 DEF Fit, PageFits, RowsFit, Fits, Proper, Writing, Doing
<1>5. ASSUME NEW t \in Tasks, CreateTask(t)
      PROVE  Fit'
  <2>1. UNCHANGED <<page, req, executions>>
    BY <1>5 DEF CreateTask
  <2>2. \A row \in snapshots' : row \in snapshots \/ row.source.task = row.task
    BY <1>5 DEF CreateTask, Starter
  <2>3. RowsFit'
    BY <1>1, <1>2, <2>1, <2>2 DEF Fit, RowsFit, Proper
  <2>4. QED
    BY <1>1, <1>2, <2>1, <2>3 DEF Fit, PageFits, Fits, Proper, Writing, Doing
<1>6. ASSUME NEW r \in Requests, Find(r)
      PROVE  Fit'
  <2>1. r \in Doing("get") /\ req[r] \in Reads
    BY <1>1, <1>6, Kinds DEF Find
  <2>2. /\ UNCHANGED <<page, snapshots, executions>>
        /\ req' = [req EXCEPT ![r] =
                     [req[r] EXCEPT !.source = Latest(req[r].task)]]
    BY <1>6, Zenon DEF Find
  <2>3. PICK s \in snapshots : s.task = req[r].task /\ Latest(req[r].task) = s.source
    <3>1. req[r].task \in Created
      BY <1>1, <2>1 DEF TypeInv, Shape
    <3>2. PICK row \in snapshots : row.task = req[r].task
      BY <1>1, <3>1 DEF TypeInv, Shape
    <3>3. QED
      BY <1>1, <3>1, <3>2, LatestIsStored DEF Created
  <2>4. Proper(req[r].task, Latest(req[r].task))
    BY <1>1, <2>3 DEF Fit, RowsFit
  <2>5. /\ req'[r].op = "get" /\ req'[r].task = req[r].task
        /\ req'[r].source = Latest(req[r].task)
        /\ \A q \in Requests \ {r} : req'[q] = req[q]
    BY <1>1, <2>1, <2>2 DEF Reads, TypeOK
  <2>6. Fits(r)'
    BY <1>2, <2>4, <2>5 DEF Fits, Proper, Writing, Doing
  <2>7. \A q \in Requests \ {r} : Fits(q)'
    BY <1>1, <1>2, <2>5 DEF Fit, Fits, Proper, Writing, Doing
  <2>8. PageFits' /\ RowsFit'
    BY <1>1, <1>2, <2>2 DEF Fit, PageFits, RowsFit, Proper
  <2>9. QED
    BY <2>6, <2>7, <2>8 DEF Fit
<1>7. ASSUME NEW r \in Requests, Stamp(r) \/ Start(r)
      PROVE  Fit'
  <2>1. r \in Writing /\ req[r] \in Writes
    BY <1>1, <1>7, Kinds DEF Stamp, Start
  <2>2. UNCHANGED <<page, snapshots, executions>>
    BY <1>7 DEF Stamp, Start
  <2>3. /\ req'[r].op = req[r].op /\ req'[r].task = req[r].task
        /\ req'[r].source = req[r].source
        /\ \A q \in Requests \ {r} : req'[q] = req[q]
    BY <1>1, <1>7, <2>1 DEF Stamp, Start, TypeOK, Writes
  <2>4. \A q \in Requests : Fits(q)'
    BY <1>1, <1>2, <2>3 DEF Fit, Fits, Proper, Writing, Doing
  <2>5. PageFits' /\ RowsFit'
    BY <1>1, <1>2, <2>2 DEF Fit, PageFits, RowsFit, Proper
  <2>6. QED
    BY <2>4, <2>5 DEF Fit
<1>8. ASSUME NEW r \in Requests, Commit(r) \/ Fail(r)
      PROVE  Fit'
  <2>1. Closes(r)
    BY <1>8 DEF Commit, Fail
  <2>2. /\ page'.task = page.task /\ page'.source = page.source
        /\ page'.timer = page.timer /\ page'.code = page.code
    BY <1>1, <2>1 DEF Closes, TypeOK, Pages
  <2>3. \A q \in Requests : req'[q] = IF q = r THEN Idle ELSE req[q]
    BY <1>1, <2>1 DEF Closes, TypeOK
  <2>4. \A row \in snapshots' \union executions' :
          \/ row \in snapshots \union executions
          \/ Commit(r) /\ row = Row(r)
    BY <1>8 DEF Commit, Fail
  <2>5. Commit(r) => Proper(Row(r).task, Row(r).source)
    BY <1>1 DEF Commit, Fit, Fits, Row
  <2>6. RowsFit'
    BY <1>1, <1>2, <2>4, <2>5 DEF Fit, RowsFit, Proper
  <2>7. PageFits'
    BY <1>1, <1>2, <2>2 DEF Fit, PageFits, Proper
  <2>8. \A q \in Requests : Fits(q)'
    BY <1>1, <1>2, <2>3 DEF Fit, Fits, Proper, Idle, Writing, Doing
  <2>9. QED
    BY <2>6, <2>7, <2>8 DEF Fit
<1>9. QED
  BY <1>4, <1>5, <1>6, <1>7, <1>8 DEF Serve

\* Text moves from row to editor to timer to request with its task.
LEMMA TextNext == TextInv /\ [Next]_vars => TextInv'
<1> SUFFICES ASSUME TextInv, [Next]_vars PROVE Fit'
  BY TypeNext DEF TextInv
<1>1. TypeInv /\ TypeOK /\ Fit
  BY DEF TextInv, TypeInv
<1>3. CASE Type
  <2>1. /\ UNCHANGED <<snapshots, executions, req>> /\ page.task # None
        /\ misread' = misread \union ({page.task} \ {page.code})
    BY <1>3 DEF Type, Uses
  <2>2. PICK text \in Texts :
          /\ text.task = page.source.task
          /\ page' = [page EXCEPT !.source = text,
                                  !.timer = [task |-> page.task, source |-> text]]
    BY <1>3 DEF Type
  <2>3. /\ page'.code = page.code /\ page'.source = text
        /\ page'.timer.task = page.task /\ page'.timer.source = text
    BY <1>1, <2>2 DEF TypeOK, Pages
  <2>4. page.code \in misread \/ text.task = page.code
    BY <1>1, <2>1, <2>2 DEF Fit, PageFits, Proper
  <2>5. page.task \in misread' \/ text.task = page.task
    BY <2>1, <2>4
  <2>6. PageFits'
    BY <2>1, <2>3, <2>4, <2>5 DEF PageFits, Proper
  <2>7. RowsFit' /\ \A q \in Requests : Fits(q)'
    BY <1>1, <2>1 DEF Fit, RowsFit, Fits, Proper, Writing, Doing
  <2>8. QED
    BY <2>6, <2>7 DEF Fit
<1>4. ASSUME NEW r \in Requests, NEW t \in Tasks, Open(r, t)
      PROVE  Fit'
  <2>1. /\ UNCHANGED <<snapshots, executions, misread>> /\ page'.code = t
        /\ page'.source = Starter(t) /\ page'.timer = None
    BY <1>4 DEF Open
  <2>2. PageFits' /\ RowsFit'
    BY <1>1, <2>1 DEF Fit, PageFits, RowsFit, Starter, Proper
  <2>3. ASSUME NEW q \in Requests
        PROVE  Fits(q)'
    <3>1. CASE q = r
      BY <1>4, <3>1 DEF Open, Fits, Get, Writing, Doing
    <3>2. CASE q # r /\ req[q].op = "get"
      BY <1>4, <3>2 DEF Open, Fits, Idle, Writing, Doing
    <3>3. CASE q # r /\ req[q].op # "get"
      <4>1. req'[q] = req[q]
        BY <1>4, <3>3 DEF Open
      <4>2. QED
        BY <1>1, <2>1, <4>1 DEF Fit, Fits, Proper, Writing, Doing
    <3>4. QED
      BY <3>1, <3>2, <3>3
  <2>4. QED
    BY <2>2, <2>3 DEF Fit
<1>5. ASSUME NEW r \in Requests, NEW t \in Tasks, Switch(r, t)
      PROVE  Fit'
  <2>1. /\ UNCHANGED <<snapshots, executions, misread>> /\ page.task # None
        /\ page'.code = page.code /\ page'.source = page.source /\ page'.timer = None
        /\ req' = [req EXCEPT ![r] = Get(t)]
    BY <1>1, <1>5 DEF Switch, TypeOK, Pages
  <2>2. PageFits' /\ RowsFit'
    BY <1>1, <2>1 DEF Fit, PageFits, RowsFit, Proper
  <2>3. req'[r] = Get(t) /\ \A q \in Requests \ {r} : req'[q] = req[q]
    BY <1>1, <2>1 DEF TypeOK
  <2>4. Fits(r)'
    BY <2>3 DEF Fits, Get, Writing, Doing
  <2>5. \A q \in Requests \ {r} : Fits(q)'
    BY <1>1, <2>1, <2>3 DEF Fit, Fits, Proper, Writing, Doing
  <2>6. QED
    BY <2>2, <2>4, <2>5 DEF Fit
<1>6. ASSUME NEW r \in Requests, Save(r) \/ Run(r)
      PROVE  Fit'
  <2>1. misread \subseteq misread' /\ UNCHANGED <<snapshots, executions>>
    BY <1>6 DEF Save, Run, Send, Uses
  <2>2. PICK op, task, source :
          /\ op \in {"save", "run"} /\ Send(r, op, task, source)
          /\ task \in misread' \/ source.task = task
    <3>1. CASE Save(r)
      BY <1>1, <2>1, <3>1 DEF Save, Fit, PageFits, Proper
    <3>2. CASE Run(r)
      <4>1. page.code \in misread \/ page.source.task = page.code
        BY <1>1, <3>2 DEF Run, Fit, PageFits, Proper
      <4>2. page.task \in misread' \/ page.source.task = page.task
        BY <2>1, <3>2, <4>1 DEF Run, Uses
      <4>3. QED
        BY <3>2, <4>2 DEF Run
    <3>3. QED
      BY <1>6, <3>1, <3>2
  <2>3. /\ page'.task = page.task /\ page'.source = page.source
        /\ page'.code = page.code /\ page'.timer \in {None, page.timer}
    BY <1>1, <1>6 DEF Save, Run, TypeOK, Pages
  <2>4. PageFits' /\ RowsFit'
    BY <1>1, <2>1, <2>3 DEF Fit, PageFits, RowsFit, Proper
  <2>5. /\ req'[r].op = op /\ req'[r].task = task /\ req'[r].source = source
        /\ \A q \in Requests \ {r} : req'[q] = req[q]
    BY <1>1, <2>2 DEF Send, TypeOK
  <2>6. Fits(r)'
    BY <2>2, <2>5 DEF Fits, Proper, Writing, Doing
  <2>7. \A q \in Requests \ {r} : Fits(q)'
    BY <1>1, <2>1, <2>5 DEF Fit, Fits, Proper, Writing, Doing
  <2>8. QED
    BY <2>4, <2>6, <2>7 DEF Fit
<1>7. ASSUME NEW r \in Requests, Arrive(r)
      PROVE  Fit'
  <2>1. /\ UNCHANGED <<snapshots, executions, misread>>
        /\ r \in Doing("get") /\ req[r].source # None
        /\ page'.timer = page.timer
        /\ page'.source = req[r].source /\ page'.code = req[r].task
    BY <1>1, <1>7 DEF Arrive, TypeOK, Pages
  <2>2. Proper(req[r].task, req[r].source)
    BY <1>1, <2>1 DEF Fit, Fits
  <2>3. PageFits' /\ RowsFit'
    BY <1>1, <2>1, <2>2 DEF Fit, PageFits, RowsFit, Proper
  <2>4. req'[r] = Idle /\ \A q \in Requests \ {r} : req'[q] = req[q]
    BY <1>1, <1>7 DEF Arrive, TypeOK
  <2>5. Fits(r)'
    BY <2>4 DEF Fits, Idle, Writing, Doing
  <2>6. \A q \in Requests \ {r} : Fits(q)'
    BY <1>1, <2>1, <2>4 DEF Fit, Fits, Proper, Writing, Doing
  <2>7. QED
    BY <2>3, <2>5, <2>6 DEF Fit
<1>8. QED
  BY <1>3, <1>4, <1>5, <1>6, <1>7, TextServed DEF Next, Editor

\* Text of a task gets under another task only where the candidate used the
\* editor while the code of another task was in it, however tasks are chosen,
\* answers arrive, timers fire and runs commit (Workspace.tsx:176-195).
THEOREM TextIsOfItsTask == Spec => []TextStaysWithItsTask
<1>1. TextInv => TextStaysWithItsTask
  BY DEF TextInv, Fit, RowsFit, Proper, TextStaysWithItsTask
<1>2. QED
  BY <1>1, TextInit, TextNext, PTL DEF Spec

-----------------------------------------------------------------------------
(* Nothing that was typed is lost, as long as nothing went wrong.          *)

\* The rows that are stored and those that will be: a write has its stamp from
\* the moment its transaction begins.
Stamped == snapshots \union {Row(r) : r \in {q \in Writing : req[q].at > 0}}

\* The writes that will be stamped after all of those.
NotYet == {q \in Writing : req[q].at = 0}

\* A row, or a write, holds text of its task, no younger than what was typed.
Faithful(s) == s.source.task = s.task /\ s.source.edit <= typed[s.task].edit

\* The stamps of a task are in the order in which its texts were typed.
InTurn ==
  /\ \A x \in Stamped : x.at <= clock /\ Faithful(x)
  /\ \A x, y \in Stamped :
       x.task = y.task /\ x.at <= y.at => x.source.edit <= y.source.edit
  /\ \A x \in Stamped, q \in NotYet :
       x.task = req[q].task => x.source.edit <= req[q].source.edit

\* What was typed last for a task waits for the timer, is on its way in a save
\* or is stored.
Keeps(t) ==
  \/ page.timer # None /\ page.timer.task = t
  \/ \E r \in Doing("save") : req[r].task = t /\ req[r].source = typed[t]
  \/ \E s \in snapshots : s.task = t /\ s.source = typed[t]

\* The page shows what was typed last, once the code has arrived; until then
\* it has nothing to send, and the code on its way is what was typed last.
Shown ==
  /\ Loading => Writing = {} /\ page.timer = None
  /\ \A r \in Doing("get") :
       req[r].task = page.task /\ req[r].source \in {None, typed[page.task]}
  /\ page.task # None /\ ~ Loading => page.source = typed[page.task]
  /\ page.timer # None =>
       page.timer.task = page.task /\ page.timer.source = typed[page.task]
  /\ \A r \in Writing : req[r].task = page.task /\ Faithful(req[r])

\* Text is typed for tasks that exist, and nothing is stored for others.
TypedText ==
  /\ \A t \in Tasks : typed[t].task = t
  /\ \A t \in Tasks \ Created : typed[t] = Starter(t)
  /\ \A s \in snapshots : s.task \in Created

Lossless == InTurn /\ (\A t \in Created : Keeps(t)) /\ Shown /\ TypedText

LosslessInv == TypeInv /\ (excuse = {} => Lossless)

\* Nothing is typed when the page opens.
LEMMA LosslessInit == Init => LosslessInv
<1> SUFFICES ASSUME Init PROVE Lossless
  BY TypeInit DEF LosslessInv
<1>1. Writing = {} /\ Doing("get") = {} /\ Created = {} /\ snapshots = {}
  BY DEF Init, Writing, Doing, Created, Idle
<1>2. Stamped = {} /\ NotYet = {}
  BY <1>1 DEF Stamped, NotYet
<1>3. InTurn
  BY <1>2 DEF InTurn
<1>4. Shown
  BY <1>1 DEF Init, Shown
<1>5. TypedText
  BY <1>1 DEF Init, TypedText, Starter
<1>6. QED
  BY <1>1, <1>3, <1>4, <1>5 DEF Lossless

\* Nothing to blame has happened if there is nothing to blame.
LEMMA NothingBlamed ==
  ASSUME NEW conditions, Blamed(conditions), excuse' = {}
  PROVE  excuse = {} /\ \A e \in Excuses : ~ conditions[e]
BY DEF Blamed

\* Texts, and the rows that are stamped.
LEMMA TextTypes ==
  ASSUME TypeInv
  PROVE  /\ \A text \in Texts : text.edit \in Nat /\ text.task \in Tasks
         /\ \A t \in Tasks : typed[t] \in Texts
         /\ \A t \in Tasks : Starter(t) \in Texts
         /\ clock \in Nat
         /\ Stamped \subseteq Rows
         /\ \A x \in Rows : x.task \in Tasks /\ x.source \in Texts /\ x.at \in Nat
<1>1. {MaxEdits, MaxStamp} \subseteq Nat
  BY BoundsAssumption
<1>2. \A r \in Writing : req[r].at > 0 => Row(r) \in Rows
  <2> SUFFICES ASSUME NEW r \in Writing, req[r].at > 0
               PROVE  Row(r) \in Rows
    OBVIOUS
  <2>1. req[r].task \in Tasks /\ req[r].source \in Texts /\ req[r].at \in 0 .. MaxStamp
    BY Kinds DEF TypeInv, Writing, Doing
  <2>2. req[r].at \in 1 .. MaxStamp
    BY <1>1, <2>1
  <2>3. QED
    BY <2>1, <2>2 DEF Row, Rows
<1>3. Stamped \subseteq Rows
  BY <1>2 DEF Stamped, TypeInv, TypeOK
<1>4. clock \in Nat /\ \A t \in Tasks : typed[t] \in Texts
  BY <1>1 DEF TypeInv, TypeOK
<1>5. QED
  BY <1>1, <1>3, <1>4 DEF Texts, Rows, Starter

\* What is shown of a task that has the text typed last stored is that text.
LEMMA LatestIsTyped ==
  ASSUME TypeInv, InTurn, TypedText, NEW t \in Tasks,
         NEW s \in snapshots, s.task = t, s.source = typed[t]
  PROVE  Latest(t) = typed[t]
<1>1. PICK last \in snapshots :
        /\ last.task = t /\ Latest(t) = last.source
        /\ \A o \in snapshots : o.task = t => o.at <= last.at
  BY LatestIsStored DEF TypeInv
<1>2. s \in Stamped /\ last \in Stamped
  BY DEF Stamped
<1>3. s.source.edit <= last.source.edit
  BY <1>1, <1>2 DEF InTurn
<1>4. last.source.task = t /\ last.source.edit <= typed[t].edit
  BY <1>1, <1>2 DEF InTurn, Faithful
<1>5. last.source \in Texts /\ typed[t] \in Texts
  BY <1>2, TextTypes
<1>6. last.source.edit = typed[t].edit
  BY <1>3, <1>4, <1>5, TextTypes
<1>7. typed[t].task = t
  BY DEF TypedText
<1>8. last.source = typed[t]
  BY <1>4, <1>5, <1>6, <1>7 DEF Texts
<1>9. QED
  BY <1>1, <1>8

\* The order is kept by steps that stamp nothing, and send only what was typed
\* last.
LEMMA TurnsKept ==
  ASSUME TypeInv, InTurn, clock <= clock', clock' \in Nat,
         snapshots' \subseteq Stamped,
         \A q \in Writing' : req'[q].at > 0 =>
           /\ q \in Writing /\ req'[q].at = req[q].at
           /\ req'[q].task = req[q].task /\ req'[q].source = req[q].source,
         \A t \in Tasks : typed'[t].edit \in Nat /\ typed[t].edit <= typed'[t].edit,
         \A q \in Writing' : req'[q].at = 0 =>
           \/ q \in Writing /\ req'[q] = req[q]
           \/ req'[q].task \in Tasks /\ req'[q].source = typed[req'[q].task]
  PROVE  InTurn'
<1>1. Stamped' \subseteq Stamped
  BY DEF Stamped, Row
<1>2. /\ \A x \in Stamped : /\ x.task \in Tasks /\ x.source \in Texts /\ x.at \in Nat
                            /\ x.source.edit \in Nat
      /\ \A t \in Tasks : typed[t].edit \in Nat
      /\ clock \in Nat
  BY TextTypes
<1>3. ASSUME NEW x \in Stamped' PROVE x.at <= clock' /\ Faithful(x)'
  <2>1. x \in Stamped /\ x.at <= clock /\ Faithful(x)
    BY <1>1 DEF InTurn
  <2>2. x.at <= clock'
    BY <1>2, <2>1
  <2>3. x.source.edit <= typed'[x.task].edit
    BY <1>2, <2>1 DEF Faithful
  <2>4. QED
    BY <2>1, <2>2, <2>3 DEF Faithful
<1>4. ASSUME NEW x \in Stamped', NEW q \in NotYet', x.task = req'[q].task
      PROVE  x.source.edit <= req'[q].source.edit
  <2>1. x \in Stamped /\ x.source.edit <= typed[x.task].edit
    BY <1>1 DEF InTurn, Faithful
  <2>2. CASE q \in Writing /\ req'[q] = req[q]
    BY <1>4, <2>1, <2>2 DEF NotYet, InTurn
  <2>3. CASE req'[q].task \in Tasks /\ req'[q].source = typed[req'[q].task]
    BY <1>4, <2>1, <2>3
  <2>4. QED
    BY <2>2, <2>3 DEF NotYet
<1>5. \A x, y \in Stamped' :
        x.task = y.task /\ x.at <= y.at => x.source.edit <= y.source.edit
  BY <1>1 DEF InTurn
<1>6. QED
  BY <1>3, <1>4, <1>5 DEF InTurn

\* The interview's requests commit.
LEMMA LosslessTime ==
  ASSUME TypeInv, Lossless, Begin \/ End \/ SetBack \/ UNCHANGED vars
  PROVE  Lossless'
<1>1. UNCHANGED <<clock, created, snapshots, page, req, typed>>
  BY DEF Begin, End, SetBack, Becomes, vars
<1>2. clock' \in Nat /\ clock <= clock'
  BY <1>1, TextTypes
<1>3. /\ Created' = Created /\ Writing' = Writing /\ (Loading' <=> Loading)
      /\ Doing("save")' = Doing("save") /\ Doing("get")' = Doing("get")
  BY <1>1 DEF Created, Writing, Loading, Doing
<1>4. InTurn'
  <2>1. \A t \in Tasks : typed'[t].edit \in Nat /\ typed[t].edit <= typed'[t].edit
    BY <1>1, TextTypes
  <2>2. snapshots' \subseteq Stamped
    BY <1>1 DEF Stamped
  <2>3. QED
    BY <1>1, <1>2, <1>3, <2>1, <2>2, TurnsKept DEF Lossless
<1>5. \A t \in Created' : Keeps(t)'
  BY <1>1, <1>3 DEF Lossless, Keeps
<1>6. Shown' /\ TypedText'
  BY <1>1, <1>3 DEF Lossless, Shown, TypedText, Faithful
<1>7. QED
  BY <1>4, <1>5, <1>6 DEF Lossless

\* A task is added, with its starter code.
LEMMA LosslessCreate ==
  ASSUME TypeInv, Lossless, NEW t \in Tasks, CreateTask(t)
  PROVE  Lossless'
<1> DEFINE row == [task |-> t, source |-> Starter(t), at |-> Now]
<1>1. /\ clock' = clock + 1 /\ Now = clock + 1 /\ clock \in Nat /\ t \notin Created
      /\ snapshots' = snapshots \union {row} /\ created' = [created EXCEPT ![t] = Now]
      /\ UNCHANGED <<page, req, typed>>
  BY TextTypes DEF CreateTask, TakeStamp, Now
<1>2. /\ Writing' = Writing /\ (Loading' <=> Loading)
      /\ Doing("save")' = Doing("save") /\ Doing("get")' = Doing("get")
  BY <1>1 DEF Writing, Loading, Doing
<1>3. Created' = Created \union {t}
  BY <1>1 DEF Created, TypeInv, TypeOK
<1>4. typed[t] = Starter(t) /\ Starter(t).edit = 0 /\ Starter(t).task = t
  BY <1>1 DEF Lossless, TypedText, Starter
<1>5. \A r \in Writing : req[r].task # t
  <2>1. \A r \in Writing : req[r].task = page.task /\ req[r].task \in Tasks
    BY Kinds DEF Lossless, Shown, TypeInv, Writing, Doing
  <2>2. page.task \in Created \union {None}
    BY DEF TypeInv, Shape
  <2>3. QED
    BY <1>1, <2>1, <2>2, NoneAssumption
<1>6. \A x \in Stamped : x.task # t
  <2>1. \A s \in snapshots : s.task # t
    BY <1>1 DEF Lossless, TypedText
  <2>2. \A r \in Writing : Row(r).task # t
    BY <1>5 DEF Row
  <2>3. QED
    BY <2>1, <2>2 DEF Stamped
<1>7. Stamped' = Stamped \union {row} /\ NotYet' = NotYet
  BY <1>1, <1>2 DEF Stamped, NotYet, Row
<1>8. row.task = t /\ row.source.task = t /\ row.source.edit = 0 /\ row.at = clock + 1
  BY <1>1, <1>4
<1>9. \A x \in Stamped : x.at <= clock /\ x.at \in Nat /\ Faithful(x)
  BY TextTypes DEF Lossless, InTurn
<1> HIDE DEF row
<1>10. InTurn'
  <2>1. \A x \in Stamped' : x.at <= clock' /\ Faithful(x)'
    BY <1>1, <1>4, <1>7, <1>8, <1>9 DEF Faithful
  <2>2. ASSUME NEW x \in Stamped', NEW y \in Stamped', x.task = y.task, x.at <= y.at
        PROVE  x.source.edit <= y.source.edit
    <3>1. CASE x \in Stamped /\ y \in Stamped
      BY <2>2, <3>1 DEF Lossless, InTurn
    <3>2. CASE x = row /\ y = row
      BY <1>8, <3>2
    <3>3. QED
      BY <1>6, <1>7, <1>8, <2>2, <3>1, <3>2
  <2>3. ASSUME NEW x \in Stamped', NEW q \in NotYet', x.task = req'[q].task
        PROVE  x.source.edit <= req'[q].source.edit
    <3>1. q \in NotYet /\ req'[q] = req[q] /\ req[q].task # t
      BY <1>1, <1>5, <1>7 DEF NotYet
    <3>2. x \in Stamped
      BY <1>7, <1>8, <2>3, <3>1
    <3>3. QED
      BY <2>3, <3>1, <3>2 DEF Lossless, InTurn
  <2>4. QED
    BY <2>1, <2>2, <2>3 DEF InTurn
<1>11. \A o \in Created' : Keeps(o)'
  <2>1. \A o \in Created : Keeps(o)'
    BY <1>1, <1>2 DEF Lossless, Keeps
  <2>2. row.source = typed[t]
    BY <1>4 DEF row
  <2>3. Keeps(t)'
    BY <1>1, <1>8, <2>2 DEF Keeps
  <2>4. QED
    BY <1>3, <2>1, <2>3
<1>12. Shown'
  BY <1>1, <1>2 DEF Lossless, Shown, Faithful
<1>13. TypedText'
  BY <1>1, <1>3, <1>8 DEF Lossless, TypedText
<1>14. QED
  BY <1>10, <1>11, <1>12, <1>13 DEF Lossless

\* A set of texts' numbers has a greatest one, so the next is not among them.
LEMMA MaxIsUpper ==
  ASSUME NEW S \in SUBSET (0 .. MaxEdits), S # {}
  PROVE  Max(S) \in S /\ \A x \in S : x <= Max(S)
<1>1. MaxEdits \in Nat
  BY BoundsAssumption
<1> DEFINE rests == {MaxEdits - x : x \in S}
<1>2. rests \in SUBSET Nat /\ rests # {}
  <2>1. \A x \in S : MaxEdits - x \in Nat
    BY <1>1
  <2>2. QED
    BY <2>1
<1>3. PICK y \in rests : \A z \in rests : y <= z
  <2> HIDE DEF rests
  <2> QED
    BY <1>2, LeastExists
<1>4. PICK m \in S : y = MaxEdits - m
  OBVIOUS
<1>5. \A x \in S : m >= x
  <2> TAKE x \in S
  <2>1. MaxEdits - m <= MaxEdits - x
    BY <1>3, <1>4
  <2>2. QED
    BY <1>1, <2>1
<1>6. Max(S) \in S /\ \A x \in S : Max(S) >= x
  BY <1>5 DEF Max
<1>7. QED
  BY <1>1, <1>6

\* A key is pressed.
LEMMA LosslessType ==
  ASSUME TypeInv, Lossless, Type, excuse' = {}
  PROVE  Lossless'
<1>1. ~ Loading
  <2>1. Blamed([NoBlame EXCEPT !["unread"] = Loading])
    BY DEF Type
  <2>2. [NoBlame EXCEPT !["unread"] = Loading]["unread"] = Loading /\ "unread" \in Excuses
    BY DEF NoBlame, Excuses
  <2>3. QED
    BY <2>1, <2>2, NothingBlamed
<1>2. page.task \in Created /\ page.task \in Tasks /\ page.task # None
  BY DEF Type, TypeInv, Shape, Created
<1> DEFINE edits == {typed[t].edit : t \in Tasks}
           text == [task |-> page.source.task, edit |-> Max(edits) + 1]
           save == [task |-> page.task, source |-> text]
<1>3. /\ text \in Texts
      /\ page' = [page EXCEPT !.source = text, !.timer = save]
      /\ typed' = [typed EXCEPT ![page.task] = text]
      /\ UNCHANGED <<clock, created, snapshots, req>>
  BY DEF Type
<1>4. text.task = page.task
  BY <1>1, <1>2 DEF Lossless, Shown, TypedText
<1>5. typed[page.task].edit <= text.edit /\ text.edit \in Nat
  <2>1. edits \in SUBSET (0 .. MaxEdits) /\ typed[page.task].edit \in edits
    BY <1>2, TextTypes DEF Texts
  <2>2. Max(edits) \in edits /\ typed[page.task].edit <= Max(edits)
    <3> HIDE DEF edits
    <3> QED
      BY <2>1, MaxIsUpper
  <2>3. Max(edits) \in Nat /\ typed[page.task].edit \in Nat
    BY <2>1, <2>2, BoundsAssumption
  <2> HIDE DEF edits
  <2>4. typed[page.task].edit <= text.edit /\ text.edit \in Nat
    BY <2>2, <2>3
  <2>5. QED
    BY <2>4
<1>6. /\ page'.task = page.task /\ page'.source = text /\ page'.timer # None
      /\ page'.timer.task = page.task /\ page'.timer.source = text
  <2>1. save \in Saves
    BY <1>2, <1>3 DEF Saves
  <2>2. save # None /\ save.task = page.task /\ save.source = text
    BY <2>1, NoneAssumption
  <2>3. page'.task = page.task /\ page'.source = text /\ page'.timer = save
    BY <1>3 DEF TypeInv, TypeOK, Pages
  <2>4. QED
    BY <2>2, <2>3
<1> HIDE DEF text, edits, save
<1>7. typed'[page.task] = text /\ \A t \in Tasks \ {page.task} : typed'[t] = typed[t]
  BY <1>2, <1>3 DEF TypeInv, TypeOK
<1>8. \A t \in Tasks : typed'[t].edit \in Nat /\ typed[t].edit <= typed'[t].edit
  BY <1>2, <1>5, <1>7, TextTypes
<1>9. /\ Created' = Created /\ Writing' = Writing /\ (Loading' <=> Loading)
      /\ Doing("save")' = Doing("save") /\ Doing("get")' = Doing("get")
  BY <1>3 DEF Created, Writing, Loading, Doing
<1>10. InTurn'
  <2>1. snapshots' \subseteq Stamped /\ clock' \in Nat /\ clock <= clock'
    BY <1>3, TextTypes DEF Stamped
  <2>2. QED
    BY <1>3, <1>8, <1>9, <2>1, TurnsKept DEF Lossless
<1>11. \A t \in Created' : Keeps(t)'
  <2> TAKE t \in Created'
  <2>1. CASE t = page.task
    BY <1>6, <2>1 DEF Keeps
  <2>2. CASE t # page.task
    BY <1>3, <1>6, <1>7, <1>9, <2>2 DEF Lossless, Shown, Keeps, Created
  <2>3. QED
    BY <2>1, <2>2
<1>12. Shown'
  <2>1. Doing("get") = {}
    BY <1>1 DEF Loading
  <2>2. ASSUME NEW r \in Writing'
        PROVE  req'[r].task = page'.task /\ Faithful(req[r])'
    <3>1. req'[r] = req[r] /\ req[r].task = page.task /\ Faithful(req[r])
      BY <1>3, <1>9 DEF Lossless, Shown
    <3>2. req[r].source \in Texts
      BY <1>9, Kinds DEF TypeInv, Writing, Doing
    <3>3. QED
      BY <1>2, <1>3, <1>6, <1>8, <3>1, <3>2, TextTypes DEF Faithful
  <2>3. QED
    BY <1>1, <1>3, <1>6, <1>7, <1>9, <2>1, <2>2 DEF Shown
<1>13. TypedText'
  BY <1>2, <1>3, <1>4, <1>7, <1>9 DEF Lossless, TypedText
<1>14. QED
  BY <1>10, <1>11, <1>12, <1>13 DEF Lossless

\* Another task is chosen, or the page loaded anew: nothing waited.
LEMMA LosslessLeave ==
  ASSUME TypeInv, Lossless, NEW r \in Requests, NEW t \in Tasks,
         Open(r, t) \/ Switch(r, t), excuse' = {}
  PROVE  Lossless'
<1>1. TypeOK
  BY DEF TypeInv
<1>2. page.timer = None /\ Writing = {} /\ (Open(r, t) \/ (Switch(r, t) /\ ~ Loading))
  <2> DEFINE here == [Leaving EXCEPT !["unread"] = Loading]
  <2>1. /\ Leaving["dropped"] = (page.timer # None) /\ Leaving["left"] = (Writing # {})
        /\ here["dropped"] = (page.timer # None) /\ here["left"] = (Writing # {})
        /\ here["unread"] = Loading
        /\ {"dropped", "left", "unread"} \subseteq Excuses
    BY DEF Leaving, NoBlame, Excuses
  <2>2. CASE Open(r, t)
    <3>1. Blamed(Leaving)
      BY <2>2 DEF Open
    <3>2. \A e \in Excuses : ~ Leaving[e]
      BY <3>1, NothingBlamed
    <3>3. QED
      BY <2>1, <2>2, <3>2
  <2>3. CASE Switch(r, t)
    <3>1. Blamed(here)
      BY <2>3 DEF Switch
    <3>2. \A e \in Excuses : ~ here[e]
      BY <3>1, NothingBlamed
    <3>3. QED
      BY <2>1, <3>2
  <2>4. QED
    BY <2>2, <2>3
<1>3. /\ UNCHANGED <<clock, created, snapshots, typed>>
      /\ page'.task = t /\ page'.timer = None
  <2>1. CASE Open(r, t)
    BY <2>1 DEF Open
  <2>2. CASE Switch(r, t)
    <3>1. page' = [page EXCEPT !.task = t, !.timer = None] /\ page \in Pages
      BY <1>1, <2>2 DEF Switch, TypeOK
    <3>2. page'.task = t /\ page'.timer = None
      BY <3>1 DEF Pages
    <3>3. QED
      BY <2>2, <3>2 DEF Switch
  <2>3. QED
    BY <2>1, <2>2
<1>4. req'[r] = Get(t) /\ \A q \in Requests \ {r} : req'[q].op \notin {"get", "save", "run"}
  <2>1. \A q \in Requests : req[q].op \notin {"save", "run"}
    BY <1>2 DEF Writing, Doing
  <2>2. CASE Open(r, t)
    BY <2>1, <2>2 DEF Open, Idle
  <2>3. CASE Switch(r, t) /\ ~ Loading
    BY <2>1, <2>3 DEF Switch, Loading, Doing, TypeInv, TypeOK
  <2>4. QED
    BY <1>2, <2>2, <2>3
<1>5. Writing' = {} /\ Doing("save")' = {} /\ Doing("get")' = {r} /\ Created' = Created
  BY <1>3, <1>4 DEF Writing, Doing, Get, Created
<1>6. InTurn'
  <2>1. snapshots' \subseteq Stamped /\ clock' \in Nat /\ clock <= clock'
    BY <1>3, TextTypes DEF Stamped
  <2>2. \A o \in Tasks : typed'[o].edit \in Nat /\ typed[o].edit <= typed'[o].edit
    BY <1>3, TextTypes
  <2>3. QED
    BY <1>5, <2>1, <2>2, TurnsKept DEF Lossless
<1>7. \A o \in Created' : Keeps(o)'
  <2>1. Doing("save") = {}
    BY <1>2 DEF Writing
  <2>2. \A o \in Created : \E s \in snapshots : s.task = o /\ s.source = typed[o]
    BY <1>2, <2>1 DEF Lossless, Keeps
  <2>3. QED
    BY <1>3, <1>5, <2>2 DEF Keeps
<1>8. Shown'
  <2>1. Loading'
    BY <1>5 DEF Loading
  <2>2. req'[r].task = page'.task /\ req'[r].source = None
    BY <1>3, <1>4 DEF Get
  <2>3. QED
    BY <1>3, <1>5, <2>1, <2>2 DEF Shown
<1>9. TypedText'
  BY <1>3, <1>5 DEF Lossless, TypedText
<1>10. QED
  BY <1>6, <1>7, <1>8, <1>9 DEF Lossless

\* A save or a run leaves the page.
LEMMA LosslessSend ==
  ASSUME TypeInv, Lossless, NEW r \in Requests, Save(r) \/ Run(r), excuse' = {}
  PROVE  Lossless'
<1>1. ~ Loading
  <2>1. CASE Save(r)
    BY <2>1 DEF Save, Lossless, Shown
  <2>2. CASE Run(r)
    <3>1. Blamed([NoBlame EXCEPT !["unread"] = Loading])
      BY <2>2 DEF Run
    <3>2. [NoBlame EXCEPT !["unread"] = Loading]["unread"] = Loading /\ "unread" \in Excuses
      BY DEF NoBlame, Excuses
    <3>3. QED
      BY <3>1, <3>2, NothingBlamed
  <2>3. QED
    BY <2>1, <2>2
<1>2. page.task \in Created /\ page.task \in Tasks /\ page.task # None
  BY DEF Save, Run, TypeInv, Shape, Created
<1>3. PICK op \in {"save", "run"} :
        /\ Send(r, op, page.task, typed[page.task])
        /\ op = "save" <=> page'.timer = None /\ page.timer # None
        /\ op = "run" => page'.timer = page.timer
        /\ page'.task = page.task /\ page'.source = page.source
  <2>1. CASE Save(r)
    BY <2>1 DEF Save, Lossless, Shown, TypeInv, TypeOK, Pages
  <2>2. CASE Run(r)
    BY <1>1, <1>2, <2>2 DEF Run, Lossless, Shown, TypeInv, TypeOK, Pages
  <2>3. QED
    BY <2>1, <2>2
<1>4. /\ r \in Idles /\ UNCHANGED <<clock, created, snapshots, typed>>
      /\ req'[r].op = op /\ req'[r].task = page.task
      /\ req'[r].source = typed[page.task] /\ req'[r].at = 0
      /\ \A q \in Requests \ {r} : req'[q] = req[q]
  BY <1>3 DEF Send, TypeInv, TypeOK
<1>5. /\ Created' = Created /\ Doing("get")' = {} /\ ~ Loading'
      /\ Writing' = Writing \union {r} /\ r \notin Writing
      /\ \A q \in Writing : req'[q] = req[q]
      /\ Doing("save") \subseteq Doing("save")'
      /\ op = "save" => r \in Doing("save")'
  BY <1>1, <1>4 DEF Created, Idles, Loading, Writing, Doing
<1>6. InTurn'
  <2>1. snapshots' \subseteq Stamped /\ clock' \in Nat /\ clock <= clock'
    BY <1>4, TextTypes DEF Stamped
  <2>2. \A o \in Tasks : typed'[o].edit \in Nat /\ typed[o].edit <= typed'[o].edit
    BY <1>4, TextTypes
  <2>3. \A q \in Writing' : req'[q].at > 0 => q \in Writing /\ req'[q] = req[q]
    BY <1>4, <1>5
  <2>4. \A q \in Writing' : req'[q].at = 0 =>
          \/ q \in Writing /\ req'[q] = req[q]
          \/ req'[q].task \in Tasks /\ req'[q].source = typed[req'[q].task]
    BY <1>2, <1>4, <1>5
  <2>5. QED
    BY <2>1, <2>2, <2>3, <2>4, TurnsKept DEF Lossless
<1>7. \A o \in Created' : Keeps(o)'
  <2> TAKE o \in Created'
  <2>1. Keeps(o)
    BY <1>5 DEF Lossless
  <2>2. CASE page.timer # None /\ page.timer.task = o
    <3>1. CASE op = "save"
      BY <1>4, <1>5, <2>2, <3>1 DEF Lossless, Shown, Keeps
    <3>2. CASE op = "run"
      BY <1>3, <2>2, <3>2 DEF Keeps
    <3>3. QED
      BY <3>1, <3>2
  <2>3. CASE \E q \in Doing("save") : req[q].task = o /\ req[q].source = typed[o]
    <3>1. PICK q \in Doing("save") : req[q].task = o /\ req[q].source = typed[o]
      BY <2>3
    <3>2. q \in Doing("save")' /\ req'[q] = req[q]
      BY <1>5 DEF Writing
    <3>3. QED
      BY <1>4, <3>1, <3>2 DEF Keeps
  <2>4. CASE \E s \in snapshots : s.task = o /\ s.source = typed[o]
    BY <1>4, <2>4 DEF Keeps
  <2>5. QED
    BY <2>1, <2>2, <2>3, <2>4 DEF Keeps
<1>8. Shown'
  <2>1. page'.source = typed[page.task]
    BY <1>1, <1>2, <1>3 DEF Lossless, Shown
  <2>2. page'.timer # None =>
          page'.timer.task = page.task /\ page'.timer.source = typed[page.task]
    BY <1>3 DEF Lossless, Shown
  <2>3. \A q \in Writing : req[q].task = page.task /\ Faithful(req[q])
    BY DEF Lossless, Shown
  <2>4. Faithful(req[r])'
    BY <1>2, <1>4, TextTypes DEF Lossless, TypedText, Faithful
  <2>5. \A q \in Writing : Faithful(req[q])'
    BY <1>4, <1>5, <2>3 DEF Faithful
  <2>6. QED
    BY <1>3, <1>4, <1>5, <2>1, <2>2, <2>3, <2>4, <2>5 DEF Shown
<1>9. TypedText'
  BY <1>4, <1>5 DEF Lossless, TypedText
<1>10. QED
  BY <1>6, <1>7, <1>8, <1>9 DEF Lossless

\* Code is looked up and arrives: it is what was typed last.
LEMMA LosslessRead ==
  ASSUME TypeInv, Lossless, NEW r \in Requests, Find(r) \/ Arrive(r)
  PROVE  Lossless'
<1>1. /\ r \in Doing("get") /\ Loading /\ req[r].task = page.task
      /\ Writing = {} /\ page.timer = None
  BY DEF Find, Arrive, Loading, Lossless, Shown
<1>2. page.task \in Created /\ page.task \in Tasks
  BY <1>1 DEF TypeInv, Shape, Created
<1>3. /\ UNCHANGED <<clock, created, snapshots, typed>>
      /\ page'.task = page.task /\ page'.timer = page.timer
  BY DEF Find, Arrive, TypeInv, TypeOK, Pages
<1>4. Created' = Created
  BY <1>3 DEF Created
<1>5. Doing("save") = {} /\ \A q \in Requests : req[q].op \notin {"save", "run"}
  BY <1>1 DEF Writing, Doing
<1>6. /\ \A q \in Requests : req'[q].op \notin {"save", "run"}
      /\ \A q \in Requests \ {r} : req'[q] = req[q]
  <2>1. req[r] \in Reads
    BY <1>1, Kinds DEF TypeInv
  <2>2. CASE Find(r)
    <3>1. req' = [req EXCEPT ![r] = [req[r] EXCEPT !.source = Latest(req[r].task)]]
      BY <2>2, Zenon DEF Find
    <3>2. [req[r] EXCEPT !.source = Latest(req[r].task)].op = "get"
      BY <2>1 DEF Reads
    <3>3. QED
      BY <1>5, <3>1, <3>2 DEF TypeInv, TypeOK
  <2>3. CASE Arrive(r)
    BY <1>5, <2>3 DEF Arrive, Idle, TypeInv, TypeOK
  <2>4. QED
    BY <2>2, <2>3
<1>7. Writing' = {} /\ Doing("save")' = {}
  BY <1>6 DEF Writing, Doing
<1>8. InTurn'
  <2>1. snapshots' \subseteq Stamped /\ clock' \in Nat /\ clock <= clock'
    BY <1>3, TextTypes DEF Stamped
  <2>2. \A o \in Tasks : typed'[o].edit \in Nat /\ typed[o].edit <= typed'[o].edit
    BY <1>3, TextTypes
  <2>3. QED
    BY <1>7, <2>1, <2>2, TurnsKept DEF Lossless
<1>9. \A o \in Created : \E s \in snapshots : s.task = o /\ s.source = typed[o]
  BY <1>1, <1>5 DEF Lossless, Keeps
<1>10. \A o \in Created' : Keeps(o)'
  BY <1>3, <1>4, <1>9 DEF Keeps
<1>11. Shown'
  <2>1. CASE Find(r)
    <3>1. Latest(page.task) = typed[page.task]
      BY <1>2, <1>9, LatestIsTyped DEF Lossless
    <3>2. req[r] \in Reads
      BY <1>1, Kinds DEF TypeInv
    <3>3. req' = [req EXCEPT ![r] = [req[r] EXCEPT !.source = Latest(req[r].task)]]
      BY <2>1, Zenon DEF Find
    <3>4. /\ req'[r].op = "get" /\ req'[r].task = page.task
          /\ req'[r].source = typed[page.task]
      BY <1>1, <3>1, <3>2, <3>3 DEF Reads, TypeInv, TypeOK
    <3>5. Loading' /\ \A q \in Doing("get")' : q = r \/ (q \in Doing("get") /\ req'[q] = req[q])
      BY <1>6, <3>4 DEF Loading, Doing
    <3>6. QED
      BY <1>1, <1>3, <1>7, <3>4, <3>5 DEF Lossless, Shown
  <2>2. CASE Arrive(r)
    <3>1. page'.source = req[r].source /\ req[r].source # None /\ req'[r] = Idle
      BY <2>2 DEF Arrive, TypeInv, TypeOK, Pages
    <3>2. page'.source = typed[page.task]
      BY <1>1, <3>1 DEF Lossless, Shown
    <3>3. \A q \in Doing("get")' : q \in Doing("get") /\ req'[q] = req[q]
      BY <1>6, <3>1 DEF Doing, Idle
    <3>4. QED
      BY <1>1, <1>3, <1>7, <3>2, <3>3 DEF Lossless, Shown
  <2>3. QED
    BY <2>1, <2>2
<1>12. TypedText'
  BY <1>3, <1>4 DEF Lossless, TypedText
<1>13. QED
  BY <1>8, <1>10, <1>11, <1>12 DEF Lossless

\* The writes that are on their way, once one of them has changed but not in
\* what it carries, or is done.
LEMMA SavesKept ==
  ASSUME TypeInv, Lossless, NEW r \in Requests, r \in Writing,
         UNCHANGED <<created, typed>>, snapshots \subseteq snapshots',
         page'.task = page.task, page'.source = page.source, page'.timer = page.timer,
         \A q \in Requests \ {r} : req'[q] = req[q],
         \/ /\ req'[r].op = req[r].op /\ req'[r].task = req[r].task
            /\ req'[r].source = req[r].source
         \/ /\ req'[r] = Idle
            /\ r \in Doing("save") => Row(r) \in snapshots',
         \A s \in snapshots' : s \in snapshots \/ s = Row(r)
  PROVE  Shown' /\ TypedText' /\ \A t \in Created' : Keeps(t)'
<1>1. Created' = Created /\ Doing("get")' = Doing("get") /\ Writing' \subseteq Writing
  BY DEF Created, Writing, Doing, Idle
<1>2. \A q \in Writing' : req'[q].task = req[q].task /\ req'[q].source = req[q].source
  BY DEF Writing, Doing, Idle
<1>3. \A q \in Doing("get") : req'[q] = req[q]
  BY DEF Writing, Doing
<1>4. Shown'
  <2>1. \A q \in Writing' : req'[q].task = page'.task /\ Faithful(req[q])'
    BY <1>1, <1>2 DEF Lossless, Shown, Faithful
  <2>2. Loading' <=> Loading
    BY <1>1 DEF Loading
  <2>3. QED
    BY <1>1, <1>3, <2>1, <2>2 DEF Lossless, Shown
<1>5. TypedText'
  <2>1. Row(r).task = page.task /\ page.task \in Created
    <3>1. req[r].task = page.task /\ req[r].task \in Tasks
      BY Kinds DEF Lossless, Shown, TypeInv
    <3>2. page.task \in Created \union {None} /\ page.task # None
      BY <3>1, NoneAssumption DEF TypeInv, Shape
    <3>3. QED
      BY <3>1, <3>2 DEF Row
  <2>2. QED
    BY <1>1, <2>1 DEF Lossless, TypedText
<1>6. ASSUME NEW t \in Created' PROVE Keeps(t)'
  <2>1. Keeps(t)
    BY <1>1 DEF Lossless
  <2>2. CASE page.timer # None /\ page.timer.task = t
    BY <2>2 DEF Keeps
  <2>3. CASE \E q \in Doing("save") : req[q].task = t /\ req[q].source = typed[t]
    <3>1. PICK q \in Doing("save") : req[q].task = t /\ req[q].source = typed[t]
      BY <2>3
    <3>2. CASE q \in Doing("save")'
      <4>1. req'[q].task = t /\ req'[q].source = typed'[t]
        BY <1>2, <3>1, <3>2 DEF Writing
      <4>2. QED
        BY <3>2, <4>1 DEF Keeps
    <3>3. CASE q \notin Doing("save")'
      <4>1. q = r /\ Row(r) \in snapshots'
        BY <3>1, <3>3 DEF Doing
      <4>2. Row(r).task = t /\ Row(r).source = typed'[t]
        BY <3>1, <4>1 DEF Row
      <4>3. QED
        BY <4>1, <4>2 DEF Keeps
    <3>4. QED
      BY <3>2, <3>3
  <2>4. CASE \E s \in snapshots : s.task = t /\ s.source = typed[t]
    BY <2>4 DEF Keeps
  <2>5. QED
    BY <2>1, <2>2, <2>3, <2>4 DEF Keeps
<1>7. QED
  BY <1>4, <1>5, <1>6

\* A transaction begins: none with an older text is still to begin.
LEMMA LosslessStamp ==
  ASSUME TypeInv, Lossless, NEW r \in Requests, Stamp(r), excuse' = {}
  PROVE  Lossless'
<1>1. \A q \in Writing : ~ Older(q, r)
  <2> DEFINE late == \E q \in Writing : Older(q, r)
             blame == [NoBlame EXCEPT !["overtaken"] = late]
  <2>1. Blamed(blame)
    BY DEF Stamp
  <2>2. blame["overtaken"] = late /\ "overtaken" \in Excuses
    BY DEF NoBlame, Excuses
  <2> HIDE DEF blame, late
  <2>3. ~ late
    BY <2>1, <2>2, NothingBlamed
  <2>4. QED
    BY <2>3 DEF late
<1>2. /\ r \in Writing /\ r \in NotYet /\ req[r] \in Writes
      /\ clock' = clock + 1 /\ clock \in Nat
      /\ UNCHANGED <<created, snapshots, page, typed>>
  BY Kinds, TextTypes DEF Stamp, TakeStamp, Now, NotYet, TypeInv
<1>3. /\ req'[r].op = req[r].op /\ req'[r].task = req[r].task
      /\ req'[r].source = req[r].source /\ req'[r].at = clock + 1
      /\ \A q \in Requests \ {r} : req'[q] = req[q]
  BY <1>2 DEF Stamp, Now, Writes, TypeInv, TypeOK
<1>4. Shown' /\ TypedText' /\ \A t \in Created' : Keeps(t)'
  BY <1>2, <1>3, SavesKept
<1> DEFINE row == Row(r)'
<1>5. /\ row.task = req[r].task /\ row.source = req[r].source /\ row.at = clock + 1
      /\ Faithful(row)
  <2>1. Faithful(req[r])
    BY <1>2 DEF Lossless, Shown
  <2>2. QED
    BY <1>3, <2>1 DEF Row, Faithful
<1>6. Writing' = Writing /\ NotYet' \subseteq NotYet \ {r}
  BY <1>2, <1>3 DEF Writing, NotYet, Doing
<1>7. \A x \in Stamped' : x \in Stamped \/ x = row
  <2>1. \A q \in Writing' \ {r} : req'[q] = req[q] /\ q \in Writing
    BY <1>3, <1>6 DEF Writing, Doing
  <2>2. ASSUME NEW q \in Writing', req'[q].at > 0
        PROVE  Row(q)' \in Stamped \/ Row(q)' = row
    <3>1. CASE q = r
      BY <3>1
    <3>2. CASE q # r
      BY <2>1, <2>2, <3>2 DEF Stamped, Row
    <3>3. QED
      BY <3>1, <3>2
  <2> HIDE DEF row
  <2>3. snapshots' \subseteq Stamped
    BY <1>2 DEF Stamped
  <2>4. QED
    BY <2>2, <2>3 DEF Stamped
<1>8. \A x \in Stamped : x.at <= clock /\ x.at \in Nat /\ Faithful(x)
  BY TextTypes DEF Lossless, InTurn
<1> HIDE DEF row
<1>9. InTurn'
  <2>1. \A x \in Stamped' : x.at <= clock' /\ Faithful(x)'
    BY <1>2, <1>5, <1>7, <1>8 DEF Faithful
  <2>2. ASSUME NEW x \in Stamped', NEW y \in Stamped', x.task = y.task, x.at <= y.at
        PROVE  x.source.edit <= y.source.edit
    <3>1. CASE x \in Stamped /\ y \in Stamped
      BY <2>2, <3>1 DEF Lossless, InTurn
    <3>2. CASE x \in Stamped /\ y = row
      BY <1>2, <1>5, <2>2, <3>2 DEF Lossless, InTurn
    <3>3. CASE x = row /\ y \in Stamped
      <4>1. clock + 1 <= y.at /\ y.at <= clock /\ y.at \in Nat
        BY <1>5, <1>8, <2>2, <3>3
      <4>2. QED
        BY <1>2, <4>1
    <3>4. CASE x = row /\ y = row
      <4>1. req[r].source.edit \in Nat
        BY <1>2, TextTypes DEF Writes
      <4>2. QED
        BY <1>5, <3>4, <4>1
    <3>5. QED
      BY <1>7, <3>1, <3>2, <3>3, <3>4
  <2>3. ASSUME NEW x \in Stamped', NEW q \in NotYet', x.task = req'[q].task
        PROVE  x.source.edit <= req'[q].source.edit
    <3>1. q \in NotYet /\ q # r /\ req'[q] = req[q] /\ q \in Writing /\ req[q].at = 0
      BY <1>3, <1>6 DEF NotYet, Writing, Doing
    <3>2. CASE x \in Stamped
      BY <2>3, <3>1, <3>2 DEF Lossless, InTurn
    <3>3. CASE x = row
      <4>1. ~ (req[q].source.edit < req[r].source.edit)
        BY <1>1, <1>5, <2>3, <3>1, <3>3 DEF Older
      <4>2. req[q].source \in Texts /\ req[r].source \in Texts
        BY <1>2, <3>1, Kinds DEF TypeInv, Writing, Doing
      <4>3. req[q].source.edit \in Nat /\ req[r].source.edit \in Nat
        BY <4>2, TextTypes
      <4>4. QED
        BY <1>5, <3>1, <3>3, <4>1, <4>3
    <3>4. QED
      BY <1>7, <3>2, <3>3
  <2>4. QED
    BY <2>1, <2>2, <2>3 DEF InTurn
<1>10. QED
  BY <1>4, <1>9 DEF Lossless

\* A write finds the session active, commits, or fails and is a run.
LEMMA LosslessWrite ==
  ASSUME TypeInv, Lossless, NEW r \in Requests, Start(r) \/ Commit(r) \/ Fail(r),
         excuse' = {}
  PROVE  Lossless'
<1>1. r \in Writing /\ (r \in Doing("save") => Start(r) \/ Commit(r))
  <2>1. CASE Start(r) \/ Commit(r)
    BY <2>1 DEF Start, Commit
  <2>2. CASE Fail(r)
    <3> DEFINE save == req[r].op = "save"
               get == req[r].op = "get"
               blame == [NoBlame EXCEPT !["failed"] = save, !["unread"] = get]
    <3>1. Blamed(blame)
      BY <2>2 DEF Fail
    <3>2. blame["failed"] = save /\ blame["unread"] = get /\ {"failed", "unread"} \subseteq Excuses
      BY DEF NoBlame, Excuses
    <3> HIDE DEF blame, save, get
    <3>3. ~ save /\ ~ get
      BY <3>1, <3>2, NothingBlamed
    <3>4. r \notin Idles /\ req[r].op \notin {"save", "get"}
      BY <2>2, <3>3 DEF Fail, save, get
    <3>5. req[r].op \in {"save", "run", "get", "idle"}
      BY DEF TypeInv, TypeOK, Writes, Reads, Idle
    <3>6. QED
      BY <3>4, <3>5 DEF Writing, Doing, Idles
  <2>3. QED
    BY <2>1, <2>2
<1>2. /\ UNCHANGED <<clock, created, typed>>
      /\ page'.task = page.task /\ page'.source = page.source /\ page'.timer = page.timer
  <2>1. CASE Start(r)
    BY <2>1 DEF Start
  <2>2. CASE Closes(r)
    BY <2>2 DEF Closes, TypeInv, TypeOK, Pages
  <2>3. QED
    BY <2>1, <2>2 DEF Commit, Fail
<1>3. /\ \A q \in Requests \ {r} : req'[q] = req[q]
      /\ Start(r) \/ req'[r] = Idle
      /\ Start(r) => /\ req'[r].op = req[r].op /\ req'[r].task = req[r].task
                     /\ req'[r].source = req[r].source /\ req'[r].at = req[r].at
  <2>1. req[r] \in Writes
    BY <1>1, Kinds DEF TypeInv
  <2>2. Start(r) => req' = [req EXCEPT ![r] = [req[r] EXCEPT !.allowed = TRUE]]
    BY Zenon DEF Start
  <2>3. ~ Start(r) => req' = [req EXCEPT ![r] = Idle]
    BY DEF Commit, Fail, Closes
  <2>4. QED
    BY <2>1, <2>2, <2>3 DEF Writes, TypeInv, TypeOK
<1>4. /\ snapshots \subseteq snapshots'
      /\ \A s \in snapshots' : s \in snapshots \/ (s = Row(r) /\ req[r].allowed)
      /\ Start(r) \/ (r \in Doing("save") => Row(r) \in snapshots')
  <2>1. CASE Commit(r)
    BY <2>1 DEF Commit
  <2>2. CASE ~ Commit(r)
    <3>1. snapshots' = snapshots
      BY <2>2 DEF Start, Fail
    <3>2. QED
      BY <1>1, <2>2, <3>1
  <2>3. QED
    BY <2>1, <2>2
<1>5. Shown' /\ TypedText' /\ \A t \in Created' : Keeps(t)'
  <2>1. \/ /\ req'[r].op = req[r].op /\ req'[r].task = req[r].task
           /\ req'[r].source = req[r].source
        \/ /\ req'[r] = Idle
           /\ r \in Doing("save") => Row(r) \in snapshots'
    BY <1>3, <1>4
  <2>2. QED
    BY <1>1, <1>2, <1>3, <1>4, <2>1, SavesKept
<1>6. InTurn'
  <2>1. snapshots' \subseteq Stamped
    <3>1. req[r].allowed => req[r].at > 0
      BY <1>1 DEF TypeInv, Shape, Begun
    <3>2. QED
      BY <1>1, <1>4, <3>1 DEF Stamped
  <2>2. \A q \in Writing' :
          /\ q \in Writing /\ req'[q].at = req[q].at
          /\ req'[q].task = req[q].task /\ req'[q].source = req[q].source
          /\ q = r \/ req'[q] = req[q]
    BY <1>3 DEF Writing, Doing, Idle
  <2>3. ASSUME NEW q \in Writing', req'[q].at = 0
        PROVE  q \in Writing /\ req'[q] = req[q]
    <3>1. ~ (q = r /\ Start(r))
      BY <2>2, <2>3 DEF Start
    <3>2. QED
      BY <1>3, <2>2, <3>1 DEF Writing, Doing, Idle
  <2>4. clock' \in Nat /\ clock <= clock'
    BY <1>2, TextTypes
  <2>5. \A o \in Tasks : typed'[o].edit \in Nat /\ typed[o].edit <= typed'[o].edit
    BY <1>2, TextTypes
  <2>6. QED
    BY <2>1, <2>2, <2>3, <2>4, <2>5, TurnsKept DEF Lossless
<1>7. QED
  BY <1>5, <1>6 DEF Lossless

\* What went wrong stays on record.
LEMMA ExcusesStay == TypeOK /\ [Next]_vars /\ excuse' = {} => excuse = {}
<1> SUFFICES ASSUME TypeOK, [Next]_vars, excuse' = {} PROVE excuse = {}
  OBVIOUS
<1>1. \A conditions : Blamed(conditions) => excuse = {}
  BY DEF Blamed
<1>2. QED
  BY <1>1 DEF Next, vars, Begin, End, SetBack, Becomes, CreateTask, Type, Editor, Open, Switch, Save, Run,
    Send, Arrive, Serve, Find, Stamp, Start, Commit, Fail

\* Every step keeps the typed text in the editor, a request or a row.
LEMMA LosslessNext == LosslessInv /\ [Next]_vars => LosslessInv'
<1> SUFFICES ASSUME TypeInv, excuse = {} => Lossless, [Next]_vars, excuse' = {}
             PROVE  Lossless'
  BY TypeNext DEF LosslessInv
<1>1. Lossless
  BY ExcusesStay DEF TypeInv
<1>2. CASE Begin \/ End \/ SetBack \/ UNCHANGED vars
  BY <1>1, <1>2, LosslessTime
<1>3. CASE Type
  BY <1>1, <1>3, LosslessType
<1>4. ASSUME NEW t \in Tasks, CreateTask(t) PROVE Lossless'
  BY <1>1, <1>4, LosslessCreate
<1>5. ASSUME NEW r \in Requests, Editor(r) PROVE Lossless'
  BY <1>1, <1>5, LosslessLeave, LosslessSend, LosslessRead DEF Editor
<1>6. ASSUME NEW r \in Requests, Serve(r) PROVE Lossless'
  BY <1>1, <1>6, LosslessRead, LosslessStamp, LosslessWrite DEF Serve
<1>7. QED
  BY <1>2, <1>3, <1>4, <1>5, <1>6 DEF Next

\* In whatever order saves and slow runs commit, once no save of a task is
\* pending or on its way the snapshot that staff and a reload are shown is the
\* text typed last, unless something that has a name went wrong.
THEOREM TypedTextIsKept == Spec => []NothingTypedIsLost
<1>1. LosslessInv => NothingTypedIsLost
  <2> SUFFICES ASSUME TypeInv, Lossless, NEW t \in Created,
                      ~ (page.timer # None /\ page.timer.task = t),
                      ~ \E r \in Doing("save") : req[r].task = t
               PROVE  Latest(t) = typed[t]
    BY DEF LosslessInv, NothingTypedIsLost
  <2>1. PICK s \in snapshots : s.task = t /\ s.source = typed[t]
    BY DEF Lossless, Keeps
  <2>2. QED
    BY <2>1, LatestIsTyped DEF Lossless, Created
<1>2. QED
  BY <1>1, LosslessInit, LosslessNext, PTL DEF Spec

-----------------------------------------------------------------------------
(***************************************************************************)
(* The other tabs of the page: the whiteboard and the discussion.  Their   *)
(* module has names of its own for its state, so it comes as an instance.  *)
(***************************************************************************)

CONSTANTS Slots, MaxRows
VARIABLES side, kind, status, issued, pen, board, view, polls

Board == INSTANCE Whiteboard WITH req <- polls

\* The page has its slots, whatever it does with them.
LEMMA BoardSlots ==
  ASSUME DOMAIN polls = Slots, [Board!Next]_(Board!vars)
  PROVE  DOMAIN polls' = Slots
<1>1. CASE UNCHANGED Board!vars \/ Board!Advance \/ Board!OtherPosts \/ Board!Draw
  BY <1>1 DEF Board!vars, Board!Advance, Board!OtherPosts, Board!Draw
<1>2. ASSUME NEW i \in Slots, Board!Step(i)
      PROVE  DOMAIN polls' = Slots
  <2>1. \A q : Board!Becomes(i, q) => DOMAIN polls' = Slots
    BY DEF Board!Becomes
  <2>2. QED
    BY <1>2, <2>1 DEF Board!Step, Board!Poll, Board!Post, Board!BeginPost, Board!CommitPost,
       Board!See, Board!Saw, Board!Show, Board!Acknowledge, Board!Follow, Board!Lose
<1>3. QED
  BY <1>1, <1>2 DEF Board!Next

\* A request of the page is typed by its operation.
LEMMA BoardKinds ==
  ASSUME Board!TypeOK, NEW i \in Slots
  PROVE  /\ polls[i].op \in {"sent", "begun", "stored"} => polls[i].row \in Board!Rows
         /\ polls[i].op \in {"polled", "followed"} => polls[i].seen \subseteq Board!Rows
<1>1. polls[i] \in Board!Posts \union Board!Lists \union {Board!Idle}
  BY DEF Board!TypeOK
<1>2. QED
  BY <1>1 DEF Board!Posts, Board!Lists, Board!Idle

\* What a request becomes is a request again.
LEMMA BoardBecomes ==
  ASSUME Board!TypeOK, NEW i \in Slots, NEW q, Board!Becomes(i, q),
         \/ q \in {[op |-> "idle"], [op |-> "poll"], [op |-> "follow"]}
         \/ \E row \in Board!Rows, op \in {"sent", "begun", "stored"} : q = [op |-> op, row |-> row]
         \/ \E seen \in SUBSET Board!Rows, op \in {"polled", "followed"} : q = [op |-> op, seen |-> seen]
  PROVE  polls' \in [Slots -> Board!Posts \union Board!Lists \union {Board!Idle}]
<1>1. q \in Board!Posts \union Board!Lists \union {Board!Idle}
  BY DEF Board!Posts, Board!Lists, Board!Idle
<1>2. QED
  BY <1>1 DEF Board!TypeOK, Board!Becomes

\* The state of the whiteboard and of the page is always well formed: there
\* are never more rows than were issued numbers for, and lists and answers on
\* their way are of such rows.
THEOREM BoardIsTyped ==
  ASSUME MaxRows \in Nat
  PROVE  Board!Spec => []Board!TypeOK
<1>1. Board!Init => Board!TypeOK
  BY DEF Board!Init, Board!TypeOK, Board!Views, Board!Posts, Board!Lists, Board!Idle
<1>2. ASSUME Board!TypeOK, [Board!Next]_(Board!vars)
      PROVE  Board!TypeOK'
  <2> DEFINE Calls == Board!Posts \union Board!Lists \union {Board!Idle}
  <2>1. CASE UNCHANGED Board!vars
    BY <1>2, <2>1 DEF Board!TypeOK, Board!vars
  <2>2. CASE Board!Advance
    BY <1>2, <2>2 DEF Board!TypeOK, Board!Advance
  <2>3. ASSUME Board!Number PROVE issued' \in 0 .. MaxRows /\ issued' \in Board!Rows
    BY <1>2, <2>3 DEF Board!TypeOK, Board!Number, Board!Rows
  <2>4. CASE Board!OtherPosts
    <3>1. issued' \in 0 .. MaxRows /\ issued' \in Board!Rows
      BY <2>3, <2>4 DEF Board!OtherPosts
    <3>2. QED
      BY <1>2, <2>4, <3>1 DEF Board!TypeOK, Board!OtherPosts
  <2>5. CASE Board!Draw
    <3>1. issued' \in 0 .. MaxRows /\ pen' \in 0 .. MaxRows /\ pen' \in Board!Rows
      <4>1. CASE pen = 0 /\ Board!Number /\ pen' = issued'
        BY <2>3, <4>1 DEF Board!Rows
      <4>2. CASE pen # 0 /\ UNCHANGED <<pen, issued>>
        BY <1>2, <4>2 DEF Board!TypeOK, Board!Rows
      <4>3. QED
        BY <2>5, <4>1, <4>2 DEF Board!Draw
    <3>2. view' \in Board!Views
      BY <1>2, <2>5, <3>1 DEF Board!TypeOK, Board!Draw, Board!Views
    <3>3. QED
      BY <1>2, <2>5, <3>1, <3>2 DEF Board!TypeOK, Board!Draw
  <2>6. ASSUME NEW i \in Slots, Board!Step(i)
        PROVE  Board!TypeOK'
    <3>1. CASE Board!Poll(i) \/ Board!Follow(i) \/ Board!Lose(i)
      <4>1. PICK q \in {[op |-> "idle"], [op |-> "poll"], [op |-> "follow"]} :
              Board!Becomes(i, q)
        BY <3>1 DEF Board!Poll, Board!Follow, Board!Lose, Board!Idle
      <4>2. polls' \in [Slots -> Calls]
        BY <1>2, <4>1, BoardBecomes
      <4>3. UNCHANGED <<side, kind, status, issued, pen, board, view>>
        BY <3>1 DEF Board!Poll, Board!Follow, Board!Lose
      <4>4. QED
        BY <1>2, <4>2, <4>3 DEF Board!TypeOK
    <3>2. CASE Board!Post(i)
      <4>1. /\ issued' \in 0 .. MaxRows /\ pen' \in 0 .. MaxRows
            /\ \E row \in Board!Rows : Board!Becomes(i, [op |-> "sent", row |-> row])
        <5>1. pen # 0 => pen \in Board!Rows
          BY <1>2 DEF Board!TypeOK, Board!Rows
        <5>2. pen \in 0 .. MaxRows /\ issued \in 0 .. MaxRows /\ 0 \in 0 .. MaxRows
          BY <1>2 DEF Board!TypeOK
        <5>3. QED
          BY <2>3, <3>2, <5>1, <5>2 DEF Board!Post
      <4>2. polls' \in [Slots -> Calls]
        BY <1>2, <4>1, BoardBecomes
      <4>3. QED
        BY <1>2, <3>2, <4>1, <4>2 DEF Board!TypeOK, Board!Post
    <3>3. CASE Board!BeginPost(i)
      <4>1. polls[i].row \in Board!Rows
        BY <1>2, <3>3, BoardKinds DEF Board!BeginPost, Board!Is
      <4>2. polls' \in [Slots -> Calls]
        BY <1>2, <3>3, <4>1, BoardBecomes DEF Board!BeginPost
      <4>3. QED
        BY <1>2, <3>3, <4>2 DEF Board!TypeOK, Board!BeginPost
    <3>4. CASE Board!CommitPost(i)
      <4>1. polls[i].row \in Board!Rows
        BY <1>2, <3>4, BoardKinds DEF Board!CommitPost, Board!Is
      <4>2. polls' \in [Slots -> Calls]
        BY <1>2, <3>4, <4>1, BoardBecomes DEF Board!CommitPost
      <4>3. QED
        BY <1>2, <3>4, <4>1, <4>2 DEF Board!TypeOK, Board!CommitPost
    <3>5. CASE Board!See(i)
      <4>1. \E op \in {"polled", "followed"} : Board!Becomes(i, [op |-> op, seen |-> board])
        BY <3>5 DEF Board!See, Board!Saw
      <4>2. board \in SUBSET Board!Rows
        BY <1>2 DEF Board!TypeOK
      <4>3. polls' \in [Slots -> Calls]
        BY <1>2, <4>1, <4>2, BoardBecomes
      <4>4. QED
        BY <1>2, <3>5, <4>3 DEF Board!TypeOK, Board!See
    <3>6. CASE Board!Show(i)
      <4>1. polls[i].seen \subseteq Board!Rows
        BY <1>2, <3>6, BoardKinds DEF Board!Show, Board!Is
      <4>2. polls' \in [Slots -> Calls]
        BY <1>2, <3>6, BoardBecomes DEF Board!Show, Board!Idle
      <4>3. QED
        BY <1>2, <3>6, <4>1, <4>2 DEF Board!TypeOK, Board!Show, Board!Redrawn, Board!Views
    <3>7. CASE Board!Acknowledge(i)
      <4>1. polls[i].row \in Board!Rows
        BY <1>2, <3>7, BoardKinds DEF Board!Acknowledge, Board!Is
      <4>2. polls' \in [Slots -> Calls]
        BY <1>2, <3>7, BoardBecomes DEF Board!Acknowledge, Board!Idle
      <4>3. view' \in Board!Views
        BY <1>2, <3>7, <4>1 DEF Board!TypeOK, Board!Acknowledge, Board!Redrawn, Board!Views
      <4>4. QED
        BY <1>2, <3>7, <4>2, <4>3 DEF Board!TypeOK, Board!Acknowledge
    <3>8. QED
      BY <2>6, <3>1, <3>2, <3>3, <3>4, <3>5, <3>6, <3>7 DEF Board!Step
  <2>7. QED
    BY <1>2, <2>1, <2>2, <2>4, <2>5, <2>6 DEF Board!Next
<1>3. QED
  BY <1>1, <1>2, PTL DEF Board!Spec

\* What PagesConverge rests on beside fairness: once a page has settled, no
\* late or lost answer, no poll and no end of the interview takes anything from
\* it or shows anything twice; only a stroke that is drawn or a post, of either
\* side, does.
THEOREM BoardStaysSettled == Board!Spec => Board!SettledUntilPosted
<1>1. ASSUME DOMAIN polls = Slots, Board!Settled, Board!Next,
             ~ Board!OtherPosts, ~ Board!Draw, ~ \E i \in Slots : Board!Post(i)
      PROVE  Board!Settled'
  <2>1. CASE Board!Advance
    BY <1>1, <2>1 DEF Board!Settled, Board!Is, Board!Advance
  <2>2. ASSUME NEW i \in Slots, Board!Step(i)
        PROVE  Board!Settled'
    <3>0. ~ Board!Post(i) /\ ~ Board!Is(i, {"sent", "begun", "stored"})
      BY <1>1 DEF Board!Settled
    <3>1. \A q \in Slots \ {i} : polls'[q] = polls[q]
      BY <1>1, <2>2, <3>0 DEF Board!Step, Board!Poll, Board!BeginPost, Board!CommitPost, Board!See,
         Board!Saw, Board!Show, Board!Acknowledge, Board!Follow, Board!Lose, Board!Becomes
    <3>2. board' = board
      BY <2>2, <3>0 DEF Board!Step, Board!Poll, Board!BeginPost, Board!CommitPost, Board!See,
         Board!Show, Board!Acknowledge, Board!Follow, Board!Lose, Board!Is
    <3>3. ASSUME view' = view,
                 \/ polls'[i].op \in {"idle", "poll"}
                 \/ polls'[i].op \in {"polled", "followed"} /\ polls'[i].seen = board
          PROVE  Board!Settled'
      BY <1>1, <3>1, <3>2, <3>3 DEF Board!Settled, Board!Is
    <3>4. CASE Board!Poll(i) \/ Board!Lose(i)
      <4>1. view' = view /\ polls'[i].op \in {"idle", "poll"}
        BY <1>1, <3>4 DEF Board!Poll, Board!Lose, Board!Becomes, Board!Idle
      <4>2. QED
        BY <3>3, <4>1
    <3>5. CASE Board!See(i)
      <4>1. view' = view /\ polls'[i].op \in {"polled", "followed"} /\ polls'[i].seen = board
        BY <1>1, <3>5 DEF Board!See, Board!Saw, Board!Becomes
      <4>2. QED
        BY <3>3, <4>1
    <3>6. CASE Board!Show(i)
      <4>1. polls[i].seen = board
        BY <1>1, <3>6 DEF Board!Show, Board!Settled
      <4>2. view' = view /\ polls'[i].op = "idle"
        BY <1>1, <3>6, <4>1
        DEF Board!Show, Board!Redrawn, Board!Becomes, Board!Idle, Board!Settled
      <4>3. QED
        BY <3>3, <4>2
    <3>7. ~ (Board!BeginPost(i) \/ Board!CommitPost(i) \/ Board!Acknowledge(i) \/ Board!Follow(i))
      BY <3>0 DEF Board!BeginPost, Board!CommitPost, Board!Acknowledge, Board!Follow, Board!Is
    <3>8. QED
      BY <2>2, <3>0, <3>4, <3>5, <3>6, <3>7 DEF Board!Step
  <2>3. QED
    BY <1>1, <2>1, <2>2 DEF Board!Next
<1>2. Board!Init => DOMAIN polls = Slots
  BY DEF Board!Init
<1>3. DOMAIN polls = Slots /\ [Board!Next]_(Board!vars) => (DOMAIN polls = Slots)'
  BY BoardSlots
<1>4. DOMAIN polls = Slots /\ [Board!Next]_(Board!vars) =>
        [Board!Settled => \/ Board!Settled' \/ Board!OtherPosts \/ Board!Draw
                          \/ \E i \in Slots : Board!Post(i)]_(Board!vars)
  BY <1>1
<1>5. QED
  BY <1>2, <1>3, <1>4, PTL DEF Board!Spec, Board!SettledUntilPosted

=============================================================================
