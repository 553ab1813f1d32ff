------------------------------ MODULE Workspace ------------------------------
(***************************************************************************)
(* The code editor of one interview session: the candidate's page          *)
(* (web-candidate/src/pages/Workspace.tsx), the endpoints that store and   *)
(* run what it sends (routers_workspace.py), and the staff who add tasks.  *)
(*                                                                         *)
(* A text is the text of a task (the starter code is number 0) and the     *)
(* number of the keystroke that made it.  created_at is the time at which  *)
(* the transaction began: a request takes its stamp first (get_db binds    *)
(* the session's context), then loads the session, and its rows appear at  *)
(* its commit.  The sandbox answers a run in between, up to 30 s later.    *)
(*                                                                         *)
(* The interview itself is another component (InterviewSession), whose     *)
(* requests overlap too: here its status changes at their commits.         *)
(***************************************************************************)
EXTENDS Integers, FiniteSets, FiniteSetsExt

CONSTANTS
  Requests,     \* requests that may be in progress at the same time
  Tasks,        \* the coding tasks of the session
  None,
  MaxEdits,     \* bound: no more keystrokes than this
  MaxStamp,     \* bound: no more transactions than this
  MaxExcuses    \* bound: no more kinds of mishap than this in one behaviour

ASSUME BoundsAssumption == {MaxEdits, MaxStamp, MaxExcuses} \subseteq Nat

VARIABLES
  clock,        \* the stamp taken last
  session,      \* interview_sessions.status, as the editor tells it apart
  closed,       \* history: while it is not active, the last stamp before that
  created,      \* the stamp of each task, 0 for one not created yet
  snapshots,    \* the rows of code_snapshots
  executions,   \* the rows of code_executions
  page,         \* what the candidate's browser holds
  req,          \* per request: what it does and has loaded
  typed,        \* history: the text the candidate typed last for each task
  misread,      \* history: the tasks on which code of another task was used
  excuse        \* history: what went wrong on the way

vars ==
  <<clock, session, closed, created, snapshots, executions, page, req, typed,
    misread, excuse>>

-----------------------------------------------------------------------------

Texts == [task : Tasks, edit : 0 .. MaxEdits]

Starter(t) == [task |-> t, edit |-> 0]

Rows == [task : Tasks, source : Texts, at : 1 .. MaxStamp]

\* What the timer will save: a task and a text, both of the keystroke's time.
Saves == [task : Tasks, source : Texts]

ASSUME NoneAssumption == None \notin Tasks \union Requests \union Texts \union Saves

\* The task on display, the text of the editor, the timer, and the run the page
\* waits for; ghost: the task whose code came last into the editor.
Pages ==
  [task : Tasks \union {None}, source : Texts \union {None},
   timer : Saves \union {None}, run : Requests \union {None},
   code : Tasks \union {None}]

Statuses == {"waiting", "active", "over"}

Idle == [op |-> "idle"]

\* A write is on its way (at = 0), has begun, or has found the session active;
\* a read is on its way or on its way back with the source it found.
Writes ==
  [op : {"save", "run"}, task : Tasks, source : Texts, at : 0 .. MaxStamp,
   allowed : BOOLEAN]
Reads == [op : {"get"}, task : Tasks, source : Texts \union {None}]

\* The page was used before the code of its task had arrived; an edit younger
\* than the timer was dropped; a task was left while a write was on its way; a
\* save failed; a write began before one with an older text.
Excuses == {"unread", "dropped", "left", "failed", "overtaken"}

TypeOK ==
  /\ clock \in 0 .. MaxStamp
  /\ session \in Statuses /\ closed \in 0 .. MaxStamp
  /\ created \in [Tasks -> 0 .. MaxStamp]
  /\ snapshots \subseteq Rows /\ executions \subseteq Rows
  /\ page \in Pages
  /\ req \in [Requests -> Writes \union Reads \union {Idle}]
  /\ typed \in [Tasks -> Texts] /\ misread \subseteq Tasks
  /\ excuse \subseteq Excuses

IsActive == session = "active"
Terminal == session = "over"

Created == {t \in Tasks : created[t] > 0}
Idles == {r \in Requests : req[r].op = "idle"}
Doing(op) == {r \in Requests : req[r].op = op}
Writing == Doing("save") \union Doing("run")

\* Mutant: the query forgets whose snapshots it is after.
LatestOfAll(t) ==
  (CHOOSE s \in snapshots : \A o \in snapshots : o.at <= s.at).source

\* _latest_snapshot: ORDER BY created_at DESC LIMIT 1
Latest(t) ==
  LET rows == {s \in snapshots : s.task = t}
  IN  (CHOOSE s \in rows : \A o \in rows : o.at <= s.at).source

Now == clock + 1
TakeStamp == clock' = Now /\ Now <= MaxStamp

Init ==
  /\ clock = 0
  /\ session = "waiting" /\ closed = 0
  /\ created = [t \in Tasks |-> 0]
  /\ snapshots = {} /\ executions = {}
  /\ page = [task |-> None, source |-> None, timer |-> None, run |-> None,
             code |-> None]
  /\ req = [r \in Requests |-> Idle]
  /\ typed = [t \in Tasks |-> Starter(t)] /\ misread = {}
  /\ excuse = {}

-----------------------------------------------------------------------------
(* The interview and its staff.                                            *)

\* A request commits that has changed the status it loaded, maybe long ago.
Becomes(status) ==
  /\ session # status
  /\ session' = status
  /\ closed' = IF IsActive THEN clock ELSE IF status = "active" THEN 0 ELSE closed
  /\ UNCHANGED <<clock, created, snapshots, executions, page, req, typed,
                 misread, excuse>>

Begin == Becomes("active")

\* The end, at its commit: finished_at is set earlier, and requests that begin
\* and load the session in between find it active.
End == Becomes("over")

\* A pre-check that loaded the session before the start commits after it.
SetBack == Becomes("waiting")

\* create_task, which asks for no state of the session.
CreateTask(t) ==
  /\ t \notin Created
  /\ TakeStamp
  /\ created' = [created EXCEPT ![t] = Now]
  /\ snapshots' = snapshots \union {[task |-> t, source |-> Starter(t), at |-> Now]}
  /\ UNCHANGED <<session, closed, executions, page, req, typed, misread, excuse>>

-----------------------------------------------------------------------------
(* The page.                                                               *)

Loading == Doing("get") # {}

Blamed(conditions) ==
  /\ excuse' = excuse \union {e \in Excuses : conditions[e]}
  /\ Cardinality(excuse') <= MaxExcuses

NoBlame == [e \in Excuses |-> FALSE]

Leaving ==
  [NoBlame EXCEPT !["dropped"] = page.timer # None, !["left"] = Writing # {}]

Get(t) == [op |-> "get", task |-> t, source |-> None]

FirstTask == CHOOSE t \in Created : \A o \in Created : created[t] <= created[o]

\* The tab is opened, again, or the page loaded anew: the timer is cleared,
\* and answers to the page that was are heard by nobody.
Open(r, t) ==
  /\ Created # {} /\ t \in {page.task, FirstTask} \ {None}
  /\ r \in Idles
  /\ page' = [task |-> t, source |-> Starter(t), timer |-> None, run |-> None,
              code |-> t]
  /\ req' = [q \in Requests |->
       IF q = r THEN Get(t) ELSE IF req[q].op = "get" THEN Idle ELSE req[q]]
  /\ Blamed(Leaving)
  /\ UNCHANGED <<clock, session, closed, created, snapshots, executions, typed, misread>>

\* Another task is chosen: the editor keeps its text until the code arrives,
\* and an answer for the task that was left is not told apart.
Switch(r, t) ==
  /\ page.task # None /\ t \in Created \ {page.task}
  /\ r \in Idles
  /\ page' = [page EXCEPT !.task = t, !.timer = None]
  /\ req' = [req EXCEPT ![r] = Get(t)]
  /\ Blamed([Leaving EXCEPT !["unread"] = Loading])
  /\ UNCHANGED <<clock, session, closed, created, snapshots, executions, typed, misread>>

\* The editor's text is used on the task on display, whosever it is.
Uses == misread' = misread \union ({page.task} \ {page.code})

\* onChange
Type ==
  /\ page.task # None
  /\ LET edits == {typed[t].edit : t \in Tasks}
         text == [task |-> page.source.task, edit |-> Max(edits) + 1]
     IN  /\ text \in Texts
         /\ page' = [page EXCEPT !.source = text,
                                 !.timer = [task |-> page.task, source |-> text]]
         /\ typed' = [typed EXCEPT ![page.task] = text]
  /\ Uses
  /\ Blamed([NoBlame EXCEPT !["unread"] = Loading])
  /\ UNCHANGED <<clock, session, closed, created, snapshots, executions, req>>

Send(r, op, task, source) ==
  /\ r \in Idles
  /\ req' = [req EXCEPT ![r] =
       [op |-> op, task |-> task, source |-> source, at |-> 0, allowed |-> FALSE]]
  /\ UNCHANGED <<clock, session, closed, created, snapshots, executions, typed>>

\* The timer fires.
Save(r) ==
  /\ page.timer # None
  /\ Send(r, "save", page.timer.task, page.timer.source)
  /\ page' = [page EXCEPT !.timer = None]
  /\ UNCHANGED <<misread, excuse>>

\* The button, disabled while the page waits for a run.
Run(r) ==
  /\ page.task # None /\ page.run = None
  /\ Send(r, "run", page.task, page.source)
  /\ page' = [page EXCEPT !.run = r]
  /\ Uses
  /\ Blamed([NoBlame EXCEPT !["unread"] = Loading])

\* The code arrives, whatever was typed meanwhile.
Arrive(r) ==
  /\ r \in Doing("get") /\ req[r].source # None
  /\ page' = [page EXCEPT !.source = req[r].source, !.code = req[r].task]
  /\ req' = [req EXCEPT ![r] = Idle]
  /\ UNCHANGED <<clock, session, closed, created, snapshots, executions, typed,
                 misread, excuse>>

-----------------------------------------------------------------------------
(* The endpoints.                                                          *)

\* get_code_public
Find(r) ==
  /\ r \in Doing("get") /\ req[r].source = None
  /\ ~ Terminal
  /\ req' = [req EXCEPT ![r].source = Latest(req[r].task)]
  /\ UNCHANGED <<clock, session, closed, created, snapshots, executions, page,
                 typed, misread, excuse>>

Older(q, r) ==
  /\ req[q].at = 0 /\ req[q].task = req[r].task
  /\ req[q].source.edit < req[r].source.edit

\* get_db: the transaction of save_code_public or run_code_public begins.
Stamp(r) ==
  /\ r \in Writing /\ req[r].at = 0
  /\ TakeStamp
  /\ req' = [req EXCEPT ![r].at = Now]
  /\ Blamed([NoBlame EXCEPT !["overtaken"] = \E q \in Writing : Older(q, r)])
  /\ UNCHANGED <<session, closed, created, snapshots, executions, page, typed,
                 misread>>

\* Mutant: any session that has not ended will do.
StartUnlessTerminal(r) ==
  /\ r \in Writing /\ req[r].at > 0 /\ ~ req[r].allowed
  /\ ~ Terminal
  /\ req' = [req EXCEPT ![r].allowed = TRUE]
  /\ UNCHANGED <<clock, session, closed, created, snapshots, executions, page,
                 typed, misread, excuse>>

\* It loads the session: _require_active.
Start(r) ==
  /\ r \in Writing /\ req[r].at > 0 /\ ~ req[r].allowed
  /\ IsActive
  /\ req' = [req EXCEPT ![r].allowed = TRUE]
  /\ UNCHANGED <<clock, session, closed, created, snapshots, executions, page,
                 typed, misread, excuse>>

\* Mutant: rows are stamped as they are inserted.
RowStampedLate(r) == [task |-> req[r].task, source |-> req[r].source, at |-> Now]

Row(r) == [task |-> req[r].task, source |-> req[r].source, at |-> req[r].at]

Closes(r) ==
  /\ req' = [req EXCEPT ![r] = Idle]
  /\ page' = [page EXCEPT !.run = IF @ = r THEN None ELSE @]
  /\ UNCHANGED <<clock, session, closed, created, typed, misread>>

\* The snapshot, and the execution of a run that the sandbox has answered.
Commit(r) ==
  /\ r \in Writing /\ req[r].allowed
  /\ snapshots' = snapshots \union {Row(r)}
  /\ executions' = executions \union (IF req[r].op = "run" THEN {Row(r)} ELSE {})
  /\ Closes(r)
  /\ UNCHANGED excuse

\* 409 or 503, a lost request or a sandbox that does not answer: nothing of
\* the request stays, the snapshot of a run included.
Fail(r) ==
  /\ r \notin Idles
  /\ Closes(r)
  /\ Blamed([NoBlame EXCEPT
       !["failed"] = req[r].op = "save", !["unread"] = req[r].op = "get"])
  /\ UNCHANGED <<snapshots, executions>>

-----------------------------------------------------------------------------

Editor(r) ==
  \/ \E t \in Tasks : Open(r, t) \/ Switch(r, t)
  \/ Save(r) \/ Run(r) \/ Arrive(r)

Serve(r) == Find(r) \/ Stamp(r) \/ Start(r) \/ Commit(r) \/ Fail(r)

Next ==
  \/ Begin \/ End \/ SetBack \/ Type
  \/ \E t \in Tasks : CreateTask(t)
  \/ \E r \in Requests : Editor(r) \/ Serve(r)

Spec == Init /\ [][Next]_vars

-----------------------------------------------------------------------------
(* Properties.                                                             *)

\* "autosaved editing" (README.md:442): once no save of a task is pending or
\* on its way, the snapshot staff and a reload are shown is the text typed
\* last, in whatever order saves and slow runs commit, unless something that
\* has a name went wrong (routers_workspace.py:147-155).
NothingTypedIsLost ==
  excuse = {} =>
    \A t \in Created :
      ~ (page.timer # None /\ page.timer.task = t) =>
        (\/ \E r \in Doing("save") : req[r].task = t
         \/ Latest(t) = typed[t])

\* The editor keeps its text when another task is chosen and hears every answer
\* (Workspace.tsx:176-188), so that text can end up under another task.  It does
\* so only on a task where the candidate used the editor while the code that had
\* come last was another's, and it spreads from there by no late answer, timer,
\* reload or run to any other task.
TextStaysWithItsTask ==
  \A row \in snapshots \union executions :
    row.task \in misread \/ row.source.task = row.task

\* "candidate writes gated to an ACTIVE session" (README.md:443): whenever the
\* interview is not active, and however long a run took to commit, all that the
\* candidate has stored was begun before the commit that ended it, or set it
\* back; before the first start there is nothing.
RecordedWhileActive ==
  IsActive \/ \A row \in snapshots :
                row.at # created[row.task] => row.at <= closed

=============================================================================
