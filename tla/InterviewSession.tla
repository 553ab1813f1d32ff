-------------------------- MODULE InterviewSession --------------------------
(***************************************************************************)
(* The candidate's side of one interview session: routers_interview.py.    *)
(*                                                                         *)
(* A request is one database transaction (deps.get_db): it reads the       *)
(* session row, decides, and its writes become visible together when the   *)
(* dependency commits after the handler returned.  PostgreSQL runs these   *)
(* transactions at READ COMMITTED and nothing locks the row that was read, *)
(* so between a request's read and its commit any other request on the     *)
(* same token may commit.  SQLAlchemy writes only the columns whose value  *)
(* differs from the one loaded (Flush).  Requests is the set of requests   *)
(* that may be in progress at the same time: with one element requests     *)
(* never overlap.                                                          *)
(***************************************************************************)
EXTENDS InterviewEngine

CONSTANTS
  Requests,       \* requests on the session's token that may overlap
  Plans,          \* the plans create_session may have stored
  Reports,        \* device reports a candidate's browser may submit
  MaxTurnRows     \* bound: no more rows of interview_turns than this

ASSUME PlansAssumption == \A plan \in Plans : IsPlan(plan)
ASSUME RowsAssumption == MaxTurnRows \in Nat

VARIABLES
  plan,       \* interview_sessions.plan_payload, never written again
  session,    \* the mutable columns of the interview_sessions row
  consents,   \* interview_consents.granted, in commit order
  rows,       \* interview_turns, in commit order; a row's id is its index
  audited,    \* actions of this session in audit_events
  expired,    \* expires_at < utcnow()
  req         \* per request: its progress and what it has loaded

vars == <<plan, session, consents, rows, audited, expired, req>>

-----------------------------------------------------------------------------
(* Types.                                                                  *)

Statuses == {"pending_consent", "consent_granted", "precheck_passed",
             "active", "completed", "aborted", "declined"}

Terminal(status) == status \in {"completed", "declined", "aborted"}

NoReport == [suite |-> "none"]   \* precheck_report = {}

Unanswered == 0 - 1             \* answer_text IS NULL

AuditActions == {"consent_declined", "consent_granted", "precheck_passed",
                 "started", "completed", "aborted"}

\* Column values of a row; `finished` is finished_at IS NOT NULL.
Sessions ==
  [status : Statuses, prechecked : BOOLEAN, report : Reports \union {NoReport},
   asked : Seq(AskedTurns), finished : BOOLEAN]

Rows ==
  [seq : Nat, kind : TurnKinds, topic : TopicIds \union {NoTopic},
   answer : Int]

Operations == {"consent", "precheck", "start", "answer", "finish"}

\* What a request carries: the operation, whether it has run its last
\* SELECT, its input and the session (and open turn) it loaded.
InProgress ==
  [op : Operations, ready : BOOLEAN, granted : BOOLEAN,
   report : Reports \union {NoReport}, hits : Nat, row : Nat,
   loaded : Sessions]

Idle == [op |-> "idle"]

TypeOK ==
  /\ plan \in Plans
  /\ session \in Sessions
  /\ consents \in Seq(BOOLEAN)
  /\ rows \in Seq(Rows)
  /\ audited \subseteq AuditActions
  /\ expired \in BOOLEAN
  /\ req \in [Requests -> InProgress \union {Idle}]

-----------------------------------------------------------------------------
(* precheck.py.  A report is its suite version, the set of its device      *)
(* checks and its connection sample.                                       *)

RequiredKinds == {"camera", "microphone", "speaker"}
AllowedStatuses == {"ok", "degraded", "failed", "missing"}
MinBandwidthKbps == 300

EvaluatePrecheck(report) ==
  /\ report.suite = "2026.08"
  /\ \A d \in report.devices : d.status \in AllowedStatuses
  /\ \A kind \in RequiredKinds :
       /\ \E d \in report.devices : d.kind = kind
       /\ \A d \in report.devices : d.kind = kind => d.status = "ok"
  /\ report.connection \in {"good", "fair"}
  /\ report.bandwidth >= MinBandwidthKbps

-----------------------------------------------------------------------------
(* The row create_session inserts.                                         *)

NewSession ==
  [status |-> "pending_consent", prechecked |-> FALSE, report |-> NoReport,
   asked |-> << >>, finished |-> FALSE]

Init ==
  /\ plan \in Plans
  /\ session = NewSession
  /\ consents = << >>
  /\ rows = << >>
  /\ audited = {}
  /\ expired = FALSE
  /\ req = [r \in Requests |-> Idle]

-----------------------------------------------------------------------------
(* Transactions.                                                           *)

\* _session_by_token answers 410 for an expired session that is not over.
Reachable == ~ expired \/ Terminal(session.status)

\* The SELECT of the session row that opens a request; the handler's own
\* check of the status is the caller's guard.
Load(r, op, granted, report) ==
  /\ req[r] = Idle
  /\ Reachable
  /\ req' = [req EXCEPT ![r] =
       [op |-> op, ready |-> op # "answer", granted |-> granted,
        report |-> report, hits |-> 0, row |-> 0, loaded |-> session]]
  /\ UNCHANGED <<plan, session, consents, rows, audited, expired>>

Column(current, loaded, assigned) ==
  IF assigned = loaded THEN current ELSE assigned

\* UPDATE interview_sessions: only the columns assigned a new value.
Flush(loaded, assigned) ==
  [status     |-> Column(session.status, loaded.status, assigned.status),
   prechecked |-> Column(session.prechecked, loaded.prechecked, assigned.prechecked),
   report     |-> Column(session.report, loaded.report, assigned.report),
   asked      |-> Column(session.asked, loaded.asked, assigned.asked),
   finished   |-> Column(session.finished, loaded.finished, assigned.finished)]

\* The commit of request r with its writes to the session row, and the
\* actions it recorded in audit_events.
Commit(r, op, assigned, actions) ==
  /\ req[r] # Idle
  /\ req[r].op = op
  /\ req[r].ready
  /\ session' = Flush(req[r].loaded, assigned)
  /\ audited' = audited \union actions
  /\ req' = [req EXCEPT ![r] = Idle]
  /\ UNCHANGED <<plan, expired>>

\* The request fails after its first SELECT (gateway error, lost database
\* connection, worker killed): the transaction is rolled back.
Rollback(r) ==
  /\ req[r] # Idle
  /\ req' = [req EXCEPT ![r] = Idle]
  /\ UNCHANGED <<plan, session, consents, rows, audited, expired>>

-----------------------------------------------------------------------------
(* decide_consent                                                          *)

ConsentLoad(r) ==
  \E granted \in BOOLEAN :
    /\ session.status = "pending_consent"
    /\ Load(r, "consent", granted, NoReport)

ConsentCommit(r) ==
  LET s == req[r].loaded
      granted == req[r].granted
  IN  /\ Commit(r, "consent",
                [s EXCEPT !.status = IF granted THEN "consent_granted" ELSE "declined",
                          !.finished = IF granted THEN @ ELSE TRUE],
                IF granted THEN {"consent_granted"} ELSE {"consent_declined"})
      /\ consents' = Append(consents, granted)
      /\ UNCHANGED rows

(* submit_precheck                                                         *)

PrecheckLoad(r) ==
  \E report \in Reports :
    /\ session.status \in {"consent_granted", "precheck_passed"}
    /\ Load(r, "precheck", FALSE, report)

\* Mutant: a failing report leaves an unlocked gate open.
AfterPrecheckKeepsGate(s, report) ==
  LET passed == EvaluatePrecheck(report)
  IN  [s EXCEPT !.report = report,
                !.prechecked = passed,
                !.status = IF passed THEN "precheck_passed" ELSE @]

\* A later failing report takes the gate back.
AfterPrecheck(s, report) ==
  LET passed == EvaluatePrecheck(report)
  IN  [s EXCEPT !.report = report,
                !.prechecked = passed,
                !.status = IF passed THEN "precheck_passed" ELSE "consent_granted"]

PrecheckCommit(r) ==
  /\ Commit(r, "precheck", AfterPrecheck(req[r].loaded, req[r].report),
            IF EvaluatePrecheck(req[r].report) THEN {"precheck_passed"} ELSE {})
  /\ UNCHANGED <<consents, rows>>

(* start_interview                                                         *)

\* Mutant: consent alone unlocks the start.
StartLoadSkipsPrecheck(r) ==
  /\ session.status \in {"consent_granted", "precheck_passed"}
  /\ Load(r, "start", FALSE, NoReport)

StartLoad(r) ==
  /\ session.status = "precheck_passed"
  /\ Load(r, "start", FALSE, NoReport)

NewRow(seq, turn) ==
  [seq |-> seq, kind |-> turn.kind, topic |-> turn.topic, answer |-> Unanswered]

StartCommit(r) ==
  LET first == Decide(plan, << >>, 0)
  IN  /\ Len(rows) < MaxTurnRows
      /\ Commit(r, "start",
                [req[r].loaded EXCEPT !.status = "active", !.asked = <<first>>],
                {"started"})
      /\ rows' = Append(rows, NewRow(0, first))
      /\ UNCHANGED consents

(* submit_turn                                                             *)

AnswerLoad(r) ==
  /\ session.status = "active"
  /\ Load(r, "answer", FALSE, NoReport)

\* _open_question: an unanswered row of the highest sequence.  Without a
\* unique constraint two rows may share it: LIMIT 1 then takes either.
OpenRows ==
  LET open == {i \in DOMAIN rows : rows[i].answer = Unanswered}
  IN  {i \in open : \A j \in open : rows[j].seq <= rows[i].seq}

\* The SELECT of the open turn, and the text of the answer: posted as text
\* or transcribed by the gateway.  No open question: 409, rolled back.
AnswerOpen(r) ==
  /\ req[r] # Idle
  /\ req[r].op = "answer"
  /\ ~ req[r].ready
  /\ \E i \in OpenRows, hits \in AnswersTo(plan, req[r].loaded.asked) :
       /\ rows[i].kind # Closing
       /\ req' = [req EXCEPT ![r].ready = TRUE, ![r].row = i, ![r].hits = hits]
  /\ UNCHANGED <<plan, session, consents, rows, audited, expired>>

\* Mutant: the history forgets the turn just asked.
AfterAnswerForgetsTurn(s, next) ==
  IF next.kind = Closing
    THEN [s EXCEPT !.status = "completed", !.finished = TRUE]
    ELSE s

\* Mutant: the closing turn does not complete the session.
AfterAnswerNeverEnds(s, next) ==
  [s EXCEPT !.asked = IF next.kind = Closing THEN @ ELSE Append(@, next)]

AfterAnswer(s, next) ==
  IF next.kind = Closing
    THEN [s EXCEPT !.status = "completed", !.finished = TRUE]
    ELSE [s EXCEPT !.asked = Append(@, next)]

\* Mutant: the next turn is stored, the answer is not.
AnswerCommitUnanswered(r) ==
  LET i == req[r].row
      next == Decide(plan, req[r].loaded.asked, req[r].hits)
  IN  /\ Len(rows) < MaxTurnRows
      /\ Commit(r, "answer", AfterAnswer(req[r].loaded, next),
                IF next.kind = Closing THEN {"completed"} ELSE {})
      /\ rows' = Append(rows, NewRow(rows[i].seq + 1, next))
      /\ UNCHANGED consents

AnswerCommit(r) ==
  LET i == req[r].row
      next == Decide(plan, req[r].loaded.asked, req[r].hits)
  IN  /\ Len(rows) < MaxTurnRows
      /\ Commit(r, "answer", AfterAnswer(req[r].loaded, next),
                IF next.kind = Closing THEN {"completed"} ELSE {})
      /\ rows' = Append([rows EXCEPT ![i].answer = req[r].hits],
                        NewRow(rows[i].seq + 1, next))
      /\ UNCHANGED consents

(* finish_interview                                                        *)

\* Mutant: any session that is not over may be ended.
FinishLoadAnytime(r) ==
  /\ ~ Terminal(session.status)
  /\ Load(r, "finish", FALSE, NoReport)

FinishLoad(r) ==
  /\ session.status = "active"
  /\ Load(r, "finish", FALSE, NoReport)

\* Mutant: the end of the session leaves no audit entry.
FinishCommitUnaudited(r) ==
  /\ Commit(r, "finish",
            [req[r].loaded EXCEPT !.status = "aborted", !.finished = TRUE], {})
  /\ UNCHANGED <<consents, rows>>

FinishCommit(r) ==
  /\ Commit(r, "finish",
            [req[r].loaded EXCEPT !.status = "aborted", !.finished = TRUE],
            {"aborted"})
  /\ UNCHANGED <<consents, rows>>

\* The invitation's lifetime runs out.
Expire ==
  /\ ~ expired
  /\ expired' = TRUE
  /\ UNCHANGED <<plan, session, consents, rows, audited, req>>

-----------------------------------------------------------------------------

Serve(r) ==
  \/ ConsentLoad(r)  \/ ConsentCommit(r)
  \/ PrecheckLoad(r) \/ PrecheckCommit(r)
  \/ StartLoad(r)    \/ StartCommit(r)
  \/ AnswerLoad(r)   \/ AnswerOpen(r)   \/ AnswerCommit(r)
  \/ FinishLoad(r)   \/ FinishCommit(r)
  \/ Rollback(r)

Next == (\E r \in Requests : Serve(r)) \/ Expire

Spec == Init /\ [][Next]_vars

-----------------------------------------------------------------------------
(* What the candidate is shown.                                            *)

\* The open question of public_session_state: none in a terminal session,
\* and a closing turn is not a question.
ServedQuestions ==
  IF Reachable /\ ~ Terminal(session.status)
    THEN {i \in OpenRows : rows[i].kind # Closing}
    ELSE {}

-----------------------------------------------------------------------------
(* Safety.                                                                 *)

\* Every turn stored, and every status past the consent gate, rests on a
\* consent that was granted and on audit entries committed with it: an
\* interview never runs without consent and a passed pre-check on record,
\* however requests overlap (routers_interview.py:10-12).
ConsentAndPrecheckOnRecord ==
  /\ (\/ rows # << >>
      \/ session.status \notin {"pending_consent", "declined"})
       => /\ \E i \in DOMAIN consents : consents[i]
          /\ "consent_granted" \in audited
  /\ (rows # << >> \/ session.status \in {"precheck_passed", "active"})
       => "precheck_passed" \in audited

\* A status the session can only get from a decision is backed by the audit
\* entry of that decision: the write and its entry are one transaction.
StatusAudited ==
  /\ session.status = "declined"  => "consent_declined" \in audited
  /\ session.status = "active"    => "started" \in audited
  /\ session.status = "completed" => {"started", "completed"} \subseteq audited
  /\ session.status = "aborted"   => {"started", "aborted"} \subseteq audited

\* asked_turns is always a history the engine produces: topics in the order
\* of the plan, none skipped, one probe at most for each
\* (interview_engine.py:8-10).  Overlapping answers may lose one of the
\* updates, never mix them.
AskedInPlanOrder == EngineWalk(plan, session.asked)

\* The sequence numbers of the transcript have no gaps, and a turn is asked
\* only after the turn before it has been answered.
TurnsFollowAnswers ==
  \A i \in DOMAIN rows : rows[i].seq > 0 =>
    \E j \in DOMAIN rows :
      /\ j < i
      /\ rows[j].seq = rows[i].seq - 1
      /\ rows[j].answer # Unanswered

\* A question reaches the candidate only in an active session, after granted
\* consent and with the latest pre-check passed ("every gate fails closed",
\* routers_interview.py:10-12).  It holds when requests do not overlap.
GatesFailClosed ==
  ServedQuestions # {} =>
    /\ session.status = "active"
    /\ \E i \in DOMAIN consents : consents[i]
    /\ session.prechecked
    /\ EvaluatePrecheck(session.report)

\* The stored transcript replays through the engine to the same turns
\* ("any transcript can be replayed to the same outcome",
\* interview_engine.py:12-14), and a completed one asked about every topic.
\* It holds when requests do not overlap.
TranscriptReplays ==
  LET n == Len(rows)
      completed == session.status = "completed"
  IN  /\ Len(session.asked) = IF completed THEN n - 1 ELSE n
      /\ \A i \in 1 .. n :
           /\ rows[i].seq = i - 1
           /\ Turn(rows[i].kind, rows[i].topic) =
                Decide(plan, SubSeq(session.asked, 1, i - 1),
                       IF i = 1 THEN 0 ELSE rows[i - 1].answer)
           /\ (rows[i].answer = Unanswered) <=> (i = n)
      /\ completed => AsksEveryTopic(plan, session.asked)

\* The answered turns; a sequence as long as they come before the open one.
Transcript ==
  [i \in {k \in DOMAIN rows : rows[k].answer # Unanswered} |->
     [kind |-> rows[i].kind, topic |-> rows[i].topic, answer |-> rows[i].answer]]

Lifecycle == INSTANCE InterviewLifecycle
               WITH phase <- session.status, transcript <- Transcript

\* Requests that do not overlap implement the lifecycle of the docstring
\* (routers_interview.py:5-8): one decision on consent, a gate that opens and
\* closes until the start, answers only while active, and an end that is
\* final.
ImplementsLifecycle == Lifecycle!Spec

-----------------------------------------------------------------------------
(* Liveness.                                                               *)

\* A candidate who keeps answering and does not give up, on a server that
\* finishes what it began.  Commits are strongly fair because an answer whose
\* transcription failed is posted again.
Fairness ==
  \A r \in Requests :
    /\ SF_vars(AnswerLoad(r))
    /\ SF_vars(AnswerOpen(r))
    /\ SF_vars(AnswerCommit(r))
    /\ WF_vars(FinishCommit(r))

FairSpec == Spec /\ Fairness

\* "After the final topic the loop closes and stops generating turns"
\* (interview_engine.py:10): an active interview ends, unless its link
\* expires first.
InterviewEnds == session.status = "active" ~> (Terminal(session.status) \/ expired)

=============================================================================
