---------------------------- MODULE Questionnaire ----------------------------
(***************************************************************************)
(* One invitation to a questionnaire: the candidate's page                 *)
(* (web-candidate/src/pages/Questionnaire.tsx), the public endpoint it     *)
(* saves to and the evaluation a recruiter asks for                        *)
(* (routers_questionnaire.py).                                             *)
(*                                                                         *)
(* The page saves 800 ms after the last keystroke and does not wait for    *)
(* the answer of one request before it sends the next, so requests may     *)
(* overlap and overtake each other.  On the server each is a transaction   *)
(* at READ COMMITTED of three steps: the SELECT of the invitation, the     *)
(* SELECT of the response row, and the commit of what it wrote.            *)
(***************************************************************************)
EXTENDS Integers, Sequences, FiniteSets

CONSTANTS
  Requests,     \* requests that may be in progress at the same time
  Required,     \* the required questions; the others decide nothing
  Texts,        \* what a candidate may answer to a question,
  Blank,        \* the answer of a field that was emptied
  Unanswered,   \* and none: the question is not in the answers
  Forms,        \* the answers a candidate may have typed
  None,
  MaxResponses  \* bound: no more rows of questionnaire_responses than this

ASSUME TextsAssumption == Blank \notin Texts /\ Unanswered \notin Texts
ASSUME FormsAssumption ==
  /\ Forms \subseteq [Required -> Texts \union {Blank, Unanswered}]
  /\ [q \in Required |-> Unanswered] \in Forms
  /\ None \notin Forms
ASSUME ResponsesAssumption == MaxResponses \in Nat

VARIABLES
  page,         \* what the candidate's browser holds
  invite,       \* the mutable columns of questionnaire_invites
  responses,    \* the rows of questionnaire_responses, in commit order
  req,          \* per request: its progress and what it has loaded
  overlapped    \* history: two of the page's requests overlapped

vars == <<page, invite, responses, req, overlapped>>

-----------------------------------------------------------------------------

Empty == [q \in Required |-> Unanswered]

\* The form, the answers the timer will save, and whether the label says that
\* the last save failed.
Pages ==
  [open : BOOLEAN, form : Forms, timer : Forms \union {None}, failed : BOOLEAN]

Invites == [completed : BOOLEAN, expired : BOOLEAN]

\* ai_evaluation is abstracted to the answers it is about.
Responses ==
  [answers : Forms, history : Seq(Forms), missing : SUBSET Required,
   submitted : BOOLEAN, evaluation : Forms \union {None}]

Idle == [op |-> "idle"]

\* A save or submit on its way, past the checks of the invitation, and with
\* its row loaded (none: row 0); an evaluation waiting for the gateway.
Sent == [op : {"sent", "checked"}, answers : Forms, submit : BOOLEAN]
Loaded ==
  [op : {"loaded"}, answers : Forms, submit : BOOLEAN, row : Nat,
   loaded : Responses \union {None}]
Evaluating == [op : {"evaluating"}, answers : Forms, row : Nat]

TypeOK ==
  /\ page \in Pages
  /\ invite \in Invites
  /\ responses \in Seq(Responses)
  /\ req \in [Requests -> Sent \union Loaded \union Evaluating \union {Idle}]
  /\ overlapped \in BOOLEAN

At(r, op) == req[r].op = op

\* A request of the page is in progress.
InFlight == \E r \in Requests : req[r].op \in {"sent", "checked", "loaded"}

\* Mutant: a field that was emptied counts as an answer.
UnansweredOnly(answers) == {q \in Required : answers[q] = Unanswered}

\* missing_required_answers
MissingRequired(answers) == {q \in Required : answers[q] \in {Blank, Unanswered}}

Init ==
  /\ page = [open |-> TRUE, form |-> Empty, timer |-> None, failed |-> FALSE]
  /\ invite = [completed |-> FALSE, expired |-> FALSE]
  /\ responses = << >>
  /\ req = [r \in Requests |-> Idle]
  /\ overlapped = FALSE

-----------------------------------------------------------------------------
(* The page.                                                               *)

\* Mutant: a timer that runs is not started anew.
TypeOnce(form) ==
  /\ page.open
  /\ page' = [page EXCEPT !.form = form, !.timer = IF @ = None THEN form ELSE @]
  /\ UNCHANGED <<invite, responses, req, overlapped>>

\* setAnswer: the timer starts anew with the answers as they are now.
Type(form) ==
  /\ page.open
  /\ page' = [page EXCEPT !.form = form, !.timer = form]
  /\ UNCHANGED <<invite, responses, req, overlapped>>

Send(r, answers, submit) ==
  /\ At(r, "idle")
  /\ req' = [req EXCEPT ![r] = [op |-> "sent", answers |-> answers, submit |-> submit]]
  /\ overlapped' = (overlapped \/ InFlight)
  /\ UNCHANGED <<invite, responses>>

\* The timer fires; it does so on the last screen, too.
Autosave(r) ==
  /\ page.timer # None
  /\ Send(r, page.timer, FALSE)
  /\ page' = [page EXCEPT !.timer = None]

\* The button: a save that waits for its timer keeps waiting.
Submit(r) ==
  /\ page.open
  /\ Send(r, page.form, TRUE)
  /\ UNCHANGED page

\* The page is loaded again with the stored answers, or tells why it cannot.
Reload ==
  /\ page' = [open |-> ~ invite.completed /\ ~ invite.expired /\ Len(responses) <= 1,
              form |-> IF Len(responses) = 1 THEN responses[1].answers ELSE Empty,
              timer |-> None, failed |-> FALSE]
  /\ overlapped' = (overlapped \/ InFlight)
  /\ UNCHANGED <<invite, responses, req>>

-----------------------------------------------------------------------------
(* upsert_response                                                         *)

\* The request is answered with an error and leaves nothing behind; the page
\* shows a failed save in its label.
Fails(r) ==
  /\ page' = [page EXCEPT !.failed = @ \/ ~ req[r].submit]
  /\ req' = [req EXCEPT ![r] = Idle]
  /\ UNCHANGED <<invite, responses, overlapped>>

\* Mutant: a completed invitation still takes answers.
CheckExpiry(r) ==
  /\ At(r, "sent")
  /\ IF invite.expired
       THEN Fails(r)
       ELSE /\ req' = [req EXCEPT ![r].op = "checked"]
            /\ UNCHANGED <<page, invite, responses, overlapped>>

\* The SELECT of the invitation.
Check(r) ==
  /\ At(r, "sent")
  /\ IF invite.completed \/ invite.expired
       THEN Fails(r)
       ELSE /\ req' = [req EXCEPT ![r].op = "checked"]
            /\ UNCHANGED <<page, invite, responses, overlapped>>

\* The SELECT of the response row, which is an error when there are two.
Load(r) ==
  /\ At(r, "checked")
  /\ IF Len(responses) > 1
       THEN Fails(r)
       ELSE /\ req' = [req EXCEPT ![r] =
                 [op |-> "loaded", answers |-> @.answers, submit |-> @.submit,
                  row |-> Len(responses),
                  loaded |-> IF responses = << >> THEN None ELSE responses[1]]]
            /\ UNCHANGED <<page, invite, responses, overlapped>>

NewResponse(answers, submit) ==
  [answers |-> answers, history |-> <<answers>>, missing |-> MissingRequired(answers),
   submitted |-> submit, evaluation |-> None]

Column(current, loaded, assigned) ==
  IF assigned = loaded THEN current ELSE assigned

\* The UPDATE: the columns assigned a new value.  The entry appended to the
\* loaded history list in place is none: the column's type does not track it.
Updated(current, loaded, answers, submit) ==
  [current EXCEPT
     !.answers = Column(@, loaded.answers, answers),
     !.missing = Column(@, loaded.missing, MissingRequired(answers)),
     !.submitted = Column(@, loaded.submitted, loaded.submitted \/ submit)]

Accepted(r) == req[r].submit => MissingRequired(req[r].answers) = {}

\* Mutant: the invitation is not marked as used.
SaveLeavesInviteOpen(r) ==
  LET i == req[r].row
      answers == req[r].answers
      submit == req[r].submit
  IN  /\ At(r, "loaded")
      /\ Accepted(r)
      /\ responses' = IF i = 0
           THEN Append(responses, NewResponse(answers, submit))
           ELSE [responses EXCEPT ![i] = Updated(@, req[r].loaded, answers, submit)]
      /\ Len(responses') <= MaxResponses
      /\ page' = [page EXCEPT !.open = @ /\ ~ submit, !.failed = @ /\ submit]
      /\ req' = [req EXCEPT ![r] = Idle]
      /\ UNCHANGED <<invite, overlapped>>

\* The commit, and the answer the page gets.
Save(r) ==
  LET i == req[r].row
      answers == req[r].answers
      submit == req[r].submit
  IN  /\ At(r, "loaded")
      /\ Accepted(r)
      /\ responses' = IF i = 0
           THEN Append(responses, NewResponse(answers, submit))
           ELSE [responses EXCEPT ![i] = Updated(@, req[r].loaded, answers, submit)]
      /\ Len(responses') <= MaxResponses
      /\ invite' = [invite EXCEPT !.completed = @ \/ submit]
      /\ page' = [page EXCEPT !.open = @ /\ ~ submit, !.failed = @ /\ submit]
      /\ req' = [req EXCEPT ![r] = Idle]
      /\ UNCHANGED overlapped

\* Answers are missing, or the request fails.
Reject(r) ==
  /\ req[r].op \in {"checked", "loaded"}
  /\ Fails(r)

-----------------------------------------------------------------------------
(* evaluate_response                                                       *)

\* Mutant: answers that were not submitted are evaluated.
EvaluateLoadAny(r) ==
  \E i \in DOMAIN responses :
    /\ At(r, "idle")
    /\ req' = [req EXCEPT ![r] =
         [op |-> "evaluating", answers |-> responses[i].answers, row |-> i]]
    /\ UNCHANGED <<page, invite, responses, overlapped>>

EvaluateLoad(r) ==
  \E i \in DOMAIN responses :
    /\ At(r, "idle")
    /\ responses[i].submitted
    /\ req' = [req EXCEPT ![r] =
         [op |-> "evaluating", answers |-> responses[i].answers, row |-> i]]
    /\ UNCHANGED <<page, invite, responses, overlapped>>

\* The gateway has answered, up to 30 s later.
EvaluateCommit(r) ==
  /\ At(r, "evaluating")
  /\ responses' = [responses EXCEPT ![req[r].row].evaluation = req[r].answers]
  /\ req' = [req EXCEPT ![r] = Idle]
  /\ UNCHANGED <<page, invite, overlapped>>

EvaluateFails(r) ==
  /\ At(r, "evaluating")
  /\ req' = [req EXCEPT ![r] = Idle]
  /\ UNCHANGED <<page, invite, responses, overlapped>>

Expire ==
  /\ ~ invite.expired
  /\ invite' = [invite EXCEPT !.expired = TRUE]
  /\ UNCHANGED <<page, responses, req, overlapped>>

-----------------------------------------------------------------------------

Candidate(r) == Autosave(r) \/ Submit(r)

Serve(r) ==
  \/ Check(r)        \/ Load(r)           \/ Save(r)          \/ Reject(r)
  \/ EvaluateLoad(r) \/ EvaluateCommit(r) \/ EvaluateFails(r)

Next ==
  \/ \E form \in Forms : Type(form)
  \/ Reload
  \/ \E r \in Requests : Candidate(r) \/ Serve(r)
  \/ Expire

Spec == Init /\ [][Next]_vars

-----------------------------------------------------------------------------
(* Properties.                                                             *)

\* However requests overlap, the invitation is used up exactly when some
\* response was submitted: a link never dies without one, and staff never see
\* a submitted response whose link still takes answers
\* (routers_questionnaire.py:318-320).
CompletedMeansSubmitted ==
  invite.completed <=> \E i \in DOMAIN responses : responses[i].submitted

\* As long as the page's requests do not overlap there is one response, its
\* list of missing questions is the one of its answers, and a submitted one
\* has a text for every required question (README.md:560-561).
OneCompleteResponse ==
  ~ overlapped =>
    /\ Len(responses) <= 1
    /\ \A i \in DOMAIN responses :
         LET row == responses[i]
         IN  /\ row.missing = {q \in Required : row.answers[q] \notin Texts}
             /\ row.submitted => row.missing = {}

\* Submitted answers are final ("can only be used once",
\* routers_questionnaire.py:221), unless the page's requests overlapped.
SubmittedIsFinal ==
  [][\A i \in DOMAIN responses :
       ~ overlapped' /\ responses[i].submitted =>
         /\ responses'[i].submitted
         /\ responses'[i].answers = responses[i].answers]_vars

\* "Your answers save automatically as you go" (Questionnaire.tsx:243): once
\* the page has nothing left to send, and says nothing of a failed save, what
\* the candidate sees is what is stored, unless its requests overlapped.
AutosaveSettles ==
  (page.open /\ page.timer = None /\ ~ page.failed /\ ~ InFlight /\ ~ overlapped)
    => page.form = IF responses = << >> THEN Empty ELSE responses[1].answers

\* The evaluation is one of the answers that are stored, although the gateway
\* took its time, unless the page's requests overlapped.
EvaluationIsCurrent ==
  ~ overlapped =>
    \A i \in DOMAIN responses :
      responses[i].evaluation \in {None, responses[i].answers}

\* "Every save appends to an `history` array on the response row"
\* (README.md:561): stored answers never change without an entry more.
EverySaveRetained ==
  [][\A i \in DOMAIN responses :
       responses'[i].answers # responses[i].answers =>
         Len(responses'[i].history) > Len(responses[i].history)]_vars

=============================================================================
