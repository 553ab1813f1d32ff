# AIVA verification project

TLA+ models of the AIVA interview platform, model-checked with TLC on small
instances and, for the properties that matter most, proved with TLAPS for every
value of the constants. The reference is always the code; line numbers are those
of the repository this directory is kept with.

Contents: [the system](#the-system) · [the modules](#the-modules) ·
[conventions](#conventions) · [the runs](#the-runs) · [the proofs](#the-proofs) ·
[what disagrees with the documents](#where-the-code-and-the-documents-disagree) ·
[what is left out](#what-is-left-out) · [plan](#plan)

How to run, in this directory:

    tlc -workers 2 -config AuditChain.cfg AuditChainMC.tla
    tlapm AuditChain_proofs.tla

PROJECT.json lists every run with its module, config and properties, maps every
definition to the lines it models, and names for every property a mutant of a
definition that breaks it.

## The system

AIVA is a FastAPI service over PostgreSQL (`apps/api`), an AI gateway that calls a
language model (`services/ai-gateway`), a sandbox that runs candidates' code
(`services/sandbox-runner`) and two React portals. Nearly everything that can go
wrong in it is of one kind: **a request is one database transaction at READ
COMMITTED that begins with a SELECT, decides on what it read, and commits after its
handler returned** (`deps.py:76-96`), and nothing locks the rows it decided on.
There is no version column and, but for an organization's name, a user's e-mail and
the token hashes, no unique constraint. SQLAlchemy's UPDATE writes the columns whose
value differs from the one loaded, so two overlapping requests can each keep a part.

| Component | State | Operations | What makes it hard |
|---|---|---|---|
| Interview sessions (`routers_interview.py`, `precheck.py`) | the session row (status, report, asked turns), consents, turns, audit entries | consent, pre-check, start, turn, finish; the link expires | every pair of requests on one token may overlap; the transcription of an answer takes seconds between read and write |
| Adaptive engine (`interview_engine.py`) | none: pure functions of the plan and the history | build a plan, decide the next turn | budget of probes, replays of transcripts, termination |
| Audit log (`audit.py`) | one hash chain per organization in `audit_events` | record an event, verify a chain | two transactions read the same last event; rollback after the sequence was taken; edits from outside |
| Login sessions (`auth_service.py`, `routers_auth.py`) | `refresh_tokens`, grouped in families | login, refresh, expiry | the same token presented twice at once; a rotation racing the revocation of its family |
| Slots (`scheduling.py`) | none: pure function of a rule and a zone | generate slots | the clock changes inside a day, a slot or a gap |
| Scheduling and reminders (`routers_scheduling.py`, `routers_reminders.py`) | `interview_slots`, e-mails already sent | generate, book, remind | e-mail leaves before the commit and cannot be taken back; overlapping calls, bookings and reminder runs |
| Questionnaires (`routers_questionnaire.py`, `Questionnaire.tsx`) | the invitation, the response row, the page's form and timer | type, autosave, submit, reload, evaluate | two first saves; a late autosave; an evaluation of answers that may change meanwhile |
| Sandbox (`executors.py`, `main.py`) | the uid pool and its sleepers, the cached isolation verdict, per run a program and its pipes | execute, and the threads that serve a run | lost wakeups, full pipes, exits racing the kill, runs that never end |
| Coding workspace (`routers_workspace.py`, `Workspace.tsx`) | tasks, snapshots, executions; the page's editor, timer and requests | type, autosave, choose a task, run | runs that take 30 s and may outlive the interview, autosaves that overtake each other, code that arrives late |
| Whiteboard and discussion (the same files, `InterviewSessionDetail.tsx`) | strokes and messages; what each page shows | post, poll | polls and posts of one page cross |
| Scoring (`text_extract.py`, `matching.py`, `scoring.py`, `scoring_audit.py`) | none: pure functions of a document, a description and a profile | extract, check, weigh, fingerprint, look for drift | offsets and pages, rounding, what a fingerprint tells apart |
| Resumes and requisitions (`routers_resume.py`, `routers_org.py`) | one requisition, its resumes and descriptions, profiles, scoring runs | upload, describe, create a profile, score, update, delete | duplicates and versions decided on what was read; scoring takes six gateway calls |
| Erasure (`routers_dsar.py`, `routers_retention.py`, `routers_evaluation.py`) | a candidate's rows in every table | erase on request or by age; write by a link; generate a report | eight SELECTs one after the other, while requests that loaded before commit in between |
| The rest | staff, FAQ, dashboard, integrity signals, gateway, portals | insert or read | see [what is left out](#what-is-left-out) |

They interact through the database (a session's handlers and `record_event` are one
transaction), by calls inside a request (the gateway, the sandbox, SMTP) and by
links in e-mails (a token for a session, an invitation or a slot). No component
calls another through a queue: everything a component can observe of another is a
committed row or the result of a call. That is why the modules below can each give
the other parties as nondeterministic inputs.

What makes each component correct, in a sentence: an interview shows no question
before granted consent and a passed pre-check, its transcript replays, and it ends;
the audit chain of an untouched log verifies and of a touched one does not; a token
is rotated once and a reused one kills its family and nothing else; a slot is held by
at most one candidate, who was told so, and reminders leave once; an invitation is
used up exactly when a complete response was submitted, and what the page shows as
saved is what is stored; no two programs share a uid, every result is a faithful
record, and every run ends; what the candidate typed last for a task is what a
reload and the interviewer see, and no write is stored that began after the commit that
ended the interview; a page that shares a board ends up with the whole of it; equal inputs
are scored equally, and the score shown is one against the current description; after an
erasure nothing it could have found is left.

## The modules

    InterviewEngine  <--  InterviewSession  --implements-->  InterviewLifecycle
    SlotGeneration   <--  Scheduling
    Scoring  <--  ScreeningRows  <--  Screening
    AuditChain            RefreshTokens       Questionnaire       SandboxRunner
    Workspace             Whiteboard          Erasure

Each component `X` has `X.tla` (state, actions, properties), `XMC.tla` (the sets an
instance is made of) with one .cfg per run, and `X_proofs.tla` with its theorems. Two
components share a module of proofs with another one: Whiteboard, a tab of the same page,
with Workspace, and Screening, which writes the rows that are erased, with Erasure. There
they come as instances (`Board`, `Screen`), since each module has an `Init` and requests of
its own; ScreeningRows holds the state of Screening, and the properties of it, that the
component and its proofs have in common.

**InterviewEngine** translates `build_plan` and `decide` as operators: a plan is a
sequence of topics, each with the number of points an answer should mention and
whether it may be probed; an answer is the number of points it mentions, since that
is all `decide` reads of it. `EngineWalk` and `AsksEveryTopic` are the reference
definitions of a history the engine may produce.

**InterviewSession** has the mutable columns of one session row (`session`), its
consents, turns and audited actions, whether its link has expired, and for each
request what it has loaded. Each endpoint is a `Load` (its SELECT with the checks
that follow it), for an answer also `AnswerOpen` (the SELECT of the open turn after
the transcription), and a `Commit` with everything the handler writes; `Rollback`
ends a request that failed. `Flush` writes the columns that differ from the loaded
row. With one element in `Requests` requests never overlap.

**InterviewLifecycle** is the abstract specification: a phase and a transcript of
answered turns, from the lifecycle in the docstring of `routers_interview.py`.
`InterviewSession` without overlap implements it with phase = `session.status` and
transcript = the answered rows.

**AuditChain** models `record_event` as the SELECT of the organization's last event
and the INSERT that takes the next value of the sequence, inside transactions that
may record several events and commit or roll back, and `verify_chain` as the operator
`VerifyChain`. `EntryHash` is injective. `Edit` and `Delete` stand for whoever can
write the table behind the program's back.

**RefreshTokens** models a refresh as its SELECT, its UPDATE and its commit. An
UPDATE at READ COMMITTED works on the rows committed when it began, waits for a row
another transaction has written and then looks at it again: `Claim` is the first
half of the conditional UPDATE of a rotation, `Rotate` its commit with the child,
`Revoke` and `RevokeCommit` those of a family's revocation.

**SlotGeneration** translates `generate_slots` with wall times, UTC and one clock
transition per zone, in quarters of an hour; `zoneinfo`'s rules for gaps and
overlaps are the operators `ToUtc` and `FromUtc`. **Scheduling** extends it with the
rows of one requisition, the calls that generate, book and remind, the clock and the
set of e-mails that have left. Its history variable `excuse` names the mishaps a
property must allow for: e-mail whose transaction was rolled back, slots two
bookings contested, calls that crossed.

**Questionnaire** models one invitation from both ends: the page with its form and
its 800 ms timer (`Type`, `Autosave`, `Submit`, `Reload`) and `upsert_response` as
the SELECT of the invitation, the SELECT of the row and the commit (`Check`,
`Load`, `Save`), plus `evaluate_response` around its gateway call. Answers are
abstracted to the required questions, each with a text, blank or not answered.

**SandboxRunner** models `UidPool` (asyncio.Queue: a release wakes the first sleeper,
which takes the uid only when it resumes, unless a late comer was faster), the worker
thread of a run from the isolation probe to the answer (`Begin` ... `Return`), a
reader thread for each stream (`Pump`) and the candidate's program, which may read,
write or exit at any time, or never. Bytes are counted in small units.

**Workspace** models the code editor from both ends. The page (`CodeTab`) has a task, a
text, an 800 ms timer, which holds the task and the text of the keystroke that set it
(the callback closes over both, `Workspace.tsx:194-195`), and at most one run it waits
for; `Open`, `Switch`, `Type`, `Save`, `Run` and `Arrive` are its handlers and effects. A
write of the API is `Stamp` (its transaction begins and fixes `created_at`), `Start` (the
session is loaded and must be active) and `Commit` (the snapshot, and the execution once
the sandbox has answered); `Find` is the SELECT of the latest snapshot. The interview's
own requests are those of InterviewSession; here its status changes when they commit:
`Begin`, `End`, and `SetBack` for a pre-check that overlapped the start. Between the
`finished_at` that `finish_interview` sets (`routers_interview.py:674`) and its commit,
requests go on to find the session active, as they do here before `End`. A text is the
task whose code it is and the number of the keystroke that made it, which is what tells
lost or misplaced text from any other. What the sandbox answers does not matter here:
that is SandboxRunner. The ghost `page.code` is the task whose code came last into the
editor; the history variable `misread` has the tasks on which the candidate used the
editor while that was another one, `closed` the last stamp before the interview stopped
being active, and `excuse` names what went wrong: a page used before its code had
arrived, an edit dropped with the timer, a task left with a request on its way, a save
that failed, one overtaken by an older text.

**Whiteboard** models the whiteboard and the discussion, which differ in how a page posts
and in what it does after. A stroke is drawn on the canvas while the pointer moves, before
anything is sent (`Draw`: `pen` is the stroke being drawn, `view.ink` what is on the canvas
beside the stored strokes), is posted when the pointer is lifted (`Post`) and added once it
is answered (`Acknowledge`); after a message the page asks for the list (`Follow`). Whatever
arrives redraws the canvas without the ink; a post that is refused or lost (`Lose`) redraws
nothing. Strokes are numbered when they are begun and messages when they are sent. One page
of either side is modelled in full, with several requests on their way whose answers arrive
in any order; of the other page only that its posts commit.

**Scoring** translates the functions of extraction, checks, weighing and drift as
operators: a document is the lengths of its pages and the marks (a skill, a claim of
years) written on them, a fingerprint is the record of what is hashed. **ScreeningRows**
has the rows of one requisition and how they are read, **Screening** every request that
writes them: each is the read it decides on (`Begin...`, for scoring also `LoadJob`) and
its commit. The gateway's judgements are chosen freely. Fields named "ghost" are history.

**Erasure** models one erasure as the sequence of SELECTs of `_find_candidate_records`,
in the order of `Searched`, each with the rows it finds under those found before, and
the commit that redacts them (`Search`, `Erase`); `Eligible` is the choice a retention
run makes. Around it staff add rows with an address (`Add`), candidates write by their
links (`BeginWrite`, `Write`), and a report copies an address it loaded 30 s ago
(`BeginEvaluate`, `Evaluate`). Of the contents of a row only whether it is still
personal is kept. It composes the tables of the other modules in that abstraction.

## Conventions

- An action models a handler between two points at which other requests can
  commit. Everything the handler writes is in its commit action.
- Handlers that only insert a row that nothing reads back, log lines, wording and
  layout are left out. Time is not counted, except in Scheduling: what may expire may
  expire at any moment.
- History variables (`overlapped`, `raced`, `recorded`, `excuse`, `closed`, `misread`, ...) and ghost fields
  are read by properties only, with three exceptions that are bounds: the length of
  `calls` of Scheduling, the number of kinds of `excuse` in Workspace, and `typed` of
  Workspace, which numbers the keystrokes.
- Definitions commented "Mutant" change a definition the way a plausible bug would;
  no specification uses them. They are what shows that a property can fail.
- Bounds are constants named `Max...` and appear as guards of the actions that grow
  something. No run uses a state constraint.
- Most runs switch deadlock checking off (`whiteboard` does not: a page polls for
  ever): a session that is over, a chain at its
  bound or a pool without requests has nothing left to do, which is how these
  systems rest. That nobody waits for ever is stated as liveness (`InterviewEnds`,
  `EveryRunEnds`, `PagesConverge`) or as an invariant (`NoSleeperMissesAUid`) instead.

## The runs

Eleven runs pass. One shows a counterexample to what a document promises; the other
[disagreements](#where-the-code-and-the-documents-disagree) say how they can be seen.
States are distinct ones, times those of two workers.

| Run | Instance | Shows | States, time |
|---|---|---|---|
| `session_serial` | one request at a time, all 40 inputs of `build_plan`, one report per rule of `evaluate_precheck` at its boundary, up to 9 turn rows | `GatesFailClosed`, `TranscriptReplays`, the refinement `ImplementsLifecycle`, the liveness `InterviewEnds` | 46,154, 19 s |
| `session_overlap` | two requests, one technical topic and the candidate's own questions, a good and a failing report, up to 4 rows | `ConsentAndPrecheckOnRecord`, `StatusAudited`, `AskedInPlanOrder`, `TurnsFollowAnswers`: what two overlapping requests cannot break | 570,266, 15 s |
| `audit_chain` | two transactions, two organizations, two contents, three events, any edit or deletion of a past event | `SerialChainIntact`, `TamperEvident`, `EveryLinkIsRecorded` | 53,414, 6 s |
| `refresh_tokens` | three refreshes, two families, four tokens | `OneHeir`, `ReuseKillsFamily`, `RevocationIsScoped` | 389,971, 22 s |
| `scheduling` | two staff requests, two candidates, two calls to generate, slots across a skipped and a repeated hour, three e-mails, the clock a day and an hour before | `SlotsDisjoint`, `NoTwins`, `BookedIsConfirmed`, `ConfirmedHolds`, `RemindersAgree` | 1,074,350, 58 s |
| `sandbox` | three runs, one uid, one worker thread, outputs and inputs below, at and above every buffer | `UidsExclusive`, `NoSleeperMissesAUid`, `ResultFaithful`, the liveness `EveryRunEnds` | 168,810, 21 s |
| `questionnaire` | one page, two requests, one required question, two response rows | `CompletedMeansSubmitted`, `OneCompleteResponse`, `AutosaveSettles`, `EvaluationIsCurrent`, the step property `SubmittedIsFinal` | 1,116,553, 36 s |
| `questionnaire_history` | the same, one request at a time | a save that leaves no entry in the stored history | violation |
| `workspace` | one page, two tasks, two requests, two keystrokes, four transactions, one kind of mishap | `NothingTypedIsLost`, `TextStaysWithItsTask`, `RecordedWhileActive` | 3,107,407, 118 s |
| `whiteboard` | a page of either side, of the whiteboard and of the discussion, two requests, three rows | the liveness `PagesConverge`, the step property `SettledUntilPosted` | 88,491, 33 s |
| `screening` | two requests at a time, four in all, documents of two and of three pages, two descriptions, two profiles of one name, two judgements | `DriftHasACause`, `ShownRunIsCurrent`, `LoneWritersCount`, `FieldsNameTheirPage` | 1,115,648, 61 s |
| `erasure` | two candidates, two requests at a time, five rows and requests, one candidate per retention run | `NothingIsMissed`, `ReportsForget`, `OldestFirst` | 1,813,845, 68 s |

Each module has one type invariant, `TypeOK`; all are proved (see below). Where it is not
among a run's properties TLC finds it true when it is added to the configuration.

### Why the bounds are enough

- *Two requests.* A defect of requests that overlap is between one that read and one
  that wrote in between; the second conflict on the same row is another instance of
  the first. RefreshTokens has three, because a rotation, a reuse and the revocation
  it starts are three transactions. The theorems below hold for any number.
- *Plans.* `BuildPlan` caps its list of gaps, of verified skills and the question of
  experience; the 40 inputs reach every shape of plan and every cap. Without overlap
  none of them has more than eight turn rows (three topics with a probe each, the
  final topic, the closing turn), so nine never cuts an interview short. The overlapping
  run keeps the smallest plan with a probe and the final topic, and one row more than it needs.
- *Events.* Three are the least with a past event that has a predecessor and a
  successor. Two contents are an event and its edited form.
- *Slots.* Two slots around the transition are the ones a transition can disturb: one
  that spans it and one that starts in it. Two calls are a regeneration over slots
  that may be booked, or two calls that cross; two rows are all slots of the repeated
  hour, or a slot of the skipped one and its twin. Three e-mails are a confirmation, its
  reminder and one mishap.
- *Pool.* One uid for three runs has a holder, a sleeper and a late comer, the least
  for a lost wakeup or an overtaken sleeper; one worker thread is the least that makes
  a run with a uid wait. `BufferSize`, `PipeCapacity` and `OutputCap` are small units
  in the order of the real ones, and programs write less, as much and more than each.
- *Questionnaire.* One required question is answered, blank or missing in every form
  of the page; two texts are a saved and a newer one. Two rows are the pair that two
  overlapping first saves insert.
- *Workspace.* Two tasks are one chosen and one left; two keystrokes are a saved text
  and a newer one; two requests an autosave and a run that cross, or a write and a load
  of code. Four transactions are both tasks and two writes, or one task and three writes;
  the interview's start and end take no stamp. One kind of mishap at a time keeps
  every property's exceptions apart: each says which one it allows for.
- *Whiteboard.* Two requests are a poll and a post that cross, or two posts. Three rows
  are an own one, another's, and one that follows.
- *Screening.* Four requests after an initial state that may already have a resume, a
  description and a profile are: a new description between two runs; two runs of two
  profiles; two pairs of requests that cross. The documents have marks at the first and
  last positions of their pages, on both sides of what the missing joints shift.
- *Erasure.* Five steps are, for instance, a resume, a report being generated, an
  erasure and one more row and erasure: the longest chain that a second erasure has to
  see. A limit of one candidate of two is the least that leaves somebody.

### Fairness

Safety properties need none. Three runs check liveness:

- `session_serial` assumes a candidate who keeps answering and a server that finishes
  what it began: strong fairness of the three steps of an answer, since an answer
  whose transcription failed rolls back and is posted again, and weak fairness of the
  commit of a finish already loaded. Nothing makes a candidate finish, and the link
  may expire at any time, which the property allows for. That the interview then ends
  is the engine's doing: its budget of probes and its list of topics are finite.
- `sandbox` assumes that the event loop, the worker threads and the timer go on: weak
  fairness of `Serve` and of the readers' `Pump`. A candidate's program has no
  fairness whatever: it may compute, read, write, exit or hang. `Execute` has none
  either: requests need not come. Inputs fit into a pipe in this run; the
  sixth disagreement below is what happens when they do not.
- `whiteboard` assumes what `setInterval` gives a page that stays open: it keeps polling
  (strong fairness of `Poll`; a poll does not wait for the last one), and of infinitely
  many polls some are served and heard (strong fairness of `See` and `Show`), while no
  request is on its way for ever (weak fairness of `Lose`). Drawing, posts, and
  the interview's progress have no fairness.

## The proofs

TLC checks the instances above; TLAPS proves the following for every value of the
constants: any number of requests, transactions, families, candidates, tasks, runs or
uids, any plans, reports, rules, zones, documents and answers, and any bounds. The only
assumptions are the named `ASSUME`s of the modules: bounds are natural numbers, a plan has
no topic twice (proved of what `BuildPlan` returns), `None`, `NoUid`, `NoOne`, `Blank` and
`Unanswered` are values of their own, an office is a rule and a zone, uids and runs are
finitely many, the sizes of buffers and the lengths of pages natural numbers, and a mark is
on its page. TLC evaluates them in every run. Some theorems have hypotheses of their own:

- `ClosedGates`, `Replays` and `Implements` are about requests that do not overlap
  (`Serial`), as the run `session_serial` is; any number of requests then follow one
  another. What fails when they do overlap is the first of the
  [disagreements](#where-the-code-and-the-documents-disagree).
- `RunsNeverAllWait` needs at least one uid and one worker thread, and inputs that fit into
  a pipe; what happens to larger ones is the sixth disagreement.
- `ScoringIsFair` needs what `validate_profile`, the types of the request bodies and the
  gateway's contract let in (`ValidatedInputs`): finitely many dimensions and skills,
  weights that are not negative and not all zero, scores and thresholds in percent.
- `BoardIsTyped` and `ScreeningIsTyped` need that their bounds are natural numbers: an
  assumption of Whiteboard and Screening, which reach their proofs as instances and so
  without their assumptions.

| Module | Theorem | Property |
|---|---|---|
| InterviewSession_proofs | `TypeCorrect`, `GatesOnRecord`, `StatusOnRecord` | `TypeOK`, `ConsentAndPrecheckOnRecord`, `StatusAudited` |
| | `WalksThePlan`, `AnsweredInTurn` | `AskedInPlanOrder`, `TurnsFollowAnswers` |
| | `TurnsAreBounded`, `BuiltPlansArePlans` | two turns per topic at most; the assumption on plans holds of every `BuildPlan` |
| | `ClosedGates`, `Replays`, `Implements` (under `Serial`) | `GatesFailClosed`, `TranscriptReplays`, `ImplementsLifecycle` |
| AuditChain_proofs | `TypeCorrect`, `SerialChains`, `LinksRecorded`, `EditsShow` | `TypeOK`, `SerialChainIntact`, `EveryLinkIsRecorded`, `TamperEvident` |
| RefreshTokens_proofs | `TypeCorrect`, `RotatedOnce`, `RevokedForGood`, `RevokedInItsFamily` | `TypeOK`, `OneHeir`, `ReuseKillsFamily`, `RevocationIsScoped` |
| Scheduling_proofs | `TypeCorrect`, `SlotsNeverOverlap`, `HoldersWereTold` | `TypeOK`, `SlotsDisjoint`, `BookedIsConfirmed` |
| | `OpenSlotsDiffer`, `WhoWasToldHolds`, `RemindersAreOnRecord` | `NoTwins`, `ConfirmedHolds`, `RemindersAgree` |
| SandboxRunner_proofs | `TypeCorrect`, `UidsAreExclusive`, `NobodyMissesAUid`, `AnswersAreFaithful` | `TypeOK`, `UidsExclusive`, `NoSleeperMissesAUid`, `ResultFaithful` |
| | `RunsNeverAllWait` | what `EveryRunEnds` rests on beside fairness: some run can go on |
| Questionnaire_proofs | `TypeCorrect`, `UsedUpBySubmitting`, `OneResponse` | `TypeOK`, `CompletedMeansSubmitted`, `OneCompleteResponse` |
| | `AutosavesSettle`, `EvaluatedAsStored`, `FinalOnceSubmitted` | `AutosaveSettles`, `EvaluationIsCurrent`, the step property `SubmittedIsFinal` |
| Workspace_proofs | `TypeCorrect`, `RecordsAreOfTheInterview`, `TextIsOfItsTask`, `TypedTextIsKept` | `TypeOK`, `RecordedWhileActive`, `TextStaysWithItsTask`, `NothingTypedIsLost` |
| | `BoardIsTyped`, `BoardStaysSettled` (of Whiteboard) | `TypeOK`, the step property `SettledUntilPosted` |
| Erasure_proofs | `TypeCorrect`, `ReportsWereBegunBefore`, `ErasuresMissNothing`, `RetentionTakesTheOldest` | `TypeOK`, `ReportsForget`, `NothingIsMissed`, `OldestFirst` |
| | `ScreeningIsTyped`, `DriftIsExplained`, `LoneWritersAreRight` (of Screening) | `TypeOK`, `DriftHasACause`, `LoneWritersCount` |
| | `TheShownRunIsCurrent`, `FieldsAreLocated` (of Screening) | `ShownRunIsCurrent`, `FieldsNameTheirPage` |
| | `ScoringIsFair` (of Screening) | totals are means, and whoever is nowhere behind is not ranked behind |

Nearly all of these are inductive only together with what a request in progress
remembers: what it loaded may be stale when it commits, so the invariant has to say
in which way it may be.

**InterviewSession.** `TypeOK` alone is not inductive: an answer commits into the row
it loaded, so `RowsLoaded` adds that this row exists (rows are only added). `GateInv`
says for every status which consents and audit entries must be on record, not only of
the session row but of the row every request has loaded (`Backed`), and that an
operation loaded a status it may begin from. A stale commit then writes a status that
its own load justifies. Both theorems follow from `GateInv`, since consents and audit
entries are only ever added.

`WalkInv` extends the engine's walk to the history every request has loaded: a commit
either leaves the stored history alone or replaces it by one that continues what it had
loaded (`CommitWalk`), and `Decide` continues a walk. A walk has asked at most two turns
per topic when it comes to the next one (`WalkPace`), so `TurnsAreBounded`: for plans of
four topics, which is what `BuildPlan` gives at most (`BuiltPlansArePlans`), eight turns and
the closing one, the nine rows of `session_serial`. For requests that do not overlap,
`SnapInv` says that what a request has loaded is what is stored, so every step is one of
six moves of the session (`ConsentDecided` to `Withdrawn`, or nothing), whichever endpoint
it came from. `ReplayInv` says that rows and history are one transcript in which each turn
is what `Decide` returns after those before it, `PassedInv` that an opened gate is one the
last pre-check opened. Both need only be shown for the six moves. For the refinement each
move is shown to be a step of InterviewLifecycle or a stutter under the mapping, after
`SameEngine`: the lifecycle's instance of the engine is the session's.

**AuditChain.** `ChainShape` adds to the types that a sequence number is given out once,
across committed and staged events, and that the last event of an organization is the one
that was recorded (editors touch past events). `SerialInv` says that for an organization
without overlap the record, and the record with the one open transaction, both verify, and
that what the transaction has read is the last of them; `ExtendChain` is the lemma that
appending such an event keeps a chain verified. `LinkInv` anchors every link in an earlier
event of its organization, and what a transaction has read in one that is committed or its
own. It needs no serial order. `EditsShow` compares two chains: the one recorded and the
one stored. A digest contains the one it follows, so digests grow along a chain
(`DigestsGrow`), and two chains that verify and end in the same event are equal, from the
last event backwards (`SameChain`). The last event of an organization is never edited, and
every row is at the place of a recorded one (`RowsInv`), so a stored chain that verifies
is the record.

**RefreshTokens.** `Holds` ties a request to tokens of its own family. `HeirInv` adds
to `OneHeir` that a token claimed by a rotation is not rotated yet and claimed by
nobody else: the row lock of the conditional UPDATE. `KillInv` says, for a family no
rotation raced, that a finished revocation left only revoked tokens and no rotation
in progress, and that one in progress has found every token still live. `ScopeInv` says that a
revoked token, or a revocation in progress, has a rotated token of the same family behind
it: the one that was presented again.

**Scheduling.** `SlotsApart`, on the operators of SlotGeneration, carries the
arithmetic: wall times of one day that differ by a multiple of the step are apart by
at least the duration, and the conversion to UTC keeps their order except at a skipped
wall time. `TypeInv` adds that every slot came from `GenerateSlots` of its call
(`Generated`) and that requests are about slots that exist (`Targets`). `Told` follows
who was sent a confirmation through bookings that are not committed yet. `Untwinned` says
that a call to generate that is alone has seen every open slot. `Holding` says that two
bookings in progress are of different slots and that a slot being booked is still open,
but for the contested ones. `Reminded` divides the e-mails about a slot into those that
have left and are marked, those a run has sent and will mark, and those it has yet to
send; what a rollback or a second run leaves out of place is on record as `unsettled`.

**SandboxRunner.** `PoolInv` is the types with `Sleepers` (who is in the queue or was
woken is asleep, once) and `Pool` (who holds a uid holds its own, out of the pool; who
holds none runs no program). The types alone are not inductive: a release puts the
run's uid back, and only `Pool` says that it is one. `NobodyMissesAUid` counts: a
release adds one free uid and wakes one sleeper, an acquisition removes a uid, by the
cardinality facts of FiniteSetTheorems. `AnswersAreFaithful` follows how much of each
stream is written, read and kept through the stages of a run.

`RunsNeverAllWait` is the absence of deadlock: unless no run is in progress, some run is
past everything it can wait for (`CanGoOn`). `Accounted` says where what a run waits for is:
a run that waits for a uid is in the queue or was woken, a uid that is not free is held by a
run that has not returned it, and what of an input is in the pipe or still to be written fits.
Were all runs stuck, those on a thread would be at a full pipe, which cannot be; so no thread
is taken and nobody waits for one, and no uid is held; so all uids are free, and then, by
`NobodyMissesAUid`, nobody sleeps.

**Questionnaire.** `Grounded` says of a save in progress that the row it loaded is
still there, and still submitted if it was submitted when loaded. That is what makes
a commit that writes only the columns it changed agree with the invitation. `Calm` is the
invariant of requests that do not overlap: one save at most is on its way, what it has
loaded is the row (`Fresh`), and it carries what the page shows unless more was typed
since (`Carries`, `PageSettled`). From it follow the invariants, and the step property:
the only step that writes answers is a save that found the response not submitted.

**Workspace.** `Shape` adds to the types that a task that is shown exists and has a stored
row, without which a reload has nothing to show; `LatestIsStored` and `FirstIsCreated` are
the facts that the CHOOSEs of the latest row and of the first task find one, from the
well-foundedness of the natural numbers. `Dated` says that a write that was allowed
took its stamp no later than `closed` once the interview is not active: the check comes
after the stamp, so what was allowed before the end has its stamp from before it, however
late it commits. That is a bound by the end's commit and not by `finished_at`, which is
earlier; nor by the interview's start, since a request that begins before the start's commit
and loads the session after it is dated before. `TextInv` follows the text from the code
that arrives through the editor and the timer to the write and the row: each is `Proper`,
the task's own text, unless the task is in `misread`.

`NothingTypedIsLost` says that latest stamp means latest text. As long as nothing on the
list of mishaps happened, `InTurn` orders rows and writes by their stamps and finds the
texts of a task in the same order, with the writes not stamped yet after all of those;
`Keeps` says where the text typed last is: at the timer, in a save, or stored. Then the row
with the latest stamp is it.

**Whiteboard.** `Settled` is what a page converges to: it shows the whole board, every row
once and nothing else, no post of its own is on its way, and whatever list is on its way is
the whole board too. What is on its way is what makes it inductive: a page that merely shows
the board can still be set back by a late answer, or show a row twice.

**Erasure.** `RowsInv` gives the types, dates that never exceed the clock, links to rows of
the right table and candidate, and for reports in progress when they began (`Remembers`).
Every action is one of a few moves (`Move`): a row is inserted, a request begins, answers
are saved again, a search, the commit of an erasure; `Kept` says what any of them leaves of
a row. `SearchInv` says
what each of the SELECTs that are over has found: every personal row there was when the
erasure began, but those under a parent that was redacted meanwhile. The rows found then
stay the rows to be found, since what is redacted becomes personal again only by a save,
which dates it anew. `SweepInv` says of a run of
retention, from its choice on, that whoever it left out is left out because as many others
as the limit allows have data at least as old.

**Screening.** `Repeatable` is the core of `DriftIsExplained`: total and verdict of a run
are functions of what its fingerprint names, so runs of one fingerprint agree, and runs
that disagree have different ones. `LoneInv` says what an upload, a profile or an update
that is alone may trust: no row of that hash, the number of profiles of that name, the
version. `Stamped` and `Scored` follow the description from the moment it is loaded: it is
no older than any that was committed before the request began, so the run that began last
is against the latest one, in whatever order runs are stored. `Versioned` bounds every
version by the count it was taken from.

`FieldsAreLocated` is about `load_document_text`, which adds up the lengths of the pages in
a loop. That the loop has a result is shown by its least counterexample: a first page after
which there is none (`OffsetsExist`), and likewise that later pages start later
(`PagesFollow`). Then a mark falls into the span of its page unless the joints before it,
which the spans leave out, shift it past the end (`LocatesThePage`).

`ScoringIsFair` is about sums over the dimensions, which are finitely many. `SumsAdd` says
that the fold by which the weights are added has a result, one summand after another, and
`SumsCompare`, by the smallest set of summands for which it would fail (`SmallestSet`), that
sums compare as their summands do. Rounding to the nearest keeps the order (`RoundedGrows`)
and whole numbers (`RoundedExactly`), so a total lies between the worst and the best of its
dimensions and grows with each (`TotalsCompare`); thresholds in any order make a verdict that
grows with the total (`VerdictsGrow`). `Weighed` carries this to the stored runs: what a run
was computed from was validated. The means are exact here; the code's floats are closer to
them than two totals are to each other, except at an exact half.

### Only model-checked

Of the properties the runs check, the liveness ones: `InterviewEnds`, `EveryRunEnds`,
`PagesConverge`. Fairness and ENABLED are beyond the prover. What is proved of each is its
safety half: the interview is finite (`TurnsAreBounded`), runs never all wait for each other
(`RunsNeverAllWait`), and a page that has converged stays so until somebody draws
or posts (`BoardStaysSettled`).

## Where the code and the documents disagree

One of these is a run with an expected violation. Of the others that are about state, the
behaviour is one of the modules' (the properties that hold except for it say so), and the
last sentence tells how to see it.

1. **A gate that was closed again lets the interview start.**
   `start_interview` checks the status it loaded (`routers_interview.py:509`) and
   commits later. A failing re-check committed in between leaves
   `precheck_passed = false` under an active session. `docs/DECISIONS.md:183-185` and
   `README.md:381-382` promise that every gate fails closed. What does hold, and is
   proved, is that *some* passed pre-check and a granted consent are on record.
   `InterviewSession_overlap.cfg` with `GatesFailClosed` finds it.
2. **Two transactions fork an audit chain.** `record_event` reads the
   last event without a lock (`audit.py:47`); `verify_chain` then reports tampering
   where nobody tampered, which `audit.py:39-46` means to exclude and `README.md:132`
   sells as proof of an edit. What holds, and is proved, is that a chain recorded
   without overlap verifies. `AuditChain.cfg` with `UntamperedVerifies` finds it.
3. **A rotation survives the revocation of its family.** The revoking
   UPDATE does not see the child a rotation inserts meanwhile (`auth_service.py:133`);
   `README.md:178-181` says the entire family is revoked. What holds, and is proved, is
   that it is when no rotation is in progress. `RefreshTokens.cfg` with
   `WholeFamilyRevoked` finds it.
4. **A slot's length changes across a transition** (visible with the
   operators of SlotGeneration). The end of a slot is computed in wall time and
   converted on its own (`scheduling.py:62`): 45 minutes at 01:30 become 105 before a
   skipped hour; `docs/PLAN.md:109` says "durations intact". `SlotsDisjoint` excepts
   exactly the slots that end at a skipped wall time.
5. **The history of a response loses every save but the first** (run
   `questionnaire_history`). `row.history` is appended to in place
   (`routers_questionnaire.py:308`), which SQLAlchemy does not notice on a plain JSONB
   column (`models.py:252`); `README.md:561-562` says every save appends.
6. **A large input escapes the timeout.** The write to stdin blocks on
   a full pipe before the timer starts (`executors.py:370`); `executors.py:9-10`
   promises "a hard wall-clock timeout". `SandboxRunner.cfg` with `Inputs = {3}` and
   `HardTimeout` finds it.
7. **"Save failed — will retry" does not retry.** `Questionnaire.tsx:144` shows the
   words after a failed autosave, and nothing is sent until the candidate types or
   submits; in the model a failed save sets no timer.
8. **Code of one task is shown, and saved, under another.** `CodeTab` keeps its text and
   hears late answers when another task is chosen (`Workspace.tsx:176-188`): `Open`,
   `Switch`, `Arrive` of the first answer, `Type`, `Save`. `README.md:442` says
   "autosaved editing". `TextStaysWithItsTask` without `misread` finds it, and says that it
   happens to no task but one on which the editor was used while it held another's code.
9. **The last edit is lost when the task or the tab is left** within 800 ms
   (`Workspace.tsx:186`), and a failed save shows "Saved" (`:197`, `:235`). These are the
   exceptions "dropped" and "failed" of `NothingTypedIsLost`.
10. **The Enter key posts a message twice**: the button is disabled while a message is
    being sent, `send()` is not (`Workspace.tsx:440`, `InterviewSessionDetail.tsx:523`).
    Whiteboard lets a page post while a post is on its way.
11. **An erasure never looks at booked slots** nor at the audit payloads with the address
    (`routers_dsar.py:72`, `models.py:263-279`), against "every record tied to a
    candidate's email" (`routers_dsar.py:1-2`). `NothingIsMissed` excepts slots.
12. **Links work after an erasure** (`routers_dsar.py:311`): what is stored through them
    belongs to a redacted address and no later erasure finds it. `NothingIsMissed`
    excepts exactly these rows.
13. **Quotes keep the address.** Only five kinds of field lose their quote
    (`routers_dsar.py:302`), and a quote is 40 characters on each side of a match
    (`text_extract.py:229-231`). Not modelled: quotes are text.
14. **Fields at the end of a page name a later page, or none** (`text_extract.py:100`,
    against `:3-4`). `FieldsNameTheirPage` says which.
15. **Drift is reported where inputs differ** (`scoring_audit.py:56`, against `:69`): a
    new description is enough. `DriftHasACause` says that inputs differ in every case.
16. **Citations are never found missing**: every judgement gets a reference to the gateway
    first (`routers_resume.py:393-396`, against `scoring_audit.py:16-18`). Not modelled.
17. **Two uploads at once break every later upload** of that document with an error 500
    (`routers_resume.py:206`). `LoneWritersCount` holds only without overlap.
18. **Addresses are compared in two spellings** (`routers_evaluation.py:76`,
    `routers_questionnaire.py:455`): a capital letter in the resume's leaves a candidate
    without questionnaire score. Not modelled: addresses are values.
19. **The version of a requisition locks nothing.** An update writes one more than the
    version it loaded and compares it with none (`routers_org.py:275`): of two updates that
    overlap, one is overwritten. `README.md:119-120` and `:207` call it optimistic locking.
    `LoneWritersCount` without its exception finds it in Screening.
20. **A refused stroke stays on the canvas.** It is drawn before it is posted
    (`Workspace.tsx:335-352`, `InterviewSessionDetail.tsx:417-433`), and a refused or lost
    post is swallowed (`:360`): it stays until the next list, which a candidate's page never
    gets once the interview is over. The page says "synced with your interviewer" (`:376`).
    `Advance`, `Draw`, `Post`, `Advance`, `Lose` of Whiteboard; `PagesConverge` excepts the
    candidate's page of an interview that has ended.

## What is left out

Of the components that are modelled:

- **Interview sessions**: the read-only lists and the text-to-speech proxy. Creating a
  session is the initial state.
- **Audit log**: deleting the newest events of a chain is not an edit the model allows,
  because nothing in a chain can reveal it; `verify_chain` cannot either.
- **Login sessions**: registration, passwords, TOTP codes and access tokens are pure
  computation or one insertion; MFA enrolment is planned.
- **Scheduling**: the text of e-mails and calendar files, and SMTP itself: an e-mail
  either left or it did not.
- **Questionnaires**: creating questionnaires and invitations (plain insertion).
- **Sandbox**: programs that leave their process group and so outlive the kill, readers
  that are still open five seconds after it, resource limits, a service that is killed.
  The pool is a set of uids: in which order it hands them out is not modelled, in which
  order it wakes sleepers is.
- **Coding workspace**: the recruiter's read-only view, the FAQ tab, the length limits of
  a stroke, and screen sharing, which answers 501.
- **Resumes and scoring**: patterns and the parsing of files, the blind view, fields the
  gateway proposes, the audits of citations and of score bands. A change of status is an
  update like the one of a title.
- **Candidate evaluation**: its components are arithmetic on counts, its total a mean and
  its verdict a comparison; the exports are layout. What it takes from a resume that is
  being erased, and which run it shows, are in Erasure and Screening.
- **Erasure**: the export and a dry run only read. Consents, strokes and audit events are
  never redacted by the code.
- **Transactions**: role checks and row-level security, one comparison per request.

Of the others:

| Component | Why not, or not yet |
|---|---|
| Departments and staff | plain insertion with one check of uniqueness |
| Integrity signals | one inserted row per request that nothing reads to decide |
| FAQ and dashboard | read-only queries and the ranking of a text search |
| API process | wiring, configuration, headers, logging; the rate limiter is slowapi's |
| Encryption at rest | AES-GCM of a column: cryptography without control state |
| Database schema | its tables are the variables of the modules that use them |
| AI gateway | stateless; its answers and failures are nondeterministic inputs |
| Portals | rendering and media capture, but for the pages of the questionnaire and the workspace, which are modelled |
| Shared packages, scripts, deployment | user interface components, a load test, manifests |

## Plan

Of the system, one component with state is left: **MfaEnrollment**
(`routers_auth.py:163-208`), overlapping enrolments, activations and logins. It belongs
into RefreshTokens' composition and would state that a secret that is enabled is one its
owner confirmed.

All invariants of the runs are proved, with the action property and the refinement. Left to
prove would be, for `InterviewEnds`, that without overlap the recorded history never shrinks
from one step to the next, so that the number of turns left only falls.
