---------------------------- MODULE ScreeningRows ----------------------------
(***************************************************************************)
(* The rows of one requisition that screening leaves behind, how they are  *)
(* read, and what staff may rely on when they read them.  Screening has    *)
(* the requests that write them.                                           *)
(***************************************************************************)
EXTENDS Integers, Sequences, Scoring

CONSTANT
  Documents       \* the files uploaded: a hash, pages, and what is on them

\* A pattern matches text of some page, never the break before the next one.
OnItsPage(document, mark) ==
  mark.page \in DOMAIN document.lengths /\ mark.at \in 0 .. document.lengths[mark.page] - 1

ASSUME DocumentsAssumption ==
  \A d \in Documents :
    /\ d.lengths \in Seq(Nat)
    /\ \A skill \in d.skills : OnItsPage(d, skill)
    /\ \A claim \in d.years : OnItsPage(d, claim)

VARIABLES
  requisition,    \* its row, whether it is deleted; ghost: updates committed
  jobs,           \* rows of job_descriptions; ghost: when each was committed
  resumes,        \* rows of resume_documents with their extracted_fields
  profiles,       \* rows of weight_profiles
  runs,           \* rows of scoring_runs; ghost: the description scored against
  overlapped      \* ghost: operations of which two ran at the same time

-----------------------------------------------------------------------------

Latest(table) == CHOOSE r \in table : \A s \in table : s.created_at <= r.created_at

\* _load_jd_for_resume; the version column, its first sort key, is always 1.
LatestJob == Latest(jobs)

\* What list_candidates shows for a resume.
LatestRun(resume) == Latest({r \in runs : r.resume_id = resume})

-----------------------------------------------------------------------------

\* scoring.py promises byte-identical runs for identical inputs, and
\* scoring_audit.py reports drift as a breach of that.  Whatever profiles,
\* descriptions and resumes come and go, also twins that overlapping requests
\* leave behind, runs of one fingerprint agree in total and verdict, and where
\* the audit reports drift two runs of that resume and profile were computed
\* from different inputs.
DriftHasACause ==
  /\ \A r \in runs, s \in runs :
       r.run_fingerprint = s.run_fingerprint =>
         r.total_score = s.total_score /\ r.verdict = s.verdict
  /\ \A pair \in VerdictDrift(runs) :
       \E r \in runs, s \in runs :
         /\ {<<x.resume_id, x.weight_profile_id>> : x \in {r, s}} = {pair}
         /\ r.verdict # s.verdict /\ r.run_fingerprint # s.run_fingerprint

\* list_candidates and the evaluation show the run of a resume that began
\* last.  Scoring takes up to six gateway calls, so an older run may be stored
\* after a newer one; still, once a run was begun after the latest job
\* description was committed, the run shown is one against that description.
ShownRunIsCurrent ==
  \A k \in DOMAIN resumes :
    (\E r \in runs : r.resume_id = k /\ r.created_at > LatestJob.posted)
      => LatestRun(k).against = LatestJob

\* Without overlap of two uploads there are no twin resumes, without overlap
\* of two profile creations no two profiles share a name and a version, and
\* without overlap of two updates the requisition's version counts them.
\* Nothing in the database keeps these: every request trusts what it read.
LoneWritersCount ==
  /\ "upload" \notin overlapped =>
       \A k, l \in DOMAIN resumes : resumes[k].content_hash = resumes[l].content_hash => k = l
  /\ "profile" \notin overlapped =>
       \A k, l \in DOMAIN profiles :
         (profiles[k].name = profiles[l].name /\ profiles[k].version = profiles[l].version) => k = l
  /\ "update" \notin overlapped => requisition.version = requisition.updates + 1

\* Every field of a stored resume names the page it was found on, as
\* text_extract.py promises, unless it starts among the last characters of its
\* page: as many as there are page breaks before it, which the spans of
\* load_document_text leave out.  Such a field is given a later page, or none.
FieldsNameTheirPage ==
  \A k \in DOMAIN resumes :
    LET document == resumes[k].document
        Named(marks, rows) ==
          \A mark \in marks : \E row \in rows :
            /\ row.value = mark.value
            /\ row.start_offset = InFullText(document.lengths, mark.page, mark.at)
            /\ IF mark.at < document.lengths[mark.page] - (mark.page - 1)
               THEN row.page_number = mark.page
               ELSE row.page_number = 0 \/ row.page_number > mark.page
    IN  /\ Named(document.skills, resumes[k].fields.skills)
        /\ Named(BestClaim(document), resumes[k].fields.years)

=============================================================================
