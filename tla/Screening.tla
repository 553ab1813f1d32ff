------------------------------ MODULE Screening ------------------------------
(***************************************************************************)
(* A requisition and what staff do with it: routers_resume.py uploads      *)
(* resumes, posts job descriptions, creates weight profiles and scores;    *)
(* routers_org.py updates and deletes the requisition.                     *)
(*                                                                         *)
(* Every request is a READ COMMITTED transaction that reads, perhaps waits *)
(* for the AI gateway for minutes, writes and commits.  What it read may   *)
(* be stale by then.  created_at is now(), the start of the transaction:   *)
(* here the request's number, for requests begin one after another.        *)
(***************************************************************************)
EXTENDS Integers, FiniteSets, Sequences, ScreeningRows

CONSTANTS
  Slots,          \* requests handled at a time
  Dimensions,     \* DIMENSION_NAMES, "technical" among them
  JobPosts,       \* the job descriptions posted
  Names, Bodies,  \* of weight profiles: names; weights with thresholds
  Titles,         \* of the requisition
  Judgements,     \* the gateway's answers for a dimension: score, evidence_refs
  MaxRequests     \* bound: requests begun

ASSUME RequestsAssumption == MaxRequests \in Nat

ASSUME ProfilesAssumption ==
  "technical" \in Dimensions /\ \A b \in Bodies : ValidWeights(b.weights, Dimensions)

VARIABLES
  clock,          \* requests begun so far
  request         \* per slot: a request being handled

vars == <<clock, requisition, jobs, resumes, profiles, runs, request, overlapped>>

-----------------------------------------------------------------------------

Idle == [op |-> "idle"]

Judged == [Dimensions \ {"technical"} -> Judgements]

ResumeRow(document) ==
  [content_hash |-> document.hash, fields |-> ExtractFields(document), document |-> document]

ProfileRow(name, version, body) ==
  [name |-> name, version |-> version,
   weights |-> body.weights, thresholds |-> body.thresholds]

InFlight(op) == {i \in Slots : request[i].op = op}

TypeOK ==
  /\ clock \in 0 .. MaxRequests
  /\ requisition.title \in Titles
  /\ requisition.version \in 1 .. MaxRequests + 1
  /\ requisition.removed \in BOOLEAN
  /\ \A j \in jobs : j.created_at \in 0 .. clock /\ j.posted \in 0 .. clock /\ j.job \in JobPosts
  /\ \A k \in DOMAIN resumes : resumes[k] \in {ResumeRow(d) : d \in Documents}
  /\ \A k \in DOMAIN profiles : profiles[k].name \in Names /\ profiles[k].version \in 1 .. Len(profiles)
  /\ \A r \in runs : r.resume_id \in DOMAIN resumes /\ r.weight_profile_id \in DOMAIN profiles
  /\ \A i \in Slots : request[i] = Idle \/ request[i].created_at \in 1 .. clock
  /\ overlapped \subseteq {"upload", "profile", "update"}

-----------------------------------------------------------------------------
(***************************************************************************)
(* A request begins: _load_requisition finds the row, and what else the    *)
(* handler decides on is read.                                             *)
(***************************************************************************)

Begin(i, work) ==
  /\ request[i] = Idle
  /\ ~requisition.removed
  /\ clock < MaxRequests
  /\ clock' = clock + 1
  /\ request' = [request EXCEPT ![i] = work]
  /\ overlapped' = IF work.op \in {"upload", "profile", "update"} /\ InFlight(work.op) # {}
                   THEN overlapped \union {work.op} ELSE overlapped
  /\ UNCHANGED <<requisition, jobs, resumes, profiles, runs>>

\* create_job_description
BeginDescribe(i, job) ==
  Begin(i, [op |-> "describe", created_at |-> clock + 1, job |-> job])

\* upload_resume, when the SELECT finds no row with this hash; a duplicate is
\* a 409, and two of them an error that no answer was foreseen for.
BeginUpload(i, document) ==
  /\ \A k \in DOMAIN resumes : resumes[k].content_hash # document.hash
  /\ Begin(i, [op |-> "upload", created_at |-> clock + 1, document |-> document])

\* Mutant: the version is the count itself.
BeginProfileCount(i, name, body) ==
  Begin(i, [op |-> "profile", created_at |-> clock + 1,
            row |-> ProfileRow(name, Len(profiles), body)])

\* create_weight_profile counts the rows of that name.
BeginProfile(i, name, body) ==
  Begin(i, [op |-> "profile", created_at |-> clock + 1,
            row |-> ProfileRow(name,
                               Cardinality({k \in DOMAIN profiles : profiles[k].name = name}) + 1,
                               body)])

\* update_requisition, when it finds something to change.  The status is a
\* second field treated the same.
BeginUpdate(i, title) ==
  /\ title # requisition.title
  /\ Begin(i, [op |-> "update", created_at |-> clock + 1,
               title |-> title, version |-> requisition.version + 1])

\* delete_requisition
BeginDelete(i) == Begin(i, [op |-> "delete", created_at |-> clock + 1])

\* create_scoring_run finds the resume and the profile.
BeginScore(i, resume, profile) ==
  /\ resume \in DOMAIN resumes /\ profile \in DOMAIN profiles
  /\ Begin(i, [op |-> "score", created_at |-> clock + 1,
               resume_id |-> resume, weight_profile_id |-> profile, job |-> {}])

-----------------------------------------------------------------------------
(***************************************************************************)
(* It commits, or fails: an error rolls everything back.                   *)
(***************************************************************************)

\* Rows that refer to the requisition cannot outlive it, or be inserted
\* after it is gone.
Committed(i, op) ==
  /\ request[i].op = op
  /\ ~requisition.removed
  /\ request' = [request EXCEPT ![i] = Idle]
  /\ UNCHANGED <<clock, overlapped>>

Describe(i) ==
  /\ Committed(i, "describe")
  /\ jobs' = jobs \union
       {[created_at |-> request[i].created_at, posted |-> clock, job |-> request[i].job]}
  /\ UNCHANGED <<requisition, resumes, profiles, runs>>

Upload(i) ==
  /\ Committed(i, "upload")
  /\ resumes' = Append(resumes, ResumeRow(request[i].document))
  /\ UNCHANGED <<requisition, jobs, profiles, runs>>

\* A profile belongs to the organization: the requisition may be gone.
Profile(i) ==
  /\ request[i].op = "profile"
  /\ request' = [request EXCEPT ![i] = Idle]
  /\ profiles' = Append(profiles, request[i].row)
  /\ UNCHANGED <<clock, requisition, jobs, resumes, runs, overlapped>>

\* version += 1 on the loaded row is an absolute value in the UPDATE.
Update(i) ==
  /\ Committed(i, "update")
  /\ requisition' = [requisition EXCEPT !.title = request[i].title,
                                        !.version = request[i].version,
                                        !.updates = @ + 1]
  /\ UNCHANGED <<jobs, resumes, profiles, runs>>

Delete(i) ==
  /\ Committed(i, "delete")
  /\ jobs = {} /\ resumes = <<>>
  /\ requisition' = [requisition EXCEPT !.removed = TRUE]
  /\ UNCHANGED <<jobs, resumes, profiles, runs>>

\* Any error; also a commit that the deletion of the requisition refuses.
Fail(i) ==
  /\ request[i] # Idle
  /\ request' = [request EXCEPT ![i] = Idle]
  /\ UNCHANGED <<clock, requisition, jobs, resumes, profiles, runs, overlapped>>

-----------------------------------------------------------------------------
(***************************************************************************)
(* Scoring.                                                                *)
(***************************************************************************)

\* Without a description the request is refused (400).
LoadJob(i) ==
  /\ request[i].op = "score" /\ request[i].job = {}
  /\ jobs # {}
  /\ request' = [request EXCEPT ![i].job = {LatestJob}]
  /\ UNCHANGED <<clock, requisition, jobs, resumes, profiles, runs, overlapped>>

\* The row of a run, from what was loaded and the gateway's judgements.
ScoringRun(work, judged, at) ==
  LET resume == resumes[work.resume_id]
      profile == profiles[work.weight_profile_id]
      loaded == CHOOSE j \in work.job : TRUE
      checks == RunMatchChecks(resume.fields, loaded.job)
      dimensions == [d \in Dimensions |->
                       IF d = "technical" THEN TechnicalDimension(checks) ELSE judged[d]]
      total == ComputeTotalScore(dimensions, profile)
  IN  [created_at |-> at,
       resume_id |-> work.resume_id,
       weight_profile_id |-> work.weight_profile_id,
       total_score |-> total,
       verdict |-> AssignVerdict(total, profile.thresholds),
       run_fingerprint |-> RunFingerprint(resume.content_hash, checks, dimensions, profile),
       against |-> loaded]

\* Mutant: a run is dated when it is inserted.
ScoreDatedAtInsert(i) ==
  /\ request[i].op = "score" /\ request[i].job # {}
  /\ Committed(i, "score")
  /\ \E judged \in Judged :
       runs' = runs \union {ScoringRun(request[i], judged, clock + 1 + Cardinality(runs))}
  /\ UNCHANGED <<requisition, jobs, resumes, profiles>>

Score(i) ==
  /\ request[i].op = "score" /\ request[i].job # {}
  /\ Committed(i, "score")
  /\ \E judged \in Judged :
       runs' = runs \union {ScoringRun(request[i], judged, request[i].created_at)}
  /\ UNCHANGED <<requisition, jobs, resumes, profiles>>

-----------------------------------------------------------------------------

\* A requisition just created, or one that is ready for scoring.
Init ==
  /\ clock = 0
  /\ \E t \in Titles :
       requisition = [title |-> t, version |-> 1, removed |-> FALSE, updates |-> 0]
  /\ \/ jobs = {} /\ resumes = <<>> /\ profiles = <<>>
     \/ \E j \in JobPosts, d \in Documents, n \in Names, b \in Bodies :
          /\ jobs = {[created_at |-> 0, posted |-> 0, job |-> j]}
          /\ resumes = <<ResumeRow(d)>>
          /\ profiles = <<ProfileRow(n, 1, b)>>
  /\ runs = {}
  /\ request = [i \in Slots |-> Idle]
  /\ overlapped = {}

Next ==
  \E i \in Slots :
    \/ \E j \in JobPosts : BeginDescribe(i, j)
    \/ \E d \in Documents : BeginUpload(i, d)
    \/ \E n \in Names, b \in Bodies : BeginProfile(i, n, b)
    \/ \E t \in Titles : BeginUpdate(i, t)
    \/ BeginDelete(i)
    \/ \E r \in DOMAIN resumes, p \in DOMAIN profiles : BeginScore(i, r, p)
    \/ Describe(i)
    \/ Upload(i)
    \/ Profile(i)
    \/ Update(i)
    \/ Delete(i)
    \/ LoadJob(i)
    \/ Score(i)
    \/ Fail(i)

Spec == Init /\ [][Next]_vars

=============================================================================
