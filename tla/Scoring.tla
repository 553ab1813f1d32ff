------------------------------- MODULE Scoring -------------------------------
(***************************************************************************)
(* What a resume is worth to a requisition, computed without the language  *)
(* model: text_extract.py finds fields and their pages, matching.py checks *)
(* them against the job description, scoring.py weighs the dimensions and  *)
(* fingerprints the run, scoring_audit.py compares runs.                   *)
(*                                                                         *)
(* A hash is modelled by what is hashed.  Weighted means are exact here;   *)
(* the code's floats differ from them by less than any two totals do,      *)
(* except at an exact half, which the code may round either way.           *)
(***************************************************************************)
EXTENDS Integers, FiniteSets, Functions

\* round(n / d) of Python: to the nearest, a half to the even neighbour.
Rounded(n, d) ==
  LET q == n \div d
      twice == 2 * (n % d)
  IN  IF twice > d \/ (twice = d /\ q % 2 = 1) THEN q + 1 ELSE q

-----------------------------------------------------------------------------
(***************************************************************************)
(* Text extraction.  A document is the lengths of its pages and what is    *)
(* written on them: a page, a position on the page, a value.               *)
(***************************************************************************)

\* PageSpan.start_offset: a page starts where the span before it ends.
StartOffset(lengths, p) ==
  LET offset[q \in DOMAIN lengths] == IF q = 1 THEN 0 ELSE offset[q - 1] + lengths[q - 1]
  IN  offset[p]

\* Where a position of a page is in full_text, whose pages are joined by a
\* line break.
InFullText(lengths, p, at) == StartOffset(lengths, p) + (p - 1) + at

\* Mutant: the first character of a page is not on it.
LocateExclusive(lengths, start) ==
  LET holding == {p \in DOMAIN lengths :
                    /\ StartOffset(lengths, p) < start
                    /\ start < StartOffset(lengths, p) + lengths[p]}
  IN  IF holding = {} THEN 0 ELSE CHOOSE p \in holding : TRUE

\* DocumentText.locate: the page whose span holds the offset, or 0.
Locate(lengths, start) ==
  LET holding == {p \in DOMAIN lengths :
                    /\ StartOffset(lengths, p) <= start
                    /\ start < StartOffset(lengths, p) + lengths[p]}
  IN  IF holding = {} THEN 0 ELSE CHOOSE p \in holding : TRUE

FieldRow(document, name, mark) ==
  LET start == InFullText(document.lengths, mark.page, mark.at)
  IN  [field_name |-> name,
       value |-> mark.value,
       start_offset |-> start,
       page_number |-> Locate(document.lengths, start)]

\* Every skill is a row; of the years of experience only the largest claim,
\* and of equal claims the one found first.
BestClaim(document) ==
  LET claims == document.years
      largest == {c \in claims : \A d \in claims : d.value <= c.value}
  IN  {c \in largest : \A d \in largest : c.page < d.page \/ (c.page = d.page /\ c.at <= d.at)}

ExtractFields(document) ==
  [skills |-> {FieldRow(document, "skill", s) : s \in document.skills},
   years |-> {FieldRow(document, "years_experience_claimed", c) : c \in BestClaim(document)}]

-----------------------------------------------------------------------------
(***************************************************************************)
(* Deterministic checks: one per required skill, the coverage of the       *)
(* preferred skills, the years.                                            *)
(***************************************************************************)

RunMatchChecks(fields, job) ==
  LET present == {f.value : f \in fields.skills}
  IN  [required |-> [s \in job.required_skills |-> s \in present],
       preferred |-> [hits |-> present \intersect job.preferred_skills,
                      of |-> Cardinality(job.preferred_skills)],
       years |-> [claimed |-> {f.value : f \in fields.years},
                  needed |-> job.min_years_experience]]

Passed(checks) ==
  Cardinality({s \in DOMAIN checks.required : checks.required[s]})
  + (IF checks.preferred.hits # {} THEN 1 ELSE 0)
  + (IF \E y \in checks.years.claimed : y >= checks.years.needed THEN 1 ELSE 0)

\* technical_dimension_from_checks of match_ratio.
TechnicalDimension(checks) ==
  [score |-> Rounded(100 * Passed(checks), Cardinality(DOMAIN checks.required) + 2),
   evidence_refs |-> {"match_checks"}]

-----------------------------------------------------------------------------
(***************************************************************************)
(* Weighing.  A profile has a name, a version, weights and thresholds.     *)
(***************************************************************************)

\* validate_profile, for the dimensions of the instance.
ValidWeights(weights, dimensions) ==
  /\ DOMAIN weights = dimensions
  /\ \A d \in dimensions : weights[d] >= 0
  /\ \E d \in dimensions : weights[d] > 0

ComputeTotalScore(dimensions, profile) ==
  LET weights == profile.weights
      weighted == [d \in DOMAIN weights |-> dimensions[d].score * weights[d]]
  IN  Rounded(FoldFunction(+, 0, weighted), FoldFunction(+, 0, weights))

AssignVerdict(total, thresholds) ==
  IF total < thresholds.auto_reject_below THEN "auto_reject"
  ELSE IF total < thresholds.hold_below THEN "hold"
  ELSE IF total >= thresholds.highly_recommended_at THEN "highly_recommended"
  ELSE "shortlist"

\* Mutant: the name and the version stand for the profile.
ProfileFingerprintByVersion(profile) ==
  [name |-> profile.name, version |-> profile.version, weights |-> {}, thresholds |-> {}]

\* WeightProfile.fingerprint names every field of the profile.
ProfileFingerprint(profile) ==
  [name |-> profile.name, version |-> profile.version,
   weights |-> profile.weights, thresholds |-> profile.thresholds]

RunFingerprint(resumeHash, checks, dimensions, profile) ==
  [resume_hash |-> resumeHash, checks |-> checks, dimensions |-> dimensions,
   profile |-> ProfileFingerprint(profile)]

-----------------------------------------------------------------------------

\* audit_verdict_drift: the pairs of a resume and a profile whose runs did
\* not all come to one verdict.
VerdictDrift(runs) ==
  {<<r.resume_id, r.weight_profile_id>> : r \in
     {s \in runs : \E t \in runs : /\ t.resume_id = s.resume_id
                                   /\ t.weight_profile_id = s.weight_profile_id
                                   /\ t.verdict # s.verdict}}

=============================================================================
