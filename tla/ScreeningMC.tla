----------------------------- MODULE ScreeningMC -----------------------------
(* One requisition, two requests at a time. *)
EXTENDS Screening, TLC

Mark(page, at, value) == [page |-> page, at |-> at, value |-> value]

\* Two pages and three, with skills at the start and at the end of pages.
MCDocuments ==
  {[hash |-> "d1", lengths |-> <<3, 3>>, years |-> {Mark(1, 0, 3), Mark(2, 1, 5)},
    skills |-> {Mark(1, 0, "sql"), Mark(2, 2, "go")}],
   [hash |-> "d2", lengths |-> <<2, 1, 3>>, years |-> {},
    skills |-> {Mark(2, 0, "sql"), Mark(3, 0, "sql"), Mark(3, 1, "go")}]}

MCJobPosts ==
  {[required_skills |-> {"sql"}, preferred_skills |-> {"go"}, min_years_experience |-> 4],
   [required_skills |-> {"sql", "rust"}, preferred_skills |-> {}, min_years_experience |-> 6]}

MCBodies ==
  {[weights |-> [d \in {"technical", "domain"} |-> 1],
    thresholds |-> [auto_reject_below |-> 30, hold_below |-> 50, highly_recommended_at |-> t]]
     : t \in {85, 60}}

MCJudgements == {[score |-> s, evidence_refs |-> {"gateway"}] : s \in {25, 80}}

Symmetry == Permutations(Slots) \union Permutations(Titles)
=============================================================================
