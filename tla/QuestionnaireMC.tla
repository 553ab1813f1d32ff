--------------------------- MODULE QuestionnaireMC ---------------------------
(***************************************************************************)
(* Small instances of Questionnaire: one required question.                *)
(***************************************************************************)
EXTENDS Questionnaire, TLC

AllForms == [Required -> Texts \union {Blank, Unanswered}]

Symmetry == Permutations(Requests) \union Permutations(Texts)

=============================================================================
