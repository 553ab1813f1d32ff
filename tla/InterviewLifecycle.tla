------------------------- MODULE InterviewLifecycle -------------------------
(***************************************************************************)
(* What an interview session promises, seen from outside: the lifecycle in *)
(* the docstring of routers_interview.py and a transcript of answered      *)
(* turns that only an active interview extends.                            *)
(***************************************************************************)
EXTENDS InterviewEngine

CONSTANT Plans

VARIABLES
  plan,         \* the questions agreed on before the candidate came
  phase,        \* where the session is in its lifecycle
  transcript    \* the answered turns, in the order they were asked

vars == <<plan, phase, transcript>>

Init ==
  /\ plan \in Plans
  /\ phase = "pending_consent"
  /\ transcript = << >>

\* The candidate decides once.
Decision ==
  /\ phase = "pending_consent"
  /\ phase' \in {"consent_granted", "declined"}
  /\ UNCHANGED <<plan, transcript>>

\* The pre-check gate opens and closes until the interview starts.
Gate ==
  /\ phase \in {"consent_granted", "precheck_passed"}
  /\ phase' \in {"consent_granted", "precheck_passed"}
  /\ UNCHANGED <<plan, transcript>>

Begin ==
  /\ phase = "precheck_passed"
  /\ phase' = "active"
  /\ UNCHANGED <<plan, transcript>>

\* The turns of a transcript, without their answers.
TurnsOf(answered) ==
  [i \in DOMAIN answered |-> Turn(answered[i].kind, answered[i].topic)]

\* The turn that follows an answered transcript.
NextTurn(answered) ==
  Decide(plan, TurnsOf(answered),
         IF answered = << >> THEN 0 ELSE answered[Len(answered)].answer)

\* One answer, to the turn the engine asks next; the last one closes the
\* interview.
Answer ==
  LET turn == NextTurn(transcript)
  IN  /\ phase = "active"
      /\ turn.kind # Closing
      /\ \E answer \in AnswersTo(plan, Append(TurnsOf(transcript), turn)) :
           transcript' = Append(transcript,
             [kind |-> turn.kind, topic |-> turn.topic, answer |-> answer])
      /\ phase' = IF NextTurn(transcript').kind = Closing THEN "completed" ELSE phase
      /\ UNCHANGED plan

Withdraw ==
  /\ phase = "active"
  /\ phase' = "aborted"
  /\ UNCHANGED <<plan, transcript>>

Next == Decision \/ Gate \/ Begin \/ Answer \/ Withdraw

Spec == Init /\ [][Next]_vars

=============================================================================
