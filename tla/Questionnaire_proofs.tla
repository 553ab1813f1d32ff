------------------------ MODULE Questionnaire_proofs ------------------------
(***************************************************************************)
(* Theorems about Questionnaire, for any number of overlapping requests    *)
(* and any questions and answers.                                          *)
(***************************************************************************)
EXTENDS Questionnaire, TLAPS

-----------------------------------------------------------------------------
(* Rows.                                                                   *)

\* What a first save inserts.
LEMMA NewResponseType ==
  ASSUME NEW answers \in Forms, NEW submit \in BOOLEAN
  PROVE  /\ NewResponse(answers, submit) \in Responses
         /\ NewResponse(answers, submit).submitted = submit
<1>1. MissingRequired(answers) \in SUBSET Required /\ <<answers>> \in Seq(Forms)
  BY DEF MissingRequired
<1>2. QED
  BY <1>1 DEF NewResponse, Responses

\* What a later save makes of the row as it is, having seen it as it was.
LEMMA UpdatedType ==
  ASSUME NEW current \in Responses, NEW loaded \in Responses,
         NEW answers \in Forms, NEW submit \in BOOLEAN,
         loaded.submitted => current.submitted
  PROVE  /\ Updated(current, loaded, answers, submit) \in Responses
         /\ Updated(current, loaded, answers, submit).submitted
              <=> (current.submitted \/ submit)
<1> DEFINE a == Column(current.answers, loaded.answers, answers)
           m == Column(current.missing, loaded.missing, MissingRequired(answers))
           s == Column(current.submitted, loaded.submitted, loaded.submitted \/ submit)
<1>1. /\ current.answers \in Forms /\ loaded.answers \in Forms
      /\ current.missing \in SUBSET Required
      /\ current.submitted \in BOOLEAN /\ loaded.submitted \in BOOLEAN
  BY DEF Responses
<1>2. a \in Forms
  BY <1>1 DEF Column
<1>3. MissingRequired(answers) \in SUBSET Required
  BY DEF MissingRequired
<1>4. m \in SUBSET Required
  BY <1>1, <1>3 DEF Column
<1>5. s \in BOOLEAN /\ (s <=> (current.submitted \/ submit))
  <2>1. CASE submit /\ ~ loaded.submitted
    BY <1>1, <2>1 DEF Column
  <2>2. CASE ~ submit
    BY <1>1, <2>2 DEF Column
  <2>3. CASE submit /\ loaded.submitted
    BY <1>1, <2>3 DEF Column
  <2>4. QED
    BY <1>1, <2>1, <2>2, <2>3
<1>6. Updated(current, loaded, answers, submit)
        = [current EXCEPT !.answers = a, !.missing = m, !.submitted = s]
  BY DEF Updated
<1> HIDE DEF a, m, s
<1>7. /\ [current EXCEPT !.answers = a, !.missing = m, !.submitted = s] \in Responses
      /\ [current EXCEPT !.answers = a, !.missing = m, !.submitted = s].submitted = s
  BY <1>2, <1>4, <1>5 DEF Responses
<1>8. QED
  BY <1>5, <1>6, <1>7

-----------------------------------------------------------------------------
(* The invariant.                                                          *)

\* What a request has loaded is still there, and a row once submitted stays
\* submitted: this is what a save relies on when it writes only the columns
\* that it changes.
Grounded(r) ==
  /\ At(r, "loaded") =>
       /\ req[r].row \in 0 .. Len(responses)
       /\ req[r].row # 0 =>
            /\ req[r].loaded \in Responses
            /\ req[r].loaded.submitted => responses[req[r].row].submitted
  /\ At(r, "evaluating") => req[r].row \in 1 .. Len(responses)

Inv == TypeOK /\ CompletedMeansSubmitted /\ \A r \in Requests : Grounded(r)

\* The kinds of requests, by what they are doing.
LEMMA Kinds ==
  ASSUME TypeOK, NEW r \in Requests
  PROVE  /\ req[r].op \in {"sent", "checked"} => req[r] \in Sent
         /\ req[r].op = "loaded" => req[r] \in Loaded
         /\ req[r].op = "evaluating" => req[r] \in Evaluating
BY DEF TypeOK, Sent, Loaded, Evaluating, Idle

\* A page that was just opened has nothing on its way.
LEMMA InitInv == Init => Inv
<1> SUFFICES ASSUME Init PROVE Inv
  OBVIOUS
<1>1. TypeOK
  <2>1. Empty \in Forms
    BY FormsAssumption DEF Empty
  <2>2. page \in Pages
    BY <2>1 DEF Init, Pages
  <2>3. invite \in Invites /\ overlapped \in BOOLEAN
    BY DEF Init, Invites
  <2>4. responses = << >> /\ << >> \in Seq(Responses)
    BY DEF Init
  <2>5. req \in [Requests -> Sent \union Loaded \union Evaluating \union {Idle}]
    BY DEF Init
  <2>6. QED
    BY <2>2, <2>3, <2>4, <2>5 DEF TypeOK
<1>2. CompletedMeansSubmitted
  BY DEF Init, CompletedMeansSubmitted
<1>3. \A r \in Requests : Grounded(r)
  BY DEF Init, Grounded, At, Idle
<1>4. QED
  BY <1>1, <1>2, <1>3 DEF Inv

\* Steps that leave the rows alone, and give a request nothing it did not load.
LEMMA RowsAlone ==
  ASSUME Inv, NEW r \in Requests, UNCHANGED responses,
         invite'.completed = invite.completed,
         \A q \in Requests \ {r} : req'[q] = req[q],
         Grounded(r)'
  PROVE  CompletedMeansSubmitted' /\ \A q \in Requests : Grounded(q)'
BY DEF Inv, CompletedMeansSubmitted, Grounded, At

\* Steps of the page alone.
LEMMA PageAlone ==
  ASSUME Inv, UNCHANGED <<responses, req>>, invite'.completed = invite.completed
  PROVE  CompletedMeansSubmitted' /\ \A q \in Requests : Grounded(q)'
BY DEF Inv, CompletedMeansSubmitted, Grounded, At

-----------------------------------------------------------------------------
(* The actions.                                                            *)

\* What the page does.
LEMMA PageStep ==
  ASSUME Inv, (\E form \in Forms : Type(form)) \/ Reload \/ Expire
  PROVE  Inv'
<1>1. responses' = responses /\ req' = req /\ invite'.completed = invite.completed
  BY DEF Inv, TypeOK, Invites, Type, Reload, Expire
<1>2. page \in Pages /\ invite \in Invites /\ overlapped \in BOOLEAN
  BY DEF Inv, TypeOK
<1>3. page' \in Pages /\ invite' \in Invites /\ overlapped' \in BOOLEAN
  <2>1. ASSUME NEW form \in Forms, Type(form)
        PROVE  page' \in Pages /\ invite' \in Invites /\ overlapped' \in BOOLEAN
    BY <1>2, <2>1 DEF Type, Pages
  <2>2. CASE Reload
    <3>1. Empty \in Forms
      BY FormsAssumption DEF Empty
    <3>2. Len(responses) = 1 => responses[1].answers \in Forms
      <4>1. responses \in Seq(Responses)
        BY DEF Inv, TypeOK
      <4>2. Len(responses) = 1 => responses[1] \in Responses
        BY <4>1
      <4>3. QED
        BY <4>2 DEF Responses
    <3> DEFINE open == ~ invite.completed /\ ~ invite.expired /\ Len(responses) <= 1
               form == IF Len(responses) = 1 THEN responses[1].answers ELSE Empty
    <3>3. form \in Forms
      BY <3>1, <3>2
    <3>4. open \in BOOLEAN
      OBVIOUS
    <3>5. page' = [open |-> open, form |-> form, timer |-> None, failed |-> FALSE]
      BY <2>2 DEF Reload
    <3> HIDE DEF open, form
    <3>6. page' \in Pages
      BY <3>3, <3>4, <3>5 DEF Pages
    <3>7. invite' = invite /\ overlapped' \in BOOLEAN
      BY <2>2, Zenon DEF Reload
    <3>8. QED
      BY <1>2, <3>6, <3>7
  <2>3. CASE Expire
    BY <1>2, <2>3 DEF Expire, Invites
  <2>4. QED
    BY <2>1, <2>2, <2>3
<1>4. TypeOK'
  BY <1>1, <1>3 DEF Inv, TypeOK
<1>5. QED
  BY <1>1, <1>4, PageAlone DEF Inv

\* A request leaves the page.
LEMMA SendStep ==
  ASSUME Inv, NEW r \in Requests, Candidate(r)
  PROVE  Inv'
<1>1. page \in Pages
  BY DEF Inv, TypeOK
<1>2. PICK answers \in Forms, submit \in BOOLEAN : Send(r, answers, submit)
  <2>1. CASE Autosave(r)
    BY <1>1, <2>1 DEF Autosave, Pages
  <2>2. CASE Submit(r)
    BY <1>1, <2>2 DEF Submit, Pages
  <2>3. QED
    BY <2>1, <2>2 DEF Candidate
<1>3. page' \in Pages
  BY <1>1 DEF Candidate, Autosave, Submit, Pages
<1>4. req' = [req EXCEPT ![r] = [op |-> "sent", answers |-> answers, submit |-> submit]]
  BY <1>2 DEF Send
<1>5. [op |-> "sent", answers |-> answers, submit |-> submit] \in Sent
  BY DEF Sent
<1>6. /\ req'[r].op = "sent" /\ \A q \in Requests \ {r} : req'[q] = req[q]
      /\ req' \in [Requests -> Sent \union Loaded \union Evaluating \union {Idle}]
  BY <1>4, <1>5 DEF Inv, TypeOK
<1>7. UNCHANGED <<invite, responses>> /\ overlapped' \in BOOLEAN
  BY <1>2, Zenon DEF Send
<1>8. TypeOK'
  BY <1>3, <1>6, <1>7 DEF Inv, TypeOK
<1>9. Grounded(r)'
  BY <1>6 DEF Grounded, At
<1>10. QED
  BY <1>6, <1>7, <1>8, <1>9, RowsAlone DEF Inv

\* A request that fails, and one that is forgotten.
LEMMA IdleStep ==
  ASSUME Inv, NEW r \in Requests, req' = [req EXCEPT ![r] = Idle],
         page' \in Pages, UNCHANGED <<invite, responses, overlapped>>
  PROVE  Inv'
<1>1. /\ req'[r].op = "idle" /\ \A q \in Requests \ {r} : req'[q] = req[q]
      /\ req' \in [Requests -> Sent \union Loaded \union Evaluating \union {Idle}]
  BY DEF Inv, TypeOK, Idle
<1>2. TypeOK'
  BY <1>1 DEF Inv, TypeOK
<1>3. Grounded(r)'
  BY <1>1 DEF Grounded, At
<1>4. QED
  BY <1>1, <1>2, <1>3, RowsAlone DEF Inv

\* A request that fails takes nothing with it.
LEMMA FailsStep ==
  ASSUME Inv, NEW r \in Requests, Fails(r), req[r].op \in {"sent", "checked", "loaded"}
  PROVE  Inv'
<1>1. req[r].submit \in BOOLEAN
  BY Kinds DEF Inv, Sent, Loaded
<1>2. page \in Pages
  BY DEF Inv, TypeOK
<1> DEFINE failed == page.failed \/ ~ req[r].submit
<1>3. failed \in BOOLEAN
  OBVIOUS
<1>4. page' = [page EXCEPT !.failed = failed]
  BY DEF Fails
<1> HIDE DEF failed
<1>5. page' \in Pages
  BY <1>2, <1>3, <1>4 DEF Pages
<1>6. QED
  BY <1>5, IdleStep DEF Fails

\* What a request knows once it has looked for the row.
LEMMA LoadedType ==
  ASSUME NEW answers \in Forms, NEW submit \in BOOLEAN, NEW n \in Nat,
         NEW old \in Responses \union {None}
  PROVE  [op |-> "loaded", answers |-> answers, submit |-> submit, row |-> n, loaded |-> old]
           \in Loaded
BY DEF Loaded

\* The SELECTs.
LEMMA LoadStep ==
  ASSUME Inv, NEW r \in Requests, Check(r) \/ Load(r) \/ EvaluateLoad(r), ~ Fails(r)
  PROVE  Inv'
<1>1. responses \in Seq(Responses)
  BY DEF Inv, TypeOK
<1>2. UNCHANGED <<page, invite, responses, overlapped>>
  BY DEF Check, Load, EvaluateLoad
<1>3. PICK next \in Sent \union Loaded \union Evaluating :
        /\ req' = [req EXCEPT ![r] = next]
        /\ next.op = "loaded" =>
             /\ next.row \in 0 .. Len(responses)
             /\ next.row # 0 =>
                  /\ next.loaded \in Responses
                  /\ next.loaded.submitted => responses[next.row].submitted
        /\ next.op = "evaluating" => next.row \in 1 .. Len(responses)
  <2>1. CASE Check(r)
    <3> DEFINE next == [req[r] EXCEPT !.op = "checked"]
    <3>1. req[r] \in Sent
      BY <2>1, Kinds DEF Inv, Check, At
    <3>2. next \in Sent /\ next.op = "checked"
      BY <3>1 DEF Sent
    <3>3. req' = [req EXCEPT ![r] = next]
      BY <2>1 DEF Check
    <3> HIDE DEF next
    <3>4. QED
      BY <3>2, <3>3
  <2>2. CASE Load(r)
    <3> DEFINE old == IF responses = << >> THEN None ELSE responses[1]
               next == [op |-> "loaded", answers |-> req[r].answers, submit |-> req[r].submit,
                        row |-> Len(responses), loaded |-> old]
    <3>1. req[r] \in Sent /\ Len(responses) \in 0 .. 1
      BY <1>1, <2>2, Kinds DEF Inv, Load, At
    <3>2. Len(responses) = 1 => old = responses[1] /\ responses[1] \in Responses
      BY <1>1
    <3>3. Len(responses) = 0 => old = None
      BY <1>1
    <3>4. req' = [req EXCEPT ![r] = next]
      BY <2>2, <3>1 DEF Load
    <3> HIDE DEF old
    <3>5. old \in Responses \union {None}
      BY <3>1, <3>2, <3>3
    <3>6. next \in Loaded
      <4>1. req[r].answers \in Forms /\ req[r].submit \in BOOLEAN
        BY <3>1 DEF Sent
      <4>2. Len(responses) \in Nat
        BY <3>1
      <4>3. QED
        BY <4>1, <4>2, <3>5, LoadedType
    <3>7. next.op = "loaded" /\ next.row = Len(responses) /\ next.loaded = old
      OBVIOUS
    <3> HIDE DEF next
    <3>8. Len(responses) # 0 =>
            /\ next.loaded \in Responses
            /\ next.loaded.submitted => responses[Len(responses)].submitted
      BY <3>1, <3>2, <3>7
    <3>9. next \in Sent \union Loaded \union Evaluating /\ next.op # "evaluating"
      BY <3>6, <3>7
    <3>10. /\ next.row \in 0 .. Len(responses)
           /\ next.row # 0 =>
                /\ next.loaded \in Responses
                /\ next.loaded.submitted => responses[next.row].submitted
      BY <3>1, <3>7, <3>8
    <3>11. QED
      BY <3>4, <3>9, <3>10
  <2>3. CASE EvaluateLoad(r)
    <3>1. PICK i \in DOMAIN responses :
            req' = [req EXCEPT ![r] =
              [op |-> "evaluating", answers |-> responses[i].answers, row |-> i]]
      BY <2>3 DEF EvaluateLoad
    <3> DEFINE next == [op |-> "evaluating", answers |-> responses[i].answers, row |-> i]
    <3>2. i \in 1 .. Len(responses) /\ responses[i] \in Responses
      BY <1>1
    <3>3. responses[i].answers \in Forms
      BY <3>2 DEF Responses
    <3>4. next \in Evaluating /\ next.op = "evaluating" /\ next.row = i
      BY <3>2, <3>3 DEF Evaluating
    <3>5. req' = [req EXCEPT ![r] = next]
      BY <3>1
    <3> HIDE DEF next
    <3>6. QED
      BY <3>2, <3>4, <3>5
  <2>4. QED
    BY <2>1, <2>2, <2>3
<1>4. /\ req'[r] = next /\ \A q \in Requests \ {r} : req'[q] = req[q]
      /\ req' \in [Requests -> Sent \union Loaded \union Evaluating \union {Idle}]
  BY <1>3 DEF Inv, TypeOK
<1>5. TypeOK'
  BY <1>2, <1>4 DEF Inv, TypeOK
<1>6. Grounded(r)'
  BY <1>2, <1>3, <1>4 DEF Grounded, At
<1>7. QED
  BY <1>2, <1>4, <1>5, <1>6, RowsAlone DEF Inv

\* What happens to the rows when one is added or changed, submitted rows stay
\* submitted and the request that did it is done.
LEMMA RowsGrow ==
  ASSUME Inv, NEW r \in Requests, req' = [req EXCEPT ![r] = Idle],
         responses' \in Seq(Responses), Len(responses) <= Len(responses'),
         \A i \in 1 .. Len(responses) : responses[i].submitted => responses'[i].submitted
  PROVE  /\ \A q \in Requests : Grounded(q)'
         /\ req' \in [Requests -> Sent \union Loaded \union Evaluating \union {Idle}]
<1>1. /\ req'[r].op = "idle" /\ \A q \in Requests \ {r} : req'[q] = req[q]
      /\ req' \in [Requests -> Sent \union Loaded \union Evaluating \union {Idle}]
  BY DEF Inv, TypeOK, Idle
<1>2. Len(responses) \in Nat /\ Len(responses') \in Nat
  BY DEF Inv, TypeOK
<1>3. ASSUME NEW q \in Requests PROVE Grounded(q)'
  <2>1. CASE q = r
    BY <1>1, <2>1 DEF Grounded, At
  <2>2. CASE q # r
    <3>1. req'[q] = req[q]
      BY <1>1, <2>2
    <3>2. Grounded(q)
      BY DEF Inv
    <3>3. At(q, "loaded") =>
            /\ req[q].row \in 0 .. Len(responses')
            /\ req[q].row # 0 =>
                 /\ req[q].loaded \in Responses
                 /\ req[q].loaded.submitted => responses'[req[q].row].submitted
      BY <1>2, <3>2 DEF Grounded
    <3>4. At(q, "evaluating") => req[q].row \in 1 .. Len(responses')
      BY <1>2, <3>2 DEF Grounded
    <3>5. QED
      BY <3>1, <3>3, <3>4 DEF Grounded, At
  <2>3. QED
    BY <2>1, <2>2
<1>4. QED
  BY <1>1, <1>3

\* A save commits.
LEMMA SaveStep ==
  ASSUME Inv, NEW r \in Requests, Save(r)
  PROVE  Inv'
<1> DEFINE i == req[r].row
           answers == req[r].answers
           submit == req[r].submit
<1>1. req[r] \in Loaded /\ Grounded(r) /\ At(r, "loaded")
  BY Kinds DEF Inv, Save, At
<1>2. answers \in Forms /\ submit \in BOOLEAN /\ i \in 0 .. Len(responses)
  BY <1>1 DEF Loaded, Grounded
<1>3. responses \in Seq(Responses) /\ Len(responses) \in Nat
  BY DEF Inv, TypeOK
<1>4. /\ responses' \in Seq(Responses) /\ Len(responses) <= Len(responses')
      /\ \A k \in 1 .. Len(responses) : responses[k].submitted => responses'[k].submitted
      /\ (\E k \in 1 .. Len(responses') : responses'[k].submitted)
           <=> submit \/ \E k \in 1 .. Len(responses) : responses[k].submitted
  <2>1. CASE i = 0
    <3> DEFINE row == NewResponse(answers, submit)
    <3>1. row \in Responses /\ row.submitted = submit
      BY <1>2, NewResponseType
    <3>2. responses' = Append(responses, row)
      BY <2>1 DEF Save
    <3> HIDE DEF row, submit
    <3>3. /\ responses' \in Seq(Responses) /\ Len(responses') = Len(responses) + 1
          /\ \A k \in 1 .. Len(responses) : responses'[k] = responses[k]
          /\ responses'[Len(responses) + 1] = row
      BY <1>3, <3>1, <3>2
    <3>4. (\E k \in 1 .. Len(responses') : responses'[k].submitted)
            <=> submit \/ \E k \in 1 .. Len(responses) : responses[k].submitted
      BY <1>3, <3>1, <3>3
    <3>5. QED
      BY <1>3, <3>3, <3>4
  <2>2. CASE i # 0
    <3> DEFINE row == Updated(responses[i], req[r].loaded, answers, submit)
    <3>1. /\ i \in 1 .. Len(responses)
          /\ req[r].loaded \in Responses
          /\ req[r].loaded.submitted => responses[i].submitted
      BY <1>1, <1>2, <1>3, <2>2 DEF Grounded
    <3>2. responses[i] \in Responses
      BY <1>3, <3>1
    <3>3. row \in Responses /\ (row.submitted <=> (responses[i].submitted \/ submit))
      BY <1>2, <3>1, <3>2, UpdatedType
    <3>4. responses' = [responses EXCEPT ![i] = row]
      BY <2>2 DEF Save
    <3> HIDE DEF row, submit, i
    <3>5. /\ responses' \in Seq(Responses) /\ Len(responses') = Len(responses)
          /\ \A k \in 1 .. Len(responses) : k # i => responses'[k] = responses[k]
          /\ responses'[i] = row
      BY <1>3, <3>1, <3>3, <3>4
    <3>6. \A k \in 1 .. Len(responses) : responses[k].submitted => responses'[k].submitted
      BY <3>3, <3>5
    <3>7. (\E k \in 1 .. Len(responses') : responses'[k].submitted)
            <=> submit \/ \E k \in 1 .. Len(responses) : responses[k].submitted
      BY <3>1, <3>3, <3>5
    <3>8. QED
      BY <1>3, <3>5, <3>6, <3>7
  <2>3. QED
    BY <2>1, <2>2
<1>5. DOMAIN responses = 1 .. Len(responses) /\ DOMAIN responses' = 1 .. Len(responses')
  BY <1>3, <1>4
<1>6. /\ req' = [req EXCEPT ![r] = Idle]
      /\ page' = [page EXCEPT !.open = @ /\ ~ submit, !.failed = @ /\ submit]
      /\ invite' = [invite EXCEPT !.completed = @ \/ submit]
      /\ overlapped' = overlapped
  BY DEF Save
<1>7. /\ \A q \in Requests : Grounded(q)'
      /\ req' \in [Requests -> Sent \union Loaded \union Evaluating \union {Idle}]
  BY <1>4, <1>6, RowsGrow
<1>8. page \in Pages /\ invite \in Invites /\ overlapped' \in BOOLEAN
  BY <1>6 DEF Inv, TypeOK
<1> HIDE DEF i, answers
<1>9. page' \in Pages
  <2> DEFINE open == page.open /\ ~ submit
             failed == page.failed /\ submit
  <2>1. open \in BOOLEAN /\ failed \in BOOLEAN
    OBVIOUS
  <2>2. page' = [page EXCEPT !.open = open, !.failed = failed]
    BY <1>6
  <2> HIDE DEF open, failed
  <2>3. QED
    BY <1>8, <2>1, <2>2 DEF Pages
<1>10. invite' \in Invites /\ (invite'.completed <=> invite.completed \/ submit)
  <2> DEFINE completed == invite.completed \/ submit
  <2>1. completed \in BOOLEAN
    OBVIOUS
  <2>2. invite' = [invite EXCEPT !.completed = completed]
    BY <1>6
  <2> HIDE DEF completed
  <2>3. invite' \in Invites /\ invite'.completed = completed
    BY <1>8, <2>1, <2>2 DEF Invites
  <2>4. QED
    BY <2>3 DEF completed
<1>11. CompletedMeansSubmitted'
  BY <1>4, <1>5, <1>10 DEF Inv, CompletedMeansSubmitted
<1>12. TypeOK'
  BY <1>4, <1>7, <1>8, <1>9, <1>10 DEF TypeOK
<1>13. QED
  BY <1>7, <1>11, <1>12 DEF Inv

\* An evaluation commits.
LEMMA EvaluateStep ==
  ASSUME Inv, NEW r \in Requests, EvaluateCommit(r)
  PROVE  Inv'
<1> DEFINE i == req[r].row
           row == [responses[i] EXCEPT !.evaluation = req[r].answers]
<1>1. req[r] \in Evaluating /\ i \in 1 .. Len(responses)
  BY Kinds DEF Inv, EvaluateCommit, At, Grounded
<1>2. responses \in Seq(Responses) /\ Len(responses) \in Nat
  BY DEF Inv, TypeOK
<1>3. responses[i] \in Responses /\ req[r].answers \in Forms
  BY <1>1, <1>2 DEF Evaluating
<1>4. row \in Responses /\ row.submitted = responses[i].submitted
  BY <1>3 DEF Responses
<1>5. responses' = [responses EXCEPT ![i] = row]
  BY <1>1, <1>2 DEF EvaluateCommit
<1>6. /\ req' = [req EXCEPT ![r] = Idle]
      /\ UNCHANGED <<page, invite, overlapped>>
  BY DEF EvaluateCommit
<1> HIDE DEF row, i
<1>7. /\ responses' \in Seq(Responses) /\ Len(responses') = Len(responses)
      /\ DOMAIN responses = 1 .. Len(responses) /\ DOMAIN responses' = 1 .. Len(responses)
      /\ \A k \in 1 .. Len(responses) : k # i => responses'[k] = responses[k]
      /\ responses'[i] = row
  BY <1>1, <1>2, <1>4, <1>5
<1>8. \A k \in 1 .. Len(responses) : responses'[k].submitted <=> responses[k].submitted
  BY <1>4, <1>7
<1>9. /\ \A q \in Requests : Grounded(q)'
      /\ req' \in [Requests -> Sent \union Loaded \union Evaluating \union {Idle}]
  <2>1. Len(responses) <= Len(responses')
    BY <1>2, <1>7
  <2>2. \A k \in 1 .. Len(responses) : responses[k].submitted => responses'[k].submitted
    BY <1>8
  <2>3. QED
    BY <1>6, <1>7, <2>1, <2>2, RowsGrow
<1>10. CompletedMeansSubmitted'
  BY <1>6, <1>7, <1>8 DEF Inv, CompletedMeansSubmitted
<1>11. TypeOK'
  BY <1>6, <1>7, <1>9 DEF Inv, TypeOK
<1>12. QED
  BY <1>9, <1>10, <1>11 DEF Inv

\* Every step keeps the invariant.
LEMMA NextInv == Inv /\ [Next]_vars => Inv'
<1> SUFFICES ASSUME Inv, [Next]_vars PROVE Inv'
  OBVIOUS
<1>1. CASE UNCHANGED vars
  <2>1. UNCHANGED <<page, invite, responses, req, overlapped>>
    BY <1>1 DEF vars
  <2>2. TypeOK'
    BY <2>1 DEF Inv, TypeOK
  <2>3. QED
    BY <2>1, <2>2, PageAlone DEF Inv
<1>2. CASE (\E form \in Forms : Type(form)) \/ Reload \/ Expire
  BY <1>2, PageStep
<1>3. ASSUME NEW r \in Requests, Candidate(r) PROVE Inv'
  BY <1>3, SendStep
<1>4. ASSUME NEW r \in Requests, Serve(r) PROVE Inv'
  <2>1. CASE Fails(r) /\ (Check(r) \/ Load(r) \/ Reject(r))
    BY <2>1, FailsStep DEF Check, Load, Reject, At
  <2>2. CASE ~ Fails(r) /\ (Check(r) \/ Load(r) \/ EvaluateLoad(r))
    BY <2>2, LoadStep
  <2>3. CASE EvaluateLoad(r) /\ Fails(r)
    BY <2>3, IdleStep DEF EvaluateLoad, Fails, Inv, TypeOK
  <2>4. CASE EvaluateFails(r)
    BY <2>4, IdleStep DEF EvaluateFails, Inv, TypeOK
  <2>5. QED
    BY <1>4, <2>1, <2>2, <2>3, <2>4, SaveStep, EvaluateStep DEF Serve, Reject
<1>5. QED
  BY <1>1, <1>2, <1>3, <1>4 DEF Next

-----------------------------------------------------------------------------

\* Rows, requests and the page keep their types.
THEOREM TypeCorrect == Spec => []TypeOK
<1>1. Inv => TypeOK
  BY DEF Inv
<1>2. QED
  BY <1>1, InitInv, NextInv, PTL DEF Spec

\* However saves, submits and reloads overlap, an invitation is used up
\* exactly when a response of it was submitted: no link dies without one, and
\* no submitted response is behind a link that still takes answers.
THEOREM UsedUpBySubmitting == Spec => []CompletedMeansSubmitted
<1>1. Inv => CompletedMeansSubmitted
  BY DEF Inv
<1>2. QED
  BY <1>1, InitInv, NextInv, PTL DEF Spec
-----------------------------------------------------------------------------
(* What holds as long as the page's requests do not overlap.               *)

Sending(r) == req[r].op \in {"sent", "checked", "loaded"}

Alone == \A q, r \in Requests : Sending(q) /\ Sending(r) => q = r

\* What the page would be shown if it were loaded anew.
Stored == IF responses = << >> THEN Empty ELSE responses[1].answers

RowSettled(row) ==
  /\ row.missing = MissingRequired(row.answers)
  /\ row.submitted => row.missing = {}
  /\ row.evaluation # None => row.submitted /\ row.evaluation = row.answers

RowsSettled ==
  /\ Len(responses) <= 1
  /\ \A i \in 1 .. Len(responses) : RowSettled(responses[i])

\* What a request has seen of the row is what the row still is.
Fresh(r) ==
  /\ req[r].op \in {"checked", "loaded"} => ~ invite.completed
  /\ At(r, "loaded") =>
       /\ req[r].row = Len(responses)
       /\ req[r].row # 0 =>
            /\ req[r].loaded.answers = responses[1].answers
            /\ req[r].loaded.missing = responses[1].missing
            /\ req[r].loaded.submitted = responses[1].submitted
  /\ At(r, "evaluating") =>
       /\ responses[req[r].row].submitted
       /\ responses[req[r].row].answers = req[r].answers

\* A save that is on its way carries what the page shows, unless more was
\* typed; when it is a submit, what the page shows was stored before.
Carries(r) ==
  Sending(r) /\ page.open /\ page.timer = None =>
    IF req[r].submit THEN page.failed \/ page.form = Stored
    ELSE req[r].answers = page.form

PageSettled ==
  /\ page.timer # None => page.timer = page.form
  /\ page.open /\ page.timer = None /\ ~ page.failed /\ ~ InFlight => page.form = Stored

Calm ==
  /\ Alone /\ RowsSettled /\ PageSettled
  /\ \A r \in Requests : Fresh(r) /\ Carries(r)

Settled == ~ overlapped => Calm

\* Before the first request nothing is unsettled.
LEMMA InitSettled == Init => Settled
<1> SUFFICES ASSUME Init PROVE Calm
  BY DEF Settled
<1>1. \A r \in Requests : req[r].op = "idle"
  BY DEF Init, Idle
<1>2. Alone /\ \A r \in Requests : Fresh(r) /\ Carries(r)
  BY <1>1 DEF Alone, Sending, Fresh, Carries, At
<1>3. RowsSettled
  BY DEF Init, RowsSettled
<1>4. PageSettled
  BY DEF Init, PageSettled, Stored
<1>5. QED
  BY <1>2, <1>3, <1>4 DEF Calm

\* A request is on its way if and only if one of the page is.
LEMMA FlightIsSending == InFlight <=> \E r \in Requests : Sending(r)
BY DEF InFlight, Sending

\* One request changes.
LEMMA OneRequest ==
  ASSUME TypeOK, NEW r \in Requests, NEW next, req' = [req EXCEPT ![r] = next]
  PROVE  req'[r] = next /\ \A q \in Requests \ {r} : req'[q] = req[q]
BY DEF TypeOK

\* Steps that change neither rows nor the invitation's use nor what is shown.
LEMMA OthersFresh ==
  ASSUME Calm, NEW r \in Requests, UNCHANGED responses,
         invite'.completed = invite.completed,
         \A q \in Requests \ {r} : req'[q] = req[q]
  PROVE  RowsSettled' /\ Stored' = Stored /\ \A q \in Requests \ {r} : Fresh(q)'
BY DEF Calm, RowsSettled, RowSettled, MissingRequired, Stored, Fresh, At

\* When a request of the page is the only one, the others carry nothing.
LEMMA OthersCarry ==
  ASSUME Calm, NEW r \in Requests, Sending(r) \/ ~ InFlight,
         \A q \in Requests \ {r} : req'[q] = req[q]
  PROVE  Alone' /\ \A q \in Requests \ {r} : ~ Sending(q) /\ ~ Sending(q)' /\ Carries(q)'
<1>1. \A q \in Requests \ {r} : ~ Sending(q)
  BY FlightIsSending DEF Calm, Alone
<1>2. \A q \in Requests \ {r} : ~ Sending(q)'
  BY <1>1 DEF Sending
<1>3. QED
  BY <1>1, <1>2 DEF Alone, Carries

\* At most one row is no row or one.
LEMMA NoneOrOne ==
  ASSUME NEW n \in Nat, n <= 1
  PROVE  n = 0 \/ n = 1
OBVIOUS

\* Typing, loading the page anew, and the end of the invitation's term.
LEMMA PageSettles ==
  ASSUME Inv, Calm, ~ overlapped', (\E form \in Forms : Type(form)) \/ Reload \/ Expire
  PROVE  Calm'
<1>1. responses' = responses /\ req' = req /\ invite'.completed = invite.completed
  BY DEF Inv, TypeOK, Invites, Type, Reload, Expire
<1>2. Alone' /\ (InFlight' <=> InFlight) /\ \A r \in Requests : Sending(r)' <=> Sending(r)
  BY <1>1 DEF Calm, Alone, Sending, InFlight
<1>3. RowsSettled' /\ Stored' = Stored /\ \A r \in Requests : Fresh(r)'
  BY <1>1 DEF Calm, RowsSettled, RowSettled, MissingRequired, Stored, Fresh, At
<1>4. page \in Pages
  BY DEF Inv, TypeOK
<1>5. PageSettled' /\ \A r \in Requests : Carries(r)'
  <2>1. ASSUME NEW form \in Forms, Type(form)
        PROVE  PageSettled' /\ \A r \in Requests : Carries(r)'
    <3>1. page'.timer = form /\ page'.form = form /\ form # None
      BY <1>4, <2>1, FormsAssumption DEF Type, Pages
    <3>2. QED
      BY <3>1 DEF PageSettled, Carries
  <2>2. CASE Reload
    <3>1. ~ InFlight
      BY <2>2 DEF Reload
    <3>2. /\ page'.open => Len(responses) <= 1
          /\ page'.form = IF Len(responses) = 1 THEN responses[1].answers ELSE Empty
          /\ page'.timer = None
      BY <2>2 DEF Reload
    <3>3. page'.open => page'.form = Stored
      <4>1. responses \in Seq(Responses)
        BY DEF Inv, TypeOK
      <4>2. Len(responses) \in Nat /\ (responses = << >> <=> Len(responses) = 0)
        BY <4>1
      <4>3. CASE Len(responses) = 0
        BY <3>2, <4>2, <4>3 DEF Stored
      <4>4. CASE Len(responses) = 1
        BY <3>2, <4>2, <4>4 DEF Stored
      <4>5. page'.open => Len(responses) = 0 \/ Len(responses) = 1
        BY <3>2, <4>2, NoneOrOne
      <4>6. QED
        BY <4>3, <4>4, <4>5
    <3>4. \A r \in Requests : ~ Sending(r)'
      BY <1>2, <3>1, FlightIsSending
    <3>5. QED
      BY <1>3, <3>2, <3>3, <3>4 DEF PageSettled, Carries
  <2>3. CASE Expire
    <3>1. page' = page
      BY <2>3 DEF Expire
    <3>2. PageSettled'
      BY <1>2, <1>3, <3>1 DEF Calm, PageSettled
    <3>3. \A r \in Requests : Carries(r)'
      BY <1>1, <1>2, <1>3, <3>1 DEF Calm, Carries
    <3>4. QED
      BY <3>2, <3>3
  <2>4. QED
    BY <2>1, <2>2, <2>3
<1>6. QED
  BY <1>2, <1>3, <1>5 DEF Calm

\* A request leaves the page, which has no other on its way.
LEMMA SendSettles ==
  ASSUME Inv, Calm, ~ overlapped', NEW r \in Requests, Candidate(r)
  PROVE  Calm'
<1>1. page \in Pages /\ TypeOK
  BY DEF Inv, TypeOK
<1>2. PICK answers, submit : /\ Send(r, answers, submit)
                             /\ (submit = FALSE /\ answers = page.timer /\ Autosave(r))
                                  \/ (submit = TRUE /\ Submit(r))
  BY DEF Candidate, Autosave, Submit
<1>3. /\ req'[r] = [op |-> "sent", answers |-> answers, submit |-> submit]
      /\ \A q \in Requests \ {r} : req'[q] = req[q]
  BY <1>1, <1>2, OneRequest DEF Send
<1>4. ~ InFlight /\ UNCHANGED <<invite, responses>>
  BY <1>2 DEF Send
<1>5. /\ RowsSettled' /\ Stored' = Stored /\ Alone'
      /\ \A q \in Requests \ {r} : Fresh(q)' /\ Carries(q)'
  BY <1>3, <1>4, OthersFresh, OthersCarry
<1>6. Fresh(r)' /\ Sending(r)'
  BY <1>3 DEF Fresh, Sending, At
<1>7. InFlight'
  BY <1>6 DEF InFlight, Sending
<1>8. PageSettled' /\ Carries(r)'
  <2>1. CASE Autosave(r) /\ submit = FALSE /\ answers = page.timer
    <3>1. page'.timer = None /\ page'.form = page.form /\ page.timer # None
      BY <1>1, <2>1 DEF Autosave, Pages
    <3>2. answers = page'.form
      BY <2>1, <3>1 DEF Calm, PageSettled
    <3>3. QED
      BY <1>3, <1>7, <2>1, <3>1, <3>2 DEF PageSettled, Carries
  <2>2. CASE Submit(r) /\ submit = TRUE
    <3>1. page' = page
      BY <2>2 DEF Submit
    <3>2. page.open /\ page.timer = None => page.failed \/ page.form = Stored
      BY <1>4 DEF Calm, PageSettled
    <3>3. Carries(r)'
      BY <1>3, <1>5, <2>2, <3>1, <3>2 DEF Carries
    <3>4. PageSettled'
      BY <1>7, <3>1 DEF Calm, PageSettled
    <3>5. QED
      BY <3>3, <3>4
  <2>3. QED
    BY <1>2, <2>1, <2>2
<1>9. QED
  BY <1>5, <1>6, <1>8 DEF Calm

\* A request fails: the others were not on their way.
LEMMA FailsSettles ==
  ASSUME Inv, Calm, NEW r \in Requests, Sending(r), Fails(r)
  PROVE  Calm'
<1>1. page \in Pages /\ TypeOK
  BY DEF Inv, TypeOK
<1>2. req' = [req EXCEPT ![r] = Idle] /\ UNCHANGED <<invite, responses>>
  BY DEF Fails
<1>3. req'[r] = Idle /\ \A q \in Requests \ {r} : req'[q] = req[q]
  BY <1>1, <1>2, OneRequest
<1>4. /\ RowsSettled' /\ Stored' = Stored /\ Alone'
      /\ \A q \in Requests \ {r} : Fresh(q)' /\ Carries(q)'
  BY <1>2, <1>3, OthersFresh, OthersCarry
<1>5. Fresh(r)' /\ Carries(r)'
  BY <1>3 DEF Fresh, Carries, Sending, At, Idle
<1>6. PageSettled'
  <2> DEFINE failed == page.failed \/ ~ req[r].submit
  <2>1. page' = [page EXCEPT !.failed = failed]
    BY DEF Fails
  <2> HIDE DEF failed
  <2>2. /\ page'.open = page.open /\ page'.timer = page.timer
        /\ page'.form = page.form /\ page'.failed = failed
    BY <1>1, <2>1 DEF Pages
  <2>3. page.open /\ page.timer = None /\ ~ failed => page.form = Stored
    BY DEF failed, Calm, Carries
  <2>4. QED
    BY <1>4, <2>2, <2>3 DEF Calm, PageSettled
<1>7. QED
  BY <1>4, <1>5, <1>6 DEF Calm

\* The SELECTs of a save.
LEMMA ReadSettles ==
  ASSUME Inv, Calm, NEW r \in Requests, Check(r) \/ Load(r), ~ Fails(r)
  PROVE  Calm'
<1>1. page \in Pages /\ TypeOK /\ responses \in Seq(Responses)
  BY DEF Inv, TypeOK
<1>2. UNCHANGED <<page, invite, responses>> /\ Sending(r)
  BY DEF Check, Load, Sending, At
<1>3. PICK next : /\ req' = [req EXCEPT ![r] = next]
                  /\ next.op \in {"checked", "loaded"}
                  /\ next.answers = req[r].answers /\ next.submit = req[r].submit
                  /\ ~ invite.completed
                  /\ next.op = "loaded" =>
                       /\ next.row = Len(responses)
                       /\ next.row # 0 => next.loaded = responses[1]
  <2>1. CASE Check(r)
    <3> DEFINE next == [req[r] EXCEPT !.op = "checked"]
    <3>1. req[r] \in Sent
      BY <2>1, Kinds DEF Inv, Check, At
    <3>2. /\ next.op = "checked"
          /\ next.answers = req[r].answers /\ next.submit = req[r].submit
      BY <3>1 DEF Sent
    <3>3. req' = [req EXCEPT ![r] = next] /\ ~ invite.completed
      BY <2>1 DEF Check
    <3> HIDE DEF next
    <3>4. QED
      BY <3>2, <3>3
  <2>2. CASE Load(r)
    <3> DEFINE old == IF responses = << >> THEN None ELSE responses[1]
               next == [op |-> "loaded", answers |-> req[r].answers, submit |-> req[r].submit,
                        row |-> Len(responses), loaded |-> old]
    <3>1. req' = [req EXCEPT ![r] = next]
      BY <2>2 DEF Load
    <3>2. ~ invite.completed
      BY <2>2 DEF Load, Calm, Fresh, At
    <3>3. Len(responses) # 0 => old = responses[1]
      BY <1>1
    <3> HIDE DEF old
    <3>4. /\ next.op = "loaded" /\ next.row = Len(responses) /\ next.loaded = old
          /\ next.answers = req[r].answers /\ next.submit = req[r].submit
      OBVIOUS
    <3> HIDE DEF next
    <3>5. QED
      BY <3>1, <3>2, <3>3, <3>4
  <2>3. QED
    BY <2>1, <2>2
<1>4. req'[r] = next /\ \A q \in Requests \ {r} : req'[q] = req[q]
  BY <1>1, <1>3, OneRequest
<1>5. /\ RowsSettled' /\ Stored' = Stored /\ Alone'
      /\ \A q \in Requests \ {r} : Fresh(q)' /\ Carries(q)'
  BY <1>2, <1>4, OthersFresh, OthersCarry
<1>6. Fresh(r)'
  BY <1>2, <1>3, <1>4 DEF Fresh, At
<1>7. Sending(r)' /\ InFlight'
  BY <1>3, <1>4 DEF Sending, InFlight
<1>8. Carries(r)'
  BY <1>2, <1>3, <1>4, <1>5 DEF Calm, Carries
<1>9. PageSettled'
  BY <1>2, <1>7 DEF Calm, PageSettled
<1>10. QED
  BY <1>5, <1>6, <1>8, <1>9 DEF Calm

\* An evaluation begins, or is given up.
LEMMA AskSettles ==
  ASSUME Inv, Calm, NEW r \in Requests, EvaluateLoad(r) \/ EvaluateFails(r)
  PROVE  Calm'
<1>1. TypeOK /\ UNCHANGED <<page, invite, responses>> /\ ~ Sending(r)
  BY DEF Inv, EvaluateLoad, EvaluateFails, Sending, At
<1>2. PICK next : /\ req' = [req EXCEPT ![r] = next]
                  /\ \/ next.op = "idle"
                     \/ /\ next.op = "evaluating"
                        /\ responses[next.row].submitted
                        /\ responses[next.row].answers = next.answers
  BY DEF EvaluateLoad, EvaluateFails, Idle
<1>3. req'[r] = next /\ \A q \in Requests \ {r} : req'[q] = req[q]
  BY <1>1, <1>2, OneRequest
<1>4. RowsSettled' /\ Stored' = Stored /\ \A q \in Requests \ {r} : Fresh(q)'
  BY <1>1, <1>3, OthersFresh
<1>5. Fresh(r)' /\ ~ Sending(r)'
  BY <1>1, <1>2, <1>3 DEF Fresh, Sending, At
<1>6. \A q \in Requests : Sending(q)' <=> Sending(q)
  BY <1>1, <1>3, <1>5 DEF Sending
<1>7. Alone' /\ (InFlight' <=> InFlight)
  <2>1. Alone'
    BY <1>6 DEF Calm, Alone
  <2>2. InFlight' <=> \E q \in Requests : Sending(q)'
    BY DEF InFlight, Sending
  <2>3. QED
    BY <1>6, <2>1, <2>2, FlightIsSending
<1>8. PageSettled'
  BY <1>1, <1>4, <1>7 DEF Calm, PageSettled
<1>9. \A q \in Requests : Carries(q)'
  <2> TAKE q \in Requests
  <2>1. CASE q = r
    BY <1>5, <2>1 DEF Carries
  <2>2. CASE q # r
    BY <1>1, <1>3, <1>4, <2>2 DEF Calm, Carries, Sending
  <2>3. QED
    BY <2>1, <2>2
<1>10. QED
  BY <1>4, <1>5, <1>7, <1>8, <1>9 DEF Calm

\* What a save writes into a row that is as it was loaded: its answers, and
\* all that goes with them.
LEMMA UpdatedInFull ==
  ASSUME NEW current \in Responses, NEW loaded, NEW answers \in Forms,
         NEW submit \in BOOLEAN,
         loaded.answers = current.answers, loaded.missing = current.missing,
         loaded.submitted = current.submitted, ~ current.submitted
  PROVE  LET row == Updated(current, loaded, answers, submit)
         IN  /\ row.answers = answers /\ row.missing = MissingRequired(answers)
             /\ row.submitted = submit /\ row.evaluation = current.evaluation
<1> DEFINE a == Column(current.answers, loaded.answers, answers)
           m == Column(current.missing, loaded.missing, MissingRequired(answers))
           s == Column(current.submitted, loaded.submitted, loaded.submitted \/ submit)
<1>1. current.submitted = FALSE
  BY DEF Responses
<1>2. a = answers /\ m = MissingRequired(answers) /\ s = submit
  BY <1>1 DEF Column
<1>3. Updated(current, loaded, answers, submit)
        = [current EXCEPT !.answers = a, !.missing = m, !.submitted = s]
  BY DEF Updated
<1> HIDE DEF a, m, s
<1>4. LET row == [current EXCEPT !.answers = a, !.missing = m, !.submitted = s]
      IN  /\ row.answers = a /\ row.missing = m
          /\ row.submitted = s /\ row.evaluation = current.evaluation
  BY DEF Responses
<1>5. QED
  BY <1>2, <1>3, <1>4

\* While a request of the page has yet to commit nothing has been submitted,
\* evaluated or is being evaluated.
LEMMA NothingSubmitted ==
  ASSUME Inv, Calm, NEW r \in Requests, At(r, "loaded")
  PROVE  /\ \A i \in 1 .. Len(responses) :
              ~ responses[i].submitted /\ responses[i].evaluation = None
         /\ \A q \in Requests : ~ At(q, "evaluating")
<1>1. ~ invite.completed
  BY DEF Calm, Fresh, At
<1>2. DOMAIN responses = 1 .. Len(responses)
  BY DEF Inv, TypeOK
<1>3. \A i \in 1 .. Len(responses) : ~ responses[i].submitted
  BY <1>1, <1>2 DEF Inv, CompletedMeansSubmitted
<1>4. \A i \in 1 .. Len(responses) : responses[i].evaluation = None
  BY <1>3 DEF Calm, RowsSettled, RowSettled
<1>5. \A q \in Requests : ~ At(q, "evaluating")
  BY <1>3 DEF Inv, Grounded, Calm, Fresh
<1>6. QED
  BY <1>3, <1>4, <1>5

\* A save commits: there is one row, of what was sent.
LEMMA SaveSettles ==
  ASSUME Inv, Calm, NEW r \in Requests, Save(r)
  PROVE  Calm'
<1> DEFINE i == req[r].row
           answers == req[r].answers
           submit == req[r].submit
<1>1. page \in Pages /\ TypeOK /\ responses \in Seq(Responses) /\ Len(responses) \in Nat
  BY DEF Inv, TypeOK
<1>2. req[r] \in Loaded /\ Grounded(r) /\ At(r, "loaded") /\ Sending(r)
  BY Kinds DEF Inv, Save, At, Sending
<1>3. answers \in Forms /\ submit \in BOOLEAN
  BY <1>2 DEF Loaded
<1>4. i = Len(responses) /\ (Len(responses) = 0 \/ Len(responses) = 1)
  <2>1. Fresh(r) /\ Len(responses) <= 1
    BY DEF Calm, RowsSettled
  <2>2. i = Len(responses)
    BY <1>2, <2>1 DEF Fresh
  <2>3. QED
    BY <1>1, <2>1, <2>2, NoneOrOne
<1>5. submit => MissingRequired(answers) = {}
  BY DEF Save, Accepted
<1>6. /\ Len(responses') = 1 /\ responses' # << >>
      /\ responses'[1].answers = answers
      /\ responses'[1].missing = MissingRequired(answers)
      /\ responses'[1].submitted = submit
      /\ responses'[1].evaluation = None
  <2>1. CASE i = 0
    <3> DEFINE row == NewResponse(answers, submit)
    <3>1. responses' = Append(responses, row)
      BY <2>1 DEF Save
    <3>2. /\ row.answers = answers /\ row.missing = MissingRequired(answers)
          /\ row.submitted = submit /\ row.evaluation = None
      BY DEF NewResponse
    <3>3. row \in Responses
      BY <1>3, NewResponseType
    <3> HIDE DEF row, i, answers, submit
    <3>4. Len(responses) = 0
      BY <1>4, <2>1
    <3>5. Len(responses') = 1 /\ responses'[1] = row /\ responses' # << >>
      BY <1>1, <3>1, <3>3, <3>4
    <3>6. QED
      BY <3>2, <3>5
  <2>2. CASE i = 1
    <3> DEFINE row == Updated(responses[i], req[r].loaded, answers, submit)
    <3>1. i \in 1 .. Len(responses) /\ responses[i] \in Responses
      <4>1. Len(responses) = 1 /\ i = 1
        BY <1>4, <2>2
      <4>2. 1 \in 1 .. Len(responses)
        BY <4>1
      <4>3. \A k \in 1 .. Len(responses) : responses[k] \in Responses
        BY <1>1
      <4>4. QED
        BY <4>1, <4>2, <4>3
    <3>2. ~ responses[i].submitted /\ responses[i].evaluation = None
      BY <1>2, <1>4, <2>2, NothingSubmitted
    <3>3. /\ req[r].loaded.answers = responses[i].answers
          /\ req[r].loaded.missing = responses[i].missing
          /\ req[r].loaded.submitted = responses[i].submitted
      BY <1>2, <2>2 DEF Calm, Fresh
    <3>4. /\ row.answers = answers /\ row.missing = MissingRequired(answers)
          /\ row.submitted = submit /\ row.evaluation = None
      <4> DEFINE loaded == req[r].loaded
                 current == responses[i]
      <4>1. /\ loaded.answers = current.answers /\ loaded.missing = current.missing
            /\ loaded.submitted = current.submitted /\ ~ current.submitted
            /\ current \in Responses /\ current.evaluation = None
        BY <3>1, <3>2, <3>3
      <4> HIDE DEF loaded, current, answers, submit
      <4>2. LET new == Updated(current, loaded, answers, submit)
            IN  /\ new.answers = answers /\ new.missing = MissingRequired(answers)
                /\ new.submitted = submit /\ new.evaluation = current.evaluation
        BY <1>3, <4>1, UpdatedInFull
      <4>3. QED
        BY <4>1, <4>2 DEF loaded, current
    <3>5. responses' = [responses EXCEPT ![i] = row]
      BY <2>2 DEF Save
    <3> HIDE DEF row, i, answers, submit
    <3>6. Len(responses') = 1 /\ responses'[1] = row /\ responses' # << >>
      <4>1. i = 1 /\ Len(responses) = 1
        BY <1>4, <2>2
      <4>2. responses' = [responses EXCEPT ![1] = row]
        BY <3>5, <4>1
      <4>3. DOMAIN responses' = 1 .. 1 /\ Len(responses') = 1 /\ responses'[1] = row
        BY <1>1, <4>1, <4>2
      <4>4. QED
        BY <4>3
    <3>7. QED
      BY <3>4, <3>6
  <2>3. QED
    BY <1>4, <2>1, <2>2
<1>7. req'[r] = Idle /\ \A q \in Requests \ {r} : req'[q] = req[q]
  BY <1>1, OneRequest DEF Save
<1>8. Alone' /\ \A q \in Requests \ {r} : ~ Sending(q)' /\ Carries(q)'
  BY <1>2, <1>7, OthersCarry
<1>9. ~ Sending(r)' /\ Carries(r)' /\ Fresh(r)'
  BY <1>7 DEF Sending, Carries, Fresh, At, Idle
<1>10. \A q \in Requests \ {r} : Fresh(q)'
  BY <1>2, <1>7, <1>8, NothingSubmitted DEF Fresh, Sending, At
<1>11. RowsSettled'
  BY <1>5, <1>6 DEF RowsSettled, RowSettled, MissingRequired
<1>12. PageSettled'
  <2> DEFINE open == page.open /\ ~ submit
             failed == page.failed /\ submit
  <2>1. page' = [page EXCEPT !.open = open, !.failed = failed]
    BY DEF Save
  <2> HIDE DEF open, failed
  <2>2. page'.open = open /\ page'.timer = page.timer /\ page'.form = page.form
    BY <1>1, <2>1 DEF Pages
  <2>3. open /\ page.timer = None => page.form = answers
    BY <1>2 DEF open, Calm, Carries
  <2>4. Stored' = answers
    BY <1>6 DEF Stored
  <2>5. QED
    BY <2>2, <2>3, <2>4 DEF Calm, PageSettled
<1>13. QED
  BY <1>8, <1>9, <1>10, <1>11, <1>12 DEF Calm

\* An evaluation commits: it is one of the answers that are still there.
LEMMA EvaluateSettles ==
  ASSUME Inv, Calm, NEW r \in Requests, EvaluateCommit(r)
  PROVE  Calm'
<1> DEFINE i == req[r].row
           row == [responses[i] EXCEPT !.evaluation = req[r].answers]
<1>1. TypeOK /\ responses \in Seq(Responses) /\ Len(responses) \in Nat
  BY DEF Inv, TypeOK
<1>2. i \in 1 .. Len(responses) /\ At(r, "evaluating")
  BY DEF Inv, EvaluateCommit, Grounded
<1>3. responses[i] \in Responses
  BY <1>1, <1>2
<1>4. /\ row.answers = responses[i].answers /\ row.missing = responses[i].missing
      /\ row.submitted = responses[i].submitted /\ row.evaluation = req[r].answers
  BY <1>3 DEF Responses
<1>5. responses' = [responses EXCEPT ![i] = row]
  BY DEF EvaluateCommit
<1>6. responses[i].submitted /\ responses[i].answers = req[r].answers
  BY <1>2 DEF Calm, Fresh
<1>7. RowSettled(responses[i])
  BY <1>2 DEF Calm, RowsSettled
<1> HIDE DEF row, i
<1>8. /\ Len(responses') = Len(responses) /\ (responses' = << >> <=> responses = << >>)
      /\ responses'[i] = row
      /\ \A k \in 1 .. Len(responses) : k # i => responses'[k] = responses[k]
  BY <1>1, <1>2, <1>5
<1>9. \A k \in 1 .. Len(responses) :
        /\ responses'[k].answers = responses[k].answers
        /\ responses'[k].missing = responses[k].missing
        /\ responses'[k].submitted = responses[k].submitted
  BY <1>4, <1>8
<1>10. RowsSettled'
  <2>1. row.missing = MissingRequired(row.answers) /\ (row.submitted => row.missing = {})
    BY <1>4, <1>7 DEF RowSettled
  <2>2. row.submitted /\ row.evaluation = row.answers
    BY <1>4, <1>6
  <2>3. RowSettled(row)
    BY <2>1, <2>2 DEF RowSettled
  <2>4. \A k \in 1 .. Len(responses) : RowSettled(responses'[k])
    BY <1>8, <2>3 DEF Calm, RowsSettled
  <2>5. QED
    BY <1>8, <2>4 DEF Calm, RowsSettled, RowSettled, MissingRequired
<1>11. Stored' = Stored
  <2>1. CASE Len(responses) = 0
    BY <1>2, <2>1
  <2>2. CASE Len(responses) # 0
    BY <1>1, <1>8, <1>9, <2>2 DEF Stored
  <2>3. QED
    BY <2>1, <2>2
<1>12. UNCHANGED <<page, invite>> /\ req' = [req EXCEPT ![r] = Idle]
  BY DEF EvaluateCommit
<1>13. req'[r] = Idle /\ \A q \in Requests \ {r} : req'[q] = req[q]
  BY <1>1, <1>12, OneRequest
<1>14. \A q \in Requests : Sending(q)' <=> Sending(q)
  BY <1>2, <1>13 DEF Sending, At, Idle
<1>15. Alone' /\ (InFlight' <=> InFlight)
  <2>1. Alone'
    BY <1>14 DEF Calm, Alone
  <2>2. InFlight' <=> \E q \in Requests : Sending(q)'
    BY DEF InFlight, Sending
  <2>3. QED
    BY <1>14, <2>1, <2>2, FlightIsSending
<1>16. PageSettled'
  BY <1>11, <1>12, <1>15 DEF Calm, PageSettled
<1>17. ASSUME NEW q \in Requests PROVE Fresh(q)' /\ Carries(q)'
  <2>1. CASE q = r
    BY <1>13, <2>1 DEF Fresh, Carries, Sending, At, Idle
  <2>2. CASE q # r
    <3>1. req'[q] = req[q] /\ Fresh(q) /\ Carries(q) /\ Grounded(q)
      BY <1>13, <2>2 DEF Calm, Inv
    <3>2. Carries(q)'
      BY <1>11, <1>12, <3>1 DEF Carries, Sending
    <3>3. At(q, "loaded") /\ req[q].row # 0 => 1 \in 1 .. Len(responses)
      BY <1>1, <3>1 DEF Grounded
    <3>4. At(q, "evaluating") => req[q].row \in 1 .. Len(responses)
      BY <3>1 DEF Grounded
    <3>5. Fresh(q)'
      BY <1>8, <1>9, <1>12, <3>1, <3>3, <3>4 DEF Fresh, At
    <3>6. QED
      BY <3>2, <3>5
  <2>3. QED
    BY <2>1, <2>2
<1>18. QED
  BY <1>10, <1>15, <1>16, <1>17 DEF Calm

\* Once two requests have overlapped they have for good.
LEMMA OverlappedStays == TypeOK /\ [Next]_vars /\ ~ overlapped' => ~ overlapped
BY DEF TypeOK, Next, vars, Type, Reload, Candidate, Autosave, Submit, Send, Serve, Check,
  Load, Save, Reject, Fails, EvaluateLoad, EvaluateCommit, EvaluateFails, Expire

\* Every step keeps what holds without overlaps.
LEMMA NextSettled == Inv /\ Settled /\ [Next]_vars => Settled'
<1> SUFFICES ASSUME Inv, Settled, [Next]_vars, ~ overlapped' PROVE Calm'
  BY DEF Settled
<1>1. Calm
  BY OverlappedStays DEF Settled, Inv
<1>2. CASE UNCHANGED vars
  BY <1>1, <1>2 DEF vars, Calm, Alone, Sending, RowsSettled, RowSettled, MissingRequired,
    PageSettled, InFlight, Stored, Fresh, Carries, At
<1>3. CASE (\E form \in Forms : Type(form)) \/ Reload \/ Expire
  BY <1>1, <1>3, PageSettles
<1>4. ASSUME NEW r \in Requests, Candidate(r) PROVE Calm'
  BY <1>1, <1>4, SendSettles
<1>5. ASSUME NEW r \in Requests, Serve(r) PROVE Calm'
  <2>1. CASE Fails(r) /\ (Check(r) \/ Load(r) \/ Reject(r))
    BY <1>1, <2>1, FailsSettles DEF Check, Load, Reject, At, Sending
  <2>2. CASE ~ Fails(r) /\ (Check(r) \/ Load(r))
    BY <1>1, <2>2, ReadSettles
  <2>3. CASE EvaluateLoad(r) \/ EvaluateFails(r)
    BY <1>1, <2>3, AskSettles
  <2>4. QED
    BY <1>1, <1>5, <2>1, <2>2, <2>3, SaveSettles, EvaluateSettles DEF Serve, Reject
<1>6. QED
  BY <1>2, <1>3, <1>4, <1>5 DEF Next

-----------------------------------------------------------------------------

\* Unless the page's requests overlapped there is one response, its list of
\* missing questions is the one of its answers, and a submitted one is
\* complete.
THEOREM OneResponse == Spec => []OneCompleteResponse
<1>1. Inv /\ Settled => OneCompleteResponse
  <2> SUFFICES ASSUME Inv, Calm
               PROVE  /\ Len(responses) <= 1
                      /\ \A i \in DOMAIN responses :
                           /\ responses[i].missing
                                = {q \in Required : responses[i].answers[q] \notin Texts}
                           /\ responses[i].submitted => responses[i].missing = {}
    BY DEF Settled, OneCompleteResponse
  <2>1. responses \in Seq(Responses)
    BY DEF Inv, TypeOK
  <2>2. ASSUME NEW i \in 1 .. Len(responses)
        PROVE  MissingRequired(responses[i].answers)
                 = {q \in Required : responses[i].answers[q] \notin Texts}
    <3>1. responses[i] \in Responses
      BY <2>1
    <3>2. responses[i].answers \in [Required -> Texts \union {Blank, Unanswered}]
      BY <3>1, FormsAssumption DEF Responses
    <3>3. QED
      BY <3>2, TextsAssumption DEF MissingRequired
  <2>3. QED
    BY <2>1, <2>2 DEF Calm, RowsSettled, RowSettled
<1>2. QED
  BY <1>1, InitInv, NextInv, InitSettled, NextSettled, PTL DEF Spec

\* Unless the page's requests overlapped, what the candidate sees once
\* nothing is left to send is what is stored.
THEOREM AutosavesSettle == Spec => []AutosaveSettles
<1>1. Settled => AutosaveSettles
  BY DEF Settled, Calm, PageSettled, Stored, AutosaveSettles
<1>2. QED
  BY <1>1, InitInv, NextInv, InitSettled, NextSettled, PTL DEF Spec

\* Unless the page's requests overlapped, the evaluation of a response is one
\* of the answers it has, however long the gateway took.
THEOREM EvaluatedAsStored == Spec => []EvaluationIsCurrent
<1>1. Inv /\ Settled => EvaluationIsCurrent
  <2>1. TypeOK => DOMAIN responses = 1 .. Len(responses)
    BY DEF TypeOK
  <2>2. QED
    BY <2>1 DEF Inv, Settled, Calm, RowsSettled, RowSettled, EvaluationIsCurrent
<1>2. QED
  BY <1>1, InitInv, NextInv, InitSettled, NextSettled, PTL DEF Spec

\* Submitted answers are final, unless the page's requests overlapped.
THEOREM FinalOnceSubmitted == Spec => SubmittedIsFinal
<1> DEFINE Final ==
      \A i \in DOMAIN responses :
        ~ overlapped' /\ responses[i].submitted =>
          /\ responses'[i].submitted
          /\ responses'[i].answers = responses[i].answers
<1>1. Inv /\ Settled /\ [Next]_vars => [Final]_vars
  <2> SUFFICES ASSUME Inv, Settled, Next, ~ overlapped',
                      NEW i \in DOMAIN responses, responses[i].submitted
               PROVE  /\ responses'[i].submitted
                      /\ responses'[i].answers = responses[i].answers
    OBVIOUS
  <2>1. Calm /\ TypeOK /\ responses \in Seq(Responses) /\ i \in 1 .. Len(responses)
    BY OverlappedStays DEF Settled, Inv, TypeOK
  <2>2. ASSUME NEW r \in Requests, Save(r) PROVE FALSE
    BY <2>1, <2>2, NothingSubmitted DEF Save
  <2>3. ASSUME NEW r \in Requests, EvaluateCommit(r)
        PROVE  /\ responses'[i].submitted
               /\ responses'[i].answers = responses[i].answers
    <3> DEFINE k == req[r].row
               row == [responses[k] EXCEPT !.evaluation = req[r].answers]
    <3>1. k \in 1 .. Len(responses)
      BY <2>3 DEF Inv, EvaluateCommit, Grounded
    <3>2. responses[k] \in Responses
      BY <2>1, <3>1
    <3>3. row.submitted = responses[k].submitted /\ row.answers = responses[k].answers
      BY <3>2 DEF Responses
    <3>4. responses' = [responses EXCEPT ![k] = row]
      BY <2>3 DEF EvaluateCommit
    <3> HIDE DEF k, row
    <3>5. responses'[i] = IF i = k THEN row ELSE responses[i]
      BY <2>1, <3>1, <3>4
    <3>6. QED
      BY <3>3, <3>5
  <2>4. CASE UNCHANGED responses
    BY <2>4
  <2>5. QED
    BY <2>2, <2>3, <2>4 DEF Next, Type, Reload, Candidate, Autosave, Submit, Send, Serve,
      Check, Load, Reject, Fails, EvaluateLoad, EvaluateFails, Expire
<1>2. Spec => [][Final]_vars
  BY <1>1, InitInv, NextInv, InitSettled, NextSettled, PTL DEF Spec
<1>3. QED
  BY <1>2 DEF SubmittedIsFinal

=============================================================================
