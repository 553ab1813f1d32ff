------------------------------ MODULE Whiteboard ------------------------------
(***************************************************************************)
(* The whiteboard and the discussion of an interview session, which the    *)
(* candidate (web-candidate/src/pages/Workspace.tsx) and the interviewer   *)
(* (web-recruiter/src/pages/InterviewSessionDetail.tsx) share by polling   *)
(* the endpoints of routers_workspace.py every few seconds.  One page, of  *)
(* either side, in full; the other side adds rows to the board.            *)
(*                                                                         *)
(* The page may have several requests on their way, and their answers      *)
(* arrive in any order.  It shows the rows of the list that arrived last,  *)
(* on the whiteboard after them its own strokes acknowledged since, and on *)
(* top what the pointer drew since the canvas was last drawn anew, stored  *)
(* or not.                                                                 *)
(***************************************************************************)
EXTENDS Integers, FiniteSets

CONSTANTS
  Slots,        \* requests that the page may have on their way at a time
  MaxRows       \* bound: no more rows than this

ASSUME RowsAssumption == MaxRows \in Nat

VARIABLES
  side,         \* whose page it is
  kind,         \* which of the two: the pages differ after a post
  status,       \* of the interview session; "ended" is also an expired link
  issued,       \* the strokes drawn and the messages sent so far, stored or not
  pen,          \* drawingRef: the stroke that is being drawn, 0 for none
  board,        \* the rows of whiteboard_strokes or discussion_messages
  view,         \* what the page shows: a list, rows of its own, drawn strokes
  req           \* per slot: a request on its way

vars == <<side, kind, status, issued, pen, board, view, req>>

-----------------------------------------------------------------------------

Rows == 1 .. MaxRows

Views == [listed : SUBSET Rows, own : SUBSET Rows, ink : SUBSET Rows]

Idle == [op |-> "idle"]

\* A post on its way, begun and committed.
Posts == [op : {"sent", "begun", "stored"}, row : Rows]

\* A poll, or the list that follows a message, on its way and on its way back.
Lists ==
  [op : {"poll", "follow"}] \union [op : {"polled", "followed"}, seen : SUBSET Rows]

TypeOK ==
  /\ side \in {"candidate", "interviewer"}
  /\ kind \in {"whiteboard", "discussion"}
  /\ status \in {"waiting", "active", "ended"}
  /\ issued \in 0 .. MaxRows /\ pen \in 0 .. MaxRows
  /\ board \subseteq Rows
  /\ view \in Views
  /\ req \in [Slots -> Posts \union Lists \union {Idle}]

Is(i, ops) == req[i].op \in ops

\* _require_active for the candidate; staff may write at any time.
MayPost == side = "interviewer" \/ status = "active"

\* _require_not_terminal for the candidate.
MayList == side = "interviewer" \/ status # "ended"

Becomes(i, request) == req' = [req EXCEPT ![i] = request]

Number ==
  /\ issued < MaxRows
  /\ issued' = issued + 1

\* The canvas, or the list of messages, shows these rows and nothing else.
Redrawn(listed, own) == view' = [listed |-> listed, own |-> own, ink |-> {}]

Init ==
  /\ side \in {"candidate", "interviewer"}
  /\ kind \in {"whiteboard", "discussion"}
  /\ status = "waiting"
  /\ issued = 0 /\ pen = 0
  /\ board = {}
  /\ view = [listed |-> {}, own |-> {}, ink |-> {}]
  /\ req = [i \in Slots |-> Idle]

-----------------------------------------------------------------------------

Advance ==
  /\ status # "ended"
  /\ status' = IF status = "waiting" THEN "active" ELSE "ended"
  /\ UNCHANGED <<side, kind, issued, pen, board, view, req>>

\* The other side's post commits.
OtherPosts ==
  /\ side = "interviewer" => status = "active"
  /\ Number
  /\ board' = board \union {issued'}
  /\ UNCHANGED <<side, kind, status, pen, view, req>>

\* onPointerMove draws on the canvas at once, whoever may store it; a stroke
\* that the canvas lost meanwhile is drawn on.
Draw ==
  /\ kind = "whiteboard"
  /\ \/ pen = 0 /\ Number /\ pen' = issued'
     \/ pen # 0 /\ UNCHANGED <<pen, issued>>
  /\ view' = [view EXCEPT !.ink = @ \union {pen'}]
  /\ UNCHANGED <<side, kind, status, board, req>>

\* The interval timer does not wait for the answer of the last poll.
Poll(i) ==
  /\ Is(i, {"idle"})
  /\ Becomes(i, [op |-> "poll"])
  /\ UNCHANGED <<side, kind, status, issued, pen, board, view>>

\* onPointerUp, or send: the button is disabled while it is busy, but the
\* Enter key sends all the same.
Post(i) ==
  /\ Is(i, {"idle"})
  /\ \/ kind = "whiteboard" /\ pen # 0 /\ pen' = 0 /\ UNCHANGED issued
        /\ Becomes(i, [op |-> "sent", row |-> pen])
     \/ kind = "discussion" /\ Number /\ UNCHANGED pen
        /\ Becomes(i, [op |-> "sent", row |-> issued'])
  /\ UNCHANGED <<side, kind, status, board, view>>

\* The endpoints: the session is loaded,
BeginPost(i) ==
  /\ Is(i, {"sent"})
  /\ MayPost
  /\ Becomes(i, [op |-> "begun", row |-> req[i].row])
  /\ UNCHANGED <<side, kind, status, issued, pen, board, view>>

\* the row is committed,
CommitPost(i) ==
  /\ Is(i, {"begun"})
  /\ board' = board \union {req[i].row}
  /\ Becomes(i, [op |-> "stored", row |-> req[i].row])
  /\ UNCHANGED <<side, kind, status, issued, pen, view>>

Saw(i, rows) ==
  Becomes(i, [op |-> IF Is(i, {"poll"}) THEN "polled" ELSE "followed", seen |-> rows])

\* and list_whiteboard or list_discussion reads them all.
See(i) ==
  /\ Is(i, {"poll", "follow"})
  /\ MayList
  /\ Saw(i, board)
  /\ UNCHANGED <<side, kind, status, issued, pen, board, view>>

\* Mutant: the strokes acknowledged since are kept beside the list.
ShowKeepsOwn(i) ==
  /\ Is(i, {"polled", "followed"})
  /\ Redrawn(req[i].seen, view.own)
  /\ Becomes(i, Idle)
  /\ UNCHANGED <<side, kind, status, issued, pen, board>>

\* A list arrives and replaces what is shown.
Show(i) ==
  /\ Is(i, {"polled", "followed"})
  /\ Redrawn(req[i].seen, {})
  /\ Becomes(i, Idle)
  /\ UNCHANGED <<side, kind, status, issued, pen, board>>

\* A stroke's answer arrives and adds it to what is shown,
Acknowledge(i) ==
  /\ Is(i, {"stored"})
  /\ kind = "whiteboard"
  /\ Redrawn(view.listed, view.own \union {req[i].row})
  /\ Becomes(i, Idle)
  /\ UNCHANGED <<side, kind, status, issued, pen, board>>

\* and after a message the list is asked for.
Follow(i) ==
  /\ Is(i, {"stored"})
  /\ kind = "discussion"
  /\ Becomes(i, [op |-> "follow"])
  /\ UNCHANGED <<side, kind, status, issued, pen, board, view>>

\* Mutant: a list that fails to arrive leaves the page empty.
LoseShowsNothing(i) ==
  /\ ~ Is(i, {"idle"})
  /\ IF Is(i, {"poll", "polled"}) THEN Redrawn({}, {}) ELSE UNCHANGED view
  /\ Becomes(i, Idle)
  /\ UNCHANGED <<side, kind, status, issued, pen, board>>

\* A request fails, is refused, or its answer is lost: the page ignores it,
\* and the stroke of a refused post stays drawn until the next list.
Lose(i) ==
  /\ ~ Is(i, {"idle"})
  /\ Becomes(i, Idle)
  /\ UNCHANGED <<side, kind, status, issued, pen, board, view>>

-----------------------------------------------------------------------------

Step(i) ==
  \/ Poll(i) \/ Post(i) \/ BeginPost(i) \/ CommitPost(i) \/ See(i) \/ Show(i)
  \/ Acknowledge(i) \/ Follow(i) \/ Lose(i)

Next == Advance \/ OtherPosts \/ Draw \/ \E i \in Slots : Step(i)

\* The timer keeps polling however many requests are on their way, and of
\* infinitely many polls some come through; no request is on its way for ever.
Fairness ==
  /\ SF_vars(\E i \in Slots : Poll(i))
  /\ \A i \in Slots : SF_vars(See(i)) /\ SF_vars(Show(i)) /\ WF_vars(Lose(i))

Spec == Init /\ [][Next]_vars /\ Fairness

-----------------------------------------------------------------------------
(* Properties.                                                             *)

\* "the next poll reconciles state" (Workspace.tsx:413): whatever overlapped,
\* was lost, shown twice or taken back by an old list, and whichever strokes
\* were drawn but refused, a page that is not drawn on ends up with the whole
\* board and nothing else, every row once; the candidate's unless the interview
\* ends.
PagesConverge ==
  <>[](~ MayList \/ pen # 0 \/ view = [listed |-> board, own |-> {}, ink |-> {}])

\* The page shows the board, every row once, and nothing on its way could
\* change that: no post of its own, and no list that misses a row.
Settled ==
  /\ view = [listed |-> board, own |-> {}, ink |-> {}]
  /\ \A i \in Slots : /\ ~ Is(i, {"sent", "begun", "stored"})
                      /\ Is(i, {"polled", "followed"}) => req[i].seen = board

\* Once a page has settled, no late, repeated or lost answer, no refused poll
\* and no end of the interview takes anything from it or shows anything twice
\* (Workspace.tsx:299-324): only a stroke that is drawn or a post, of either
\* side, changes it.
SettledUntilPosted ==
  [][Settled => Settled' \/ OtherPosts \/ Draw \/ \E i \in Slots : Post(i)]_vars

=============================================================================
