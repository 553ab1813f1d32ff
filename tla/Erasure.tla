------------------------------- MODULE Erasure -------------------------------
(***************************************************************************)
(* Erasing a candidate's data, on request (routers_dsar.py) or by age      *)
(* (routers_retention.py), while the candidate and the staff go on         *)
(* writing.                                                                *)
(*                                                                         *)
(* An erasure is one READ COMMITTED transaction.  It selects the           *)
(* candidate's rows table by table: those that carry the e-mail address,   *)
(* then those that belong to rows it has found.  At the commit it redacts  *)
(* what it selected.  Nothing stops a write in between, and the links that *)
(* candidates hold work as before.                                         *)
(*                                                                         *)
(* Of a row's content the module keeps whether it is still personal.  A    *)
(* resume stands with its fields, "response" for rows that are updated in  *)
(* place (also an interview's turns), "work" for rows that are only added  *)
(* (snapshots, executions, messages).  Audit events, strokes and consents  *)
(* are never redacted and are left out; so are the quotes of fields that   *)
(* are not in PII_FIELD_NAMES, which an erasure keeps.                     *)
(***************************************************************************)
EXTENDS Integers, FiniteSets, Sequences

CONSTANTS
  Candidates,     \* their e-mail addresses
  Slots,          \* requests handled at a time
  MaxCandidates,  \* max_candidates of a retention run
  MaxSteps        \* bound: rows inserted and requests begun, together

ASSUME BoundsAssumption == MaxCandidates \in Nat \ {0} /\ MaxSteps \in Nat

VARIABLES
  clock,          \* requests begun so far
  rows,           \* the rows of all tables, in the order of their insertion
  request,        \* per slot: a request being handled
  erasures,       \* ghost: whom committed erasures erased, and when they began
  sweeps          \* ghost: the committed runs of retention

vars == <<clock, rows, request, erasures, sweeps>>

-----------------------------------------------------------------------------

\* The tables in the order _find_candidate_records selects from them, with
\* the table whose rows a row belongs to: "none" if it carries the address.
Searched ==
  << [table |-> "resume", parent |-> "none"],
     [table |-> "invite", parent |-> "none"],
     [table |-> "response", parent |-> "invite"],
     [table |-> "session", parent |-> "none"],
     [table |-> "work", parent |-> "session"],
     [table |-> "evaluation", parent |-> "resume"] >>

\* interview_slots.booked_for_email is an address that is never searched for.
Tables == {Searched[n].table : n \in DOMAIN Searched} \union {"slot"}

Row(table, owner, parent, personal, born) ==
  [table |-> table,
   owner |-> owner,         \* ghost: whose it is
   parent |-> parent,       \* the row it belongs to, or 0
   personal |-> personal,   \* not redacted; of a row with an address: the address
   created_at |-> born,
   written |-> clock,       \* ghost: when its content was committed
   erasedBy |-> 0,          \* ghost: the erasure that redacted it last, by its
   erasedAt |-> 0]          \*        number, and when that committed

RowsOf(table) == {k \in DOMAIN rows : rows[k].table = table}

Idle == [op |-> "idle"]

TypeOK ==
  /\ clock \in 0 .. MaxSteps
  /\ Len(rows) \in 0 .. MaxSteps
  /\ \A k \in DOMAIN rows :
       /\ rows[k].table \in Tables /\ rows[k].owner \in Candidates
       /\ rows[k].parent \in 0 .. k - 1
       /\ rows[k].personal \in BOOLEAN
       /\ {rows[k].created_at, rows[k].written, rows[k].erasedBy, rows[k].erasedAt} \subseteq 0 .. clock
  /\ \A i \in Slots : request[i].op \in {"idle", "write", "evaluate", "erase"}
  /\ \A e \in erasures : e.owner \in Candidates /\ e.begun \in 1 .. clock
  /\ \A s \in sweeps : s.erased \subseteq Candidates /\ s.begun \in 1 .. clock

-----------------------------------------------------------------------------
(***************************************************************************)
(* Staff add rows with an address: a resume (whose transaction may have    *)
(* begun long ago), a questionnaire's invitation, a booking, an interview  *)
(* session with the address of its booking.                                *)
(***************************************************************************)

Insert(row) ==
  /\ Len(rows) + clock < MaxSteps
  /\ rows' = Append(rows, row)
  /\ UNCHANGED <<clock, erasures, sweeps>>

Add(table, c) ==
  /\ \E born \in IF table = "resume" THEN {0, clock} ELSE {clock} :
       Insert(Row(table, c, 0, TRUE, born))
  /\ UNCHANGED request

-----------------------------------------------------------------------------

Begin(i, work) ==
  /\ request[i] = Idle
  /\ Len(rows) + clock < MaxSteps
  /\ clock' = clock + 1
  /\ request' = [request EXCEPT ![i] = work]
  /\ UNCHANGED <<rows, erasures, sweeps>>

\* An error rolls everything back: such a request is one that never commits.
Done(i) == request' = [request EXCEPT ![i] = Idle]

(***************************************************************************)
(* The candidate saves answers or works in the interview, by the link: the *)
(* request loads the invitation with its response, or the session.         *)
(***************************************************************************)

BeginWrite(i, k) ==
  /\ rows[k].table \in {"invite", "session"}
  /\ Begin(i, [op |-> "write", to |-> k, loaded |-> {l \in RowsOf("response") : rows[l].parent = k}])

Write(i) ==
  /\ request[i].op = "write"
  /\ IF request[i].loaded = {}
     THEN LET k == request[i].to
          IN  Insert(Row(IF rows[k].table = "invite" THEN "response" ELSE "work",
                         rows[k].owner, k, TRUE, clock))
     ELSE /\ rows' = [k \in DOMAIN rows |->
                        IF k \in request[i].loaded
                        THEN [rows[k] EXCEPT !.personal = TRUE, !.written = clock]
                        ELSE rows[k]]
          /\ UNCHANGED <<clock, erasures, sweeps>>
  /\ Done(i)

(***************************************************************************)
(* generate_evaluation copies the resume's address into the report, after  *)
(* a call of up to 30 s to the AI gateway.                                 *)
(***************************************************************************)

\* Mutant: the address is taken from elsewhere than the resume.
BeginEvaluateKeepsAddress(i, k) ==
  /\ rows[k].table = "resume"
  /\ Begin(i, [op |-> "evaluate", of |-> k, address |-> TRUE, begun |-> clock + 1])

BeginEvaluate(i, k) ==
  /\ rows[k].table = "resume"
  /\ Begin(i, [op |-> "evaluate", of |-> k, address |-> rows[k].personal, begun |-> clock + 1])

Evaluate(i) ==
  /\ request[i].op = "evaluate"
  /\ Insert(Row("evaluation", rows[request[i].of].owner, request[i].of,
                request[i].address, request[i].begun))
  /\ Done(i)

-----------------------------------------------------------------------------
(***************************************************************************)
(* Erasures.                                                               *)
(***************************************************************************)

Addressed(table, c) == {k \in RowsOf(table) : rows[k].owner = c /\ rows[k].personal}

\* erase_candidate_data begins with the SELECT of the resumes.
BeginErase(i, c) ==
  Begin(i, [op |-> "erase", kind |-> "request", begun |-> clock + 1, cutoff |-> 0,
            erased |-> {c}, left |-> {c}, now |-> {c}, searched |-> 1,
            found |-> Addressed("resume", c)])

\* The resumes that are older than the cutoff and still have an address.
Old(cutoff) == {k \in RowsOf("resume") : rows[k].personal /\ rows[k].created_at < cutoff}

\* Mutant: the newest come first.
EligibleNewestFirst(cutoff) ==
  LET old == Old(cutoff)
      owners == {rows[k].owner : k \in old}
      ahead(c, d) == \E k \in old : /\ rows[k].owner = c
                                    /\ \A l \in old : rows[l].owner = d =>
                                         rows[k].created_at > rows[l].created_at
  IN  {chosen \in SUBSET owners :
         /\ \/ chosen = owners /\ Cardinality(owners) <= MaxCandidates
            \/ Cardinality(chosen) = MaxCandidates
         /\ \A c \in owners \ chosen, d \in chosen : ~ahead(c, d)}

\* The candidates whose earliest old resume comes first, up to the limit.
Eligible(cutoff) ==
  LET old == Old(cutoff)
      owners == {rows[k].owner : k \in old}
      ahead(c, d) == \E k \in old : /\ rows[k].owner = c
                                    /\ \A l \in old : rows[l].owner = d =>
                                         rows[k].created_at < rows[l].created_at
  IN  {chosen \in SUBSET owners :
         /\ \/ chosen = owners /\ Cardinality(owners) <= MaxCandidates
            \/ Cardinality(chosen) = MaxCandidates
         /\ \A c \in owners \ chosen, d \in chosen : ~ahead(c, d)}

\* run_retention, when it is no dry run: that one changes nothing.
BeginRetention(i, cutoff) ==
  \E chosen \in Eligible(cutoff) :
    /\ chosen # {}
    /\ Begin(i, [op |-> "erase", kind |-> "retention", begun |-> clock + 1, cutoff |-> cutoff,
                 erased |-> chosen, left |-> chosen, now |-> {}, searched |-> 0, found |-> {}])

\* The next SELECT for the candidate whose turn it is; a table whose rows
\* belong to others is skipped when none of those was found.
Skipped(n, q, c) ==
  /\ Searched[n].parent # "none"
  /\ \A k \in q.found : rows[k].table # Searched[n].parent \/ rows[k].owner # c

Search(i) ==
  LET q == request[i]
  IN  /\ q.op = "erase" /\ q.left # {}
      /\ \E c \in IF q.searched = 0 THEN q.left ELSE q.now, n \in DOMAIN Searched :
           LET hits == {k \in Addressed(Searched[n].table, c) :
                          Searched[n].parent # "none" => rows[k].parent \in q.found}
               found == q.found \union hits
               last == \A m \in n + 1 .. Len(Searched) : Skipped(m, [q EXCEPT !.found = found], c)
           IN  /\ n > q.searched /\ ~Skipped(n, q, c)
               /\ \A m \in q.searched + 1 .. n - 1 : Skipped(m, q, c)
               /\ request' = [request EXCEPT
                    ![i].found = found,
                    ![i].now = {c},
                    ![i].searched = IF last THEN 0 ELSE n,
                    ![i].left = IF last THEN @ \ {c} ELSE @]
      /\ UNCHANGED <<clock, rows, erasures, sweeps>>

\* Mutant: of the reports only the row itself is touched, not its payload.
RedactedButReports(k, q) ==
  [rows[k] EXCEPT !.personal = @ /\ rows[k].table = "evaluation",
                  !.erasedBy = q.begun, !.erasedAt = clock]

\* _apply_erasure.  Only what was not redacted when it was loaded is written;
\* a request that found nothing is a 404.
Redacted(k, q) ==
  [rows[k] EXCEPT !.personal = FALSE, !.erasedBy = q.begun, !.erasedAt = clock]

Erase(i) ==
  LET q == request[i]
  IN  /\ q.op = "erase" /\ q.left = {}
      /\ q.kind = "request" => q.found # {}
      /\ rows' = [k \in DOMAIN rows |-> IF k \in q.found THEN Redacted(k, q) ELSE rows[k]]
      /\ erasures' = erasures \union {[owner |-> c, begun |-> q.begun] : c \in q.erased}
      /\ sweeps' = IF q.kind = "request" THEN sweeps
                   ELSE sweeps \union {[begun |-> q.begun, cutoff |-> q.cutoff, erased |-> q.erased]}
      /\ Done(i)
      /\ UNCHANGED clock

-----------------------------------------------------------------------------

Init ==
  /\ clock = 0
  /\ rows = <<>>
  /\ request = [i \in Slots |-> Idle]
  /\ erasures = {}
  /\ sweeps = {}

Next ==
  \/ \E c \in Candidates, table \in {"resume", "invite", "slot", "session"} : Add(table, c)
  \/ \E i \in Slots :
       \/ \E k \in DOMAIN rows : BeginWrite(i, k) \/ BeginEvaluate(i, k)
       \/ \E c \in Candidates : BeginErase(i, c)
       \/ \E cutoff \in 1 .. clock + 1 : BeginRetention(i, cutoff)
       \/ Write(i)
       \/ Evaluate(i)
       \/ Search(i)
       \/ Erase(i)

Spec == Init /\ [][Next]_vars

-----------------------------------------------------------------------------

\* The row whose address leads to this one.
RootOf(k) == IF rows[k].table \in {"response", "work", "evaluation"} THEN rows[k].parent ELSE k

\* What _find_candidate_records promises, "every record tied to a candidate's
\* email", with the two exceptions there are.  Of a row that was committed
\* before a later committed erasure of its candidate began, nothing personal is
\* left, unless it is a booked slot, or an earlier erasure has already redacted
\* the address through which it would have been found.  And that earlier
\* erasure has missed only what was committed after it began.
NothingIsMissed ==
  \A k \in DOMAIN rows, e \in erasures :
    (rows[k].personal /\ rows[k].table # "slot" /\ rows[k].owner = e.owner /\ rows[k].written < e.begun)
      => ~rows[RootOf(k)].personal /\ rows[RootOf(k)].erasedBy # e.begun

\* generate_evaluation copies the address it loaded: a report carries the
\* address of a resume whose own was erased only if its generation began
\* before that erasure was committed (routers_evaluation.py:240).
ReportsForget ==
  \A k \in RowsOf("evaluation") :
    (rows[k].personal /\ ~rows[rows[k].parent].personal)
      => rows[k].created_at <= rows[rows[k].parent].erasedAt

\* A run of retention erases only candidates with a resume older than its
\* cutoff; if it leaves one of those that were there when it began, it has
\* erased as many as it was allowed, each with a resume at least as old.
OldestFirst ==
  \A s \in sweeps :
    LET old == {k \in RowsOf("resume") : rows[k].written < s.begun /\ rows[k].created_at < s.cutoff}
    IN  /\ \A c \in s.erased : \E k \in old : rows[k].owner = c
        /\ \A k \in old :
             rows[k].personal =>
               /\ Cardinality(s.erased) = MaxCandidates
               /\ \A c \in s.erased :
                    \E l \in old : rows[l].owner = c /\ rows[l].created_at <= rows[k].created_at

=============================================================================
