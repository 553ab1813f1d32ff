---------------------------- MODULE RefreshTokens ----------------------------
(***************************************************************************)
(* Refresh tokens, auth_service.py: a login mints the first token of a     *)
(* family, a refresh rotates the token it presents into a child of the     *)
(* same family, and presenting a rotated token revokes the family.         *)
(*                                                                         *)
(* A refresh is one transaction at READ COMMITTED: the SELECT of the       *)
(* presented token, then one UPDATE, then the commit.  An UPDATE works on  *)
(* the rows that were committed when it began, waits for a row another     *)
(* transaction has written, and then looks at that row again.              *)
(***************************************************************************)
EXTENDS Integers, Sequences

CONSTANTS
  Requests,     \* refresh requests that may be in progress at the same time
  Families,     \* families a login may mint
  MaxTokens     \* bound: no more rows of refresh_tokens than this

ASSUME TokensAssumption == MaxTokens \in Nat

VARIABLES
  tokens,       \* refresh_tokens, in commit order; a row's id is its index
  req,          \* per request: its progress
  reported,     \* families some client was told are revoked
  raced         \* history: a rotation of the family overlapped a revocation

vars == <<tokens, req, reported, raced>>

-----------------------------------------------------------------------------

\* A column is set when its timestamp is not NULL; expired is expires_at in
\* the past.
Tokens ==
  [family : Families, rotated : BOOLEAN, revoked : BOOLEAN, expired : BOOLEAN]

NewToken(family) ==
  [family |-> family, rotated |-> FALSE, revoked |-> FALSE, expired |-> FALSE]

\* is_reused, is_live
IsReused(token) == token.rotated
IsLive(token) == ~ token.revoked /\ ~ token.rotated /\ ~ token.expired

Idle == [stage |-> "idle"]

\* A rotation has loaded its token, or has claimed it (its UPDATE is done); a
\* reuse was detected, or its UPDATE runs on the rows it found.
InProgress ==
  [stage : {"rotating", "claimed", "reused", "revoking"}, token : Nat,
   family : Families, found : SUBSET Nat]

TypeOK ==
  /\ tokens \in Seq(Tokens)
  /\ req \in [Requests -> InProgress \union {Idle}]
  /\ reported \subseteq Families
  /\ raced \in [Families -> BOOLEAN]

FamilyOf(family) == {t \in DOMAIN tokens : tokens[t].family = family}

\* Nothing in the family can be rotated any more.
Dead(family) == \A t \in FamilyOf(family) : tokens[t].rotated \/ tokens[t].revoked

At(r, stage) == req[r].stage = stage

Rotating(family) ==
  \E r \in Requests : (At(r, "rotating") \/ At(r, "claimed")) /\ req[r].family = family

Revoking(family) ==
  \E r \in Requests : At(r, "revoking") /\ req[r].family = family

Init ==
  /\ tokens = << >>
  /\ req = [r \in Requests |-> Idle]
  /\ reported = {}
  /\ raced = [family \in Families |-> FALSE]

-----------------------------------------------------------------------------

\* mint_session: the family of a login is new.
Login(family) ==
  /\ FamilyOf(family) = {}
  /\ Len(tokens) < MaxTokens
  /\ tokens' = Append(tokens, NewToken(family))
  /\ UNCHANGED <<req, reported, raced>>

Expire(t) ==
  /\ ~ tokens[t].expired
  /\ tokens' = [tokens EXCEPT ![t].expired = TRUE]
  /\ UNCHANGED <<req, reported, raced>>

-----------------------------------------------------------------------------
(* rotate_refresh_token                                                    *)

Load(r, t, stage) ==
  /\ At(r, "idle")
  /\ req' = [req EXCEPT ![r] =
       [stage |-> stage, token |-> t, family |-> tokens[t].family, found |-> {}]]
  /\ UNCHANGED <<tokens, reported>>

\* A live token is presented.
PresentLive(r, t) ==
  /\ ~ IsReused(tokens[t])
  /\ IsLive(tokens[t])
  /\ Load(r, t, "rotating")
  /\ raced' = [raced EXCEPT ![tokens[t].family] = @ \/ Revoking(tokens[t].family)]

\* A token that was rotated is presented again.
PresentReused(r, t) ==
  /\ IsReused(tokens[t])
  /\ Load(r, t, "reused")
  /\ UNCHANGED raced

\* No other request holds the row lock of token t.
Unlocked(r, t) == \A q \in Requests \ {r} : ~ (At(q, "claimed") /\ req[q].token = t)

\* Mutant: the UPDATE does not look at rotated_at again.
ClaimAnyway(r) ==
  /\ At(r, "rotating")
  /\ Unlocked(r, req[r].token)
  /\ req' = [req EXCEPT ![r].stage = "claimed"]
  /\ UNCHANGED <<tokens, reported, raced>>

\* UPDATE ... WHERE id = row.id AND rotated_at IS NULL: one row, or none and
\* the refresh is rejected.
Claim(r) ==
  /\ At(r, "rotating")
  /\ Unlocked(r, req[r].token)
  /\ req' = [req EXCEPT ![r] =
       IF tokens[req[r].token].rotated THEN Idle ELSE [@ EXCEPT !.stage = "claimed"]]
  /\ UNCHANGED <<tokens, reported, raced>>

\* The commit of the rotation, with the child it inserted.
Rotate(r) ==
  /\ At(r, "claimed")
  /\ Len(tokens) < MaxTokens
  /\ tokens' = Append([tokens EXCEPT ![req[r].token].rotated = TRUE],
                      NewToken(req[r].family))
  /\ req' = [req EXCEPT ![r] = Idle]
  /\ UNCHANGED <<reported, raced>>

\* Mutant: the UPDATE is not limited to the family.
RevokeAll(r) ==
  /\ At(r, "reused")
  /\ req' = [req EXCEPT ![r].stage = "revoking",
                        ![r].found = {t \in DOMAIN tokens : ~ tokens[t].revoked}]
  /\ raced' = [raced EXCEPT ![req[r].family] = @ \/ Rotating(req[r].family)]
  /\ UNCHANGED <<tokens, reported>>

\* UPDATE ... WHERE family_id = row.family_id AND revoked_at IS NULL begins.
Revoke(r) ==
  /\ At(r, "reused")
  /\ req' = [req EXCEPT ![r].stage = "revoking",
                        ![r].found = {t \in FamilyOf(req[r].family) : ~ tokens[t].revoked}]
  /\ raced' = [raced EXCEPT ![req[r].family] = @ \/ Rotating(req[r].family)]
  /\ UNCHANGED <<tokens, reported>>

\* Mutant: get_db rolls the UPDATE back with the error it answers.
RevokeRolledBack(r) ==
  /\ At(r, "revoking")
  /\ req' = [req EXCEPT ![r] = Idle]
  /\ reported' = reported \union {req[r].family}
  /\ UNCHANGED <<tokens, raced>>

\* The UPDATE has waited for the rows it found and is committed, before the
\* error that would roll it back is raised.
RevokeCommit(r) ==
  /\ At(r, "revoking")
  /\ \A t \in req[r].found : Unlocked(r, t)
  /\ tokens' = [t \in DOMAIN tokens |->
       [tokens[t] EXCEPT !.revoked = @ \/ t \in req[r].found]]
  /\ req' = [req EXCEPT ![r] = Idle]
  /\ reported' = reported \union {req[r].family}
  /\ UNCHANGED raced

\* The request fails: its transaction is rolled back.
Rollback(r) ==
  /\ ~ At(r, "idle")
  /\ req' = [req EXCEPT ![r] = Idle]
  /\ UNCHANGED <<tokens, reported, raced>>

-----------------------------------------------------------------------------

Refresh(r) ==
  \/ \E t \in DOMAIN tokens : PresentLive(r, t) \/ PresentReused(r, t)
  \/ Claim(r)
  \/ Rotate(r)
  \/ Revoke(r)
  \/ RevokeCommit(r)
  \/ Rollback(r)

Next ==
  \/ \E family \in Families : Login(family)
  \/ \E t \in DOMAIN tokens : Expire(t)
  \/ \E r \in Requests : Refresh(r)

Spec == Init /\ [][Next]_vars

-----------------------------------------------------------------------------
(* Properties.                                                             *)

\* However many clients present a token at once, it is rotated once: a family
\* has at most one token that was not (auth_service.py:147-153).
OneHeir ==
  \A family \in Families : \A s, t \in FamilyOf(family) :
    ~ tokens[s].rotated /\ ~ tokens[t].rotated => s = t

\* A client that was told its family is revoked finds it revoked for good,
\* the token issued last included, unless a rotation was in progress while
\* the family was being revoked (auth_service.py:131-142).
ReuseKillsFamily ==
  \A family \in reported : ~ raced[family] => Dead(family)

\* A revocation stays in its family: another login's session lives on until
\* one of its own tokens is presented again.
RevocationIsScoped ==
  \A t \in DOMAIN tokens : tokens[t].revoked =>
    /\ tokens[t].family \in reported
    /\ \E s \in FamilyOf(tokens[t].family) : IsReused(tokens[s])

\* "The entire token family is revoked" (README.md:179-180).  It does not hold:
\* the child of a rotation in progress is not seen by the UPDATE.
\* RefreshTokens.cfg with this invariant finds it; see ReuseKillsFamily.
WholeFamilyRevoked == \A family \in reported : Dead(family)

=============================================================================
