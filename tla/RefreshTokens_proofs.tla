------------------------- MODULE RefreshTokens_proofs -------------------------
(***************************************************************************)
(* Theorems about RefreshTokens, for every set of requests and families.   *)
(***************************************************************************)
EXTENDS RefreshTokens, TLAPS

-----------------------------------------------------------------------------
(* Types, and what each action does to the rows.                           *)

\* A request in progress holds a token of the family it has noted, and an
\* UPDATE in progress found rows of that family only.
Holds ==
  \A r \in Requests : ~ At(r, "idle") =>
    /\ req[r].token \in FamilyOf(req[r].family)
    /\ req[r].found \subseteq FamilyOf(req[r].family)

TypeInv == TypeOK /\ Holds

\* The stage of a request tells whether it is idle.
LEMMA StageType ==
  ASSUME TypeOK, NEW r \in Requests
  PROVE  /\ At(r, "idle") <=> req[r] = Idle
         /\ ~ At(r, "idle") => req[r] \in InProgress
BY DEF TypeOK, At, Idle, InProgress

\* Every write keeps the rows there are and the families they are in; it adds
\* at most one row, in a family of its own or in the family of the request.
LEMMA RowsKept ==
  ASSUME TypeInv, [Next]_vars
  PROVE  /\ tokens' \in Seq(Tokens)
         /\ DOMAIN tokens \subseteq DOMAIN tokens'
         /\ \A t \in DOMAIN tokens : tokens'[t].family = tokens[t].family
<1> USE DEF TypeInv
<1>0. \A t \in DOMAIN tokens : tokens[t] \in Tokens
  BY DEF TypeOK
<1>1. ASSUME NEW f \in Families, Login(f)
      PROVE  /\ tokens' \in Seq(Tokens)
             /\ DOMAIN tokens \subseteq DOMAIN tokens'
             /\ \A t \in DOMAIN tokens : tokens'[t].family = tokens[t].family
  <2>1. NewToken(f) \in Tokens
    BY DEF NewToken, Tokens
  <2>2. QED
    BY <1>1, <2>1 DEF Login, TypeOK
<1>2. ASSUME NEW t \in DOMAIN tokens, Expire(t)
      PROVE  /\ tokens' \in Seq(Tokens)
             /\ DOMAIN tokens \subseteq DOMAIN tokens'
             /\ \A s \in DOMAIN tokens : tokens'[s].family = tokens[s].family
  <2>1. [tokens[t] EXCEPT !.expired = TRUE] \in Tokens
    BY <1>0 DEF Tokens
  <2>2. tokens' = [tokens EXCEPT ![t] = [tokens[t] EXCEPT !.expired = TRUE]]
    BY <1>2 DEF Expire, TypeOK
  <2>3. [tokens[t] EXCEPT !.expired = TRUE].family = tokens[t].family
    BY <1>0 DEF Tokens
  <2>4. QED
    BY <2>1, <2>2, <2>3 DEF TypeOK
<1>3. ASSUME NEW r \in Requests, Rotate(r)
      PROVE  /\ tokens' \in Seq(Tokens)
             /\ DOMAIN tokens \subseteq DOMAIN tokens'
             /\ \A t \in DOMAIN tokens : tokens'[t].family = tokens[t].family
  <2> DEFINE t == req[r].token
             claimed == [tokens EXCEPT ![t] = [tokens[t] EXCEPT !.rotated = TRUE]]
  <2>1. req[r] \in InProgress /\ t \in DOMAIN tokens
    BY <1>3, StageType DEF Rotate, At, Holds, FamilyOf
  <2>2. [tokens[t] EXCEPT !.rotated = TRUE] \in Tokens
        /\ [tokens[t] EXCEPT !.rotated = TRUE].family = tokens[t].family
    BY <1>0, <2>1 DEF Tokens
  <2>3. claimed \in Seq(Tokens) /\ Len(claimed) = Len(tokens)
        /\ \A s \in DOMAIN tokens : claimed[s].family = tokens[s].family
    BY <2>1, <2>2 DEF TypeOK
  <2>4. NewToken(req[r].family) \in Tokens
    BY <2>1 DEF NewToken, Tokens, InProgress
  <2>5. tokens' = Append(claimed, NewToken(req[r].family))
    BY <1>3, <2>1 DEF Rotate, TypeOK
  <2> HIDE DEF claimed
  <2>6. QED
    BY <2>3, <2>4, <2>5 DEF TypeOK
<1>4. ASSUME NEW r \in Requests, RevokeCommit(r)
      PROVE  /\ tokens' \in Seq(Tokens)
             /\ DOMAIN tokens \subseteq DOMAIN tokens'
             /\ \A t \in DOMAIN tokens : tokens'[t].family = tokens[t].family
  <2>1. tokens' = [t \in 1 .. Len(tokens) |->
                     [tokens[t] EXCEPT !.revoked = @ \/ t \in req[r].found]]
    BY <1>4 DEF RevokeCommit, TypeOK
  <2>2. \A t \in 1 .. Len(tokens) :
          /\ [tokens[t] EXCEPT !.revoked = @ \/ t \in req[r].found] \in Tokens
          /\ [tokens[t] EXCEPT !.revoked = @ \/ t \in req[r].found].family = tokens[t].family
    <3> SUFFICES ASSUME NEW t \in 1 .. Len(tokens)
                 PROVE  /\ [tokens[t] EXCEPT !.revoked = @ \/ t \in req[r].found] \in Tokens
                        /\ [tokens[t] EXCEPT !.revoked = @ \/ t \in req[r].found].family
                             = tokens[t].family
      OBVIOUS
    <3> DEFINE flag == tokens[t].revoked \/ t \in req[r].found
    <3>1. flag \in BOOLEAN
      OBVIOUS
    <3>2. tokens[t] \in Tokens
      BY <1>0 DEF TypeOK
    <3> HIDE DEF flag
    <3>3. [tokens[t] EXCEPT !.revoked = flag] \in Tokens
          /\ [tokens[t] EXCEPT !.revoked = flag].family = tokens[t].family
      BY <3>1, <3>2 DEF Tokens
    <3>4. QED
      BY <3>3 DEF flag
  <2>3. Len(tokens) \in Nat
    BY DEF TypeOK
  <2>4. tokens' \in Seq(Tokens)
    BY <2>1, <2>2, <2>3
  <2>5. QED
    BY <2>1, <2>2, <2>4 DEF TypeOK
<1>5. CASE tokens' = tokens
  BY <1>5 DEF TypeOK
<1>6. QED
  BY <1>1, <1>2, <1>3, <1>4, <1>5
  DEF Next, Refresh, PresentLive, PresentReused, Load, Claim, Revoke, Rollback, vars

\* Every step of Next, and every stutter, keeps the types.
LEMMA TypeStep == TypeInv /\ [Next]_vars => TypeInv'
<1> SUFFICES ASSUME TypeInv, [Next]_vars PROVE TypeInv'
  OBVIOUS
<1>1. /\ tokens' \in Seq(Tokens)
      /\ DOMAIN tokens \subseteq DOMAIN tokens'
      /\ \A t \in DOMAIN tokens : tokens'[t].family = tokens[t].family
  BY RowsKept
<1>2. \A f : FamilyOf(f) \subseteq FamilyOf(f)'
  BY <1>1 DEF FamilyOf
<1>3. \A r \in Requests : At(r, "idle") <=> req[r] = Idle
  BY StageType DEF TypeInv
<1>4. \A t \in DOMAIN tokens : tokens[t].family \in Families /\ t \in Nat
  <2> SUFFICES ASSUME NEW t \in DOMAIN tokens PROVE tokens[t].family \in Families /\ t \in Nat
    OBVIOUS
  <2>1. tokens[t] \in Tokens /\ t \in Nat
    BY DEF TypeInv, TypeOK
  <2>2. QED
    BY <2>1 DEF Tokens
\* What a step may make of the requests.
<1>5. ASSUME NEW r \in Requests, NEW new \in InProgress \union {Idle},
             req' = [req EXCEPT ![r] = new],
             new # Idle => /\ new.token \in FamilyOf(new.family)
                           /\ new.found \subseteq FamilyOf(new.family)
      PROVE  req' \in [Requests -> InProgress \union {Idle}] /\ Holds'
  <2>1. req' \in [Requests -> InProgress \union {Idle}]
    BY <1>5 DEF TypeInv, TypeOK
  <2>2. ASSUME NEW q \in Requests, ~ At(q, "idle")'
        PROVE  /\ req'[q].token \in FamilyOf(req'[q].family)
               /\ req'[q].found \subseteq FamilyOf(req'[q].family)
    <3>1. req'[q].stage # "idle"
      BY <2>2 DEF At
    <3>2. CASE q = r
      BY <1>5, <3>1, <3>2 DEF TypeInv, TypeOK, Idle
    <3>3. CASE q # r
      <4>1. req'[q] = req[q]
        BY <1>5, <3>3 DEF TypeInv, TypeOK
      <4>2. QED
        BY <3>1, <4>1 DEF TypeInv, Holds, At
    <3>4. QED
      BY <3>2, <3>3
  <2>3. QED
    BY <1>2, <2>1, <2>2 DEF Holds
<1>6. ASSUME NEW r \in Requests, Refresh(r)
      PROVE  req' \in [Requests -> InProgress \union {Idle}] /\ Holds'
  <2>1. ASSUME NEW t \in DOMAIN tokens, NEW stage \in {"rotating", "reused"}, Load(r, t, stage)
        PROVE  req' \in [Requests -> InProgress \union {Idle}] /\ Holds'
    <3> DEFINE new == [stage |-> stage, token |-> t, family |-> tokens[t].family, found |-> {}]
    <3>1. new \in InProgress
      BY <1>4, <2>1 DEF InProgress
    <3>2. new.token \in FamilyOf(new.family) /\ new.found \subseteq FamilyOf(new.family)
      BY DEF FamilyOf
    <3>3. req' = [req EXCEPT ![r] = new]
      BY <2>1 DEF Load
    <3> HIDE DEF new
    <3>4. QED
      BY <1>5, <3>1, <3>2, <3>3
  <2>2. CASE Claim(r)
    <3>1. req[r] \in InProgress /\ ~ At(r, "idle")
      BY <2>2, StageType DEF Claim, At, TypeInv
    <3>2. [req[r] EXCEPT !.stage = "claimed"] \in InProgress
      BY <3>1 DEF InProgress
    <3>3. PICK new \in {Idle, [req[r] EXCEPT !.stage = "claimed"]} : req' = [req EXCEPT ![r] = new]
      BY <2>2 DEF Claim
    <3>4. new # Idle => new.token \in FamilyOf(new.family) /\ new.found \subseteq FamilyOf(new.family)
      BY <3>1, <3>3 DEF InProgress, TypeInv, Holds
    <3>5. QED
      BY <1>5, <3>2, <3>3, <3>4
  <2>3. CASE Revoke(r)
    <3> DEFINE new == [req[r] EXCEPT !.stage = "revoking",
                 !.found = {t \in FamilyOf(req[r].family) : ~ tokens[t].revoked}]
    <3>1. req[r] \in InProgress /\ ~ At(r, "idle")
      BY <2>3, StageType DEF Revoke, At, TypeInv
    <3>2. FamilyOf(req[r].family) \subseteq Nat
      BY <1>4 DEF FamilyOf
    <3>3. new \in InProgress
      BY <3>1, <3>2 DEF InProgress
    <3>4. new.token \in FamilyOf(new.family) /\ new.found \subseteq FamilyOf(new.family)
      BY <3>1 DEF InProgress, TypeInv, Holds
    <3>5. req' = [req EXCEPT ![r] = new]
      BY <2>3, <3>1 DEF Revoke, TypeInv, TypeOK
    <3> HIDE DEF new
    <3>6. QED
      BY <1>5, <3>3, <3>4, <3>5
  <2>4. CASE Rotate(r) \/ RevokeCommit(r) \/ Rollback(r)
    <3>1. req' = [req EXCEPT ![r] = Idle]
      BY <2>4 DEF Rotate, RevokeCommit, Rollback
    <3>2. QED
      BY <1>5, <3>1
  <2>5. QED
    BY <1>6, <2>1, <2>2, <2>3, <2>4 DEF Refresh, PresentLive, PresentReused
<1>7. ASSUME req' = req
      PROVE  req' \in [Requests -> InProgress \union {Idle}] /\ Holds'
  <2>1. \A r \in Requests : At(r, "idle")' <=> At(r, "idle")
    BY <1>7 DEF At
  <2>2. Holds'
    BY <1>2, <1>7, <2>1 DEF TypeInv, Holds
  <2>3. QED
    BY <1>7, <2>2 DEF TypeInv, TypeOK
<1>8. req' \in [Requests -> InProgress \union {Idle}] /\ Holds'
  BY <1>6, <1>7 DEF Next, Login, Expire, vars
<1>9. reported' \subseteq Families
  <2>1. ASSUME NEW r \in Requests, RevokeCommit(r)
        PROVE  reported' \subseteq Families
    <3>1. req[r] \in InProgress
      BY <2>1, StageType DEF RevokeCommit, At, TypeInv
    <3>2. req[r].family \in Families
      BY <3>1 DEF InProgress
    <3>3. QED
      BY <2>1, <3>2 DEF RevokeCommit, TypeInv, TypeOK
  <2>2. CASE reported' = reported
    BY <2>2 DEF TypeInv, TypeOK
  <2>3. QED
    BY <2>1, <2>2 DEF Next, Login, Expire, Refresh, PresentLive, PresentReused, Load, Claim,
                      Rotate, Revoke, Rollback, vars
<1>10. raced' \in [Families -> BOOLEAN]
  <2>1. ASSUME NEW f, NEW flag \in BOOLEAN, raced' = [raced EXCEPT ![f] = @ \/ flag]
        PROVE  raced' \in [Families -> BOOLEAN]
    BY <2>1 DEF TypeInv, TypeOK
  <2>2. ASSUME NEW r \in Requests, NEW t \in DOMAIN tokens, PresentLive(r, t)
        PROVE  raced' \in [Families -> BOOLEAN]
    <3>1. Revoking(tokens[t].family) \in BOOLEAN
      BY DEF Revoking
    <3>2. QED
      BY <2>1, <2>2, <3>1 DEF PresentLive
  <2>3. ASSUME NEW r \in Requests, Revoke(r)
        PROVE  raced' \in [Families -> BOOLEAN]
    <3>1. Rotating(req[r].family) \in BOOLEAN
      BY DEF Rotating
    <3>2. QED
      BY <2>1, <2>3, <3>1 DEF Revoke
  <2>4. CASE raced' = raced
    BY <2>4 DEF TypeInv, TypeOK
  <2>5. QED
    BY <2>2, <2>3, <2>4 DEF Next, Login, Expire, Refresh, PresentReused, Claim, Rotate,
                            RevokeCommit, Rollback, vars
<1>11. QED
  BY <1>1, <1>8, <1>9, <1>10 DEF TypeInv, TypeOK

\* Nothing is in progress before the first login.
LEMMA TypeInit == Init => TypeInv
BY DEF Init, TypeInv, TypeOK, Holds, At, Idle

\* Tokens, requests and revocations keep the types the code gives them.
THEOREM TypeCorrect == Spec => []TypeOK
<1>1. TypeInv => TypeOK
  BY DEF TypeInv
<1>2. QED
  BY <1>1, TypeInit, TypeStep, PTL DEF Spec

-----------------------------------------------------------------------------
(* What each write does to the columns.                                    *)

\* Row n is a new one of the family; the columns of the others are kept.
Inserted(n, family) ==
  /\ n \notin DOMAIN tokens
  /\ DOMAIN tokens' = DOMAIN tokens \union {n}
  /\ tokens'[n] = NewToken(family)

\* A login writes nothing but its new row.
LEMMA LoginRows ==
  ASSUME TypeInv, NEW f \in Families, Login(f)
  PROVE  /\ Inserted(Len(tokens) + 1, f)
         /\ \A t \in DOMAIN tokens : tokens'[t] = tokens[t]
<1>1. NewToken(f) \in Tokens /\ tokens \in Seq(Tokens)
  BY DEF NewToken, Tokens, TypeInv, TypeOK
<1>2. QED
  BY <1>1 DEF Login, Inserted

\* A rotation marks the token it claimed and inserts its child.
LEMMA RotateRows ==
  ASSUME TypeInv, NEW r \in Requests, Rotate(r)
  PROVE  /\ req[r].token \in FamilyOf(req[r].family)
         /\ req[r].family \in Families
         /\ Inserted(Len(tokens) + 1, req[r].family)
         /\ \A t \in DOMAIN tokens :
              /\ tokens'[t].family = tokens[t].family
              /\ tokens'[t].revoked = tokens[t].revoked
              /\ t # req[r].token => tokens'[t] = tokens[t]
         /\ tokens'[req[r].token].rotated = TRUE
<1> DEFINE t == req[r].token
           claimed == [tokens EXCEPT ![t] = [tokens[t] EXCEPT !.rotated = TRUE]]
<1>0. \A s \in DOMAIN tokens : tokens[s] \in Tokens
  BY DEF TypeInv, TypeOK
<1>1. req[r] \in InProgress /\ t \in DOMAIN tokens /\ t \in FamilyOf(req[r].family)
  BY StageType DEF Rotate, At, TypeInv, Holds, FamilyOf
<1>2. [tokens[t] EXCEPT !.rotated = TRUE] \in Tokens
      /\ [tokens[t] EXCEPT !.rotated = TRUE].family = tokens[t].family
      /\ [tokens[t] EXCEPT !.rotated = TRUE].revoked = tokens[t].revoked
      /\ [tokens[t] EXCEPT !.rotated = TRUE].rotated = TRUE
  BY <1>0, <1>1 DEF Tokens
<1>3. claimed \in Seq(Tokens) /\ DOMAIN claimed = DOMAIN tokens
      /\ Len(claimed) = Len(tokens)
      /\ claimed[t] = [tokens[t] EXCEPT !.rotated = TRUE]
      /\ \A s \in DOMAIN tokens \ {t} : claimed[s] = tokens[s]
  BY <1>1, <1>2 DEF TypeInv, TypeOK
<1>4. NewToken(req[r].family) \in Tokens /\ req[r].family \in Families
  BY <1>1 DEF NewToken, Tokens, InProgress
<1>5. tokens' = Append(claimed, NewToken(req[r].family))
  BY <1>1 DEF Rotate, TypeInv, TypeOK
<1> HIDE DEF claimed
<1>6. \A s \in DOMAIN tokens : tokens'[s] = claimed[s]
  BY <1>3, <1>4, <1>5
<1>7. Inserted(Len(tokens) + 1, req[r].family)
  BY <1>3, <1>4, <1>5 DEF Inserted, TypeInv, TypeOK
<1>8. QED
  BY <1>1, <1>2, <1>3, <1>4, <1>6, <1>7

\* A revocation marks the rows it found.
LEMMA RevokeRows ==
  ASSUME TypeInv, NEW r \in Requests, RevokeCommit(r)
  PROVE  /\ DOMAIN tokens' = DOMAIN tokens
         /\ \A t \in DOMAIN tokens :
              /\ tokens'[t].family = tokens[t].family
              /\ tokens'[t].rotated = tokens[t].rotated
              /\ tokens'[t].revoked <=> tokens[t].revoked \/ t \in req[r].found
<1>1. tokens' = [t \in DOMAIN tokens |->
                   [tokens[t] EXCEPT !.revoked = @ \/ t \in req[r].found]]
  BY DEF RevokeCommit
<1>2. \A t \in DOMAIN tokens : tokens[t] \in Tokens
  BY DEF TypeInv, TypeOK
<1>3. ASSUME NEW t \in DOMAIN tokens
      PROVE  /\ tokens'[t].family = tokens[t].family
             /\ tokens'[t].rotated = tokens[t].rotated
             /\ tokens'[t].revoked <=> tokens[t].revoked \/ t \in req[r].found
  <2> DEFINE flag == tokens[t].revoked \/ t \in req[r].found
  <2>1. tokens'[t] = [tokens[t] EXCEPT !.revoked = flag]
    BY <1>1
  <2> HIDE DEF flag
  <2>2. /\ tokens'[t].family = tokens[t].family
        /\ tokens'[t].rotated = tokens[t].rotated
        /\ tokens'[t].revoked = flag
    BY <1>2, <2>1 DEF Tokens
  <2>3. QED
    BY <2>2 DEF flag
<1>4. QED
  BY <1>1, <1>3

\* The end of a lifetime changes no other column.
LEMMA ExpireRows ==
  ASSUME TypeInv, NEW s \in DOMAIN tokens, Expire(s)
  PROVE  /\ DOMAIN tokens' = DOMAIN tokens
         /\ \A t \in DOMAIN tokens :
              /\ tokens'[t].family = tokens[t].family
              /\ tokens'[t].rotated = tokens[t].rotated
              /\ tokens'[t].revoked = tokens[t].revoked
<1>1. \A t \in DOMAIN tokens : tokens[t] \in Tokens
  BY DEF TypeInv, TypeOK
<1>2. tokens' = [tokens EXCEPT ![s] = [tokens[s] EXCEPT !.expired = TRUE]]
  BY <1>1 DEF Expire, Tokens
<1>3. QED
  BY <1>1, <1>2 DEF Tokens

-----------------------------------------------------------------------------
(* One heir.                                                               *)

\* The rotations in progress have claimed different tokens, none of which
\* has been rotated: the row lock and the second look at rotated_at.
HeirInv ==
  /\ OneHeir
  /\ \A r \in Requests : At(r, "claimed") =>
       /\ ~ tokens[req[r].token].rotated
       /\ \A q \in Requests \ {r} : At(q, "claimed") => req[q].token # req[r].token

\* A step that rotates no token, adds no row and claims none keeps one heir.
LEMMA HeirKept ==
  ASSUME TypeInv, HeirInv, DOMAIN tokens' = DOMAIN tokens,
         \A t \in DOMAIN tokens :
           tokens'[t].family = tokens[t].family /\ tokens'[t].rotated = tokens[t].rotated,
         \A q \in Requests : At(q, "claimed")' => At(q, "claimed") /\ req'[q] = req[q]
  PROVE  HeirInv'
<1>1. \A f : FamilyOf(f)' = FamilyOf(f)
  BY DEF FamilyOf
<1>2. OneHeir'
  BY <1>1 DEF HeirInv, OneHeir, FamilyOf
<1>3. \A r \in Requests : At(r, "claimed") => req[r].token \in DOMAIN tokens
  BY DEF TypeInv, Holds, At, FamilyOf
<1>4. QED
  BY <1>2, <1>3 DEF HeirInv

\* Every step keeps one heir.
LEMMA HeirStep == TypeInv /\ HeirInv /\ [Next]_vars => HeirInv'
<1> SUFFICES ASSUME TypeInv, HeirInv, [Next]_vars PROVE HeirInv'
  OBVIOUS
<1>0. req \in [Requests -> InProgress \union {Idle}]
  BY DEF TypeInv, TypeOK
<1>1. ASSUME NEW f \in Families, Login(f) PROVE HeirInv'
  <2>1. /\ Inserted(Len(tokens) + 1, f) /\ FamilyOf(f) = {} /\ req' = req
        /\ \A t \in DOMAIN tokens : tokens'[t] = tokens[t]
    BY <1>1, LoginRows DEF Login
  <2>2. OneHeir'
    <3> SUFFICES ASSUME NEW g \in Families, NEW s \in FamilyOf(g)', NEW t \in FamilyOf(g)',
                        ~ tokens'[s].rotated, ~ tokens'[t].rotated
                 PROVE  s = t
      BY DEF OneHeir
    <3>1. CASE g = f
      BY <2>1, <3>1 DEF Inserted, FamilyOf
    <3>2. CASE g # f
      <4>1. s \in FamilyOf(g) /\ t \in FamilyOf(g)
        BY <2>1, <3>2 DEF Inserted, FamilyOf, NewToken
      <4>2. ~ tokens[s].rotated /\ ~ tokens[t].rotated
        BY <2>1, <4>1 DEF FamilyOf
      <4>3. QED
        BY <4>1, <4>2 DEF HeirInv, OneHeir
    <3>3. QED
      BY <3>1, <3>2
  <2>3. \A r \in Requests : At(r, "claimed") => req[r].token \in DOMAIN tokens
    BY DEF TypeInv, Holds, At, FamilyOf
  <2>4. QED
    BY <2>1, <2>2, <2>3 DEF HeirInv, At
<1>2. ASSUME NEW s \in DOMAIN tokens, Expire(s) PROVE HeirInv'
  BY <1>2, ExpireRows, HeirKept DEF Expire, At
<1>3. ASSUME NEW r \in Requests, NEW t \in DOMAIN tokens,
             PresentLive(r, t) \/ PresentReused(r, t)
      PROVE  HeirInv'
  BY <1>0, <1>3, HeirKept DEF PresentLive, PresentReused, Load, At
<1>4. ASSUME NEW r \in Requests, Claim(r) PROVE HeirInv'
  <2>1. CASE tokens[req[r].token].rotated
    <3>1. req' = [req EXCEPT ![r] = Idle] /\ tokens' = tokens
      BY <1>4, <2>1 DEF Claim
    <3>2. QED
      BY <1>0, <3>1, HeirKept DEF At, Idle
  <2>2. CASE ~ tokens[req[r].token].rotated
    <3>1. req' = [req EXCEPT ![r] = [req[r] EXCEPT !.stage = "claimed"]] /\ tokens' = tokens
      BY <1>4, <2>2 DEF Claim
    <3>2. req[r] \in InProgress
      BY <1>4, StageType DEF Claim, At, TypeInv
    <3>3. req'[r].token = req[r].token
      BY <1>0, <3>1, <3>2 DEF InProgress
    <3>4. \A q \in Requests \ {r} : req'[q] = req[q]
      BY <1>0, <3>1
    <3>5. \A q \in Requests \ {r} : At(q, "claimed") => req[q].token # req[r].token
      BY <1>4 DEF Claim, Unlocked
    <3>6. OneHeir'
      BY <3>1 DEF HeirInv, OneHeir, FamilyOf
    <3>7. QED
      BY <2>2, <3>1, <3>3, <3>4, <3>5, <3>6 DEF HeirInv, At
  <2>3. QED
    BY <2>1, <2>2
<1>5. ASSUME NEW r \in Requests, Rotate(r) PROVE HeirInv'
  <2> DEFINE f == req[r].family
             t == req[r].token
             n == Len(tokens) + 1
  <2>1. /\ t \in FamilyOf(f) /\ f \in Families /\ Inserted(n, f)
        /\ \A s \in DOMAIN tokens :
              tokens'[s].family = tokens[s].family /\ (s # t => tokens'[s] = tokens[s])
        /\ tokens'[t].rotated = TRUE
    BY <1>5, RotateRows
  <2>2. ~ tokens[t].rotated /\ \A q \in Requests \ {r} : At(q, "claimed") => req[q].token # t
    BY <1>5 DEF HeirInv, Rotate
  <2>3. ~ At(r, "claimed")' /\ \A q \in Requests \ {r} : req'[q] = req[q]
    BY <1>0, <1>5 DEF Rotate, At, Idle
  <2> HIDE DEF f, t, n
  <2>4. OneHeir'
    <3> SUFFICES ASSUME NEW g \in Families, NEW a \in FamilyOf(g)', NEW b \in FamilyOf(g)',
                        ~ tokens'[a].rotated, ~ tokens'[b].rotated
                 PROVE  a = b
      BY DEF OneHeir
    <3>1. a # t /\ b # t
      BY <2>1
    <3>2. \A c \in FamilyOf(g)' : c # n => c \in FamilyOf(g)
      BY <2>1 DEF Inserted, FamilyOf
    <3>3. CASE g = f
      <4>1. \A c \in FamilyOf(f) : ~ tokens[c].rotated => c = t
        BY <2>1, <2>2 DEF HeirInv, OneHeir
      <4>2. \A c \in FamilyOf(f) : c # t => tokens'[c] = tokens[c]
        BY <2>1 DEF FamilyOf
      <4>3. a = n /\ b = n
        BY <3>1, <3>2, <3>3, <4>1, <4>2
      <4>4. QED
        BY <4>3
    <3>4. CASE g # f
      <4>1. a # n /\ b # n
        BY <2>1, <3>4 DEF Inserted, FamilyOf, NewToken
      <4>2. a \in FamilyOf(g) /\ b \in FamilyOf(g)
        BY <3>2, <4>1
      <4>3. tokens'[a] = tokens[a] /\ tokens'[b] = tokens[b]
        BY <2>1, <3>1, <4>2 DEF FamilyOf
      <4>4. QED
        BY <4>2, <4>3 DEF HeirInv, OneHeir
    <3>5. QED
      BY <3>3, <3>4
  <2>5. ASSUME NEW q \in Requests, At(q, "claimed")'
        PROVE  /\ ~ tokens'[req'[q].token].rotated
               /\ \A p \in Requests \ {q} : At(p, "claimed")' => req'[p].token # req'[q].token
    <3>1. q # r /\ req'[q] = req[q] /\ At(q, "claimed")
      BY <2>3, <2>5 DEF At
    <3>2. req[q].token \in DOMAIN tokens /\ req[q].token # t
      BY <2>2, <3>1 DEF TypeInv, Holds, At, FamilyOf
    <3>3. ~ tokens'[req[q].token].rotated
      BY <2>1, <3>1, <3>2 DEF HeirInv
    <3>4. \A p \in Requests \ {q} : At(p, "claimed")' => At(p, "claimed") /\ req'[p] = req[p]
      BY <2>3 DEF At
    <3>5. QED
      BY <3>1, <3>3, <3>4 DEF HeirInv
  <2>6. QED
    BY <2>4, <2>5 DEF HeirInv
<1>6. ASSUME NEW r \in Requests, Revoke(r) PROVE HeirInv'
  <2>1. tokens' = tokens /\ \A q \in Requests \ {r} : req'[q] = req[q]
    BY <1>0, <1>6 DEF Revoke
  <2>2. req[r] \in InProgress
    BY <1>6, StageType DEF Revoke, At, TypeInv
  <2>3. req'[r].stage = "revoking"
    BY <1>0, <1>6, <2>2 DEF Revoke, InProgress
  <2>4. QED
    BY <2>1, <2>3, HeirKept DEF At
<1>7. ASSUME NEW r \in Requests, RevokeCommit(r) PROVE HeirInv'
  <2>1. \A q \in Requests : At(q, "claimed")' => At(q, "claimed") /\ req'[q] = req[q]
    BY <1>0, <1>7 DEF RevokeCommit, At, Idle
  <2>2. QED
    BY <1>7, <2>1, RevokeRows, HeirKept
<1>8. ASSUME NEW r \in Requests, Rollback(r) PROVE HeirInv'
  BY <1>0, <1>8, HeirKept DEF Rollback, At, Idle
<1>9. CASE UNCHANGED vars
  BY <1>9, HeirKept DEF vars, At
<1>10. QED
  BY <1>1, <1>2, <1>3, <1>4, <1>5, <1>6, <1>7, <1>8, <1>9 DEF Next, Refresh

\* Whatever number of clients present the same tokens at once, each token is
\* rotated once and a family never has two tokens to go on with.
THEOREM RotatedOnce == Spec => []OneHeir
<1>1. Init => HeirInv
  BY DEF Init, HeirInv, OneHeir, FamilyOf, At, Idle
<1>2. HeirInv => OneHeir
  BY DEF HeirInv
<1>3. QED
  BY <1>1, <1>2, TypeInit, TypeStep, HeirStep, PTL DEF Spec

-----------------------------------------------------------------------------
(* Revocation.                                                             *)

\* While no rotation overlaps a revocation of the family: a family reported
\* as revoked has nothing but revoked tokens and no rotation in progress, and
\* a revocation in progress has found whatever is not revoked yet.
KillInv ==
  \A f \in Families : ~ raced[f] =>
    /\ f \in reported =>
         /\ FamilyOf(f) # {}
         /\ \A t \in FamilyOf(f) : tokens[t].revoked
         /\ ~ Rotating(f)
    /\ \A r \in Requests : At(r, "revoking") /\ req[r].family = f =>
         /\ \A t \in FamilyOf(f) : tokens[t].revoked \/ t \in req[r].found
         /\ ~ Rotating(f)

\* A step that adds no row, takes no revocation back and starts neither a
\* rotation nor a revocation keeps the invariant.
LEMMA KillKept ==
  ASSUME TypeInv, KillInv, DOMAIN tokens' = DOMAIN tokens,
         \A t \in DOMAIN tokens :
           /\ tokens'[t].family = tokens[t].family
           /\ tokens[t].revoked => tokens'[t].revoked,
         UNCHANGED <<reported, raced>>,
         \A q \in Requests :
           /\ At(q, "revoking")' => At(q, "revoking") /\ req'[q] = req[q]
           /\ (At(q, "rotating") \/ At(q, "claimed"))' =>
                (At(q, "rotating") \/ At(q, "claimed")) /\ req'[q].family = req[q].family
  PROVE  KillInv'
<1>1. \A f : FamilyOf(f)' = FamilyOf(f)
  BY DEF FamilyOf
<1>2. \A f : Rotating(f)' => Rotating(f)
  BY DEF Rotating
<1>3. QED
  BY <1>1, <1>2 DEF KillInv, FamilyOf

\* Every step keeps the invariant.
LEMMA KillStep == TypeInv /\ KillInv /\ [Next]_vars => KillInv'
<1> SUFFICES ASSUME TypeInv, KillInv, [Next]_vars PROVE KillInv'
  OBVIOUS
<1>0. req \in [Requests -> InProgress \union {Idle}]
  BY DEF TypeInv, TypeOK
<1>1. ASSUME NEW f \in Families, Login(f) PROVE KillInv'
  <2>1. /\ Inserted(Len(tokens) + 1, f) /\ FamilyOf(f) = {}
        /\ UNCHANGED <<req, reported, raced>>
        /\ \A t \in DOMAIN tokens : tokens'[t] = tokens[t]
    BY <1>1, LoginRows DEF Login
  <2>2. \A g \in Families \ {f} : FamilyOf(g)' = FamilyOf(g)
    BY <2>1 DEF Inserted, FamilyOf, NewToken
  <2>3. \A g : Rotating(g)' <=> Rotating(g)
    BY <2>1 DEF Rotating, At
  <2>4. \A r \in Requests : At(r, "revoking") => req[r].family # f
    BY <2>1 DEF TypeInv, Holds, At
  <2>5. ~ raced[f] => f \notin reported
    BY <2>1 DEF KillInv
  <2>6. \A g \in Families : \A t \in FamilyOf(g) : tokens'[t] = tokens[t]
    BY <2>1 DEF FamilyOf
  <2>7. ASSUME NEW g \in Families, ~ raced'[g]
        PROVE  /\ g \in reported' =>
                    /\ FamilyOf(g)' # {}
                    /\ \A t \in FamilyOf(g)' : tokens'[t].revoked
                    /\ ~ Rotating(g)'
               /\ \A r \in Requests : At(r, "revoking")' /\ req'[r].family = g =>
                    /\ \A t \in FamilyOf(g)' : tokens'[t].revoked \/ t \in req'[r].found
                    /\ ~ Rotating(g)'
    <3>1. CASE g = f
      BY <2>1, <2>4, <2>5, <2>7, <3>1 DEF At
    <3>2. CASE g # f
      <4>1. FamilyOf(g)' = FamilyOf(g) /\ ~ raced[g]
        BY <2>1, <2>2, <2>7, <3>2
      <4>2. QED
        BY <2>1, <2>3, <2>6, <4>1 DEF KillInv, At
    <3>3. QED
      BY <3>1, <3>2
  <2>8. QED
    BY <2>7 DEF KillInv
<1>2. ASSUME NEW s \in DOMAIN tokens, Expire(s) PROVE KillInv'
  BY <1>2, ExpireRows, KillKept DEF Expire, At
<1>3. ASSUME NEW r \in Requests, NEW t \in DOMAIN tokens, PresentLive(r, t) PROVE KillInv'
  <2> DEFINE f == tokens[t].family
  <2>1. /\ req' = [req EXCEPT ![r] =
             [stage |-> "rotating", token |-> t, family |-> f, found |-> {}]]
        /\ UNCHANGED <<tokens, reported>>
        /\ raced' = [raced EXCEPT ![f] = @ \/ Revoking(f)]
        /\ ~ tokens[t].revoked
    BY <1>3 DEF PresentLive, Load, IsLive
  <2>2. f \in Families /\ t \in FamilyOf(f)
    <3>1. tokens[t] \in Tokens
      BY DEF TypeInv, TypeOK
    <3>2. QED
      BY <3>1 DEF Tokens, FamilyOf
  <2> HIDE DEF f
  <2>3. \A q \in Requests \ {r} : req'[q] = req[q]
    BY <1>0, <2>1
  <2>4. req'[r].stage = "rotating" /\ req'[r].family = f
    BY <1>0, <2>1
  <2>5. \A g : FamilyOf(g)' = FamilyOf(g)
    BY <2>1 DEF FamilyOf
  <2>6. \A g \in Families \ {f} : Rotating(g)' => Rotating(g)
    BY <2>3, <2>4 DEF Rotating, At
  <2>7. \A g \in Families \ {f} : raced'[g] = raced[g]
    BY <2>1 DEF TypeInv, TypeOK
  <2>8. ASSUME ~ raced'[f] PROVE ~ raced[f] /\ ~ Revoking(f)
    BY <2>1, <2>2, <2>8 DEF TypeInv, TypeOK
  <2>9. ~ raced'[f] => f \notin reported
    BY <2>1, <2>2, <2>8 DEF KillInv
  <2>10. \A q \in Requests : At(q, "revoking")' => At(q, "revoking") /\ req'[q] = req[q]
    BY <2>3, <2>4 DEF At
  <2>11. ASSUME NEW g \in Families, ~ raced'[g]
         PROVE  /\ g \in reported' =>
                     /\ FamilyOf(g)' # {}
                     /\ \A s \in FamilyOf(g)' : tokens'[s].revoked
                     /\ ~ Rotating(g)'
                /\ \A q \in Requests : At(q, "revoking")' /\ req'[q].family = g =>
                     /\ \A s \in FamilyOf(g)' : tokens'[s].revoked \/ s \in req'[q].found
                     /\ ~ Rotating(g)'
    <3>1. CASE g = f
      BY <2>1, <2>8, <2>9, <2>10, <2>11, <3>1 DEF Revoking
    <3>2. CASE g # f
      BY <2>1, <2>5, <2>6, <2>7, <2>10, <2>11, <3>2 DEF KillInv
    <3>3. QED
      BY <3>1, <3>2
  <2>12. QED
    BY <2>11 DEF KillInv
<1>4. ASSUME NEW r \in Requests, NEW t \in DOMAIN tokens, PresentReused(r, t) PROVE KillInv'
  <2>1. /\ req'[r].stage = "reused"
        /\ \A q \in Requests \ {r} : req'[q] = req[q]
        /\ UNCHANGED <<tokens, reported, raced>>
    BY <1>0, <1>4 DEF PresentReused, Load
  <2>2. QED
    BY <2>1, KillKept DEF At
<1>5. ASSUME NEW r \in Requests, Claim(r) PROVE KillInv'
  <2>1. req[r] \in InProgress /\ req[r].stage = "rotating"
    BY <1>5, StageType DEF Claim, At, TypeInv
  <2>2. PICK new \in {Idle, [req[r] EXCEPT !.stage = "claimed"]} : req' = [req EXCEPT ![r] = new]
    BY <1>5 DEF Claim
  <2>3. /\ req'[r] = new /\ \A q \in Requests \ {r} : req'[q] = req[q]
        /\ new.stage \in {"idle", "claimed"}
        /\ new.stage = "claimed" => new.family = req[r].family
    BY <1>0, <2>1, <2>2 DEF InProgress, Idle
  <2>4. UNCHANGED <<tokens, reported, raced>>
    BY <1>5 DEF Claim
  <2>5. \A q \in Requests :
           /\ At(q, "revoking")' => At(q, "revoking") /\ req'[q] = req[q]
           /\ (At(q, "rotating") \/ At(q, "claimed"))' =>
                (At(q, "rotating") \/ At(q, "claimed")) /\ req'[q].family = req[q].family
    BY <2>1, <2>3 DEF At
  <2>6. QED
    BY <2>4, <2>5, KillKept
<1>6. ASSUME NEW r \in Requests, Rotate(r) PROVE KillInv'
  <2> DEFINE f == req[r].family
  <2>1. /\ f \in Families /\ Inserted(Len(tokens) + 1, f)
        /\ \A t \in DOMAIN tokens :
              /\ tokens'[t].family = tokens[t].family
              /\ tokens'[t].revoked = tokens[t].revoked
    BY <1>6, RotateRows
  <2>2. /\ req'[r] = Idle /\ (\A q \in Requests \ {r} : req'[q] = req[q])
        /\ UNCHANGED <<reported, raced>>
    BY <1>0, <1>6 DEF Rotate
  <2>3. Rotating(f)
    BY <1>6 DEF Rotate, Rotating
  <2> HIDE DEF f
  <2>4. ~ raced[f] => /\ f \notin reported
                      /\ \A q \in Requests : At(q, "revoking") => req[q].family # f
    BY <2>1, <2>3 DEF KillInv
  <2>5. \A g \in Families \ {f} : FamilyOf(g)' = FamilyOf(g)
    BY <2>1 DEF Inserted, FamilyOf, NewToken
  <2>6. \A g : Rotating(g)' => Rotating(g)
    BY <2>2 DEF Rotating, At, Idle
  <2>7. \A q \in Requests : At(q, "revoking")' => At(q, "revoking") /\ req'[q] = req[q]
    BY <2>2 DEF At, Idle
  <2>8. ASSUME NEW g \in Families, ~ raced'[g]
         PROVE  /\ g \in reported' =>
                     /\ FamilyOf(g)' # {}
                     /\ \A s \in FamilyOf(g)' : tokens'[s].revoked
                     /\ ~ Rotating(g)'
                /\ \A q \in Requests : At(q, "revoking")' /\ req'[q].family = g =>
                     /\ \A s \in FamilyOf(g)' : tokens'[s].revoked \/ s \in req'[q].found
                     /\ ~ Rotating(g)'
    <3>1. CASE g = f
      BY <2>2, <2>4, <2>7, <2>8, <3>1
    <3>2. CASE g # f
      <4>1. FamilyOf(g)' = FamilyOf(g) /\ \A s \in FamilyOf(g) : tokens'[s].revoked = tokens[s].revoked
        BY <2>1, <2>5, <3>2 DEF FamilyOf
      <4>2. QED
        BY <2>2, <2>6, <2>7, <2>8, <4>1 DEF KillInv
    <3>3. QED
      BY <3>1, <3>2
  <2>9. QED
    BY <2>8 DEF KillInv
<1>7. ASSUME NEW r \in Requests, Revoke(r) PROVE KillInv'
  <2> DEFINE f == req[r].family
             open == {t \in FamilyOf(f) : ~ tokens[t].revoked}
  <2>1. req[r] \in InProgress /\ req[r].stage = "reused"
    BY <1>7, StageType DEF Revoke, At, TypeInv
  <2>2. f \in Families
    BY <2>1 DEF InProgress
  <2>3. /\ req' = [req EXCEPT ![r] = [req[r] EXCEPT !.stage = "revoking", !.found = open]]
        /\ UNCHANGED <<tokens, reported>>
        /\ raced' = [raced EXCEPT ![f] = @ \/ Rotating(f)]
    BY <1>0, <1>7 DEF Revoke
  <2>4. /\ req'[r].stage = "revoking" /\ req'[r].family = f /\ req'[r].found = open
        /\ \A q \in Requests \ {r} : req'[q] = req[q]
    BY <1>0, <2>1, <2>3 DEF InProgress
  <2>5. \A t \in FamilyOf(f) : tokens[t].revoked \/ t \in open
    OBVIOUS
  <2> HIDE DEF f, open
  <2>6. \A g : FamilyOf(g)' = FamilyOf(g)
    BY <2>3 DEF FamilyOf
  <2>7. \A g : Rotating(g)' => Rotating(g)
    BY <2>4 DEF Rotating, At
  <2>8. \A g \in Families : ~ raced'[g] => ~ raced[g] /\ (g = f => ~ Rotating(f))
    BY <2>2, <2>3 DEF TypeInv, TypeOK
  <2>9. ASSUME NEW g \in Families, ~ raced'[g]
         PROVE  /\ g \in reported' =>
                     /\ FamilyOf(g)' # {}
                     /\ \A s \in FamilyOf(g)' : tokens'[s].revoked
                     /\ ~ Rotating(g)'
                /\ \A q \in Requests : At(q, "revoking")' /\ req'[q].family = g =>
                     /\ \A s \in FamilyOf(g)' : tokens'[s].revoked \/ s \in req'[q].found
                     /\ ~ Rotating(g)'
    <3>1. ~ raced[g]
      BY <2>8, <2>9
    <3>2. g \in reported' =>
                     /\ FamilyOf(g)' # {}
                     /\ \A s \in FamilyOf(g)' : tokens'[s].revoked
                     /\ ~ Rotating(g)'
      BY <2>3, <2>6, <2>7, <3>1 DEF KillInv
    <3>3. ASSUME NEW q \in Requests, At(q, "revoking")', req'[q].family = g
          PROVE  /\ \A s \in FamilyOf(g)' : tokens'[s].revoked \/ s \in req'[q].found
                 /\ ~ Rotating(g)'
      <4>1. CASE q = r
        BY <2>3, <2>4, <2>5, <2>6, <2>7, <2>8, <2>9, <3>3, <4>1
      <4>2. CASE q # r
        BY <2>3, <2>4, <2>6, <2>7, <3>1, <3>3, <4>2 DEF KillInv, At
      <4>3. QED
        BY <4>1, <4>2
    <3>4. QED
      BY <3>2, <3>3
  <2>10. QED
    BY <2>9 DEF KillInv
<1>8. ASSUME NEW r \in Requests, RevokeCommit(r) PROVE KillInv'
  <2> DEFINE f == req[r].family
  <2>1. /\ DOMAIN tokens' = DOMAIN tokens
        /\ \A t \in DOMAIN tokens :
              /\ tokens'[t].family = tokens[t].family
              /\ tokens'[t].revoked <=> tokens[t].revoked \/ t \in req[r].found
    BY <1>8, RevokeRows
  <2>2. /\ req'[r] = Idle /\ (\A q \in Requests \ {r} : req'[q] = req[q])
        /\ reported' = reported \union {f} /\ raced' = raced
    BY <1>0, <1>8 DEF RevokeCommit
  <2>3. At(r, "revoking") /\ f \in Families /\ req[r].token \in FamilyOf(f)
    BY <1>8, StageType DEF RevokeCommit, TypeInv, Holds, At, InProgress
  <2>4. \A g : FamilyOf(g)' = FamilyOf(g)
    BY <2>1 DEF FamilyOf
  <2>5. \A g : Rotating(g)' => Rotating(g)
    BY <2>2 DEF Rotating, At, Idle
  <2>6. \A q \in Requests : At(q, "revoking")' => At(q, "revoking") /\ req'[q] = req[q]
    BY <2>2 DEF At, Idle
  <2>7. ~ raced[f] => /\ FamilyOf(f) # {} /\ ~ Rotating(f)
                      /\ \A t \in FamilyOf(f) : tokens[t].revoked \/ t \in req[r].found
    BY <2>3 DEF KillInv
  <2>8. \A g : \A t \in FamilyOf(g) : t \in DOMAIN tokens
    BY DEF FamilyOf
  <2> HIDE DEF f
  <2>9. ASSUME NEW g \in Families, ~ raced'[g]
         PROVE  /\ g \in reported' =>
                     /\ FamilyOf(g)' # {}
                     /\ \A s \in FamilyOf(g)' : tokens'[s].revoked
                     /\ ~ Rotating(g)'
                /\ \A q \in Requests : At(q, "revoking")' /\ req'[q].family = g =>
                     /\ \A s \in FamilyOf(g)' : tokens'[s].revoked \/ s \in req'[q].found
                     /\ ~ Rotating(g)'
    <3>1. ~ raced[g]
      BY <2>2, <2>9
    <3>2. \A q \in Requests : At(q, "revoking")' /\ req'[q].family = g =>
                     /\ \A s \in FamilyOf(g)' : tokens'[s].revoked \/ s \in req'[q].found
                     /\ ~ Rotating(g)'
      BY <2>1, <2>4, <2>5, <2>6, <2>8, <3>1 DEF KillInv
    <3>3. CASE g = f
      BY <2>1, <2>2, <2>4, <2>5, <2>7, <2>8, <3>1, <3>2, <3>3
    <3>4. CASE g # f
      <4>1. g \in reported' => g \in reported
        BY <2>2, <3>4
      <4>2. QED
        BY <2>1, <2>4, <2>5, <2>8, <3>1, <3>2, <4>1 DEF KillInv
    <3>5. QED
      BY <3>3, <3>4
  <2>10. QED
    BY <2>9 DEF KillInv
<1>9. ASSUME NEW r \in Requests, Rollback(r) PROVE KillInv'
  <2>1. /\ req'[r] = Idle /\ (\A q \in Requests \ {r} : req'[q] = req[q])
        /\ UNCHANGED <<tokens, reported, raced>>
    BY <1>0, <1>9 DEF Rollback
  <2>2. QED
    BY <2>1, KillKept DEF At, Idle
<1>10. CASE UNCHANGED vars
  BY <1>10, KillKept DEF vars, At
<1>11. QED
  BY <1>1, <1>2, <1>3, <1>4, <1>5, <1>6, <1>7, <1>8, <1>9, <1>10 DEF Next, Refresh

\* A family reported as revoked has no token left to rotate, the one issued
\* last included, unless a rotation overlapped its revocation.
THEOREM RevokedForGood == Spec => []ReuseKillsFamily
<1>1. Init => KillInv
  BY DEF Init, KillInv, At, Idle
<1>2. TypeInv /\ KillInv => ReuseKillsFamily
  BY DEF KillInv, ReuseKillsFamily, Dead, TypeInv, TypeOK
<1>3. QED
  BY <1>1, <1>2, TypeInit, TypeStep, KillStep, PTL DEF Spec

-----------------------------------------------------------------------------
(* The scope of a revocation.                                              *)

\* A token of the family was rotated.
HasReused(family) == \E s \in FamilyOf(family) : IsReused(tokens[s])

\* Behind a revoked token, and behind a revocation in progress, stands a token
\* of the same family that was rotated: the one presented again.
ScopeInv ==
  /\ RevocationIsScoped
  /\ \A r \in Requests : At(r, "reused") \/ At(r, "revoking") => HasReused(req[r].family)

\* A step that revokes no row and starts no revocation keeps the invariant: a
\* token that was rotated stays so, and a report is never taken back.
LEMMA ScopeKept ==
  ASSUME ScopeInv, DOMAIN tokens \subseteq DOMAIN tokens',
         \A t \in DOMAIN tokens :
           /\ tokens'[t].family = tokens[t].family
           /\ tokens[t].rotated => tokens'[t].rotated
           /\ tokens'[t].revoked => tokens[t].revoked,
         \A t \in DOMAIN tokens' \ DOMAIN tokens : ~ tokens'[t].revoked,
         reported \subseteq reported',
         \A q \in Requests : (At(q, "reused") \/ At(q, "revoking"))' =>
           (At(q, "reused") \/ At(q, "revoking")) /\ req'[q].family = req[q].family
  PROVE  ScopeInv'
<1>1. ASSUME NEW f, HasReused(f)
      PROVE  \E s \in DOMAIN tokens' : tokens'[s].family = f /\ tokens'[s].rotated
  BY <1>1 DEF HasReused, FamilyOf, IsReused
<1>2. ASSUME NEW t \in DOMAIN tokens', tokens'[t].revoked
      PROVE  /\ tokens'[t].family \in reported'
             /\ \E s \in DOMAIN tokens' :
                  tokens'[s].family = tokens'[t].family /\ tokens'[s].rotated
  <2>1. t \in DOMAIN tokens /\ tokens[t].revoked /\ tokens'[t].family = tokens[t].family
    BY <1>2
  <2>2. tokens[t].family \in reported /\ HasReused(tokens[t].family)
    BY <2>1 DEF ScopeInv, RevocationIsScoped, HasReused
  <2>3. QED
    BY <1>1, <2>1, <2>2
<1>3. RevocationIsScoped'
  BY <1>2 DEF RevocationIsScoped, FamilyOf, IsReused
<1>4. ASSUME NEW q \in Requests, (At(q, "reused") \/ At(q, "revoking"))'
      PROVE  HasReused(req[q].family)'
  <2>1. HasReused(req[q].family) /\ req'[q].family = req[q].family
    BY <1>4 DEF ScopeInv
  <2>2. QED
    BY <1>1, <2>1 DEF HasReused, FamilyOf, IsReused
<1>5. QED
  BY <1>3, <1>4 DEF ScopeInv

\* Every step keeps the invariant.
LEMMA ScopeStep == TypeInv /\ ScopeInv /\ [Next]_vars => ScopeInv'
<1> SUFFICES ASSUME TypeInv, ScopeInv, [Next]_vars PROVE ScopeInv'
  OBVIOUS
<1>0. req \in [Requests -> InProgress \union {Idle}]
  BY DEF TypeInv, TypeOK
<1>1. ASSUME NEW f \in Families, Login(f) PROVE ScopeInv'
  <2>1. /\ Inserted(Len(tokens) + 1, f)
        /\ UNCHANGED <<req, reported>>
        /\ \A t \in DOMAIN tokens : tokens'[t] = tokens[t]
    BY <1>1, LoginRows DEF Login
  <2>2. \A t \in DOMAIN tokens' \ DOMAIN tokens : ~ tokens'[t].revoked
    BY <2>1 DEF Inserted, NewToken
  <2>3. QED
    BY <2>1, <2>2, ScopeKept DEF Inserted, At
<1>2. ASSUME NEW s \in DOMAIN tokens, Expire(s) PROVE ScopeInv'
  BY <1>2, ExpireRows, ScopeKept DEF Expire, At
<1>3. ASSUME NEW r \in Requests, NEW t \in DOMAIN tokens, PresentLive(r, t) PROVE ScopeInv'
  <2>1. /\ req'[r].stage = "rotating" /\ \A q \in Requests \ {r} : req'[q] = req[q]
        /\ UNCHANGED <<tokens, reported>>
    BY <1>0, <1>3 DEF PresentLive, Load
  <2>2. QED
    BY <2>1, ScopeKept DEF At
\* The token presented is the one that was rotated.
<1>4. ASSUME NEW r \in Requests, NEW t \in DOMAIN tokens, PresentReused(r, t) PROVE ScopeInv'
  <2>1. /\ req'[r].stage = "reused" /\ req'[r].family = tokens[t].family
        /\ \A q \in Requests \ {r} : req'[q] = req[q]
        /\ UNCHANGED <<tokens, reported>>
    BY <1>0, <1>4 DEF PresentReused, Load
  <2>2. HasReused(tokens[t].family)
    BY <1>4 DEF PresentReused, HasReused, FamilyOf
  <2>3. RevocationIsScoped'
    BY <2>1 DEF ScopeInv, RevocationIsScoped, FamilyOf, IsReused
  <2>4. \A q \in Requests : (At(q, "reused") \/ At(q, "revoking"))' => HasReused(req'[q].family)
    BY <2>1, <2>2 DEF ScopeInv, At
  <2>5. QED
    BY <2>1, <2>3, <2>4 DEF ScopeInv, HasReused, FamilyOf, IsReused
<1>5. ASSUME NEW r \in Requests, Claim(r) PROVE ScopeInv'
  <2>1. req[r] \in InProgress
    BY <1>5, StageType DEF Claim, At, TypeInv
  <2>2. PICK new \in {Idle, [req[r] EXCEPT !.stage = "claimed"]} : req' = [req EXCEPT ![r] = new]
    BY <1>5 DEF Claim
  <2>3. /\ req'[r].stage \in {"idle", "claimed"} /\ \A q \in Requests \ {r} : req'[q] = req[q]
        /\ UNCHANGED <<tokens, reported>>
    BY <1>0, <1>5, <2>1, <2>2 DEF InProgress, Idle, Claim
  <2>4. QED
    BY <2>3, ScopeKept DEF At
<1>6. ASSUME NEW r \in Requests, Rotate(r) PROVE ScopeInv'
  <2>1. /\ Inserted(Len(tokens) + 1, req[r].family)
        /\ tokens'[req[r].token].rotated = TRUE
        /\ \A t \in DOMAIN tokens :
              /\ tokens'[t].family = tokens[t].family
              /\ tokens'[t].revoked = tokens[t].revoked
              /\ t # req[r].token => tokens'[t] = tokens[t]
    BY <1>6, RotateRows
  <2>2. \A t \in DOMAIN tokens' \ DOMAIN tokens : ~ tokens'[t].revoked
    BY <2>1 DEF Inserted, NewToken
  <2>3. /\ req'[r] = Idle /\ \A q \in Requests \ {r} : req'[q] = req[q]
        /\ reported' = reported
    BY <1>0, <1>6 DEF Rotate
  <2>4. \A q \in Requests : (At(q, "reused") \/ At(q, "revoking"))' =>
           (At(q, "reused") \/ At(q, "revoking")) /\ req'[q].family = req[q].family
    BY <2>3 DEF At, Idle
  <2>5. QED
    BY <2>1, <2>2, <2>3, <2>4, ScopeKept DEF Inserted
<1>7. ASSUME NEW r \in Requests, Revoke(r) PROVE ScopeInv'
  <2>1. req[r] \in InProgress /\ req[r].stage = "reused"
    BY <1>7, StageType DEF Revoke, At, TypeInv
  <2>2. /\ req'[r].family = req[r].family /\ \A q \in Requests \ {r} : req'[q] = req[q]
        /\ UNCHANGED <<tokens, reported>>
    BY <1>0, <1>7, <2>1 DEF Revoke, InProgress
  <2>3. QED
    BY <2>1, <2>2, ScopeKept DEF At
\* The rows the UPDATE found are of the family whose token was presented.
<1>8. ASSUME NEW r \in Requests, RevokeCommit(r) PROVE ScopeInv'
  <2> DEFINE f == req[r].family
  <2>1. /\ DOMAIN tokens' = DOMAIN tokens
        /\ \A t \in DOMAIN tokens :
              /\ tokens'[t].family = tokens[t].family
              /\ tokens'[t].rotated = tokens[t].rotated
              /\ tokens'[t].revoked <=> tokens[t].revoked \/ t \in req[r].found
    BY <1>8, RevokeRows
  <2>2. /\ req'[r] = Idle /\ (\A q \in Requests \ {r} : req'[q] = req[q])
        /\ reported' = reported \union {f}
    BY <1>0, <1>8 DEF RevokeCommit
  <2>3. At(r, "revoking") /\ req[r].found \subseteq FamilyOf(f)
    BY <1>8, StageType DEF RevokeCommit, TypeInv, Holds, At
  <2>4. HasReused(f)
    BY <2>3 DEF ScopeInv
  <2>5. \A t \in req[r].found : tokens[t].family = f
    BY <2>3 DEF FamilyOf
  <2> HIDE DEF f
  <2>6. ASSUME NEW g, HasReused(g)
        PROVE  \E s \in DOMAIN tokens' : tokens'[s].family = g /\ tokens'[s].rotated
    BY <2>1, <2>6 DEF HasReused, FamilyOf, IsReused
  <2>7. ASSUME NEW t \in DOMAIN tokens', tokens'[t].revoked
        PROVE  tokens'[t].family \in reported' /\ HasReused(tokens[t].family)
    <3>1. CASE tokens[t].revoked
      <4>1. tokens[t].family \in reported /\ HasReused(tokens[t].family)
        BY <2>1, <3>1 DEF ScopeInv, RevocationIsScoped, HasReused
      <4>2. QED
        BY <2>1, <2>2, <4>1
    <3>2. CASE t \in req[r].found
      BY <2>1, <2>2, <2>4, <2>5, <3>2
    <3>3. QED
      BY <2>1, <2>7, <3>1, <3>2
  <2>8. RevocationIsScoped'
    BY <2>1, <2>6, <2>7 DEF RevocationIsScoped, FamilyOf, IsReused
  <2>9. \A q \in Requests : (At(q, "reused") \/ At(q, "revoking"))' =>
           /\ At(q, "reused") \/ At(q, "revoking")
           /\ req'[q].family = req[q].family
    BY <2>2 DEF At, Idle
  <2>10. \A q \in Requests : (At(q, "reused") \/ At(q, "revoking"))' => HasReused(req'[q].family)
    BY <2>9 DEF ScopeInv
  <2>11. QED
    BY <2>6, <2>8, <2>10 DEF ScopeInv, HasReused, FamilyOf, IsReused
<1>9. ASSUME NEW r \in Requests, Rollback(r) PROVE ScopeInv'
  <2>1. /\ req'[r] = Idle /\ (\A q \in Requests \ {r} : req'[q] = req[q])
        /\ UNCHANGED <<tokens, reported>>
    BY <1>0, <1>9 DEF Rollback
  <2>2. QED
    BY <2>1, ScopeKept DEF At, Idle
<1>10. CASE UNCHANGED vars
  BY <1>10, ScopeKept DEF vars, At
<1>11. QED
  BY <1>1, <1>2, <1>3, <1>4, <1>5, <1>6, <1>7, <1>8, <1>9, <1>10 DEF Next, Refresh

\* A token is revoked only in a family whose client was told so, after a token
\* of that family was presented again: other logins keep their sessions.
THEOREM RevokedInItsFamily == Spec => []RevocationIsScoped
<1>1. Init => ScopeInv
  BY DEF Init, ScopeInv, RevocationIsScoped, At, Idle
<1>2. ScopeInv => RevocationIsScoped
  BY DEF ScopeInv
<1>3. QED
  BY <1>1, <1>2, TypeInit, TypeStep, ScopeStep, PTL DEF Spec

=============================================================================
