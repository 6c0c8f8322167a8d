------------------------ MODULE RefreshTokens_proofs ------------------------
(***************************************************************************)
(* Theorems about RefreshTokens, for every number of requests, tokens,     *)
(* families and users and every length of the periods.                     *)
(***************************************************************************)
EXTENDS RefreshTokens, TLAPS

-----------------------------------------------------------------------------
(* Type correctness *)

LEMMA IdleType == Idle \in Req
  BY DEF Idle, Req, Instant

LEMMA BlankType == Blank \in Row
  BY DEF Blank, Row, Instant

(* A verdict sends a request to a well-formed next record.                 *)
LEMMA JudgedType ==
  ASSUME NEW r \in Request, req[r] \in Req, NEW v, NEW a \in BOOLEAN, NEW c \in BOOLEAN,
         v \in {"expired", "family_expired", "revoked", "reuse", "fresh", "grace"},
         req[r].token \in Token, Minted(req[r].token)
  PROVE  Judged(r, v, a, c) \in Req /\ HasSubject(Judged(r, v, a, c))
<1> USE DEF HasSubject
<1>1. CASE v \in {"expired", "family_expired", "revoked"}
  BY <1>1, IdleType DEF Judged, Idle
<1>2. CASE v = "reuse"
  BY <1>2 DEF Judged, Req, RevocationReason
<1>3. CASE v = "fresh"
  BY <1>3 DEF Judged, Req, RevocationReason
<1>4. CASE v = "grace"
  BY <1>4 DEF Judged, Req, RevocationReason
<1> QED BY <1>1, <1>2, <1>3, <1>4

LEMMA ClassifyType ==
  ASSUME NEW tok, NEW at
  PROVE  Classify(tok, at) \in {"expired", "family_expired", "revoked", "reuse", "fresh", "grace"}
  BY DEF Classify

LEMMA NewRowType ==
  ASSUME NEW f \in Family, NEW c \in Instant, NEW at \in Instant,
         NEW p \in Token \cup {NoToken}, NEW g \in BOOLEAN
  PROVE  NewRow(f, c, at, p, g) \in Row
  BY PeriodAssumption DEF NewRow, Row, Instant

(* What committing does to one row, column by column.                      *)
LEMMA WrittenFields ==
  ASSUME NEW r \in Request, NEW t \in Token, row[t] \in Row
  PROVE  LET w == Written(r, t) IN
         /\ w.state = row[t].state
         /\ w.family = row[t].family
         /\ w.issued_at = row[t].issued_at
         /\ w.expires_at = row[t].expires_at
         /\ w.family_expires_at = row[t].family_expires_at
         /\ w.parent = row[t].parent
         /\ w.by_grace = row[t].by_grace
         /\ w.used_at = IF Consumes(r, t) THEN req[r].at ELSE row[t].used_at
         /\ w.revoked_at = IF Revokes(r, t) \/ MarksReplayed(r, t)
                           THEN req[r].at ELSE row[t].revoked_at
         /\ w.revoked_reason = IF MarksReplayed(r, t) THEN "reuse"
                               ELSE IF Revokes(r, t) THEN req[r].reason
                               ELSE row[t].revoked_reason
  BY DEF Written, Row

LEMMA WrittenType ==
  ASSUME TypeOK, NEW r \in Request, NEW t \in Token
  PROVE  /\ Written(r, t) \in Row
         /\ (Written(r, t).revoked_at = Null) <=> (Written(r, t).revoked_reason = "none")
         /\ Written(r, t).state = row[t].state
         /\ Written(r, t).family = row[t].family
<1>1. row[t] \in Row /\ req[r] \in Req
  BY DEF TypeOK
<1>2. /\ req[r].at \in Instant /\ req[r].at # Null
      /\ req[r].reason \in RevocationReason \cup {"none"}
  BY <1>1 DEF Req, Instant, Null
<1>3. Revokes(r, t) => req[r].reason # "none"
  BY DEF Revokes, Matches
<1>4. (row[t].revoked_at = Null) <=> (row[t].revoked_reason = "none")
  BY DEF TypeOK
<1>5. Written(r, t) \in Row
  BY <1>1, <1>2 DEF Written, Row, RevocationReason
<1> QED
  BY <1>1, <1>2, <1>3, <1>4, <1>5, WrittenFields

LEMMA ReqUpdateType ==
  ASSUME TypeOK, NEW r \in Request, NEW q \in Req, HasSubject(q),
         req' = [req EXCEPT ![r] = q]
  PROVE  req' \in [Request -> Req] /\ \A s \in Request : HasSubject(req'[s])
<1>1. req \in [Request -> Req] /\ \A s \in Request : HasSubject(req[s])
  BY DEF TypeOK
<1>2. \A s \in Request : req'[s] = IF s = r THEN q ELSE req[s]
  BY <1>1
<1> QED BY <1>1, <1>2

LEMMA AnswerType ==
  ASSUME TypeOK, NEW r \in Request, Answer(r)
  PROVE  req' \in [Request -> Req] /\ \A s \in Request : HasSubject(req'[s])
<1>1. HasSubject(Idle)
  BY DEF HasSubject, Idle
<1> QED BY <1>1, IdleType, ReqUpdateType DEF Answer

(* Steps that only move a request keep the types of the rest.              *)
LEMMA OnlyReqType ==
  ASSUME TypeOK, UNCHANGED <<now, active, row>>,
         req' \in [Request -> Req], \A s \in Request : HasSubject(req'[s])
  PROVE  TypeOK'
  BY DEF TypeOK, Minted, HasSubject

(* A step that commits keeps the types of the rows, whether or not it      *)
(* issues a token.                                                         *)
LEMMA CommitType ==
  ASSUME TypeOK, NEW r \in Request, Answer(r), UNCHANGED <<now, active>>,
         row' = [t \in Token |-> Written(r, t)]
  PROVE  TypeOK'
<1>1. \A t \in Token : /\ row'[t] \in Row
                       /\ (row'[t].revoked_at = Null) <=> (row'[t].revoked_reason = "none")
                       /\ row'[t].state # "unminted" => row'[t].family \in Family
                       /\ row'[t].state = row[t].state
  BY WrittenType DEF TypeOK, Minted
<1>2. row' \in [Token -> Row]
  BY <1>1
<1>3. \A s \in Request : HasSubject(req[s])'
  BY <1>1, AnswerType DEF HasSubject, Minted
<1> QED BY <1>1, <1>2, <1>3, AnswerType DEF TypeOK, Minted

LEMMA IssueType ==
  ASSUME TypeOK, NEW r \in Request, Answer(r), UNCHANGED <<now, active>>, NEW n \in Token,
         row'[n] \in Row, row'[n].state = "stored", row'[n].family \in Family,
         row'[n].revoked_at = Null, row'[n].revoked_reason = "none",
         \A t \in Token \ {n} : row'[t] = row[t] \/ row'[t] = Written(r, t),
         row' = [t \in Token |-> row'[t]]
  PROVE  TypeOK'
<1>1. \A t \in Token : /\ row'[t] \in Row
                       /\ (row'[t].revoked_at = Null) <=> (row'[t].revoked_reason = "none")
                       /\ row'[t].state # "unminted" => row'[t].family \in Family
                       /\ Minted(t) => row'[t].state # "unminted"
  BY WrittenType DEF TypeOK, Minted
<1>2. row' \in [Token -> Row]
  BY <1>1
<1>3. \A s \in Request : HasSubject(req[s])'
  BY <1>1, AnswerType DEF HasSubject, Minted
<1> QED BY <1>1, <1>2, <1>3, AnswerType DEF TypeOK, Minted

(* What the end of a rotation and a login do to the table.                 *)
LEMMA ExchangeEffect ==
  ASSUME TypeOK, NEW r \in Request, Exchange(r)
  PROVE  \E n \in Token :
            /\ ~Minted(n)
            /\ row'[n] = NewRow(FamilyOf(r), row[req[r].token].family_expires_at,
                               req[r].at, req[r].token, req[r].reason = "superseded")
            /\ \A t \in Token \ {n} : row'[t] = Written(r, t)
            /\ row' = [t \in Token |-> row'[t]]
  BY DEF Exchange

LEMMA IssueForLoginEffect ==
  ASSUME TypeOK, NEW r \in Request, IssueForLogin(r)
  PROVE  \E n \in Token :
            /\ ~Minted(n)
            /\ row'[n] = NewRow(req[r].family, req[r].at + FAMILY_TTL, req[r].at, NoToken, FALSE)
            /\ \A t \in Token \ {n} : row'[t] = row[t]
            /\ row' = [t \in Token |-> row'[t]]
  BY DEF IssueForLogin, TypeOK

LEMMA InitType == Init => TypeOK
<1> SUFFICES ASSUME Init PROVE TypeOK
  OBVIOUS
<1>1. now \in Instant /\ active \in [User -> BOOLEAN]
  BY DEF Init, Instant
<1>2. row \in [Token -> Row] /\ req \in [Request -> Req]
  BY BlankType, IdleType DEF Init
<1>3. \A t \in Token : /\ (row[t].revoked_at = Null) <=> (row[t].revoked_reason = "none")
                       /\ Minted(t) => row[t].family \in Family
  BY DEF Init, Blank, Minted
<1>4. \A r \in Request : HasSubject(req[r])
  BY DEF Init, Idle, HasSubject
<1> QED BY <1>1, <1>2, <1>3, <1>4 DEF TypeOK

LEMMA NextType == TypeOK /\ [Next]_vars => TypeOK'
<1> SUFFICES ASSUME TypeOK, [Next]_vars PROVE TypeOK'
  OBVIOUS
<1>t. /\ req \in [Request -> Req] /\ row \in [Token -> Row] /\ now \in Instant
      /\ active \in [User -> BOOLEAN]
      /\ \A t \in Token : Minted(t) => row[t].family \in Family
      /\ \A r \in Request : HasSubject(req[r])
  BY DEF TypeOK
<1>a. \A t \in Token : Stored(t) => active[Owner[row[t].family]] \in BOOLEAN
  BY <1>t, OwnerAssumption DEF Stored, Minted
<1>1. ASSUME NEW r \in Request, NEW t \in Token, Refresh(r, t)
      PROVE  TypeOK'
  <2>1. LET q == [Idle EXCEPT !.pc = "load", !.at = now, !.token = t]
        IN  q \in Req /\ HasSubject(q)
    BY <1>1, <1>t DEF Refresh, Idle, Req, Instant, HasSubject
  <2> QED BY <1>1, <2>1, ReqUpdateType, OnlyReqType DEF Refresh
<1>2. ASSUME NEW r \in Request, NEW t \in Token, Logout(r, t)
      PROVE  TypeOK'
  <2>1. LET q == [Idle EXCEPT !.pc = "select", !.at = now, !.token = t, !.reason = "logout"]
        IN  q \in Req /\ HasSubject(q)
    BY <1>2, <1>t DEF Idle, Req, Instant, HasSubject, RevocationReason, Logout, Stored, Minted
  <2> QED BY <1>2, <2>1, ReqUpdateType, OnlyReqType DEF Logout
<1>3. ASSUME NEW r \in Request, NEW f \in Family, Login(r, f)
      PROVE  TypeOK'
  <2>1. LET q == [Idle EXCEPT !.pc = "issue_login", !.at = now, !.family = f]
        IN  q \in Req /\ HasSubject(q)
    BY <1>t DEF Idle, Req, Instant, HasSubject
  <2> QED BY <1>3, <2>1, ReqUpdateType, OnlyReqType DEF Login
<1>4. ASSUME NEW r \in Request, Load(r)
      PROVE  TypeOK'
  <2> DEFINE t == req[r].token
             a == active[Owner[row[t].family]]
             v == Classify(row[t], req[r].at)
  <2>1. req[r] \in Req /\ t \in Token /\ Minted(t)
    BY <1>4, <1>t DEF Load, HasSubject
  <2>2. CASE ~Stored(t)
    BY <1>4, <2>2, AnswerType, OnlyReqType DEF Load
  <2>3. CASE Stored(t) /\ v = "fresh"
    <3>1. LET q == [req[r] EXCEPT !.pc = "consume", !.active = a]
          IN  q \in Req /\ HasSubject(q)
      BY <1>a, <2>1, <2>3 DEF Req, HasSubject
    <3> QED BY <1>4, <2>3, <3>1, ReqUpdateType, OnlyReqType DEF Load
  <2>4. CASE Stored(t) /\ v # "fresh"
    <3>1. a \in BOOLEAN
      BY <1>a, <2>1, <2>4
    <3>2. Judged(r, v, a, FALSE) \in Req /\ HasSubject(Judged(r, v, a, FALSE))
      BY <2>1, <3>1, ClassifyType, JudgedType
    <3> QED BY <1>4, <2>4, <3>2, ReqUpdateType, OnlyReqType DEF Load
  <2> QED BY <2>2, <2>3, <2>4
<1>5. ASSUME NEW r \in Request, Consume(r)
      PROVE  TypeOK'
  <2>1. req[r] \in Req /\ req[r].token \in Token /\ Minted(req[r].token)
    BY <1>5, <1>t DEF Consume, HasSubject
  <2>2. Judged(r, "fresh", req[r].active, TRUE) \in Req
        /\ HasSubject(Judged(r, "fresh", req[r].active, TRUE))
    BY <2>1, JudgedType DEF Req
  <2>3. LET q == [req[r] EXCEPT !.pc = "reread"] IN q \in Req /\ HasSubject(q)
    BY <2>1 DEF Req, HasSubject
  <2>4. CASE req' = [req EXCEPT ![r] = Judged(r, "fresh", req[r].active, TRUE)]
    BY <1>5, <2>2, <2>4, ReqUpdateType, OnlyReqType DEF Consume
  <2>5. CASE req' = [req EXCEPT ![r].pc = "reread"]
    BY <1>5, <2>3, <2>5, ReqUpdateType, OnlyReqType DEF Consume
  <2> QED BY <1>5, <2>4, <2>5 DEF Consume
<1>6. ASSUME NEW r \in Request, Reread(r)
      PROVE  TypeOK'
  <2> DEFINE t == req[r].token
             a == active[Owner[row[t].family]]
             v == Classify(row[t], req[r].at)
  <2>1. req[r] \in Req /\ t \in Token /\ Minted(t)
    BY <1>6, <1>t DEF Reread, HasSubject
  <2>2. CASE ~Stored(t)
    BY <1>6, <2>2, AnswerType, OnlyReqType DEF Reread
  <2>3. CASE Stored(t)
    <3>1. a \in BOOLEAN
      BY <1>a, <2>1, <2>3
    <3>2. Judged(r, v, a, FALSE) \in Req /\ HasSubject(Judged(r, v, a, FALSE))
      BY <2>1, <3>1, ClassifyType, JudgedType
    <3> QED BY <1>6, <2>3, <3>2, ReqUpdateType, OnlyReqType DEF Reread
  <2> QED BY <2>2, <2>3
<1>7. ASSUME NEW r \in Request, MarkReplayed(r)
      PROVE  TypeOK'
  <2> DEFINE live == Stored(req[r].token) /\ row[req[r].token].revoked_at = Null
             q == [req[r] EXCEPT !.pc = "select", !.replayed = live]
  <2>1. q \in Req /\ HasSubject(q)
    BY <1>7, <1>t DEF MarkReplayed, Req, HasSubject
  <2>2. req' = [req EXCEPT ![r] = q]
    BY <1>7, <1>t DEF MarkReplayed
  <2> QED BY <1>7, <2>1, <2>2, ReqUpdateType, OnlyReqType DEF MarkReplayed
<1>8. ASSUME NEW r \in Request, SelectRows(r)
      PROVE  TypeOK'
  <2> DEFINE q == [req[r] EXCEPT !.pc = "update", !.targets = {t \in Token : Matches(r, t)}]
  <2>1. q \in Req /\ HasSubject(q)
    BY <1>8, <1>t DEF SelectRows, Req, HasSubject
  <2>2. req' = [req EXCEPT ![r] = q]
    BY <1>8, <1>t DEF SelectRows
  <2> QED BY <1>8, <2>1, <2>2, ReqUpdateType, OnlyReqType DEF SelectRows
<1>9. ASSUME NEW r \in Request, Revoke(r)
      PROVE  TypeOK'
  BY <1>9, CommitType DEF Revoke
<1>10. ASSUME NEW r \in Request, Exchange(r)
       PROVE  TypeOK'
  <2> DEFINE p == req[r].token
  <2>1. /\ p \in Token /\ req[r].at \in Instant /\ row[p] \in Row
        /\ (req[r].reason = "superseded") \in BOOLEAN
    BY <1>10, <1>t DEF Exchange, HasSubject, Req
  <2>2. FamilyOf(r) \in Family /\ row[p].family_expires_at \in Instant
    BY <1>10, <1>t, <2>1 DEF Exchange, HasSubject, FamilyOf, Row
  <2>3. PICK n \in Token :
          /\ row'[n] = NewRow(FamilyOf(r), row[p].family_expires_at, req[r].at, p,
                             req[r].reason = "superseded")
          /\ \A t \in Token \ {n} : row'[t] = Written(r, t)
          /\ row' = [t \in Token |-> row'[t]]
    BY <1>10, ExchangeEffect
  <2>4. row'[n] \in Row
    BY <2>1, <2>2, <2>3, PeriodAssumption DEF NewRow, Row, Instant
  <2>5. /\ row'[n].state = "stored" /\ row'[n].family \in Family
        /\ row'[n].revoked_at = Null /\ row'[n].revoked_reason = "none"
    BY <2>2, <2>3 DEF NewRow
  <2> QED BY <1>10, <2>3, <2>4, <2>5, IssueType DEF Exchange
<1>11. ASSUME NEW r \in Request, IssueForLogin(r)
       PROVE  TypeOK'
  <2>1. req[r].family \in Family /\ req[r].at \in Instant
    BY <1>11, <1>t DEF IssueForLogin, HasSubject, Req
  <2>2. req[r].at + FAMILY_TTL \in Instant
    BY <2>1, PeriodAssumption DEF Instant
  <2>3. PICK n \in Token :
          /\ row'[n] = NewRow(req[r].family, req[r].at + FAMILY_TTL, req[r].at, NoToken, FALSE)
          /\ \A t \in Token \ {n} : row'[t] = row[t]
          /\ row' = [t \in Token |-> row'[t]]
    BY <1>11, IssueForLoginEffect
  <2>4. row'[n] \in Row
    BY <2>1, <2>2, <2>3, NewRowType
  <2>5. /\ row'[n].state = "stored" /\ row'[n].family \in Family
        /\ row'[n].revoked_at = Null /\ row'[n].revoked_reason = "none"
    BY <2>1, <2>3 DEF NewRow
  <2> QED BY <1>11, <2>3, <2>4, <2>5, IssueType DEF IssueForLogin
<1>12. ASSUME NEW r \in Request, Abort(r)
       PROVE  TypeOK'
  BY <1>12, AnswerType, OnlyReqType DEF Abort
<1>13. ASSUME NEW u \in User, SetActive(u)
       PROVE  TypeOK'
  BY <1>13 DEF SetActive, TypeOK, Minted, HasSubject
<1>14. CASE Prune
  <2>1. \A t \in Token :
          LET w == IF Prunable(t) THEN [row[t] EXCEPT !.state = "pruned"] ELSE row[t]
          IN  /\ w \in Row
              /\ w.family = row[t].family /\ w.revoked_at = row[t].revoked_at
              /\ w.revoked_reason = row[t].revoked_reason
              /\ w.state # "unminted" <=> Minted(t)
    BY <1>t DEF Row, Prunable, Stored, Minted
  <2>2. row' \in [Token -> Row]
    BY <1>14, <2>1 DEF Prune
  <2>3. \A t \in Token :
          /\ row'[t].family = row[t].family /\ row'[t].revoked_at = row[t].revoked_at
          /\ row'[t].revoked_reason = row[t].revoked_reason
          /\ Minted(t)' <=> Minted(t)
    BY <1>14, <2>1 DEF Prune, Minted
  <2>4. \A s \in Request : HasSubject(req[s])'
    BY <1>14, <1>t, <2>3 DEF Prune, HasSubject
  <2>5. \A t \in Token : /\ (row'[t].revoked_at = Null) <=> (row'[t].revoked_reason = "none")
                         /\ Minted(t)' => row'[t].family \in Family
    BY <1>t, <2>3 DEF TypeOK
  <2> QED BY <1>14, <1>t, <2>2, <2>4, <2>5 DEF Prune, TypeOK
<1>15. CASE Tick
  BY <1>15, PeriodAssumption DEF Tick, TypeOK, Minted, Instant, HasSubject
<1>16. CASE UNCHANGED vars
  BY <1>16 DEF vars, TypeOK, Minted, HasSubject
<1> QED
  BY <1>1, <1>2, <1>3, <1>4, <1>5, <1>6, <1>7, <1>8, <1>9, <1>10, <1>11, <1>12, <1>13,
     <1>14, <1>15, <1>16 DEF Next, Step

(* Every row, request and clock the service can reach has its type, each
   revocation carries a reason and each request its subject: the shape
   that refresh.py's statements rely on.                                   *)
THEOREM TypeCorrect == Spec => []TypeOK
  BY InitType, NextType, PTL DEF Spec

-----------------------------------------------------------------------------
(* The inductive invariant.                                                *)
(*                                                                         *)
(* ReqOK(r): what a request knows at each statement about the row it was   *)
(* presented with, and that still holds there although other requests      *)
(* committed in between: either the row is locked, or the fact is about a  *)
(* column that is already final.                                           *)

NotLive(t) == ~Stored(t) \/ row[t].used_at # Null \/ row[t].revoked_at # Null

UsedLongAgo(t, at) == row[t].used_at # Null /\ at - row[t].used_at > GRACE_PERIOD

InWindow(t, at) == WindowStart(t) # Null /\ at - WindowStart(t) <= GRACE_PERIOD

ReqOK(r) ==
  /\ req[r].consumed =>
        /\ req[r].pc \in {"select", "update", "issue"} /\ ~req[r].replayed
        /\ req[r].pc # "issue" => req[r].reason = "inactive"
        /\ ~NotLive(req[r].token)
        /\ req[r].pc = "update" => req[r].token \in req[r].targets
  /\ req[r].replayed =>
        /\ req[r].pc \in {"select", "update"} /\ req[r].reason = "family_revoked"
        /\ Stored(req[r].token) /\ row[req[r].token].revoked_at = Null
        /\ UsedLongAgo(req[r].token, req[r].at)
  /\ req[r].pc \in {"load", "consume", "reread", "issue"} => req[r].reason = "none"
  /\ req[r].pc = "issue" => req[r].consumed
  /\ req[r].pc = "reread" => NotLive(req[r].token)
  /\ req[r].pc = "replay" =>
        /\ req[r].reason = "family_revoked"
        /\ row[req[r].token].revoked_at # Null \/ UsedLongAgo(req[r].token, req[r].at)
  /\ req[r].pc \in {"select", "update"} /\ req[r].reason = "superseded" =>
        InWindow(req[r].token, req[r].at)

LocksOK ==
  \A r, s \in Request : \A t \in Token : Locks(r, t) /\ Locks(s, t) => r = s

(* RowOK(t): what every committed row says about its own past and about    *)
(* the token it was exchanged for.                                         *)
RowOK(t) ==
  /\ ~Minted(t) => /\ row[t].used_at = Null /\ row[t].revoked_at = Null
                   /\ row[t].parent = NoToken /\ ~row[t].by_grace
                   /\ row[t].family = NoFamily
  /\ row[t].revoked_reason = "superseded" => row[t].used_at = Null
  /\ row[t].revoked_reason = "reuse" =>
        row[t].used_at # Null /\ row[t].revoked_at - row[t].used_at > GRACE_PERIOD
  /\ row[t].parent # NoToken =>
        /\ row[t].parent \in Token /\ Minted(row[t].parent)
        /\ ~row[t].by_grace => row[row[t].parent].used_at # Null
  /\ row[t].by_grace => /\ row[t].parent # NoToken
                        /\ InWindow(row[t].parent, row[t].issued_at)

IInv ==
  /\ TypeOK
  /\ \A r \in Request : ReqOK(r)
  /\ LocksOK
  /\ \A t \in Token : RowOK(t)

(* How rows may change: columns go from NULL to a value once, and what a   *)
(* token was issued with never changes.                                    *)
RowsAdvance ==
  \A t \in Token :
    /\ Minted(t) => /\ Minted(t)'
                    /\ Stored(t)' => Stored(t)
                    /\ row'[t].family = row[t].family
                    /\ row'[t].issued_at = row[t].issued_at
                    /\ row'[t].expires_at = row[t].expires_at
                    /\ row'[t].family_expires_at = row[t].family_expires_at
                    /\ row'[t].parent = row[t].parent
                    /\ row'[t].by_grace = row[t].by_grace
    /\ row[t].used_at # Null => row'[t].used_at = row[t].used_at
    /\ row[t].revoked_at # Null => /\ row'[t].revoked_at = row[t].revoked_at
                                   /\ row'[t].revoked_reason = row[t].revoked_reason
                                   /\ row'[t].used_at = row[t].used_at

(* A commit of r only fills columns that were NULL.                        *)
LEMMA WrittenAdvances ==
  ASSUME IInv, NEW r \in Request, NEW t \in Token
  PROVE  LET w == Written(r, t) IN
         /\ row[t].used_at # Null => w.used_at = row[t].used_at
         /\ row[t].revoked_at # Null => /\ w.revoked_at = row[t].revoked_at
                                        /\ w.revoked_reason = row[t].revoked_reason
                                        /\ w.used_at = row[t].used_at
<1>1. row[t] \in Row
  BY DEF IInv, TypeOK
<1>2. Consumes(r, t) => row[t].used_at = Null /\ row[t].revoked_at = Null
  BY DEF IInv, ReqOK, NotLive, Consumes
<1>3. MarksReplayed(r, t) => row[t].revoked_at = Null
  BY DEF IInv, ReqOK, MarksReplayed
<1>4. Revokes(r, t) => row[t].revoked_at = Null
  BY DEF Revokes, Matches
<1> QED BY <1>1, <1>2, <1>3, <1>4, WrittenFields

LEMMA NextAdvances ==
  ASSUME IInv, [Next]_vars
  PROVE  RowsAdvance
<1>t. \A t \in Token : row[t] \in Row
  BY DEF IInv, TypeOK
<1>1. CASE row' = row
  BY <1>1 DEF RowsAdvance, Minted, Stored
<1>2. ASSUME NEW r \in Request, NEW t \in Token, row'[t] = Written(r, t)
      PROVE  /\ row'[t].state = row[t].state /\ row'[t].family = row[t].family
             /\ row'[t].issued_at = row[t].issued_at /\ row'[t].expires_at = row[t].expires_at
             /\ row'[t].family_expires_at = row[t].family_expires_at
             /\ row'[t].parent = row[t].parent /\ row'[t].by_grace = row[t].by_grace
             /\ row[t].used_at # Null => row'[t].used_at = row[t].used_at
             /\ row[t].revoked_at # Null => /\ row'[t].revoked_at = row[t].revoked_at
                                            /\ row'[t].revoked_reason = row[t].revoked_reason
                                            /\ row'[t].used_at = row[t].used_at
  BY <1>2, <1>t, WrittenFields, WrittenAdvances
<1>3. ASSUME NEW r \in Request, Revoke(r)
      PROVE  RowsAdvance
  <2>1. \A t \in Token : row'[t] = Written(r, t)
    BY <1>3 DEF Revoke
  <2> QED BY <2>1, <1>2 DEF RowsAdvance, Minted, Stored
<1>4. ASSUME NEW n \in Token, ~Minted(n)
      PROVE  row[n].used_at = Null /\ row[n].revoked_at = Null
  BY <1>4 DEF IInv, RowOK
<1>5. ASSUME NEW r \in Request, Exchange(r)
      PROVE  RowsAdvance
  <2>1. PICK n \in Token : ~Minted(n) /\ \A t \in Token \ {n} : row'[t] = Written(r, t)
    BY <1>5, ExchangeEffect DEF IInv
  <2> QED BY <2>1, <1>2, <1>4 DEF RowsAdvance, Minted, Stored
<1>6. ASSUME NEW r \in Request, IssueForLogin(r)
      PROVE  RowsAdvance
  <2>1. PICK n \in Token : ~Minted(n) /\ \A t \in Token \ {n} : row'[t] = row[t]
    BY <1>6, IssueForLoginEffect DEF IInv
  <2> QED BY <2>1, <1>4 DEF RowsAdvance, Minted, Stored
<1>7. CASE Prune
  <2>1. \A t \in Token : row'[t] = IF Prunable(t) THEN [row[t] EXCEPT !.state = "pruned"]
                                   ELSE row[t]
    BY <1>7 DEF Prune
  <2> QED BY <2>1, <1>t DEF RowsAdvance, Minted, Stored, Row
<1> QED
  BY <1>1, <1>3, <1>5, <1>6, <1>7 DEF Next, Step, vars, Refresh, Logout, Login, Load, Consume,
     Reread, MarkReplayed, SelectRows, Abort, SetActive, Tick

(* Nobody changes a row that another transaction has locked.               *)
LEMMA LockedIsKept ==
  ASSUME IInv, [Next]_vars, NEW s \in Request, NEW t \in Token, Locks(s, t), req'[s] = req[s]
  PROVE  row'[t] = row[t]
<1>t. row[t] \in Row /\ req \in [Request -> Req] /\ row \in [Token -> Row]
  BY DEF IInv, TypeOK
<1>1. Stored(t) /\ Minted(t)
  BY DEF IInv, ReqOK, Locks, Consumes, MarksReplayed, NotLive, Stored, Minted
<1>2. req[s] # Idle
  BY DEF Locks, Consumes, MarksReplayed, Idle
<1>3. ASSUME NEW r \in Request, Answer(r)
      PROVE  r # s
  BY <1>2, <1>3, <1>t DEF Answer
<1>4. ASSUME NEW r \in Request, r # s, ~Revokes(r, t)
      PROVE  Written(r, t) = row[t]
  <2>1. ~Locks(r, t)
    BY <1>4 DEF IInv, LocksOK
  <2> QED BY <2>1, <1>4, <1>t DEF Written, Row, Locks
<1>5. ASSUME NEW r \in Request, r # s, LocksFree(r)
      PROVE  ~Revokes(r, t)
  BY <1>5 DEF LocksFree, HeldByOther, Revokes
<1>6. ASSUME NEW r \in Request, Revoke(r)
      PROVE  row'[t] = row[t]
  BY <1>6, <1>3, <1>4, <1>5 DEF Revoke
<1>7. ASSUME NEW r \in Request, Exchange(r)
      PROVE  row'[t] = row[t]
  <2>1. r # s
    BY <1>3, <1>7 DEF Exchange
  <2>2. PICK n \in Token : ~Minted(n) /\ \A u \in Token \ {n} : row'[u] = Written(r, u)
    BY <1>7, ExchangeEffect DEF IInv
  <2>3. ~Revokes(r, t)
    <3>1. CASE req[r].pc = "issue"
      BY <3>1 DEF IInv, ReqOK, Revokes, Matches
    <3>2. CASE LocksFree(r)
      BY <3>2, <2>1, <1>5
    <3> QED BY <3>1, <3>2, <1>7 DEF Exchange
  <2> QED BY <1>1, <2>1, <2>2, <2>3, <1>4
<1>8. ASSUME NEW r \in Request, IssueForLogin(r)
      PROVE  row'[t] = row[t]
  <2>1. PICK n \in Token : ~Minted(n) /\ \A u \in Token \ {n} : row'[u] = row[u]
    BY <1>8, IssueForLoginEffect DEF IInv
  <2> QED BY <1>1, <2>1
<1>9. CASE Prune
  BY <1>9 DEF Prune
<1> QED
  BY <1>6, <1>7, <1>8, <1>9 DEF Next, Step, vars, Refresh, Logout, Login, Load, Consume,
     Reread, MarkReplayed, SelectRows, Abort, SetActive, Tick

(* What a request knows stays true while others work.                      *)
LEMMA OthersKeepReqOK ==
  ASSUME IInv, [Next]_vars, NEW s \in Request, req'[s] = req[s]
  PROVE  ReqOK(s)'
<1> DEFINE q == req[s]
           p == req[s].token
<1>1. RowsAdvance
  BY NextAdvances
<1>2. ReqOK(s) /\ HasSubject(q) /\ row \in [Token -> Row] /\ q \in Req
  BY DEF IInv, TypeOK
<1>3. q.pc \notin {"idle", "issue_login"} => p \in Token /\ Minted(p)
  BY <1>2 DEF HasSubject
<1>4. q.consumed \/ q.replayed => p \in Token /\ row'[p] = row[p]
  BY <1>2, <1>3, LockedIsKept DEF ReqOK, Locks, Consumes, MarksReplayed
<1>5. ASSUME p \in Token, Minted(p), NotLive(p)
      PROVE  NotLive(p)'
  BY <1>1, <1>5 DEF RowsAdvance, NotLive, Stored
<1>6. ASSUME p \in Token, UsedLongAgo(p, q.at)
      PROVE  UsedLongAgo(p, q.at)'
  BY <1>1, <1>6 DEF RowsAdvance, UsedLongAgo
<1>7. ASSUME p \in Token, InWindow(p, q.at), row[p].used_at = Null => row[p].revoked_at # Null
      PROVE  InWindow(p, q.at)'
  BY <1>1, <1>7 DEF RowsAdvance, InWindow, WindowStart
<1>8. InWindow(p, q.at) => row[p].used_at # Null \/ row[p].revoked_at # Null
  BY DEF InWindow, WindowStart
<1> QED BY <1>1, <1>2, <1>3, <1>4, <1>5, <1>6, <1>7, <1>8
  DEF ReqOK, RowsAdvance, NotLive, Stored, UsedLongAgo, InWindow, WindowStart

(* What a verdict says of the row it was given.                            *)
LEMMA VerdictMeans ==
  ASSUME IInv, NEW t \in Token, NEW at \in Instant
  PROVE  LET v == Classify(row[t], at) IN
         /\ v = "reuse" => row[t].revoked_at # Null \/ UsedLongAgo(t, at)
         /\ v = "grace" => InWindow(t, at)
         /\ v = "fresh" => row[t].used_at = Null /\ row[t].revoked_at = Null
<1>1. /\ row[t] \in Row /\ RowOK(t)
      /\ (row[t].revoked_at = Null) <=> (row[t].revoked_reason = "none")
  BY DEF IInv, TypeOK
<1>2. GRACE_PERIOD \in Nat
  BY PeriodAssumption
<1>3. CASE row[t].revoked_reason = "superseded"
  BY <1>1, <1>3 DEF Classify, InWindow, WindowStart, RowOK
<1>4. CASE row[t].revoked_reason # "superseded" /\ row[t].revoked_at # Null
  BY <1>1, <1>4 DEF Classify
<1>5. CASE row[t].revoked_at = Null
  <2>1. row[t].used_at \in Int /\ at \in Int
    BY <1>1 DEF Row, Instant, Null
  <2> QED
    BY <1>1, <1>2, <1>5, <2>1 DEF Classify, InWindow, WindowStart, UsedLongAgo
<1> QED BY <1>3, <1>4, <1>5

LEMMA IdleIsOK ==
  ASSUME NEW r \in Request, req'[r] = Idle
  PROVE  ReqOK(r)' /\ \A t \in Token : ~Locks(r, t)'
  BY DEF ReqOK, Idle, Locks, Consumes, MarksReplayed

(* A judged request that has written nothing yet, or its consumption.      *)
LEMMA JudgedIsOK ==
  ASSUME IInv, NEW r \in Request, req[r].pc \in {"load", "consume", "reread"},
         NEW v, NEW a \in BOOLEAN, NEW c \in BOOLEAN,
         v \in {"expired", "family_expired", "revoked", "reuse", "fresh", "grace"},
         v = "reuse" => row[req[r].token].revoked_at # Null \/ UsedLongAgo(req[r].token, req[r].at),
         v = "grace" => InWindow(req[r].token, req[r].at),
         v = "fresh" => c /\ ~NotLive(req[r].token), v # "fresh" => ~c,
         req'[r] = Judged(r, v, a, c), row' = row
  PROVE  ReqOK(r)' /\ (c \/ \A t \in Token : ~Locks(r, t)')
<1>1. req[r] \in Req /\ ~req[r].consumed /\ ~req[r].replayed /\ req[r].reason = "none"
  BY DEF IInv, TypeOK, ReqOK
<1>2. CASE v \in {"expired", "family_expired", "revoked"}
  BY <1>2, IdleIsOK DEF Judged
<1>3. CASE v = "reuse"
  <2>1. req'[r] = [req[r] EXCEPT !.pc = "replay", !.reason = "family_revoked"]
    BY <1>3 DEF Judged
  <2> QED BY <1>1, <1>3, <2>1 DEF Req, ReqOK, UsedLongAgo, Locks, Consumes, MarksReplayed
<1>4. CASE v = "fresh" /\ ~a
  <2>1. req'[r] = [req[r] EXCEPT !.pc = "select", !.reason = "inactive", !.consumed = c]
    BY <1>4 DEF Judged
  <2> QED BY <1>1, <1>4, <2>1 DEF Req, ReqOK, NotLive, Stored
<1>5. CASE v = "grace" /\ ~a
  <2>1. req'[r] = [req[r] EXCEPT !.pc = "select", !.reason = "inactive", !.consumed = c]
    BY <1>5 DEF Judged
  <2> QED BY <1>1, <1>5, <2>1 DEF Req, ReqOK, Locks, Consumes, MarksReplayed
<1>6. CASE v = "grace" /\ a
  <2>1. req'[r] = [req[r] EXCEPT !.pc = "select", !.reason = "superseded"]
    BY <1>6 DEF Judged
  <2> QED BY <1>1, <1>6, <2>1 DEF Req, ReqOK, InWindow, WindowStart, Locks, Consumes, MarksReplayed
<1>7. CASE v = "fresh" /\ a
  <2>1. req'[r] = [req[r] EXCEPT !.pc = "issue", !.consumed = c]
    BY <1>7 DEF Judged
  <2> QED BY <1>1, <1>7, <2>1 DEF Req, ReqOK, NotLive, Stored
<1> QED BY <1>2, <1>3, <1>4, <1>5, <1>6, <1>7

(* A step of r itself: what it knows afterwards is so, and a row it has    *)
(* locked was locked by nobody else.                                       *)
LEMMA OwnStep ==
  ASSUME IInv, NEW r \in Request, Step(r)
  PROVE  ReqOK(r)' /\ \A t \in Token : Locks(r, t)' => ~HeldByOther(r, t)
<1> DEFINE p == req[r].token
           Goal == ReqOK(r)' /\ \A t \in Token : Locks(r, t)' => ~HeldByOther(r, t)
           v == Classify(row[p], req[r].at)
           a == active[Owner[row[p].family]]
<1>t. /\ req \in [Request -> Req] /\ row \in [Token -> Row] /\ active \in [User -> BOOLEAN]
      /\ req[r] \in Req /\ ReqOK(r) /\ HasSubject(req[r])
      /\ \A t \in Token : Minted(t) => row[t].family \in Family
  BY DEF IInv, TypeOK
<1>a. p \in Token /\ Minted(p) => a \in BOOLEAN
  BY <1>t, OwnerAssumption
<1>0. ASSUME Answer(r) PROVE Goal
  BY <1>0, <1>t, IdleIsOK DEF Answer
<1>v. p \in Token => /\ v = "reuse" => row[p].revoked_at # Null \/ UsedLongAgo(p, req[r].at)
                     /\ v = "grace" => InWindow(p, req[r].at)
                     /\ v = "fresh" => row[p].used_at = Null /\ row[p].revoked_at = Null
  BY <1>t, VerdictMeans DEF Req
<1>1. ASSUME NEW t \in Token, Refresh(r, t) PROVE Goal
  <2>1. req'[r] = [Idle EXCEPT !.pc = "load", !.at = now, !.token = t]
    BY <1>1, <1>t DEF Refresh
  <2> QED BY <2>1 DEF ReqOK, Idle, Locks, Consumes, MarksReplayed
<1>2. ASSUME NEW t \in Token, Logout(r, t) PROVE Goal
  <2>1. req'[r] = [Idle EXCEPT !.pc = "select", !.at = now, !.token = t, !.reason = "logout"]
    BY <1>2, <1>t DEF Logout
  <2> QED BY <2>1 DEF ReqOK, Idle, Locks, Consumes, MarksReplayed
<1>3. ASSUME NEW f \in Family, Login(r, f) PROVE Goal
  <2>1. req'[r] = [Idle EXCEPT !.pc = "issue_login", !.at = now, !.family = f]
    BY <1>3, <1>t DEF Login
  <2> QED BY <2>1 DEF ReqOK, Idle, Locks, Consumes, MarksReplayed
<1>4. CASE Load(r)
  <2>1. p \in Token /\ Minted(p) /\ row' = row
    BY <1>4, <1>t DEF Load, HasSubject
  <2>2. CASE ~Stored(p)
    BY <1>0, <1>4, <2>2 DEF Load
  <2>3. CASE Stored(p) /\ v = "fresh"
    <3>1. req'[r] = [req[r] EXCEPT !.pc = "consume", !.active = a]
      BY <1>4, <1>t, <2>3 DEF Load
    <3>2. req[r].pc = "load" /\ ~req[r].consumed /\ ~req[r].replayed
      BY <1>4, <1>t DEF Load, ReqOK
    <3> QED BY <1>t, <3>1, <3>2 DEF Req, ReqOK, Locks, Consumes, MarksReplayed
  <2>4. CASE Stored(p) /\ v # "fresh"
    <3>1. req'[r] = Judged(r, v, a, FALSE) /\ req[r].pc = "load"
      BY <1>4, <1>t, <2>4 DEF Load
    <3> QED BY <1>v, <1>a, <2>1, <2>4, <3>1, ClassifyType, JudgedIsOK
  <2> QED BY <2>2, <2>3, <2>4
<1>5. CASE Consume(r)
  <2>1. p \in Token /\ row' = row /\ req[r].pc = "consume" /\ Minted(p)
    BY <1>5, <1>t DEF Consume, HasSubject
  <2>2. CASE ~NotLive(p) /\ ~HeldByOther(r, p)
             /\ req' = [req EXCEPT ![r] = Judged(r, "fresh", req[r].active, TRUE)]
    <3>1. req'[r] = Judged(r, "fresh", req[r].active, TRUE)
      BY <1>t, <2>2
    <3>2. ReqOK(r)'
      BY <1>t, <2>1, <2>2, <3>1, JudgedIsOK DEF Req
    <3>3. req'[r].token = p
      BY <1>t, <3>1 DEF Judged, Req
    <3> QED BY <2>2, <3>2, <3>3 DEF Locks, Consumes, MarksReplayed
  <2>3. CASE NotLive(p) /\ req' = [req EXCEPT ![r].pc = "reread"]
    <3>1. req'[r] = [req[r] EXCEPT !.pc = "reread"]
      BY <1>t, <2>3
    <3>2. ~req[r].consumed /\ ~req[r].replayed /\ req[r].reason = "none"
      BY <1>t, <2>1 DEF ReqOK
    <3> QED BY <1>t, <2>1, <2>3, <3>1, <3>2
      DEF Req, ReqOK, NotLive, Stored, Locks, Consumes, MarksReplayed
  <2> QED BY <1>5, <2>2, <2>3 DEF Consume, NotLive
<1>6. CASE Reread(r)
  <2>1. p \in Token /\ Minted(p) /\ row' = row /\ req[r].pc = "reread" /\ NotLive(p)
    BY <1>6, <1>t DEF Reread, HasSubject, ReqOK
  <2>2. CASE ~Stored(p)
    BY <1>0, <1>6, <2>2 DEF Reread
  <2>3. CASE Stored(p)
    <3>1. req'[r] = Judged(r, v, a, FALSE) /\ v # "fresh"
      BY <1>6, <1>t, <1>v, <2>1, <2>3 DEF Reread, NotLive
    <3> QED BY <1>v, <1>a, <2>1, <3>1, ClassifyType, JudgedIsOK
  <2> QED BY <2>2, <2>3
<1>7. CASE MarkReplayed(r)
  <2> DEFINE live == Stored(p) /\ row[p].revoked_at = Null
  <2>1. /\ req'[r] = [req[r] EXCEPT !.pc = "select", !.replayed = live]
        /\ row' = row /\ req[r].pc = "replay" /\ (live => ~HeldByOther(r, p))
    BY <1>7, <1>t DEF MarkReplayed
  <2>2. /\ ~req[r].consumed /\ ~req[r].replayed /\ req[r].reason = "family_revoked"
        /\ row[p].revoked_at # Null \/ UsedLongAgo(p, req[r].at)
    BY <1>t, <2>1 DEF ReqOK
  <2>3. /\ req'[r].pc = "select" /\ req'[r].replayed = live /\ req'[r].token = p
        /\ ~req'[r].consumed /\ req'[r].reason = "family_revoked" /\ req'[r].at = req[r].at
    BY <1>t, <2>1, <2>2 DEF Req
  <2>4. ReqOK(r)'
    BY <2>1, <2>2, <2>3 DEF ReqOK, UsedLongAgo, Stored
  <2> QED BY <2>1, <2>3, <2>4 DEF Locks, Consumes, MarksReplayed
<1>8. CASE SelectRows(r)
  <2>1. /\ req'[r] = [req[r] EXCEPT !.pc = "update", !.targets = {t \in Token : Matches(r, t)}]
        /\ row' = row /\ req[r].pc = "select"
    BY <1>8, <1>t DEF SelectRows
  <2>2. /\ req'[r].pc = "update" /\ req'[r].targets = {t \in Token : Matches(r, t)}
        /\ req'[r].token = p /\ req'[r].consumed = req[r].consumed
        /\ req'[r].replayed = req[r].replayed /\ req'[r].reason = req[r].reason
        /\ req'[r].at = req[r].at
    BY <1>t, <2>1 DEF Req
  <2>3. req[r].consumed => Matches(r, p)
    BY <1>t, <2>1 DEF ReqOK, Matches, NotLive, MarksReplayed, FamilyOf
  <2>4. p \in Token
    BY <1>t, <2>1 DEF HasSubject
  <2>5. ReqOK(r)'
    BY <1>t, <2>1, <2>2, <2>3, <2>4 DEF ReqOK, UsedLongAgo, Stored, NotLive, InWindow, WindowStart
  <2> QED BY <2>2, <2>5 DEF IInv, LocksOK, HeldByOther, Locks, Consumes, MarksReplayed
<1>9. CASE Revoke(r) \/ Exchange(r) \/ IssueForLogin(r) \/ Abort(r)
  BY <1>9, <1>0 DEF Revoke, Exchange, IssueForLogin, Abort
<1> QED BY <1>1, <1>2, <1>3, <1>4, <1>5, <1>6, <1>7, <1>8, <1>9 DEF Step

(* A step moves one request, and only a step of r moves r.                 *)
LEMMA OneRequestMoves ==
  ASSUME IInv, [Next]_vars
  PROVE  \/ req' = req
         \/ \E r \in Request : Step(r) /\ \A s \in Request \ {r} : req'[s] = req[s]
<1>1. req \in [Request -> Req]
  BY DEF IInv, TypeOK
<1>2. ASSUME NEW r \in Request, Step(r)
      PROVE  \A s \in Request \ {r} : req'[s] = req[s]
  BY <1>1, <1>2 DEF Step, Refresh, Logout, Login, Load, Consume, Reread, MarkReplayed,
     SelectRows, Revoke, Exchange, IssueForLogin, Abort, Answer
<1> QED BY <1>2 DEF Next, vars, SetActive, Prune, Tick

LEMMA RequestsKeepOK ==
  ASSUME IInv, [Next]_vars
  PROVE  (\A r \in Request : ReqOK(r)') /\ LocksOK'
<1>1. CASE req' = req
  <2>1. \A s \in Request : ReqOK(s)'
    BY <1>1, OthersKeepReqOK
  <2>2. LocksOK'
    BY <1>1 DEF IInv, LocksOK, Locks, Consumes, MarksReplayed
  <2> QED BY <2>1, <2>2
<1>2. ASSUME NEW r \in Request, Step(r), \A s \in Request \ {r} : req'[s] = req[s]
      PROVE  (\A s \in Request : ReqOK(s)') /\ LocksOK'
  <2>1. ReqOK(r)' /\ \A t \in Token : Locks(r, t)' => ~HeldByOther(r, t)
    BY <1>2, OwnStep
  <2>2. \A s \in Request \ {r} : ReqOK(s)' /\ \A t \in Token : Locks(s, t)' => Locks(s, t)
    BY <1>2, OthersKeepReqOK DEF Locks, Consumes, MarksReplayed
  <2>3. ASSUME NEW s \in Request, NEW q \in Request, NEW t \in Token,
               Locks(s, t)', Locks(q, t)'
        PROVE  s = q
    <3>1. CASE s # r /\ q # r
      BY <2>2, <2>3, <3>1 DEF IInv, LocksOK
    <3>2. CASE s = r \/ q = r
      BY <2>1, <2>2, <2>3, <3>2 DEF HeldByOther
    <3> QED BY <3>1, <3>2
  <2> QED BY <2>1, <2>2, <2>3 DEF LocksOK
<1> QED BY <1>1, <1>2, OneRequestMoves

(* The facts about the token a row was exchanged for outlive every step.   *)
LEMMA ParentKept ==
  ASSUME IInv, [Next]_vars, NEW t \in Token, Minted(t)
  PROVE  /\ row'[t].parent # NoToken =>
                /\ row'[t].parent \in Token /\ Minted(row[t].parent)'
                /\ ~row'[t].by_grace => row'[row[t].parent].used_at # Null
         /\ row'[t].by_grace => /\ row'[t].parent # NoToken
                                /\ InWindow(row[t].parent, row[t].issued_at)'
         /\ Minted(t)' /\ row'[t].parent = row[t].parent
         /\ row'[t].issued_at = row[t].issued_at
<1>1. RowsAdvance /\ RowOK(t)
  BY NextAdvances DEF IInv
<1>2. /\ row'[t].parent = row[t].parent /\ row'[t].by_grace = row[t].by_grace
      /\ row'[t].issued_at = row[t].issued_at /\ Minted(t)'
  BY <1>1 DEF RowsAdvance
<1>3. ASSUME NEW p \in Token, InWindow(p, row[t].issued_at)
      PROVE  InWindow(p, row[t].issued_at)'
  BY <1>1, <1>2, <1>3 DEF RowsAdvance, InWindow, WindowStart
<1> QED BY <1>1, <1>2, <1>3 DEF RowsAdvance, RowOK

(* A commit of r on a row that is there already.                           *)
LEMMA WrittenIsOK ==
  ASSUME IInv, [Next]_vars, NEW r \in Request, NEW t \in Token, row'[t] = Written(r, t)
  PROVE  RowOK(t)'
<1>t. /\ row[t] \in Row /\ RowOK(t) /\ ReqOK(r)
      /\ (row[t].revoked_at = Null) <=> (row[t].revoked_reason = "none")
  BY DEF IInv, TypeOK
<1>w. /\ row'[t].used_at = IF Consumes(r, t) THEN req[r].at ELSE row[t].used_at
      /\ row'[t].revoked_at = IF Revokes(r, t) \/ MarksReplayed(r, t)
                              THEN req[r].at ELSE row[t].revoked_at
      /\ row'[t].revoked_reason = IF MarksReplayed(r, t) THEN "reuse"
                                  ELSE IF Revokes(r, t) THEN req[r].reason
                                  ELSE row[t].revoked_reason
      /\ row'[t].state = row[t].state /\ row'[t].family = row[t].family
      /\ row'[t].parent = row[t].parent /\ row'[t].by_grace = row[t].by_grace
  BY <1>t, WrittenFields
<1>1. Consumes(r, t) => /\ Stored(t) /\ row[t].used_at = Null /\ row[t].revoked_at = Null
                        /\ ~MarksReplayed(r, t)
  BY <1>t DEF ReqOK, Consumes, MarksReplayed, NotLive
<1>2. MarksReplayed(r, t) => /\ Stored(t) /\ row[t].used_at # Null
                             /\ req[r].at - row[t].used_at > GRACE_PERIOD
  BY <1>t DEF ReqOK, MarksReplayed, UsedLongAgo
<1>3. Revokes(r, t) => /\ Stored(t) /\ row[t].revoked_at = Null
                       /\ req[r].reason # "reuse"
                       /\ req[r].reason = "superseded" =>
                              row[t].used_at = Null /\ ~Consumes(r, t)
  BY DEF Revokes, Matches, Consumes
<1>4. CASE Minted(t)
  <2>1. row'[t].revoked_reason = "superseded" => row'[t].used_at = Null
    BY <1>t, <1>w, <1>1, <1>3 DEF RowOK
  <2>2. row'[t].revoked_reason = "reuse" =>
            row'[t].used_at # Null /\ row'[t].revoked_at - row'[t].used_at > GRACE_PERIOD
    BY <1>t, <1>w, <1>1, <1>2, <1>3 DEF RowOK
  <2> QED BY <1>4, <2>1, <2>2, ParentKept DEF RowOK
<1>5. CASE ~Minted(t)
  <2>1. ~Consumes(r, t) /\ ~Revokes(r, t) /\ ~MarksReplayed(r, t)
    BY <1>5, <1>1, <1>2, <1>3 DEF Stored, Minted
  <2> QED BY <1>5, <1>t, <1>w, <2>1 DEF RowOK, Minted
<1> QED BY <1>4, <1>5

LEMMA RowsKeepOK ==
  ASSUME IInv, [Next]_vars, NEW t \in Token
  PROVE  RowOK(t)'
<1>t. /\ row \in [Token -> Row] /\ RowOK(t)
      /\ \A s \in Request : req[s] \in Req /\ HasSubject(req[s]) /\ ReqOK(s)
  BY DEF IInv, TypeOK
<1>1. ASSUME row'[t] = row[t]
      PROVE  RowOK(t)'
  <2>1. CASE Minted(t)
    BY <1>1, <1>t, <2>1, ParentKept DEF RowOK
  <2>2. CASE ~Minted(t)
    BY <1>1, <1>t, <2>2 DEF RowOK, Minted
  <2> QED BY <2>1, <2>2
<1>2. ASSUME NEW r \in Request, Revoke(r)
      PROVE  RowOK(t)'
  BY <1>2, WrittenIsOK DEF Revoke
<1>3. ASSUME NEW r \in Request, Exchange(r)
      PROVE  RowOK(t)'
  <2>p. PICK p \in Token : p = req[r].token /\ Minted(p)
    BY <1>3, <1>t DEF Exchange, HasSubject
  <2>at. PICK at \in Instant : at = req[r].at
    BY <1>t DEF Req
  <2>1. PICK n \in Token :
          /\ ~Minted(n)
          /\ row'[n] = NewRow(FamilyOf(r), row[p].family_expires_at, at, p,
                             req[r].reason = "superseded")
          /\ \A u \in Token \ {n} : row'[u] = Written(r, u)
    BY <1>3, <2>p, <2>at, ExchangeEffect DEF IInv
  <2>2. CASE t # n
    BY <2>1, <2>2, WrittenIsOK
  <2>3. CASE t = n
    <3>1. Minted(p) /\ p # n
      BY <2>p, <2>1
    <3>2. /\ row'[n].state = "stored" /\ row'[n].revoked_reason = "none"
          /\ row'[n].parent = p /\ row'[n].issued_at = at
          /\ row'[n].by_grace = (req[r].reason = "superseded")
      BY <2>1 DEF NewRow
    <3>3. Minted(p)' /\ RowsAdvance
      BY <3>1, NextAdvances DEF RowsAdvance
    <3>4. CASE req[r].reason = "superseded"
      <4>1. InWindow(p, at)
        BY <1>3, <1>t, <2>p, <2>at, <3>4 DEF Exchange, ReqOK
      <4>2. InWindow(p, at)'
        BY <3>1, <3>3, <4>1 DEF RowsAdvance, InWindow, WindowStart
      <4> QED BY <2>3, <3>1, <3>2, <3>3, <3>4, <4>2, NullAssumption
        DEF RowOK, Minted, InWindow, WindowStart
    <3>5. CASE req[r].reason # "superseded"
      <4>1. Consumes(r, p) /\ req[r].at # Null
        BY <1>3, <1>t, <2>p, <3>5 DEF Exchange, ReqOK, Consumes, Req, Instant, Null
      <4>2. row'[p].used_at # Null
        BY <1>t, <2>1, <3>1, <4>1, WrittenFields
      <4> QED BY <2>3, <3>1, <3>2, <3>3, <3>5, <4>2 DEF RowOK, Minted
    <3> QED BY <3>4, <3>5
  <2> QED BY <2>2, <2>3
<1>4. ASSUME NEW r \in Request, IssueForLogin(r)
      PROVE  RowOK(t)'
  <2>1. PICK n \in Token :
          /\ row'[n] = NewRow(req[r].family, req[r].at + FAMILY_TTL, req[r].at, NoToken, FALSE)
          /\ \A u \in Token \ {n} : row'[u] = row[u]
    BY <1>4, IssueForLoginEffect DEF IInv
  <2>2. CASE t = n
    BY <2>1, <2>2 DEF NewRow, RowOK, Minted
  <2> QED BY <2>1, <2>2, <1>1
<1>5. CASE Prune
  <2>1. row'[t] = IF Prunable(t) THEN [row[t] EXCEPT !.state = "pruned"] ELSE row[t]
    BY <1>5 DEF Prune
  <2>2. CASE Prunable(t)
    <3>1. /\ row'[t].used_at = row[t].used_at /\ row'[t].revoked_at = row[t].revoked_at
          /\ row'[t].revoked_reason = row[t].revoked_reason
      BY <1>t, <2>1, <2>2 DEF Row
    <3>2. Minted(t)
      BY <2>2 DEF Prunable, Stored, Minted
    <3> QED BY <1>t, <3>1, <3>2, ParentKept DEF RowOK
  <2> QED BY <1>1, <2>1, <2>2
<1>6. CASE row' = row
  BY <1>1, <1>6
<1> QED
  BY <1>2, <1>3, <1>4, <1>5, <1>6 DEF Next, Step, vars, Refresh, Logout, Login, Load, Consume,
     Reread, MarkReplayed, SelectRows, Abort, SetActive, Tick

LEMMA InitIInv == Init => IInv
<1> SUFFICES ASSUME Init PROVE IInv
  OBVIOUS
<1>1. TypeOK
  BY InitType
<1>2. (\A r \in Request : ReqOK(r)) /\ LocksOK
  BY DEF Init, Idle, ReqOK, LocksOK, Locks, Consumes, MarksReplayed
<1>3. \A t \in Token : RowOK(t)
  BY DEF Init, Blank, RowOK, Minted
<1> QED BY <1>1, <1>2, <1>3 DEF IInv

(* The inductive invariant: IInv holds at every moment of every behaviour. *)
THEOREM Inductive == Spec => []IInv
<1>1. IInv /\ [Next]_vars => IInv'
  BY NextType, RequestsKeepOK, RowsKeepOK DEF IInv
<1> QED BY InitIInv, <1>1, PTL DEF Spec

-----------------------------------------------------------------------------
(* What follows from the invariant *)

(* No request of any kind rewrites evidence: used_at, revoked_at and       *)
(* revoked_reason are each written once (_consume, _mark_revoked).         *)
THEOREM EvidenceIsFinal == Spec => HistoryIsFinal
<1>1. IInv /\ [Next]_vars =>
        [\A t \in Token :
            /\ row[t].used_at # Null => row'[t].used_at = row[t].used_at
            /\ row[t].revoked_at # Null => /\ row'[t].revoked_at = row[t].revoked_at
                                           /\ row'[t].revoked_reason = row[t].revoked_reason]_row
  BY NextAdvances DEF RowsAdvance
<1> QED BY Inductive, <1>1, PTL DEF Spec, HistoryIsFinal

(* A row is only ever marked "reuse" when it had been consumed for longer  *)
(* than the grace window, however the requests overlapped.                 *)
THEOREM NoFalseAlarm == Spec => []AlarmNeedsEvidence
<1>1. IInv => AlarmNeedsEvidence
  BY DEF IInv, RowOK, AlarmNeedsEvidence
<1> QED BY Inductive, <1>1, PTL

(* No successor is issued through the grace window later than the window   *)
(* of the token presented allows.                                          *)
THEOREM GraceBounded == Spec => []GraceIsBounded
<1>1. IInv => GraceIsBounded
  BY DEF IInv, RowOK, GraceIsBounded, InWindow
<1> QED BY Inductive, <1>1, PTL

(* The row an exchange issues, next to those that are there.               *)
LEMMA SuccessorIsSecondOnlyByGrace ==
  ASSUME IInv, [Next]_vars, FreshOnce
  PROVE  FreshOnce'
<1>t. /\ row \in [Token -> Row]
      /\ \A s \in Request : req[s] \in Req /\ HasSubject(req[s]) /\ ReqOK(s)
      /\ \A t \in Token : RowOK(t)
  BY DEF IInv, TypeOK
<1>1. ASSUME \A t \in Token : /\ row'[t].parent = row[t].parent
                              /\ row'[t].by_grace = row[t].by_grace
      PROVE  FreshOnce'
  BY <1>1 DEF FreshOnce
<1>2. ASSUME NEW n \in Token, row'[n].parent = NoToken,
             \A t \in Token \ {n} : /\ row'[t].parent = row[t].parent
                                    /\ row'[t].by_grace = row[t].by_grace
      PROVE  FreshOnce'
  BY <1>2 DEF FreshOnce
<1>3. ASSUME NEW r \in Request, Exchange(r)
      PROVE  FreshOnce'
  <2>p. PICK p \in Token : p = req[r].token
    BY <1>3, <1>t DEF Exchange, HasSubject
  <2>1. PICK n \in Token :
          /\ ~Minted(n)
          /\ row'[n] = NewRow(FamilyOf(r), row[p].family_expires_at, req[r].at, p,
                             req[r].reason = "superseded")
          /\ \A t \in Token \ {n} : row'[t] = Written(r, t)
    BY <1>3, <2>p, ExchangeEffect DEF IInv
  <2>2. row'[n].parent = p /\ row'[n].by_grace = (req[r].reason = "superseded")
    BY <2>1 DEF NewRow
  <2>3. \A t \in Token \ {n} : /\ row'[t].parent = row[t].parent
                               /\ row'[t].by_grace = row[t].by_grace
    BY <2>1, <1>t, WrittenFields
  <2>4. req[r].reason # "superseded" =>
          \A t \in Token : row[t].parent = p => row[t].by_grace
    <3>1. req[r].reason # "superseded" => row[p].used_at = Null
      BY <1>3, <1>t, <2>p DEF Exchange, ReqOK, NotLive
    <3> QED BY <1>t, <3>1, NullAssumption DEF RowOK
  <2>5. ASSUME NEW x \in Token, NEW y \in Token, x # y, row'[x].parent # NoToken,
               row'[x].parent = row'[y].parent
        PROVE  row'[x].by_grace \/ row'[y].by_grace
    <3>1. CASE x # n /\ y # n
      BY <2>3, <2>5, <3>1 DEF FreshOnce
    <3>2. CASE x = n
      BY <2>2, <2>3, <2>4, <2>5, <3>2
    <3>3. CASE y = n
      BY <2>2, <2>3, <2>4, <2>5, <3>3
    <3> QED BY <3>1, <3>2, <3>3
  <2> QED BY <2>5 DEF FreshOnce
<1>4. ASSUME NEW r \in Request, Revoke(r)
      PROVE  FreshOnce'
  BY <1>1, <1>4, <1>t, WrittenFields DEF Revoke
<1>5. ASSUME NEW r \in Request, IssueForLogin(r)
      PROVE  FreshOnce'
  <2>1. PICK n \in Token :
          /\ row'[n] = NewRow(req[r].family, req[r].at + FAMILY_TTL, req[r].at, NoToken, FALSE)
          /\ \A t \in Token \ {n} : row'[t] = row[t]
    BY <1>5, IssueForLoginEffect DEF IInv
  <2> QED BY <1>2, <2>1 DEF NewRow
<1>6. CASE Prune
  <2>1. \A t \in Token : row'[t] = IF Prunable(t) THEN [row[t] EXCEPT !.state = "pruned"]
                                   ELSE row[t]
    BY <1>6 DEF Prune
  <2> QED BY <1>1, <2>1, <1>t DEF Row
<1>7. CASE row' = row
  BY <1>1, <1>7
<1> QED
  BY <1>3, <1>4, <1>5, <1>6, <1>7 DEF Next, Step, vars, Refresh, Logout, Login, Load, Consume,
     Reread, MarkReplayed, SelectRows, Abort, SetActive, Tick

(* However many requests present a token together, it is exchanged as      *)
(* fresh at most once: the WHERE of _consume and its row lock decide.      *)
THEOREM ExchangedFreshOnce == Spec => []FreshOnce
<1>1. Init => FreshOnce
  BY DEF Init, Blank, FreshOnce
<1>2. IInv /\ FreshOnce /\ [Next]_vars => FreshOnce'
  BY SuccessorIsSecondOnlyByGrace
<1> QED BY Inductive, <1>1, <1>2, PTL DEF Spec

(* A pruned row stays past its expiry.                                     *)
PrunedExpired ==
  \A t \in Token : row[t].state = "pruned" => row[t].expires_at <= now

LEMMA PruneStep ==
  ASSUME IInv, [Next]_vars, PrunedExpired
  PROVE  PrunedExpired'
<1>t. /\ row \in [Token -> Row] /\ now \in Int
      /\ \A t \in Token : row[t].expires_at \in Int
  BY DEF IInv, TypeOK, Row, Instant
<1>1. now' \in Int /\ now <= now'
  <2>1. ASSUME NEW r \in Request, Step(r)
        PROVE  now' = now
    BY <2>1 DEF Step, Refresh, Logout, Login, Load, Consume, Reread, MarkReplayed, SelectRows,
       Revoke, Exchange, IssueForLogin, Abort
  <2>2. now' = now \/ now' = now + 1
    BY <2>1 DEF Next, vars, SetActive, Prune, Tick
  <2> QED BY <1>t, <2>2
<1>2. ASSUME NEW t \in Token,
             row'[t].state = "pruned" => row[t].state = "pruned" \/ Prunable(t),
             Minted(t) => row'[t].expires_at = row[t].expires_at
      PROVE  row'[t].state = "pruned" => row'[t].expires_at <= now'
  <2>1. Prunable(t) => Minted(t) /\ row[t].expires_at <= now
    BY <1>t, PeriodAssumption DEF Prunable, Stored, Minted
  <2> QED BY <1>t, <1>1, <1>2, <2>1 DEF PrunedExpired, Minted
<1>3. \A t \in Token : Minted(t) => row'[t].expires_at = row[t].expires_at
  BY NextAdvances DEF RowsAdvance
<1>4. ASSUME NEW t \in Token
      PROVE  row'[t].state = "pruned" => row[t].state = "pruned" \/ Prunable(t)
  <2>1. ASSUME NEW r \in Request, Revoke(r)
        PROVE  row'[t].state = row[t].state
    BY <2>1, <1>t, WrittenFields DEF Revoke
  <2>2. ASSUME NEW r \in Request, Exchange(r)
        PROVE  row'[t].state \in {row[t].state, "stored"}
    <3>1. PICK n \in Token :
            /\ row'[n] = NewRow(FamilyOf(r), row[req[r].token].family_expires_at,
                               req[r].at, req[r].token, req[r].reason = "superseded")
            /\ \A u \in Token \ {n} : row'[u] = Written(r, u)
      BY <2>2, ExchangeEffect DEF IInv
    <3> QED BY <1>t, <3>1, WrittenFields DEF NewRow
  <2>3. ASSUME NEW r \in Request, IssueForLogin(r)
        PROVE  row'[t].state \in {row[t].state, "stored"}
    <3>1. PICK n \in Token :
            /\ row'[n] = NewRow(req[r].family, req[r].at + FAMILY_TTL, req[r].at, NoToken, FALSE)
            /\ \A u \in Token \ {n} : row'[u] = row[u]
      BY <2>3, IssueForLoginEffect DEF IInv
    <3> QED BY <3>1 DEF NewRow
  <2>4. CASE Prune
    BY <2>4, <1>t DEF Prune
  <2>5. CASE row' = row
    BY <2>5
  <2> QED
    BY <2>1, <2>2, <2>3, <2>4, <2>5 DEF Next, Step, vars, Refresh, Logout, Login, Load, Consume,
       Reread, MarkReplayed, SelectRows, Abort, SetActive, Tick
<1> QED BY <1>2, <1>3, <1>4 DEF PrunedExpired

(* Pruning costs no answer: a token whose row prune_expired deleted would  *)
(* be refused as expired if the row were still there, and for ever.        *)
THEOREM PruningIsHarmless == Spec => []PrunedTokensAreSpent
<1>1. Init => PrunedExpired
  BY DEF Init, Blank, PrunedExpired
<1>2. IInv /\ PrunedExpired /\ [Next]_vars => PrunedExpired'
  BY PruneStep
<1>3. PrunedExpired => PrunedTokensAreSpent
  BY DEF PrunedExpired, PrunedTokensAreSpent, Classify
<1> QED BY Inductive, <1>1, <1>2, <1>3, PTL DEF Spec

-----------------------------------------------------------------------------
(* Families *)

(* Until a login commits, nothing else belongs to the family it is minting. *)
LoginsMintNewFamilies ==
  \A r \in Request :
    /\ req[r].pc # "issue_login" => req[r].family = NoFamily
    /\ req[r].pc = "issue_login" =>
          /\ \A t \in Token : row[t].family # req[r].family
          /\ \A q \in Request \ {r} : req[q].family # req[r].family

CeilingInv == LoginsMintNewFamilies /\ OneCeilingPerFamily

LEMMA MovedRequestHasNoFamily ==
  ASSUME IInv, LoginsMintNewFamilies, NEW r \in Request, Step(r),
         \A f \in Family : ~Login(r, f)
  PROVE  req'[r].pc # "issue_login" /\ req'[r].family = NoFamily
<1>t. req \in [Request -> Req] /\ req[r] \in Req
  BY DEF IInv, TypeOK
<1>0. ASSUME Answer(r) PROVE req'[r].pc # "issue_login" /\ req'[r].family = NoFamily
  BY <1>0, <1>t DEF Answer, Idle
<1>1. ASSUME NEW v, NEW a, NEW c, req[r].pc # "issue_login", req'[r] = Judged(r, v, a, c),
             v \in {"expired", "family_expired", "revoked", "reuse", "fresh", "grace"},
             a \in BOOLEAN
      PROVE  req'[r].pc # "issue_login" /\ req'[r].family = NoFamily
  <2>1. req[r].family = NoFamily
    BY <1>1 DEF LoginsMintNewFamilies
  <2> QED BY <1>1, <1>t, <2>1 DEF Judged, Req, Idle
<1>2. ASSUME NEW t \in Token, Refresh(r, t) \/ Logout(r, t)
      PROVE  req'[r].pc # "issue_login" /\ req'[r].family = NoFamily
  BY <1>2, <1>t DEF Refresh, Logout, Idle
<1>a. req[r].token \in Token /\ Minted(req[r].token)
        => active[Owner[row[req[r].token].family]] \in BOOLEAN
  BY OwnerAssumption DEF IInv, TypeOK
<1>b. req[r].pc \in {"load", "reread", "consume"} =>
        req[r].token \in Token /\ Minted(req[r].token)
  BY DEF IInv, TypeOK, HasSubject
<1>3. CASE Load(r)
  <2>1. CASE ~Stored(req[r].token)
    BY <1>3, <1>0, <2>1 DEF Load
  <2>2. CASE Stored(req[r].token) /\ Classify(row[req[r].token], req[r].at) = "fresh"
    <3>1. \E a \in BOOLEAN : req'[r] = [req[r] EXCEPT !.pc = "consume", !.active = a]
      BY <1>3, <1>t, <1>a, <1>b, <2>2 DEF Load
    <3>2. req[r].family = NoFamily
      BY <1>3 DEF Load, LoginsMintNewFamilies
    <3> QED BY <1>t, <3>1, <3>2 DEF Req
  <2>3. CASE Stored(req[r].token) /\ Classify(row[req[r].token], req[r].at) # "fresh"
    <3> DEFINE v == Classify(row[req[r].token], req[r].at)
               a == active[Owner[row[req[r].token].family]]
    <3>1. req'[r] = Judged(r, v, a, FALSE) /\ req[r].pc # "issue_login" /\ a \in BOOLEAN
      BY <1>3, <1>t, <1>a, <1>b, <2>3 DEF Load
    <3> HIDE DEF v, a
    <3> QED BY <1>1, <3>1, ClassifyType DEF v
  <2> QED BY <2>1, <2>2, <2>3
<1>4. CASE Consume(r)
  <2>1. CASE req' = [req EXCEPT ![r] = Judged(r, "fresh", req[r].active, TRUE)]
    <3>1. req'[r] = Judged(r, "fresh", req[r].active, TRUE) /\ req[r].active \in BOOLEAN
      BY <1>t, <2>1 DEF Req
    <3> QED BY <1>4, <1>1, <3>1 DEF Consume
  <2>2. CASE req' = [req EXCEPT ![r].pc = "reread"]
    BY <1>4, <1>t, <2>2 DEF Consume, Req, LoginsMintNewFamilies
  <2> QED BY <1>4, <2>1, <2>2 DEF Consume
<1>5. CASE Reread(r)
  <2>1. CASE ~Stored(req[r].token)
    BY <1>5, <1>0, <2>1 DEF Reread
  <2>2. CASE Stored(req[r].token)
    <3> DEFINE v == Classify(row[req[r].token], req[r].at)
               a == active[Owner[row[req[r].token].family]]
    <3>1. req'[r] = Judged(r, v, a, FALSE) /\ req[r].pc # "issue_login" /\ a \in BOOLEAN
      BY <1>5, <1>t, <1>a, <1>b, <2>2 DEF Reread
    <3> HIDE DEF v, a
    <3> QED BY <1>1, <3>1, ClassifyType DEF v
  <2> QED BY <2>1, <2>2
<1>6. CASE MarkReplayed(r)
  BY <1>6, <1>t DEF MarkReplayed, Req, LoginsMintNewFamilies
<1>7. CASE SelectRows(r)
  BY <1>7, <1>t DEF SelectRows, Req, LoginsMintNewFamilies
<1> QED
  BY <1>0, <1>2, <1>3, <1>4, <1>5, <1>6, <1>7
     DEF Step, Revoke, Exchange, IssueForLogin, Abort

(* How a step changes the table, as far as families go.                    *)
LEMMA RowsOfFamilies ==
  ASSUME IInv, [Next]_vars
  PROVE  \/ \A t \in Token : /\ row'[t].family = row[t].family
                             /\ row'[t].expires_at = row[t].expires_at
                             /\ row'[t].family_expires_at = row[t].family_expires_at
                             /\ Minted(t)' <=> Minted(t)
         \/ \E r \in Request, n \in Token :
               /\ ~Minted(n)
               /\ \A t \in Token \ {n} :
                     /\ row'[t].family = row[t].family
                     /\ row'[t].expires_at = row[t].expires_at
                     /\ row'[t].family_expires_at = row[t].family_expires_at
                     /\ Minted(t)' <=> Minted(t)
               /\ row'[n].expires_at <= row'[n].family_expires_at
               /\ \/ /\ IssueForLogin(r)
                     /\ req[r].pc = "issue_login" /\ row'[n].family = req[r].family
                  \/ \E p \in Token : /\ Exchange(r) /\ Minted(p)
                                      /\ row'[n].family = row[p].family
                                      /\ row'[n].family_expires_at = row[p].family_expires_at
<1>t. /\ row \in [Token -> Row] /\ \A s \in Request : req[s] \in Req /\ HasSubject(req[s])
  BY DEF IInv, TypeOK
<1> DEFINE Same(t) == /\ row'[t].family = row[t].family
                      /\ row'[t].expires_at = row[t].expires_at
                      /\ row'[t].family_expires_at = row[t].family_expires_at
                      /\ Minted(t)' <=> Minted(t)
<1>1. ASSUME NEW r \in Request, Revoke(r)
      PROVE  \A t \in Token : Same(t)
  BY <1>1, <1>t, WrittenFields DEF Revoke, Minted
<1>2. ASSUME NEW r \in Request, Exchange(r)
      PROVE  \E n, p \in Token : /\ ~Minted(n) /\ \A t \in Token \ {n} : Same(t)
                                 /\ row'[n].expires_at <= row'[n].family_expires_at
                                 /\ Minted(p) /\ row'[n].family = row[p].family
                                 /\ row'[n].family_expires_at = row[p].family_expires_at
  <2>p. PICK p \in Token : p = req[r].token /\ Minted(p)
    BY <1>2, <1>t DEF Exchange, HasSubject
  <2>1. PICK n \in Token :
          /\ ~Minted(n)
          /\ row'[n] = NewRow(row[p].family, row[p].family_expires_at, req[r].at, p,
                             req[r].reason = "superseded")
          /\ \A t \in Token \ {n} : row'[t] = Written(r, t)
    BY <1>2, <2>p, ExchangeEffect DEF IInv, FamilyOf
  <2>2. \A t \in Token \ {n} : Same(t)
    BY <2>1, <1>t, WrittenFields DEF Minted
  <2>3. /\ row'[n].family = row[p].family
        /\ row'[n].family_expires_at = row[p].family_expires_at
        /\ row'[n].expires_at = IF req[r].at + TOKEN_TTL < row[p].family_expires_at
                                THEN req[r].at + TOKEN_TTL ELSE row[p].family_expires_at
    BY <2>1 DEF NewRow
  <2>4. row[p].family_expires_at \in Int /\ req[r].at + TOKEN_TTL \in Int
    BY <1>t, PeriodAssumption DEF Row, Req, Instant
  <2>5. row'[n].expires_at <= row'[n].family_expires_at
    BY <2>3, <2>4
  <2> QED BY <2>p, <2>1, <2>2, <2>3, <2>5
<1>3. ASSUME NEW r \in Request, IssueForLogin(r)
      PROVE  \E n \in Token : /\ ~Minted(n) /\ \A t \in Token \ {n} : Same(t)
                              /\ row'[n].expires_at <= row'[n].family_expires_at
                              /\ row'[n].family = req[r].family
  <2>1. PICK n \in Token :
          /\ ~Minted(n)
          /\ row'[n] = NewRow(req[r].family, req[r].at + FAMILY_TTL, req[r].at, NoToken, FALSE)
          /\ \A t \in Token \ {n} : row'[t] = row[t]
    BY <1>3, IssueForLoginEffect DEF IInv
  <2>2. \A t \in Token \ {n} : Same(t)
    BY <2>1 DEF Minted
  <2>3. /\ row'[n].family = req[r].family
        /\ row'[n].family_expires_at = req[r].at + FAMILY_TTL
        /\ row'[n].expires_at = IF req[r].at + TOKEN_TTL < req[r].at + FAMILY_TTL
                                THEN req[r].at + TOKEN_TTL ELSE req[r].at + FAMILY_TTL
    BY <2>1 DEF NewRow
  <2>4. req[r].at + FAMILY_TTL \in Int /\ req[r].at + TOKEN_TTL \in Int
    BY <1>t, PeriodAssumption DEF Req, Instant
  <2>5. row'[n].expires_at <= row'[n].family_expires_at
    BY <2>3, <2>4
  <2> QED BY <2>1, <2>2, <2>3, <2>5
<1>4. CASE Prune
  <2>1. \A t \in Token : row'[t] = IF Prunable(t) THEN [row[t] EXCEPT !.state = "pruned"]
                                   ELSE row[t]
    BY <1>4 DEF Prune
  <2>2. \A t \in Token : Same(t)
    BY <2>1, <1>t DEF Row, Prunable, Stored, Minted
  <2> QED BY <2>2
<1>5. CASE row' = row
  BY <1>5 DEF Minted
<1>6. \/ \E r \in Request : Revoke(r) \/ Exchange(r) \/ IssueForLogin(r)
      \/ Prune
      \/ row' = row
  BY DEF Next, Step, vars, Refresh, Logout, Login, Load, Consume, Reread, MarkReplayed,
     SelectRows, Abort, SetActive, Tick
<1>7. ASSUME NEW r \in Request, IssueForLogin(r)
      PROVE  req[r].pc = "issue_login"
  BY <1>7 DEF IssueForLogin
<1> QED BY <1>1, <1>2, <1>3, <1>4, <1>5, <1>6, <1>7

LEMMA CeilingStep ==
  ASSUME IInv, CeilingInv, [Next]_vars
  PROVE  CeilingInv'
<1>t. /\ req \in [Request -> Req]
      /\ \A s \in Request : req[s] \in Req /\ HasSubject(req[s])
      /\ \A t \in Token : Minted(t) => row[t].family \in Family
      /\ \A t \in Token : ~Minted(t) => row[t].family = NoFamily
  BY DEF IInv, TypeOK, RowOK
<1> DEFINE Same(t) == /\ row'[t].family = row[t].family
                      /\ row'[t].expires_at = row[t].expires_at
                      /\ row'[t].family_expires_at = row[t].family_expires_at
                      /\ Minted(t)' <=> Minted(t)
           Added(n) == /\ ~Minted(n)
                       /\ \A t \in Token \ {n} : Same(t)
                       /\ row'[n].expires_at <= row'[n].family_expires_at
           Joins(n, p) == /\ Minted(p) /\ row'[n].family = row[p].family
                          /\ row'[n].family_expires_at = row[p].family_expires_at
<1>1. \/ \A t \in Token : Same(t)
      \/ \E r \in Request, n \in Token :
            Added(n) /\ \/ /\ IssueForLogin(r) /\ req[r].pc = "issue_login"
                              /\ row'[n].family = req[r].family
                           \/ \E p \in Token : Exchange(r) /\ Joins(n, p)
  BY RowsOfFamilies
<1>2. OneCeilingPerFamily'
  <2>1. CASE \A t \in Token : Same(t)
    BY <2>1 DEF CeilingInv, OneCeilingPerFamily
  <2>2. ASSUME NEW r \in Request, NEW n \in Token, Added(n),
               req[r].pc = "issue_login", row'[n].family = req[r].family
        PROVE  OneCeilingPerFamily'
    <3>1. \A t \in Token \ {n} : row'[t].family # row'[n].family
      BY <2>2 DEF CeilingInv, LoginsMintNewFamilies
    <3> QED BY <2>2, <3>1 DEF CeilingInv, OneCeilingPerFamily
  <2>3. ASSUME NEW r \in Request, NEW n \in Token, NEW p \in Token, Added(n), Joins(n, p)
        PROVE  OneCeilingPerFamily'
    BY <2>3 DEF CeilingInv, OneCeilingPerFamily
  <2> QED BY <1>1, <2>1, <2>2, <2>3
<1>3. LoginsMintNewFamilies'
  <2>1. ASSUME NEW r \in Request, NEW f \in Family, Login(r, f)
        PROVE  LoginsMintNewFamilies'
    <3>1. req'[r].pc = "issue_login" /\ req'[r].family = f
      BY <1>t, <2>1 DEF Login, Idle
    <3>2. \A q \in Request \ {r} : req'[q] = req[q]
      BY <1>t, <2>1 DEF Login
    <3>3. row' = row /\ (\A t \in Token : row[t].family # f) /\ \A q \in Request : req[q].family # f
      BY <2>1 DEF Login
    <3> QED BY <3>1, <3>2, <3>3, NullAssumption DEF CeilingInv, LoginsMintNewFamilies
  <2>2. ASSUME NEW r \in Request, \A s \in Request \ {r} : req'[s] = req[s],
               req'[r].pc # "issue_login", req'[r].family = NoFamily,
               \A q \in Request \ {r} : ~IssueForLogin(q)
        PROVE  LoginsMintNewFamilies'
    <3>1. \A s \in Request \ {r} : req'[s].pc = "issue_login" =>
              req[s].family \in Family /\ \A q \in Request \ {s} : req'[q].family # req[s].family
      BY <1>t, <2>2, NullAssumption DEF CeilingInv, LoginsMintNewFamilies, HasSubject
    <3>2. ASSUME NEW s \in Request \ {r}, req[s].pc = "issue_login", NEW t \in Token
          PROVE  row'[t].family # req[s].family
      <4>1. row[t].family # req[s].family
        BY <3>2 DEF CeilingInv, LoginsMintNewFamilies
      <4>2. \/ row'[t].family = row[t].family
            \/ \E q \in Request : /\ IssueForLogin(q) /\ req[q].pc = "issue_login"
                                  /\ row'[t].family = req[q].family
            \/ \E p \in Token : row'[t].family = row[p].family
        BY <1>1
      <4>3. \A p \in Token : row[p].family # req[s].family
        BY <3>2 DEF CeilingInv, LoginsMintNewFamilies
      <4>4. req[r].pc = "issue_login" => req[r].family # req[s].family
        BY <3>2 DEF CeilingInv, LoginsMintNewFamilies
      <4> QED BY <2>2, <4>1, <4>2, <4>3, <4>4
    <3> QED BY <2>2, <3>1, <3>2 DEF CeilingInv, LoginsMintNewFamilies
  <2>3. CASE req' = req
    <3>1. \A r \in Request : ~IssueForLogin(r) /\ ~Exchange(r)
      <4>1. ASSUME NEW r \in Request, Answer(r), req[r].pc # "idle"
            PROVE  req' # req
        BY <1>t, <4>1 DEF Answer, Idle
      <4> QED BY <2>3, <4>1 DEF IssueForLogin, Exchange
    <3>2. \A t \in Token : row'[t].family = row[t].family
      BY <1>1, <3>1
    <3> QED BY <2>3, <3>2 DEF CeilingInv, LoginsMintNewFamilies
  <2>4. ASSUME NEW r \in Request, Step(r), \A s \in Request \ {r} : req'[s] = req[s]
        PROVE  LoginsMintNewFamilies'
    <3>1. CASE \E f \in Family : Login(r, f)
      BY <2>1, <3>1
    <3>2. CASE \A f \in Family : ~Login(r, f)
      <4>1. req'[r].pc # "issue_login" /\ req'[r].family = NoFamily
        BY <2>4, <3>2, MovedRequestHasNoFamily DEF CeilingInv
      <4>2. \A q \in Request \ {r} : ~IssueForLogin(q)
        <5>1. ASSUME NEW q \in Request \ {r}, IssueForLogin(q)
              PROVE  FALSE
          <6>1. req'[q] = Idle /\ req[q].pc = "issue_login"
            BY <1>t, <5>1 DEF IssueForLogin, Answer
          <6> QED BY <2>4, <5>1, <6>1 DEF Idle
        <5> QED BY <5>1
      <4> QED BY <2>2, <2>4, <4>1, <4>2
    <3> QED BY <3>1, <3>2
  <2> QED BY <2>3, <2>4, OneRequestMoves
<1> QED BY <1>2, <1>3 DEF CeilingInv

(* The ceiling of a family is the one its login set: no chain of rotations *)
(* extends a session, and no token outlives its family.                    *)
THEOREM CeilingNeverMoves == Spec => []OneCeilingPerFamily
<1>1. Init => CeilingInv
  BY DEF Init, Blank, Idle, CeilingInv, LoginsMintNewFamilies, OneCeilingPerFamily, Minted
<1>2. IInv /\ CeilingInv /\ [Next]_vars => CeilingInv'
  BY CeilingStep
<1>3. CeilingInv => OneCeilingPerFamily
  BY DEF CeilingInv
<1> QED BY Inductive, <1>1, <1>2, <1>3, PTL DEF Spec

-----------------------------------------------------------------------------
(* A family keeps a leaf *)

LEMMA LeafStep ==
  ASSUME IInv, [Next]_vars, FamilyKeepsALeaf
  PROVE  FamilyKeepsALeaf'
<1>t. /\ row \in [Token -> Row]
      /\ \A s \in Request : req[s] \in Req /\ HasSubject(req[s]) /\ ReqOK(s)
      /\ \A t \in Token : /\ RowOK(t)
                          /\ (row[t].revoked_at = Null) <=> (row[t].revoked_reason = "none")
                          /\ Minted(t) => row[t].family \in Family
  BY DEF IInv, TypeOK
<1> DEFINE Pruned(f) == \E t \in Token : row[t].family = f /\ row[t].state = "pruned"
           Empty(f) == \A t \in Token : row[t].family # f
           HasLeaf(f) == \E t \in Token : Leaf(t, f)
           OK(f) == Empty(f) \/ Ended(f) \/ Pruned(f) \/ HasLeaf(f)
<1>r. RowsAdvance
  BY NextAdvances
<1>0. ASSUME NEW f \in Family, Ended(f) \/ Pruned(f)
      PROVE  (Ended(f) \/ Pruned(f))'
  <2>1. CASE Ended(f)
    <3>1. PICK t \in Token : row[t].family = f
                             /\ row[t].revoked_reason \in RevocationReason \ {"superseded"}
      BY <2>1 DEF Ended
    <3>2. Minted(t) /\ row[t].revoked_at # Null
      BY <1>t, <3>1, NullAssumption DEF RowOK, RevocationReason
    <3>3. row'[t].family = f /\ row'[t].revoked_reason = row[t].revoked_reason
      BY <1>r, <3>1, <3>2 DEF RowsAdvance
    <3> QED BY <3>1, <3>3 DEF Ended
  <2>2. CASE Pruned(f)
    <3>1. PICK t \in Token : row[t].family = f /\ row[t].state = "pruned"
      BY <2>2
    <3>2. row'[t].family = f /\ row'[t].state # "unminted" /\ row'[t].state # "stored"
      BY <1>r, <3>1 DEF RowsAdvance, Minted, Stored
    <3>3. row'[t].state \in {"unminted", "stored", "pruned"}
      BY NextType DEF IInv, TypeOK, Row
    <3> QED BY <3>2, <3>3
  <2> QED BY <1>0, <2>1, <2>2
<1>1. ASSUME NEW f \in Family, \A t \in Token : row[t].family = f => row'[t] = row[t],
             \A t \in Token : row'[t].family = f => row[t].family = f
      PROVE  OK(f)'
  BY <1>0, <1>1 DEF FamilyKeepsALeaf, Leaf, Stored
<1>2. ASSUME NEW r \in Request, NEW t \in Token, row'[t] = Written(r, t),
             ~Consumes(r, t), ~MarksReplayed(r, t), ~Revokes(r, t)
      PROVE  row'[t] = row[t]
  BY <1>2, <1>t DEF Written, Row
<1>3. ASSUME NEW r \in Request, Revoke(r), NEW f \in Family
      PROVE  OK(f)'
  <2>1. \A t \in Token : row'[t] = Written(r, t)
    BY <1>3 DEF Revoke
  <2>2. \A t \in Token : row'[t].family = row[t].family
    BY <1>t, <2>1, WrittenFields
  <2>3. CASE \E t \in Token : row[t].family = f /\ (Revokes(r, t) \/ MarksReplayed(r, t))
    <3>1. PICK t \in Token : row[t].family = f /\ (Revokes(r, t) \/ MarksReplayed(r, t))
      BY <2>3
    <3>2. Revokes(r, t) => req[r].reason \in RevocationReason \ {"superseded"}
      BY <1>3 DEF Revoke, Revokes, Matches, RevocationReason
    <3>3. row'[t].revoked_reason \in RevocationReason \ {"superseded"}
      BY <1>t, <2>1, <3>1, <3>2, WrittenFields DEF RevocationReason
    <3> QED BY <2>2, <3>1, <3>3 DEF Ended
  <2>4. CASE \A t \in Token : row[t].family = f => ~Revokes(r, t) /\ ~MarksReplayed(r, t)
    <3>1. \A t \in Token : row[t].family = f => ~Consumes(r, t)
      <4>1. ASSUME NEW t \in Token, Consumes(r, t), row[t].family = f
            PROVE  Revokes(r, t)
        BY <1>t, <1>3, <4>1 DEF ReqOK, Revoke, Revokes, Matches, Consumes, MarksReplayed,
           NotLive, FamilyOf
      <4> QED BY <2>4, <4>1
    <3>2. \A t \in Token : row[t].family = f => row'[t] = row[t]
      BY <1>2, <2>1, <2>4, <3>1
    <3> QED BY <1>1, <2>2, <3>2
  <2> QED BY <2>3, <2>4
<1>4. ASSUME NEW r \in Request, Exchange(r), NEW f \in Family
      PROVE  OK(f)'
  <2>1. PICK n \in Token :
          /\ ~Minted(n)
          /\ row'[n] = NewRow(FamilyOf(r), row[req[r].token].family_expires_at,
                             req[r].at, req[r].token, req[r].reason = "superseded")
          /\ \A t \in Token \ {n} : row'[t] = Written(r, t)
    BY <1>4, ExchangeEffect DEF IInv
  <2>2. /\ row'[n].family = FamilyOf(r) /\ row'[n].state = "stored"
        /\ row'[n].used_at = Null /\ row'[n].revoked_at = Null
    BY <2>1 DEF NewRow
  <2>3. CASE FamilyOf(r) = f
    <3>1. Leaf(n, f)'
      BY <2>2, <2>3 DEF Leaf, Stored
    <3> QED BY <3>1
  <2>4. CASE FamilyOf(r) # f
    <3>1. ASSUME NEW t \in Token, row[t].family = f
          PROVE  row'[t] = row[t]
      <4>1. t # n
        BY <1>t, <2>1, <3>1, NullAssumption DEF RowOK
      <4>2. ~Consumes(r, t) /\ ~MarksReplayed(r, t)
        BY <2>4, <3>1 DEF Consumes, MarksReplayed, FamilyOf
      <4>3. ~Revokes(r, t)
        BY <1>4, <1>t, <2>4, <3>1 DEF Exchange, Revokes, Matches, ReqOK
      <4> QED BY <1>2, <2>1, <4>1, <4>2, <4>3
    <3>2. \A t \in Token : row'[t].family = f => row[t].family = f
      BY <1>t, <2>1, <2>2, <2>4, WrittenFields
    <3> QED BY <1>1, <3>1, <3>2
  <2> QED BY <2>3, <2>4
<1>5. ASSUME NEW r \in Request, IssueForLogin(r), NEW f \in Family
      PROVE  OK(f)'
  <2>1. PICK n \in Token :
          /\ ~Minted(n)
          /\ row'[n] = NewRow(req[r].family, req[r].at + FAMILY_TTL, req[r].at, NoToken, FALSE)
          /\ \A t \in Token \ {n} : row'[t] = row[t]
    BY <1>5, IssueForLoginEffect DEF IInv
  <2>2. /\ row'[n].family = req[r].family /\ row'[n].state = "stored"
        /\ row'[n].used_at = Null /\ row'[n].revoked_at = Null
    BY <2>1 DEF NewRow
  <2>3. CASE req[r].family = f
    <3>1. Leaf(n, f)'
      BY <2>2, <2>3 DEF Leaf, Stored
    <3> QED BY <3>1
  <2>4. CASE req[r].family # f
    <3>1. row[n].family # f
      BY <1>t, <2>1, NullAssumption DEF RowOK
    <3> QED BY <1>1, <2>1, <2>2, <2>4, <3>1
  <2> QED BY <2>3, <2>4
<1>6. ASSUME Prune, NEW f \in Family
      PROVE  OK(f)'
  <2>1. \A t \in Token : row'[t] = IF Prunable(t) THEN [row[t] EXCEPT !.state = "pruned"]
                                   ELSE row[t]
    BY <1>6 DEF Prune
  <2>2. \A t \in Token : row'[t].family = row[t].family
    BY <1>t, <2>1 DEF Row
  <2>3. CASE \E t \in Token : row[t].family = f /\ Prunable(t)
    BY <1>t, <2>1, <2>2, <2>3 DEF Row
  <2>4. CASE \A t \in Token : row[t].family = f => ~Prunable(t)
    BY <1>1, <2>1, <2>2, <2>4
  <2> QED BY <2>3, <2>4
<1>7. ASSUME row' = row, NEW f \in Family
      PROVE  OK(f)'
  BY <1>1, <1>7
<1>8. ASSUME NEW f \in Family
      PROVE  OK(f)'
  BY <1>3, <1>4, <1>5, <1>6, <1>7 DEF Next, Step, vars, Refresh, Logout, Login, Load, Consume,
     Reread, MarkReplayed, SelectRows, Abort, SetActive, Tick
<1> QED BY <1>8 DEF FamilyKeepsALeaf

(* Whatever overlaps, a device that was not logged out, deactivated or     *)
(* caught replaying has a token that the next refresh rotates.             *)
THEOREM SessionsSurvive == Spec => []FamilyKeepsALeaf
<1>1. Init => FamilyKeepsALeaf
  BY NullAssumption DEF Init, Blank, FamilyKeepsALeaf
<1>2. IInv /\ FamilyKeepsALeaf /\ [Next]_vars => FamilyKeepsALeaf'
  BY LeafStep
<1> QED BY Inductive, <1>1, <1>2, PTL DEF Spec

-----------------------------------------------------------------------------
(* When the exchanges do not overlap                                       *)
(*                                                                         *)
(* OneLiveTokenPerFamily and EndedFamilyStaysDead fail when two requests   *)
(* overlap (refresh_race reaches such states); with one slot the snapshot  *)
(* of a revoking UPDATE is still the table when it commits, and both hold. *)

OneSlot == \A q, r \in Request : q = r

Shortened(f) == \E t \in Token : row[t].family = f /\ row[t].revoked_reason = "superseded"

(* A family no request has ended, or one whose window may still be open.   *)
Alive(f) == ~Ended(f) \/ Shortened(f)

SerialReq(r) ==
  /\ req[r].pc = "update" => \A t \in Token : Matches(r, t) => t \in req[r].targets
  /\ req[r].pc \in {"select", "update"} /\ req[r].reason = "superseded" => Alive(FamilyOf(r))

DeadStaysRevoked ==
  \A f \in Family :
    Alive(f) \/ \A t \in Token : Stored(t) /\ row[t].family = f => row[t].revoked_at # Null

SerialInv ==
  /\ \A r \in Request : SerialReq(r)
  /\ DeadStaysRevoked
  /\ OneLiveTokenPerFamily

(* A token in its window is of a family that is alive.                     *)
LEMMA GraceIsAlive ==
  ASSUME IInv, SerialInv, NEW t \in Token, Stored(t), NEW at, Classify(row[t], at) = "grace"
  PROVE  Alive(row[t].family)
<1>1. row[t].family \in Family
  BY DEF IInv, TypeOK, Stored, Minted
<1>2. row[t].revoked_reason = "superseded" \/ row[t].revoked_at = Null
  BY DEF Classify
<1>3. CASE row[t].revoked_reason = "superseded"
  BY <1>3 DEF Alive, Shortened
<1>4. CASE row[t].revoked_at = Null
  BY <1>1, <1>4 DEF SerialInv, DeadStaysRevoked
<1> QED BY <1>2, <1>3, <1>4

(* A judged request knows its family is alive if it is to be exchanged.    *)
LEMMA JudgedIsSerial ==
  ASSUME IInv, NEW r \in Request, req[r].pc \in {"load", "consume", "reread"},
         NEW v, v \in {"expired", "family_expired", "revoked", "reuse", "fresh", "grace"},
         NEW a \in BOOLEAN, NEW c, v = "grace" => Alive(FamilyOf(r)),
         req'[r] = Judged(r, v, a, c), row' = row
  PROVE  SerialReq(r)'
<1>1. req[r] \in Req /\ req[r].reason = "none"
  BY DEF IInv, TypeOK, ReqOK
<1>2. CASE v \in {"expired", "family_expired", "revoked"}
  BY <1>2 DEF Judged, Idle, SerialReq
<1>3. CASE v = "reuse"
  BY <1>1, <1>3 DEF Judged, Req, SerialReq
<1>4. CASE v \in {"fresh", "grace"} /\ ~a
  BY <1>1, <1>4 DEF Judged, Req, SerialReq
<1>5. CASE v = "fresh" /\ a
  BY <1>1, <1>5 DEF Judged, Req, SerialReq
<1>6. CASE v = "grace" /\ a
  <2>1. req'[r] = [req[r] EXCEPT !.pc = "select", !.reason = "superseded"]
    BY <1>6 DEF Judged
  <2>2. req'[r].pc = "select" /\ req'[r].token = req[r].token
    BY <1>1, <2>1 DEF Req
  <2>3. Alive(FamilyOf(r))'
    BY <1>6, <2>2 DEF Alive, Ended, Shortened, FamilyOf
  <2> QED BY <2>2, <2>3 DEF SerialReq
<1> QED BY <1>2, <1>3, <1>4, <1>5, <1>6

LEMMA SerialOwnStep ==
  ASSUME IInv, SerialInv, NEW r \in Request, Step(r)
  PROVE  SerialReq(r)'
<1>t. /\ req \in [Request -> Req] /\ req[r] \in Req /\ ReqOK(r) /\ HasSubject(req[r])
      /\ \A t \in Token : Stored(t) => active[Owner[row[t].family]] \in BOOLEAN
  BY OwnerAssumption DEF IInv, TypeOK, Stored, Minted
<1>0. ASSUME req'[r] = Idle PROVE SerialReq(r)'
  BY <1>0 DEF SerialReq, Idle
<1>1. CASE \E t \in Token : Refresh(r, t) \/ Logout(r, t)
  BY <1>1, <1>t DEF Refresh, Logout, Idle, SerialReq
<1>2. CASE \E f \in Family : Login(r, f)
  BY <1>2, <1>t DEF Login, Idle, SerialReq
<1>3. CASE Load(r) \/ Reread(r)
  <2> DEFINE t == req[r].token
             v == Classify(row[t], req[r].at)
             a == active[Owner[row[t].family]]
  <2>1. req[r].pc \in {"load", "reread"} /\ row' = row /\ t \in Token
    BY <1>3, <1>t DEF Load, Reread, HasSubject
  <2>2. CASE ~Stored(t)
    BY <1>0, <1>3, <1>t, <2>2 DEF Load, Reread, Answer
  <2>3. CASE Stored(t) /\ req'[r] = Judged(r, v, a, FALSE)
    <3>1. v = "grace" => Alive(FamilyOf(r))
      BY <2>1, <2>3, GraceIsAlive DEF FamilyOf
    <3>2. a \in BOOLEAN
      BY <1>t, <2>1, <2>3
    <3> HIDE DEF a, v
    <3>3. v \in {"expired", "family_expired", "revoked", "reuse", "fresh", "grace"}
      BY ClassifyType DEF v
    <3> QED BY <2>1, <2>3, <3>1, <3>2, <3>3, JudgedIsSerial
  <2>4. CASE req'[r] = [req[r] EXCEPT !.pc = "consume", !.active = a]
    BY <1>t, <2>4 DEF Req, SerialReq
  <2> QED BY <1>3, <1>t, <2>2, <2>3, <2>4 DEF Load, Reread
<1>4. CASE Consume(r)
  <2>1. req[r].pc = "consume" /\ row' = row
    BY <1>4 DEF Consume
  <2>2. CASE req'[r] = Judged(r, "fresh", req[r].active, TRUE)
    <3>1. req[r].active \in BOOLEAN
      BY <1>t DEF Req
    <3> QED BY <2>1, <2>2, <3>1, JudgedIsSerial
  <2>3. CASE req'[r] = [req[r] EXCEPT !.pc = "reread"]
    BY <1>t, <2>3 DEF Req, SerialReq
  <2> QED BY <1>4, <1>t, <2>2, <2>3 DEF Consume
<1>5. CASE MarkReplayed(r)
  BY <1>5, <1>t DEF MarkReplayed, Req, SerialReq, ReqOK
<1>6. CASE SelectRows(r)
  <2>1. /\ req[r].pc = "select" /\ row' = row
        /\ req'[r] = [req[r] EXCEPT !.pc = "update", !.targets = {t \in Token : Matches(r, t)}]
    BY <1>6, <1>t DEF SelectRows
  <2>2. /\ req'[r].token = req[r].token /\ req'[r].reason = req[r].reason
        /\ req'[r].replayed = req[r].replayed /\ req'[r].pc = "update"
        /\ req'[r].targets = {t \in Token : Matches(r, t)}
    BY <1>t, <2>1 DEF Req
  <2>3. \A t \in Token : Matches(r, t)' => Matches(r, t)
    BY <2>1, <2>2 DEF Matches, Stored, MarksReplayed, FamilyOf
  <2>4. Alive(FamilyOf(r)) => Alive(FamilyOf(r))'
    BY <2>1, <2>2 DEF Alive, Ended, Shortened, FamilyOf
  <2> QED BY <2>1, <2>2, <2>3, <2>4 DEF SerialInv, SerialReq
<1>7. CASE Revoke(r) \/ Exchange(r) \/ IssueForLogin(r) \/ Abort(r)
  BY <1>0, <1>7, <1>t DEF Revoke, Exchange, IssueForLogin, Abort, Answer
<1> QED BY <1>1, <1>2, <1>3, <1>4, <1>5, <1>6, <1>7 DEF Step

(* What a pruning does to the table.                                       *)
LEMMA PruneEffect ==
  ASSUME IInv, Prune
  PROVE  /\ req' = req
         /\ \A t \in Token : /\ Stored(t)' => Stored(t)
                             /\ row'[t].family = row[t].family
                             /\ row'[t].used_at = row[t].used_at
                             /\ row'[t].revoked_at = row[t].revoked_at
                             /\ row'[t].revoked_reason = row[t].revoked_reason
<1>1. \A t \in Token : row[t] \in Row
  BY DEF IInv, TypeOK
<1>2. \A t \in Token : row'[t] = IF Prunable(t) THEN [row[t] EXCEPT !.state = "pruned"] ELSE row[t]
  BY DEF Prune
<1> QED BY <1>1, <1>2 DEF Prune, Row, Stored

LEMMA SerialReqs ==
  ASSUME OneSlot, IInv, SerialInv, [Next]_vars
  PROVE  \A r \in Request : SerialReq(r)'
<1>1. ASSUME NEW s \in Request, Step(s), NEW r \in Request PROVE SerialReq(r)'
  BY <1>1, SerialOwnStep DEF OneSlot
<1>2. ASSUME Prune, NEW r \in Request PROVE SerialReq(r)'
  <2>1. /\ req' = req
        /\ \A t \in Token : /\ Stored(t)' => Stored(t)
                            /\ row'[t].family = row[t].family
                            /\ row'[t].used_at = row[t].used_at
                            /\ row'[t].revoked_at = row[t].revoked_at
                            /\ row'[t].revoked_reason = row[t].revoked_reason
    BY <1>2, PruneEffect
  <2>2. req[r].pc \in {"select", "update"} => req[r].token \in Token
    BY DEF IInv, TypeOK, HasSubject
  <2>3. ASSUME NEW t \in Token, req[r].token \in Token, Matches(r, t)' PROVE Matches(r, t)
    <3>1. FamilyOf(r)' = FamilyOf(r)
      BY <2>1, <2>3 DEF FamilyOf
    <3> QED BY <2>1, <2>3, <3>1 DEF Matches, MarksReplayed
  <2>4. req[r].token \in Token /\ Alive(FamilyOf(r)) => Alive(FamilyOf(r))'
    BY <2>1 DEF Alive, Ended, Shortened, FamilyOf
  <2> QED BY <2>1, <2>2, <2>3, <2>4 DEF SerialInv, SerialReq
<1>3. ASSUME UNCHANGED <<row, req>>, NEW r \in Request PROVE SerialReq(r)'
  BY <1>3 DEF SerialInv, SerialReq, Matches, Stored, MarksReplayed, FamilyOf, Alive, Ended, Shortened
<1> QED BY <1>1, <1>2, <1>3 DEF Next, vars, SetActive, Tick

(* Only a row a commit has not touched is a leaf after it.                 *)
LEMMA WrittenLeaf ==
  ASSUME IInv, NEW r \in Request, NEW t \in Token, row'[t] = Written(r, t), NEW f
  PROVE  /\ Leaf(t, f)' => /\ Leaf(t, f)
                           /\ ~Consumes(r, t) /\ ~MarksReplayed(r, t) /\ ~Revokes(r, t)
         /\ row'[t].family = row[t].family
         /\ Stored(t)' <=> Stored(t)
         /\ row[t].revoked_at # Null \/ Revokes(r, t) \/ MarksReplayed(r, t)
               => row'[t].revoked_at # Null
<1>1. row[t] \in Row /\ req[r].at # Null
  BY DEF IInv, TypeOK, Req, Instant, Null
<1> QED BY <1>1, WrittenFields DEF Leaf, Stored

LEMMA RevokeIsSerial ==
  ASSUME IInv, SerialInv, NEW r \in Request, Revoke(r)
  PROVE  OneLiveTokenPerFamily' /\ DeadStaysRevoked'
<1>t. /\ req[r] \in Req /\ ReqOK(r)
      /\ \A t \in Token : row[t] \in Row /\ row'[t] = Written(r, t)
  BY DEF IInv, TypeOK, Revoke
<1>1. OneLiveTokenPerFamily'
  <2>1. \A f \in Family, t \in Token : Leaf(t, f)' => Leaf(t, f)
    BY <1>t, WrittenLeaf
  <2> QED BY <2>1 DEF SerialInv, OneLiveTokenPerFamily
<1>2. ASSUME NEW f \in Family
      PROVE  Alive(f)' \/ \A t \in Token : Stored(t)' /\ row'[t].family = f => row'[t].revoked_at # Null
  <2> DEFINE Hits(t) == Revokes(r, t) \/ MarksReplayed(r, t)
  <2>1. CASE \E t \in Token : row[t].family = f /\ Hits(t)
    <3>1. PICK one \in Token : row[one].family = f /\ Hits(one)
      BY <2>1
    <3>2. req[r].reason # "superseded"
      BY DEF Revoke
    <3>3. CASE req[r].reason \in {"logout", "inactive"}
      <4>1. FamilyOf(r) = f
        BY <1>t, <3>1, <3>3 DEF Revokes, Matches, MarksReplayed, ReqOK
      <4>2. ASSUME NEW t \in Token, Stored(t), row[t].family = f, row[t].revoked_at = Null,
                   ~MarksReplayed(r, t)
            PROVE  Revokes(r, t)
        <5>1. Matches(r, t)
          BY <3>3, <4>1, <4>2 DEF Matches
        <5> QED BY <5>1 DEF Revokes, SerialInv, SerialReq, Revoke
      <4> QED BY <1>t, <4>2, WrittenLeaf
    <3>4. CASE req[r].reason = "family_revoked"
      <4>1. Owner[FamilyOf(r)] = Owner[f]
        BY <3>1, <3>4 DEF Revokes, Matches, MarksReplayed, FamilyOf
      <4>2. ASSUME NEW t \in Token, Stored(t), row[t].family = f, row[t].revoked_at = Null,
                   ~MarksReplayed(r, t)
            PROVE  Revokes(r, t)
        <5>1. Matches(r, t)
          BY <3>4, <4>1, <4>2 DEF Matches
        <5> QED BY <5>1 DEF Revokes, SerialInv, SerialReq, Revoke
      <4> QED BY <1>t, <4>2, WrittenLeaf
    <3>5. req[r].reason \in {"logout", "inactive", "family_revoked"}
      BY <1>t, <3>1, <3>2 DEF Revokes, Matches, MarksReplayed, ReqOK
    <3> QED BY <3>3, <3>4, <3>5
  <2>2. CASE \A t \in Token : row[t].family = f => ~Hits(t)
    <3>1. \A t \in Token : /\ row'[t].family = row[t].family
                           /\ row[t].family = f => row'[t].revoked_reason = row[t].revoked_reason
      BY <1>t, <2>2, WrittenFields
    <3>2. Alive(f) => Alive(f)'
      BY <3>1 DEF Alive, Ended, Shortened
    <3>3. \A t \in Token : /\ Stored(t)' <=> Stored(t)
                           /\ row[t].revoked_at # Null => row'[t].revoked_at # Null
      BY <1>t, WrittenLeaf
    <3> QED BY <3>1, <3>2, <3>3 DEF SerialInv, DeadStaysRevoked
  <2> QED BY <2>1, <2>2
<1> QED BY <1>1, <1>2 DEF DeadStaysRevoked

LEMMA ExchangeIsSerial ==
  ASSUME IInv, SerialInv, [Next]_vars, NEW r \in Request, Exchange(r)
  PROVE  OneLiveTokenPerFamily' /\ DeadStaysRevoked'
<1> DEFINE p == req[r].token
<1>t. /\ req[r] \in Req /\ ReqOK(r) /\ p \in Token /\ FamilyOf(r) \in Family
      /\ \A t \in Token : row[t] \in Row /\ RowOK(t)
                          /\ ((row[t].revoked_at = Null) <=> (row[t].revoked_reason = "none"))
  BY DEF IInv, TypeOK, Exchange, HasSubject, FamilyOf
<1>h. PICK home \in Family : home = FamilyOf(r)
  BY <1>t
<1>1. PICK n \in Token :
        /\ ~Minted(n)
        /\ row'[n] = NewRow(home, row[p].family_expires_at, req[r].at, p,
                            req[r].reason = "superseded")
        /\ \A t \in Token \ {n} : row'[t] = Written(r, t)
  BY <1>h, ExchangeEffect DEF IInv
<1>2. row'[n].family = home /\ row'[n].revoked_reason = "none" /\ row[n].family = NoFamily
  BY <1>1, <1>t DEF NewRow, RowOK
<1>3. \/ req[r].pc = "issue" /\ req[r].reason = "none" /\ req[r].consumed /\ ~req[r].replayed
         /\ ~NotLive(p)
      \/ req[r].pc = "update" /\ req[r].reason = "superseded" /\ ~req[r].replayed /\ ~req[r].consumed
         /\ InWindow(p, req[r].at)
  BY <1>t DEF Exchange, ReqOK
<1>4. /\ \A t \in Token : ~MarksReplayed(r, t)
      /\ \A t \in Token : Revokes(r, t) => req[r].reason = "superseded" /\ row[t].family = home
  BY <1>h, <1>3 DEF MarksReplayed, Revokes, Matches
<1>5. OneLiveTokenPerFamily'
  <2>1. ASSUME NEW t \in Token \ {n}, Leaf(t, home)' PROVE FALSE
    <3>1. Leaf(t, home) /\ ~Consumes(r, t) /\ ~Revokes(r, t)
      BY <1>1, <2>1, WrittenLeaf
    <3>2. CASE req[r].pc = "issue" /\ req[r].consumed /\ ~NotLive(p)
      <4>1. Leaf(p, home)
        BY <1>h, <3>2 DEF NotLive, Leaf, FamilyOf
      <4>2. t = p
        BY <1>t, <3>1, <4>1 DEF SerialInv, OneLiveTokenPerFamily
      <4> QED BY <3>1, <3>2, <4>2 DEF Consumes
    <3>3. CASE req[r].pc = "update" /\ req[r].reason = "superseded" /\ InWindow(p, req[r].at)
      <4>1. t # p
        BY <3>1, <3>3 DEF InWindow, WindowStart, Leaf
      <4>2. Matches(r, t)
        BY <1>h, <1>4, <3>1, <3>3, <4>1 DEF Matches, Leaf
      <4> QED BY <3>1, <3>3, <4>2 DEF Revokes, SerialInv, SerialReq
    <3> QED BY <1>3, <3>2, <3>3
  <2>2. ASSUME NEW f \in Family, f # home, NEW t \in Token, Leaf(t, f)' PROVE Leaf(t, f)
    <3>1. t # n
      BY <1>2, <2>2 DEF Leaf
    <3> QED BY <1>1, <2>2, <3>1, WrittenLeaf
  <2>3. ASSUME NEW f \in Family, NEW s \in Token, NEW t \in Token, Leaf(s, f)', Leaf(t, f)'
        PROVE  s = t
    <3>1. CASE f = home
      BY <2>1, <2>3, <3>1
    <3>2. CASE f # home
      BY <2>2, <2>3, <3>2 DEF SerialInv, OneLiveTokenPerFamily
    <3> QED BY <3>1, <3>2
  <2> QED BY <2>3 DEF OneLiveTokenPerFamily
<1>6. Alive(home)'
  <2>1. Alive(home)
    <3>1. CASE req[r].pc = "issue" /\ ~NotLive(p)
      BY <1>h, <1>t, <3>1 DEF NotLive, SerialInv, DeadStaysRevoked, FamilyOf
    <3>2. CASE req[r].pc = "update" /\ req[r].reason = "superseded"
      BY <1>h, <3>2 DEF SerialInv, SerialReq
    <3> QED BY <1>3, <3>1, <3>2
  <2>2. CASE Shortened(home)
    <3>1. PICK t \in Token : row[t].family = home /\ row[t].revoked_reason = "superseded"
      BY <2>2 DEF Shortened
    <3>2. t # n /\ row[t].revoked_at # Null
      BY <1>2, <1>t, <3>1, NullAssumption
    <3>3. row'[t].revoked_reason = "superseded" /\ row'[t].family = home
      BY <1>1, <3>1, <3>2, NextAdvances, WrittenLeaf DEF RowsAdvance
    <3> QED BY <3>3 DEF Alive, Shortened
  <2>3. CASE ~Ended(home)
    <3>1. ASSUME NEW t \in Token, row'[t].family = home
          PROVE  row'[t].revoked_reason \notin RevocationReason \ {"superseded"}
      <4>1. CASE t = n
        BY <1>2, <4>1 DEF RevocationReason
      <4>2. CASE t # n
        <5>1. /\ row'[t].family = row[t].family
              /\ row'[t].revoked_reason = IF Revokes(r, t) THEN req[r].reason ELSE row[t].revoked_reason
          BY <1>1, <1>4, <1>t, <4>2, WrittenFields
        <5> QED BY <1>4, <2>3, <3>1, <5>1 DEF Ended
      <4> QED BY <4>1, <4>2
    <3> QED BY <3>1 DEF Alive, Ended
  <2> QED BY <2>1, <2>2, <2>3 DEF Alive
<1>7. ASSUME NEW f \in Family, f # home
      PROVE  Alive(f)' \/ \A t \in Token : Stored(t)' /\ row'[t].family = f => row'[t].revoked_at # Null
  <2>1. ASSUME NEW t \in Token \ {n}
        PROVE  /\ row'[t].family = row[t].family
               /\ row[t].family = f => row'[t].revoked_reason = row[t].revoked_reason
               /\ Stored(t)' <=> Stored(t)
               /\ row[t].revoked_at # Null => row'[t].revoked_at # Null
    <3>1. row[t].family = f => ~Revokes(r, t) /\ ~MarksReplayed(r, t)
      BY <1>4, <1>7
    <3> QED BY <1>1, <1>t, <3>1, WrittenFields, WrittenLeaf
  <2>2. row[n].family # f /\ row'[n].family # f
    BY <1>2, <1>7, NullAssumption
  <2>3. Alive(f) => Alive(f)'
    BY <2>1, <2>2 DEF Alive, Ended, Shortened
  <2> QED BY <2>1, <2>2, <2>3 DEF SerialInv, DeadStaysRevoked
<1> QED BY <1>5, <1>6, <1>7 DEF DeadStaysRevoked

LEMMA LoginIsSerial ==
  ASSUME IInv, SerialInv, LoginsMintNewFamilies, NEW r \in Request, IssueForLogin(r)
  PROVE  OneLiveTokenPerFamily' /\ DeadStaysRevoked'
<1>h. PICK home : home = req[r].family
  OBVIOUS
<1>1. PICK n \in Token :
        /\ ~Minted(n)
        /\ row'[n] = NewRow(home, req[r].at + FAMILY_TTL, req[r].at, NoToken, FALSE)
        /\ \A t \in Token \ {n} : row'[t] = row[t]
  BY <1>h, IssueForLoginEffect DEF IInv
<1>2. /\ row'[n].family = home /\ row'[n].revoked_reason = "none" /\ row[n].family = NoFamily
      /\ \A t \in Token : row[t].family # home
  BY <1>h, <1>1 DEF NewRow, IInv, RowOK, LoginsMintNewFamilies, IssueForLogin
<1>3. ASSUME NEW f \in Family, f # home
      PROVE  \A t \in Token : /\ (row[t].family = f \/ row'[t].family = f) => row'[t] = row[t]
                              /\ Leaf(t, f)' => Leaf(t, f)
  BY <1>1, <1>2, <1>3, NullAssumption DEF Leaf, Stored
<1>4. \A t \in Token \ {n} : row'[t].family # home
  BY <1>1, <1>2
<1>5. OneLiveTokenPerFamily'
  <2> SUFFICES ASSUME NEW f \in Family, NEW s \in Token, NEW t \in Token, Leaf(s, f)', Leaf(t, f)'
               PROVE  s = t
    BY DEF OneLiveTokenPerFamily
  <2>1. CASE f = home
    BY <1>4, <2>1 DEF Leaf
  <2>2. CASE f # home
    BY <1>3, <2>2 DEF SerialInv, OneLiveTokenPerFamily
  <2> QED BY <2>1, <2>2
<1>6. ~Ended(home)'
  BY <1>2, <1>4 DEF Ended, RevocationReason
<1>7. ASSUME NEW f \in Family, f # home
      PROVE  Alive(f)' \/ \A t \in Token : Stored(t)' /\ row'[t].family = f => row'[t].revoked_at # Null
  <2>1. Alive(f) => Alive(f)'
    BY <1>3, <1>7 DEF Alive, Ended, Shortened
  <2> QED BY <1>3, <1>7, <2>1 DEF SerialInv, DeadStaysRevoked, Stored
<1> QED BY <1>5, <1>6, <1>7 DEF DeadStaysRevoked, Alive

LEMMA SerialStep ==
  ASSUME OneSlot, IInv, SerialInv, LoginsMintNewFamilies, [Next]_vars
  PROVE  SerialInv'
<1>1. \A r \in Request : SerialReq(r)'
  BY SerialReqs
<1>2. CASE Prune
  <2>1. \A t \in Token : /\ Stored(t)' => Stored(t)
                         /\ row'[t].family = row[t].family
                         /\ row'[t].used_at = row[t].used_at
                         /\ row'[t].revoked_at = row[t].revoked_at
                         /\ row'[t].revoked_reason = row[t].revoked_reason
    BY <1>2, PruneEffect
  <2>2. \A f \in Family : Alive(f) => Alive(f)'
    BY <2>1 DEF Alive, Ended, Shortened
  <2>3. DeadStaysRevoked'
    BY <2>1, <2>2 DEF SerialInv, DeadStaysRevoked
  <2>4. OneLiveTokenPerFamily'
    BY <2>1 DEF SerialInv, OneLiveTokenPerFamily, Leaf
  <2> QED BY <1>1, <2>3, <2>4 DEF SerialInv
<1>3. CASE row' = row
  BY <1>1, <1>3 DEF SerialInv, DeadStaysRevoked, OneLiveTokenPerFamily, Leaf, Stored,
     Alive, Ended, Shortened
<1>4. \/ \E r \in Request : Revoke(r) \/ Exchange(r) \/ IssueForLogin(r)
      \/ Prune
      \/ row' = row
  BY DEF Next, Step, vars, Refresh, Logout, Login, Load, Consume, Reread, MarkReplayed,
     SelectRows, Abort, SetActive, Tick
<1> QED BY <1>1, <1>2, <1>3, <1>4, RevokeIsSerial, ExchangeIsSerial, LoginIsSerial DEF SerialInv

LEMMA CeilingInvariant == Spec => []CeilingInv
<1>1. Init => CeilingInv
  BY DEF Init, Blank, Idle, CeilingInv, LoginsMintNewFamilies, OneCeilingPerFamily, Minted
<1>2. IInv /\ CeilingInv /\ [Next]_vars => CeilingInv'
  BY CeilingStep
<1> QED BY Inductive, <1>1, <1>2, PTL DEF Spec

LEMMA SerialInvariant == ASSUME OneSlot PROVE Spec => []SerialInv
<1>1. Init => SerialInv
  BY DEF Init, Blank, Idle, SerialInv, SerialReq, DeadStaysRevoked, OneLiveTokenPerFamily,
     Leaf, Stored
<1>2. IInv /\ CeilingInv /\ SerialInv /\ [Next]_vars => SerialInv'
  BY SerialStep DEF CeilingInv
<1> QED BY Inductive, CeilingInvariant, <1>1, <1>2, PTL DEF Spec

(* "Exactly one token per family is live at any moment" (refresh.py:5-7):  *)
(* so it is when the exchanges do not overlap.                             *)
THEOREM OneLiveTokenSerially == ASSUME OneSlot PROVE Spec => []OneLiveTokenPerFamily
<1>1. SerialInv => OneLiveTokenPerFamily
  BY DEF SerialInv
<1> QED BY SerialInvariant, <1>1, PTL

(* What a cascade, a logout or a deactivation ended stays ended when the   *)
(* exchanges do not overlap, but for a token superseded shortly before.    *)
THEOREM EndedStaysDeadSerially == ASSUME OneSlot PROVE Spec => []EndedFamilyStaysDead
<1>1. SerialInv => EndedFamilyStaysDead
  BY DEF SerialInv, DeadStaysRevoked, EndedFamilyStaysDead, Alive, Shortened, Leaf
<1> QED BY SerialInvariant, <1>1, PTL
-----------------------------------------------------------------------------
(* The table implements the ledger                                         *)
(*                                                                         *)
(* KnowsOK(r): what a request still knows, when it comes to commit, of the *)
(* token it was presented with: the verdict it acts on is one the ledger   *)
(* would give of the row as it is by then.                                 *)

LEMMA NextIInv == ASSUME IInv, [Next]_vars PROVE IInv'
  BY NextType, RequestsKeepOK, RowsKeepOK DEF IInv

SpentAt(t) == IF row[t].revoked_reason = "superseded" THEN row[t].revoked_at ELSE row[t].used_at

SpentWithin(t, at) == SpentAt(t) # Null /\ at - SpentAt(t) <= GRACE_PERIOD

SpentBefore(t, at) ==
  /\ SpentAt(t) # Null
  /\ at - SpentAt(t) > GRACE_PERIOD \/ row[t].revoked_reason = "reuse"

Closed(t) == ~Stored(t) \/ row[t].revoked_at # Null

Revoking(r, reason) == req[r].pc \in {"select", "update"} /\ req[r].reason = reason

(* The request has been told it may come to commit: it acts on a verdict.  *)
Acting(r) ==
  /\ req[r].pc \in {"consume", "reread", "replay", "issue", "select", "update"}
  /\ req[r].reason # "logout"

Retrying(r) == Revoking(r, "superseded") \/ (Revoking(r, "inactive") /\ ~req[r].consumed)
Alarming(r) == req[r].pc = "replay" \/ Revoking(r, "family_revoked")

KnowsOK(r) ==
  /\ req[r].at <= now
  /\ req[r].pc \in {"select", "update"} =>
        req[r].reason \in {"superseded", "inactive", "family_revoked", "logout"}
  /\ Acting(r) => req[r].at < row[req[r].token].expires_at
  /\ Retrying(r) => SpentWithin(req[r].token, req[r].at)
  /\ Alarming(r) => SpentBefore(req[r].token, req[r].at)
  /\ Revoking(r, "family_revoked") /\ ~req[r].replayed => Closed(req[r].token)

Knows == \A r \in Request : KnowsOK(r)

(* When a token was spent is as final as the columns that say so.          *)
LEMMA SpentIsFinal ==
  ASSUME IInv, [Next]_vars, NEW t \in Token, SpentAt(t) # Null
  PROVE  /\ SpentAt(t)' = SpentAt(t)
         /\ row[t].revoked_reason = "reuse" => row'[t].revoked_reason = "reuse"
<1>1. IInv' /\ RowsAdvance
  BY NextIInv, NextAdvances
<1>2. /\ (row[t].revoked_at = Null) <=> (row[t].revoked_reason = "none")
      /\ RowOK(t) /\ RowOK(t)'
  BY <1>1 DEF IInv, TypeOK
<1>3. CASE row[t].revoked_reason = "superseded"
  BY <1>1, <1>2, <1>3 DEF SpentAt, RowsAdvance
<1>4. CASE row[t].revoked_reason # "superseded"
  <2>1. row[t].used_at # Null /\ row'[t].used_at = row[t].used_at
    BY <1>1, <1>4 DEF SpentAt, RowsAdvance
  <2>2. row'[t].revoked_reason # "superseded"
    BY <1>2, <2>1 DEF RowOK
  <2> QED BY <1>1, <1>2, <1>4, <2>1, <2>2 DEF SpentAt, RowsAdvance
<1> QED BY <1>3, <1>4

LEMMA ClockGoesOn ==
  ASSUME IInv, [Next]_vars
  PROVE  now \in Nat /\ now' \in Nat /\ now <= now'
<1>1. now \in Nat
  BY DEF IInv, TypeOK, Instant
<1>2. now' = now \/ now' = now + 1
  BY DEF Next, Step, vars, Refresh, Logout, Login, Load, Consume, Reread, MarkReplayed,
     SelectRows, Revoke, Exchange, IssueForLogin, Abort, SetActive, Prune, Tick
<1> QED BY <1>1, <1>2

(* What a request knows outlives the steps of others.                      *)
LEMMA OthersKeepKnowledge ==
  ASSUME IInv, [Next]_vars, NEW s \in Request, req'[s] = req[s], KnowsOK(s)
  PROVE  KnowsOK(s)'
<1> DEFINE p == req[s].token
<1>1. RowsAdvance /\ now \in Nat /\ now' \in Nat /\ now <= now' /\ req[s].at \in Nat
  BY NextAdvances, ClockGoesOn DEF IInv, TypeOK, Req, Instant
<1>2. req[s].at <= now'
  BY <1>1 DEF KnowsOK
<1>3. Acting(s) \/ Retrying(s) \/ Alarming(s) => p \in Token /\ Minted(p)
  BY DEF IInv, TypeOK, HasSubject, Acting, Retrying, Alarming, Revoking
<1>4. /\ Acting(s)' <=> Acting(s)
      /\ Retrying(s)' <=> Retrying(s)
      /\ Alarming(s)' <=> Alarming(s)
      /\ Revoking(s, "family_revoked")' <=> Revoking(s, "family_revoked")
  BY DEF Acting, Retrying, Alarming, Revoking
<1>5. Acting(s) => req[s].at < row'[p].expires_at
  BY <1>1, <1>3 DEF KnowsOK, RowsAdvance
<1>6. Retrying(s) => SpentWithin(p, req[s].at)'
  <2> SUFFICES ASSUME Retrying(s) PROVE SpentWithin(p, req[s].at)'
    OBVIOUS
  <2>1. SpentWithin(p, req[s].at) /\ p \in Token
    BY <1>3 DEF KnowsOK
  <2>2. SpentAt(p)' = SpentAt(p)
    BY <2>1, SpentIsFinal DEF SpentWithin
  <2> QED BY <2>1, <2>2 DEF SpentWithin
<1>7. Alarming(s) => SpentBefore(p, req[s].at)'
  <2> SUFFICES ASSUME Alarming(s) PROVE SpentBefore(p, req[s].at)'
    OBVIOUS
  <2>1. SpentBefore(p, req[s].at) /\ p \in Token
    BY <1>3 DEF KnowsOK
  <2>2. /\ SpentAt(p)' = SpentAt(p)
        /\ row[p].revoked_reason = "reuse" => row'[p].revoked_reason = "reuse"
    BY <2>1, SpentIsFinal DEF SpentBefore
  <2> QED BY <2>1, <2>2 DEF SpentBefore
<1>8. p \in Token /\ Minted(p) /\ Closed(p) => Closed(p)'
  BY <1>1 DEF RowsAdvance, Closed
<1>9. Revoking(s, "family_revoked") /\ ~req[s].replayed => Closed(p)'
  BY <1>3, <1>8 DEF KnowsOK, Alarming
<1> QED BY <1>2, <1>4, <1>5, <1>6, <1>7, <1>9 DEF KnowsOK

(* What a verdict says of the row, in the ledger's words.                  *)
LEMMA VerdictKnows ==
  ASSUME IInv, NEW t \in Token, NEW at \in Instant
  PROVE  LET v == Classify(row[t], at) IN
         /\ v \in {"reuse", "grace", "fresh"} => at < row[t].expires_at
         /\ v = "reuse" => SpentBefore(t, at)
         /\ v = "grace" => SpentWithin(t, at) /\ row[t].revoked_reason \in {"none", "superseded"}
         /\ v = "reuse" => row[t].revoked_reason \notin {"logout", "inactive", "family_revoked"}
<1>1. /\ row[t] \in Row /\ RowOK(t)
      /\ (row[t].revoked_at = Null) <=> (row[t].revoked_reason = "none")
  BY DEF IInv, TypeOK
<1>2. /\ GRACE_PERIOD \in Nat /\ at \in Nat
      /\ row[t].used_at \in Int /\ row[t].revoked_at \in Int
      /\ row[t].expires_at \in Nat
  BY <1>1, PeriodAssumption DEF Row, Instant, Null
<1>3. Classify(row[t], at) \in {"reuse", "grace", "fresh"} => at < row[t].expires_at
  BY <1>2 DEF Classify
<1>4. CASE row[t].revoked_reason = "superseded"
  BY <1>1, <1>2, <1>3, <1>4 DEF Classify, SpentBefore, SpentWithin, SpentAt
<1>5. CASE row[t].revoked_reason # "superseded" /\ row[t].revoked_at # Null
  <2>1. Classify(row[t], at) # "grace"
    BY <1>5 DEF Classify
  <2>2. Classify(row[t], at) = "reuse" => row[t].revoked_reason = "reuse"
    BY <1>5 DEF Classify
  <2>3. row[t].revoked_reason = "reuse" => row[t].used_at # Null
    BY <1>1 DEF RowOK
  <2> QED BY <1>3, <1>5, <2>1, <2>2, <2>3 DEF SpentBefore, SpentAt
<1>6. CASE row[t].revoked_at = Null
  <2>1. row[t].revoked_reason = "none"
    BY <1>1, <1>6
  <2> QED BY <1>2, <1>3, <1>6, <2>1 DEF Classify, SpentBefore, SpentWithin, SpentAt
<1> QED BY <1>4, <1>5, <1>6

LEMMA IdleKnows ==
  ASSUME IInv, [Next]_vars, NEW r \in Request, req'[r] = Idle
  PROVE  KnowsOK(r)'
  BY ClockGoesOn DEF KnowsOK, Idle, Acting, Retrying, Alarming, Revoking

LEMMA JudgedKnows ==
  ASSUME IInv, [Next]_vars, NEW r \in Request, req[r].pc \in {"load", "consume", "reread"},
         KnowsOK(r), NEW v, NEW a \in BOOLEAN, NEW c \in BOOLEAN,
         v \in {"expired", "family_expired", "revoked", "reuse", "fresh", "grace"},
         v \in {"reuse", "grace", "fresh"} => req[r].at < row[req[r].token].expires_at,
         v = "reuse" => SpentBefore(req[r].token, req[r].at),
         v = "grace" => SpentWithin(req[r].token, req[r].at),
         v = "fresh" => c,
         req'[r] = Judged(r, v, a, c), row' = row
  PROVE  KnowsOK(r)'
<1> DEFINE p == req[r].token
<1>t. /\ req[r] \in Req /\ req[r].reason = "none" /\ ~req[r].replayed
      /\ now <= now' /\ now \in Nat /\ now' \in Nat /\ req[r].at \in Nat
  BY ClockGoesOn DEF IInv, TypeOK, ReqOK, Req, Instant
<1>n. req[r].at <= now'
  BY <1>t DEF KnowsOK
<1>1. CASE v \in {"expired", "family_expired", "revoked"}
  BY <1>1, IdleKnows DEF Judged
<1>2. CASE v = "reuse"
  <2>1. /\ req'[r].pc = "replay" /\ req'[r].reason = "family_revoked" /\ req'[r].token = p
        /\ req'[r].at = req[r].at
    BY <1>t, <1>2 DEF Judged, Req
  <2>2. SpentBefore(req[r].token, req[r].at)'
    BY <1>2, <2>1 DEF SpentBefore, SpentAt
  <2> QED BY <1>n, <1>2, <2>1, <2>2 DEF KnowsOK, Acting, Retrying, Alarming, Revoking
<1>3. CASE v = "fresh" /\ a
  <2>1. /\ req'[r].pc = "issue" /\ req'[r].reason = "none" /\ req'[r].token = p
        /\ req'[r].at = req[r].at
    BY <1>t, <1>3 DEF Judged, Req
  <2> QED BY <1>n, <1>3, <2>1 DEF KnowsOK, Acting, Retrying, Alarming, Revoking
<1>4. CASE v = "fresh" /\ ~a
  <2>1. /\ req'[r].pc = "select" /\ req'[r].reason = "inactive" /\ req'[r].token = p
        /\ req'[r].at = req[r].at /\ req'[r].consumed = c
    BY <1>t, <1>4 DEF Judged, Req
  <2> QED BY <1>n, <1>4, <2>1 DEF KnowsOK, Acting, Retrying, Alarming, Revoking
<1>5. CASE v = "grace"
  <2>1. /\ req'[r].pc = "select" /\ req'[r].reason \in {"inactive", "superseded"}
        /\ req'[r].token = p /\ req'[r].at = req[r].at
    BY <1>t, <1>5 DEF Judged, Req
  <2>2. SpentWithin(req[r].token, req[r].at)'
    BY <1>5, <2>1 DEF SpentWithin, SpentAt
  <2> QED BY <1>n, <1>5, <2>1, <2>2 DEF KnowsOK, Acting, Retrying, Alarming, Revoking
<1> QED BY <1>1, <1>2, <1>3, <1>4, <1>5

LEMMA OwnStepKnows ==
  ASSUME IInv, [Next]_vars, NEW r \in Request, Step(r), KnowsOK(r)
  PROVE  KnowsOK(r)'
<1> DEFINE p == req[r].token
           v == Classify(row[p], req[r].at)
           a == active[Owner[row[p].family]]
<1>t. /\ req \in [Request -> Req] /\ req[r] \in Req /\ ReqOK(r) /\ HasSubject(req[r])
      /\ now <= now' /\ now \in Nat /\ now' \in Nat /\ req[r].at \in Instant
      /\ \A t \in Token : Stored(t) => active[Owner[row[t].family]] \in BOOLEAN
  BY ClockGoesOn, OwnerAssumption DEF IInv, TypeOK, Stored, Minted, Req
<1>n. req[r].at <= now'
  BY <1>t DEF KnowsOK, Instant
<1>v. p \in Token => /\ v \in {"reuse", "grace", "fresh"} => req[r].at < row[p].expires_at
                     /\ v = "reuse" => SpentBefore(p, req[r].at)
                     /\ v = "grace" => SpentWithin(p, req[r].at)
                     /\ v = "fresh" => row[p].used_at = Null /\ row[p].revoked_at = Null
  BY <1>t, VerdictKnows, VerdictMeans
<1>1. CASE \E t \in Token : Refresh(r, t)
  BY <1>1, <1>t DEF Refresh, Idle, KnowsOK, Acting, Retrying, Alarming, Revoking
<1>2. CASE \E t \in Token : Logout(r, t)
  BY <1>2, <1>t DEF Logout, Idle, KnowsOK, Acting, Retrying, Alarming, Revoking
<1>3. CASE \E f \in Family : Login(r, f)
  BY <1>3, <1>t DEF Login, Idle, KnowsOK, Acting, Retrying, Alarming, Revoking
<1>4. CASE Load(r) \/ Reread(r)
  <2>1. req[r].pc \in {"load", "reread"} /\ row' = row /\ p \in Token
    BY <1>4, <1>t DEF Load, Reread, HasSubject
  <2>2. CASE ~Stored(p)
    BY <1>4, <1>t, <2>2, IdleKnows DEF Load, Reread, Answer
  <2>3. CASE Stored(p) /\ v # "fresh" /\ req'[r] = Judged(r, v, a, FALSE)
    <3>1. a \in BOOLEAN
      BY <1>t, <2>1, <2>3
    <3>2. v \in {"expired", "family_expired", "revoked", "reuse", "fresh", "grace"}
      BY ClassifyType
    <3> HIDE DEF a, v
    <3> QED BY <1>v, <2>1, <2>3, <3>1, <3>2, JudgedKnows
  <2>4. CASE v = "fresh" /\ req'[r] = [req[r] EXCEPT !.pc = "consume", !.active = a]
    <3>1. /\ req'[r].pc = "consume" /\ req'[r].token = p /\ req'[r].at = req[r].at
          /\ req'[r].reason = req[r].reason
      BY <1>t, <2>4 DEF Req
    <3> QED BY <1>n, <1>v, <2>1, <2>4, <3>1 DEF KnowsOK, Acting, Retrying, Alarming, Revoking
  <2>5. req[r].pc = "reread" /\ Stored(p) => v # "fresh"
    BY <1>t, <1>v, <2>1 DEF ReqOK, NotLive
  <2> QED BY <1>4, <1>t, <2>2, <2>3, <2>4, <2>5 DEF Load, Reread
<1>5. CASE Consume(r)
  <2>1. /\ req[r].pc = "consume" /\ row' = row /\ p \in Token
        /\ req[r].reason = "none" /\ req[r].active \in BOOLEAN
    BY <1>5, <1>t DEF Consume, HasSubject, ReqOK, Req
  <2>2. req[r].at < row[p].expires_at
    BY <2>1 DEF KnowsOK, Acting
  <2>3. CASE req'[r] = Judged(r, "fresh", req[r].active, TRUE)
    BY <2>1, <2>2, <2>3, JudgedKnows
  <2>4. CASE req'[r] = [req[r] EXCEPT !.pc = "reread"]
    <3>1. /\ req'[r].pc = "reread" /\ req'[r].token = p /\ req'[r].at = req[r].at
          /\ req'[r].reason = "none"
      BY <1>t, <2>1, <2>4 DEF Req
    <3> QED BY <1>n, <2>1, <2>2, <3>1 DEF KnowsOK, Acting, Retrying, Alarming, Revoking
  <2> QED BY <1>5, <1>t, <2>3, <2>4 DEF Consume
<1>6. CASE MarkReplayed(r)
  <2> DEFINE live == Stored(p) /\ row[p].revoked_at = Null
  <2>1. /\ req[r].pc = "replay" /\ row' = row /\ p \in Token
        /\ req[r].reason = "family_revoked"
    BY <1>6, <1>t DEF MarkReplayed, HasSubject, ReqOK
  <2>2. /\ req'[r].pc = "select" /\ req'[r].token = p /\ req'[r].at = req[r].at
        /\ req'[r].reason = "family_revoked" /\ req'[r].replayed = live
    BY <1>6, <1>t, <2>1 DEF MarkReplayed, Req
  <2>3. req[r].at < row[p].expires_at /\ SpentBefore(req[r].token, req[r].at)'
    BY <2>1, <2>2 DEF KnowsOK, Acting, Alarming, SpentBefore, SpentAt
  <2> QED BY <1>n, <2>1, <2>2, <2>3
          DEF KnowsOK, Acting, Retrying, Alarming, Revoking, Closed, Stored
<1>7. CASE SelectRows(r)
  <2>1. req[r].pc = "select" /\ row' = row
    BY <1>7 DEF SelectRows
  <2>2. /\ req'[r].pc = "update" /\ req'[r].token = p /\ req'[r].at = req[r].at
        /\ req'[r].reason = req[r].reason /\ req'[r].replayed = req[r].replayed
        /\ req'[r].consumed = req[r].consumed
    BY <1>7, <1>t DEF SelectRows, Req
  <2> QED BY <1>n, <2>1, <2>2
          DEF KnowsOK, Acting, Retrying, Alarming, Revoking, Closed, Stored, SpentBefore,
              SpentWithin, SpentAt
<1>8. CASE Revoke(r) \/ Exchange(r) \/ IssueForLogin(r) \/ Abort(r)
  BY <1>8, <1>t, IdleKnows DEF Revoke, Exchange, IssueForLogin, Abort, Answer
<1> QED BY <1>1, <1>2, <1>3, <1>4, <1>5, <1>6, <1>7, <1>8 DEF Step

LEMMA KnowledgeInvariant == Spec => []Knows
<1>1. Init => Knows
  BY DEF Init, Idle, Knows, KnowsOK, Acting, Retrying, Alarming, Revoking
<1>2. IInv /\ Knows /\ [Next]_vars => Knows'
  BY OneRequestMoves, OwnStepKnows, OthersKeepKnowledge DEF Knows
<1> QED BY Inductive, <1>1, <1>2, PTL DEF Spec

(* The ledger's words for a row.                                           *)
LEMMA EntryFields ==
  ASSUME NEW tok
  PROVE  /\ Entry(tok).family = tok.family /\ Entry(tok).until = tok.expires_at
         /\ Entry(tok).ceiling = tok.family_expires_at
         /\ Entry(tok).spent = IF tok.revoked_reason = "superseded" THEN tok.revoked_at
                               ELSE tok.used_at
         /\ Entry(tok).gone = (tok.state = "pruned")
         /\ tok.revoked_reason = "none" => Entry(tok).fate = "open"
         /\ tok.revoked_reason = "superseded" => Entry(tok).fate = "superseded"
         /\ tok.revoked_reason = "reuse" => Entry(tok).fate = "replayed"
         /\ tok.revoked_reason \in {"logout", "inactive", "family_revoked"}
               => Entry(tok).fate = "ended"
  BY DEF Entry

(* What the commit of r does to the entry of a token.                      *)
LEMMA WrittenEntry ==
  ASSUME IInv, Knows, NEW r \in Request, NEW t \in Token,
         req[r].pc \in {"issue", "update"}
  PROVE  Entry(Written(r, t)) =
           IF MarksReplayed(r, t) THEN [Entry(row[t]) EXCEPT !.fate = "replayed"]
           ELSE IF Revokes(r, t) /\ req[r].reason = "superseded"
                THEN [Entry(row[t]) EXCEPT !.spent = req[r].at, !.fate = "superseded"]
           ELSE IF Revokes(r, t) /\ Consumes(r, t)
                THEN [Entry(row[t]) EXCEPT !.spent = req[r].at, !.fate = "ended"]
           ELSE IF Revokes(r, t) THEN [Entry(row[t]) EXCEPT !.fate = "ended"]
           ELSE IF Consumes(r, t) THEN [Entry(row[t]) EXCEPT !.spent = req[r].at]
           ELSE Entry(row[t])
<1> DEFINE w == Written(r, t)
<1>t. /\ row[t] \in Row /\ ReqOK(r) /\ KnowsOK(r)
      /\ (row[t].revoked_at = Null) <=> (row[t].revoked_reason = "none")
  BY DEF IInv, TypeOK, Knows
<1>w. /\ w.state = row[t].state /\ w.family = row[t].family
      /\ w.expires_at = row[t].expires_at /\ w.family_expires_at = row[t].family_expires_at
      /\ w.used_at = IF Consumes(r, t) THEN req[r].at ELSE row[t].used_at
      /\ w.revoked_at = IF Revokes(r, t) \/ MarksReplayed(r, t)
                        THEN req[r].at ELSE row[t].revoked_at
      /\ w.revoked_reason = IF MarksReplayed(r, t) THEN "reuse"
                            ELSE IF Revokes(r, t) THEN req[r].reason
                            ELSE row[t].revoked_reason
  BY <1>t, WrittenFields
<1>r. Revokes(r, t) => /\ row[t].revoked_reason = "none" /\ ~MarksReplayed(r, t)
                       /\ req[r].reason \in {"superseded", "inactive", "family_revoked", "logout"}
                       /\ req[r].reason = "superseded" => ~Consumes(r, t)
  BY <1>t DEF Revokes, Matches, Consumes, KnowsOK, ReqOK
<1>m. MarksReplayed(r, t) => row[t].revoked_reason = "none" /\ ~Consumes(r, t)
  BY <1>t DEF MarksReplayed, Consumes, ReqOK
<1>c. Consumes(r, t) => row[t].revoked_reason = "none"
  BY <1>t DEF Consumes, ReqOK, NotLive
<1> HIDE DEF w
<1>1. CASE MarksReplayed(r, t)
  BY <1>1, <1>w, <1>m DEF Entry, w
<1>2. CASE Revokes(r, t) /\ req[r].reason = "superseded"
  BY <1>2, <1>w, <1>r DEF Entry, w
<1>3. CASE Revokes(r, t) /\ req[r].reason # "superseded"
  BY <1>3, <1>w, <1>r DEF Entry, w
<1>4. CASE ~Revokes(r, t) /\ ~MarksReplayed(r, t) /\ Consumes(r, t)
  BY <1>4, <1>w, <1>c DEF Entry, w
<1>5. CASE ~Revokes(r, t) /\ ~MarksReplayed(r, t) /\ ~Consumes(r, t)
  BY <1>5, <1>w DEF Entry, w
<1> QED BY <1>1, <1>2, <1>3, <1>4, <1>5

LEMMA LedgerTerms ==
  ASSUME IInv
  PROVE  /\ Ledger!Issued = {t \in Token : Minted(t)}
         /\ \A t \in Token :
              /\ EntryNow[t] = Entry(row[t]) /\ EntryNow[t].spent = SpentAt(t)
              /\ EntryNow[t].family = row[t].family
              /\ Ledger!Open(t) <=> ~Closed(t)
              /\ Ledger!Live(t) <=> ~NotLive(t)
              /\ \A at : Ledger!Usable(t, at) <=> at < row[t].expires_at
<1>1. \A t \in Token : EntryNow[t] = Entry(row[t])
  BY DEF EntryNow
<1>2. \A t \in Token : /\ row[t] \in Row /\ RowOK(t)
                       /\ (row[t].revoked_at = Null) <=> (row[t].revoked_reason = "none")
                       /\ Minted(t) => row[t].family \in Family
  BY DEF IInv, TypeOK
<1>3. \A t \in Token : row[t].family # NoFamily <=> Minted(t)
  BY <1>2, NullAssumption DEF RowOK
<1>4. Ledger!Issued = {t \in Token : Minted(t)}
  BY <1>1, <1>3, EntryFields DEF Ledger!Issued
<1>5. ASSUME NEW t \in Token PROVE Ledger!Open(t) <=> ~Closed(t)
  <2>1. row[t].revoked_reason \in RevocationReason \cup {"none"}
        /\ row[t].state \in {"unminted", "stored", "pruned"}
    BY <1>2 DEF Row
  <2>2. EntryNow[t].fate = "open" <=> row[t].revoked_at = Null
    BY <1>1, <1>2, <2>1, EntryFields DEF RevocationReason
  <2>3. EntryNow[t].gone <=> row[t].state = "pruned"
    BY <1>1, EntryFields
  <2> QED BY <1>4, <2>1, <2>2, <2>3 DEF Ledger!Open, Closed, Minted, Stored
<1>6. \A t \in Token : EntryNow[t].spent = SpentAt(t)
  BY <1>1, EntryFields DEF SpentAt
<1>7. ASSUME NEW t \in Token PROVE Ledger!Live(t) <=> ~NotLive(t)
  BY <1>2, <1>5, <1>6 DEF Ledger!Live, Ledger!Never, Null, SpentAt, Closed, NotLive
<1>8. \A t \in Token : \A at : Ledger!Usable(t, at) <=> at < row[t].expires_at
  BY <1>1, EntryFields DEF Ledger!Usable
<1>9. \A t \in Token : EntryNow[t].family = row[t].family
  BY <1>1, EntryFields
<1> QED BY <1>1, <1>4, <1>5, <1>6, <1>7, <1>8, <1>9

(* The operations of the ledger in the table's words: p the token          *)
(* presented, n its successor, S the tokens a revocation reached.          *)
Past(at) == at \in 0..now /\ now' = now

RotateEntries(p, n, at) ==
  /\ Past(at) /\ p \in Token /\ Minted(p) /\ n \in Token /\ ~Minted(n)
  /\ ~NotLive(p) /\ at < row[p].expires_at
  /\ EntryNow' = [EntryNow EXCEPT
        ![p].spent = at,
        ![n] = Ledger!Fresh(EntryNow[p].family, EntryNow[p].ceiling, at)]

RetryEntries(p, n, at, S) ==
  /\ Past(at) /\ p \in Token /\ Minted(p) /\ n \in Token /\ ~Minted(n)
  /\ SpentWithin(p, at) /\ at < row[p].expires_at
  /\ S \subseteq {u \in Token : row[u].family = row[p].family /\ ~NotLive(u)}
  /\ EntryNow' = [u \in Token |->
        IF u = n THEN Ledger!Fresh(EntryNow[p].family, EntryNow[p].ceiling, at)
        ELSE IF u \in S THEN [EntryNow[u] EXCEPT !.spent = at, !.fate = "superseded"]
        ELSE EntryNow[u]]

AlarmEntries(p, at, S) ==
  /\ Past(at) /\ p \in Token /\ Minted(p)
  /\ SpentBefore(p, at) /\ at < row[p].expires_at
  /\ S \subseteq {u \in Token \ {p} :
                    Minted(u) /\ ~Closed(u) /\ Owner[row[u].family] = Owner[row[p].family]}
  /\ EntryNow' = [u \in Token |->
        IF u = p /\ ~Closed(p) THEN [EntryNow[p] EXCEPT !.fate = "replayed"]
        ELSE IF u \in S THEN [EntryNow[u] EXCEPT !.fate = "ended"]
        ELSE EntryNow[u]]

DeactivateEntries(p, at, S) ==
  /\ Past(at) /\ p \in Token /\ Minted(p)
  /\ ~NotLive(p) \/ SpentWithin(p, at)
  /\ at < row[p].expires_at
  /\ S \subseteq {u \in Token : row[u].family = row[p].family /\ ~Closed(u)}
  /\ ~NotLive(p) => p \in S
  /\ EntryNow' = [u \in Token |->
        IF u = p /\ ~NotLive(p) THEN [EntryNow[p] EXCEPT !.spent = at, !.fate = "ended"]
        ELSE IF u \in S THEN [EntryNow[u] EXCEPT !.fate = "ended"]
        ELSE EntryNow[u]]

LogoutEntries(p, S) ==
  /\ now' = now /\ p \in Token /\ Minted(p)
  /\ S \subseteq {u \in Token : row[u].family = row[p].family /\ ~Closed(u)}
  /\ EntryNow' = [u \in Token |-> IF u \in S THEN [EntryNow[u] EXCEPT !.fate = "ended"]
                                  ELSE EntryNow[u]]

(* The rows the UPDATE of r writes.                                        *)
Reached(r) == {u \in Token : Revokes(r, u)}

LEMMA ReqTypes ==
  ASSUME IInv, Knows, NEW r \in Request, req[r].pc \in {"issue", "update"}
  PROVE  /\ req[r].token \in Token /\ Minted(req[r].token) /\ row[req[r].token] \in Row
         /\ req[r].at \in 0..now /\ ReqOK(r) /\ KnowsOK(r)
         /\ FamilyOf(r) = row[req[r].token].family
<1>1. req[r] \in Req /\ HasSubject(req[r]) /\ now \in Nat /\ KnowsOK(r) /\ ReqOK(r)
      /\ row \in [Token -> Row]
  BY DEF IInv, TypeOK, Knows, Instant
<1>2. req[r].at \in Nat /\ req[r].at <= now
  BY <1>1 DEF Req, Instant, KnowsOK
<1> QED BY <1>1, <1>2 DEF HasSubject, FamilyOf

LEMMA FreshEntry ==
  ASSUME NEW f, NEW c, NEW at, NEW new,
         /\ new.family = f /\ new.family_expires_at = c
         /\ new.expires_at = IF at + TOKEN_TTL < c THEN at + TOKEN_TTL ELSE c
         /\ new.revoked_reason = "none" /\ new.used_at = Null /\ new.state = "stored"
  PROVE  Entry(new) = Ledger!Fresh(f, c, at)
<1> DEFINE until == IF at + TOKEN_TTL < c THEN at + TOKEN_TTL ELSE c
<1>1. (new.state = "pruned") = FALSE
  OBVIOUS
<1>2. new.expires_at = until
  OBVIOUS
<1> HIDE DEF until
<1>3. Entry(new) = [family |-> f, until |-> until, ceiling |-> c, spent |-> Null,
                    fate |-> "open", gone |-> FALSE]
  BY <1>1, <1>2 DEF Entry
<1>4. Ledger!Fresh(f, c, at) = [family |-> f, until |-> until, ceiling |-> c, spent |-> Null,
                                fate |-> "open", gone |-> FALSE]
  BY DEF Ledger!Fresh, Ledger!Never, Null, until
<1> QED BY <1>3, <1>4

LEMMA ExchangeEntries ==
  ASSUME IInv, Knows, NEW r \in Request, Exchange(r)
  PROVE  \E n \in Token :
           \/ RotateEntries(req[r].token, n, req[r].at)
           \/ /\ Revoking(r, "superseded") /\ req[r].pc = "update"
              /\ RetryEntries(req[r].token, n, req[r].at, Reached(r))
<1> DEFINE p == req[r].token
<1>t. /\ p \in Token /\ Minted(p) /\ row[p] \in Row
      /\ req[r].at \in 0..now /\ ReqOK(r) /\ KnowsOK(r)
      /\ FamilyOf(r) = row[p].family /\ req[r].pc \in {"issue", "update"}
  BY ReqTypes DEF Exchange
<1>1. PICK n \in Token :
        /\ ~Minted(n)
        /\ row'[n] = NewRow(FamilyOf(r), row[p].family_expires_at, req[r].at, p,
                            req[r].reason = "superseded")
        /\ \A u \in Token \ {n} : row'[u] = Written(r, u)
  BY ExchangeEffect DEF IInv
<1>2. Past(req[r].at)
  BY <1>t DEF Exchange, Past
<1>3. /\ EntryNow' = [u \in Token |-> Entry(row'[u])]
      /\ EntryNow = [u \in Token |-> Entry(row[u])]
  BY DEF EntryNow
<1>4. Entry(row'[n]) = Ledger!Fresh(EntryNow[p].family, EntryNow[p].ceiling, req[r].at)
  <2>1. Entry(row'[n]) = Ledger!Fresh(FamilyOf(r), row[p].family_expires_at, req[r].at)
    BY <1>1, FreshEntry DEF NewRow
  <2>2. EntryNow[p].family = FamilyOf(r) /\ EntryNow[p].ceiling = row[p].family_expires_at
    BY <1>t, <1>3, EntryFields
  <2> QED BY <2>1, <2>2
<1>5. \A u \in Token \ {n} : Entry(row'[u]) = Entry(Written(r, u))
  BY <1>1
<1>6. CASE req[r].pc = "issue"
  <2>1. /\ req[r].consumed /\ ~req[r].replayed /\ ~NotLive(p) /\ req[r].reason = "none"
        /\ req[r].at < row[p].expires_at
    BY <1>t, <1>6 DEF ReqOK, KnowsOK, Acting
  <2>2. \A u \in Token : ~Revokes(r, u) /\ ~MarksReplayed(r, u) /\ (Consumes(r, u) <=> u = p)
    BY <2>1 DEF Revokes, Matches, MarksReplayed, Consumes
  <2>3. \A u \in Token \ {n} : Entry(row'[u]) = IF u = p THEN [Entry(row[u]) EXCEPT !.spent = req[r].at]
                                                ELSE Entry(row[u])
    BY <1>t, <1>5, <2>2, WrittenEntry
  <2>4. n # p
    BY <1>t, <1>1
  <2>5. EntryNow' = [EntryNow EXCEPT
           ![p].spent = req[r].at,
           ![n] = Ledger!Fresh(EntryNow[p].family, EntryNow[p].ceiling, req[r].at)]
    BY <1>t, <1>3, <1>4, <2>3, <2>4
  <2> QED BY <1>t, <1>1, <1>2, <2>1, <2>5 DEF RotateEntries
<1>7. CASE req[r].pc = "update"
  <2>1. Revoking(r, "superseded") /\ Retrying(r) /\ Acting(r)
    BY <1>7 DEF Exchange, Revoking, Retrying, Acting
  <2>2. /\ SpentWithin(p, req[r].at) /\ req[r].at < row[p].expires_at
        /\ ~req[r].consumed /\ ~req[r].replayed /\ req[r].reason = "superseded"
    BY <1>t, <1>7, <2>1 DEF KnowsOK, ReqOK, Revoking
  <2>3. \A u \in Token : ~MarksReplayed(r, u) /\ ~Consumes(r, u)
    BY <2>2 DEF MarksReplayed, Consumes
  <2>4. \A u \in Token \ {n} : Entry(row'[u]) =
           IF u \in Reached(r) THEN [Entry(row[u]) EXCEPT !.spent = req[r].at, !.fate = "superseded"]
           ELSE Entry(row[u])
    BY <1>t, <1>5, <2>2, <2>3, WrittenEntry DEF Reached
  <2>5. Reached(r) \subseteq {u \in Token : row[u].family = row[p].family /\ ~NotLive(u)}
    BY <1>t, <2>2 DEF Reached, Revokes, Matches, NotLive
  <2>6. EntryNow' = [u \in Token |->
          IF u = n THEN Ledger!Fresh(EntryNow[p].family, EntryNow[p].ceiling, req[r].at)
          ELSE IF u \in Reached(r)
               THEN [EntryNow[u] EXCEPT !.spent = req[r].at, !.fate = "superseded"]
          ELSE EntryNow[u]]
    BY <1>3, <1>4, <2>4
  <2> QED BY <1>t, <1>1, <1>2, <1>7, <2>1, <2>2, <2>5, <2>6 DEF RetryEntries
<1> QED BY <1>t, <1>6, <1>7

LEMMA RevokeEntries ==
  ASSUME IInv, Knows, NEW r \in Request, Revoke(r)
  PROVE  \/ req[r].reason = "family_revoked" /\ AlarmEntries(req[r].token, req[r].at, Reached(r))
         \/ req[r].reason = "inactive" /\ DeactivateEntries(req[r].token, req[r].at, Reached(r))
         \/ req[r].reason = "logout" /\ LogoutEntries(req[r].token, Reached(r))
<1> DEFINE p == req[r].token
<1>t. /\ p \in Token /\ Minted(p) /\ row[p] \in Row /\ req[r].pc = "update"
      /\ req[r].at \in 0..now /\ ReqOK(r) /\ KnowsOK(r)
      /\ FamilyOf(r) = row[p].family
      /\ (row[p].revoked_at = Null) <=> (row[p].revoked_reason = "none")
  BY ReqTypes DEF Revoke, IInv, TypeOK
<1>2. Past(req[r].at) /\ now' = now
  BY <1>t DEF Revoke, Past
<1>3. /\ EntryNow' = [u \in Token |-> Entry(Written(r, u))]
      /\ EntryNow = [u \in Token |-> Entry(row[u])]
  BY DEF EntryNow, Revoke
<1>4. \A u \in Token : Revokes(r, u) => ~Closed(u) /\ Minted(u) /\ ~MarksReplayed(r, u)
  BY DEF Revokes, Matches, Closed, Stored, Minted
<1>5. req[r].reason \in {"inactive", "family_revoked", "logout"}
  BY <1>t DEF KnowsOK, Revoke
<1>6. CASE req[r].reason = "family_revoked"
  <2>1. Revoking(r, "family_revoked") /\ Acting(r) /\ Alarming(r) /\ ~req[r].consumed
    BY <1>t, <1>6 DEF Revoking, Acting, Alarming, ReqOK
  <2>2. SpentBefore(p, req[r].at) /\ req[r].at < row[p].expires_at /\ (req[r].replayed <=> ~Closed(p))
    BY <1>t, <2>1 DEF KnowsOK, ReqOK, Closed
  <2>3. \A u \in Token : ~Consumes(r, u) /\ (MarksReplayed(r, u) <=> u = p /\ ~Closed(p))
    BY <2>1, <2>2 DEF Consumes, MarksReplayed
  <2>4. Reached(r) \subseteq {u \in Token \ {p} :
           Minted(u) /\ ~Closed(u) /\ Owner[row[u].family] = Owner[row[p].family]}
    BY <1>t, <1>4, <1>6, <2>3 DEF Reached, Revokes, Matches
  <2>5. \A u \in Token : Entry(Written(r, u)) =
          IF u = p /\ ~Closed(p) THEN [Entry(row[u]) EXCEPT !.fate = "replayed"]
          ELSE IF u \in Reached(r) THEN [Entry(row[u]) EXCEPT !.fate = "ended"]
          ELSE Entry(row[u])
    BY <1>t, <1>6, <2>3, WrittenEntry DEF Reached
  <2>6. EntryNow' = [u \in Token |->
          IF u = p /\ ~Closed(p) THEN [EntryNow[p] EXCEPT !.fate = "replayed"]
          ELSE IF u \in Reached(r) THEN [EntryNow[u] EXCEPT !.fate = "ended"]
          ELSE EntryNow[u]]
    BY <1>3, <2>5
  <2> QED BY <1>t, <1>2, <1>6, <2>2, <2>4, <2>6 DEF AlarmEntries
<1>7. CASE req[r].reason = "inactive"
  <2>1. Revoking(r, "inactive") /\ Acting(r) /\ ~req[r].replayed
    BY <1>t, <1>7 DEF Revoking, Acting, ReqOK
  <2>2. req[r].at < row[p].expires_at
    BY <1>t, <2>1 DEF KnowsOK
  <2>3. ~req[r].consumed => SpentWithin(p, req[r].at) /\ NotLive(p)
    <3>1. ~req[r].consumed => SpentWithin(p, req[r].at)
      BY <1>t, <2>1 DEF KnowsOK, Retrying
    <3>2. SpentWithin(p, req[r].at) => NotLive(p)
      BY <1>t DEF SpentWithin, SpentAt, NotLive
    <3> QED BY <3>1, <3>2
  <2>4. req[r].consumed => ~NotLive(p) /\ p \in Reached(r)
    BY <1>t, <1>7, <2>1 DEF ReqOK, Reached, Revokes, Matches, MarksReplayed, NotLive
  <2>5. \A u \in Token : ~MarksReplayed(r, u) /\ (Consumes(r, u) <=> u = p /\ ~NotLive(p))
    BY <2>1, <2>3, <2>4 DEF Consumes, MarksReplayed
  <2>6. Reached(r) \subseteq {u \in Token : row[u].family = row[p].family /\ ~Closed(u)}
    BY <1>t, <1>4, <1>7 DEF Reached, Revokes, Matches
  <2>7. \A u \in Token : Entry(Written(r, u)) =
          IF u = p /\ ~NotLive(p) THEN [Entry(row[u]) EXCEPT !.spent = req[r].at, !.fate = "ended"]
          ELSE IF u \in Reached(r) THEN [Entry(row[u]) EXCEPT !.fate = "ended"]
          ELSE Entry(row[u])
    BY <1>t, <1>7, <2>3, <2>4, <2>5, WrittenEntry DEF Reached
  <2>8. EntryNow' = [u \in Token |->
          IF u = p /\ ~NotLive(p) THEN [EntryNow[p] EXCEPT !.spent = req[r].at, !.fate = "ended"]
          ELSE IF u \in Reached(r) THEN [EntryNow[u] EXCEPT !.fate = "ended"]
          ELSE EntryNow[u]]
    BY <1>3, <2>7
  <2> QED BY <1>t, <1>2, <1>7, <2>2, <2>3, <2>4, <2>6, <2>8 DEF DeactivateEntries
<1>8. CASE req[r].reason = "logout"
  <2>1. ~req[r].consumed /\ ~req[r].replayed
    BY <1>t, <1>8 DEF ReqOK
  <2>2. Reached(r) \subseteq {u \in Token : row[u].family = row[p].family /\ ~Closed(u)}
    BY <1>t, <1>4, <1>8 DEF Reached, Revokes, Matches
  <2>3. \A u \in Token : Entry(Written(r, u)) =
          IF u \in Reached(r) THEN [Entry(row[u]) EXCEPT !.fate = "ended"] ELSE Entry(row[u])
    BY <1>t, <1>8, <2>1, WrittenEntry DEF Reached, Consumes, MarksReplayed
  <2>4. EntryNow' = [u \in Token |-> IF u \in Reached(r) THEN [EntryNow[u] EXCEPT !.fate = "ended"]
                                     ELSE EntryNow[u]]
    BY <1>3, <2>3
  <2> QED BY <1>t, <1>2, <1>8, <2>2, <2>4 DEF LogoutEntries
<1> QED BY <1>5, <1>6, <1>7, <1>8

LEMMA LoginEntries ==
  ASSUME IInv, Knows, LoginsMintNewFamilies, NEW r \in Request, IssueForLogin(r)
  PROVE  \E f \in Family, n \in Token, at \in 0..now :
           /\ ~Minted(n) /\ now' = now
           /\ \A t \in Token : row[t].family # f
           /\ EntryNow' = [EntryNow EXCEPT ![n] = Ledger!Fresh(f, at + FAMILY_TTL, at)]
<1> DEFINE f == req[r].family
           at == req[r].at
<1>1. /\ req[r] \in Req /\ f \in Family /\ now \in Nat /\ at <= now
      /\ \A t \in Token : row[t].family # f
  BY DEF IInv, TypeOK, HasSubject, IssueForLogin, Knows, KnowsOK, LoginsMintNewFamilies, Instant
<1>2. at \in 0..now
  BY <1>1 DEF Req, Instant
<1>3. PICK n \in Token :
        /\ ~Minted(n)
        /\ row'[n] = NewRow(f, at + FAMILY_TTL, at, NoToken, FALSE)
        /\ \A t \in Token \ {n} : row'[t] = row[t]
  BY IssueForLoginEffect DEF IInv
<1>4. Entry(row'[n]) = Ledger!Fresh(f, at + FAMILY_TTL, at)
  BY <1>3, FreshEntry DEF NewRow
<1>5. EntryNow' = [EntryNow EXCEPT ![n] = Ledger!Fresh(f, at + FAMILY_TTL, at)]
  <2>1. EntryNow' = [u \in Token |-> Entry(row'[u])] /\ EntryNow = [u \in Token |-> Entry(row[u])]
    BY DEF EntryNow
  <2> QED BY <1>3, <1>4, <2>1
<1> QED BY <1>1, <1>2, <1>3, <1>5 DEF IssueForLogin

LEMMA PruneEntries ==
  ASSUME IInv, Prune
  PROVE  \E S \in SUBSET {t \in Token : Minted(t)} :
           /\ now' = now
           /\ \A t \in S : row[t].expires_at <= now
           /\ EntryNow' = [t \in Token |-> IF t \in S THEN [EntryNow[t] EXCEPT !.gone = TRUE]
                                           ELSE EntryNow[t]]
<1> DEFINE S == {t \in Token : Prunable(t)}
<1>1. \A t \in Token : row[t] \in Row
  BY DEF IInv, TypeOK
<1>2. S \in SUBSET {t \in Token : Minted(t)}
  BY DEF Prunable, Stored, Minted
<1>3. \A t \in S : row[t].expires_at <= now
  BY <1>1, PeriodAssumption DEF Prunable, IInv, TypeOK, Row, Instant
<1>4. \A t \in S : Entry([row[t] EXCEPT !.state = "pruned"]) = [Entry(row[t]) EXCEPT !.gone = TRUE]
  <2> TAKE t \in S
  <2> DEFINE w == [row[t] EXCEPT !.state = "pruned"]
  <2>1. /\ w.family = row[t].family /\ w.expires_at = row[t].expires_at
        /\ w.family_expires_at = row[t].family_expires_at /\ w.used_at = row[t].used_at
        /\ w.revoked_at = row[t].revoked_at /\ w.revoked_reason = row[t].revoked_reason
        /\ w.state = "pruned"
    BY <1>1 DEF Row
  <2>2. (w.state = "pruned") = TRUE
    BY <2>1
  <2> HIDE DEF w
  <2>3. Entry(w).fate = Entry(row[t]).fate
    BY <2>1 DEF Entry
  <2>4. Entry(w) = [family |-> Entry(row[t]).family, until |-> Entry(row[t]).until,
                    ceiling |-> Entry(row[t]).ceiling, spent |-> Entry(row[t]).spent,
                    fate |-> Entry(row[t]).fate, gone |-> TRUE]
    <3>1. Entry(w) = [family |-> w.family, until |-> w.expires_at,
                      ceiling |-> w.family_expires_at, spent |-> Entry(w).spent,
                      fate |-> Entry(w).fate, gone |-> TRUE]
      BY <2>2 DEF Entry
    <3> QED BY <2>1, <2>3, <3>1, EntryFields
  <2>5. Entry(w) = [Entry(row[t]) EXCEPT !.gone = TRUE]
    <3> DEFINE e == Entry(row[t])
    <3>1. e = [family |-> e.family, until |-> e.until, ceiling |-> e.ceiling,
               spent |-> e.spent, fate |-> e.fate, gone |-> e.gone]
      BY DEF Entry
    <3> HIDE DEF e
    <3>2. ASSUME NEW f, NEW u, NEW c, NEW s, NEW x, NEW g, NEW b,
                 e = [family |-> f, until |-> u, ceiling |-> c, spent |-> s, fate |-> x, gone |-> g]
          PROVE  [e EXCEPT !.gone = b] = [family |-> f, until |-> u, ceiling |-> c,
                                          spent |-> s, fate |-> x, gone |-> b]
      BY <3>2
    <3>3. [e EXCEPT !.gone = TRUE] = [family |-> e.family, until |-> e.until, ceiling |-> e.ceiling,
                                      spent |-> e.spent, fate |-> e.fate, gone |-> TRUE]
      BY <3>1, <3>2, Zenon
    <3> QED BY <2>4, <3>3 DEF e
  <2> QED BY <2>5 DEF w
<1>5. EntryNow' = [t \in Token |-> IF t \in S THEN [EntryNow[t] EXCEPT !.gone = TRUE]
                                   ELSE EntryNow[t]]
  <2>1. /\ EntryNow' = [t \in Token |-> Entry(row'[t])]
        /\ EntryNow = [t \in Token |-> Entry(row[t])]
    BY DEF EntryNow
  <2>2. \A t \in Token : row'[t] = IF t \in S THEN [row[t] EXCEPT !.state = "pruned"] ELSE row[t]
    BY DEF Prune
  <2>3. \A t \in Token : Entry(row'[t]) = IF t \in S THEN [Entry(row[t]) EXCEPT !.gone = TRUE]
                                          ELSE Entry(row[t])
    BY <1>4, <2>2
  <2> HIDE DEF S
  <2> QED BY <2>1, <2>3
<1> QED BY <1>2, <1>3, <1>5 DEF Prune

(* A step that commits nothing is none of the ledger's, or time passing.   *)
LEMMA NothingCommitted ==
  ASSUME IInv, [Next]_vars
  PROVE  \/ \E r \in Request : Revoke(r) \/ Exchange(r) \/ IssueForLogin(r)
         \/ Prune
         \/ EntryNow' = EntryNow /\ (now' = now \/ now' = now + 1)
<1>1. row' = row => EntryNow' = EntryNow
  BY DEF EntryNow
<1> QED BY <1>1 DEF Next, Step, vars, Refresh, Logout, Login, Load, Consume, Reread, MarkReplayed,
     SelectRows, Abort, SetActive, Tick

(* However requests overlap: every commit is an operation of the ledger.   *)
LEMMA LedgerCommit ==
  ASSUME IInv, Knows, LoginsMintNewFamilies,
         (\E r \in Request : Revoke(r) \/ Exchange(r) \/ IssueForLogin(r)) \/ Prune
  PROVE  Ledger!Operation /\ now' = now
<1>t. /\ Ledger!Issued = {t \in Token : Minted(t)}
      /\ \A t \in Token :
           /\ EntryNow[t].spent = SpentAt(t)
           /\ EntryNow[t].family = row[t].family
           /\ Ledger!Open(t) <=> ~Closed(t)
           /\ Ledger!Live(t) <=> ~NotLive(t)
           /\ \A at : Ledger!Usable(t, at) <=> at < row[t].expires_at
  BY LedgerTerms
<1>1. ASSUME NEW p, NEW n, NEW at, RotateEntries(p, n, at)
      PROVE  Ledger!Operation /\ now' = now
  <2>1. Ledger!Rotate(p, n, at)
    BY <1>t, <1>1 DEF RotateEntries, Ledger!Rotate
  <2> QED BY <1>t, <1>1, <2>1 DEF RotateEntries, Past, Ledger!Operation
<1>2. ASSUME NEW p, NEW n, NEW at, NEW S, RetryEntries(p, n, at, S)
      PROVE  Ledger!Operation /\ now' = now
  <2>1. Ledger!Honest(p, at)
    BY <1>t, <1>2 DEF RetryEntries, SpentWithin, Ledger!Honest, Ledger!Never, Null
  <2>2. S \in Ledger!Reach({u \in Ledger!Siblings(p) : Ledger!Live(u)})
    BY <1>t, <1>2 DEF RetryEntries, Ledger!Reach, Ledger!Siblings
  <2>3. Ledger!Retry(p, n, at)
    BY <1>t, <1>2, <2>1, <2>2 DEF RetryEntries, Ledger!Retry
  <2> QED BY <1>t, <1>2, <2>3 DEF RetryEntries, Past, Ledger!Operation
<1>3. ASSUME NEW p, NEW at, NEW S, AlarmEntries(p, at, S)
      PROVE  Ledger!Operation /\ now' = now
  <2>1. Ledger!Stolen(p, at)
    <3>1. row[p].revoked_reason = "reuse" => EntryNow[p].fate = "replayed"
      BY <1>3, EntryFields DEF AlarmEntries, EntryNow
    <3> QED BY <1>t, <1>3, <3>1 DEF AlarmEntries, SpentBefore, Ledger!Stolen, Ledger!Never, Null
  <2>2. S \in Ledger!Reach({u \in Ledger!OfOwner(p) \ {p} : Ledger!Open(u)})
    BY <1>t, <1>3 DEF AlarmEntries, Ledger!Reach, Ledger!OfOwner
  <2>3. Ledger!Alarm(p, at)
    BY <1>t, <1>3, <2>1, <2>2 DEF AlarmEntries, Ledger!Alarm
  <2> QED BY <1>t, <1>3, <2>3 DEF AlarmEntries, Past, Ledger!Operation
<1>4. ASSUME NEW p, NEW at, NEW S, DeactivateEntries(p, at, S)
      PROVE  Ledger!Operation /\ now' = now
  <2>1. Ledger!Live(p) \/ Ledger!Honest(p, at)
    BY <1>t, <1>4 DEF DeactivateEntries, SpentWithin, Ledger!Honest, Ledger!Never, Null
  <2>2. S \in Ledger!Reach({u \in Ledger!Siblings(p) : Ledger!Open(u)})
    BY <1>t, <1>4 DEF DeactivateEntries, Ledger!Reach, Ledger!Siblings
  <2>3. Ledger!Deactivate(p, at)
    BY <1>t, <1>4, <2>1, <2>2 DEF DeactivateEntries, Ledger!Deactivate
  <2> QED BY <1>t, <1>4, <2>3 DEF DeactivateEntries, Past, Ledger!Operation
<1>5. ASSUME NEW p, NEW S, LogoutEntries(p, S)
      PROVE  Ledger!Operation /\ now' = now
  <2>1. S \in Ledger!Reach({u \in Ledger!Siblings(p) : Ledger!Open(u)})
    BY <1>t, <1>5 DEF LogoutEntries, Ledger!Reach, Ledger!Siblings
  <2>2. Ledger!Logout(p)
    BY <1>5, <2>1 DEF LogoutEntries, Ledger!Logout
  <2> QED BY <1>t, <1>5, <2>2 DEF LogoutEntries, Ledger!Operation
<1>6. ASSUME NEW r \in Request, IssueForLogin(r)
      PROVE  Ledger!Operation /\ now' = now
  <2>1. PICK f \in Family, n \in Token, at \in 0..now :
           /\ ~Minted(n) /\ now' = now
           /\ \A t \in Token : row[t].family # f
           /\ EntryNow' = [EntryNow EXCEPT ![n] = Ledger!Fresh(f, at + FAMILY_TTL, at)]
    BY <1>6, LoginEntries
  <2>2. Ledger!Login(f, n, at)
    BY <1>t, <2>1 DEF Ledger!Login
  <2> QED BY <1>t, <2>1, <2>2 DEF Ledger!Operation
<1>7. CASE Prune
  <2>1. PICK S \in SUBSET {t \in Token : Minted(t)} :
           /\ now' = now
           /\ \A t \in S : row[t].expires_at <= now
           /\ EntryNow' = [t \in Token |-> IF t \in S THEN [EntryNow[t] EXCEPT !.gone = TRUE]
                                           ELSE EntryNow[t]]
    BY <1>7, PruneEntries
  <2>2. \A t \in S : ~Ledger!Usable(t, now)
    <3>1. \A t \in S : row[t].expires_at \in Int /\ now \in Int
      BY DEF IInv, TypeOK, Row, Instant
    <3> QED BY <1>t, <2>1, <3>1
  <2>3. Ledger!Forget(S)
    BY <2>1, <2>2 DEF Ledger!Forget
  <2> QED BY <1>t, <2>1, <2>3 DEF Ledger!Operation
<1>8. ASSUME NEW r \in Request, Exchange(r) PROVE Ledger!Operation /\ now' = now
  BY <1>1, <1>2, <1>8, ExchangeEntries
<1>9. ASSUME NEW r \in Request, Revoke(r) PROVE Ledger!Operation /\ now' = now
  BY <1>3, <1>4, <1>5, <1>9, RevokeEntries
<1> QED BY <1>6, <1>7, <1>8, <1>9

LEMMA LedgerInit == Init => Ledger!Init
<1> SUFFICES ASSUME Init PROVE Ledger!Init
  OBVIOUS
<1>1. Blank.revoked_reason = "none" /\ Blank.used_at = Null /\ Blank.family = NoFamily
      /\ Blank.expires_at = 0 /\ Blank.family_expires_at = 0 /\ (Blank.state = "pruned") = FALSE
  BY DEF Blank
<1>2. Entry(Blank) = Ledger!Unissued
  BY <1>1 DEF Entry, Ledger!Unissued, Ledger!Never, Null
<1> QED BY <1>2 DEF Init, Ledger!Init, EntryNow

LEMMA LedgerNext ==
  IInv /\ Knows /\ CeilingInv /\ [Next]_vars => [Ledger!Next]_(Ledger!vars)
<1> SUFFICES ASSUME IInv, Knows, LoginsMintNewFamilies, [Next]_vars
             PROVE  [Ledger!Next]_(Ledger!vars)
  BY DEF CeilingInv
<1>1. CASE (\E r \in Request : Revoke(r) \/ Exchange(r) \/ IssueForLogin(r)) \/ Prune
  BY <1>1, LedgerCommit DEF Ledger!Next, Ledger!vars
<1>2. CASE EntryNow' = EntryNow /\ (now' = now \/ now' = now + 1)
  BY <1>2 DEF Ledger!Next, Ledger!vars
<1> QED BY <1>1, <1>2, NothingCommitted

(* Requests may overlap at every await: to whoever reads the table, what   *)
(* they leave behind is a sequence of whole operations of the ledger, each *)
(* on facts about its token that still hold when it commits: that it is    *)
(* live, or was spent inside or outside its window (refresh.py:25-28,      *)
(* 489-492, 534-535).                                                      *)
THEOREM TableImplementsLedger == Spec => ImplementsLedger
BY LedgerInit, LedgerNext, Inductive, KnowledgeInvariant, CeilingInvariant, PTL
   DEF Spec, Ledger!Spec, ImplementsLedger

-----------------------------------------------------------------------------
(* The table implements the sessions, when the exchanges do not overlap    *)

(* Nothing else ends a session between a verdict and its commit.           *)
SerialKnows(r) ==
  /\ Retrying(r) => row[req[r].token].revoked_reason \in {"none", "superseded"}
  /\ Alarming(r) => row[req[r].token].revoked_reason \notin {"logout", "inactive", "family_revoked"}

LEMMA JudgedSerialKnows ==
  ASSUME IInv, NEW r \in Request, req[r].pc \in {"load", "consume", "reread"},
         NEW v, NEW a \in BOOLEAN, NEW c \in BOOLEAN,
         v \in {"expired", "family_expired", "revoked", "reuse", "fresh", "grace"},
         v = "reuse" => row[req[r].token].revoked_reason \notin {"logout", "inactive", "family_revoked"},
         v = "grace" => row[req[r].token].revoked_reason \in {"none", "superseded"},
         v = "fresh" => c,
         req'[r] = Judged(r, v, a, c), row' = row
  PROVE  SerialKnows(r)'
<1>t. req[r] \in Req /\ req[r].reason = "none"
  BY DEF IInv, TypeOK, ReqOK
<1>1. CASE v \in {"expired", "family_expired", "revoked"}
  BY <1>1 DEF Judged, Idle, SerialKnows, Retrying, Alarming, Revoking
<1>2. CASE v = "reuse"
  BY <1>t, <1>2 DEF Judged, Req, SerialKnows, Retrying, Alarming, Revoking
<1>3. CASE v = "fresh" /\ a
  BY <1>t, <1>3 DEF Judged, Req, SerialKnows, Retrying, Alarming, Revoking
<1>4. CASE v = "fresh" /\ ~a
  BY <1>t, <1>4 DEF Judged, Req, SerialKnows, Retrying, Alarming, Revoking
<1>5. CASE v = "grace"
  <2>1. /\ req'[r].pc = "select" /\ req'[r].reason \in {"inactive", "superseded"}
        /\ req'[r].token = req[r].token
    BY <1>t, <1>5 DEF Judged, Req
  <2> QED BY <1>5, <2>1 DEF SerialKnows, Retrying, Alarming, Revoking
<1> QED BY <1>1, <1>2, <1>3, <1>4, <1>5

LEMMA OwnStepSerialKnows ==
  ASSUME IInv, NEW r \in Request, Step(r), SerialKnows(r)
  PROVE  SerialKnows(r)'
<1> DEFINE p == req[r].token
           v == Classify(row[p], req[r].at)
           a == active[Owner[row[p].family]]
<1>t. /\ req \in [Request -> Req] /\ req[r] \in Req /\ ReqOK(r) /\ HasSubject(req[r])
      /\ req[r].at \in Instant
      /\ \A t \in Token : Stored(t) => active[Owner[row[t].family]] \in BOOLEAN
  BY OwnerAssumption DEF IInv, TypeOK, Stored, Minted, Req
<1>0. ASSUME req'[r] = Idle PROVE SerialKnows(r)'
  BY <1>0 DEF Idle, SerialKnows, Retrying, Alarming, Revoking
<1>v. p \in Token =>
        /\ v = "grace" => row[p].revoked_reason \in {"none", "superseded"}
        /\ v = "reuse" => row[p].revoked_reason \notin {"logout", "inactive", "family_revoked"}
        /\ v = "fresh" => row[p].used_at = Null /\ row[p].revoked_at = Null
  BY <1>t, VerdictKnows, VerdictMeans
<1>1. CASE \E t \in Token : Refresh(r, t) \/ Logout(r, t)
  BY <1>1, <1>t DEF Refresh, Logout, Idle, SerialKnows, Retrying, Alarming, Revoking
<1>2. CASE \E f \in Family : Login(r, f)
  BY <1>2, <1>t DEF Login, Idle, SerialKnows, Retrying, Alarming, Revoking
<1>3. CASE Load(r) \/ Reread(r)
  <2>1. req[r].pc \in {"load", "reread"} /\ row' = row /\ p \in Token
    BY <1>3, <1>t DEF Load, Reread, HasSubject
  <2>2. CASE ~Stored(p)
    BY <1>0, <1>3, <1>t, <2>2 DEF Load, Reread, Answer
  <2>3. CASE Stored(p) /\ v # "fresh" /\ req'[r] = Judged(r, v, a, FALSE)
    <3>1. a \in BOOLEAN
      BY <1>t, <2>1, <2>3
    <3>2. v \in {"expired", "family_expired", "revoked", "reuse", "fresh", "grace"}
      BY ClassifyType
    <3> HIDE DEF a, v
    <3> QED BY <1>v, <2>1, <2>3, <3>1, <3>2, JudgedSerialKnows
  <2>4. CASE req'[r] = [req[r] EXCEPT !.pc = "consume", !.active = a]
    BY <1>t, <2>4 DEF Req, SerialKnows, Retrying, Alarming, Revoking
  <2>5. req[r].pc = "reread" /\ Stored(p) => v # "fresh"
    BY <1>t, <1>v, <2>1 DEF ReqOK, NotLive
  <2> QED BY <1>3, <1>t, <2>2, <2>3, <2>4, <2>5 DEF Load, Reread
<1>4. CASE Consume(r)
  <2>1. req[r].pc = "consume" /\ row' = row /\ req[r].active \in BOOLEAN
    BY <1>4, <1>t DEF Consume, Req
  <2>2. CASE req'[r] = Judged(r, "fresh", req[r].active, TRUE)
    BY <2>1, <2>2, JudgedSerialKnows
  <2>3. CASE req'[r] = [req[r] EXCEPT !.pc = "reread"]
    BY <1>t, <2>3 DEF Req, SerialKnows, Retrying, Alarming, Revoking
  <2> QED BY <1>4, <1>t, <2>2, <2>3 DEF Consume
<1>5. CASE MarkReplayed(r)
  <2>1. req[r].pc = "replay" /\ row' = row /\ req[r].reason = "family_revoked"
    BY <1>5, <1>t DEF MarkReplayed, ReqOK
  <2>2. req'[r].pc = "select" /\ req'[r].token = p /\ req'[r].reason = "family_revoked"
    BY <1>5, <1>t, <2>1 DEF MarkReplayed, Req
  <2> QED BY <2>1, <2>2 DEF SerialKnows, Retrying, Alarming, Revoking
<1>6. CASE SelectRows(r)
  <2>1. req[r].pc = "select" /\ row' = row
    BY <1>6 DEF SelectRows
  <2>2. /\ req'[r].pc = "update" /\ req'[r].token = p /\ req'[r].reason = req[r].reason
        /\ req'[r].consumed = req[r].consumed
    BY <1>6, <1>t DEF SelectRows, Req
  <2> QED BY <2>1, <2>2 DEF SerialKnows, Retrying, Alarming, Revoking
<1>7. CASE Revoke(r) \/ Exchange(r) \/ IssueForLogin(r) \/ Abort(r)
  BY <1>0, <1>7, <1>t DEF Revoke, Exchange, IssueForLogin, Abort, Answer
<1> QED BY <1>1, <1>2, <1>3, <1>4, <1>5, <1>6, <1>7 DEF Step

LEMMA SerialKnowsStep ==
  ASSUME OneSlot, IInv, \A r \in Request : SerialKnows(r), [Next]_vars
  PROVE  \A r \in Request : SerialKnows(r)'
<1>1. ASSUME NEW s \in Request, Step(s), NEW r \in Request PROVE SerialKnows(r)'
  BY <1>1, OwnStepSerialKnows DEF OneSlot
<1>2. ASSUME Prune, NEW r \in Request PROVE SerialKnows(r)'
  <2>1. req' = req /\ \A t \in Token : row'[t].revoked_reason = row[t].revoked_reason
    BY <1>2, PruneEffect
  <2>2. Retrying(r) \/ Alarming(r) => req[r].token \in Token
    BY DEF IInv, TypeOK, HasSubject, Retrying, Alarming, Revoking
  <2> QED BY <2>1, <2>2 DEF SerialKnows, Retrying, Alarming, Revoking
<1>3. ASSUME UNCHANGED <<row, req>>, NEW r \in Request PROVE SerialKnows(r)'
  BY <1>3 DEF SerialKnows, Retrying, Alarming, Revoking
<1> QED BY <1>1, <1>2, <1>3 DEF Next, vars, SetActive, Tick

SerialKnowledge == \A r \in Request : SerialKnows(r)

LEMMA SerialKnowledgeInvariant == ASSUME OneSlot PROVE Spec => []SerialKnowledge
<1>1. Init => SerialKnowledge
  BY DEF Init, Idle, SerialKnowledge, SerialKnows, Retrying, Alarming, Revoking
<1>2. IInv /\ SerialKnowledge /\ [Next]_vars => SerialKnowledge'
  BY SerialKnowsStep DEF SerialKnowledge
<1> QED BY Inductive, <1>1, <1>2, PTL DEF Spec

(* Alone, an UPDATE finds at its commit all it saw when it began, and that *)
(* is all the ledger's operation is about.                                 *)
LEMMA ReachesAll ==
  ASSUME IInv, Knows, NEW r \in Request, SerialReq(r), req[r].pc = "update"
  PROVE  LET p == req[r].token IN
         /\ req[r].reason = "superseded" =>
              {u \in Token : row[u].family = row[p].family /\ ~NotLive(u)} \subseteq Reached(r)
         /\ req[r].reason \in {"inactive", "logout"} =>
              {u \in Token : row[u].family = row[p].family /\ ~Closed(u)} \subseteq Reached(r)
         /\ req[r].reason = "family_revoked" =>
              {u \in Token \ {p} :
                 Minted(u) /\ ~Closed(u) /\ Owner[row[u].family] = Owner[row[p].family]}
                 \subseteq Reached(r)
<1> DEFINE p == req[r].token
<1>t. p \in Token /\ ReqOK(r) /\ KnowsOK(r) /\ FamilyOf(r) = row[p].family
  BY ReqTypes
<1>1. \A u \in Token : Matches(r, u) => u \in Reached(r)
  BY DEF SerialReq, Reached, Revokes
<1>2. CASE req[r].reason = "superseded"
  <2>1. SpentWithin(p, req[r].at) /\ ~req[r].replayed
    BY <1>t, <1>2 DEF KnowsOK, Retrying, Revoking, ReqOK
  <2>2. NotLive(p)
    BY <2>1 DEF SpentWithin, SpentAt, NotLive
  <2> QED BY <1>t, <1>1, <1>2, <2>1, <2>2 DEF Matches, NotLive, MarksReplayed
<1>3. CASE req[r].reason \in {"inactive", "logout"}
  BY <1>t, <1>1, <1>3 DEF ReqOK, Matches, Closed, MarksReplayed
<1>4. CASE req[r].reason = "family_revoked"
  BY <1>t, <1>1, <1>4 DEF Matches, Closed, MarksReplayed
<1> QED BY <1>2, <1>3, <1>4

LEMMA SessionTerms ==
  ASSUME IInv
  PROVE  /\ Sessions!Issued = {t \in Token : Minted(t)}
         /\ \A t \in Token :
              /\ Sessions!Open(t) <=> ~Closed(t)
              /\ Sessions!Live(t) <=> ~NotLive(t)
              /\ \A at : Sessions!Usable(t, at) <=> at < row[t].expires_at
         /\ \A f, c, at : Sessions!Fresh(f, c, at) = Ledger!Fresh(f, c, at)
<1>1. Sessions!Issued = Ledger!Issued
  BY DEF Sessions!Issued, Ledger!Issued
<1>2. \A t \in Token : Sessions!Open(t) <=> Ledger!Open(t)
  BY <1>1 DEF Sessions!Open, Ledger!Open
<1>3. \A t \in Token : Sessions!Live(t) <=> Ledger!Live(t)
  BY <1>2 DEF Sessions!Live, Ledger!Live, Sessions!Never, Ledger!Never
<1>4. \A t \in Token : \A at : Sessions!Usable(t, at) <=> Ledger!Usable(t, at)
  BY DEF Sessions!Usable, Ledger!Usable
<1>5. \A f, c, at : Sessions!Fresh(f, c, at) = Ledger!Fresh(f, c, at)
  BY DEF Sessions!Fresh, Ledger!Fresh, Sessions!Never, Ledger!Never
<1> QED BY <1>1, <1>2, <1>3, <1>4, <1>5, LedgerTerms

(* Alone, every commit is an operation of the ledger that misses nothing   *)
(* and revives nothing.                                                    *)
LEMMA SessionCommit ==
  ASSUME IInv, Knows, LoginsMintNewFamilies, SerialInv, SerialKnowledge,
         (\E r \in Request : Revoke(r) \/ Exchange(r) \/ IssueForLogin(r)) \/ Prune
  PROVE  Sessions!Operation /\ now' = now
<1>t. /\ Sessions!Issued = {t \in Token : Minted(t)}
      /\ \A t \in Token :
           /\ EntryNow[t] = Entry(row[t])
           /\ EntryNow[t].spent = SpentAt(t)
           /\ EntryNow[t].family = row[t].family
           /\ Sessions!Open(t) <=> ~Closed(t)
           /\ Sessions!Live(t) <=> ~NotLive(t)
           /\ \A at : Sessions!Usable(t, at) <=> at < row[t].expires_at
      /\ \A f, c, at : Sessions!Fresh(f, c, at) = Ledger!Fresh(f, c, at)
  BY SessionTerms, LedgerTerms
<1>h. ASSUME NEW p \in Token, NEW at, SpentWithin(p, at),
             row[p].revoked_reason \in {"none", "superseded"}
      PROVE  Sessions!Honest(p, at)
  <2>1. EntryNow[p].fate \in {"open", "superseded"}
    BY <1>t, <1>h, EntryFields
  <2> QED BY <1>t, <1>h, <2>1 DEF SpentWithin, Sessions!Honest, Sessions!Never, Null
<1>f. ASSUME NEW p \in Token, row[p] \in Row,
             row[p].revoked_reason \notin {"logout", "inactive", "family_revoked"}
      PROVE  EntryNow[p].fate # "ended"
  <2>1. row[p].revoked_reason \in {"none", "superseded", "reuse"}
    BY <1>f DEF Row, RevocationReason
  <2> QED BY <1>t, <2>1, EntryFields
<1>1. ASSUME NEW p, NEW n, NEW at, RotateEntries(p, n, at)
      PROVE  Sessions!Operation /\ now' = now
  <2>1. Sessions!Rotate(p, n, at)
    BY <1>t, <1>1 DEF RotateEntries, Sessions!Rotate
  <2> QED BY <1>t, <1>1, <2>1 DEF RotateEntries, Past, Sessions!Operation
<1>2. ASSUME NEW r \in Request, req[r].pc = "update", Revoking(r, "superseded"),
             NEW n, RetryEntries(req[r].token, n, req[r].at, Reached(r))
      PROVE  Sessions!Operation /\ now' = now
  <2> DEFINE p == req[r].token
             at == req[r].at
             S == Reached(r)
  <2>t. p \in Token /\ row[p] \in Row /\ SerialKnows(r) /\ SerialReq(r)
    BY <1>2, ReqTypes DEF SerialKnowledge, SerialInv
  <2>1. Sessions!Honest(p, at)
    BY <1>h, <1>2, <2>t DEF RetryEntries, SerialKnows, Retrying
  <2>2. S = {u \in Token : row[u].family = row[p].family /\ ~NotLive(u)}
    BY <1>2, <2>t, ReachesAll DEF RetryEntries, Revoking
  <2>3. S \in Sessions!Reach({u \in Sessions!Siblings(p) : Sessions!Live(u)})
    BY <1>t, <2>t, <2>2 DEF Sessions!Reach, Sessions!Siblings
  <2> HIDE DEF p, at, S
  <2>4. Sessions!Retry(p, n, at)
    BY <1>t, <1>2, <2>t, <2>1, <2>3 DEF RetryEntries, Sessions!Retry, p, at, S
  <2> QED BY <1>t, <1>2, <2>4 DEF RetryEntries, Past, Sessions!Operation, p, at
<1>3. ASSUME NEW r \in Request, Revoke(r), req[r].reason = "family_revoked",
             AlarmEntries(req[r].token, req[r].at, Reached(r))
      PROVE  Sessions!Operation /\ now' = now
  <2> DEFINE p == req[r].token
             at == req[r].at
             S == Reached(r)
  <2>t. /\ p \in Token /\ row[p] \in Row /\ SerialKnows(r) /\ SerialReq(r)
        /\ req[r].pc = "update"
    BY <1>3, ReqTypes DEF SerialKnowledge, SerialInv, Revoke
  <2>1. Sessions!Stolen(p, at)
    <3>1. row[p].revoked_reason \notin {"logout", "inactive", "family_revoked"}
      BY <1>3, <2>t DEF SerialKnows, Alarming, Revoking
    <3>2. EntryNow[p].fate # "ended"
      BY <1>f, <2>t, <3>1
    <3>3. row[p].revoked_reason = "reuse" => EntryNow[p].fate = "replayed"
      BY <1>t, <2>t, EntryFields
    <3> QED BY <1>t, <1>3, <2>t, <3>2, <3>3
            DEF AlarmEntries, SpentBefore, Sessions!Stolen, Sessions!Never, Null
  <2>2. S = {u \in Token \ {p} :
               Minted(u) /\ ~Closed(u) /\ Owner[row[u].family] = Owner[row[p].family]}
    BY <1>3, <2>t, ReachesAll DEF AlarmEntries
  <2>3. S \in Sessions!Reach({u \in Sessions!OfOwner(p) \ {p} : Sessions!Open(u)})
    BY <1>t, <2>t, <2>2 DEF Sessions!Reach, Sessions!OfOwner
  <2> HIDE DEF p, at, S
  <2>4. Sessions!Alarm(p, at)
    BY <1>t, <1>3, <2>t, <2>1, <2>3 DEF AlarmEntries, Sessions!Alarm, p, at, S
  <2> QED BY <1>t, <1>3, <2>4 DEF AlarmEntries, Past, Sessions!Operation, p, at
<1>4. ASSUME NEW r \in Request, Revoke(r), req[r].reason = "inactive",
             DeactivateEntries(req[r].token, req[r].at, Reached(r))
      PROVE  Sessions!Operation /\ now' = now
  <2> DEFINE p == req[r].token
             at == req[r].at
             S == Reached(r)
  <2>t. /\ p \in Token /\ row[p] \in Row /\ SerialKnows(r) /\ SerialReq(r) /\ ReqOK(r)
        /\ req[r].pc = "update"
    BY <1>4, ReqTypes DEF SerialKnowledge, SerialInv, Revoke
  <2>1. Sessions!Live(p) \/ Sessions!Honest(p, at)
    <3>1. ~req[r].consumed => row[p].revoked_reason \in {"none", "superseded"}
      BY <1>4, <2>t DEF SerialKnows, Retrying, Revoking
    <3>2. req[r].consumed => ~NotLive(p)
      BY <2>t DEF ReqOK
    <3> QED BY <1>t, <1>h, <1>4, <2>t, <3>1, <3>2 DEF DeactivateEntries
  <2>2. S = {u \in Token : row[u].family = row[p].family /\ ~Closed(u)}
    BY <1>4, <2>t, ReachesAll DEF DeactivateEntries
  <2>3. S \in Sessions!Reach({u \in Sessions!Siblings(p) : Sessions!Open(u)})
    BY <1>t, <2>t, <2>2 DEF Sessions!Reach, Sessions!Siblings
  <2> HIDE DEF p, at, S
  <2>4. Sessions!Deactivate(p, at)
    BY <1>t, <1>4, <2>t, <2>1, <2>3 DEF DeactivateEntries, Sessions!Deactivate, p, at, S
  <2> QED BY <1>t, <1>4, <2>4 DEF DeactivateEntries, Past, Sessions!Operation, p, at
<1>5. ASSUME NEW r \in Request, Revoke(r), req[r].reason = "logout",
             LogoutEntries(req[r].token, Reached(r))
      PROVE  Sessions!Operation /\ now' = now
  <2> DEFINE p == req[r].token
             S == Reached(r)
  <2>t. p \in Token /\ SerialReq(r) /\ req[r].pc = "update"
    BY <1>5, ReqTypes DEF SerialInv, Revoke
  <2>1. S = {u \in Token : row[u].family = row[p].family /\ ~Closed(u)}
    BY <1>5, <2>t, ReachesAll DEF LogoutEntries
  <2>2. S \in Sessions!Reach({u \in Sessions!Siblings(p) : Sessions!Open(u)})
    BY <1>t, <2>t, <2>1 DEF Sessions!Reach, Sessions!Siblings
  <2> HIDE DEF p, S
  <2>3. Sessions!Logout(p)
    BY <1>5, <2>2 DEF LogoutEntries, Sessions!Logout, p, S
  <2> QED BY <1>t, <1>5, <2>3 DEF LogoutEntries, Sessions!Operation, p
<1>6. ASSUME NEW r \in Request, IssueForLogin(r)
      PROVE  Sessions!Operation /\ now' = now
  <2>1. PICK f \in Family, n \in Token, at \in 0..now :
           /\ ~Minted(n) /\ now' = now
           /\ \A t \in Token : row[t].family # f
           /\ EntryNow' = [EntryNow EXCEPT ![n] = Ledger!Fresh(f, at + FAMILY_TTL, at)]
    BY <1>6, LoginEntries
  <2>2. Sessions!Login(f, n, at)
    BY <1>t, <2>1 DEF Sessions!Login
  <2> QED BY <1>t, <2>1, <2>2 DEF Sessions!Operation
<1>7. CASE Prune
  <2>1. PICK S \in SUBSET {t \in Token : Minted(t)} :
           /\ now' = now
           /\ \A t \in S : row[t].expires_at <= now
           /\ EntryNow' = [t \in Token |-> IF t \in S THEN [EntryNow[t] EXCEPT !.gone = TRUE]
                                           ELSE EntryNow[t]]
    BY <1>7, PruneEntries
  <2>2. \A t \in S : ~Sessions!Usable(t, now)
    <3>1. \A t \in S : row[t].expires_at \in Int /\ now \in Int
      BY DEF IInv, TypeOK, Row, Instant
    <3> QED BY <1>t, <2>1, <3>1
  <2>3. Sessions!Forget(S)
    BY <2>1, <2>2 DEF Sessions!Forget
  <2> QED BY <1>t, <2>1, <2>3 DEF Sessions!Operation
<1>8. ASSUME NEW r \in Request, Exchange(r) PROVE Sessions!Operation /\ now' = now
  BY <1>1, <1>2, <1>8, ExchangeEntries
<1>9. ASSUME NEW r \in Request, Revoke(r) PROVE Sessions!Operation /\ now' = now
  BY <1>3, <1>4, <1>5, <1>9, RevokeEntries
<1> QED BY <1>6, <1>7, <1>8, <1>9

LEMMA SessionInit == Init => Sessions!Init
  BY LedgerInit DEF Ledger!Init, Sessions!Init, Ledger!Unissued, Sessions!Unissued,
     Ledger!Never, Sessions!Never

LEMMA SessionNext ==
  IInv /\ Knows /\ CeilingInv /\ SerialInv /\ SerialKnowledge /\ [Next]_vars
     => [Sessions!Next]_(Sessions!vars)
<1> SUFFICES ASSUME IInv, Knows, LoginsMintNewFamilies, SerialInv, SerialKnowledge, [Next]_vars
             PROVE  [Sessions!Next]_(Sessions!vars)
  BY DEF CeilingInv
<1>1. CASE (\E r \in Request : Revoke(r) \/ Exchange(r) \/ IssueForLogin(r)) \/ Prune
  BY <1>1, SessionCommit DEF Sessions!Next, Sessions!vars
<1>2. CASE EntryNow' = EntryNow /\ (now' = now \/ now' = now + 1)
  BY <1>2 DEF Sessions!Next, Sessions!vars
<1> QED BY <1>1, <1>2, NothingCommitted

(* With the exchanges of all users one after another the table keeps the   *)
(* docstring's promises to the letter (refresh.py:5-26, 158-205): a retry  *)
(* replaces every live token of its family, a cascade, a logout or a       *)
(* deactivation reaches every open one, and a token it ended opens nothing.*)
THEOREM TableImplementsSessions == ASSUME OneSlot PROVE Spec => ImplementsSessions
BY SessionInit, SessionNext, Inductive, KnowledgeInvariant, CeilingInvariant, SerialInvariant,
   SerialKnowledgeInvariant, PTL DEF Spec, Sessions!Spec, ImplementsSessions
=============================================================================
