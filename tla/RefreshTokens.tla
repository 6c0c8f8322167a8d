--------------------------- MODULE RefreshTokens ---------------------------
(***************************************************************************)
(* The refresh-token table and the requests that work on it                *)
(* (src/backend/app/security/refresh.py, src/backend/app/routers/auth.py). *)
(*                                                                         *)
(* A family is one device's chain of tokens.  Every exchange consumes the  *)
(* token presented and issues its successor; presenting a consumed token   *)
(* is honest inside a grace window and theft after it.                     *)
(*                                                                         *)
(* Each request runs in its own PostgreSQL transaction at READ COMMITTED,  *)
(* so the model keeps apart what is committed (row) and what a request has *)
(* written and not committed yet (req[r].consumed, req[r].replayed):       *)
(*   - a SELECT sees the committed rows and the request's own writes;      *)
(*   - an UPDATE chooses its rows by such a snapshot, then waits for the   *)
(*     row locks of other transactions, and asks its WHERE again of each   *)
(*     row as it stands once the lock is free;                             *)
(*   - a written row stays locked until commit or rollback.                *)
(* A statement takes all its row locks in one step, and the last statement *)
(* of a transaction and its commit are one step.  Columns only ever go     *)
(* from NULL to a value and a lock held shows nothing to a reader, so      *)
(* taking the locks one by one, or earlier, reaches the same committed     *)
(* states; a deadlock between two statements ends, as in PostgreSQL, with  *)
(* one of them aborted (Abort).                                            *)
(***************************************************************************)
EXTENDS Integers, FiniteSets

CONSTANTS
    Token,            \* token values; 32 random bytes never repeat
    Request,          \* request slots: how many requests overlap
    Family, User,
    Owner,            \* Owner[f]: the user whose login mints family f
    NoToken, NoFamily,
    GRACE_PERIOD, TOKEN_TTL, FAMILY_TTL, PRUNE_RETENTION,
    MaxTime           \* bound on the clock

ASSUME OwnerAssumption == Owner \in [Family -> User]
ASSUME NullAssumption == NoToken \notin Token /\ NoFamily \notin Family
ASSUME PeriodAssumption ==
    /\ GRACE_PERIOD \in Nat
    /\ TOKEN_TTL \in Nat \ {0}
    /\ FAMILY_TTL \in Nat \ {0}
    /\ PRUNE_RETENTION \in Nat
    /\ MaxTime \in Nat

VARIABLES
    now,      \* the wall clock
    active,   \* active[u]: users.is_active
    row,      \* row[t]: the committed row of refresh_tokens
    req       \* req[r]: the request in slot r and its open transaction

vars == <<now, active, row, req>>

-----------------------------------------------------------------------------
(* Types *)

Null == -1
Instant == Nat
RevocationReason == {"superseded", "logout", "inactive", "reuse", "family_revoked"}

Row == [state: {"unminted", "stored", "pruned"},
        family: Family \cup {NoFamily},
        issued_at: Instant, expires_at: Instant, family_expires_at: Instant,
        used_at: Instant \cup {Null}, revoked_at: Instant \cup {Null},
        revoked_reason: RevocationReason \cup {"none"},
        \* History: the token this one was exchanged for, and how.
        parent: Token \cup {NoToken}, by_grace: BOOLEAN]

Blank == [state |-> "unminted", family |-> NoFamily,
          issued_at |-> 0, expires_at |-> 0, family_expires_at |-> 0,
          used_at |-> Null, revoked_at |-> Null, revoked_reason |-> "none",
          parent |-> NoToken, by_grace |-> FALSE]

(* pc: the statement the request is about to run.                          *)
Req == [pc: {"idle", "load", "consume", "reread", "replay", "select", "update",
             "issue", "issue_login"},
        at: Instant,                    \* the instant read at the start
        token: Token \cup {NoToken},    \* the token presented
        family: Family \cup {NoFamily}, \* the family a login is minting
        active: BOOLEAN,                \* is_active as it was loaded
        consumed: BOOLEAN,              \* wrote used_at on token
        replayed: BOOLEAN,              \* wrote revoked_at, "reuse" on token
        reason: RevocationReason \cup {"none"},  \* of the UPDATE it runs
        targets: SUBSET Token]          \* the rows that UPDATE chose

Idle == [pc |-> "idle", at |-> 0, token |-> NoToken, family |-> NoFamily,
         active |-> FALSE, consumed |-> FALSE, replayed |-> FALSE,
         reason |-> "none", targets |-> {}]

Stored(t) == row[t].state = "stored"
Minted(t) == row[t].state # "unminted"

(* A request at a statement has what the statement is about.               *)
HasSubject(q) ==
    /\ q.pc \notin {"idle", "issue_login"} => q.token \in Token /\ Minted(q.token)
    /\ q.pc = "issue_login" => q.family \in Family

(* A reason and its timestamp are written by the same statement, so a row  *)
(* never carries one without the other, and a stored row has a family.     *)
TypeOK ==
    /\ now \in Instant
    /\ active \in [User -> BOOLEAN]
    /\ row \in [Token -> Row]
    /\ req \in [Request -> Req]
    /\ \A t \in Token : /\ (row[t].revoked_at = Null) <=> (row[t].revoked_reason = "none")
                        /\ Minted(t) => row[t].family \in Family
    /\ \A r \in Request : HasSubject(req[r])

-----------------------------------------------------------------------------
(* What a presented row says about itself, in the order the questions are  *)
(* asked.                                                                  *)

(* Fault: the exchange is looked at before the revocation.                 *)
ClassifyUseFirst(tok, at) ==
    IF tok.family_expires_at <= at THEN "family_expired"
    ELSE IF tok.expires_at <= at THEN "expired"
    ELSE IF tok.used_at # Null /\ at - tok.used_at <= GRACE_PERIOD THEN "grace"
    ELSE IF tok.revoked_at = Null /\ tok.used_at = Null THEN "fresh"
    ELSE IF tok.revoked_reason \in {"none", "reuse"} THEN "reuse"
    ELSE IF tok.revoked_reason # "superseded" THEN "revoked"
    ELSE IF at - tok.revoked_at <= GRACE_PERIOD THEN "grace" ELSE "reuse"

(* Fault: the window excludes its last moment.                             *)
ClassifyShortWindow(tok, at) ==
    IF tok.used_at # Null /\ tok.revoked_at = Null /\ at - tok.used_at >= GRACE_PERIOD
    THEN "reuse" ELSE ClassifyUseFirst(tok, at)

(* Fault: the window is a tick too long.                                   *)
ClassifyLongWindow(tok, at) ==
    IF /\ tok.family_expires_at > at /\ tok.expires_at > at
       /\ tok.used_at # Null /\ tok.revoked_at = Null /\ at - tok.used_at <= GRACE_PERIOD + 1
    THEN "grace" ELSE ClassifyUseFirst(tok, at)

Classify(tok, at) ==
    IF tok.family_expires_at <= at THEN "family_expired"
    ELSE IF tok.expires_at <= at THEN "expired"
    ELSE IF tok.revoked_reason = "superseded"
         THEN IF at - tok.revoked_at <= GRACE_PERIOD THEN "grace" ELSE "reuse"
    ELSE IF tok.revoked_at # Null
         THEN IF tok.revoked_reason = "reuse" THEN "reuse" ELSE "revoked"
    ELSE IF tok.used_at = Null THEN "fresh"
    ELSE IF at - tok.used_at <= GRACE_PERIOD THEN "grace" ELSE "reuse"

-----------------------------------------------------------------------------
(* The transaction of request r *)

(* The row r has written and not committed: only the presented one is ever *)
(* written before the last statement.                                      *)
Consumes(r, t) == req[r].consumed /\ t = req[r].token
MarksReplayed(r, t) == req[r].replayed /\ t = req[r].token
Locks(r, t) == Consumes(r, t) \/ MarksReplayed(r, t)
HeldByOther(r, t) == \E q \in Request \ {r} : Locks(q, t)

(* The family the request's UPDATE is about.                               *)
FamilyOf(r) == row[req[r].token].family

(* Fault: a retry supersedes nothing.                                      *)
MatchesNoLeaf(r, t) ==
    /\ Stored(t) /\ row[t].revoked_at = Null /\ row[t].family = FamilyOf(r)
    /\ req[r].reason # "superseded"

(* Fault: a revocation overwrites an earlier one.                          *)
MatchesRevokedToo(r, t) ==
    /\ Stored(t) /\ row[t].family = FamilyOf(r)
    /\ req[r].reason = "superseded" => t # req[r].token /\ row[t].used_at = Null

(* WHERE of the revoking UPDATEs: _supersede_leaves, revoke_family and     *)
(* revoke_all_families_of_user, each with _mark_revoked's revoked_at IS    *)
(* NULL.  A row is judged as committed, but for the one r marked itself.   *)
Matches(r, t) ==
    /\ Stored(t) /\ row[t].revoked_at = Null /\ ~MarksReplayed(r, t)
    /\ CASE req[r].reason = "superseded" ->
                /\ row[t].family = FamilyOf(r)
                /\ t # req[r].token
                /\ row[t].used_at = Null
         [] req[r].reason \in {"logout", "inactive"} -> row[t].family = FamilyOf(r)
         [] req[r].reason = "family_revoked" ->
                Owner[row[t].family] = Owner[FamilyOf(r)]
         [] OTHER -> FALSE

Revokes(r, t) == t \in req[r].targets /\ Matches(r, t)

(* Row t once the transaction of r is committed: the consumption or the    *)
(* mark on the presented row, and the rows its UPDATE still matches.       *)
Written(r, t) ==
    [row[t] EXCEPT
        !.used_at = IF Consumes(r, t) THEN req[r].at ELSE @,
        !.revoked_at = IF Revokes(r, t) \/ MarksReplayed(r, t) THEN req[r].at ELSE @,
        !.revoked_reason = IF MarksReplayed(r, t) THEN "reuse"
                           ELSE IF Revokes(r, t) THEN req[r].reason
                           ELSE @]

(* _issue: sliding expiry inside the family's ceiling.                     *)
NewRow(family, ceiling, at, parent, by_grace) ==
    [state |-> "stored", family |-> family, issued_at |-> at,
     expires_at |-> IF at + TOKEN_TTL < ceiling THEN at + TOKEN_TTL ELSE ceiling,
     family_expires_at |-> ceiling,
     used_at |-> Null, revoked_at |-> Null, revoked_reason |-> "none",
     parent |-> parent, by_grace |-> by_grace]

(* Leave the handler: the session closes and what was not committed is     *)
(* rolled back.                                                            *)
Answer(r) == req' = [req EXCEPT ![r] = Idle]

-----------------------------------------------------------------------------
(* POST /auth/refresh *)

(* What rotate does with a verdict, in the order its branches stand.       *)
Judged(r, verdict, isActive, consumed) ==
    CASE verdict \in {"expired", "family_expired", "revoked"} -> Idle
      [] verdict = "reuse" ->
            [req[r] EXCEPT !.pc = "replay", !.reason = "family_revoked"]
      [] verdict \in {"fresh", "grace"} /\ ~isActive ->
            [req[r] EXCEPT !.pc = "select", !.reason = "inactive", !.consumed = consumed]
      [] verdict = "grace" /\ isActive ->
            [req[r] EXCEPT !.pc = "select", !.reason = "superseded"]
      [] verdict = "fresh" /\ isActive ->
            [req[r] EXCEPT !.pc = "issue", !.consumed = consumed]

Refresh(r, t) ==
    /\ req[r].pc = "idle"
    /\ Minted(t)
    /\ req' = [req EXCEPT ![r] = [Idle EXCEPT !.pc = "load", !.at = now, !.token = t]]
    /\ UNCHANGED <<now, active, row>>

(* _load, then classify_presented_token; an unknown token is refused.      *)
Load(r) ==
    /\ req[r].pc = "load"
    /\ LET t == req[r].token
           verdict == Classify(row[t], req[r].at)
           isActive == active[Owner[row[t].family]]
       IN  IF ~Stored(t) THEN Answer(r)
           ELSE req' = [req EXCEPT ![r] =
                    IF verdict = "fresh"
                    THEN [req[r] EXCEPT !.pc = "consume", !.active = isActive]
                    ELSE Judged(r, verdict, isActive, FALSE)]
    /\ UNCHANGED <<now, active, row>>

(* Fault: the exchange trusts the SELECT.                                  *)
ConsumeUnguarded(r) ==
    /\ req[r].pc = "consume"
    /\ ~HeldByOther(r, req[r].token)
    /\ req' = [req EXCEPT ![r] = Judged(r, "fresh", req[r].active, TRUE)]
    /\ UNCHANGED <<now, active, row>>

(* _consume: UPDATE ... WHERE used_at IS NULL AND revoked_at IS NULL.      *)
Consume(r) ==
    /\ req[r].pc = "consume"
    /\ LET t == req[r].token
           free == Stored(t) /\ row[t].used_at = Null /\ row[t].revoked_at = Null
       IN  \/ /\ free
              /\ ~HeldByOther(r, t)
              /\ req' = [req EXCEPT ![r] = Judged(r, "fresh", req[r].active, TRUE)]
           \/ /\ ~free
              /\ req' = [req EXCEPT ![r].pc = "reread"]
    /\ UNCHANGED <<now, active, row>>

(* Fault: whoever comes second is taken for a retry.                       *)
RereadAsRetry(r) ==
    /\ req[r].pc = "reread"
    /\ req' = [req EXCEPT ![r] = Judged(r, "grace", req[r].active, FALSE)]
    /\ UNCHANGED <<now, active, row>>

(* Somebody else consumed it: read the row back and judge it again.        *)
Reread(r) ==
    /\ req[r].pc = "reread"
    /\ LET t == req[r].token
       IN  IF ~Stored(t) THEN Answer(r)
           ELSE req' = [req EXCEPT ![r] = Judged(r, Classify(row[t], req[r].at),
                                                active[Owner[row[t].family]], FALSE)]
    /\ UNCHANGED <<now, active, row>>

(* _mark_replayed: the presented row alone, if nothing revoked it before.  *)
MarkReplayed(r) ==
    /\ req[r].pc = "replay"
    /\ LET t == req[r].token
           live == Stored(t) /\ row[t].revoked_at = Null
       IN  /\ live => ~HeldByOther(r, t)
           /\ req' = [req EXCEPT ![r].pc = "select",
                                 ![r].replayed = live]
    /\ UNCHANGED <<now, active, row>>

-----------------------------------------------------------------------------
(* The revoking UPDATE of a refresh or a logout: its snapshot, then its    *)
(* locks and its second look.                                              *)

SelectRows(r) ==
    /\ req[r].pc = "select"
    /\ req' = [req EXCEPT ![r].pc = "update",
                          ![r].targets = {t \in Token : Matches(r, t)}]
    /\ UNCHANGED <<now, active, row>>

(* The locks the UPDATE waits for.                                         *)
LocksFree(r) == \A t \in req[r].targets : ~HeldByOther(r, t)

(* _revoke: the UPDATE and its commit.  The refusal or the 204 that        *)
(* follows has nothing left to write.                                      *)
Revoke(r) ==
    /\ req[r].pc = "update"
    /\ req[r].reason # "superseded"
    /\ LocksFree(r)
    /\ row' = [t \in Token |-> Written(r, t)]
    /\ Answer(r)
    /\ UNCHANGED <<now, active>>

(* Fault: the retry commits before its successor exists.                   *)
SupersedeThenIssue(r) ==
    \/ /\ req[r].pc = "update"
       /\ req[r].reason = "superseded"
       /\ LocksFree(r)
       /\ row' = [t \in Token |-> Written(r, t)]
       /\ req' = [req EXCEPT ![r].targets = {}, ![r].pc = "issue"]
       /\ UNCHANGED <<now, active>>
    \/ /\ req[r].pc = "issue"
       /\ \E n \in Token :
            /\ ~Minted(n)
            /\ row' = [t \in Token |->
                          IF t = n
                          THEN NewRow(FamilyOf(r), row[req[r].token].family_expires_at,
                                      req[r].at, req[r].token, req[r].reason = "superseded")
                          ELSE Written(r, t)]
       /\ Answer(r)
       /\ UNCHANGED <<now, active>>

(* The end of a rotation: a fresh one has consumed the token already, a    *)
(* grace one first supersedes the leaves; then the successor is issued and *)
(* the whole exchange committed.                                           *)
Exchange(r) ==
    /\ \/ req[r].pc = "issue"
       \/ req[r].pc = "update" /\ req[r].reason = "superseded" /\ LocksFree(r)
    /\ \E n \in Token :
        /\ ~Minted(n)
        /\ row' = [t \in Token |->
                      IF t = n
                      THEN NewRow(FamilyOf(r), row[req[r].token].family_expires_at,
                                  req[r].at, req[r].token, req[r].reason = "superseded")
                      ELSE Written(r, t)]
    /\ Answer(r)
    /\ UNCHANGED <<now, active>>

(* A database error, or a deadlock's victim: the transaction is rolled     *)
(* back (a 500, or the 204 that logout promises whatever happens).         *)
Abort(r) ==
    /\ req[r].pc # "idle"
    /\ Answer(r)
    /\ UNCHANGED <<now, active, row>>

-----------------------------------------------------------------------------
(* POST /auth/login, POST /auth/logout, the pruning command, the world     *)

(* The password was right and the account active; a refused login changes  *)
(* no row of this table.  uuid4 gives the family.                          *)
Login(r, f) ==
    /\ req[r].pc = "idle"
    /\ active[Owner[f]]
    /\ \A t \in Token : row[t].family # f
    /\ \A q \in Request : req[q].family # f
    /\ req' = [req EXCEPT ![r] = [Idle EXCEPT !.pc = "issue_login", !.at = now, !.family = f]]
    /\ UNCHANGED <<now, active, row>>

IssueForLogin(r) ==
    /\ req[r].pc = "issue_login"
    /\ \E n \in Token :
        /\ ~Minted(n)
        /\ row' = [row EXCEPT ![n] = NewRow(req[r].family, req[r].at + FAMILY_TTL,
                                            req[r].at, NoToken, FALSE)]
    /\ Answer(r)
    /\ UNCHANGED <<now, active>>

(* revoke_family_for_token: find the family, then revoke it; a token that  *)
(* is not in the table revokes nothing.                                    *)
Logout(r, t) ==
    /\ req[r].pc = "idle"
    /\ Stored(t)
    /\ req' = [req EXCEPT ![r] = [Idle EXCEPT !.pc = "select", !.at = now, !.token = t,
                                              !.reason = "logout"]]
    /\ UNCHANGED <<now, active, row>>

(* Fault: revocation, not expiry, starts the retention.                    *)
PrunableWhenRevoked(t) ==
    /\ Stored(t)
    /\ \/ row[t].expires_at <= now - PRUNE_RETENTION
       \/ row[t].revoked_at # Null /\ row[t].revoked_at <= now - PRUNE_RETENTION

Prunable(t) ==
    /\ Stored(t)
    /\ row[t].expires_at <= now - PRUNE_RETENTION
    /\ \/ row[t].revoked_at = Null
       \/ row[t].revoked_at <= now - PRUNE_RETENTION

(* prune_expired: one DELETE, its own process, committed at once.          *)
Prune ==
    /\ \E t \in Token : Prunable(t)
    /\ \A t \in Token, r \in Request : Prunable(t) => ~Locks(r, t)
    /\ row' = [t \in Token |->
                  IF Prunable(t) THEN [row[t] EXCEPT !.state = "pruned"] ELSE row[t]]
    /\ UNCHANGED <<now, active, req>>

(* An operator of the installation edits users.is_active by hand.          *)
SetActive(u) ==
    /\ active' = [active EXCEPT ![u] = ~@]
    /\ UNCHANGED <<now, row, req>>

Tick ==
    /\ now < MaxTime
    /\ now' = now + 1
    /\ UNCHANGED <<active, row, req>>

-----------------------------------------------------------------------------

Init ==
    /\ now = 0
    /\ active = [u \in User |-> TRUE]
    /\ row = [t \in Token |-> Blank]
    /\ req = [r \in Request |-> Idle]

Step(r) ==
    \/ \E t \in Token : Refresh(r, t) \/ Logout(r, t)
    \/ \E f \in Family : Login(r, f)
    \/ Load(r) \/ Consume(r) \/ Reread(r) \/ MarkReplayed(r)
    \/ SelectRows(r) \/ Revoke(r) \/ Exchange(r)
    \/ IssueForLogin(r) \/ Abort(r)

Next ==
    \/ \E r \in Request : Step(r)
    \/ \E u \in User : SetActive(u)
    \/ Prune
    \/ Tick

Spec == Init /\ [][Next]_vars

-----------------------------------------------------------------------------
(* Properties that hold however requests overlap *)

(* A token is exchanged as fresh at most once, however many requests       *)
(* present it together: any second successor it has came through the grace *)
(* window (the WHERE of _consume decides, refresh.py:489-492).             *)
FreshOnce ==
    \A n, m \in Token :
        (n # m /\ row[n].parent # NoToken /\ row[n].parent = row[m].parent)
            => row[n].by_grace \/ row[m].by_grace

(* The ninety-day ceiling is set at login and never moved: all tokens of a *)
(* family, whichever request issued them, share it and expire within it.   *)
OneCeilingPerFamily ==
    \A n, m \in Token :
        (Minted(n) /\ Minted(m) /\ row[n].family = row[m].family)
            => /\ row[n].family_expires_at = row[m].family_expires_at
               /\ row[n].expires_at <= row[n].family_expires_at

(* used_at, revoked_at and the reason are evidence: once committed, no     *)
(* later request of any kind rewrites them.                                *)
HistoryIsFinal ==
    [][\A t \in Token :
        /\ row[t].used_at # Null => row'[t].used_at = row[t].used_at
        /\ row[t].revoked_at # Null => /\ row'[t].revoked_at = row[t].revoked_at
                                       /\ row'[t].revoked_reason = row[t].revoked_reason]_row

(* An honest double submit raises no alarm: the row a cascade names as     *)
(* replayed had been consumed longer ago than the grace window.            *)
AlarmNeedsEvidence ==
    \A t \in Token :
        row[t].revoked_reason = "reuse"
            => row[t].used_at # Null /\ row[t].revoked_at - row[t].used_at > GRACE_PERIOD

(* A token's window is measured once: no successor is issued through grace *)
(* later than GRACE_PERIOD after the token was consumed or, if it never    *)
(* was, superseded.                                                        *)
WindowStart(t) == IF row[t].used_at # Null THEN row[t].used_at ELSE row[t].revoked_at
GraceIsBounded ==
    \A n \in Token :
        row[n].by_grace => /\ WindowStart(row[n].parent) # Null
                           /\ row[n].issued_at - WindowStart(row[n].parent) <= GRACE_PERIOD

(* A family whose session was ended: a logout, a deactivated account, or a *)
(* cascade left its reason on a row of it.                                 *)
Ended(f) ==
    \E t \in Token : /\ row[t].family = f
                     /\ row[t].revoked_reason \in RevocationReason \ {"superseded"}

(* A live token: the next request to present it rotates it as fresh.       *)
Leaf(t, f) ==
    /\ Stored(t) /\ row[t].family = f
    /\ row[t].used_at = Null /\ row[t].revoked_at = Null

(* A family is never observable without a leaf: rotations replace it in    *)
(* the transaction that revokes or consumes it, so only the end of the     *)
(* session, or pruning, takes the last one away (refresh.py:534-535).      *)
FamilyKeepsALeaf ==
    \A f \in Family :
        \/ \A t \in Token : row[t].family # f
        \/ Ended(f)
        \/ \E t \in Token : row[t].family = f /\ row[t].state = "pruned"
        \/ \E t \in Token : Leaf(t, f)

(* Pruning never turns an alarm, or a rotation, into "unknown token": what *)
(* is gone would only have been refused as expired.                        *)
PrunedTokensAreSpent ==
    \A t \in Token : row[t].state = "pruned"
        => Classify(row[t], now) \in {"expired", "family_expired"}

-----------------------------------------------------------------------------
(* What the docstrings say of every state.  Both hold when the             *)
(* exchanges of a user do not overlap (one request slot).                  *)

(* "Exactly one token per family is live at any moment, and every rotation *)
(* - including a grace rotation - maintains that" (refresh.py:5-7).        *)
OneLiveTokenPerFamily ==
    \A f \in Family : \A s, t \in Token : Leaf(s, f) /\ Leaf(t, f) => s = t

(* A cascade reaches every family of the user (refresh.py:10-12), and a    *)
(* logout or a deactivation its family, for good: only a token superseded  *)
(* shortly before can bring an ended family back to life.                  *)
EndedFamilyStaysDead ==
    \A f \in Family :
        (Ended(f) /\ \A t \in Token : row[t].family = f => row[t].revoked_reason # "superseded")
            => \A t \in Token : ~Leaf(t, f)

-----------------------------------------------------------------------------
(* The table implements the ledger *)

(* What the ledger says of a row: a superseded row was spent when it was   *)
(* superseded, any other when it was exchanged.                            *)
Entry(tok) ==
    [family |-> tok.family, until |-> tok.expires_at, ceiling |-> tok.family_expires_at,
     spent |-> IF tok.revoked_reason = "superseded" THEN tok.revoked_at ELSE tok.used_at,
     fate |-> CASE tok.revoked_reason = "none" -> "open"
                [] tok.revoked_reason = "superseded" -> "superseded"
                [] tok.revoked_reason = "reuse" -> "replayed"
                [] OTHER -> "ended",
     gone |-> tok.state = "pruned"]

EntryNow == [t \in Token |-> Entry(row[t])]

Ledger == INSTANCE TokenLedger WITH Serial <- FALSE, entry <- EntryNow
Sessions == INSTANCE TokenLedger WITH Serial <- TRUE, entry <- EntryNow

(* However requests overlap, each leaves one whole operation of the ledger *)
(* behind or nothing: a token is never seen consumed or superseded without *)
(* the one that takes its place, nor taken for fresh once somebody else    *)
(* has exchanged or ended it, nor retried but within its window.           *)
ImplementsLedger == Ledger!Spec

(* While exchanges do not overlap, a retry replaces every live token of    *)
(* its family, a cascade is never seen half done, and no revocation, retry *)
(* or pruning leaves a token behind that it is about.                      *)
ImplementsSessions == Sessions!Spec
=============================================================================
