---------------------------- MODULE TokenLedger ----------------------------
(***************************************************************************)
(* What the refresh-token table promises, without statements, locks or     *)
(* snapshots: every exchange, revocation and login is one step on a ledger *)
(* of tokens (src/backend/app/security/refresh.py, the module docstring    *)
(* and those of classify_presented_token, rotate and _supersede_leaves).   *)
(*                                                                         *)
(* With Serial, a step finds every token it is about, and a token whose    *)
(* session was ended opens nothing.  Without it a revocation may miss the  *)
(* tokens of exchanges that overlap with it, and a retry that began before *)
(* the end of its session may finish after it; everything else is the same.*)
(***************************************************************************)
EXTENDS Integers

CONSTANTS
    Token, Family,
    Owner,            \* Owner[f]: the user whose session f is
    NoFamily,
    GRACE_PERIOD, TOKEN_TTL, FAMILY_TTL,
    Serial            \* whether the exchanges of a user never overlap

VARIABLES
    now,
    entry             \* entry[t]: what the ledger says of token t

vars == <<now, entry>>

Never == -1

(* spent: when the token gave way to a successor, by being exchanged or    *)
(* replaced; its grace window runs from there.                             *)
Unissued == [family |-> NoFamily, until |-> 0, ceiling |-> 0,
             spent |-> Never, fate |-> "open", gone |-> FALSE]

Issued == {t \in Token : entry[t].family # NoFamily}
Open(t) == t \in Issued /\ ~entry[t].gone /\ entry[t].fate = "open"
Live(t) == Open(t) /\ entry[t].spent = Never
Usable(t, at) == at < entry[t].until

(* A second presentation that an honest client may make.                   *)
Honest(t, at) ==
    /\ entry[t].spent # Never /\ at - entry[t].spent <= GRACE_PERIOD
    /\ Serial => entry[t].fate \in {"open", "superseded"}

(* A second presentation that only a copy explains.                        *)
Stolen(t, at) ==
    /\ entry[t].spent # Never
    /\ at - entry[t].spent > GRACE_PERIOD \/ entry[t].fate = "replayed"
    /\ Serial => entry[t].fate # "ended"

Siblings(t) == {u \in Token : entry[u].family = entry[t].family}
OfOwner(t) == {u \in Issued : Owner[entry[u].family] = Owner[entry[t].family]}

(* The tokens of S a revocation reaches.                                   *)
Reach(S) == IF Serial THEN {S} ELSE SUBSET S

Fresh(f, ceiling, at) ==
    [family |-> f, ceiling |-> ceiling,
     until |-> IF at + TOKEN_TTL < ceiling THEN at + TOKEN_TTL ELSE ceiling,
     spent |-> Never, fate |-> "open", gone |-> FALSE]

-----------------------------------------------------------------------------
(* A login opens a family with its first token.                            *)
Login(f, n, at) ==
    /\ \A t \in Token : entry[t].family # f
    /\ entry' = [entry EXCEPT ![n] = Fresh(f, at + FAMILY_TTL, at)]

(* The live token is spent and its successor issued under the same ceiling.*)
Rotate(t, n, at) ==
    /\ Live(t) /\ Usable(t, at)
    /\ entry' = [entry EXCEPT ![t].spent = at,
                              ![n] = Fresh(entry[t].family, entry[t].ceiling, at)]

(* A spent token presented again inside its window: the live tokens of its *)
(* family are replaced by one more, and its own window stays where it was. *)
Retry(t, n, at) ==
    /\ Usable(t, at) /\ Honest(t, at)
    /\ \E S \in Reach({u \in Siblings(t) : Live(u)}) :
         entry' = [u \in Token |->
                     IF u = n THEN Fresh(entry[t].family, entry[t].ceiling, at)
                     ELSE IF u \in S THEN [entry[u] EXCEPT !.spent = at, !.fate = "superseded"]
                     ELSE entry[u]]

(* A spent token presented outside its window: it is named as the replayed *)
(* one, if nothing ended it before, and every session of its owner ends.   *)
Alarm(t, at) ==
    /\ Usable(t, at) /\ Stolen(t, at)
    /\ \E S \in Reach({u \in OfOwner(t) \ {t} : Open(u)}) :
         entry' = [u \in Token |->
                     IF u = t /\ Open(t) THEN [entry[t] EXCEPT !.fate = "replayed"]
                     ELSE IF u \in S THEN [entry[u] EXCEPT !.fate = "ended"]
                     ELSE entry[u]]

(* A deactivated account presents a token it could have exchanged: nothing *)
(* is issued, its session ends, and a live token is spent all the same.    *)
Deactivate(t, at) ==
    /\ Usable(t, at) /\ (Live(t) \/ Honest(t, at))
    /\ \E S \in Reach({u \in Siblings(t) : Open(u)}) :
         /\ Live(t) => t \in S
         /\ entry' = [u \in Token |->
                        IF u = t /\ Live(t) THEN [entry[t] EXCEPT !.spent = at, !.fate = "ended"]
                        ELSE IF u \in S THEN [entry[u] EXCEPT !.fate = "ended"]
                        ELSE entry[u]]

Logout(t) ==
    \E S \in Reach({u \in Siblings(t) : Open(u)}) :
        entry' = [u \in Token |-> IF u \in S THEN [entry[u] EXCEPT !.fate = "ended"]
                                  ELSE entry[u]]

(* Only what could no longer be exchanged is forgotten.                    *)
Forget(S) ==
    /\ \A t \in S : ~Usable(t, now)
    /\ entry' = [t \in Token |-> IF t \in S THEN [entry[t] EXCEPT !.gone = TRUE] ELSE entry[t]]

(* An operation takes effect at once, as of a moment that may lie behind:  *)
(* the one at which its request read the clock.                            *)
Operation ==
    \/ \E t \in Issued, at \in 0..now :
         \/ Alarm(t, at) \/ Deactivate(t, at)
         \/ \E n \in Token \ Issued : Rotate(t, n, at) \/ Retry(t, n, at)
    \/ \E f \in Family, n \in Token \ Issued, at \in 0..now : Login(f, n, at)
    \/ \E t \in Issued : Logout(t)
    \/ \E S \in SUBSET Issued : Forget(S)

Init == now = 0 /\ entry = [t \in Token |-> Unissued]

Next ==
    \/ UNCHANGED now /\ entry' # entry /\ Operation
    \/ now' = now + 1 /\ UNCHANGED entry

Spec == Init /\ [][Next]_vars
=============================================================================
