---------------------------- MODULE RateLimiter ----------------------------
(***************************************************************************)
(* The counters of src/backend/app/security/ratelimit.py and the three     *)
(* routes that ask them: login, refresh and the demonstration's door.      *)
(*                                                                         *)
(* Events are remembered lazily: a deque is cut to its window when its key *)
(* is asked for, a counter is dropped when a sweep finds it old, and when  *)
(* the table is full the ones whose last event is oldest are evicted.      *)
(* SlidingWindow says what all of that has to amount to.                   *)
(*                                                                         *)
(* Between reading the clock and writing the table no route suspends: the  *)
(* two counters of one login are written in two steps during which nobody  *)
(* else runs (busy).  The wall clock is assumed never to step back.        *)
(***************************************************************************)
EXTENDS Integers, FiniteSets, FiniteSetsExt, Functions, Sequences

CONSTANTS
    Email, Client,       \* addresses people write to, and machines
    Attempt,             \* login slots: how many logins overlap
    Loopback,            \* this machine, among the clients
    Unknown, Garbage,    \* no address; a text that is none
    NoAttempt,
    Limit, Window,       \* [Rule -> Nat]
    MAX_COUNTERS, EVICTION_BATCH, SWEEP_INTERVAL,
    Second,              \* ticks of the model in a second
    MaxTime              \* bound on the clock

Rule == {"login_email", "login_ip", "refresh_ip", "demo_ip"}

ASSUME LimiterAssumption ==
    /\ Limit \in [Rule -> Nat \ {0}] /\ Window \in [Rule -> Nat \ {0}]
    /\ MAX_COUNTERS \in Nat \ {0} /\ EVICTION_BATCH \in Nat \ {0}
    /\ SWEEP_INTERVAL \in Nat /\ Second \in Nat \ {0}
    /\ Loopback \in Client /\ Unknown \notin Client
    /\ Garbage \notin Client \X {"plain", "mapped"}
    /\ NoAttempt \notin Attempt

(* A counter is a rule's name and a key.                                   *)
Counter == ({"login_email"} \X Email) \cup ((Rule \ {"login_email"}) \X (Client \cup {Unknown}))

Nobody == <<"nobody", Unknown>>      \* nothing has been asked yet

VARIABLES
    now,
    hits,         \* _hits: a deque of times for each counter held
    swept_at,     \* _swept_at
    answer,       \* the last decision, and who sent the request
    attempt,      \* logins under way
    busy          \* the login between its two counters, or NoAttempt

vars == <<now, hits, swept_at, answer, attempt, busy>>

Never == -1

Idle == [pc |-> "idle", email |-> Unknown, since |-> 0, forgiven |-> FALSE]

TypeOK ==
    /\ now \in Nat /\ swept_at \in Nat \cup {Never}
    /\ DOMAIN hits \subseteq Counter
    /\ \A c \in DOMAIN hits : /\ hits[c] \in Seq(Nat)
                              /\ Len(hits[c]) \in 1 .. Limit[c[1]]
    /\ answer \in [asked: Counter \cup {Nobody}, sender: Client \cup {Unknown},
                  allowed: BOOLEAN, retry_after: Nat]
    /\ attempt \in [Attempt -> [pc: {"idle", "counted", "verify"},
                                email: Email \cup {Unknown},
                                since: Nat,           \* when it was let in
                                forgiven: BOOLEAN]]   \* its counter is gone since
    /\ busy \in Attempt \cup {NoAttempt}

-----------------------------------------------------------------------------
(* Whose request it is *)

Sender == Client \cup {Unknown}         \* Unknown: a transport without an address

(* An IPv4 address has two spellings on a dual-stack listener.             *)
Spelling == Client \X {"plain", "mapped"}

Canonical(value) == IF value \in Spelling THEN value[1] ELSE Unknown

(* Fault: the header is believed of everybody.                             *)
ClientIpTrusting(peer, hops) ==
    IF hops # <<>> /\ Canonical(hops[Len(hops)]) # Unknown
    THEN Canonical(hops[Len(hops)]) ELSE Canonical(peer)

(* client_ip: the last hop of X-Forwarded-For is believed of this machine. *)
ClientIp(peer, hops) ==
    IF /\ hops # <<>> /\ Canonical(peer) = Loopback
       /\ Canonical(hops[Len(hops)]) # Unknown
    THEN Canonical(hops[Len(hops)]) ELSE Canonical(peer)

Written == Spelling \cup {Garbage}
Header == {<<>>} \cup {<<h>> : h \in Written} \cup {<<g, h>> : g, h \in Written}

(* The ways a client's request may arrive: over the proxy on this machine, *)
(* which sets the header to its peer; straight, with any header (without   *)
(* one from this machine); or over a transport that has no peer.           *)
Arrival(client) ==
    IF client = Unknown THEN {Garbage} \X Header
    ELSE {<<<<Loopback, s>>, <<<<client, t>>>>>> : s, t \in {"plain", "mapped"}}
           \cup ({client} \X {"plain", "mapped"}) \X (IF client = Loopback THEN {<<>>} ELSE Header)

(* The keys its request may be counted under.                              *)
Key(client) == {ClientIp(from[1], from[2]) : from \in Arrival(client)}

-----------------------------------------------------------------------------
(* The table *)

Newest(deque) == deque[Len(deque)]

(* Fault: a sweep at the shortest window, as if a rule were left out.      *)
ShortestWindow == Min({Window[r] : r \in Rule})

(* _LONGEST_WINDOW                                                         *)
LongestWindow == Max({Window[r] : r \in Rule})

(* The events that leave from the left, up to the first after the cutoff.  *)
Popped(deque, cutoff) ==
    CHOOSE n \in 0 .. Len(deque) :
        /\ \A i \in 1 .. n : deque[i] <= cutoff
        /\ n < Len(deque) => deque[n + 1] > cutoff

Kept(deque, cutoff) == SubSeq(deque, Popped(deque, cutoff) + 1, Len(deque))

(* _live                                                                   *)
Live(table, c, t) ==
    IF c \in DOMAIN table THEN Kept(table[c], t - Window[c[1]]) ELSE <<>>

(* The table once _live has cut c's deque, or dropped it.                  *)
Pruned(table, c, t) ==
    [d \in {d \in DOMAIN table : d # c \/ Live(table, c, t) # <<>>} |->
        IF d = c THEN Live(table, c, t) ELSE table[d]]

SweepDue == swept_at = Never \/ now - swept_at >= SWEEP_INTERVAL

(* _sweep: what nobody has touched for the longest window goes.            *)
Swept(table) ==
    Restrict(table, {c \in DOMAIN table : Newest(table[c]) > now - LongestWindow})

(* Fault: one more than the bound.                                         *)
IsFullLate(table) == Cardinality(DOMAIN table) > MAX_COUNTERS

IsFull(table) == Cardinality(DOMAIN table) >= MAX_COUNTERS

(* The first EVICTION_BATCH counters in the order of their newest event.   *)
Doomed(table) ==
    {K \in SUBSET DOMAIN table :
        /\ Cardinality(K) = Min({EVICTION_BATCH, Cardinality(DOMAIN table)})
        /\ \A k \in K, o \in DOMAIN table \ K : Newest(table[k]) <= Newest(table[o])}

(* _make_room: the tables it may leave.                                    *)
Rooms(table) ==
    IF ~IsFull(table) THEN {table}
    ELSE IF ~IsFull(Swept(table)) THEN {Swept(table)}
    ELSE {Restrict(Swept(table), DOMAIN Swept(table) \ K) : K \in Doomed(Swept(table))}

With(table, c, deque) ==
    [d \in DOMAIN table \cup {c} |-> IF d = c THEN deque ELSE table[d]]

(* Whole seconds, rounded up.                                              *)
Seconds(ticks) == (ticks + Second - 1) \div Second

(* Fault: whole seconds, rounded down.                                     *)
RetryAfterFloored(c, deque) == Max({1, (deque[1] + Window[c[1]] - now) \div Second})

(* _decide: until the oldest event leaves the window, and never zero.      *)
RetryAfter(c, deque) == Max({1, Seconds(deque[1] + Window[c[1]] - now)})

(* A refused event is not recorded.                                        *)
Refused(table, c, deque) == table

(* hit: sweep, cut, decide and record, in one step.                        *)
Hit(c, sender) ==
    LET due  == IF SweepDue THEN Swept(hits) ELSE hits
        deque == Live(due, c, now)
        table == Pruned(due, c, now)
        allowed == Len(deque) < Limit[c[1]]
    IN /\ IF allowed
          THEN IF deque = <<>>
               THEN \E room \in Rooms(table) : hits' = With(room, c, <<now>>)
               ELSE hits' = With(table, c, Append(deque, now))
          ELSE hits' = Refused(table, c, deque)
       /\ swept_at' = IF SweepDue \/ (allowed /\ deque = <<>> /\ IsFull(table))
                      THEN now ELSE swept_at
       /\ answer' = [asked |-> c, sender |-> sender, allowed |-> allowed,
                     retry_after |-> IF allowed THEN 0 ELSE RetryAfter(c, deque)]

(* History: the attempts whose counter was there and now is gone.          *)
Forgiven(slots) ==
    [a \in Attempt |->
        [slots[a] EXCEPT !.forgiven = @ \/ /\ slots[a].pc = "verify"
                                           /\ <<"login_email", slots[a].email>>
                                                \in DOMAIN hits \ DOMAIN hits']]

-----------------------------------------------------------------------------
(* The routes *)

(* login: the machine's counter first.                                     *)
Login(a, client, email) ==
    /\ busy = NoAttempt /\ attempt[a].pc = "idle"
    /\ \E ip \in Key(client) : Hit(<<"login_ip", ip>>, client)
    /\ LET slots == IF answer'.allowed
                    THEN [attempt EXCEPT ![a] = [Idle EXCEPT !.pc = "counted", !.email = email]]
                    ELSE attempt
       IN attempt' = Forgiven(slots)
    /\ busy' = IF answer'.allowed THEN a ELSE NoAttempt
    /\ UNCHANGED now

(* Fault: the address is looked at now and counted when the password was   *)
(* wrong.                                                                  *)
CountEmailLater(a) ==
    /\ busy = a
    /\ LET c == <<"login_email", attempt[a].email>>
           allowed == Len(Live(hits, c, now)) < Limit["login_email"]
       IN /\ attempt' = [attempt EXCEPT
                   ![a] = IF allowed THEN [@ EXCEPT !.pc = "verify", !.since = now] ELSE Idle]
          /\ answer' = [answer EXCEPT !.allowed = allowed]
    /\ busy' = NoAttempt
    /\ UNCHANGED <<now, hits, swept_at>>

(* Then the address's, on the way in; what follows waits for the lookup    *)
(* and the password's verification.                                        *)
CountEmail(a) ==
    /\ busy = a
    /\ Hit(<<"login_email", attempt[a].email>>, answer.sender)
    /\ LET next == IF answer'.allowed
                   THEN [attempt[a] EXCEPT !.pc = "verify", !.since = now] ELSE Idle
       IN attempt' = Forgiven([attempt EXCEPT ![a] = next])
    /\ busy' = NoAttempt
    /\ UNCHANGED now

(* A wrong password, nobody of that address, somebody disabled, or a       *)
(* statement that failed: the attempt stays counted.                       *)
Fail(a) ==
    /\ busy = NoAttempt /\ attempt[a].pc = "verify"
    /\ attempt' = [attempt EXCEPT ![a] = Idle]
    /\ UNCHANGED <<now, hits, swept_at, answer, busy>>

(* The login is committed and the address's counter reset.                 *)
Succeed(a) ==
    /\ busy = NoAttempt /\ attempt[a].pc = "verify"
    /\ hits' = Restrict(hits, DOMAIN hits \ {<<"login_email", attempt[a].email>>})
    /\ attempt' = Forgiven([attempt EXCEPT ![a] = Idle])
    /\ UNCHANGED <<now, swept_at, answer, busy>>

(* refresh, and a press of the demonstration's button without a pass.      *)
Ask(rule, client) ==
    /\ busy = NoAttempt
    /\ \E ip \in Key(client) : Hit(<<rule, ip>>, client)
    /\ attempt' = Forgiven(attempt)
    /\ UNCHANGED <<now, busy>>

(* The process is restarted, and its counters are gone.                    *)
Restart ==
    /\ busy = NoAttempt
    /\ hits' = [c \in {} |-> <<>>] /\ swept_at' = Never
    /\ attempt' = [a \in Attempt |-> Idle]
    /\ UNCHANGED <<now, answer, busy>>

Tick ==
    /\ busy = NoAttempt /\ now < MaxTime
    /\ now' = now + 1
    /\ UNCHANGED <<hits, swept_at, answer, attempt, busy>>

Init ==
    /\ now = 0
    /\ hits = [c \in {} |-> <<>>] /\ swept_at = Never
    /\ answer = [asked |-> Nobody, sender |-> Unknown, allowed |-> TRUE, retry_after |-> 0]
    /\ attempt = [a \in Attempt |-> Idle]
    /\ busy = NoAttempt

Next ==
    \/ \E a \in Attempt :
         \/ \E client \in Sender, email \in Email : Login(a, client, email)
         \/ CountEmail(a) \/ Fail(a) \/ Succeed(a)
    \/ \E client \in Sender : Ask("refresh_ip", client) \/ Ask("demo_ip", client)
    \/ Restart \/ Tick

Spec == Init /\ [][Next]_vars

-----------------------------------------------------------------------------
(* Properties *)

(* However many keys are tried, the table stays within its bound           *)
(* (_make_room), with every deque it holds.                                *)
TableBounded == Cardinality(DOMAIN hits) <= MAX_COUNTERS

(* Retry-After comes true and no later than it must: whoever is refused    *)
(* now and returns after that many seconds finds a slot, if nobody took it *)
(* meanwhile, and one second earlier finds none (_decide).                 *)
WaitIsHonest ==
    \A c \in DOMAIN hits :
        LET deque == Live(hits, c, now)
            wait == RetryAfter(c, deque) * Second
        IN Len(deque) >= Limit[c[1]] =>
             /\ Len(Live(hits, c, now + wait)) < Limit[c[1]]
             /\ wait > Second => Len(Live(hits, c, now + wait - Second)) >= Limit[c[1]]

(* Attempts that arrive together are counted together: of the logins under *)
(* way for one address, let in within one window, no more than the limit,  *)
(* except those whose counter was reset, evicted or lost since (login,     *)
(* "on the way in and refunded").                                          *)
AttemptsAreCounted ==
    \A e \in Email :
        Cardinality({a \in Attempt : /\ attempt[a].pc = "verify" /\ attempt[a].email = e
                                     /\ ~attempt[a].forgiven
                                     /\ attempt[a].since > now - Window["login_email"]})
          <= Limit["login_email"]

(* One machine, one bucket: whatever it writes in the header, however its  *)
(* address is spelled and whichever way it came (client_ip).               *)
ChargedToItsSender ==
    answer.asked[1] \notin {"nobody", "login_email"}
        => answer.asked[2] = answer.sender

(* The lazy table answers as if it knew every event inside every window,   *)
(* and forgets no counter before its time but by a reset, a restart, or an *)
(* eviction of the least recently touched when the table is full.          *)
LiveNow == [c \in Counter |-> Live(hits, c, now)]
TouchedNow ==
    [c \in Counter |-> IF c \in DOMAIN hits /\ Newest(hits[c]) > now - LongestWindow
                       THEN Newest(hits[c]) ELSE Never]

Promise == INSTANCE SlidingWindow WITH
    Limit <- [c \in Counter |-> Limit[c[1]]],
    Window <- [c \in Counter |-> Window[c[1]]],
    Horizon <- LongestWindow, Capacity <- MAX_COUNTERS, Batch <- EVICTION_BATCH,
    live <- LiveNow, touched <- TouchedNow,
    answer <- [asked |-> answer.asked, allowed |-> answer.allowed]

ImplementsWindow == Promise!Spec
=============================================================================
