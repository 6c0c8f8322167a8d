----------------------------- MODULE Analytics -----------------------------
(***************************************************************************)
(* The figures counted from the journal, src/backend/app/analytics/        *)
(* movements.py, and how routers/analytics.py asks for them.               *)
(*                                                                         *)
(* The journal is a sequence of [user, type, at, detail].  Moments are     *)
(* ticks from a Monday that is the first of a month, in UTC.  The end of   *)
(* Python's calendar (LAST_BUCKET) is not modelled.                        *)
(***************************************************************************)
EXTENDS SubscriberTable

CONSTANTS
    Day, Week,           \* in ticks
    MonthStart,          \* the calendar: where months start
    MonthHop,            \* from a month's first day into the next month
    DEFAULT_PERIOD

ASSUME CalendarAssumption ==
    /\ Day \in Nat \ {0} /\ Week \in Nat \ {0}
    /\ 0 \in MonthStart
    \* From the 28th, four days on: past the longest month's end and short of the month after.
    /\ \A m \in MonthStart : Cardinality({n \in MonthStart : m < n /\ n <= m + MonthHop}) <= 1

Grain == {"week", "month"}

-----------------------------------------------------------------------------
(* Buckets *)

(* floor_to: what date_trunc answers.                                      *)
FloorTo(moment, grain) ==
    IF grain = "week" THEN moment - (moment % Week) ELSE Max({m \in MonthStart : m <= moment})

NextBucket(start, grain) ==
    IF grain = "week" THEN start + Week ELSE FloorTo(start + MonthHop, "month")

(* Fault: the first bucket starts where the window does.                   *)
BucketsUnaligned(since, until, grain) ==
    LET start[i \in 0 .. until] == IF i = 0 THEN since ELSE NextBucket(start[i - 1], grain)
    IN {start[i] : i \in 0 .. until} \cap 0 .. until - 1

(* Every bucket from the one since is in, up to until.                     *)
Buckets(since, until, grain) ==
    LET start[i \in 0 .. until] ==
            IF i = 0 THEN FloorTo(since, grain) ELSE NextBucket(start[i - 1], grain)
    IN {start[i] : i \in 0 .. until} \cap 0 .. until - 1

Between(journal, since, until) ==
    {i \in DOMAIN journal : since <= journal[i].at /\ journal[i].at < until}

(* A period somebody did not name ends now and is DEFAULT_PERIOD long.     *)
PeriodOf(since, until, now) ==
    LET end == IF until = None THEN now ELSE until
    IN <<IF since = None THEN end - DEFAULT_PERIOD ELSE since, end>>

-----------------------------------------------------------------------------
(* Figures *)

Ever(journal, user, type) ==
    \E i \in DOMAIN journal : journal[i].user = user /\ journal[i].type = type

(* funnel: the arrivals are bounded by the window, what follows is not.    *)
Funnel(journal, since, until) ==
    LET created == {i \in Between(journal, since, until) : journal[i].type = "subscription.created"}
        arrived == {journal[i].user : i \in created}
        paid == {u \in arrived : Ever(journal, u, "subscription.activated")}
    IN [arrived |-> Cardinality(arrived),
        paid |-> Cardinality(paid),
        renewed |-> Cardinality({u \in paid : Ever(journal, u, "subscription.renewed")}),
        started_a_trial |->
            Cardinality({u \in arrived : \E i \in created :
                            journal[i].user = u /\ journal[i].detail = "trial"})]

(* Fault: the tail of a cancellation counts as well.                       *)
IsDepartureTwice(entry) == entry.type \in {"subscription.cancelled", "subscription.expired"}

(* A cancellation, or an expiry that is not the tail of one.               *)
IsDeparture(entry) ==
    \/ entry.type = "subscription.cancelled"
    \/ entry.type = "subscription.expired" /\ entry.detail # "cancelled"

(* flow: rows grouped by their bucket, read at the buckets of the window.  *)
Flow(journal, since, until, grain) ==
    LET in(start) == {i \in Between(journal, since, until) : FloorTo(journal[i].at, grain) = start}
    IN [start \in Buckets(since, until, grain) |->
           [joined |-> Cardinality({i \in in(start) : journal[i].type = "subscription.created"}),
            left |-> Cardinality({i \in in(start) : IsDeparture(journal[i])})]]

(* The first of the month n - 1 months before now's.                       *)
FirstMonth(now, n) ==
    LET first[i \in 1 .. n] == IF i = 1 THEN FloorTo(now, "month")
                               ELSE FloorTo(Max({0, first[i - 1] - Day}), "month")
    IN first[n]

(* revenue: by month, ending with the one now is in.                       *)
Revenue(journal, now, months) ==
    LET first == FirstMonth(now, months)
        payments == {i \in DOMAIN journal :
                        journal[i].type = "payment.recorded" /\ journal[i].at >= first}
    IN [start \in Buckets(first, NextBucket(FloorTo(now, "month"), "month"), "month") |->
           MapThenSumSet(LAMBDA i : journal[i].detail,
                         {i \in payments : FloorTo(journal[i].at, "month") = start})]
=============================================================================
