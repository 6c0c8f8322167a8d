-------------------------- MODULE SubscriberTable --------------------------
(***************************************************************************)
(* The table of subscribers: src/backend/app/subscribers/query.py over     *)
(* the engine's records and the projection, and the two figures that count *)
(* the same rows, src/backend/app/analytics/standing.py.                   *)
(*                                                                         *)
(* records: user |-> record, for the users the engine still has.           *)
(* projection: user |-> [name, last], the rows of subscriber_view.         *)
(* Users, names and moments are numbers, so that they have an order.       *)
(***************************************************************************)
EXTENDS Engine, FiniteSets, FiniteSetsExt, SequencesExt

CONSTANTS
    QUIET_AFTER, QUIET_BANDS,        \* a length of silence, and the later edges
    TRIAL_ENDING_WITHIN, LOSING_ACCESS_WITHIN,
    MAX_PAGE_SIZE

Cohort == {"quiet", "trial-ending", "cancelled-losing-access"}
SortField == {"userId", "displayName", "state", "accessUntil", "expiresAt", "lastActiveAt"}

STATE_URGENCY ==
    [grace |-> 0, trial |-> 1, active |-> 2, cancelled |-> 3, expired |-> 4]

-----------------------------------------------------------------------------
(* The id itself when the projection has no row of somebody.               *)
View(projection, u) ==
    IF u \in DOMAIN projection THEN projection[u] ELSE [name |-> u, last |-> None]

When(condition, value) == IF condition THEN value ELSE None

(* build_row: three of the dates belong to one state each.                 *)
Row(u, rec, view) ==
    [user_id |-> u, display_name |-> view.name, state |-> rec.state, plan_id |-> rec.plan,
     access_until |-> AccessUntil(rec), expires_at |-> rec.expires,
     trial_ends_at |-> When(rec.state = "trial", rec.trial_ends),
     grace_ends_at |-> When(rec.state = "grace", GraceEnds(rec)),
     cancelled_at |-> When(rec.state = "cancelled", rec.cancelled_at),
     pending_plan_id |-> rec.pending, last_active_at |-> view.last, promo_code |-> rec.promo]

(* live_subscriptions, with their projection.                              *)
Rows(records, projection) ==
    {Row(u, records[u], View(projection, u)) : u \in DOMAIN records}

Within(moment, now, span) == moment # None /\ now <= moment /\ moment <= now + span

InCohort(row, cohort, now) ==
    CASE cohort = "quiet" -> /\ row.state \in {"trial", "active", "grace"}
                             /\ row.last_active_at # None
                             /\ now - row.last_active_at > QUIET_AFTER
      [] cohort = "trial-ending" ->
           row.state = "trial" /\ Within(row.trial_ends_at, now, TRIAL_ENDING_WITHIN)
      [] cohort = "cancelled-losing-access" ->
           row.state = "cancelled" /\ Within(row.expires_at, now, LOSING_ACCESS_WITHIN)

(* A search is the set of names and ids that contain its letters.          *)
Matches(row, query, now) ==
    /\ query.states = {} \/ row.state \in query.states
    /\ query.plan_ids = {} \/ row.plan_id \in query.plan_ids
    /\ query.search = None \/ row.display_name \in query.search \/ row.user_id \in query.search
    /\ query.cohort = None \/ InCohort(row, query.cohort, now)

Sortable(row, field) ==
    CASE field = "userId" -> row.user_id
      [] field = "displayName" -> row.display_name
      [] field = "state" -> STATE_URGENCY[row.state]
      [] field = "accessUntil" -> row.access_until
      [] field = "expiresAt" -> row.expires_at
      [] field = "lastActiveAt" -> row.last_active_at

Present(rows, field) == {r \in rows : Sortable(r, field) # None}

(* By value and then by id, both turned round when descending.             *)
Before(r, s, query) ==
    LET a == IF query.descending THEN s ELSE r
        b == IF query.descending THEN r ELSE s
    IN IF Sortable(a, query.field) = Sortable(b, query.field) THEN a.user_id < b.user_id
       ELSE Sortable(a, query.field) < Sortable(b, query.field)

(* Fault: what has no value sorts as the smallest value, and turns round   *)
(* with the rest.                                                          *)
OrderedKeyed(rows, query) ==
    LET present == SetToSortSeq(Present(rows, query.field), LAMBDA r, s : Before(r, s, query))
        absent == SetToSortSeq(rows \ Present(rows, query.field), LAMBDA r, s : r.user_id < s.user_id)
    IN IF query.descending THEN present \o absent ELSE absent \o present

(* The rows that have the value, then the ones that have none.             *)
Ordered(rows, query) ==
    SetToSortSeq(Present(rows, query.field), LAMBDA r, s : Before(r, s, query))
      \o SetToSortSeq(rows \ Present(rows, query.field), LAMBDA r, s : r.user_id < s.user_id)

(* Rows first .. first + size - 1 of a sequence, or what there is of them. *)
Slice(rows, page, size) ==
    SubSeq(rows, (page - 1) * size + 1, Min({page * size, Len(rows)}))

Found(records, projection, query, now) ==
    {r \in Rows(records, projection) : Matches(r, query, now)}

(* list_subscribers.  A page it cannot serve is refused.                   *)
ListSubscribers(records, projection, query, now) ==
    LET rows == Ordered(Found(records, projection, query, now), query)
    IN IF query.page_size \notin 1 .. MAX_PAGE_SIZE \/ query.page < 1 THEN None
       ELSE [items |-> Slice(rows, query.page, query.page_size), total |-> Len(rows)]

(* What a client asks without saying more.                                 *)
DefaultQuery ==
    [page |-> 1, page_size |-> MAX_PAGE_SIZE, field |-> "lastActiveAt", descending |-> TRUE,
     states |-> {}, plan_ids |-> {}, cohort |-> None, search |-> None]

-----------------------------------------------------------------------------
(* The figures beside it *)

(* snapshot: every state, in the order of its urgency.                     *)
Snapshot(records) ==
    LET count(s) == Cardinality({u \in DOMAIN records : records[u].state = s})
    IN [s \in State |-> count(s)]

Edges == <<QUIET_AFTER>> \o QUIET_BANDS

(* The last edge a silence has reached.                                    *)
Band(silence) == Cardinality({i \in DOMAIN Edges : silence >= Edges[i]})

(* quiet: the rows of the cohort by the band their silence falls in.       *)
Quiet(records, projection, now) ==
    LET rows == {r \in Rows(records, projection) : r.last_active_at # None /\ InCohort(r, "quiet", now)}
    IN [i \in DOMAIN Edges |-> Cardinality({r \in rows : Band(now - r.last_active_at) = i})]
=============================================================================
