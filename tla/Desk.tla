-------------------------------- MODULE Desk --------------------------------
(***************************************************************************)
(* Operators at one world's desk: the operations of routers/subscribers.py *)
(* with audit.perform behind them, the ticker beside them, and somebody    *)
(* paging through a feed, the audit or the list of operators meanwhile     *)
(* (subscribers/events.py, routers/audit.py, routers/users.py).            *)
(*                                                                         *)
(* A request loads its operator, which opens its transaction; then the     *)
(* engine runs and the sink is drained in one step (see Journal); then it  *)
(* writes, commits and rebuilds the card, and others run in between.       *)
(***************************************************************************)
EXTENDS SubscriberTable

CONSTANTS
    Request,             \* requests, each made once
    Operation,           \* what may be asked for: [action, user, value, reference]
    Opening,             \* user |-> record, as the world stands at first
    Projection,          \* user |-> [name, last]
    History,             \* what the journal holds already
    Trail,               \* what the audit holds already
    Program,             \* referral programmes
    Limit,               \* [Code -> Nat]: redemptions of a code
    Email, Colleagues,   \* addresses, and those the list begins with
    Ticker,              \* who emits when nobody asked
    Here,                \* the world whose operators the reader is one of
    Watched,             \* the subscriber whose feed is read
    Walk,                \* how the reader may start: [kind, outcome, page]
    PageSize,
    MaxActors,           \* bound: requests, and the reader, in one behaviour
    Start, End           \* bounds on the clock

ASSUME DeskAssumption ==
    /\ IsFiniteSet(DOMAIN Opening) /\ Opening \in [DOMAIN Opening -> Subscription]
    /\ \A u \in DOMAIN Opening : Bounded(Opening[u])
    /\ IsFiniteSet(History) /\ IsFiniteSet(Trail) /\ IsFiniteSet(Colleagues)
    /\ \A row \in History \cup Trail : row.seq \in Nat /\ row.at \in Int /\ row.by \notin Request
    /\ Ticker \notin Request
    /\ Email \subseteq Int /\ Colleagues \subseteq Int
    /\ \A start \in Walk : start.kind \in {"events", "audit", "users"} /\ start.page \in Nat \ {0}
    /\ \A asked \in Operation :
          asked.action \in {"subscribe", "cancel", "change_plan", "redeem", "payment",
                           "assign_program"}
    /\ PageSize \in Nat \ {0}
    /\ Start \in Int /\ End \in Int

VARIABLES
    now,
    records, filed, redeemed, programs,   \* the engine's storage
    pending,             \* EventSink.pending
    seq,                 \* the sequence both tables number their rows from
    journal, audit, users,                \* committed rows
    req, walk

vars == <<now, records, filed, redeemed, programs, pending, seq, journal, audit, users, req, walk>>

engine == <<records, filed, redeemed, programs>>
tables == <<journal, audit, users>>

Silent == [code |-> None, events |-> <<>>, card |-> None]

(* A request: its transaction's instant, what it drained and what it       *)
(* produced, the rows it has written and not committed, and its answer.    *)
Idle == [pc |-> "idle", asked |-> None, began |-> 0, took |-> <<>>, produced |-> <<>>,
         refusal |-> None, rows |-> {}, entries |-> {}, answer |-> Silent]

(* HANDLED and CODE_FOR: the refusals an operator is told of by name.      *)
HANDLED == {"ALREADY_SUBSCRIBED", "UNKNOWN_PLAN", "UNKNOWN_PROMO_CODE", "PROMO_LIMIT_REACHED",
            "PROMO_ALREADY_BOUND", "UNKNOWN_REFERRAL_PROGRAM"}

(* Somebody paging: the page, the totals told, and as History what there   *)
(* was to see when the first page was asked for and whether rows came in   *)
(* between a count and the page that goes with it.                         *)
Away == [pc |-> "away", kind |-> "events", outcome |-> None, from |-> 1, page |-> 1,
         total |-> 0, seen |-> {}, first |-> {}, raced |-> FALSE]

(* Who has come already, and whether one more may.                         *)
Actors == Cardinality({r \in Request : req[r].pc # "idle"}) + (IF walk.pc = "away" THEN 0 ELSE 1)
MayCome == Actors < MaxActors

-----------------------------------------------------------------------------
(* Running an operation *)

(* The engine's guard is (provider, external id), and nothing else.        *)
PANEL_PROVIDER == "panel"

(* Fault: the provider is the panel, whoever the money is for.             *)
ProviderOfAll(user) == <<PANEL_PROVIDER>>

(* payment: the provider carries the subscriber.                           *)
Provider(user) == <<PANEL_PROVIDER, user>>

(* A reference somebody typed, or one minted for this request.             *)
ReferenceOf(r, asked) ==
    IF asked.reference = None THEN <<"minted", r>> ELSE <<"typed", asked.reference>>

Filing(r, asked) == <<Provider(asked.user), ReferenceOf(r, asked)>>

(* What the engine makes of it.                                            *)
Outcome(r, asked) ==
    LET rec == records[asked.user]
    IN CASE asked.action = "subscribe" -> Subscribe(rec, asked.value, now)
         [] asked.action = "cancel" -> Cancel(rec, now)
         [] asked.action = "change_plan" -> ChangePlan(rec, asked.value, now)
         [] asked.action = "redeem" ->
              LET spent == asked.value \in Code /\ redeemed[asked.value] = Limit[asked.value]
              IN Redeem(rec, asked.value, spent, now)
         [] asked.action = "payment" ->
              IF Filing(r, asked) \in filed
              THEN Out(rec, <<Event("payment.duplicate", asked.reference)>>)
              ELSE Pay(rec, asked.value, now)
         [] asked.action = "assign_program" ->
              IF asked.value \in Program THEN Out(rec, <<>>)
              ELSE Refusal(rec, <<>>, "UNKNOWN_REFERRAL_PROGRAM")

Emitted(user, events, by) ==
    [i \in DOMAIN events |->
        [user |-> user, type |-> events[i].type, at |-> now,
         detail |-> events[i].detail, by |-> by]]

(* The request arrives; loading its operator opens the transaction.        *)
Ask(r, asked) ==
    /\ req[r].pc = "idle" /\ MayCome
    /\ req' = [req EXCEPT ![r] = [Idle EXCEPT !.pc = "asked", !.asked = asked, !.began = now]]
    /\ UNCHANGED <<now, engine, pending, seq, tables, walk>>

(* _require comes first; then the engine moves, and with what it emitted   *)
(* goes everything else the sink was holding, refused or not.              *)
Operate(r) ==
    /\ req[r].pc = "asked"
    /\ LET asked == req[r].asked
           out == Outcome(r, asked)
           own == Emitted(asked.user, out.events, r)
           redeems == \E i \in DOMAIN out.events : out.events[i].type = "promo.redeemed"
       IN IF asked.user \notin DOMAIN records
          THEN /\ req' = [req EXCEPT ![r].pc = "not_found"]
               /\ UNCHANGED <<engine, pending>>
          ELSE /\ records' = [records EXCEPT ![asked.user] = out.rec]
               /\ filed' = IF asked.action = "payment" THEN filed \cup {Filing(r, asked)} ELSE filed
               /\ redeemed' = IF redeems THEN [redeemed EXCEPT ![asked.value] = @ + 1] ELSE redeemed
               /\ programs' = IF asked.action = "assign_program" /\ asked.value \in Program
                              THEN [programs EXCEPT ![asked.user] = asked.value] ELSE programs
               /\ pending' = <<>>
               /\ req' = [req EXCEPT ![r] = [@ EXCEPT !.pc = "write", !.took = pending \o own,
                                                      !.produced = own, !.refusal = out.refusal]]
    /\ UNCHANGED <<now, seq, tables, walk>>

(* Rows of the journal, numbered in the order they are copied.             *)
Numbered(events, from) ==
    {[seq |-> from + i, user |-> events[i].user, type |-> events[i].type, at |-> events[i].at,
      detail |-> events[i].detail, by |-> events[i].by] : i \in DOMAIN events}

(* record: attempts, not successes, at the instant of the transaction.     *)
AuditRow(r, number) ==
    [seq |-> number, at |-> req[r].began,
     action |-> req[r].asked.action, target |-> req[r].asked.user,
     outcome |-> IF req[r].refusal = None THEN "ok" ELSE "refused",
     code |-> req[r].refusal, world |-> Here, by |-> r]

(* write_events and record's flush, in the open transaction.               *)
Write(r) ==
    /\ req[r].pc = "write"
    /\ LET rows == Numbered(req[r].took, seq)
       IN /\ req' = [req EXCEPT ![r] = [@ EXCEPT !.pc = "commit", !.rows = rows,
                                                 !.entries = {AuditRow(r, seq)}]]
          /\ seq' = seq + Cardinality(rows) + 1
    /\ UNCHANGED <<now, engine, pending, tables, walk>>

(* What the transaction wrote, journal and audit, is there for everybody.  *)
Committed(r) ==
    /\ journal' = journal \cup req[r].rows
    /\ audit' = audit \cup req[r].entries
    /\ UNCHANGED users

Commit(r) ==
    /\ req[r].pc = "commit"
    /\ Committed(r)
    /\ LET refusal == req[r].refusal
       IN req' = [req EXCEPT ![r] = [@ EXCEPT !.pc = IF refusal = None THEN "show" ELSE "refused",
                                              !.rows = {}, !.entries = {}, !.answer.code = refusal]]
    /\ UNCHANGED <<now, engine, pending, seq, walk>>

(* A 500, the engine as it is by then.  A statement or the commit fails    *)
(* and the rows are gone; or the commit took effect although its call      *)
(* raised; or it was done, and the SELECT behind the card fails (_detail). *)
Fail(r) ==
    /\ \/ req[r].pc \in {"write", "commit"} /\ UNCHANGED tables
       \/ req[r].pc = "commit" /\ Committed(r)
       \/ req[r].pc = "show" /\ UNCHANGED tables
    /\ req' = [req EXCEPT ![r] = [@ EXCEPT !.pc = "failed", !.took = <<>>,
                                             !.rows = {}, !.entries = {}]]
    /\ UNCHANGED <<now, engine, pending, seq, walk>>

(* Fault: the answer lists everything that was drained.                    *)
ListedAll(r) == req[r].took

(* The answer lists what this call emitted, as collecting() kept it.       *)
Listed(r) == req[r].produced

(* _detail: the card, rebuilt from the engine and the projection.          *)
Detail(user) ==
    [subscriber |-> Row(user, records[user], View(Projection, user)),
     referral_program |-> programs[user]]

Show(r) ==
    /\ req[r].pc = "show"
    /\ req' = [req EXCEPT ![r] = [@ EXCEPT !.pc = "ok",
                   !.answer.events = Listed(r), !.answer.card = Detail(req[r].asked.user)]]
    /\ UNCHANGED <<now, engine, pending, seq, tables, walk>>

-----------------------------------------------------------------------------
(* The ticker *)

(* tick_once: whoever is due is caught up, in the engine's order, and the  *)
(* events wait in the sink.                                                *)
Tick ==
    LET out(u) == CaughtUp(records[u], now)
    IN \E late \in SetToSeqs({u \in DOMAIN records : IsDue(records[u], now)}) :
        /\ late # <<>>
        /\ records' = [u \in DOMAIN records |-> out(u).rec]
        /\ pending' = pending \o FlattenSeq(
               [i \in DOMAIN late |-> Emitted(late[i], out(late[i]).events, Ticker)])
        /\ UNCHANGED <<now, filed, redeemed, programs, seq, tables, req, walk>>

(* The recorder drains the sink and commits, or loses what it drained.     *)
Record ==
    /\ pending # <<>>
    /\ pending' = <<>>
    /\ seq' = seq + Len(pending)
    /\ \/ journal' = journal \cup Numbered(pending, seq - 1)
       \/ UNCHANGED journal
    /\ UNCHANGED <<now, engine, audit, users, req, walk>>

Elapse ==
    /\ now < End
    /\ now' = now + 1
    /\ UNCHANGED <<engine, pending, seq, tables, req, walk>>

(* An operator is added from the command line; nobody but the reader of    *)
(* their list can tell, so it is while that list is read.                  *)
Hire(email) ==
    /\ walk.pc \notin {"away", "done"} /\ walk.kind = "users" /\ email \notin users
    /\ users' = users \cup {email}
    /\ UNCHANGED <<now, engine, pending, seq, journal, audit, req, walk>>

-----------------------------------------------------------------------------
(* Somebody paging through what was written *)

(* _narrowed, and the reader's own world.                                  *)
Narrowed(rows, outcome) ==
    {row \in rows : row.world = Here /\ (outcome = None \/ row.outcome = outcome)}

(* The rows a reader's statement finds.                                    *)
Findable ==
    CASE walk.kind = "events" -> {row \in journal : row.user = Watched}
      [] walk.kind = "audit" -> Narrowed(audit, walk.outcome)
      [] walk.kind = "users" -> users

(* Fault: rows of one instant come in any order, each time anew.           *)
PagesUntied(rows, kind, page) ==
    {ToSet(Slice(order, page, PageSize)) : order \in
        {o \in SetToSeqs(rows) :
            kind = "users" \/ \A i, j \in DOMAIN o : i < j => o[i].at >= o[j].at}}

(* Newest first, the later written first within an instant; the operators  *)
(* by their address.                                                       *)
Precedes(a, b, kind) ==
    IF kind = "users" THEN a < b
    ELSE a.at > b.at \/ (a.at = b.at /\ a.seq > b.seq)

(* How many rows stand above one.                                          *)
Rank(row, rows, kind) == Cardinality({other \in rows : Precedes(other, row, kind)})

(* The pages a statement may answer with: OFFSET and LIMIT leave one.      *)
Pages(rows, kind, page) ==
    {{row \in rows : Rank(row, rows, kind) \in (page - 1) * PageSize .. page * PageSize - 1}}

(* What the reader does with an answer: the next page while there is one.  *)
Turned(next) ==
    IF next.page * PageSize < next.total THEN [next EXCEPT !.pc = "ask", !.page = @ + 1]
    ELSE [next EXCEPT !.pc = "done"]

OnlyWalk == UNCHANGED <<now, engine, pending, seq, tables, req>>

(* At the first page, or at one somebody kept the address of.              *)
Open(start) ==
    /\ walk.pc = "away" /\ MayCome
    /\ walk' = [Away EXCEPT !.pc = "ask", !.kind = start.kind, !.outcome = start.outcome,
                            !.from = start.page, !.page = start.page]
    /\ OnlyWalk

FirstSeen == IF walk.page = walk.from THEN Findable ELSE walk.first

(* list_events and list_page: the rows and their count in one statement.   *)
ReadFeed ==
    /\ walk.pc = "ask" /\ walk.kind # "users"
    /\ \E items \in Pages(Findable, walk.kind, walk.page) :
         LET next == [walk EXCEPT !.seen = @ \cup items, !.first = FirstSeen,
                                  !.total = Cardinality(Findable)]
         IN walk' = IF items = {} THEN [next EXCEPT !.pc = "count"] ELSE Turned(next)
    /\ OnlyWalk

(* _count, when the page came back empty: a second statement.              *)
CountFeed ==
    /\ walk.pc = "count"
    /\ walk' = Turned([walk EXCEPT !.total = Cardinality(Findable)])
    /\ OnlyWalk

(* list_users: the count is one statement,                                 *)
CountUsers ==
    /\ walk.pc = "ask" /\ walk.kind = "users"
    /\ walk' = [walk EXCEPT !.pc = "rows", !.total = Cardinality(users), !.first = FirstSeen]
    /\ OnlyWalk

(* and the page another.                                                   *)
ReadUsers ==
    /\ walk.pc = "rows"
    /\ \E items \in Pages(users, "users", walk.page) :
         walk' = Turned([walk EXCEPT !.seen = @ \cup items,
                                     !.raced = @ \/ walk.total # Cardinality(users)])
    /\ OnlyWalk

-----------------------------------------------------------------------------
Init ==
    /\ now = Start
    /\ records = Opening /\ filed = {} /\ redeemed = [c \in Code |-> 0]
    /\ programs = [u \in DOMAIN Opening |-> None]
    /\ pending = <<>>
    /\ journal = History /\ audit = Trail /\ users = Colleagues
    /\ seq = 1 + Max({0} \cup {row.seq : row \in History \cup Trail})
    /\ req = [r \in Request |-> Idle]
    /\ walk = Away

Next ==
    \/ \E r \in Request :
         \/ \E asked \in Operation : Ask(r, asked)
         \/ Operate(r) \/ Write(r) \/ Commit(r) \/ Fail(r) \/ Show(r)
    \/ Tick \/ Record \/ Elapse \/ \E email \in Email : Hire(email)
    \/ \E start \in Walk : Open(start)
    \/ ReadFeed \/ CountFeed \/ CountUsers \/ ReadUsers

Spec == Init /\ [][Next]_vars

-----------------------------------------------------------------------------
(* Properties *)

(* The journal's rows of r are these events, in this order.                *)
Booked(r, events) ==
    \E from \in 0 .. seq : {row \in journal : row.by = r} = Numbered(events, from)

(* What r did is in the books: its events, and one audit row of that code. *)
InTheBooks(r, code) ==
    /\ Booked(r, req[r].produced)
    /\ LET entries == {row \in audit : row.by = r}
       IN \E entry \in entries : entries = {entry} /\ entry.code = code

NotInTheBooks(r) == Booked(r, <<>>) /\ \A row \in audit : row.by # r

(* What an operator is told is what the books say of that request, and of  *)
(* no other: the events an answer lists are the journal's, in its order,   *)
(* although whoever drains the sink takes everybody's; whatever was        *)
(* answered by name has one audit row with the same outcome, and a         *)
(* refusal's events too are kept.  A request that ended in a 500 is in the *)
(* books as a whole, journal and audit, or not at all, and one that is     *)
(* still under way is not (audit.perform).                                 *)
AnswersMatchTheBooks ==
    \A r \in Request :
        CASE req[r].pc \in {"show", "ok", "refused"} ->
               /\ req[r].answer.code \in HANDLED \cup {None}
               /\ InTheBooks(r, req[r].answer.code)
               /\ req[r].pc = "ok" => Booked(r, req[r].answer.events)
          [] req[r].pc = "failed" -> InTheBooks(r, req[r].refusal) \/ NotInTheBooks(r)
          [] OTHER -> NotInTheBooks(r)

Recorded(r) == \E e \in ToSet(req[r].produced) : e.type = "payment.recorded"

(* Money entered under one reference for one subscriber counts once        *)
(* however often it is sent, and the same reference on somebody else       *)
(* counts as well (payment: "namespaced by the subscriber").               *)
PaymentsCountOnce ==
    \A r \in Request :
        /\ req[r].pc \notin {"idle", "asked", "not_found"}
        /\ req[r].asked.action = "payment"
        => LET same == {s \in Request :
                            /\ req[s].pc \notin {"idle", "asked"}
                            /\ req[s].asked.action = "payment" /\ req[s].asked.user = req[r].asked.user
                            /\ ReferenceOf(s, req[s].asked) = ReferenceOf(r, req[r].asked)}
            IN Cardinality({s \in same : Recorded(s)}) = 1

(* Whoever pages from the first page to the last has seen everything that  *)
(* was there at the start, whatever is written meanwhile; the operators'   *)
(* list may drop somebody only when an operator was added between its two  *)
(* statements.  A total never denies what was there, and never counts what *)
(* the reader may not see (list_events, list_page and their _count).       *)
PagersSkipNothing ==
    walk.pc = "done" =>
        /\ walk.from = 1 => walk.first \subseteq walk.seen \/ walk.raced
        /\ Cardinality(walk.first) <= walk.total /\ walk.total <= Cardinality(Findable)
        /\ walk.seen \subseteq Findable

(* The queries of the table that are tried: each order, and each filter.   *)
Queries ==
    {[DefaultQuery EXCEPT !.field = f, !.descending = d] : f \in SortField, d \in BOOLEAN}
    \cup {[DefaultQuery EXCEPT !.cohort = c] : c \in Cohort}
    \cup {[DefaultQuery EXCEPT !.states = {"trial", "grace"}],
          [DefaultQuery EXCEPT !.plan_ids = {CHOOSE p \in Plan : TRUE}, !.search = {1, 3}]}

(* s is to be above r.                                                     *)
Above(s, r, query) ==
    LET x == Sortable(s, query.field)
        y == Sortable(r, query.field)
    IN CASE x = None /\ y = None -> s.user_id < r.user_id
         [] x # None /\ y = None -> TRUE
         [] x = None /\ y # None -> FALSE
         [] OTHER -> \/ query.descending /\ (x > y \/ (x = y /\ s.user_id > r.user_id))
                     \/ ~query.descending /\ (x < y \/ (x = y /\ s.user_id < r.user_id))

(* The table's pages are the matching rows, cut: on page p stands each row *)
(* with as many rows above it as that page's places, whatever it is sorted *)
(* by, with those that have no value last in both directions, and a page   *)
(* past the end still tells the total (list_subscribers).  Looked at when  *)
(* every request has been answered.                                        *)
PagesAreCut ==
    /\ walk.pc = "away" /\ pending = <<>>
    /\ \A r \in Request : req[r].pc \in {"ok", "refused", "not_found"}
    =>  \A q \in Queries :
            LET rows == Found(records, Projection, q, now)
                above == [r \in rows |-> Cardinality({s \in rows : s # r /\ Above(s, r, q)})]
            IN \A p \in 1 .. Cardinality(rows) + 1 :
                 LET answer == ListSubscribers(records, Projection, [q EXCEPT !.page = p], now)
                     first == (p - 1) * q.page_size
                 IN /\ answer.total = Cardinality(rows)
                    /\ ToSet(answer.items)
                         = {r \in rows : above[r] \in first .. first + q.page_size - 1}
                    /\ \A i \in DOMAIN answer.items : above[answer.items[i]] = first + i - 1
=============================================================================
