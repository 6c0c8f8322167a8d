------------------------------- MODULE Seeder -------------------------------
(***************************************************************************)
(* A world that is lived in: src/backend/app/seed/run.py and activity.py   *)
(* produce its history by running the engine day by day, and the time      *)
(* machine winds it on with the same code.  Between the windings real time *)
(* goes by and the ticker runs alone.                                      *)
(*                                                                         *)
(* The engine and its storage never suspend, so nothing comes between the  *)
(* days of one run but the wall clock, which the world's clock follows.    *)
(* What is drawn from a random stream is a choice.  Referrals, which move  *)
(* no subscription, and the display names are left out.                    *)
(***************************************************************************)
EXTENDS Analytics

CONSTANTS
    MaxUsers,            \* bound on the arrivals
    Offered,             \* codes some of them redeem
    FirstDays, MaxDays,  \* days of the history, and of all that is wound
    MaxWall,             \* bound on what real time goes by
    FRESHEST,
    QUIET_WINDOW, PRESENT_WINDOW, EXPIRED_WINDOW, CANCELLED_WINDOW   \* <<low, high>>

ASSUME SeederAssumption ==
    /\ None \notin Int /\ FRESHEST \in Nat
    /\ MaxUsers \in Nat /\ Offered \subseteq Code
    /\ FirstDays \in Nat \ {0} /\ MaxDays \in Nat /\ MaxWall \in Nat
    /\ \A window \in {QUIET_WINDOW, PRESENT_WINDOW, EXPIRED_WINDOW, CANCELLED_WINDOW} :
         window \in Nat \X Nat /\ window[1] <= window[2]

(* A plan's grace outlasts a day and what real time goes by (catalogue.py: *)
(* five days and more).                                                    *)
ASSUME GraceAssumption == \A plan \in Plan : GraceDays[plan] >= Day + MaxWall

VARIABLES
    wall, offset,        \* OffsetClock: real time, and what is laid on top
    records,             \* the engine's storage, user |-> record; users arrive as 1, 2, ...
    journal,             \* what the sink was given, in its order
    day, joined_on, ruled_on, last_active, quiet, decided,   \* Population
    left, stock,         \* days of this run to go, and whether stock is to be taken
    projection, report,  \* what the last run left in subscriber_view, and its figures
    rolls,               \* History: the renewals each user was decided about
    lives,               \* History: who came, went and paid, told by their records
    arrived              \* History: the moment each user arrived

vars == <<wall, offset, records, journal, day, joined_on, ruled_on, last_active, quiet, decided,
          left, stock, projection, report, rolls, lives, arrived>>

history == <<rolls, lives, arrived>>

population == <<day, joined_on, ruled_on, last_active, quiet, decided>>

LIVE == {"trial", "active", "grace"}

(* OffsetClock.now                                                         *)
Now == wall + offset

Running == left > 0 \/ stock

Users == DOMAIN records

Nothing == [x \in {} |-> None]

-----------------------------------------------------------------------------
(* One day *)

(* What somebody may decide.  A renewal is decided about once, when it is  *)
(* less than a day away, and everything else every day.                    *)
DueSoon(rec, now) == Due(rec) # None /\ Due(rec) - now < Day

(* Fault: the day it falls due decides again.                              *)
RollsEveryDay(u, rec, now) == rec.state = "active" => DueSoon(rec, now)

Rolls(u, rec, now) ==
    rec.state = "active" => DueSoon(rec, now) /\ (u \in DOMAIN ruled_on => ruled_on[u] # Due(rec))

MayDecide(u, rec, now) ==
    {"pass"} \cup (IF rec.state = "active" THEN {"cancel"} ELSE {})
             \cup (IF rec.state # "cancelled" /\ Rolls(u, rec, now) THEN {"pay"} ELSE {})

(* Arrivals of a day: a plan each, and a code some of them redeem.         *)
Welcome(arrival, now) ==
    LET begun == Subscribe(None, arrival.plan, now)
        redeemed == Redeem(begun.rec, arrival.code, FALSE, now)
    IN IF arrival.code = None THEN begun ELSE [redeemed EXCEPT !.events = begun.events \o @]

Decide(rec, choice, now) ==
    CASE choice = "pass" -> Out(rec, <<>>)
      [] choice = "cancel" -> Cancel(rec, now)
      [] choice = "pay" -> Pay(rec, Price[rec.plan], now)

(* What a day makes of somebody who decides so, the tick at its end        *)
(* included.  path is History: every record it goes through.               *)
DayOf(rec, choice, now) ==
    LET decide == Decide(rec, choice, now)
        tick == CaughtUp(decide.rec, now)
        before == IF choice = "pass" THEN <<rec>> ELSE <<rec, CaughtUp(rec, now).rec>>
    IN [rec |-> tick.rec, decided |-> decide.events, ticked |-> tick.events,
        path |-> before \o <<decide.rec, tick.rec>>]

Entries(user, events, now) ==
    [i \in DOMAIN events |->
        [user |-> user, type |-> events[i].type, at |-> now, detail |-> events[i].detail]]

(* What several people's events amount to, in the order of their arrival.  *)
Told(first, last, events, now) ==
    FlattenSeq([i \in 1 .. last - first + 1 |-> Entries(first + i - 1, events[first + i - 1], now)])

(* History: what a way through records amounts to.                         *)
Lived(user, path, now) ==
    LET life(kind) == <<[user |-> user, kind |-> kind, at |-> now, amount |-> 0]>>
        step(i) == CASE path[i].state \in LIVE /\ path[i + 1].state \notin LIVE -> life("went")
                     [] path[i].state # "active" /\ path[i + 1].state = "active" -> life("active")
                     [] OTHER -> <<>>
    IN FlattenSeq([i \in 1 .. Len(path) - 1 |-> step(i)])

Came(user, rec, now) == <<[user |-> user, kind |-> rec.state, at |-> now, amount |-> 0]>>
Paid(user, rec, now) == <<[user |-> user, kind |-> "paid", at |-> now, amount |-> Price[rec.plan]]>>

LivedDay(user, new, rec, choice, path, now) ==
    (IF new THEN Came(user, rec, now) ELSE <<>>)
    \o (IF choice = "pay" THEN Paid(user, rec, now) ELSE <<>>)
    \o Lived(user, path, now)

(* Everybody spends the day as they decide, those who have just come as    *)
(* well; here is what their records are when it begins.                    *)
Spend(welcome, here, choice, now) ==
    LET all == Len(here)
        spent == [u \in 1 .. all |-> DayOf(here[u], choice[u], now)]
        rolled == {u \in 1 .. all : here[u].state = "active" /\ choice[u] # "cancel"
                                     /\ Rolls(u, here[u], now)}
    IN /\ \A u \in 1 .. all : choice[u] \in MayDecide(u, here[u], now)
       /\ records' = [u \in 1 .. all |-> spent[u].rec]
       /\ journal' = journal \o Told(Cardinality(Users) + 1, all,
                                     [u \in DOMAIN welcome |-> welcome[u].events], now)
                             \o Told(1, all, [u \in 1 .. all |-> spent[u].decided], now)
                             \o Told(1, all, [u \in 1 .. all |-> spent[u].ticked], now)
       /\ joined_on' = [u \in 1 .. all |-> IF u \in Users THEN joined_on[u] ELSE day]
       /\ ruled_on' = [u \in DOMAIN ruled_on \cup rolled |->
                          IF u \in rolled THEN Due(here[u]) ELSE ruled_on[u]]
       /\ rolls' = [u \in 1 .. all |-> (IF u \in Users THEN rolls[u] ELSE <<>>)
                                \o (IF u \in rolled THEN <<Due(here[u])>> ELSE <<>>)]
       /\ lives' = lives \o FlattenSeq([u \in 1 .. all |->
                        LivedDay(u, u \notin Users, here[u], choice[u], spent[u].path, now)])
       /\ arrived' = [u \in 1 .. all |-> IF u \in Users THEN arrived[u] ELSE now]

(* _one_day: the clock goes on, people arrive, everybody decides, and the  *)
(* engine ticks.                                                           *)
OneDay ==
    /\ left > 0
    /\ offset' = offset + Day /\ UNCHANGED wall
    /\ LET known == Cardinality(Users)
           now == Now + Day
       IN \E arrivals \in SeqOf([plan: Plan, code: Offered \cup {None}], MaxUsers - known) :
            LET all == known + Len(arrivals)
                welcome == [u \in known + 1 .. all |-> Welcome(arrivals[u - known], now)]
                here == [u \in 1 .. all |-> IF u \in Users THEN records[u] ELSE welcome[u].rec]
            IN \E choice \in [1 .. all -> {"pass", "cancel", "pay"}] :
                 Spend(welcome, here, choice, now)
    /\ day' = day + 1
    /\ left' = left - 1 /\ stock' = (left = 1)
    /\ UNCHANGED <<last_active, quiet, decided, projection, report>>

-----------------------------------------------------------------------------
(* Taking stock *)

(* age_of                                                                  *)
AgeOf(u) == (day - 1 - joined_on[u]) * Day

WindowFor(state, isQuiet) ==
    CASE state = "cancelled" -> CANCELLED_WINDOW
      [] state = "expired" -> EXPIRED_WINDOW
      [] OTHER -> IF isQuiet THEN QUIET_WINDOW ELSE PRESENT_WINDOW

(* Fault: the window is not clipped to the subscriber's life.              *)
LastSeenAtUnclipped(window, moment, age) ==
    {moment - Max({gap, FRESHEST}) : gap \in {window[1], window[2]}}

(* last_seen_at: the ends of what may be drawn.                            *)
LastSeenAt(window, moment, age) ==
    LET high == Min({window[2], age})
        low == Min({window[1], high})
    IN {moment - Max({gap, FRESHEST}) : gap \in {low, high}}

Redrawn == {u \in Users : u \notin DOMAIN last_active \/ records[u].state \in LIVE}

(* _take_stock: who has gone quiet is decided once, and a mark moves only  *)
(* forward.                                                                *)
TakeStock ==
    /\ stock
    /\ LET judged == {u \in Redrawn : records[u].state \in LIVE /\ u \notin decided}
       IN /\ decided' = decided \cup judged
          /\ \E gone \in SUBSET judged : quiet' = quiet \cup gone
    /\ \E drawn \in [Redrawn -> 0 .. Now] :
         /\ \A u \in Redrawn :
              drawn[u] \in LastSeenAt(WindowFor(records[u].state, u \in quiet'), Now, AgeOf(u))
         /\ last_active' =
              [u \in Users |->
                  IF u \notin Redrawn THEN last_active[u]
                  ELSE IF u \in DOMAIN last_active THEN Max({last_active[u], drawn[u]}) ELSE drawn[u]]
    /\ projection' = [u \in Users |-> [name |-> u, last |-> last_active'[u]]]
    /\ report' = [states |-> Snapshot(records),
                  quiet |-> Cardinality({u \in Users : records[u].state \in LIVE
                                                       /\ Now - last_active'[u] > QUIET_AFTER}),
                  ended_at |-> Now]
    /\ stock' = FALSE
    /\ UNCHANGED <<wall, offset, records, journal, day, joined_on, ruled_on, left, history>>

-----------------------------------------------------------------------------
(* carry_on: the time machine winds some more days.                        *)
CarryOn(days) ==
    /\ ~Running /\ day + days <= MaxDays
    /\ left' = days
    /\ UNCHANGED <<wall, offset, records, journal, population, stock, projection, report, history>>

(* Real time goes by, during a run as well.                                *)
Elapse ==
    /\ wall < FirstDays * Day + MaxWall
    /\ wall' = wall + 1
    /\ UNCHANGED <<offset, records, journal, population, left, stock, projection, report, history>>

(* The ticker, between the runs.                                           *)
Tick ==
    /\ ~Running
    /\ \E u \in Users : IsDue(records[u], Now)
    /\ LET out == [u \in Users |-> CaughtUp(records[u], Now)]
       IN /\ records' = [u \in Users |-> out[u].rec]
          /\ journal' = journal \o Told(1, Cardinality(Users), [u \in Users |-> out[u].events], Now)
          /\ lives' = lives \o FlattenSeq([u \in Users |-> Lived(u, <<records[u], out[u].rec>>, Now)])
    /\ UNCHANGED <<wall, offset, population, left, stock, projection, report, rolls, arrived>>

(* The world is built some days behind, and seeded.                        *)
Init ==
    /\ wall = FirstDays * Day /\ offset = -wall
    /\ records = Nothing /\ journal = <<>>
    /\ day = 0 /\ joined_on = Nothing /\ ruled_on = Nothing /\ last_active = Nothing
    /\ quiet = {} /\ decided = {}
    /\ left = FirstDays /\ stock = FALSE
    /\ projection = Nothing
    /\ report = [states |-> [s \in State |-> 0], quiet |-> 0, ended_at |-> None]
    /\ rolls = Nothing /\ lives = <<>> /\ arrived = Nothing

Next ==
    \/ OneDay \/ TakeStock
    \/ \E days \in 1 .. MaxDays : CarryOn(days)
    \/ Elapse \/ Tick

Spec == Init /\ [][Next]_vars

-----------------------------------------------------------------------------
(* Properties *)

(* Everybody whose period ends is asked for the next one exactly once: no  *)
(* renewal is decided about twice, on the day before it falls due and the  *)
(* day after, and on no day of a run does a period run out for somebody    *)
(* who did not cancel and was not asked (_one_day, ruled_on: without it    *)
(* "renewal = 0.89 would actually mean a 99% chance").                     *)
RenewalsAreRuledOnce ==
    [][/\ \A u \in DOMAIN rolls' : IsInjective(rolls'[u])
       /\ \A u \in Users :
            /\ left > 0 /\ records[u].state = "active" /\ records'[u].state \in {"grace", "expired"}
            /\ records'[u].cancelled_at = records[u].cancelled_at
            => Due(records[u]) \in ToSet(rolls'[u])]_vars

(* Taking stock never makes activity un-happen: a mark only moves forward, *)
(* not at all for somebody who has left, never to within FRESHEST of now,  *)
(* never to before the subscriber existed unless FRESHEST demands it; and  *)
(* whoever has gone quiet stays silent for the quiet window or their life, *)
(* however often the clock is wound (_take_stock, last_seen_at).           *)
MarksAreHonest ==
    [][stock =>
       /\ quiet \subseteq quiet' /\ quiet' \cap decided \subseteq quiet
       /\ \A u \in Users :
            LET known == u \in DOMAIN last_active
                silence == Now - last_active'[u]
                moved == ~known \/ last_active'[u] # last_active[u]
            IN (last_active' # last_active) =>
                 /\ known => last_active'[u] >= last_active[u]
                 /\ known /\ records[u].state \notin LIVE => ~moved
                 /\ moved => /\ silence >= FRESHEST
                             /\ last_active'[u] >= arrived[u] \/ silence = FRESHEST
                 /\ moved /\ u \in quiet' /\ records[u].state \in LIVE
                      => silence >= Min({QUIET_WINDOW[1], AgeOf(u)})]_vars

(* How many entries of a kind a span of time saw.                          *)
Happened(kinds, since, until) ==
    Cardinality({i \in DOMAIN lives :
                    lives[i].kind \in kinds /\ since <= lives[i].at /\ lives[i].at < until})

(* The windows that are tried: from the start to where something happened, *)
(* from there to the end, and what the route fills in.                     *)
Windows ==
    LET moments == {lives[i].at : i \in DOMAIN lives} \cup {None}
    IN {PeriodOf(0, until, Now) : until \in moments \cup {Now + 1}}
       \cup {PeriodOf(since, Now + 1, Now) : since \in moments}
       \cup {PeriodOf(None, None, Now)}

Total(query) == ListSubscribers(records, projection, query, Now).total

CountedFromTheJournal ==
    /\ \A window \in Windows, grain \in Grain :
         LET since == window[1]
             until == window[2]
         IN (0 <= since /\ since < until) =>
            LET flow == Flow(journal, since, until, grain)
                from(b) == Max({b, since})
                to(b) == Min({until} \cup {c \in DOMAIN flow : b < c})
                funnel == Funnel(journal, since, until)
                came == {lives[i].user : i \in {j \in DOMAIN lives :
                            lives[j].kind \in {"trial", "expired"} /\ since <= lives[j].at /\ lives[j].at < until}}
                everActive == {lives[i].user : i \in {j \in DOMAIN lives : lives[j].kind = "active"}}
            IN /\ \A b \in DOMAIN flow :
                    /\ flow[b].joined = Happened({"trial", "expired"}, from(b), to(b))
                    /\ flow[b].left = Happened({"went"}, from(b), to(b))
               /\ Min(DOMAIN flow) <= since
               /\ funnel.arrived = Cardinality(came)
               /\ funnel.paid = Cardinality(came \cap everActive) /\ funnel.renewed <= funnel.paid
               /\ funnel.started_a_trial = Happened({"trial"}, since, until)
    /\ \A months \in 1 .. 3 :
         LET revenue == Revenue(journal, Now, months)
         IN MapThenSumSet(LAMBDA b : revenue[b], DOMAIN revenue)
              = MapThenSumSet(LAMBDA i : lives[i].amount,
                              {i \in DOMAIN lives : lives[i].at >= FirstMonth(Now, months)})

CountedFromTheRecords ==
    LET quietRows == Total([DefaultQuery EXCEPT !.cohort = "quiet"])
        bands == Quiet(records, projection, Now)
    IN /\ \A s \in State : Snapshot(records)[s] = Total([DefaultQuery EXCEPT !.states = {s}])
       /\ MapThenSumSet(LAMBDA i : bands[i], DOMAIN bands) = quietRows
       /\ report.ended_at = Now /\ report.states = Snapshot(records) => report.quiet = quietRows

(* The figures are what happened: over any window and grain each bucket    *)
(* has the arrivals and departures of its days, the funnel the people who  *)
(* came, the revenue every payment since its first month; and the figures  *)
(* of where everybody stands are the totals of the table that a click on   *)
(* them opens (movements.py, standing.py, query.py).  The journal is       *)
(* looked at when the last day of a run is over, the rest between runs.    *)
FiguresAddUp ==
    /\ stock => CountedFromTheJournal
    /\ ~Running => CountedFromTheRecords
=============================================================================
